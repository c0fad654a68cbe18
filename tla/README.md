# kmsrs-os: TLA+ specifications, model checking and proofs

kmsrs-os is a KMS (volume activation) host in Rust: a TCP server, a bare-metal
image built around it, a diagnostic client, and the generator of the product
tables all of them share. This directory holds TLA+ modules translated from its
source, the TLC configurations that check them on small instances, and TLAPS
proofs that hold for every instance. `PROJECT.json` maps every definition to the
lines it models and lists runs, mutants, findings, hazards and theorems; paths
below are relative to `src/crates/`.

To check a run: `tlc -config <Run>.cfg <MCModule>`. To check the proofs:
`tlapm WebProofs.tla`, and the same for `OrderFacts`, `DriverProofs`,
`NetworkProofs`, `MachineProofs`, `ConnectionProofs`, `PolicyProofs` and
`ClientProofs`.

## 1. Inventory

The server runs on a single-threaded tokio runtime. What a task does between
two awaits is atomic; tasks interleave at awaits. The signal handler runs on its
own thread; so do, on the bare-metal image, the console pump, the power-button
watchers and the guest agent. The client's load generator is a program of its
own and uses one thread per worker.

| part | state | operations | what makes it correct |
|---|---|---|---|
| Negotiation (`kmsrs-proto/src/wire/bind.rs`, `syntax.rs`) | none (pure) | parse, decide, write_ack | at most one context accepted; a usable offer is never refused |
| Connection (`wire/connection.rs`, `header.rs`, `fault.rs`, `stub.rs`; the loop in `kmsrs-server/src/server.rs`) | phase, accepted contexts, receive buffer, reassembly buffer, event ring | receive, step, bind/alter, request, drain | framing kept whatever the cuts; each PDU answered once, in order, on an acknowledged context; each event and grant accounted for; the loop ends |
| Payload codec (`kmsrs-proto/src/kms/`) and cryptography (`kmsrs-crypto`) | none (pure) | encode, decode, dispatch, seal, validate | what this host answers passes the client's twelve checks; another host's mistake fails the checks that are about it |
| Client counts (`kmsrs-policy/src/counting.rs`) | per application, machines by age | observe, expire, bucket_for | bounded, exact below the bounds, plausible above |
| Rate limiter, access list (`kmsrs-policy/src/access.rs`) | token buckets by source | admit, bucket_for | never over burst + rate, never under half of it; a quiet source is let in |
| Event log (`kmsrs-policy/src/events.rs`) | ring of events, two drop counters | record, expire, recent, clients, distinct_machines | newest events, no gap, nothing lost silently |
| Activation decision (`kmsrs-server/src/host.rs`, `kmsrs-policy/src/gate.rs`) | the counts and the log | activate | counts, log and answer agree; refusals count for nothing |
| Host identity (`kmsrs-policy/src/identity.rs`, `kmsrs-proto/src/entropy.rs`, `kmsrs-db/src/date.rs`) | what is drawn at start: build, locale, a key and a date per host key | generate, select, fallback | each ePID is one a genuine host could have; requests are answered as the right host key |
| Product database (`kmsrs-dbgen`, `kmsrs-db/build.rs`, `query.rs`) | products, host builds, keys and locales as they are joined | absorb, join, emit, build, look up | a product's source is its oldest image; exactly the genuine keys can be drawn; bad input stops the build |
| Driver (`kmsrs-server/src/net/driver.rs`) | permits, web share, tasks, shutdown flag and channel | run, accept_loop, serve, entropy_watch, request | permits conserved; no shutdown lost; a drain is complete; slow peers end |
| Web UI (`kmsrs-server/src/web/`) | request head being read, what each page shows | serve_web, parse, route, pages | the answer depends on the request and not on its cuts; pages show the newest of the log; a broken entropy source shows |
| Start-up, configuration, listeners, sandbox, service (`kmsrs-server/src/entry.rs`, `config/`, `net/listener.rs`, `net/addr.rs`, `platform.rs`, `sandbox.rs`, `service.rs`, `eventlog.rs`) | settings, sockets, handler, privileges, what the service manager was told | one step each, in order | nothing given up is needed later; the service manager is told the truth |
| Bare-metal init (`kmsrs-os/src/main.rs`, `console.rs`, `power.rs`, `agent.rs`) | consoles and the pipe to them, button watchers, the agent's channel | mount, tee, pump, watch, serve requests, power off | whoever asks, one clean stop; a stalled console blocks nobody; an agent client reads its own reply |
| DHCP client (`kmsrs-os/src/net/lease.rs`, `client.rs`, `link.rs`) | interface, lease, timers, back-off, address applied | acquire, on_time, on_message, apply, withdraw | the leased address is on the interface and nothing else; expiry acted on; never wedged, never storming |
| Clock discipline (`kmsrs-os/src/net/sntp.rs`, `kmsrs-server/src/clock.rs`) | sources of servers, the round being asked, the machine's clock, the anchor of the gate's clock | publish, servers, ask, reading, apply, discipline | the two clocks agree; a believed server is followed; asking never ends |
| Client (`kmsrs-client`, `wire/client.rs`) | arguments, candidates, session, the observations of a probe, counter and plans shared by workers | parse, discover, probe, health check, charge, soak | what it reports is true of the host; an answer is the request's own; the run ends |

How they interact: an accept loop of the driver takes a permit and starts one
`serve` task per connection. Every read passes the rate limiter and then goes,
under one lock, to `Server::handle`, which feeds the connection's state machine
and loops over its steps; a complete request is decoded and decided by
`Host::activate`, which asks the gate (over the compiled tables), counts a grant
and logs either way; the response carries the ePID of the host key `select`
finds. The connection's own event ring and the host's event log are then drained
into log lines, and the response is written outside the lock. Counts, log and
rate limiter are shared by all connections, and the web UI renders a snapshot of
them. Start-up reads the configuration, draws the identity, binds, installs the
stop handler, gives up privileges and runs the driver; on the image it is
process 1, printing into a pipe, and the power button and the guest agent stop
it with a signal to itself. The DHCP client is a task of its own that touches
the kernel's interface and a published copy of the address; what a lease says of
time servers reaches the clock task over a watch channel, and that task moves
the clock the gate measures client skew against.

What is hard here: the stream may be cut anywhere and PDUs pipelined; calls are
fragmented and interleaved with alterations; every table is fixed-size and
evicts; expiry, eviction and time stamps interact; the entropy source can fail
after a grant is counted, or break later; the shutdown request is two stores
that race every task's subscription, and on the image a signal that the kernel
may discard or merge; a console that stalls can block whoever prints; deadlines
race reads and writes; DHCP replies are late, repeated or wrong, and netlink
calls fail half way; time answers belong to other requests, and NTP's era turns;
replies arrive after the client gave up on them; the order in which images are
absorbed decides what a host may claim. `PROJECT.json` lists these as hazards,
each at its line with the properties aimed at it.

## 2. Plan

Done: all modules of section 3. Two refinements are stated and proved. Host
implements ClientCounts driven by grants alone (`CountsRefined`, also checked), and
what is proved of ClientCounts holds of the host by it. Web implements the event
log (`WebKeepsLog`), and what is proved of the log holds of the pages made from
it. Every safety property of a run is proved for all values of the constants
except those section 6 names at its end.

Left, in order of worth:

1. An abstract server ("each request is decided once and answered at most
   once") refined by Connection with Host.
2. Proofs of what rests on folds and sorts (`CutsDoNotMatter` in full,
   `AnswersAsKeyHolder`), with a prover that can use induction theorems.
3. A driver whose writes have a deadline, once the code has one: `ShutdownEnds` and
   `SlowPeerEnds` then lose their hypothesis.
4. Larger instances of Machine (two buttons, two consoles) once its state is
   smaller.

## 3. Modules and the code they model

**Bind**: `Parse`, `Decide` and the length of an acknowledgement. An item is
`[context_id, kms, offered]`, with `offered` the syntaxes as the parser tells
them apart; `ResultFor` and `Preferred` are the choices `decide` makes.

**Connection** (extends Bind): struct `Connection` field by field, and the loop
of `Server::handle` as the variable `control`. A byte stream is a sequence of
units `[pdu, at]`; a header is one unit, so that frames can be cut anywhere.
`Receive` is `Connection::receive`; each early return of `step` is an action
(`NeedMore`, `RejectLength`, `BadVersion`, `Authenticated`, `RejectPdu`,
`HandleBind`, `RequestUnbound`, `StrayContinuation`, `UnknownContext`,
`ReassemblyOverflow`, `HoldFragment`, `BadStub`, `UnsupportedKms`,
`PolicyRefuses`, `PolicyGrants`); `Drain` is the end of `handle`. Entropy may fail
in any acknowledgement and any v5/v6 response. A KMS payload is only its
version here. `taken` holds the PDUs that are answered: a fragment put aside
asks for more and is not among them. `Without` is the `retain` of
`alter_context`, which keeps one context per syntax. `Connection.deadline` is left out: nothing in the server reads it.

**Crypto**, **Codec**, **Exchange**: one association in full. Crypto has blocks
as terms: encryption and decryption under one key undo each other, a mask
cancels, digests are injective, and nothing else is equal by chance; modes,
padding, key choice and the time-slot arithmetic are computed. Codec has the
layout of requests and responses of the three versions, their lengths in bytes,
what decoding refuses and in which order, and the twelve checks of
`validate.rs`. Exchange has the NDR stubs and the two ends: `Open` and `Ask` are
`Session::open` and `activate`, `Answer` is `Connection::answer` of this host,
`AnswerWrong` a host that gets one thing wrong (a `Mistake`; a NUL inside the
ePID needs an ePID that has an inside), `ReadReply` the client's reading and
judging.

**ClientCounts**, **RateLimiter**, **EventLog**: one operator per function and
an action that applies it at the current time. Each table's capacity is a
constant. Instants are integers advanced by `Tick`; the limiter keeps several
ticks to a second because refill rounds down to whole seconds.

**Host**: `Activate` is `Host::activate`: `Evaluate` (the gates in order), then
`Counts!ObserveRequest` on a grant, then `Log!Record`. `EndHandle` is the part of
`Server::handle` that writes a line for each event since `logged_through`
(`Since`: the code filters by number, and numbers grow along the log). The
products it knows are those the model's tables look up.

**Extract**, **Tables**, **Calendar**, **Identity**, **Database**: from artifacts
to answers. Extract is kmsrs-dbgen: directories in the order of `SOURCES`, each
artifact absorbed in turn (`AbsorbArtifact`), the join with licences, the scraped
key and locale pages (as the rows scanned from them), the curated builds; any unreadable or contradictory input
fails the run. Tables is emission, the build script's reading with each of its
refusals, the assertions the compiler evaluates, and the lookups, `binary_search`
being core's. Calendar is `date.rs`, with its real arithmetic. Identity has
`uniform_below` with its rejection, the draws of a key, a date, a build and a
locale, and the choice of a host key. Database runs them one after the other.

**Driver**: an action is what a task does between two awaits. The signal
handler's two stores are `FirstSignal` and `SendReplace`; `SpawnLoop` records
whether the channel was already written when that loop subscribed, and
`LoopHears` needs a later change; `SpawnFails` is a listener that `from_std` refuses,
with which `run` returns an error. `TurnAway`, `TakeOn` and `End` move the permits;
`Expire`, `ReadEnds`, `Handle`, `Written`, `WriteFails` and `Closed` are the awaits
of `serve`. A write is awaited without a deadline, as in the code.

**Web** (extends EventLog): `serve_web` takes any number of units off the wire;
`parse_at_end`, `Parsed` and the error of each line are `request.rs` in its order
of checks; `route` and `answer` render a page as a record of what it shows of the
log, the counts' snapshot and the lease. `entropy_watch` re-tests the source,
which may turn at any time (`SourceTurns`); `Log` and `publish` are the other
tasks that change what a page shows.

**Startup**, **Agent**, **Machine**: one run of the process. Startup has the
steps of `entry.rs` in order, each with its refusals and exit code, the order
on Windows and on the image being different; the stop handler (`HandleAtOnce`,
`Handle`), and what the service manager and event log are told; `SpawnLoops` is the
beginning of `Driver::run`, which may return an error after Running was announced.
Agent is the
thread on the virtio channel and the clients at its other end, one after the
other; the channel carries tokens and a read may end between any two. Machine
puts both on the image: mounting, the pipe and the pump, button watchers,
signals that are discarded while there is no handler and merge with a waiting
one, powering off. Serving is Driver's and appears as connections that come and
go. A console the pump gives up changes only where lines appear, so the pump is
there or not.

**Lease**: acquiring an interface (`Acquire` is one pass over `Interface::find`
and bringing it up; `Plug` is a device that appears), then struct `Lease` with
instants kept as time left, `on_time` as one action per state, `on_message` as
`AcceptOffer`, `AcceptAck`, `AcceptNak`, and the caller's `apply` and `withdraw`
inside the action that causes them. To the kernel an address is a pair with its
prefix length: `kernel` holds the pairs really on the interface, `applied` the one
the task believes is there. `SocketFails` ends the task and leaves the address; time
goes on (`Tick`) and what was granted runs out under it. The replies are any that the configured
segment's servers may send, at any time.

**Clock**: a clock is kept as its error, how far it is ahead of true time, so
that time need not be counted; the instant of an exchange is chosen from a set,
since minutes pass between rounds. `ntp_timestamp` and `unix_nanos` are the real
conversions, with the era and both roundings; `usable` and `offset` are `reading`;
`apply` steps CLOCK_REALTIME (which the kernel may refuse) and then the anchor of
`WallClock`, to the second. `BeginRound`, `Resolved`, `AskFails`, `Answered`,
`NothingAnswered` and `Wake` are `discipline` between its awaits; `Publish` is the
lease task's. A reply answers this request or an earlier one; servers are wrong
by different amounts; the two directions take different times. `Drift` moves both
clocks alike, since the image is built without suspend. Mode, leap and stratum
are one flag, `synchronised`.

**Client** (extends Bind), **ClientTool** (extends Client): Client has
`Soak::worker` as one action per atomic update, lock or wait of a thread: `Take`
and `Draw` reach the counter and the plans, `Connect`, `Bound` and `OpenFails` are
`Session::open`, `Send`, `ReadGood`, `ReadBad` and `ReadFails` are `activate`,
`SeeEpid` is the second lock of `record_success`. ClientTool is the program
around it: arguments in order, SRV records ordered by priority and drawn by
weight (`Order` takes one record of the lowest priority left, by the running sum
of the weights), the first address that works, the probe's pairs of exchanges and its
verdict, the health check, charging round by round, the soak, the exit code.
Hosts come up and break, and others are activated or expire, between any two of
its steps.

**MC modules** give the constants their values. Four of them hold several
components that share no state, and choose at the start which is driven while
the others stand still: MCClient (the program; one association), MCHost (Host;
Database; ClientCounts; RateLimiter), MCNetwork (Clock; Lease), MCWeb (Web;
Driver). MCDriver has Driver alone, with applications to tell rate-limit keys
apart by. MCWeb also holds the bounds of the web UI's part (`Within`) and conjoins
each fair action with the choice of its part.

**OrderFacts**, **WebProofs**, **DriverProofs**, **NetworkProofs**,
**MachineProofs**, **ConnectionProofs**, **PolicyProofs**, **ClientProofs**: see
section 6. The variables called observers in the modules (`taken`, `recorded`,
`own`, `late`, `overdue`, `hush`, `born`, `spilled`, `reference`, `complaints`,
`exchanged`, `strayed`, ...) are read by no action of the code.

## 4. Runs

| run | what it shows |
|---|---|
| `conn` | Four kinds of client, up to four pipelined PDUs, every cut of the stream, entropy failing anywhere. Buffers stay within capacity and start on a PDU boundary (`InFrame`), every PDU gets its one reply in order (`EveryPduAnswered`), calls are served only on acknowledged contexts (`ServedOnAcknowledged`), no event is lost silently and a counted grant reaches the client or the connection closes (`Accounted`), the loop ends (`HandleEnds`). |
| `client` | One run of the program in each mode, against this host, a genuine one and hosts that differ: no reply is taken for another request's although identifiers are not relied on (`OwnAnswer`); the host settled on, the verdict and the outcome of a charge are true (`ReportIsTrue`); the run ends and a soak counts every request once (`RunEnds`). Or one association at the code's real caps: one syntax of a usable offer is accepted (`AcceptsOne`), this host passes all checks for every version, syntax, clock and ePID length (`HonestHostPasses`), and a host with one mistake fails exactly the checks about it (`DeviationDiagnosed`). |
| `web` | The log holds the newest events without a gap and accounts for all others (`HoldsTheNewest`), expiry removes exactly what left the window (`WindowKept`), the fleet view is what the log says (`FleetView`); a request is answered by what it says however it is cut (`CutsDoNotMatter`), the events page lists the newest events of the log, each once, and its numbers add up (`PageIsRecent`), a source that breaks or repeats itself for good shows and one that recovers is believed (`BreakageShows`). Of the driver: permits conserved over all refusals and ends (`BudgetConserved`); at most one connection more per listener after the flag (`AtMostOneMore`); no shutdown request is lost (`ShutdownEnds`) and no slow peer lives for ever (`SlowPeerEnds`), as long as what is written gets read. |
| `host` | The counts refine ClientCounts driven by grants only (`CountsRefined`), every live machine is explained by a grant in the log (`LogExplainsCounts`), one line per request (`EveryRequestLogged`). And from artifacts to answers: `SourceIsOldest`; exactly the genuine keys are drawn, each by equally many words (`KeyDrawIsUniform`); the date an ePID names exists and lies between the build's release and today (`EPidIsPlausible`); requests are answered as the most specific host key that counts the product, and an unknown product as the broadest one of its application (`AnswersAsKeyHolder`). And the two tables on their own, overflowing: counts exact below the bounds and plausible above, only an expired or the stalest bucket displaced (`CountsKept`); never over burst plus rate, never under half of it, and a source quiet for a second admitted even by a full table (`RateKept`). The rate is per bucket: a source that was forgotten starts again. |
| `machine` | The image, a service and a console program. Requests to stop from any side at any time are one clean stop, except that a second one during a drain ends the process at once (`CleanStop`); the service manager is told of a failed start that it failed and of a stop only when no connection is left, after a drain or else after a run whose listeners the runtime refused, which only exit code and event log show (`ServiceTold`); a client of the agent that synchronised reads only its own replies (`OwnReply`); nothing given up is needed later (`NothingNeededGivenUp`); booting ends, a request to stop ends the serving and the machine goes off once no connection is left, whatever thread or console fails (`StopHonoured`). |
| `network` | The gate's clock is the machine's to the second (`ClocksAgree`); after an answer that could be applied, the machine's clock is the server's to within the threshold plus what a reading can be off by, across the turn of an era and from any boot error (`SynchronisedWithin`). Whatever arrives and whichever kernel call fails, the leased address is on the interface and the task believes what is true of it, and where the servers agree on the netmask nothing else is there (`InterfaceFollowsLease`); a running client gives an expired lease up within two retry floors (`ExpiryHonoured`). Neither task stops trying, and the DHCP client is silent after a NAK (`NeverGivesUp`). |
| `conn_need_more` | *Violation.* A fragment put aside answers `NeedMore` with the rest of the call already buffered, so a client that sends a fragmented call in one segment waits until it sends something else. |
| `driver_key` | *Violation.* A connection's rate-limit key is the newest event of the whole host. |
| `exchange_refusal` | *Violation.* The client reads three length fields of every response; a refusal of this host has two, so its HRESULT is never seen. |
| `lease_mask` | *Violation.* An ACK with the same address and another netmask adds a second pair to the interface and forgets the first; when the address then moves, the first stays: two addresses where `client.rs:353` promises one. |
| `web_order` | *Violation.* `events_page` reverses what `recent` returns newest first, so `/events` has the oldest on top, against its own comment (`routes.rs:410`), `docs/reference.md:26` and the text asserted by `kmsrs-server/tests/reference_docs.rs:78`. |
| `agent_sync` | *Violation.* The reply to guest-sync-delimited begins with the character U+00FF, encoded as C3 BF, and not with the byte 0xFF. |

Several properties are conjunctions of named parts stated in the component's
module: `Accounted` is `GrantsDelivered` and `EventsAccounted`; `CountsKept` is
`CountIsExact` and `StaleBucketDisplaced`; `RateKept` is `NeverOverRate`,
`AtLeastHalfRate` and `QuietSourceAdmitted`; `HoldsTheNewest` is `NothingLost` and `Contiguous`;
`InterfaceFollowsLease` is Lease's types, `NothingLeftBehind`,
`LeaseIsOnInterface` and `BelievesOnlyTheLease`; `NeverGivesUp` is `QuietAfterNak`, `KeepsLooking`,
`KeepsAsking`, `ExpiryActedOn` and `PollsForEver`;
`CountsRefined` is the specification of ClientCounts and `GrantsDrive`;
`ReportIsTrue` is `FirstWorking`, `VerdictEarned` and `ChargeReaches`; `AcceptsOne`
is `OneAcceptance` and `UsableOfferAccepted`.

Every property of a passing run has a mutant in `PROJECT.json`: a plausible
mistake in one mapped definition under which TLC finds that property violated.

### Observations without a run

Met while modelling; each is a place where a comment or a document and the code
part, or where a reader may be surprised.

Protocol and server:

- `wire/bind.rs`: refusals for items past the cap are pushed into a list whose
  capacity is the cap, so they are dropped although the comment says they are
  not; and an acknowledgement of 15 or 16 results does not fit the 384-byte
  buffer of `server.rs`, which closes the connection.
- `wire/connection.rs` `receive`: well-formed PDUs sent back to back can overflow
  the buffer; the comment says only an overrun can. `Server::handle` then returns
  early and leaves the connection's events undrained.
- `wire/connection.rs` `syntax_for`: a context id accepted for both syntaxes in
  turn is looked up as the older one.
- `kmsrs-policy/src/access.rs:309`: a refill drops the fraction of a second that had
  passed, so a source that asks every 0.9 seconds earns one token in 1.8, although
  line 220 calls the constant how many requests per second a source earns back.
  `AtLeastHalfRate` is the bound that remains.
- `kmsrs-policy/src/gate.rs`: the gate looks a counted ID up in the table of
  activation IDs.
- `kmsrs-server/src/net/driver.rs:785`: the write of a response is awaited without
  a deadline, although line 145 says of the total deadline "however slowly it
  feeds us"; a peer that stops reading keeps its connection and its permit.
  `ShutdownEnds` and `SlowPeerEnds` have the end of a write as a hypothesis.
- `config/operational.rs:105`: the event log's capacity and retention are read and
  checked, but `Host::new` builds a default log.
- `entropy_watch` looks for zeros in the first of its two draws only.
- `web/request.rs`: of several Host headers, the first plausible one counts.

Start-up and the image:

- `entry.rs`: a second stop request during a drain is `process::exit(130)`, which
  for process 1 is a kernel panic. The service never reports StopPending, so a
  second STOP during a drain ends it the same way.
- `power.rs:26` says a second press works; `watch` returns after the first.
  `request_shutdown` prints that the host is draining even when the signal was
  discarded.
- `platform.rs:83` calls the time before the listeners exist the only window
  without a handler; the handler is installed after binding.
- `service.rs:178` says that `serve_reporting_ready` returns only once the drain is
  finished. It also returns when `Driver::run` fails on a listener (`driver.rs:450`),
  after Running was announced; the manager is then told Stopped with Win32(0), as
  after a clean stop, and the process's own exit code is 69.
- A start-up failure under the service manager writes nothing to the event log,
  against the header of `eventlog.rs`.
- `sandbox.rs`: Landlock and no_new_privs apply to the calling thread; the signal
  handler's thread is older.
- `agent.rs`: when more than `MAX_LINE` bytes are pending, complete lines among
  them are dropped too.

Network tasks:

- `kmsrs-os/src/net/sntp.rs`: up to a second of noise is added to the transmit
  timestamp and not taken off again, so an offset is too small by up to half a
  second and `delay_nanos`, documented at line 141 as how much the offset could be
  wrong by, does not show it. `Worst` in Clock has the real bound.
- `kmsrs-os/src/net/lease.rs`: the retry floor can carry a lease past its expiry,
  by at most two floors (`ExpiryHonoured` is that bound), where line 140 has the expiry
  as when the address must come off.
- `kmsrs-os/src/net/client.rs:209`: when the DHCP socket fails the task ends, and the
  address stays on the interface past its expiry, until a restart, as the message
  says. `ExpiryHonoured` is about a client that runs.
- `kmsrs-os/src/net/link.rs:350`: only the pair of an address and its prefix is
  replaced, where `lease.rs:123` says of `Configure` "replacing whatever is there"; see
  the run `lease_mask`.
- `kmsrs-os/src/net/link.rs` `choose`: always the first Ethernet interface, also
  when that one cannot be brought up and another could.

Client and generator:

- `kmsrs-client/src/session.rs:268`: `response_header_version` is what was sent, so
  one of the version words compared is never the host's (the outer version of a
  v5 or v6 response is checked separately). `Finding::ConnectionClosedEarly` is
  never raised, and a connection that breaks in the NDR32-only bind or in the
  absurd request of a probe is held against the host.
- `discover.rs:112`: a record of weight zero after a weighted one is never drawn
  first, against the comment on `order`.
- `load.rs`: a charge whose limit is spent is reported as saturated even while the
  count was still rising. `main.rs:425`: of several modes the last one counts. A
  probe with `--version` compares no groups.
- `kmsrs-dbgen`: two documents that agree on the group of a product but not on
  other fields are not told apart, and of two licences of one host key with
  different lists of products the first is kept (`extract.rs:147`), where line 34
  promises an error if two sources disagree about the same CSVLK. A heading inside
  a tab of a key page replaces the tab's label.
- `kmsrs-policy/src/identity.rs:242`: the build an ePID names is drawn independently of
  the host key, where `kmsrs-dbgen/src/lib.rs:104` says a key bounds the build.
  `EPidIsPlausible` is about dates, keys and the agreement of the groups.

## 5. Bounds and fairness

- Connection: PDUs of up to four units and a buffer of four, so that two calls
  fill it and a third overflows; a ring of two events, which one bind and one
  refused authentication overrun; two contexts, as in the code. The code treats
  all lengths alike between the tested limits.
- Client program: two workers and three requests, so that one worker is at its
  second request, on a kept or a new session, while the other is at its first;
  two breaks of hosts or connections; thresholds below and above what this host
  tracks. Association: the code's caps and byte lengths; binds of up to three
  items after none, nearly all or all of the items considered; clocks on both
  sides of a slot's edge; ePIDs of 0, 1, 22, 63 and 64 units. The scaled slot of
  nine ticks keeps the neighbouring slots distinct, as the real constants do.
- Counts and limiter: one more key than there is room for, and enough time for
  an entry to expire, be evicted and come back; demands of all that is tracked and
  of more (a demand of nothing is in the proofs). Three ticks to a second, so that
  requests two ticks apart lose a fraction at every refill.
- Web: a log of three with a window of two and four records; pages of two rows;
  heads of at most 14 units, with each limit reached and just passed, in reads
  of any length. Only requests that are wrong or split by headers are cut up, and
  those while nothing has been logged; the source and the network turn only until
  the log moves (`Within` in MCWeb).
- Host: up to two requests per call, a log of two, all gates on. Database: words
  of 0 to 15 and keys split at 4, so that rejection, saturation and both key
  fields occur; a year with a 29 February; input wrong in each way the code
  refuses.
- Driver: a budget of two, of which the web listener may have one, and two
  connections on either listener, so that the web share runs out and a second
  connection races the drain of the first. Both permits out and a third client
  at the door takes one connection more than fairness leaves room for; the
  safety properties are proved for any number of connections and any limit.
  Ages stop counting where they stop mattering.
- Machine: one button, one press, one console that opens or not, a pipe of one line (which fills
  at once), one connection, two clients of the agent with two commands each, and
  any thread, mount, console or system call failing.
- Lease: two prefixes for one address, or (in `NetworkMask.cfg`) for two, and else
  one; two addresses with T1 and T2 chosen by the server in either order, or
  one address with leases of 0 to 24 ticks around a retry floor of 4, and one
  that never ends; interfaces with and without a driver. The overdue counter is
  capped just above its bound.
- Clock: a second of three ticks, so that rounding shows; fractions of a quarter;
  an era of 16 seconds that turns at tick 21, with exchanges before and after
  it; boot errors on both sides of the threshold, down to 1970. `MaxError` keeps
  the host's clock between 1970 and 2104, where the code's reading of eras is
  defined.

Symmetry is used only in `host`, which has no liveness, over the machines,
applications and sources of the two tables on their own. Deadlock is not checked where the system may stop (a closed connection, a
returned driver, an exited process) or where a bound ends the run.

Fairness assumed. Connection: `handle` is one synchronous call, so it goes on
once it has input; nothing is assumed of the client. Driver: the runtime polls
every task that can run, time passes, the handler finishes its second store;
`select!` tries its branches in random order, so a deadline that is ready again
and again is taken in the end (strong fairness of `Expire`); no peer has to send,
read or close, and the two liveness properties say which peers they are about.
Web: the interval of `entropy_watch` fires; nothing else is fair. Machine: every
thread that can run does, the pump goes on reading the pipe, a signal sent while
there is a handler is handled. That connections end is not assumed, since a
response is written with no deadline (`driver.rs:785`): `StopHonoured` leads from a
request to the drain, and from a drain without connections to the end. Lease: time passes, a due timer fires, and looking for an
interface is repeated every `RETRY_INTERFACE`; no server has to answer and no
device has to appear. Clock: every await of the task is bounded by `TIMEOUT`,
`POLL` or `RETRY`; no server has to answer. Client: threads run and every wait on
a socket has the timeout of CLI-012; the host need never answer.

## 6. Proofs

`WebProofs` proves, for every capacity, retention period, clock bound and set of
requests, of the log: `LogTypeOK`, `LogHoldsTheNewest` (nothing lost silently, no
gap), `LogInOrder` and the action property `LogWindowKept`; and of the web UI over
it: `WebKeepsLog`, `WebFleetView`, `WebPageIsRecent` and `WebAnsweredAsWhole`. The
assumptions are `LogAssumption`, `WebAssumption` (positive limits) and
`WireAssumption` (what a peer sends is a finite sequence; it is put together with
a fold, of which nothing can be proved), which TLC evaluates in the `web` run.

None of the log's is inductive alone. The invariant is `LogInv`: types and capacity,
contiguous sequence numbers ending below `next_sequence`, time stamps that do
not decrease and do not pass `now`, and the counters' sum. The order of time
stamps is needed because expiry scans from the front and stops at the first
event still in the window: only in an ordered log is that the same as dropping
exactly the old ones (`OldArePrefix`), and that the rest is a suffix
(`AgedIsPrefix`, `KeptIsSuffix`) gives contiguity and the count of what was dropped.
`RoomIsMade` and `RecordShape` say what one `record` leaves; `LogInvInit` and
`LogInvNext` conclude. `OrderFacts` has the facts about numbers used: a
non-empty set of naturals has a least element, `CHOOSE` finds it, and running
sums given by a recursive function exist.

The web UI only reads the log: every step of it is a step of the log or leaves
it alone (`WebKeepsLog`), so the log's invariant holds of what a page is made
from. A fleet row is found by rank among the newest events of their keys: ranks
fall as sequence numbers rise, each rank is taken once (`RankFalls`, `RankTaken`),
and so rows are in order and one to a key (`RowsInOrder`); a row has an activation
exactly when its machine has an activated event (`RowActivated`), which gives the
machines (`MachinesAgree`). For the events page, the reversal of `recent` is the
tail of a contiguous log (`RecentTurned`), whose numbers are all those from the
first to the last. `AnsweredAsWhole` says that, wherever a
request is cut, it gets the verdict of `parse` on the whole of it. Its invariant
`ReadInv` has what `serve_web` keeps between reads: a prefix of the request in
which no head ends. Looking for the end again with more bytes finds the same end
(`HeadEndIs`, `HeadEndKept`), and what follows the end is not looked at.

`DriverProofs` proves, for every permit limit, every set of listeners (web or
not) and every finite set of connections: `DriverBudgetConserved`,
`DriverWebNeverStarvesKms`, `DriverDrainIsComplete` and `DriverAtMostOneMore`. The
assumption is `DriverAssumption`: positive limits, the web listeners among the
listeners, connections finite in number. The invariant is `DriverInv`: types,
the budget, `DrainIsComplete`, `LateIsLast`, and that nobody is live before the loops
are polled (`NobodyYet`), which makes a run that fails on a listener end with none. `LateIsLast` says that a listener
which took a connection on after the flag was set has ended: `AtMostOneMore`
alone would let such a listener go round again. The budget is a statement about
cardinalities, so what an action does to the sets of live connections is said
once (`SameLive`, `OneMoreLive`, `OneLessLive`) and each action reduces to one of
them (`ControlStep`, `ConnStep`, `EndStep`, `TakeOnStep`, `TurnAwayStep`);
`DriverInvInit` and `DriverInvNext` conclude. That no permit is taken below zero
comes from `NoRoom`; that a drain is complete needs the budget, since `run` counts
permits and not connections.

`NetworkProofs` proves, of the clock, `ClockClocksAgree`, `ClockComplainsOnce` and
`ClockSynchronises` for every length of second, era, threshold and set of
instants, delays, drifts, replies and server errors, from `ClockAssumption`. The
invariant of the first two is `ClockInv`: both clocks are integers, they agree to
the second, and the observer of complaints is 1 exactly while `complained` is
set. Agreement is kept by a step because the anchor is the corrected reading less
its fraction of a second, which is in `0..Second-1` whatever the offset.
`ClockSynchronises` needs that the host's clock stays within `MaxError` of true
time (`SyncInv`) and the second assumption, `EraAssumption`: delays have a
longest one, boot errors are at most `MaxError`, a server's error and the worst
reading together stay within it, and every instant stamped lies in the two eras
the code can tell apart. From there: a timestamp read back is the instant stamped
or the tick before (`FractionKept`, `SecondsKept`, `ReadBack`); a reply to an
earlier request never echoes this request's stamp (`StampsDiffer`), so its
readings are not used; the mean of the two differences is the server's offset to
within `Worst` (`MeanBound`, `ReadingBound`); and stepping by it leaves no more
(`ApplySynchronises`).

`MachineProofs` proves `MachineCleanStop`, `MachineServiceTold`, the action
property `MachineNothingNeededGivenUp` and `MachineOwnReply`, for every set of
buttons, consoles, ways of being started and commands, from the assumptions of Machine and
its parts; `AgentAssumption` has a command be a name on one line, and sizes be
positive. `ProcessInv` relates where `run` is to what else is true: connections
live only while it serves or drains, it is confined only after binding and never
as process 1, and the service manager's state follows it; what Start announces is
still announced while the loops are spawned (`Announced`, `SpawnKeeps`), also when
that fails. `TalkInv` is about the
agent's channel. That a synchronised client reads its own replies is not
inductive without what is still on the way: every text is followed by its
newline (a line is never joined to another's), the present client's sync is the
last text sent and its reply the last reply, and once it has read that there is
nothing left on either side to answer. `DropKeeps`, `LineShape` and `AnswerShape`
say what discarding, splitting and answering leave of the stream.

`NetworkProofs` proves, of the lease, `LeaseInterfaceFollowsLease`, `LeaseExpiryHonoured` and the
action property `LeaseQuietAfterNak`, from `LeaseAssumption`: back-offs in order,
jitter that makes no wait negative, a floor that is not zero, messages with the
fields a server can send. The first has
`LeaseInv`: a lease is held exactly in the states that use one, and whatever is
on the interface is what the task believes is there or could not be taken off.
That the last is said of pairs needs the netmask: where the servers agree on it,
every pair in play has the same one (`OneMaskInv`), so that an address which is
unchanged is a pair which is unchanged, and `apply` adds none.
The second adds `ExpiryInv`, a bound on the timer for each state: overdue time
plus what is left on the timer is within one floor before rebinding and two
while rebinding. It holds where the servers leave T1 and T2 to the client
(`Lazy`); a server may send a T2 past the end of its lease. The third has
`QuietInv`: the silence left is never longer than the timer.

`ConnectionProofs` proves `ConnectionInFrame`, `ConnectionAnswers`,
`ConnectionServes` and `ConnectionAccounts`, for every set of clients, every
bound and every cut of the stream, from `BindAssumption`,
`ConnectionAssumption` and `ClientsAssumption` (a PDU whose length is in range
has as many units as it declares; nothing is assumed of one out of range). The
invariant is `ConnectionInv`. Framing needs `FrameInv`: what is buffered together
with what is still on the wire is whole frames (`WholeFrames`), which a read
moves across the boundary (`ReadFacts`) and a step shortens by one PDU
(`WholeFramesDrop`, `StepFrames`). Serving needs `AckInv`: while open, every
context held was acknowledged in an earlier reply, with one context per syntax.
Replies and events are then followed through the fifteen early returns of `step`
at once: `StepKinds` says what a step adds to the replies, `StepEvents` what to
the ring, `StepReassembly` what to the buffer, and the invariants follow from
those three.

`PolicyProofs` proves the tables, the host and the calendar.
`LimiterRateKept`, from `LimiterAssumption`: the bound on
what a bucket admitted is inductive when it counts tokens in hand and tokens the
burst cut off too, against the time since the bucket was made
(`EarnedBound`: rounding down to whole seconds never earns more than its time, and,
once a second has passed, never less than half of it).
`HostLogsEveryRequest`: the log is contiguous (`HostLogInv`) and the events of a
call in progress are of this instant, so none of them ages out (`HandleInv`).
`HostCountsRefined`: `HostStepCounts` maps each action to one of ClientCounts or
a stutter, `OnlyGrantsMove` has the other half. `HostLogExplainsCounts`: every
live entry has its event (`CountsShown`), since an entry renewed is an entry
granted and the log keeps what the count keeps. `CountsAreKept`, of
ClientCounts: `CountsInv` has one bucket per application, none empty, each
`Faithful` to the times its machines were last seen, that is, distinct, in
order of age, with those times, and a machine not held was never seen, has
expired, or is older than everything in a full bucket. Expiry, renewal and
eviction keep that (`ExpireFaithful`, `RecordFaithful`), and the count is then the
number of machines seen in time, up to the cap (`CountOfFaithful`).
`HostCountsKept` follows from it by the refinement. `HostAssumption` has positive
bounds and finitely many machines.

The calendar of `date.rs`, with the code's own constants: `DaysAreDates` and
`DatesAreDays` make the two conversions inverse between all integers and all
dates that exist, and `DayOfYearExists` bounds the day an ePID shows. Years begin
in March, so that a leap day is a year's last; a day of an era is split into
centuries, groups of four years, years and days (`EraSplits`), what the code
divides and subtracts finds that split again (`SplitIsRead`, `MonthIsRead`), and a
date has exactly one such split (`DateFromMarch`, `DateBySplit`). Of
`EPidIsPlausible` this is the part about dates.

`ClientProofs` proves the client and the association. `ClientOwnAnswer`, for
every number of workers and requests: identifiers are not relied on, so the
invariant (`SoakInv`) is that a stream holds nothing but the one request under
way, and nothing wherever its worker is not reading, since every failure drops
the stream. `ClientReportIsTrue` has one invariant for each part of the report.
`DiscoveryInv`: every record of the zone is still to be ordered, or to be tried
with every address not tried yet, or was tried, and what is ordered is sorted and
comes before the rest; that `order` always chooses a record of the lowest
priority needs that running sums reach whatever can be drawn (`ChosenIsLowest`).
`ProbeInv`: at each stage, what was found gives the host away, and what the
earlier stages look for was found; `ChargeInv`: a host that counts has counted
every machine sent, and one not charged yet still counts or has a demand past
what it tracks. The assumptions are `ClientAssumption`, `ClientToolAssumption`
(constants, records and hosts have the fields the code gives them, and the absurd
demand exceeds what a host holds) and `CommandLineAssumption`, that parsing a
command line of the model gives `Arguments`: the parser is a fold, so TLC
evaluates this.

`ExchangeAcceptsOne` follows from the types of offers alone (`OffersMeanOne`): the
first candidate is accepted and no other. `ExchangeHonestHostPasses` and
`ExchangeDeviationDiagnosed` have `ExchangeInv`: both ends speak the same syntax
(`SessionInv`), what is sent and what comes back are a request and a reply of this
session, or a refusal, a fault or the end (`CallInv`). Chains of one and two
blocks undo each other (`ChainOfOne`, `ChainOfTwo`, `TwoBack`), so a request is
decoded as it was framed (`DecodeFramed`) and a sealed reply is read back as what
was sealed, also when what was sealed is wrong (`GotIs`). Then each of the twelve
checks fails for exactly its culprits (`FieldChecks`, `FrameChecks`, `TagChecks`,
`CheckFails`), and the failures of a mistake are the checks it is a culprit of
(`Diagnosis`). The v6 tag needs arithmetic: the keys of neighbouring time slots
differ, and a tick leaves the slot exactly at its edge (`SlotApart`, `SlotSteps`),
from `CryptoAssumption`: the constants of the slots are positive, distinct and
below the width of the word together. `ExchangeAssumption` types what the
clients of the model may send.

Only model-checked:

- liveness and anything with ENABLED, which the prover does not handle:
  `HandleEnds`, `RunEnds`, `ShutdownEnds`, `SlowPeerEnds`, `StopHonoured`,
  `BreakageShows` and the liveness in `NeverGivesUp` (its safety part is
  `LeaseQuietAfterNak`);
- what takes induction over data, in modules built on folds, sorts and recursive
  operators: `SourceIsOldest` over what is absorbed, `KeyDrawIsUniform` over the
  words that are rejected, `EPidIsPlausible` besides its dates,
  `AnswersAsKeyHolder` over the tables;
- `CutsDoNotMatter` in full: that a request is answered by what it says, and not
  only the same however it is cut (`WebAnsweredAsWhole`), depends on the fold that
  puts the request together and the sort that finds its lines.

## 7. Not modelled

- The arithmetic of ciphers and digests (`kmsrs-crypto`): bit-level, with published
  vectors; Crypto has them as terms.
- Fetching artifacts (`kmsrs-dbgen/src/fetch.rs`) and reading XML, HTML, base64, gzip
  and text encodings: I/O and scanners; Extract takes their output, or a
  malformed document.
- Log lines, banner, markup and escaping: formatting. The order of lines that
  matters is in Startup, Host and Machine.
- The access list: a predicate on an address without state; Driver has its
  outcome as a denial.
- The seccomp filter's list of calls, netlink and DHCP option encoding, the text
  of addresses and settings: each is its outcome.
- The hardware ID: eight bytes nothing depends on.
- `kmsrs-vectors` and the fuzz targets: test data and entry points.
