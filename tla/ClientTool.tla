----------------------------- MODULE ClientTool -----------------------------
(***************************************************************************)
(* The diagnostic client as a program (kmsrs-client main.rs): one run of   *)
(* it, from its arguments to its exit status.  It is given an address or   *)
(* finds one in DNS (discover.rs), and then probes the host (probe.rs),    *)
(* checks its health, charges it (load.rs, Charge) or soaks it (module     *)
(* Client).                                                                *)
(*                                                                         *)
(* What answers is any host: `traits' says what can be told about it, and  *)
(* the associations themselves are those of module Exchange.  Meanwhile    *)
(* hosts come and go, connections break, and other machines are activated  *)
(* or expire.                                                              *)
(***************************************************************************)
EXTENDS Client, SequencesExt

CONSTANTS
    CommandLines,  \* sequences of [name, value]: value is <<>> where it is missing or unreadable
    AllVersions,   \* Version::ALL
    DefaultDemand, DefaultLimit,   \* of --n-policy and --charge-limit
    Traits,        \* [syntaxes, epid, group, count, refuses, stock, faulty]
    Zones,         \* what DNS may hold: sequences of [priority, weight, at]
    Addresses,     \* where hosts may be
    MaxTracked, MaxCached,   \* of this host: see ClientCounts
    StallRounds,   \* STALL_ROUNDS
    AbsurdDemand,  \* ABSURD_REQUIRED_CLIENTS
    MaxBreaks      \* bound: connections that break

\* An SRV record, with the addresses its target resolves to.
SrvRecord == [priority : Nat, weight : Nat, at : Seq(Addresses \cup {"."})]

\* What can be told about a host.
Trait ==
    [syntaxes : SUBSET DataSyntax, epid : {"one", "fresh"}, group : {"fresh", "constant"},
     count : {"this", "genuine", "floored", "doubled"},
     refuses : BOOLEAN, stock : BOOLEAN, faulty : BOOLEAN]

ASSUME ClientToolAssumption ==
    /\ MaxTracked \in Nat \ {0} /\ MaxCached \in Nat \ {0} /\ StallRounds \in Nat \ {0}
    /\ AbsurdDemand \in Nat /\ AbsurdDemand > MaxCached /\ AbsurdDemand > MaxTracked
    /\ IsFiniteSet(AllVersions) /\ AllVersions # {}
    /\ Addresses # {}
    /\ Traits \subseteq Trait
    /\ Zones \subseteq Seq(SrvRecord)

VARIABLES
    run,        \* the command line
    traits,     \* the host
    up,         \* the addresses where a host can be reached and bound to
    place,      \* where `run' is
    zone,       \* what DNS holds
    records,    \* SRV records not yet ordered
    ordered,    \* candidates in the order to try them
    address,    \* {} or {the address to talk to}
    pending,    \* versions not yet probed
    round,      \* activations on the present association
    groups,     \* how many connections had their association group noted
    findings,   \* Report.findings
    held,       \* machines the host holds, the client's own included
    best, stalled, count,   \* Charge: the best count, rounds without a better, requests sent
    verdict,    \* Charged
    exit,       \* {} or {the exit status}
    tried,      \* observer: addresses that did not answer
    broken,     \* observer: where connections broke
    expired     \* observer: did a machine expire

discovery == <<zone, records, ordered, address, tried>>
probing == <<pending, round, groups, findings>>
charging == <<best, stalled, count, verdict>>
world == <<up, held, broken, expired>>
tool == <<run, traits, world, place, discovery, probing, charging, exit>>
vars == <<tool, soak_vars>>

EXIT_FINDINGS == 1
EXIT_BAD_USAGE == 64
EXIT_UNAVAILABLE == 69

(***************************************************************************)
(* Arguments::parse.  The options that only shape output, or set a field   *)
(* of the request that no property tells apart, are left out.              *)
(***************************************************************************)
Default ==
    [mode |-> "Probe", versions |-> AllVersions, target |-> FALSE, discover |-> FALSE,
     threshold |-> DefaultDemand, limit |-> DefaultLimit, help |-> FALSE, error |-> FALSE]

\* An option that takes a value; reading on after an error changes nothing.
TakesValue == {"--soak", "--concurrency", "--charge-limit", "--n-policy", "--version", "--discover"}

\* request_field: the options that set what is sent.
request_field(parsed, option) == [parsed EXCEPT !.threshold = option.value[1]]

Option(parsed, option) ==
    IF parsed.error THEN parsed
    ELSE IF option.name \in TakesValue /\ option.value = <<>> THEN [parsed EXCEPT !.error = TRUE]
    ELSE CASE option.name = "--help"         -> [parsed EXCEPT !.help = TRUE]
           [] option.name = "--healthcheck"  -> [parsed EXCEPT !.mode = "HealthCheck"]
           [] option.name = "--soak"         -> [parsed EXCEPT !.mode = "Soak"]
           [] option.name = "--charge"       -> [parsed EXCEPT !.mode = "Charge"]
           [] option.name = "--catalog"      -> [parsed EXCEPT !.mode = "List"]
           [] option.name = "--charge-limit" -> [parsed EXCEPT !.limit = option.value[1]]
           [] option.name = "--concurrency"  -> [parsed EXCEPT !.error = option.value[1] = 0]
           [] option.name = "--discover"     -> [parsed EXCEPT !.discover = TRUE]
           [] option.name = "--version"      ->
                IF option.value[1] \in AllVersions
                  THEN [parsed EXCEPT !.versions = {option.value[1]}]
                  ELSE [parsed EXCEPT !.error = TRUE]
           [] option.name = "--n-policy"     -> request_field(parsed, option)
           [] option.name = "target"         ->
                IF parsed.target THEN [parsed EXCEPT !.error = TRUE]
                                 ELSE [parsed EXCEPT !.target = TRUE]
           [] OTHER                          -> [parsed EXCEPT !.error = TRUE]

\* A host is given or looked for, not both; help and the catalogue need none.
parse(given) ==
    LET parsed == FoldLeft(Option, Default, given)
        needs_a_target == ~parsed.help /\ parsed.mode # "List" /\ ~parsed.discover
        refused == \/ parsed.error
                   \/ needs_a_target /\ ~parsed.target
                   \/ parsed.target /\ parsed.discover
    IN  [parsed EXCEPT !.error = refused]

\* Arguments: the types its fields have in the code.
Arguments ==
    [mode : {"Probe", "HealthCheck", "Soak", "Charge", "List"},
     versions : (SUBSET AllVersions) \ {{}}, target : BOOLEAN, discover : BOOLEAN,
     threshold : Nat, limit : Nat, help : BOOLEAN, error : BOOLEAN]

ASSUME CommandLineAssumption ==
    \A given \in CommandLines : parse(given) \in Arguments

Init ==
    /\ run \in {parse(given) : given \in CommandLines}
    /\ traits \in Traits
    /\ SoakInit
    \* A soak meets its own host in module Client, the other modes this one.
    /\ IF run.mode = "Soak" THEN traits = CHOOSE t \in Traits : TRUE
       ELSE ~reconnect /\ host = "both"
    /\ zone \in Zones
    /\ ~run.discover => zone = CHOOSE z \in Zones : TRUE
    /\ records = zone
    /\ up \in SUBSET Addresses
    /\ ~run.discover => up = Addresses
    /\ place = CASE run.error -> "usage"
                 [] ~run.error /\ run.help -> "help"
                 [] ~run.error /\ ~run.help /\ run.mode = "List" -> "list"
                 [] OTHER -> "resolve"
    /\ ordered = <<>> /\ address = {} /\ tried = {}
    /\ pending = run.versions /\ round = 0 /\ groups = 0 /\ findings = {}
    /\ held = 0 /\ best = 0 /\ stalled = 0 /\ count = 0 /\ verdict = "none"
    /\ exit = {} /\ broken = {} /\ expired = FALSE

Exit(code) == exit' = {code} /\ place' = "done"

\* An error is told with the usage; Mode::List needs no host.
Usage ==
    /\ place = "usage"
    /\ Exit(EXIT_BAD_USAGE)
    /\ UNCHANGED <<run, traits, world, discovery, probing, charging, soak_vars>>

PrintCatalog ==
    /\ place \in {"help", "list"}
    /\ Exit(0)
    /\ UNCHANGED <<run, traits, world, discovery, probing, charging, soak_vars>>

(***************************************************************************)
(* resolve_target.                                                         *)
(***************************************************************************)
TargetGiven ==
    /\ place = "resolve" /\ ~run.discover
    /\ address' = {CHOOSE a \in Addresses : TRUE}
    /\ place' = "start"
    /\ UNCHANGED <<run, traits, world, zone, records, ordered, tried, probing, charging, exit, soak_vars>>

Unavailable == <<".">>   \* the target that means no service

\* discover::resolve: the lookup may fail; no record, or one that says there is
\* no service, is the end.
Resolve ==
    /\ place = "resolve" /\ run.discover
    /\ \/ Exit(EXIT_UNAVAILABLE)
       \/ /\ IF records = <<>> \/ \E i \in DOMAIN records : records[i].at = Unavailable
               THEN Exit(EXIT_UNAVAILABLE)
               ELSE place' = "order" /\ UNCHANGED exit
    /\ UNCHANGED <<run, traits, world, discovery, probing, charging, soak_vars>>

\* Vec::remove.
WithoutNth(s, n) == [i \in 1..(Len(s) - 1) |-> IF i < n THEN s[i] ELSE s[i + 1]]

\* The records of the lowest priority left; the sort is stable, so they are
\* weighed in the order they came.
Group(s) == {i \in DOMAIN s : \A j \in DOMAIN s : s[i].priority =< s[j].priority}

\* The running sum of the group's weights.
Running(s) ==
    LET sum[i \in 0..Len(s)] ==
          IF i = 0 THEN 0 ELSE sum[i - 1] + (IF i \in Group(s) THEN s[i].weight ELSE 0)
    IN  sum

\* A number drawn below the bound (modulo bias aside: only what can be drawn matters).
draw_below(bound) == 0..(bound - 1)

\* order: the first record of the group whose running sum reaches the number.
Chosen(s, drawn_number) == Min({i \in Group(s) : Running(s)[i] >= drawn_number})

Order ==
    /\ place = "order"
    /\ IF records = <<>> THEN place' = "try" /\ UNCHANGED <<records, ordered>>
       ELSE \E n \in draw_below(Running(records)[Len(records)] + 1) :
              /\ ordered' = Append(ordered, records[Chosen(records, n)])
              /\ records' = WithoutNth(records, Chosen(records, n))
              /\ UNCHANGED place
    /\ UNCHANGED <<run, traits, world, zone, address, tried, probing, charging, exit, soak_vars>>

\* The addresses of a candidate, as the resolver gives them.
addresses(candidate) == candidate.at

\* "Works" means connect and bind: the port and whatever is behind it.
Reachable(a) == a \in up

\* first_reachable: the next candidate's next address; a target with none is
\* reported and passed over.  Works means that it connects and binds.
Try ==
    /\ place = "try"
    /\ IF ordered = <<>>
         THEN Exit(EXIT_UNAVAILABLE) /\ UNCHANGED <<ordered, address, tried>>
       ELSE IF addresses(Head(ordered)) = <<>>
         THEN ordered' = Tail(ordered) /\ UNCHANGED <<address, tried, place, exit>>
       ELSE LET a == Head(addresses(Head(ordered)))
            IN  IF Reachable(a)
                  THEN /\ address' = {a} /\ place' = "start"
                       /\ UNCHANGED <<ordered, tried, exit>>
                  ELSE /\ tried' = tried \cup {a}
                       /\ ordered' = [ordered EXCEPT ![1].at = Tail(@)]
                       /\ UNCHANGED <<address, place, exit>>
    /\ UNCHANGED <<run, traits, world, zone, records, probing, charging, soak_vars>>

Start ==
    /\ place = "start" /\ run.mode # "Soak"
    /\ place' = CASE run.mode = "Probe" -> "pair" [] run.mode = "HealthCheck" -> "health"
                  [] run.mode = "Charge" -> "charge"
    /\ UNCHANGED <<run, traits, world, discovery, probing, charging, exit, soak_vars>>

(***************************************************************************)
(* The host, as Session::open and activate meet it.                        *)
(***************************************************************************)
Works == address \subseteq up

\* A host goes away, and what is connected to it breaks; later it is back.
Break(a) ==
    /\ Cardinality(broken) < MaxBreaks /\ place \notin {"done", "usage", "help", "list"} /\ run.mode # "Soak"
    /\ a \in up
    /\ up' = up \ {a}
    /\ broken' = IF address = {a} THEN broken \cup {place} ELSE broken
    /\ UNCHANGED <<run, traits, held, expired, place, discovery, probing, charging, exit, soak_vars>>

ComeUp ==
    /\ up # Addresses /\ exit = {}
    /\ up' = Addresses
    /\ UNCHANGED <<run, traits, held, broken, expired, place, discovery, probing, charging, exit,
                   soak_vars>>

\* Another machine is activated, or one held expires.
OthersCome ==
    /\ held < MaxCached /\ place = "charge"
    /\ held' = held + 1
    /\ UNCHANGED <<run, traits, up, broken, expired, place, discovery, probing, charging, exit,
                   soak_vars>>

Expires ==
    /\ held > 0 /\ place = "charge"
    /\ held' = held - 1
    /\ expired' = TRUE
    /\ UNCHANGED <<run, traits, up, broken, place, discovery, probing, charging, exit, soak_vars>>

Counts == INSTANCE ClientCounts WITH
    Applications <- {}, Machines <- {}, Demands <- {}, MaxApplications <- 1, Expiry <- 1,
    MaxTime <- 0, buckets <- <<>>, now <- 0, view <- <<>>, seenAt <- <<>>

\* What the host reports to a demand with so many machines held: this host, a
\* genuine one, one that floors the count at the demand, one that doubles it.
CountFor(cached, demand) ==
    CASE traits.count = "this"     -> Counts!Reported(cached, demand)
      [] traits.count = "genuine"  -> Counts!Least2(cached, 2 * demand)
      [] traits.count = "floored"  -> Counts!Most2(cached, demand)
      [] traits.count = "doubled"  -> 2 * demand

(***************************************************************************)
(* Probe::run.                                                             *)
(***************************************************************************)
Fail ==
    /\ Exit(EXIT_UNAVAILABLE)
    /\ UNCHANGED <<run, traits, world, discovery, probing, charging, soak_vars>>

Binds(offer_ndr64) ==
    \/ "ndr32" \in traits.syntaxes
    \/ offer_ndr64 /\ "ndr64" \in traits.syntaxes

\* Probe::judge, of one reply.
Judged ==
    (IF traits.faulty THEN {"ResponseCheckFailed"} ELSE {})
      \cup (IF traits.stock THEN {"SuspiciousHardwareId"} ELSE {})

\* exchange_pair: a connection for each version, two activations on it; anything
\* that goes wrong ends the run.
Pair ==
    /\ place = "pair" /\ pending # {}
    /\ IF Works /\ Binds(TRUE)
         THEN /\ round' = 1 - round
              /\ findings' = findings \cup Judged
                   \cup (IF round = 1 /\ traits.epid = "fresh" THEN {"EpidNotStable"} ELSE {})
              /\ IF round = 1
                   THEN /\ pending' = pending \ {CHOOSE v \in pending : TRUE}
                        /\ groups' = groups + 1
                   ELSE UNCHANGED <<pending, groups>>
              /\ UNCHANGED <<run, traits, world, place, discovery, charging, exit, soak_vars>>
         ELSE Fail

\* Mutant: compared over exchanges, two of which share a connection.
GroupRepeatsInExchanges == groups > 0

\* The groups of those connections are compared.
GroupRepeats == traits.group = "constant" /\ groups > 1

CompareGroups ==
    /\ place = "pair" /\ pending = {} /\ round = 0
    /\ findings' = findings \cup (IF GroupRepeats THEN {"AssociationGroupConstant"} ELSE {})
    /\ place' = "ndr32"
    /\ UNCHANGED <<run, traits, world, discovery, pending, round, groups, charging, exit, soak_vars>>

\* accepts_ndr32_alone: a connection refused ends the run, one that closes under
\* the bind is the answer no.
Ndr32Alone ==
    /\ place = "ndr32"
    /\ \/ ~Works /\ Fail
       \/ /\ findings' = findings \cup
               (IF Works /\ Binds(FALSE) THEN {} ELSE {"Ndr32NotSupported"})
          /\ place' = "absurd"
          /\ UNCHANGED <<run, traits, world, discovery, pending, round, groups, charging, exit,
                         soak_vars>>

\* reflects_an_absurd_required_count: whatever goes wrong here is a finding.
Absurd ==
    /\ place = "absurd"
    /\ findings' = findings \cup
         (IF ~Works \/ ~Binds(TRUE) \/ traits.refuses THEN {"ProbeRefused"}
          ELSE Judged \cup (IF CountFor(held + 1, AbsurdDemand) >= AbsurdDemand
                              THEN {"AbsurdCountReflected"} ELSE {}))
    /\ place' = "verdict"
    /\ UNCHANGED <<run, traits, world, discovery, pending, round, groups, charging, exit, soak_vars>>

Verdict ==
    /\ place = "verdict"
    /\ Exit(IF findings = {} THEN 0 ELSE EXIT_FINDINGS)
    /\ UNCHANGED <<run, traits, world, discovery, probing, charging, soak_vars>>

\* health_check: one activation, and no opinion of it.
HealthCheck ==
    /\ place = "health"
    /\ Exit(IF Works /\ Binds(TRUE) THEN 0 ELSE EXIT_UNAVAILABLE)
    /\ UNCHANGED <<run, traits, world, discovery, probing, charging, soak_vars>>

(***************************************************************************)
(* Charge::run.                                                            *)
(***************************************************************************)
\* A fresh machine is held from now on.
HeldAfter == Counts!Least2(held + 1, MaxCached)

\* The session is opened before the first request, whatever the limit.
ChargeOnce ==
    /\ place = "charge"
    /\ \/ (count < run.limit \/ count = 0) /\ (~Works \/ ~Binds(TRUE)) /\ Fail
       \/ /\ count < run.limit /\ Works /\ Binds(TRUE)
          /\ held' = HeldAfter
          /\ count' = count + 1
          /\ LET reported == CountFor(held', run.threshold)
                 more == reported > best
             IN  /\ best' = IF more THEN reported ELSE best
                 /\ stalled' = IF more THEN 0 ELSE stalled + 1
                 /\ verdict' = CASE reported >= run.threshold -> "Reached"
                                 [] reported < run.threshold /\ stalled' >= StallRounds
                                      -> "Saturated"
                                 [] OTHER -> "none"
          /\ IF verdict' = "none" THEN UNCHANGED <<place, exit>> ELSE Exit(0)
          /\ UNCHANGED <<run, traits, up, broken, expired, discovery, probing, soak_vars>>

\* The limit is spent: that too is called saturated.
ChargeSpent ==
    /\ place = "charge" /\ count = run.limit
    /\ count = 0 => Works /\ Binds(TRUE)
    /\ verdict' = "Saturated"
    /\ Exit(0)
    /\ UNCHANGED <<run, traits, world, discovery, probing, best, stalled, count, soak_vars>>

(***************************************************************************)
(* soak.                                                                   *)
(***************************************************************************)
\* Every identity is drawn before the first request; without entropy for them
\* there is no run.
plan ==
    /\ place = "start" /\ run.mode = "Soak"
    /\ \/ Exit(EXIT_UNAVAILABLE)
       \/ place' = "soak" /\ UNCHANGED exit
    /\ UNCHANGED <<run, traits, world, discovery, probing, charging, soak_vars>>

Soaking ==
    /\ place = "soak"
    /\ SoakNext
    /\ UNCHANGED tool

Soaked ==
    /\ place = "soak" /\ Done
    /\ Exit(IF report.first_failure THEN EXIT_FINDINGS ELSE 0)
    /\ UNCHANGED <<run, traits, world, discovery, probing, charging, soak_vars>>

MainStep ==
    \/ Usage \/ PrintCatalog \/ TargetGiven \/ Resolve \/ Order \/ Try \/ Start
    \/ Pair \/ CompareGroups \/ Ndr32Alone \/ Absurd \/ Verdict
    \/ HealthCheck \/ ChargeOnce \/ ChargeSpent \/ plan \/ Soaked

Next ==
    \/ MainStep \/ Soaking
    \/ \E a \in Addresses : Break(a)
    \/ ComeUp \/ OthersCome \/ Expires

\* The program and its threads run, and every wait on a socket has the timeout
\* of CLI-012.
Fairness ==
    /\ WF_vars(MainStep)
    /\ \A w \in Workers : WF_vars(place = "soak" /\ worker(w) /\ UNCHANGED tool)

Spec == Init /\ [][Next]_vars /\ Fairness
-----------------------------------------------------------------------------
\* What gives a host away, by what it is.
Tells ==
    Judged
      \cup (IF traits.epid = "fresh" THEN {"EpidNotStable"} ELSE {})
      \cup (IF traits.group = "constant" /\ Cardinality(run.versions) > 1
              THEN {"AssociationGroupConstant"} ELSE {})
      \cup (IF "ndr32" \notin traits.syntaxes THEN {"Ndr32NotSupported"} ELSE {})
      \cup (IF traits.refuses THEN {"ProbeRefused"}
            ELSE IF traits.count \in {"floored", "doubled"} THEN {"AbsurdCountReflected"} ELSE {})

\* The probe's verdict is the host's: a probe that finished names all that gives
\* the host away and nothing else, whatever order hosts fail and recover in; a
\* connection that broke is blamed on the host only where the probe says so
\* (the NDR32-only bind and the absurd demand).  This host has no tells, and so
\* a probe of it is clean ("it must produce nothing").
VerdictEarned ==
    run.mode = "Probe" /\ place = "done" /\ exit \in {{0}, {EXIT_FINDINGS}} /\ ~run.help =>
        /\ findings \ Tells \subseteq
             (IF broken # {} THEN {"Ndr32NotSupported", "ProbeRefused"} ELSE {})
        /\ broken = {} => Tells \subseteq findings
        /\ exit = {0} <=> findings = {}

\* Every address of a record was tried.
AllTried(record) == \A k \in DOMAIN record.at : record.at[k] \in tried

\* Discovery settles as RFC 2782 says: no host is used while one of a lower
\* priority number was not tried and found wanting, whatever the weights drew,
\* and giving up means that every address of every record was tried.
FirstWorking ==
    run.discover =>
        /\ address # {} => \A i \in DOMAIN zone :
              zone[i].priority < Head(ordered).priority => AllTried(zone[i])
        /\ place = "done" /\ address = {} /\ records = <<>> =>
              \A i \in DOMAIN zone : AllTried(zone[i])

\* Charging does what it is for: with no machine expiring meanwhile and a limit
\* that allows for it, a host that counts is charged; only a demand past what
\* this host will track, or past what a host can hold, is given up on.
ChargeReaches ==
    verdict = "Saturated" /\ ~expired /\ run.limit >= run.threshold /\ run.limit > 0 =>
        \/ traits.count = "this" /\ run.threshold > MaxTracked
        \/ traits.count = "genuine" /\ run.threshold > MaxCached

\* What the program reports is true of the hosts it met: the host it settled on,
\* the probe's verdict and the outcome of a charge.
ReportIsTrue == FirstWorking /\ VerdictEarned /\ ChargeReaches

\* The run ends, and a soak has counted every request once, whatever order the
\* counter and the iterator were reached in.
RunAccounts ==
    <>[](/\ exit # {}
         /\ run.mode = "Soak" /\ exit # {EXIT_UNAVAILABLE}
              => report.completed + report.failed = Requests)
=============================================================================
