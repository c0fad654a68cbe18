------------------------------- MODULE Lease -------------------------------
(***************************************************************************)
(* The DHCP client of the bare-metal image: the RFC 2131 state machine of  *)
(* kmsrs-os/net/lease.rs and the task that carries out what it asks for    *)
(* (kmsrs-os/net/client.rs), which is what puts the host's address on the  *)
(* interface and takes it off.                                             *)
(*                                                                         *)
(* Instants are kept as the time left until them (0: it has passed), which *)
(* is all the code asks of them: every use is `now >= x' or a saturating   *)
(* difference.  The segment is hostile: any reply may arrive at any time,  *)
(* late, twice or never; one whose xid or chaddr is not the client's       *)
(* current one has `mine' FALSE.                                           *)
(*                                                                         *)
(* A reply is [type, mine, yiaddr, prefix, lease, renewal, rebinding]: the *)
(* prefix length is that of option 1 or the classful default, the last     *)
(* three are options 51, 58 and 59, with Forever for absent or infinite.   *)
(* The options that go into a Config and to nothing else (routers, DNS,    *)
(* NTP, search) are stood for by the lease's length: a change of any of    *)
(* them is a new configuration for the same address.                       *)
(***************************************************************************)
EXTENDS Integers, FiniteSets

CONSTANTS
    IpAddresses,      \* addresses a server may hand out
    Unspecified,    \* 0.0.0.0
    Prefixes,       \* prefix lengths a server may give
    Servers,        \* the kinds of segment: for each, the replies its servers may send
    FirstBackoff, MaxBackoff,   \* FIRST_BACKOFF, MAX_BACKOFF
    Jitter,         \* offsets `jittered' may add
    AfterNak,       \* AFTER_NAK
    MaxAttempts,    \* MAX_ATTEMPTS
    MinRetry,       \* MIN_RETRY
    Forever,        \* stands for Duration::MAX
    KernelFails,    \* may a netlink call fail
    Nics            \* the sets of interfaces the machine may have at an instant

Span == 0..Forever

Messages ==
    [type : {"offer", "ack", "nak"}, mine : BOOLEAN, yiaddr : IpAddresses \cup {Unspecified},
     prefix : Prefixes, lease : Span, renewal : Span, rebinding : Span]

\* What is true of the constants: intervals in order, jitter that never makes a
\* wait negative, and messages a server can send.
LeaseConstants ==
    /\ FirstBackoff \in Nat /\ MaxBackoff \in Nat /\ FirstBackoff =< MaxBackoff
    /\ \A j \in Jitter : j \in Int /\ FirstBackoff + j >= 0
    /\ MaxAttempts \in Nat \ {0} /\ MinRetry \in Nat \ {0} /\ AfterNak \in Nat
    /\ Forever \in Nat /\ MinRetry < Forever /\ AfterNak < Forever
    /\ KernelFails \in BOOLEAN
    /\ Servers \subseteq SUBSET Messages

ASSUME LeaseAssumption == LeaseConstants

VARIABLES
    state,      \* State
    held,       \* {} or {[config, t2, expires]}; t1 is only ever the deadline
    deadline,   \* time left until on_time
    backoff, attempts,
    client,       \* "acquiring" an interface, "running" or "ended"
    nics,       \* the interfaces there are, while one is being looked for
    applied,    \* {} or {<<address, prefix>>}: what the task believes is on the interface
    published,  \* {} or {address}: what the web UI is told
    kernel,     \* <<address, prefix>>: what is really on the interface
    server,     \* the kind of segment the interface is on
    stuck,      \* observer: what the kernel refused to remove
    unset,      \* observer: did the last attempt to set an address fail
    overdue,    \* observer: time a lease has been held past its expiry
    hush        \* observer: time left of the silence a NAK imposes

machine == <<state, held, deadline, backoff, attempts>>
interface == <<applied, published, kernel, stuck, unset>>
observed == <<overdue, hush>>
around == <<client, nics, server>>
lease_vars == <<machine, around, interface, observed>>

OverdueCap == 2 * MinRetry + 1   \* bound on `overdue'

HeldLease == CHOOSE h \in held : TRUE

LesserOf(a, b) == IF a =< b THEN a ELSE b
GreaterOf(a, b) == IF a >= b THEN a ELSE b

\* halfway: the wait until the midpoint of what is left, floored at MIN_RETRY.
Halfway(left) ==
    IF left = Forever THEN Forever
    ELSE LesserOf(GreaterOf(left \div 2, MinRetry), GreaterOf(left, MinRetry))

\* fraction, and the option that overrides it.
OrFraction(option, lease, numerator, denominator) ==
    IF option # Forever THEN option
    ELSE IF lease = Forever THEN Forever
    ELSE (lease * numerator) \div denominator

Elapse(left) == IF left \in {0, Forever} THEN left ELSE left - 1

(***************************************************************************)
(* The interface, link.rs: one is [index, ethernet, answers], the last     *)
(* being whether bringing it up and binding a socket on it succeed.  A     *)
(* dump of the links that fails is an empty one.                           *)
(***************************************************************************)
\* interfaces: the Ethernet ones.
interfaces == {n \in nics : n.ethernet}

\* choose: the first by kernel index, whether or not it works.
choose(found) == CHOOSE n \in found : \A o \in found : n.index =< o.index

\* acquire_interface.
Usable == interfaces # {} /\ choose(interfaces).answers

\* configure and remove: what is on the interface after the call.  To the kernel
\* an address is a pair with its prefix length: NLM_F_REPLACE replaces that pair,
\* and the same address with another prefix is one more.
configure(on, pair, accepted) == IF accepted THEN on \cup {pair} ELSE on
remove(on, gone, accepted) == IF accepted THEN on \ gone ELSE on

(***************************************************************************)
(* The caller: client.rs `apply' and `withdraw'.                           *)
(***************************************************************************)
Outcomes == IF KernelFails THEN BOOLEAN ELSE {TRUE}

PairOf(config) == <<config.address, config.prefix>>

\* apply, with `old' to be taken off before (a failure is logged and ignored);
\* then the new one is set, and only a success is remembered and published.
ApplyOver(old, config) ==
    \E removed \in Outcomes, configured \in Outcomes :
        /\ stuck' = (IF removed THEN stuck \ old ELSE stuck \cup old)
                      \ (IF configured THEN {PairOf(config)} ELSE {})
        /\ kernel' = configure(remove(kernel, old, removed), PairOf(config), configured)
        /\ applied' = IF configured THEN {PairOf(config)} ELSE applied
        /\ published' = IF configured THEN {config.address} ELSE published
        /\ unset' = ~configured

\* Mutant: the old address is not taken off first.
ApplyWithoutRemoving(config) == ApplyOver({}, config)

\* apply: what is on the interface comes off if its address is another one; a
\* prefix that changed alone is not looked at.
Apply(config) == ApplyOver({on \in applied : on[1] # config.address}, config)

\* withdraw: forget the address before removing it, whatever comes of that.
Withdraw ==
    /\ applied' = {}
    /\ published' = IF applied = {} THEN published ELSE {}
    /\ unset' = FALSE
    /\ \E removed \in Outcomes :
          /\ kernel' = remove(kernel, applied, removed)
          /\ stuck' = IF removed THEN stuck \ applied ELSE stuck \cup applied

-----------------------------------------------------------------------------
LeaseInit ==
    /\ state = "Init"
    /\ held = {}
    /\ deadline = 0
    /\ backoff = FirstBackoff
    /\ attempts = 0
    /\ client = "acquiring"
    /\ nics \in Nics
    /\ applied = {} /\ published = {} /\ kernel = {} /\ stuck = {}
    /\ unset = FALSE
    /\ server \in Servers
    /\ overdue = 0
    /\ hush = 0

\* run, before its loop: an interface that cannot be had is looked for again
\* RETRY_INTERFACE later, and none is looked for once there is one.
Acquire ==
    /\ client = "acquiring"
    /\ Usable
    /\ client' = "running"
    /\ nics' = {}
    /\ UNCHANGED <<machine, server, interface, observed>>

\* External: the hypervisor attaches or detaches a card, or a driver claims it.
Plug ==
    /\ client = "acquiring"
    /\ nics' \in Nics \ {nics}
    /\ UNCHANGED <<machine, client, server, interface, observed>>

\* Lease::discover: a fresh transaction.
Discover ==
    /\ state' = "Selecting"
    /\ backoff' = FirstBackoff
    /\ attempts' = 1
    /\ \E j \in Jitter : deadline' = FirstBackoff + j

\* Lease::retransmit of a DISCOVER or of the REQUEST that answers an OFFER.
RetransmitBackingOff ==
    /\ attempts' = attempts + 1
    /\ backoff' = LesserOf(2 * backoff, MaxBackoff)
    /\ \E j \in Jitter : deadline' = backoff' + j
    /\ UNCHANGED <<state, held>>

\* Lease::retransmit of the REQUEST that renews or rebinds.  The attempts are
\* counted and, in these states, never looked at.
RetransmitToward(left) ==
    /\ deadline' = Halfway(left)
    /\ UNCHANGED <<state, held, backoff, attempts>>

\* Lease::on_time, by state.
Due == client = "running" /\ deadline = 0

TimeInit ==
    /\ Due /\ state = "Init"
    /\ Discover
    /\ UNCHANGED <<held, around, interface, observed>>

TimeAsking ==
    /\ Due /\ state \in {"Selecting", "Requesting"}
    /\ IF attempts >= MaxAttempts THEN Discover /\ UNCHANGED held
                                  ELSE RetransmitBackingOff
    /\ UNCHANGED <<around, interface, observed>>

\* begin_renewing.
TimeBound ==
    /\ Due /\ state = "Bound"
    /\ state' = "Renewing"
    /\ attempts' = 1
    /\ deadline' = Halfway(HeldLease.t2)
    /\ UNCHANGED <<held, backoff, around, interface, observed>>

\* A lease that never expires is rebound once a minute.
UntilExpiry == IF HeldLease.expires = Forever THEN 0 ELSE HeldLease.expires

\* begin_rebinding, once T2 is past.
TimeRenewing ==
    /\ Due /\ state = "Renewing"
    /\ \/ /\ HeldLease.t2 = 0
          /\ state' = "Rebinding"
          /\ attempts' = 1
          /\ deadline' = Halfway(UntilExpiry)
          /\ UNCHANGED <<held, backoff>>
       \/ HeldLease.t2 # 0 /\ RetransmitToward(HeldLease.t2)
    /\ UNCHANGED <<around, interface, observed>>

\* Mutant: nothing looks at the expiry.
TimeRebindingForEver ==
    /\ Due /\ state = "Rebinding"
    /\ RetransmitToward(UntilExpiry)
    /\ UNCHANGED <<around, interface, observed>>

\* give_up, once the lease has run out.
TimeRebinding ==
    /\ Due /\ state = "Rebinding"
    /\ \/ /\ HeldLease.expires = 0
          /\ held' = {}
          /\ Withdraw
          /\ Discover
          /\ overdue' = 0
          /\ UNCHANGED hush
       \/ /\ HeldLease.expires # 0
          /\ RetransmitToward(UntilExpiry)
          /\ UNCHANGED <<interface, observed>>
    /\ UNCHANGED around

OnTime == TimeInit \/ TimeAsking \/ TimeBound \/ TimeRenewing \/ TimeRebinding

(***************************************************************************)
(* Lease::on_message: a reply that is not ours, or not one this state is   *)
(* waiting for, changes nothing and is not shown as a step.                *)
(***************************************************************************)
Hears(r, type) == client = "running" /\ r.mine /\ r.type = type

AcceptOffer(r) ==
    /\ Hears(r, "offer")
    /\ state = "Selecting"
    /\ r.yiaddr # Unspecified
    /\ state' = "Requesting"
    /\ backoff' = FirstBackoff
    /\ attempts' = 1
    /\ \E j \in Jitter : deadline' = FirstBackoff + j
    /\ UNCHANGED <<held, around, interface, observed>>

Asking == {"Requesting", "Renewing", "Rebinding"}

\* A renewal may leave yiaddr clear and mean the address already held.
AckedAddress(r) ==
    IF r.yiaddr # Unspecified THEN {r.yiaddr} ELSE {h.config.address : h \in held}

AcceptAck(r) ==
    /\ Hears(r, "ack")
    /\ state \in Asking
    /\ \E address \in AckedAddress(r) :
          LET config == [address |-> address, prefix |-> r.prefix, lease |-> r.lease]
          IN  /\ held' = {[config  |-> config,
                           t2      |-> OrFraction(r.rebinding, r.lease, 7, 8),
                           expires |-> r.lease]}
              /\ IF \E h \in held : h.config = config THEN UNCHANGED interface
                                                     ELSE Apply(config)
    /\ state' = "Bound"
    /\ attempts' = 0
    /\ deadline' = OrFraction(r.renewal, r.lease, 1, 2)
    /\ overdue' = 0
    /\ UNCHANGED <<backoff, around, hush>>

\* Lease::accept_nak, leaving `kept' held and the next action `wait' away.
NakWith(r, kept, wait) ==
    /\ Hears(r, "nak")
    /\ state \in Asking
    /\ held' = kept
    /\ state' = "Init"
    /\ attempts' = 0
    /\ deadline' = wait
    /\ IF held # {} THEN Withdraw ELSE UNCHANGED interface
    /\ overdue' = 0
    /\ hush' = AfterNak
    /\ UNCHANGED <<backoff, around>>

\* Mutant: the client never starts again.
AcceptNakForGood(r) == NakWith(r, {}, Forever)

AcceptNak(r) == NakWith(r, {}, AfterNak)

\* The socket fails: the task ends and its timers with it; the address stays for
\* as long as the machine runs, and what the server granted goes on running out.
SocketFails ==
    /\ client = "running"
    /\ client' = "ended"
    /\ deadline' = 0 /\ backoff' = FirstBackoff /\ attempts' = 0 /\ hush' = 0
    /\ UNCHANGED <<state, held, nics, interface, server, overdue>>

\* Time passes, but not past a timer that is due: a task that runs is woken
\* promptly.  Once there is none, nobody looks at a timer.
Tick ==
    /\ \/ client = "running" /\ deadline > 0
       \/ client = "ended"
    /\ deadline' = Elapse(deadline)
    /\ held' = {[h EXCEPT !.t2 = Elapse(@), !.expires = Elapse(@)] : h \in held}
    /\ overdue' = IF \E h \in held : h.expires = 0 THEN LesserOf(overdue + 1, OverdueCap) ELSE 0
    /\ hush' = Elapse(hush)
    /\ UNCHANGED <<state, backoff, attempts, around, interface>>

OnMessage == \E r \in server : AcceptOffer(r) \/ AcceptAck(r) \/ AcceptNak(r)

LeaseNext == Acquire \/ Plug \/ OnTime \/ OnMessage \/ SocketFails \/ Tick

\* An interface is looked for every RETRY_INTERFACE, time passes and a due timer
\* fires; no server is obliged to answer.
LeaseSpec ==
    /\ LeaseInit /\ [][LeaseNext]_lease_vars
    /\ WF_lease_vars(Acquire) /\ WF_lease_vars(Tick) /\ WF_lease_vars(OnTime)

-----------------------------------------------------------------------------
\* Types, and RFC 2131's shape: a lease is held in exactly the three states
\* that may use one, so begin_renewing's "cannot happen" cannot happen.
LeaseTypeOK ==
    /\ state \in {"Init", "Selecting", "Requesting", "Bound", "Renewing", "Rebinding"}
    /\ held \in SUBSET [config : [address : IpAddresses, prefix : Prefixes, lease : Span],
                     t2 : Span, expires : Span]
    /\ Cardinality(held) = IF state \in {"Bound", "Renewing", "Rebinding"} THEN 1 ELSE 0
    /\ deadline \in Nat
    /\ backoff \in FirstBackoff..MaxBackoff
    /\ attempts \in 0..MaxAttempts
    /\ client \in {"acquiring", "running", "ended"}

HeldAddress == {h.config.address : h \in held}
HeldPair == {PairOf(h.config) : h \in held}

\* The segment's servers agree on the netmask.
OneMask == \A r, q \in server : r.prefix = q.prefix

\* Where the servers agree on the netmask, the machine never answers on an address
\* it has no lease for, except one the kernel refused to give back.
NothingLeftBehind == OneMask => kernel \subseteq HeldPair \cup stuck

\* A lease in hand is on the interface and published, unless the kernel refused
\* it: an ACK that changes nothing may skip the interface.
LeaseIsOnInterface ==
    held # {} /\ ~unset => HeldPair \subseteq kernel /\ published = HeldAddress

\* Whatever the servers say, what the task believes is on the interface is the
\* lease it holds or the one a failed call left it with: with no lease in hand it
\* believes and publishes nothing.
BelievesOnlyTheLease ==
    /\ held = {} => applied = {} /\ published = {}
    /\ held # {} /\ ~unset => applied = HeldPair

\* The interface follows the lease, whatever arrives and whichever call to the
\* kernel fails: it carries the leased address, and no other as long as the
\* servers agree on the netmask (LeavesOneAddress is what becomes of it when they
\* do not).
InterfaceFollowsLease ==
    LeaseTypeOK /\ NothingLeftBehind /\ LeaseIsOnInterface /\ BelievesOnlyTheLease

\* apply's comment: a lease that moved leaves one address behind rather than two,
\* the kernel having refused nothing.
LeavesOneAddress == stuck = {} => Cardinality({on[1] : on \in kernel}) =< 1

\* An expired lease is given up within two minimum retry intervals, whatever
\* the lease's length, as long as the client runs and the server does not itself
\* choose T1 or T2.  A client whose socket failed keeps an expired address until
\* the machine is restarted, as `run' says, and is not covered.
ExpiryHonoured ==
    client # "ended" /\ (\A r \in server : r.renewal = Forever /\ r.rebinding = Forever)
        => overdue =< 2 * MinRetry

\* No message leaves for AFTER_NAK after a NAK: a server that refuses every
\* request is not met with a storm.
QuietAfterNak == [][ state = "Init" /\ state' # "Init" => hush = 0 ]_lease_vars

\* The client never wedges without an address: it is asking, or it will be.
KeepsAsking ==
    client = "running" /\ state = "Init" ~> state # "Init" \/ client = "ended"

\* No number of failures to find an interface is the last: once the first
\* Ethernet interface works and goes on working, the client runs.
KeepsLooking == []<>~Usable \/ <>(client # "acquiring")

\* Something always comes of an expired lease: a renewal, or giving it up.
ExpiryActedOn == overdue > 0 ~> overdue = 0 \/ client = "ended"
=============================================================================
