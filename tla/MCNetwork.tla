------------------------------ MODULE MCNetwork ------------------------------
(***************************************************************************)
(* The two tasks that keep the bare-metal image on the network, the clock  *)
(* discipline and the DHCP client: which of the two runs is chosen at the  *)
(* start, and the other stands still.                                      *)
(*                                                                         *)
(* Clock: a second of three ticks and an era of sixteen seconds that       *)
(* begins, as in NTP, a little after its middle in Unix time; exchanges on *)
(* both sides of the turn of the era.                                      *)
(* Lease: three kinds of segment, one whose servers offer two addresses    *)
(* and choose T1 and T2 themselves, in either order, one with a single     *)
(* address and leases of many lengths, shorter and longer than the retry   *)
(* floor, and one whose servers do not agree on the netmask.               *)
(***************************************************************************)
EXTENDS Clock, Lease

VARIABLE leasing    \* which of the two is driven

MCInit ==
    /\ leasing \in BOOLEAN
    /\ Init /\ LeaseInit
    /\ leasing => /\ realtime = 7
                  /\ realtime - wall = BelowSecond(CHOOSE i \in Instants : TRUE)
    /\ ~leasing => server = (CHOOSE s \in Servers : TRUE) /\ nics = {}

Discipline == ~leasing /\ Next /\ UNCHANGED <<leasing, lease_vars>>
Leasing == leasing /\ LeaseNext /\ UNCHANGED <<leasing, vars>>

MCNext == Discipline \/ Leasing

everything == <<leasing, vars, lease_vars>>

\* Every await of the discipline is bounded by TIMEOUT, POLL or RETRY; for the
\* lease, an interface is looked for every RETRY_INTERFACE, time passes and a due
\* timer fires, and no server is obliged to answer.
MCSpec ==
    /\ MCInit /\ [][MCNext]_everything
    /\ WF_everything(~leasing /\ discipline /\ UNCHANGED <<leasing, lease_vars>>)
    /\ WF_everything(leasing /\ Acquire /\ UNCHANGED <<leasing, vars>>)
    /\ WF_everything(leasing /\ Tick /\ UNCHANGED <<leasing, vars>>)
    /\ WF_everything(leasing /\ OnTime /\ UNCHANGED <<leasing, vars>>)

\* Neither task gives up for good: the client looks for an interface until it has
\* one, and asks for an address again, though not before AFTER_NAK is over;
\* something comes of every expired lease; the discipline goes on asking for the
\* time.
NeverGivesUp ==
    /\ QuietAfterNak
    /\ leasing => KeepsLooking /\ KeepsAsking /\ ExpiryActedOn
    /\ ~leasing => PollsForEver

-----------------------------------------------------------------------------
MCLeases ==
    {[ntp |-> << >>, dns |-> FALSE], [ntp |-> << >>, dns |-> TRUE],
     [ntp |-> <<"a", "b">>, dns |-> TRUE]}

MCAnswers == {<<"p">>}

MCBootErrors == {-8, 7}
MCReplies ==
    {[late |-> 0, synchronised |-> TRUE], [late |-> 6, synchronised |-> TRUE],
     [late |-> 0, synchronised |-> FALSE]}

MCDrifts == {-1, 4}
MCServerErrors == {2}

\* The replies for these addresses, prefixes and options 51, 58 and 59.
RepliesOf(yiaddrs, prefixes, lengths, renewals, rebindings) ==
    [type : {"ack"}, mine : BOOLEAN, yiaddr : yiaddrs \cup {Unspecified}, prefix : prefixes,
     lease : lengths, renewal : renewals, rebinding : rebindings]
    \cup [type : {"offer", "nak"}, mine : BOOLEAN, yiaddr : yiaddrs \cup {Unspecified},
          prefix : prefixes, lease : {Forever}, renewal : {Forever}, rebinding : {Forever}]

OneAddress == {CHOOSE a \in IpAddresses : TRUE}

MCServers ==
    { RepliesOf(IpAddresses, {24}, {5, Forever}, {Forever, 9}, {Forever, 3}),
      RepliesOf(OneAddress, {24}, {0, 1, 3, 5, 8, 13, 24, Forever}, {Forever}, {Forever}),
      RepliesOf(OneAddress, Prefixes, {5}, {Forever}, {Forever}) }

\* Two addresses, each with either netmask.
MCTwoMasks == {RepliesOf(IpAddresses, Prefixes, {5}, {Forever}, {Forever})}

\* A loopback or tunnel, and two cards of which either may come late or fail.
MCNics ==
    SUBSET {[index |-> 1, ethernet |-> FALSE, answers |-> TRUE],
            [index |-> 2, ethernet |-> TRUE, answers |-> FALSE],
            [index |-> 3, ethernet |-> TRUE, answers |-> TRUE]}

MCJitter == {-1, 0, 1}
=============================================================================
