------------------------------- MODULE Agent -------------------------------
(***************************************************************************)
(* The guest agent of the bare-metal image (kmsrs-os/agent.rs): the thread *)
(* that reads requests off a virtio-serial channel and answers them, and   *)
(* the hypervisor's clients at the other end, one after the other, each    *)
(* opening with a sync whose id is its own.                                *)
(*                                                                         *)
(* The channel carries tokens: a request's text is one, the newline that   *)
(* ends it is another, and a read may end between any two.  A request is   *)
(* [execute, id]; its text may be a request for a command the agent does   *)
(* not have, or no request at all.                                         *)
(***************************************************************************)
EXTENDS Integers, Sequences

CONSTANTS
    Opens,        \* the sync each client opens with
    Asked,        \* the commands clients ask for after their sync
    Chunk,        \* tokens one read may take
    MaxLine,      \* MAX_LINE, in tokens
    MaxClients,   \* bound: how many clients come
    MaxCommands   \* bound: how many commands they give after their syncs

ASSUME AgentAssumption ==
    /\ Opens \in [1..MaxClients -> {"guest-sync", "guest-sync-delimited"}]
    /\ {Chunk, MaxLine, MaxClients, MaxCommands} \subseteq Nat \ {0}
    /\ "" \notin Asked /\ "\n" \notin Asked    \* a command has a name, on one line

VARIABLES
    agent,      \* "absent", "reading", "ended"
    channel,    \* tokens on their way to the guest
    pending,    \* tokens read and not yet a line
    replies,    \* replies on their way to the hypervisor
    client,     \* the hypervisor's side: "away", "syncing", "synced", "waiting"
    clients,    \* how many clients have come: the id of the present one
    want,       \* the command the present client waits for
    given,      \* how many commands were given
    strayed     \* observer: did a client take a reply that was not its own

talk == <<agent, channel, pending, replies, client, clients, want, given, strayed>>

Newline == [execute |-> "\n", id |-> 0]

COMMANDS == {"guest-sync", "guest-sync-delimited", "guest-ping", "guest-info",
             "guest-network-get-interfaces", "guest-get-osinfo", "guest-shutdown"}

Syncs == {"guest-sync", "guest-sync-delimited"}

\* A character of a String as the bytes `as_bytes' gives, up to U+07FF.
utf8(c) == IF c < 128 THEN <<c>> ELSE <<192 + (c \div 64), 128 + (c % 64)>>

error_reply(class) == [return |-> class, id |-> 0, lead |-> <<>>]

\* sync_id: the number that was sent.
sync_id(line) == line[1].id

\* What a line asks for: "" for a line that is not one token, or no request.
command(line) ==
    IF Len(line) = 1 /\ line[1].execute # "not a request" THEN line[1].execute ELSE ""

\* Mutant: a shutdown is acknowledged like any other command.
silent_acknowledged(line) == line = <<>>

\* Lines that get no reply.
silent(line) == line = <<>> \/ command(line) = "guest-shutdown"

\* answer: {} is no reply; `listed' says whether the kernel would list its
\* interfaces.
answer(line, listed) ==
    LET execute == command(line)
    IN  IF silent(line) THEN {}
        ELSE IF execute = "" THEN {error_reply("GenericError")}
        ELSE IF execute \notin COMMANDS THEN {error_reply("CommandNotFound")}
        ELSE IF execute = "guest-network-get-interfaces" /\ ~listed
          THEN {error_reply("GenericError")}
        ELSE {[return |-> execute,
               id     |-> IF execute \in Syncs THEN sync_id(line) ELSE 0,
               lead   |-> IF execute = "guest-sync-delimited" THEN utf8(255) ELSE <<>>]}

AgentInit ==
    /\ agent = "absent"
    /\ channel = <<>> /\ pending = <<>> /\ replies = <<>>
    /\ client = "away" /\ clients = 0 /\ want = "" /\ given = 0 /\ strayed = FALSE

(***************************************************************************)
(* The hypervisor's side (external).                                       *)
(***************************************************************************)
Send(execute, id) == channel' = channel \o <<[execute |-> execute, id |-> id], Newline>>

Connect ==
    /\ client = "away" /\ clients < MaxClients
    /\ clients' = clients + 1
    /\ client' = "syncing"
    /\ Send(Opens[clients + 1], clients + 1)
    /\ UNCHANGED <<agent, pending, replies, want, given, strayed>>

\* What a client may be told in answer to a command.
Expected(execute) ==
    IF execute = "not a request" THEN {"GenericError"}
    ELSE IF execute \notin COMMANDS THEN {"CommandNotFound"}
    ELSE IF execute = "guest-network-get-interfaces" THEN {execute, "GenericError"}
    ELSE {execute}

\* Replies to earlier clients are read and thrown away until the sync's own.
TakeReply ==
    /\ client \in {"syncing", "waiting"} /\ replies # <<>>
    /\ replies' = Tail(replies)
    /\ LET r == Head(replies)
       IN  \/ /\ client = "syncing"
              /\ client' = IF r.return \in Syncs /\ r.id = clients THEN "synced" ELSE client
              /\ UNCHANGED <<want, strayed>>
           \/ /\ client = "waiting"
              /\ client' = "synced" /\ want' = ""
              /\ strayed' = (strayed \/ r.return \notin Expected(want))
    /\ UNCHANGED <<agent, channel, pending, clients, given>>

\* A shutdown has no reply to wait for.
Command(execute) ==
    /\ client = "synced" /\ given < MaxCommands
    /\ given' = given + 1
    /\ client' = IF execute = "guest-shutdown" THEN "synced" ELSE "waiting"
    /\ want' = IF execute = "guest-shutdown" THEN "" ELSE execute
    /\ Send(execute, 0)
    /\ UNCHANGED <<agent, pending, replies, clients, strayed>>

\* A client leaves when it likes, its request half read or its reply unread.
Disconnect ==
    /\ client # "away"
    /\ client' = "away" /\ want' = ""
    /\ UNCHANGED <<agent, channel, pending, replies, clients, given, strayed>>

HypervisorNext ==
    \/ Connect \/ TakeReply \/ Disconnect
    \/ \E execute \in Asked : Command(execute)

(***************************************************************************)
(* answer_forever.                                                         *)
(***************************************************************************)
Newlines(tokens) == {i \in 1..Len(tokens) : tokens[i] = Newline}

FirstOf(positions) == CHOOSE i \in positions : \A j \in positions : i =< j

\* Read: some of what is there.  More than a line's worth pending is dropped.
ReadSome ==
    /\ agent = "reading" /\ Newlines(pending) = {}
    /\ channel # <<>>
    /\ \E n \in 1..Chunk :
          /\ n =< Len(channel)
          /\ channel' = SubSeq(channel, n + 1, Len(channel))
          /\ pending' = IF Len(pending) + n > MaxLine THEN <<>>
                        ELSE pending \o SubSeq(channel, 1, n)
    /\ UNCHANGED <<agent, replies, client, clients, want, given, strayed>>

\* Read: nobody is connected.
ReadNobody ==
    /\ agent = "reading" /\ Newlines(pending) = {}
    /\ channel = <<>> /\ client = "away"
    /\ pending # <<>>
    /\ pending' = <<>>
    /\ UNCHANGED <<agent, channel, replies, client, clients, want, given, strayed>>

\* The next complete line; `Stops' says whether it asks for a shutdown.
NextLine == SubSeq(pending, 1, FirstOf(Newlines(pending)) - 1)

Stops(line) == Len(line) = 1 /\ line[1].execute = "guest-shutdown"

AnswerLine ==
    /\ agent = "reading" /\ Newlines(pending) # {}
    /\ pending' = SubSeq(pending, FirstOf(Newlines(pending)) + 1, Len(pending))
    /\ \E listed \in BOOLEAN :
          replies' = IF answer(NextLine, listed) = {} THEN replies
                     ELSE Append(replies, CHOOSE r \in answer(NextLine, listed) : TRUE)
    /\ UNCHANGED <<agent, channel, client, clients, want, given, strayed>>

\* A read or a write fails: the thread ends.
AgentFails ==
    /\ agent = "reading"
    /\ agent' = "ended"
    /\ pending' = <<>>
    /\ UNCHANGED <<channel, replies, client, clients, want, given, strayed>>
=============================================================================
