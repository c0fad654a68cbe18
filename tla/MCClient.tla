------------------------------ MODULE MCClient ------------------------------
(***************************************************************************)
(* One run of the client program in each mode, or one association in full  *)
(* detail (module Exchange): which of the two is chosen at the start, and  *)
(* the other stands still.                                                 *)
(*                                                                         *)
(* Soak: two workers and three requests, so that one worker reuses its     *)
(* session and the other finds the queue empty.  Probe: this host, a       *)
(* genuine one, and hosts that differ in one or several ways.  Discovery:  *)
(* priorities and weights, zero among them, over hosts with two addresses, *)
(* one or none.  Charge: thresholds that are ordinary and past what this   *)
(* host tracks, with and without enough requests to get there.             *)
(* Exchange: the code's own caps and sizes; foreign clients start with     *)
(* none, nearly all or all of the context items considered; clocks         *)
(* straddle the edge of a time slot; ePIDs are empty, of both parities and *)
(* as long as they get.                                                    *)
(***************************************************************************)
EXTENDS ClientTool, Exchange

VARIABLE detail    \* which of the two is driven

Flag(name) == [name |-> name, value |-> <<>>]
Set(name, value) == [name |-> name, value |-> <<value>>]

MCInit ==
    /\ detail \in BOOLEAN
    /\ Init
    /\ ExchangeInit
    /\ detail => run = parse(<<Flag("--catalog")>>) /\ traits = CHOOSE t \in Traits : TRUE
    /\ ~detail => ndr64 /\ body = [declared |-> 0, items |-> <<>>]

MCNext ==
    /\ UNCHANGED detail
    /\ \/ ~detail /\ Next /\ UNCHANGED exchange_vars
       \/ detail /\ ExchangeNext /\ UNCHANGED vars

everything == <<detail, vars, exchange_vars>>

MCSpec ==
    /\ MCInit /\ [][MCNext]_everything
    /\ WF_everything(~detail /\ MainStep /\ UNCHANGED <<detail, exchange_vars>>)
    /\ \A w \in Workers :
          WF_everything(/\ ~detail /\ place = "soak"
                        /\ worker(w) /\ UNCHANGED <<detail, tool, exchange_vars>>)

\* The run ends and accounts for itself (ClientTool), where there is a run.
RunEnds == ~detail => RunAccounts

-----------------------------------------------------------------------------
\* The last mode given is the one that counts; a value out of range, an unknown
\* option, two hosts or none are errors.
MCCommandLines ==
    { <<Flag("--catalog")>>, <<Flag("--charge"), Flag("--help")>>, <<>>,
      <<Set("--concurrency", 0), Flag("target")>>, <<Flag("target"), Flag("target")>>,
      <<Flag("target"), Flag("--soak")>>, <<Flag("target"), Set("--version", 7)>>,
      <<Set("--discover", 0), Flag("target")>>, <<Flag("--quick")>>,
      <<Set("--discover", 0), Flag("--healthcheck")>>,
      <<Flag("target")>>, <<Set("--version", 6), Flag("target")>>,
      <<Flag("target"), Flag("--charge"), Set("--n-policy", 2)>>,
      <<Flag("target"), Flag("--charge"), Set("--charge-limit", 2)>>,
      <<Flag("--healthcheck"), Flag("--charge"), Set("--charge-limit", 5), Flag("target")>>,
      <<Flag("target"), Flag("--charge"), Set("--n-policy", 4), Set("--charge-limit", 6)>>,
      <<Flag("target"), Flag("--charge"), Set("--n-policy", 6), Set("--charge-limit", 9)>>,
      <<Flag("target"), Flag("--charge"), Set("--n-policy", 0), Set("--charge-limit", 0)>>,
      <<Set("--soak", 3), Flag("target")>> }

Host(syntaxes, epid, group, counting, refuses, stock, faulty) ==
    [syntaxes |-> syntaxes, epid |-> epid, group |-> group, count |-> counting,
     refuses |-> refuses, stock |-> stock, faulty |-> faulty]

MCTraits ==
    { Host({"ndr32", "ndr64"}, "one", "fresh", "this", FALSE, FALSE, FALSE),
      Host({"ndr32"}, "one", "fresh", "genuine", FALSE, FALSE, FALSE),
      Host({"ndr32"}, "fresh", "constant", "doubled", FALSE, TRUE, FALSE),
      Host({"ndr64"}, "one", "fresh", "floored", FALSE, FALSE, TRUE),
      Host({"ndr32", "ndr64"}, "one", "constant", "genuine", TRUE, FALSE, FALSE),
      Host({}, "one", "fresh", "genuine", FALSE, FALSE, FALSE) }

Record(priority, weight, at_these) ==
    [priority |-> priority, weight |-> weight, at |-> at_these]

MCZones ==
    { <<>>, <<Record(0, 0, <<".">>)>>,
      <<Record(1, 2, <<"b">>), Record(0, 0, <<"a", "c">>), Record(1, 0, <<>>)>>,
      <<Record(0, 1, <<"c">>), Record(0, 0, <<"b">>), Record(2, 3, <<"a">>)>> }

MC_Shapes ==
    { [context_id |-> 0, kms |-> kms, offered |-> offered] : kms \in BOOLEAN,
        offered \in {<<>>, <<"ndr32">>, <<"ndr64">>, <<"ndr32", "ndr64">>, <<"btfn">>,
                     <<"unknown">>, <<"btfn", "ndr64">>,
                     <<"ndr32", "ndr32", "ndr32", "ndr32", "ndr32">>} }

MC_Declared == {<<4, 0>>, <<5, 0>>, <<6, 0>>, <<6, 1>>, <<7, 0>>}
=============================================================================
