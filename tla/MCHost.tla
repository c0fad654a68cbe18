------------------------------- MODULE MCHost -------------------------------
(***************************************************************************)
(* Four parts, of which one is chosen at the start while the others stand  *)
(* still.                                                                  *)
(*                                                                         *)
(* "serve": a host that answers requests, with the products its tables     *)
(* know: a volume one, a retail one, a preview one, one only a host key    *)
(* counts and one nobody knows.                                            *)
(*                                                                         *)
(* "make": the way its tables and its identity came to be (Database).  Two *)
(* Windows images that share a host key and an Office pack, with three     *)
(* copies of a document, a hole between blocks and an empty placeholder    *)
(* licence; a year of days with a 29 February between the release and      *)
(* today; a directory the program does not know; and each way the input    *)
(* can be wrong.                                                           *)
(*                                                                         *)
(* "count": the client counts for any number of requests, three            *)
(* applications for two buckets and three machines for two entries, so     *)
(* that both tables overflow; an expiry of two ticks in a run of three;    *)
(* demands of all that is tracked and of more.                             *)
(*                                                                         *)
(* "limit": the rate limiter, three sources for a table of two, three      *)
(* ticks to a second and bursts of two: a source can exhaust its tokens,   *)
(* be refused inside a second, be evicted and come back.                   *)
(*                                                                         *)
(* Counted machines are interchangeable, and so are the applications they  *)
(* are counted for and the sources that are limited; a source is named by  *)
(* a machine, so that the two are permuted together.                       *)
(***************************************************************************)
EXTENDS Host, RateLimiter, TLC

CONSTANTS
    Worlds, U32, MILLION, Todays, Asked,    \* of Database
    Counted, Cmids, Demanded, Tracked       \* Applications, Machines, Demands and
                                            \* MaxTracked of the counts on their own

VARIABLES
    part,       \* which of the four is driven
    world, stage, queue, left, found, licences, ranges, named, db,
    tables, today, lcid, build, groups,     \* of Database
    held, told, since, instant              \* of the counts on their own

pipeline == <<world, stage, queue, left, found, licences, ranges, named, db,
              tables, today, lcid, build, groups>>
counting == <<held, told, since, instant>>

D == INSTANCE Database

C == INSTANCE ClientCounts WITH
    Applications <- Counted, Machines <- Cmids, Demands <- Demanded, MaxTracked <- Tracked,
    buckets <- held, view <- told, seenAt <- since, now <- instant

MCInit ==
    /\ part \in {"serve", "make", "count", "limit"}
    /\ Init /\ D!Init /\ C!Init /\ LimiterInit
    /\ part # "make" => /\ world = CHOOSE w \in Worlds : TRUE
                        /\ today = CHOOSE t \in Todays : TRUE
                        /\ queue = CHOOSE q \in D!SetToSeqs(DOMAIN world.dirs) : TRUE

Serve == part = "serve" /\ Next /\ UNCHANGED <<part, pipeline, counting, limiter_vars>>
Make == part = "make" /\ D!Next /\ UNCHANGED <<part, vars, counting, limiter_vars>>
Count == part = "count" /\ C!Next /\ UNCHANGED <<part, vars, pipeline, limiter_vars>>
Limit == part = "limit" /\ LimiterNext /\ UNCHANGED <<part, vars, pipeline, counting>>

MCNext == Serve \/ Make \/ Count \/ Limit

MCSpec == MCInit /\ [][MCNext]_<<part, vars, pipeline, counting, limiter_vars>>

Symmetric == Permutations(Cmids) \cup Permutations(Counted)

\* Properties of modules Database and ClientCounts, as they are stated and explained
\* there: a product's source is the oldest that has it; key IDs are drawn evenly
\* from those that are valid; an ePID could be a genuine one; the host answers as a
\* host key that counts the product; the counts are the machines granted within the
\* expiry period, up to the cap, and a bucket is displaced only when it is stalest.
SourceIsOldest == D!SourceIsOldest
KeyDrawIsUniform == D!KeyDrawIsUniform
EPidIsPlausible == D!EPidIsPlausible
AnswersAsKeyHolder == D!AnswersAsKeyHolder
CountsKept == C!CountsKept

-----------------------------------------------------------------------------
Configuration(activation, group, key_type) ==
    [activation |-> activation, group |-> group, edition |-> "Server", description |-> "product",
     key_type |-> key_type]

Preview(configuration) == [configuration EXCEPT !.description = "preview"]

Valid(activation, start, end) ==
    [activation |-> activation, start |-> start, end |-> end, valid |-> TRUE, part |-> 1]

NotALicence == [sku |-> 0, application |-> 0, counted |-> <<>>]

Pkey(configurations, these) ==
    [pkey |-> <<[configurations |-> configurations, ranges |-> these]>>, licence |-> NotALicence]

Licence(sku, application, counted) ==
    [pkey |-> <<>>, licence |-> [sku |-> sku, application |-> application, counted |-> counted]]

Directory(id, artifacts) == [id |-> id, stamped |-> TRUE, artifacts |-> artifacts]

Windows == 1
Office == 3

Hole == [Valid(1, 2, 3) EXCEPT !.valid = FALSE]

Copy == Pkey(<<Configuration(1, 7, "Volume:CSVLK"), Configuration(4, 5, "Volume:GVLK")>>,
             <<Valid(1, 4, 5), Hole, Valid(1, 0, 1)>>)

Server2019 ==
    Directory("windows-server-2019",
      <<Copy, Copy, Licence(1, Windows, <<>>), Licence(1, Windows, <<10>>)>>)

Server2025 ==
    Directory("windows-server-2025",
      << Pkey(<<Configuration(2, 6, "Volume:CSVLK"), Configuration(1, 7, "Volume:CSVLK"),
                Configuration(5, 8, "Retail"), Preview(Configuration(6, 9, "Volume:GVLK"))>>,
              <<Valid(2, 3, 3), [Valid(1, 0, 1) EXCEPT !.part = 2]>>),
         Licence(2, Windows, <<11, 10>>), Licence(1, Windows, <<10>>) >>)

LtscPack ==
    Directory("office-ltsc-2024",
      <<Pkey(<<Configuration(3, 4, "Volume:CSVLK")>>, <<Valid(3, 0, 2)>>),
        Licence(3, Office, <<12>>)>>)

\* The directory a name nobody listed gives, and one holding a single host key.
Unlisted == Directory("a", <<Pkey(<<Configuration(3, 4, "Volume:CSVLK")>>, <<Valid(3, 0, 1)>>)>>)

Single == Directory("windows-server-2025",
            <<Pkey(<<Configuration(2, 6, "Volume:CSVLK")>>, <<Valid(2, 3, 3)>>),
              Licence(2, Windows, <<10>>)>>)

HostBuild(number, released, use_for_epid) ==
    [build |-> number, platform |-> 3612, released |-> released, use_for_epid |-> use_for_epid,
     ndr64 |-> number > 9000]

Day(year, month, day) == [year |-> year, month |-> month, day |-> day]

On(year, month, day) == <<[shaped |-> TRUE, date |-> Day(year, month, day)]>>

Claimed == <<HostBuild(20, On(2024, 12, 30), TRUE), HostBuild(10, <<>>, FALSE),
             HostBuild(30, On(2024, 12, 31), TRUE)>>

\* Two editions share a key, two releases an edition, and a row is there twice.
Tabbed == << <<1, 1, 31>>, <<1, 2, 31>>, <<2, 1, 32>>, <<9, 3, 33>>, <<2, 1, 32>> >>

Headed(key) == << <<5, 4, 34>>, <<5, 4, key>> >>

Page(office) == [id \in {"ms-gvlk-windows", "ms-gvlk-office"} |->
                    IF id = "ms-gvlk-windows" THEN Tabbed ELSE office]

Locale(identifier, region) == [identifier |-> identifier, region |-> region]

Rows == <<Locale(9, TRUE), Locale(2092, FALSE), Locale(1033, TRUE), Locale(4096, TRUE),
          Locale(1033, TRUE)>>

Good == [dirs |-> <<LtscPack, Server2019, Server2025>>, locales |-> Rows,
         pages |-> Page(Headed(34)), curated |-> Claimed]

With1(change) == [Good EXCEPT !.dirs = <<Single, change>>]

Extra(artifacts) == Directory("office-ltsc-2024", artifacts)

YearLong == [Good EXCEPT !.dirs = <<Single>>,
                         !.curated = <<HostBuild(20, On(2023, 12, 31), TRUE)>>]

\* Refused by the extraction.
Unextractable ==
    { [Good EXCEPT !.dirs = <<>>],
      With1([Extra(<<Copy>>) EXCEPT !.stamped = FALSE]),
      With1(Extra(<<>>)),
      With1(Extra(<<Pkey(<<Configuration(2, 8, "Volume:CSVLK")>>, <<>>)>>)),
      With1(Extra(<<Pkey(<<>>, <<Valid(2, 5, 4)>>)>>)),
      With1(Extra(<<Licence(3, Office, <<-1>>)>>)),
      With1(Extra(<<Licence(3, Office, <<12>>), Licence(2, Windows, <<>>)>>)),
      [Good EXCEPT !.locales = <<Locale(9, TRUE)>>],
      [Good EXCEPT !.pages = Page(<<>>)],
      [Good EXCEPT !.curated = <<HostBuild(20, <<>>, TRUE)>>] }

\* Extracted, and refused by the build: a type nobody knows, a group of 0, a host
\* key without blocks, blocks that overlap, a 30 February, one edition with two keys.
Unbuildable ==
    { With1(Extra(<<Pkey(<<Configuration(7, 1, "")>>, <<>>)>>)),
      With1(Extra(<<Pkey(<<Configuration(7, 0, "Retail")>>, <<>>)>>)),
      With1(Extra(<<Pkey(<<Configuration(7, 1, "Volume:CSVLK")>>, <<>>)>>)),
      With1(Extra(<<Pkey(<<>>, <<Valid(2, 2, 3)>>)>>)),
      [Good EXCEPT !.curated = <<HostBuild(20, On(2024, 2, 30), TRUE)>>],
      [Good EXCEPT !.pages = Page(Headed(35))] }

\* A client edition of Office, for which nobody has a host key.
Keyless == With1(Extra(<<Pkey(<<Configuration(4, 5, "Volume:GVLK")>>, <<>>),
                         Licence(4, Office, <<>>)>>))

MCWorlds ==
    {Good, YearLong, Keyless, [Good EXCEPT !.dirs = <<Unlisted, LtscPack, Single>>]}
        \cup Unextractable \cup Unbuildable

MCTodays == {Day(2024, 12, 29), Day(2025, 1, 1)}

\* The tables of a host in service, built from a document of two rows per kind.
Row(activation, key_type, description) ==
    [activation |-> activation, group |-> 7, description |-> description, edition |-> "Server",
     key_type |-> key_type, application |-> <<Windows>>, counted |-> <<10>>,
     blocks |-> <<<<0, 1>>>>]

MCTables ==
    D!generate([application |-> <<Windows, Office>>,
                product |-> <<Row(6, "Volume:GVLK", "preview"), Row(1, "Volume:CSVLK", "product"),
                              Row(5, "Retail", "product"), Row(4, "Volume:GVLK", "product")>>,
                host_build |-> Claimed, gvlk |-> <<<<1, 1, 31>>>>, lcid |-> <<1033>>])

\* What its gate knows of each counted ID clients send.
MCProducts == {D!GateView(MCTables, counted) : counted \in Asked}
=============================================================================
