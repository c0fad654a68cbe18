------------------------------ MODULE Database ------------------------------
(***************************************************************************)
(* From Microsoft's artifacts to the answers of a host: extraction (module *)
(* Extract), the build (module Tables) and the identity a process draws    *)
(* when it starts (module Identity).                                       *)
(***************************************************************************)
EXTENDS Extract, Identity

CONSTANTS Todays,    \* dates the wall clock may show when the host starts
          Asked      \* counted IDs clients ask for, some in no artifact

VARIABLES tables, today, lcid, build, groups

identity == <<today, lcid, build, groups>>
vars == <<extraction, tables, identity>>

Init ==
    /\ ExtractInit
    /\ tables = <<>>
    /\ today \in Todays
    /\ lcid = 0 /\ build = 0
    /\ groups = <<>>

\* cargo build: the script and the compiler accept the document, or nothing is built.
Build ==
    /\ stage = "written"
    /\ LET document == to_toml(db)
       IN  \/ /\ ~Builds(document)
              /\ stage' = "refused" /\ UNCHANGED tables
           \/ /\ Builds(document)
              /\ tables' = generate(document)
              /\ stage' = "built"
    /\ UNCHANGED <<world, queue, left, found, licences, ranges, named, db, identity>>

\* HostIdentity::generate: the locale and the build, drawn once and shared.
DrawShared ==
    /\ stage = "built"
    /\ \E l \in DOMAIN tables.LCIDS, b \in DOMAIN tables.EPID_HOST_BUILDS :
          lcid' = lcid_at(tables, l) /\ build' = epid_host_build_at(tables, b)
    /\ stage' = "drawing"
    /\ UNCHANGED <<world, queue, left, found, licences, ranges, named, db, tables, today, groups>>

\* Then each host key's own, in the order of the table; the last one ends it.
DrawGroup ==
    /\ stage = "drawing"
    /\ LET csvlk == tables.CSVLKS[Len(groups) + 1]
           claimed == tables.HOST_BUILDS[build]
       IN  \E word \in 0..U32, days \in uniform_in_inclusive_range(0, span(claimed, today)) :
           \E offset \in uniform_below(total(csvlk), word) :
              groups' = Append(groups, generate_group(csvlk, claimed, lcid, offset, days))
    /\ stage' = IF Len(groups) + 1 = Len(tables.CSVLKS) THEN "serving" ELSE stage
    /\ UNCHANGED <<world, queue, left, found, licences, ranges, named, db, tables, today, lcid, build>>

\* A source of entropy that fails any draw keeps the host from starting.
EntropyUnavailable ==
    /\ stage \in {"built", "drawing"}
    /\ stage' = "no_entropy"
    /\ UNCHANGED <<world, queue, left, found, licences, ranges, named, db, tables, identity>>

Next ==
    \/ ExtractNext /\ UNCHANGED <<tables, identity>>
    \/ Build \/ DrawShared \/ DrawGroup \/ EntropyUnavailable

Spec == Init /\ [][Next]_vars

-----------------------------------------------------------------------------
\* The ranges the artifacts call valid for a host key, as a set of key IDs.
GenuineKeys(activation) ==
    UNION { UNION { {k \in 0..U32 : \E r \in Range(document.ranges) :
                        /\ r.activation = activation /\ r.valid /\ r.start =< k /\ k =< r.end} :
                    document \in UNION {Range(a.pkey) : a \in Range(world.dirs[d].artifacts)} } :
            d \in DOMAIN world.dirs }

\* Every key ID Microsoft's artifacts call valid for a host key is drawn by equally
\* many of the words an entropy source may give, and no other ever is: not one in
\* a hole between blocks, not one counted twice because three copies of a document
\* or two overlapping blocks hold it, and none favoured by a remainder.  (Past
\* u32::MAX in all the draw saturates.)
KeyDrawIsUniform ==
    stage = "built" =>
        \A i \in DOMAIN tables.CSVLKS :
            LET csvlk == tables.CSVLKS[i]
                genuine == GenuineKeys(csvlk.activation)
                drawn(word) == {draw_key_id(csvlk, o) : o \in uniform_below(total(csvlk), word)}
                words(key) == {word \in 0..U32 : key \in drawn(word)}
            IN  Cardinality(genuine) =< U32 =>
                  /\ UNION {drawn(word) : word \in 0..U32} = genuine
                  /\ \A j, k \in genuine : Cardinality(words(j)) = Cardinality(words(k))

\* What a host tells of itself is something a genuine one could tell: the date an
\* ePID's day and year name is the day drawn, a day that exists, not before the
\* build it claims was released nor, unless the clock is behind that, after today;
\* and one build and one locale for all its host keys.
EPidIsPlausible ==
    \A i \in DOMAIN groups :
        LET epid == groups[i].epid
            named_day == days_since_epoch(Date(epid.year, 1, 1)) + epid.day - 1
            release == days_since_epoch(tables.HOST_BUILDS[build].release_date[1])
            present == days_since_epoch(today)
        IN  /\ Exists(groups[i].activated)
            /\ named_day = days_since_epoch(groups[i].activated)
            /\ epid.day \in 1..366
            /\ release =< named_day
            /\ named_day =< IF present < release THEN release ELSE present
            /\ epid.group = tables.CSVLKS[i].group
            /\ epid.key_high * MILLION + epid.key_low \in GenuineKeys(tables.CSVLKS[i].activation)
            /\ epid.build = groups[1].epid.build /\ epid.lcid = groups[1].epid.lcid

\* Host keys whose licences list a counted ID, as the artifacts have it.
Counting(counted) ==
    UNION { {a.licence.sku : a \in {b \in Range(world.dirs[d].artifacts) :
                                       counted \in Range(b.licence.counted)}} :
            d \in DOMAIN world.dirs }

\* How many products the licences of a host key list.
Breadth(sku) ==
    Cardinality(UNION { UNION {Range(a.licence.counted) :
                                 a \in {b \in Range(world.dirs[d].artifacts) : b.licence.sku = sku}} :
                        d \in DOMAIN world.dirs })

\* A product some host key counts is answered as one of the host keys Microsoft's
\* licences say count it, whatever else the table holds, and as one that counts no
\* more products than another of them; a product no host key counts is answered as a
\* host key of the application that asked, when there is one, that counts the most.
AnswersAsKeyHolder ==
    stage = "serving" =>
        \A application \in Range(tables.APPLICATIONS), counted \in Asked :
            LET answer == select(tables, application, counted)
                key == tables.CSVLKS[answer.index]
                holders == Counting(counted) \cap
                              {c.activation : c \in Range(tables.CSVLKS)}
                own == {c \in Range(tables.CSVLKS) : c.application = <<application>>}
            IN  /\ answer.index \in DOMAIN groups
                /\ answer.resolved <=> holders # {}
                /\ answer.resolved
                     => /\ key.activation \in holders
                        /\ \A h \in holders : Breadth(key.activation) =< Breadth(h)
                /\ ~answer.resolved
                     => \/ own = {}
                        \/ /\ key \in own
                           /\ \A c \in own : Breadth(c.activation) =< Breadth(key.activation)
=============================================================================
