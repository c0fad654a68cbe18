------------------------------ MODULE Extract -------------------------------
(***************************************************************************)
(* kmsrs-dbgen: directories of licensing artifacts, two published tables   *)
(* and a curated one become the database that is committed (extract.rs,    *)
(* xrm.rs, gvlk.rs, lcid.rs, hostbuild.rs, model.rs, main.rs).             *)
(*                                                                         *)
(* GUIDs, names and keys are integers, so that they are ordered; 0 stands  *)
(* for an absent GUID or text and Malformed for one that does not parse.   *)
(* A world is what the program finds when it runs:                         *)
(*   dirs      the directories in the order of their names, each [id,      *)
(*             stamped, artifacts] with its artifacts in order of path     *)
(*   locales   the rows of the locale page, [identifier, region]           *)
(*   pages     for each of the two key pages its rows as scanned: a        *)
(*             release, an edition and a key                               *)
(*   curated   the rows of the host-build table                            *)
(* XML, base64, gzip, text encodings and HTML are read by libraries and    *)
(* scanners whose output this is; a document they cannot read is malformed.*)
(***************************************************************************)
EXTENDS Integers, Sequences, SequencesExt

CONSTANT Worlds

Malformed == -1

VARIABLES
    world, stage,
    queue,      \* directories still to be read, as indices into world.dirs
    left,       \* artifacts of the current one still to be read
    found,      \* source_applications: what its licences named so far
    licences,   \* licences_by_activation: [licence, source] by activation ID
    ranges,     \* ranges_by_activation: blocks by activation ID
    named,      \* applications: the source that first named each
    db          \* the Database

extraction == <<world, stage, queue, left, found, licences, ranges, named, db>>

\* SOURCES, oldest image first.
SOURCES == << [id |-> "windows-server-2019", origin |-> "artifacts"],
              [id |-> "windows-server-2025", origin |-> "artifacts"],
              [id |-> "office-ltsc-2024", origin |-> "artifacts"],
              [id |-> "ms-lcid", origin |-> "specification"],
              [id |-> "ms-gvlk-windows", origin |-> "specification"],
              [id |-> "ms-gvlk-office", origin |-> "specification"],
              [id |-> "research", origin |-> "curated"] >>

\* Where an identifier stands in SOURCES; past the end if it is not there.
Position(id) ==
    IF \E i \in 1..Len(SOURCES) : SOURCES[i].id = id
    THEN CHOOSE i \in 1..Len(SOURCES) : SOURCES[i].id = id
    ELSE Len(SOURCES) + 1

\* The key of sort_by_key in extract_all: position in SOURCES, then the name.
\* Mutant: the name.
BeforeByName(i, j) == i < j

Before(i, j) ==
    LET a == Position(world.dirs[i].id)
        b == Position(world.dirs[j].id)
    IN  a < b \/ (a = b /\ i < j)

Sorted(S, Less(_, _)) == SetToSortSeq(S, Less)

NoLicence == [sku |-> 0, application |-> 0, counted |-> <<>>]

EmptyDatabase ==
    [sources |-> <<>>, applications |-> <<>>, products |-> <<>>,
     host_builds |-> <<>>, lcids |-> <<>>, gvlks |-> <<>>]

\* Every reading before the first directory, and every listing read_dir may give.
ExtractInit ==
    /\ world \in Worlds
    /\ stage = "listing"
    /\ queue \in SetToSeqs(DOMAIN world.dirs)
    /\ left = <<>> /\ found = {}
    /\ licences = <<>> /\ ranges = <<>> /\ named = <<>>
    /\ db = EmptyDatabase

Fail == stage' = "failed" /\ UNCHANGED <<world, queue, left, found, licences, ranges, named, db>>

-----------------------------------------------------------------------------
(***************************************************************************)
(* Reading artifacts.  An artifact is [pkey, licence]: pkey is <<>> or a   *)
(* sequence of one decoded product key configuration.                      *)
(***************************************************************************)

\* parse_pkeyconfig fails on a configuration without its identifiers and on a
\* range without its ends or that runs backwards.
PkeyOk(document) ==
    /\ \A i \in DOMAIN document.configurations :
          Malformed \notin {document.configurations[i].activation, document.configurations[i].group}
    /\ \A i \in DOMAIN document.ranges :
          LET r == document.ranges[i]
          IN  Malformed \notin {r.activation, r.start, r.end} /\ r.start =< r.end

\* parse_licence fails on a GUID it cannot read.
LicenceOk(licence) ==
    Malformed \notin {licence.sku, licence.application} \cup Range(licence.counted)

Readable(artifact) ==
    /\ artifact.pkey # <<>> => PkeyOk(artifact.pkey[1])
    /\ LicenceOk(artifact.licence)

Get(f, key, default) == IF key \in DOMAIN f THEN f[key] ELSE default

With(f, key, value) == [k \in DOMAIN f \cup {key} |-> IF k = key THEN value ELSE f[k]]

\* The ranges of a document that are marked valid, added to what is known.
WithRanges(known, document) ==
    FoldLeft(LAMBDA f, r :
                IF r.valid
                THEN With(f, r.activation,
                          Append(Get(f, r.activation, <<>>),
                                 [part |-> r.part, start |-> r.start, end |-> r.end]))
                ELSE f,
             known, document.ranges)

Known(products, activation) == {i \in DOMAIN products : products[i].activation = activation}

\* A configuration met before must agree on its group.
Disagrees(products, c) == \E i \in Known(products, c.activation) : products[i].group # c.group

\* The first to describe a product is kept.
WithProduct(products, c, id) ==
    IF Known(products, c.activation) # {} THEN products
    ELSE Append(products,
           [activation |-> c.activation, group |-> c.group, edition |-> c.edition,
            description |-> c.description, key_type |-> c.key_type, blocks |-> <<>>,
            application |-> 0, counted |-> <<>>, source |-> id, licence_source |-> ""])

\* Configurations are absorbed in turn: one may disagree with an earlier one of
\* the same document.
WithConfigurations(products, configurations, id) ==
    FoldLeft(LAMBDA ps, c : WithProduct(ps, c, id), products, configurations)

Contradicts(products, configurations, id) ==
    \E i \in DOMAIN configurations :
        Disagrees(WithConfigurations(products, SubSeq(configurations, 1, i - 1), id),
                  configurations[i])

\* The first licence of a product is kept until one that counts something comes.
WithLicence(known, licence, id) ==
    LET before == Get(known, licence.sku, [licence |-> NoLicence, source |-> ""])
    IN  IF \/ licence.sku \notin DOMAIN known
           \/ before.licence.counted = <<>> /\ licence.counted # <<>>
        THEN With(known, licence.sku, [licence |-> licence, source |-> id])
        ELSE known

\* The directories in their order; none at all is an error.
ListDirectories ==
    /\ stage = "listing"
    /\ \/ queue = <<>> /\ Fail
       \/ /\ queue # <<>>
          /\ queue' = Sorted(Range(queue), Before)
          /\ stage' = "sources"
          /\ UNCHANGED <<world, left, found, licences, ranges, named, db>>

Current == world.dirs[queue[1]]

\* read_source and collect_artifacts.
OpenSource ==
    /\ stage = "sources" /\ queue # <<>>
    /\ \/ (~Current.stamped \/ Current.artifacts = <<>>) /\ Fail
       \/ /\ Current.stamped /\ Current.artifacts # <<>>
          /\ left' = Current.artifacts
          /\ found' = {}
          /\ stage' = "artifacts"
          /\ UNCHANGED <<world, queue, licences, ranges, named, db>>

\* absorb_pkeyconfig, then absorb_licence, on the next artifact.
AbsorbArtifact ==
    /\ stage = "artifacts" /\ left # <<>>
    /\ LET artifact == left[1]
           document == IF artifact.pkey = <<>>
                       THEN [configurations |-> <<>>, ranges |-> <<>>] ELSE artifact.pkey[1]
           licence == artifact.licence
           refused == \/ ~Readable(artifact)
                      \/ Contradicts(db.products, document.configurations, Current.id)
       IN  \/ refused /\ Fail
           \/ /\ ~refused
              /\ ranges' = WithRanges(ranges, document)
              /\ db' = [db EXCEPT !.products =
                           WithConfigurations(@, document.configurations, Current.id)]
              /\ licences' = IF licence.sku = 0 THEN licences
                             ELSE WithLicence(licences, licence, Current.id)
              /\ LET names == licence.sku # 0 /\ licence.application # 0
                 IN  /\ found' = IF names THEN found \cup {licence.application} ELSE found
                     /\ named' = IF names /\ licence.application \notin DOMAIN named
                                 THEN With(named, licence.application, Current.id) ELSE named
              /\ left' = Tail(left)
              /\ UNCHANGED <<world, stage, queue>>

\* A source whose licences name two applications cannot be attributed to one.
CloseSource ==
    /\ stage = "artifacts" /\ left = <<>>
    /\ \/ Cardinality(found) > 1 /\ Fail
       \/ /\ Cardinality(found) =< 1
          /\ db' = [db EXCEPT !.sources =
                       Append(@, [id |-> Current.id,
                                  application |-> IF found = {} THEN 0
                                                  ELSE CHOOSE a \in found : TRUE])]
          /\ queue' = Tail(queue)
          /\ stage' = "sources"
          /\ UNCHANGED <<world, left, found, licences, ranges, named>>

-----------------------------------------------------------------------------
(***************************************************************************)
(* The join, and the order every table is left in (Database::sort).        *)
(***************************************************************************)
SourceApplication(id) ==
    LET of == {i \in DOMAIN db.sources : db.sources[i].id = id}
    IN  IF of = {} THEN 0 ELSE db.sources[CHOOSE i \in of : TRUE].application

\* A product with its blocks, and what its licence says of it; the application
\* is its source's if the licence names none.
Joined(p) ==
    LET has == p.activation \in DOMAIN licences
        licence == IF has THEN licences[p.activation].licence ELSE NoLicence
    IN  [p EXCEPT !.blocks = Get(ranges, p.activation, <<>>),
                  !.counted = licence.counted,
                  !.application = IF licence.application # 0 THEN licence.application
                                  ELSE SourceApplication(p.source),
                  !.licence_source = IF has THEN licences[p.activation].source ELSE ""]

\* Identical blocks are one block: a component's document is found three times.
SortedProduct(p) ==
    [p EXCEPT
       !.blocks = Sorted(Range(@), LAMBDA a, b :
                     \/ a.start < b.start
                     \/ a.start = b.start /\ a.end < b.end
                     \/ a.start = b.start /\ a.end = b.end /\ a.part < b.part),
       !.counted = Sorted(Range(@), LAMBDA a, b : a < b)]

SortProducts(products) ==
    LET sorted == [i \in DOMAIN products |-> SortedProduct(products[i])]
    IN  Sorted(Range(sorted), LAMBDA a, b :
                  \/ a.group < b.group
                  \/ a.group = b.group /\ a.activation < b.activation)

GvlkBefore(a, b) ==
    \/ a.release < b.release
    \/ a.release = b.release /\ a.edition < b.edition
    \/ a.release = b.release /\ a.edition = b.edition /\ a.key < b.key
    \/ /\ a.release = b.release /\ a.edition = b.edition /\ a.key = b.key
       /\ Position(a.source) < Position(b.source)

\* Database::sort; the keys of two pages are merged, repeats dropped.  The order
\* of the sources is for the reader of the file only and is left as it is.
SortTables(d) ==
    [d EXCEPT !.applications = Sorted(Range(@), LAMBDA a, b : a.guid < b.guid),
              !.products = SortProducts(@),
              !.host_builds = Sorted(Range(@), LAMBDA a, b : a.build < b.build),
              !.lcids = Sorted(Range(@), LAMBDA a, b : a < b),
              !.gvlks = Sorted(Range(@), GvlkBefore)]

Join ==
    /\ stage = "sources" /\ queue = <<>>
    /\ LET guids == DOMAIN named
       IN  db' = [db EXCEPT !.products = [i \in DOMAIN @ |-> Joined(@[i])],
                            !.applications = SetToSeq({[guid |-> a, source |-> named[a]] : a \in guids})]
    /\ stage' = "scrape"
    /\ UNCHANGED <<world, queue, left, found, licences, ranges, named>>

-----------------------------------------------------------------------------
(***************************************************************************)
(* The published tables and the curated one.                               *)
(***************************************************************************)
FIRST_SPECIFIC_CULTURE == 1025
LAST_SPECIFIC_CULTURE == 32767
UNASSIGNED == 4096

\* lcid::parse: specific cultures whose tag names a region, each once.
Locales(rows) ==
    { row.identifier : row \in
        {r \in Range(rows) : /\ r.identifier \in FIRST_SPECIFIC_CULTURE..LAST_SPECIFIC_CULTURE
                             /\ r.identifier # UNASSIGNED
                             /\ r.region} }

\* gvlk::parse: each (release, edition, key) of a page once, and the page it is from.
KeyRows(page, id) ==
    { [release |-> row[1], edition |-> row[2], key |-> row[3], source |-> id] : row \in Range(page) }

\* hostbuild::load: what a row must have, no build twice, one at least to claim.
\* A date is <<>> or <<[shaped, date]>>.
LoadOk(rows) ==
    /\ \A i \in DOMAIN rows :
          /\ Malformed \notin {rows[i].build, rows[i].platform}
          /\ IF rows[i].released # <<>> THEN rows[i].released[1].shaped ELSE ~rows[i].use_for_epid
    /\ \A i, j \in DOMAIN rows : i # j => rows[i].build # rows[j].build
    /\ \E i \in DOMAIN rows : rows[i].use_for_epid

\* One pass over SOURCES for those that are not directories of artifacts; a page
\* that cannot be fetched fails as one that yields nothing does.
Scrape ==
    /\ stage = "scrape"
    /\ LET pages == DOMAIN world.pages
           gvlks == UNION {KeyRows(world.pages[id], id) : id \in pages}
           locales == Locales(world.locales)
           extra == SelectSeq(SOURCES, LAMBDA s : s.origin # "artifacts")
           failed == \/ locales = {} \/ ~LoadOk(world.curated)
                     \/ \E id \in pages : KeyRows(world.pages[id], id) = {}
       IN  \/ failed /\ Fail
           \/ /\ ~failed
              /\ db' = SortTables(
                         [db EXCEPT !.lcids = SetToSeq(locales),
                                    !.gvlks = SetToSeq(gvlks),
                                    !.host_builds = world.curated,
                                    !.sources = @ \o [i \in DOMAIN extra |->
                                        [id |-> extra[i].id, application |-> 0]]])
              /\ stage' = "written"
              /\ UNCHANGED <<world, queue, left, found, licences, ranges, named>>

ExtractNext ==
    ListDirectories \/ OpenSource \/ AbsorbArtifact \/ CloseSource \/ Join \/ Scrape

-----------------------------------------------------------------------------
\* Does a directory's artifacts describe a product?
Describes(dir, activation) ==
    \E i \in DOMAIN dir.artifacts :
        /\ dir.artifacts[i].pkey # <<>>
        /\ \E j \in DOMAIN dir.artifacts[i].pkey[1].configurations :
              dir.artifacts[i].pkey[1].configurations[j].activation = activation

\* A product's source is the earliest image that contained it, by SOURCES and not
\* by the order a filesystem lists directories in or the digits of their names: a
\* key cannot have been installed on a host older than the build that bounds it.
SourceIsOldest ==
    stage = "written" =>
        \A i \in DOMAIN db.products :
            LET p == db.products[i]
                holders == {Position(world.dirs[d].id) : d \in
                              {k \in DOMAIN world.dirs : Describes(world.dirs[k], p.activation)}}
            IN  /\ Position(p.source) \in holders
                /\ \A h \in holders : Position(p.source) =< h
=============================================================================
