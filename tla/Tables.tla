------------------------------- MODULE Tables -------------------------------
(***************************************************************************)
(* The committed database compiled into static tables, and the lookups     *)
(* made in them (kmsrs-dbgen/emit.rs, kmsrs-db/build.rs, tables.rs,        *)
(* query.rs).  A build refuses a document or produces the tables.          *)
(***************************************************************************)
EXTENDS Integers, Sequences, SequencesExt, Calendar

CONSTANT U32   \* u32::MAX

ByKey(S, Key(_)) == SetToSortSeq(S, LAMBDA a, b : Key(a) < Key(b))

(***************************************************************************)
(* What is written of each row: an absent application or date has no line, *)
(* provenance and part numbers have lines nothing reads.                   *)
(***************************************************************************)
Optional(guid) == IF guid = 0 THEN <<>> ELSE <<guid>>

write_product(p) ==
    [activation |-> p.activation, group |-> p.group, description |-> p.description,
     edition |-> p.edition, key_type |-> p.key_type, application |-> Optional(p.application),
     counted |-> p.counted,
     blocks |-> [i \in DOMAIN p.blocks |-> <<p.blocks[i].start, p.blocks[i].end>>]]

gvlk_rows(db) ==
    [i \in DOMAIN db.gvlks |-> <<db.gvlks[i].release, db.gvlks[i].edition, db.gvlks[i].key>>]

to_toml(db) ==
    [application |-> [i \in DOMAIN db.applications |-> db.applications[i].guid],
     product |-> [i \in DOMAIN db.products |-> write_product(db.products[i])],
     host_build |-> db.host_builds, gvlk |-> gvlk_rows(db), lcid |-> db.lcids]

-----------------------------------------------------------------------------
(***************************************************************************)
(* build.rs: what is read and what each table must satisfy.                *)
(***************************************************************************)
Distinct(s) == \A i, j \in DOMAIN s : i # j => s[i] # s[j]

\* read_applications: at least one row, no GUID twice.
ApplicationsOk(document) == document.application # <<>> /\ Distinct(document.application)

read_applications(document) == ByKey(Range(document.application), LAMBDA a : a)

\* read_key_blocks: sorted by start then end, identical ones once.
read_key_blocks(row) ==
    SetToSortSeq(Range(row.blocks), LAMBDA a, b : a[1] < b[1] \/ (a[1] = b[1] /\ a[2] < b[2]))

\* read_products: a row's group is not 0, its application is in the table, its
\* blocks do not run backwards; no activation ID twice.
ProductsOk(document) ==
    /\ document.product # <<>>
    /\ \A i \in DOMAIN document.product :
          LET row == document.product[i]
          IN  /\ row.group > 0
              /\ Range(row.application) \subseteq Range(document.application)
              /\ \A b \in Range(row.blocks) : b[1] =< b[2]
    /\ Distinct([i \in DOMAIN document.product |-> document.product[i].activation])

read_products(document) ==
    ByKey({[row EXCEPT !.blocks = read_key_blocks(row)] : row \in Range(document.product)},
          LAMBDA p : p.activation)

\* The kind of each key type; any other string stops the build.
Kinds ==
    [t \in {"Volume:CSVLK", "Volume:GVLK", "Volume:MAK", "Retail", "Retail:TB:Eval",
            "OEM:DM", "OEM:NONSLP", "OEM:SLP", "OEM:COA", "VT:IA", "PGS:TB"} |->
        CASE t = "Volume:CSVLK" -> "KmsHost"
          [] t = "Volume:GVLK" -> "KmsClient"
          [] t = "Volume:MAK" -> "MultipleActivation"
          [] t = "Retail" -> "Retail"
          [] t = "Retail:TB:Eval" -> "Evaluation"
          [] t \in {"OEM:DM", "OEM:NONSLP", "OEM:SLP", "OEM:COA"} -> "OriginalEquipment"
          [] OTHER -> "Other"]

is_volume(kind) == kind \in {"KmsHost", "KmsClient", "MultipleActivation"}

KindsOk(document) == \A row \in Range(document.product) : row.key_type \in DOMAIN Kinds

\* Does a block begin at or before the end of the one before it?
blocks_overlap(blocks) == \E i \in DOMAIN blocks : i > 1 /\ blocks[i][1] =< blocks[i - 1][2]

HostKeys(products) == SelectSeq(products, LAMBDA p : p.key_type = "Volume:CSVLK")

\* write_csvlks: there is a host key, and each has blocks that do not overlap.
CsvlksOk(document) ==
    LET keys == HostKeys(read_products(document))
    IN  /\ keys # <<>>
        /\ \A i \in DOMAIN keys : keys[i].blocks # <<>> /\ ~blocks_overlap(keys[i].blocks)

write_csvlks(products) ==
    LET keys == HostKeys(products)
    IN  [i \in DOMAIN keys |->
           [activation |-> keys[i].activation, group |-> keys[i].group,
            application |-> keys[i].application, key_blocks |-> keys[i].blocks,
            counted_ids |-> keys[i].counted]]

\* Each counted ID with the positions of the host keys that count it.
write_counted_ids(csvlks) ==
    LET ids == UNION {Range(csvlks[i].counted_ids) : i \in DOMAIN csvlks}
        holders(id) == {i \in DOMAIN csvlks : id \in Range(csvlks[i].counted_ids)}
    IN  ByKey({[guid |-> id, csvlks |-> ByKey(holders(id), LAMBDA i : i)] : id \in ids},
              LAMBDA e : e.guid)

\* parse_date only looks for a month of twelve and a day of thirty-one.
parse_date_ok(date) == date.month \in 1..12 /\ date.day \in 1..31

HostBuildsOk(document) ==
    /\ document.host_build # <<>>
    /\ \A row \in Range(document.host_build) :
          /\ row.released # <<>> => parse_date_ok(row.released[1].date)
          /\ row.use_for_epid => row.released # <<>>
    /\ Distinct([i \in DOMAIN document.host_build |-> document.host_build[i].build])
    /\ \E row \in Range(document.host_build) : row.use_for_epid

\* A date that does not exist is emitted as Date::new(..), which is None.
write_host_builds(document) ==
    ByKey({ [build |-> row.build, platform_id |-> row.platform,
             use_for_epid |-> row.use_for_epid, ndr64 |-> row.ndr64,
             release_date |-> IF row.released # <<>> /\ Exists(row.released[1].date)
                              THEN <<row.released[1].date>> ELSE <<>>] :
                row \in Range(document.host_build) },
          LAMBDA b : b.build)

epid_indices(builds) ==
    ByKey({i \in DOMAIN builds : builds[i].use_for_epid}, LAMBDA i : i)

\* Keys after sorting and dropping repeats: no release lists an edition twice.
GvlksOk(document) ==
    /\ document.gvlk # <<>>
    /\ \A k \in Range(document.gvlk) : k[1] # 0 /\ k[2] # 0
    /\ \A k, l \in Range(document.gvlk) : k[1] = l[1] /\ k[2] = l[2] => k = l

write_gvlks(document) ==
    SetToSortSeq(Range(document.gvlk), LAMBDA a, b :
       \/ a[1] < b[1] \/ (a[1] = b[1] /\ a[2] < b[2])
       \/ (a[1] = b[1] /\ a[2] = b[2] /\ a[3] < b[3]))

LcidsOk(document) ==
    /\ document.lcid # <<>>
    /\ \A value \in Range(document.lcid) : value >= 1025
    /\ Distinct(document.lcid)

write_lcids(document) == ByKey(Range(document.lcid), LAMBDA v : v)

\* Microsoft's own description marks a pre-release product.
is_preview(p) == p.description = "preview"

write_products(products) ==
    [i \in DOMAIN products |->
        [activation |-> products[i].activation, kind |-> Kinds[products[i].key_type],
         preview |-> is_preview(products[i]), application |-> products[i].application]]

generate(document) ==
    LET products == read_products(document)
        csvlks == write_csvlks(products)
        builds == write_host_builds(document)
    IN  [APPLICATIONS |-> read_applications(document),
         PRODUCTS |-> write_products(products),
         CSVLKS |-> csvlks,
         COUNTED_IDS |-> write_counted_ids(csvlks),
         HOST_BUILDS |-> builds,
         EPID_HOST_BUILDS |-> epid_indices(builds),
         GVLKS |-> write_gvlks(document),
         LCIDS |-> write_lcids(document)]

Increasing(s, Key(_)) == \A i \in DOMAIN s : i > 1 => Key(s[i - 1]) < Key(s[i])

\* write_assertions: evaluated by the compiler over the tables themselves.
AssertionsHold(t) ==
    /\ Increasing(t.APPLICATIONS, LAMBDA a : a)
    /\ Increasing(t.PRODUCTS, LAMBDA p : p.activation)
    /\ Increasing(t.COUNTED_IDS, LAMBDA c : c.guid)
    /\ \A c \in Range(t.COUNTED_IDS) :
          c.csvlks # <<>> /\ Range(c.csvlks) \subseteq DOMAIN t.CSVLKS
    /\ t.EPID_HOST_BUILDS # <<>>
    /\ \A i \in Range(t.EPID_HOST_BUILDS) :
          t.HOST_BUILDS[i].use_for_epid /\ t.HOST_BUILDS[i].release_date # <<>>
    /\ t.LCIDS # <<>> /\ t.GVLKS # <<>>
    /\ \A c \in Range(t.CSVLKS) : c.key_blocks # <<>> /\ c.group > 0

\* The build script's own checks; the compiler's follow.
ScriptAccepts(document) ==
    /\ ApplicationsOk(document) /\ ProductsOk(document) /\ KindsOk(document)
    /\ CsvlksOk(document) /\ HostBuildsOk(document) /\ GvlksOk(document) /\ LcidsOk(document)

Builds(document) == ScriptAccepts(document) /\ AssertionsHold(generate(document))

-----------------------------------------------------------------------------
(***************************************************************************)
(* Lookups.  The slice's binary search answers 0 when the key is absent,   *)
(* or when the table is not in the order it assumes.                       *)
(***************************************************************************)
binary_search(keys, key) ==
    LET halve(s, step) ==
            LET mid == (s.lo + s.hi) \div 2
            IN  CASE s.at # 0 \/ s.lo > s.hi -> s
                  [] keys[mid] = key -> [s EXCEPT !.at = mid]
                  [] keys[mid] < key -> [s EXCEPT !.lo = mid + 1]
                  [] OTHER -> [s EXCEPT !.hi = mid - 1]
    IN  FoldLeft(halve, [lo |-> 1, hi |-> Len(keys), at |-> 0], keys).at

\* The product an activation ID names, as <<>> or <<product>>.
product(t, activation) ==
    LET i == binary_search([k \in DOMAIN t.PRODUCTS |-> t.PRODUCTS[k].activation], activation)
    IN  IF i = 0 THEN <<>> ELSE <<t.PRODUCTS[i]>>

csvlks_counting(t, counted) ==
    LET i == binary_search([k \in DOMAIN t.COUNTED_IDS |-> t.COUNTED_IDS[k].guid], counted)
    IN  IF i = 0 THEN <<>> ELSE t.COUNTED_IDS[i].csvlks

epid_host_build_at(t, position) == t.EPID_HOST_BUILDS[position]
lcid_at(t, position) == t.LCIDS[position]

\* What the product gate learns of a counted ID: evaluate looks it up among the
\* activation IDs.
GateView(t, counted) ==
    LET p == product(t, counted)
    IN  [known |-> p # <<>>,
         volume |-> p # <<>> /\ is_volume(p[1].kind),
         preview |-> p # <<>> /\ p[1].preview,
         application |-> IF p = <<>> \/ p[1].application = <<>> THEN 0 ELSE p[1].application[1]]

min_of(a, b) == IF a < b THEN a ELSE b

\* KeyBlock::key_count saturates at the top of u32.
key_count(block) == min_of((block[2] - block[1]) + 1, U32)
=============================================================================
