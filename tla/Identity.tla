------------------------------ MODULE Identity ------------------------------
(***************************************************************************)
(* The identity a host draws once when it starts, and the host key it      *)
(* answers each request as (kmsrs-policy/identity.rs), with the draws it   *)
(* makes (kmsrs-proto/entropy.rs).  The words of an entropy source are     *)
(* equally likely; a source that fails makes the host refuse to start.     *)
(* The hardware ID is eight bytes of entropy nothing else depends on and   *)
(* is left out.                                                            *)
(***************************************************************************)
EXTENDS Tables

CONSTANT MILLION   \* 1_000_000: what the ePID's low key field holds

LICENSE_CHANNEL == "03"

SumOf(s) == FoldLeft(LAMBDA a, b : a + b, 0, s)

\* The word next_u32 draws, cut down to the fewest bits that hold bound - 1: the
\* number drawn, or nothing, and then the draw is made again.
uniform_below(bound, word) ==
    LET masks == {m \in 0..U32 : \E bits \in 0..m : m + 1 = 2^bits}
        mask == CHOOSE m \in masks : bound - 1 =< m /\ \A o \in masks : bound - 1 =< o => m =< o
        candidate == word % (mask + 1)
    IN  IF candidate < bound THEN {candidate} ELSE {}

\* What may be drawn from low to high.
uniform_in_inclusive_range(low, high) == IF high < low THEN {low} ELSE low..high

\* How many key IDs a host key's blocks hold, as the bound of the draw.
total(csvlk) ==
    min_of(SumOf([i \in DOMAIN csvlk.key_blocks |-> key_count(csvlk.key_blocks[i])]), U32)

\* The key ID an offset below the total stands for: across the union of blocks.
\* Mutant: between the smallest and the largest.
draw_key_id_in_span(csvlk, offset) == csvlk.key_blocks[1][1] + offset

draw_key_id(csvlk, offset) ==
    LET width(i) == key_count(csvlk.key_blocks[i])
        skipped(i) == SumOf([j \in 1..(i - 1) |-> width(j)])
        holds == {i \in DOMAIN csvlk.key_blocks :
                     offset >= skipped(i) /\ offset - skipped(i) < width(i)}
    IN  IF holds = {} THEN csvlk.key_blocks[1][1]
        ELSE LET i == CHOOSE j \in holds : \A k \in holds : j =< k
             IN  min_of(csvlk.key_blocks[i][1] + (offset - skipped(i)), U32)

\* Days the activation date may lie after the release: none if that is to come.
span(build, today) ==
    LET days == days_since_epoch(today) - days_since_epoch(build.release_date[1])
    IN  IF days < 0 THEN 0 ELSE days

draw_activation_date(build, offset) ==
    from_days_since_epoch(days_since_epoch(build.release_date[1]) + offset)

\* The fields of the ePID text, in its order.
format_epid(build, csvlk, key_id, lcid, activated) ==
    [platform |-> build.platform_id, group |-> csvlk.group,
     key_high |-> key_id \div MILLION, key_low |-> key_id % MILLION,
     channel |-> LICENSE_CHANNEL, lcid |-> lcid, build |-> build.build,
     day |-> day_of_year(activated), year |-> activated.year]

generate_group(csvlk, build, lcid, offset, days) ==
    LET key_id == draw_key_id(csvlk, offset)
        activated == draw_activation_date(build, days)
    IN  [epid |-> format_epid(build, csvlk, key_id, lcid, activated),
         key_id |-> key_id, activated |-> activated]

-----------------------------------------------------------------------------
Counts(t, i) == Len(t.CSVLKS[i].counted_ids)

\* The most general host key of the application, the first of equals; the first
\* of the table if it has none.  Mutant: always the first of the table.
fallback_first(t, application) == 1

fallback(t, application) ==
    LET own == {i \in DOMAIN t.CSVLKS : t.CSVLKS[i].application = <<application>>}
    IN  IF own = {} THEN 1
        ELSE CHOOSE i \in own :
               \A j \in own : Counts(t, i) > Counts(t, j) \/ (Counts(t, i) = Counts(t, j) /\ i =< j)

\* Among the host keys that count the product, the one that counts fewest, the
\* first of those; a product none counts is unknown and falls back.
select(t, application, counted) ==
    LET candidates == Range(csvlks_counting(t, counted))
    IN  IF candidates = {} THEN [resolved |-> FALSE, index |-> fallback(t, application)]
        ELSE [resolved |-> TRUE,
              index |-> CHOOSE i \in candidates : \A j \in candidates :
                           Counts(t, i) < Counts(t, j) \/ (Counts(t, i) = Counts(t, j) /\ i =< j)]
=============================================================================
