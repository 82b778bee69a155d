------------------------------ MODULE BbtTable ------------------------------
(***************************************************************************)
(* The skip table of bmt.c.  pBbt is built from the list of factory-bad    *)
(* system blocks and translates a logical block number into the number of  *)
(* the system block that stands for it.                                    *)
(***************************************************************************)
EXTENDS Integers, Sequences, FiniteSets, FiniteSetsExt, SequencesExt

\* What the table is for: logical block l is the l-th system block, counted from
\* 0, that is not in the list.
SkipsTo(l, s, bad, size) ==
    /\ s \in 0..(size - 1) \ bad
    /\ Cardinality({c \in 0..(size - 1) \ bad : c < s}) = l

-----------------------------------------------------------------------------
(* How bmt.c builds it *)

\* scan_badblock_raw lists the blocks in ascending order.
Ascending(S) == SetToSortSeq(S, <)

\* One round of the outer loop.  j is not reset between two rounds, and k, which
\* stands at size once a first round has run, is kept when bad is not found.
SkipOne(st, bad, size) ==
    LET hits == {j \in st.j..(size - 1) : st.map[j] = bad}
        j == IF hits = {} THEN size ELSE Min(hits)
        k == IF hits = {} THEN st.k ELSE j
    IN  [map |-> [x \in 0..(size - 1) |-> IF x >= k THEN st.map[x] + 1 ELSE st.map[x]],
         j |-> j, k |-> size]

create_badblock_table_by_bbt(bad, size) ==
    LET list == Ascending(bad)
        round[i \in 0..Len(list)] ==
            IF i = 0 THEN [map |-> [x \in 0..(size - 1) |-> x], j |-> 0, k |-> 0]
            ELSE SkipOne(round[i - 1], list[i], size)
    IN  round[Len(list)].map

\* get_mapping_block_index_by_bbt: an index past the logical size is returned
\* as it is.
get_mapping_block_index_by_bbt(l, bad, size) ==
    IF l >= size - Cardinality(bad) THEN l
    ELSE create_badblock_table_by_bbt(bad, size)[l]
=============================================================================
