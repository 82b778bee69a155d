------------------------------- MODULE MCBMT -------------------------------
(***************************************************************************)
(* Instances of BMT for TLC: the constants are given in BMT_*.cfg.         *)
(***************************************************************************)
EXTENDS BMT

MaxSize == 8    \* bound: system blocks

\* The loop that builds the skip table does what the table is for, over every list of
\* factory-bad blocks of every chip up to MaxSize: every logical block is translated to
\* the system block the specification of the table gives it, so no two share a block,
\* none reaches a listed one and their order is kept; a number past the logical size
\* is left alone.  Block 0 is never listed: the scan starts at block 1.
ASSUME SkipTableCorrect ==
    \A size \in 1..MaxSize : \A bad \in SUBSET (1..(size - 1)) :
        \A l \in 0..(size - 1) :
            LET s == get_mapping_block_index_by_bbt(l, bad, size)
            IN  IF l < size - Cardinality(bad)
                THEN SkipsTo(l, s, bad, size)
                ELSE s = l
=============================================================================
