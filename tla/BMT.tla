-------------------------------- MODULE BMT --------------------------------
(***************************************************************************)
(* Bad-block management of the SPI NAND flash: the bad mapping table (BMT) *)
(* and the initial bad block table (BBT) kept in a replacement pool at the *)
(* end of the chip, as implemented by drivers/misc/ecnt/flash/bmt.c and    *)
(* driven by spi_nand_flash.c.                                             *)
(*                                                                         *)
(* Every erase of a block and every program of a page is one step, and     *)
(* power may be lost before each of them.  Erases and programs may fail,   *)
(* and a read may report more corrected bits than the ECC threshold.       *)
(***************************************************************************)
EXTENDS Integers, Sequences, FiniteSets, BbtTable

CONSTANTS
    SysCount,      \* system_block_count
    PoolCount,     \* bmt_block_count
    PageCount,     \* page_per_block
    MaxBbt,        \* MAX_RAW_BAD_BLOCK_SIZE
    OobReserve,    \* TRUE: the chip has SPI_NAND_FLASH_OOB_RESERVE_FOR_BMT
    FaultKinds,    \* which flash operations may fail
    Endless,       \* the kinds that may fail without end; the others ...
    MaxFaults,     \* bound: ... together this often
    MaxFactoryBad, \* bound: blocks shipped with a RAW mark
    MaxCrashes,    \* bound: power losses
    MaxDebug,      \* bound: uses of the recover and mark-bad commands
    DebugBlocks    \* physical blocks those commands are given

ASSUME BMTAssumption ==
    /\ SysCount \in Nat \ {0}
    /\ PoolCount \in Nat \ {0}
    /\ PageCount \in Nat \ {0}
    /\ MaxBbt \in Nat /\ MaxFaults \in Nat /\ MaxFactoryBad \in Nat
    /\ MaxCrashes \in Nat /\ MaxDebug \in Nat
    /\ OobReserve \in BOOLEAN
    /\ FaultKinds \subseteq {"erase", "program", "read", "bootread", "recread", "mark"}
    /\ Endless \subseteq FaultKinds
    /\ DebugBlocks \subseteq 0..(SysCount + PoolCount - 1)

Total == SysCount + PoolCount

System == 0..(SysCount - 1)
Pool == SysCount..(Total - 1)
Blocks == 0..(Total - 1)
Pages == 0..(PageCount - 1)

NoIndex == Total        \* the 0xFFFF an unused OOB index reads as

Entry == [bad : System, mapped : Pool]

\* What a page reads as: its kind, the logical page it was written for, or the
\* table it holds.
Content == [kind : {"erased", "garbage", "data", "BMT", "BBT"},
            lb : System, pg : Pages, tab : Seq(Entry), bbt : SUBSET System]
Erased == [kind |-> "erased", lb |-> 0, pg |-> 0, tab |-> <<>>, bbt |-> {}]
Garbage == [kind |-> "garbage", lb |-> 0, pg |-> 0, tab |-> <<>>, bbt |-> {}]
Data(l, p) == [kind |-> "data", lb |-> l, pg |-> p, tab |-> <<>>, bbt |-> {}]

\* fill_nand_bmt_buffer, fill_nand_bbt_buffer: signature, count, table, checksum
BmtPage(t) == [kind |-> "BMT", lb |-> 0, pg |-> 0, tab |-> t, bbt |-> {}]
BbtPage(s) == [kind |-> "BBT", lb |-> 0, pg |-> 0, tab |-> <<>>, bbt |-> s]

VARIABLES
    flash,       \* [Blocks -> contents of the block and of its spare area]
    factory,     \* blocks that carried a RAW mark when the chip was shipped
    table,       \* bmt.table, mapped_count long
    bmtBlock,    \* bmt_block_index (0: none)
    bbtBlock,    \* bbt_block_index (0: none)
    bbt,         \* init_bbt.badblock_table, as a set
    poolErased,  \* pool_erased
    lim,         \* load_bmt_data has yet to look at the pool blocks below lim
    pc,          \* where the boot loader is
    op,          \* the update or recovery in progress
    mk,          \* the mark_block_bad call in progress
    written,     \* ghost: pages of each logical block the user wrote
    dirty,       \* ghost: logical blocks whose last operation did not finish
    faults, crashes, debugs

flashVars == <<flash, factory>>
ramVars == <<table, bmtBlock, bbtBlock, bbt, poolErased, lim>>
ctlVars == <<pc, op, mk>>
ghostVars == <<written, dirty>>
boundVars == <<faults, crashes, debugs>>
vars == <<flashVars, ramVars, ctlVars, ghostVars, boundVars>>

\* An erased block: its marks and its OOB index (the one of page 0) are gone too.
Blank == [raw |-> FALSE, later |-> FALSE, idx |-> NoIndex,
          page |-> [p \in Pages |-> Erased]]

NoOp == [bad |-> 0, page |-> 0, reason |-> "none", val |-> Erased,
         idx |-> NoIndex, lb |-> Total, to |-> 0, k |-> 0,
         ret |-> "idle", after |-> "idle", recBad |-> 0, recEntry |-> 0]
NoMark == [blk |-> 0, later |-> FALSE, next |-> "idle"]

-----------------------------------------------------------------------------
(* Flash primitives *)

\* Mutant: the marks made in the pool are not looked at.
BadMutant(b) == flash[b].raw

\* en7512_nand_check_block_bad, asked for both marks.  Under the OOB_RESERVE
\* feature it overwrites the byte of the second mark with 0 before it tests it.
Bad(b) == flash[b].raw \/ flash[b].later \/ OobReserve

EraseOf(b) == [flash EXCEPT ![b] = Blank]

\* Programming a page that is not erased mixes the two contents.
Programmed(b, p, v, i) ==
    [flash EXCEPT ![b].page[p] = IF @ = Erased THEN v ELSE Garbage,
                  ![b].idx = IF p = 0 /\ @ = NoIndex THEN i ELSE @]

\* A program that fails leaves the page unreadable.
Spoilt(b, p) == [flash EXCEPT ![b].page[p] = Garbage]

\* n operations of the kind fail now.
Fail(kind, n) ==
    /\ kind \in FaultKinds
    /\ kind \in Endless \/ faults + n <= MaxFaults
    /\ faults' = IF kind \in Endless THEN faults ELSE faults + n

CallMark(b, isLater, next) ==
    /\ mk' = [blk |-> b, later |-> isLater, next |-> next]
    /\ pc' = "markErase"

-----------------------------------------------------------------------------
(* Lookups *)

MappedBlocks(t) == {t[i].mapped : i \in DOMAIN t}
BadBlocks(t) == {t[i].bad : i \in DOMAIN t}

FirstOf(b, S) == b \in S /\ \A c \in S : b <= c
LastOf(b, S) == b \in S /\ \A c \in S : c <= b

\* Mutant: the mapped blocks are not left alone.
UnmappedMutant == {b \in Pool : b # bmtBlock /\ b # bbtBlock /\ ~Bad(b)}

\* What find_available_block looks for: neither reserved, nor bad, nor mapped.
Unmapped == {b \in Pool : /\ b # bmtBlock
                          /\ b # bbtBlock
                          /\ ~Bad(b)
                          /\ b \notin MappedBlocks(table)}

\* get_mapping_block_index_by_bmt sends system block s to b: the first entry
\* for s counts.
ByBmt(s, b) ==
    \/ s \notin BadBlocks(table) /\ b = s
    \/ \E i \in DOMAIN table : /\ FirstOf(i, {j \in DOMAIN table : table[j].bad = s})
                               /\ b = table[i].mapped

LogicalBlocks == 0..(SysCount - Cardinality(bbt) - 1)

\* get_mapping_block_index: logical block l is system block s, which is at b.
get_mapping_block_index(l, s, b) == SkipsTo(l, s, bbt, SysCount) /\ ByBmt(s, b)

\* Mutant: a replaced pool block gets an entry of its own.
UpdateTableMutant(bad, to) == table' = Append(table, [bad |-> bad, mapped |-> to])

\* update_bmt's change of the table.  A pool block that no entry maps to leaves
\* the table as it is: the code then writes beyond mapped_count.
UpdateTable(bad, to) ==
    IF bad \in System THEN table' = Append(table, [bad |-> bad, mapped |-> to])
    ELSE \/ \E i \in DOMAIN table :
              /\ FirstOf(i, {j \in DOMAIN table : table[j].mapped = bad})
              /\ table' = [table EXCEPT ![i].mapped = to]
         \/ bad \notin MappedBlocks(table) /\ UNCHANGED table

-----------------------------------------------------------------------------
(* mark_block_bad_bmt: erase the block, then program the mark.  The callers  *)
(* do not look at the result of either.                                      *)

MarkErase ==
    /\ pc = "markErase"
    /\ \/ flash' = EraseOf(mk.blk) /\ UNCHANGED faults
       \/ Fail("erase", 1) /\ UNCHANGED flash
    /\ pc' = "markWrite"
    /\ UNCHANGED <<factory, ramVars, op, mk, ghostVars, crashes, debugs>>

MarkWrite ==
    /\ pc = "markWrite"
    /\ \/ /\ flash' = IF mk.later THEN [flash EXCEPT ![mk.blk].later = TRUE]
                                  ELSE [flash EXCEPT ![mk.blk].raw = TRUE]
          /\ UNCHANGED faults
       \/ Fail("mark", 1) /\ UNCHANGED flash
    /\ pc' = mk.next
    /\ mk' = NoMark
    /\ UNCHANGED <<factory, ramVars, op, ghostVars, crashes, debugs>>

-----------------------------------------------------------------------------
(* Boot: init_bmt_bbt *)

\* calc_bmt_pool_size counts need_valid_block_num blocks without a RAW mark from
\* the end of the chip, as many as the pool had when the chip was shipped: the
\* pool begins at b.
PoolStart(b) ==
    /\ ~flash[b].raw
    /\ Cardinality({c \in b..(Total - 1) : ~flash[c].raw}) = Cardinality(Pool \ factory)

\* A pool of another size is looked for elsewhere: the tables are not found.
PowerOn ==
    /\ pc = "off"
    /\ pc' = IF PoolStart(SysCount) THEN "load" ELSE "moved"
    /\ UNCHANGED <<flashVars, ramVars, op, mk, ghostVars, boundVars>>

\* match_bmt_signature, valid_bmt_data
HoldsBmt(b) ==
    /\ b < lim /\ ~Bad(b)
    /\ flash[b].page[0].kind = "BMT"
    /\ LET t == flash[b].page[0].tab
       IN  \A i \in DOMAIN t : t[i].bad < Total /\ t[i].mapped \in Pool

\* load_bmt_data: the last block of the pool that holds a valid BMT.
LoadBmt ==
    /\ pc = "load"
    /\ \/ /\ \A b \in Pool : ~HoldsBmt(b)
          /\ table' = <<>>
          /\ bmtBlock' = 0
          /\ op' = [NoOp EXCEPT !.k = SysCount]
          /\ pc' = "rebuild"
       \/ \E b \in Pool :
          /\ LastOf(b, {c \in Pool : HoldsBmt(c)})
          /\ table' = flash[b].page[0].tab
          /\ bmtBlock' = b
          /\ pc' = "remark"
          /\ UNCHANGED op
    /\ UNCHANGED <<flashVars, bbtBlock, bbt, poolErased, lim, mk, ghostVars, boundVars>>

\* ... and the power was lost last time before these blocks were marked.  The
\* loop, at entry op.k, looks at every entry once.
Remark ==
    /\ pc = "remark"
    /\ \/ /\ op.k < Len(table)
          /\ op' = [op EXCEPT !.k = @ + 1]
          /\ \/ /\ flash[table[op.k + 1].bad].raw
                /\ UNCHANGED <<pc, mk>>
             \/ /\ ~flash[table[op.k + 1].bad].raw
                /\ CallMark(table[op.k + 1].bad, FALSE, "remark")
       \/ /\ op.k = Len(table)
          /\ pc' = "bbt" /\ op' = NoOp /\ UNCHANGED mk
    /\ UNCHANGED <<flashVars, ramVars, ghostVars, boundVars>>

\* reconstruct_bmt: pool block op.k, if its OOB holds the index of a system
\* block, stands for that block.
Reconstruct ==
    /\ pc = "rebuild"
    /\ LET b == op.k
           hit == b \in Pool /\ ~Bad(b) /\ flash[b].idx \in System
       IN  \/ /\ b = Total
              /\ op' = NoOp /\ pc' = "bbt"
              /\ UNCHANGED <<table, mk>>
           \/ /\ b < Total /\ ~hit
              /\ op' = [op EXCEPT !.k = b + 1]
              /\ UNCHANGED <<table, pc, mk>>
           \/ /\ hit
              /\ table' = Append(table, [bad |-> flash[b].idx, mapped |-> b])
              /\ op' = [op EXCEPT !.k = b + 1]
              /\ \/ flash[flash[b].idx].raw /\ UNCHANGED <<pc, mk>>
                 \/ ~flash[flash[b].idx].raw /\ CallMark(flash[b].idx, FALSE, "rebuild")
    /\ UNCHANGED <<flashVars, bmtBlock, bbtBlock, bbt, poolErased, lim, ghostVars, boundVars>>

\* match_bbt_signature, valid_bbt_data
HoldsBbt(b) == ~Bad(b) /\ flash[b].page[0].kind = "BBT"

\* scan_badblock_raw: the RAW marks that no entry of the BMT explains.
RawUnmapped == {b \in 1..(SysCount - 1) : flash[b].raw /\ b \notin BadBlocks(table)}

\* Mutant: the table on flash is not looked for.
LoadBbtMutant ==
    /\ pc = "bbt"
    /\ bbtBlock' = 0 /\ bbt' = RawUnmapped /\ pc' = "saveBmt"
    /\ UNCHANGED <<flashVars, table, bmtBlock, poolErased, lim, op, mk, ghostVars, boundVars>>

\* start_init_bbt: the first block of the pool that holds a BBT, or a scan.
LoadBbt ==
    /\ pc = "bbt"
    /\ \/ \E b \in Pool :
            /\ FirstOf(b, {c \in Pool : HoldsBbt(c)})
            /\ bbtBlock' = b /\ bbt' = flash[b].page[0].bbt /\ pc' = "saveBmt"
       \/ /\ \A b \in Pool : ~HoldsBbt(b)
          /\ Cardinality(RawUnmapped) <= MaxBbt
          /\ bbtBlock' = 0 /\ bbt' = RawUnmapped /\ pc' = "saveBmt"
       \/ /\ \A b \in Pool : ~HoldsBbt(b)
          /\ Cardinality(RawUnmapped) > MaxBbt
          /\ pc' = "failed"
          /\ UNCHANGED <<bbtBlock, bbt>>
    /\ UNCHANGED <<flashVars, table, bmtBlock, poolErased, lim, op, mk, ghostVars, boundVars>>

\* write_bbt_or_bmt_to_flash: only what was not found is written.
SaveBmt ==
    /\ pc = "saveBmt"
    /\ IF bmtBlock = 0
       THEN pc' = "wbmt" /\ op' = [NoOp EXCEPT !.ret = "saveBbt"]
       ELSE pc' = "saveBbt" /\ UNCHANGED op
    /\ UNCHANGED <<flashVars, ramVars, mk, ghostVars, boundVars>>

SaveBbt ==
    /\ pc = "saveBbt"
    /\ pc' = IF bbtBlock = 0 THEN "wbbt" ELSE "idle"
    /\ op' = NoOp
    /\ UNCHANGED <<flashVars, ramVars, mk, ghostVars, boundVars>>

-----------------------------------------------------------------------------
(* find_available_block *)

Finding == pc \in {"find", "wbbt"} \/ (pc = "wbmt" /\ bmtBlock = 0)

\* Mutant: the blocks are taken as erased.
PoolEraseMutant ==
    /\ Finding /\ ~poolErased
    /\ poolErased' = TRUE
    /\ UNCHANGED <<flashVars, table, bmtBlock, bbtBlock, bbt, lim, ctlVars,
                   ghostVars, boundVars>>

\* The first call after power-on erases every unmapped block of the pool and
\* marks the ones that cannot be erased; the erase that is part of the marking,
\* or the mark itself, may fail too.
PoolErase ==
    /\ Finding /\ ~poolErased
    /\ \E failed \in SUBSET Unmapped : \E kept \in SUBSET failed, unmarked \in SUBSET failed :
         /\ unmarked # {} => "mark" \in FaultKinds
         /\ \/ failed = {} /\ UNCHANGED faults
            \/ failed # {} /\ Fail("erase", Cardinality(failed))
         /\ flash' = [b \in Blocks |->
                        IF b \in kept THEN [flash[b] EXCEPT !.later = b \notin unmarked]
                        ELSE IF b \in Unmapped
                             THEN [Blank EXCEPT !.later = b \in failed \ unmarked]
                             ELSE flash[b]]
    /\ poolErased' = TRUE
    /\ UNCHANGED <<factory, table, bmtBlock, bbtBlock, bbt, lim, ctlVars,
                   ghostVars, crashes, debugs>>

-----------------------------------------------------------------------------
(* The end of update_bmt, and of the read, program or erase that called it *)

\* recover_bmt has copied the pages below p of block to, that of entry i, to b.
Recovery(b, to, i, p) == [NoOp EXCEPT !.bad = b, !.to = to, !.lb = i, !.k = p]

\* The caller goes on.  The read inside a recovery gives it page v with index i.
UpdateReturns(v, i) ==
    /\ pc' = op.after
    /\ op' = IF op.after = "recCopy"
             THEN [Recovery(op.recBad, op.bad, op.recEntry, op.page)
                     EXCEPT !.reason = "read", !.val = v, !.idx = i]
             ELSE NoOp

\* update_bmt returned false, and the read leaves the buffers as they were: with a
\* page of the block, with the table, or with an older content.
UpdateFails ==
    \E v \in {flash[op.bad].page[p] : p \in Pages} \cup {BmtPage(table), Garbage},
       i \in System \cup {NoIndex} : UpdateReturns(v, i)

-----------------------------------------------------------------------------
(* write_bmt_to_flash, write_bbt_to_flash *)

\* Mutant: the block is given up but not marked.
GiveUpBmtMutant == bmtBlock' = 0 /\ pc' = "wbmt" /\ UNCHANGED mk

\* A block that cannot be erased or written is given up, and another one found.
GiveUpBmt == CallMark(bmtBlock, TRUE, "wbmt") /\ bmtBlock' = 0

BmtFind ==
    /\ pc = "wbmt" /\ bmtBlock = 0 /\ poolErased
    /\ \/ \E b \in Pool : LastOf(b, Unmapped) /\ bmtBlock' = b /\ pc' = "wbmtWrite" /\ UNCHANGED op
       \/ /\ Unmapped = {}
          /\ \/ op.ret = "markbad" /\ UpdateFails
             \/ op.ret = "saveBbt" /\ pc' = "failed" /\ op' = NoOp
             \/ op.ret = "idle" /\ pc' = "idle" /\ op' = NoOp
          /\ UNCHANGED bmtBlock
    /\ UNCHANGED <<flashVars, table, bbtBlock, bbt, poolErased, lim, mk,
                   ghostVars, boundVars>>

BmtErase ==
    /\ pc = "wbmt" /\ bmtBlock # 0
    /\ \/ /\ flash' = EraseOf(bmtBlock)
          /\ pc' = "wbmtWrite"
          /\ UNCHANGED <<bmtBlock, mk, faults>>
       \/ Fail("erase", 1) /\ GiveUpBmt /\ UNCHANGED flash
    /\ UNCHANGED <<factory, table, bbtBlock, bbt, poolErased, lim, op, ghostVars,
                   crashes, debugs>>

BmtWrite ==
    /\ pc = "wbmtWrite"
    /\ \/ /\ flash' = Programmed(bmtBlock, 0, BmtPage(table), NoIndex)
          /\ pc' = op.ret
          /\ UNCHANGED <<bmtBlock, mk, faults>>
       \/ Fail("program", 1) /\ GiveUpBmt /\ flash' = Spoilt(bmtBlock, 0)
    /\ UNCHANGED <<factory, table, bbtBlock, bbt, poolErased, lim, op, ghostVars,
                   crashes, debugs>>

BbtWrite ==
    /\ pc = "wbbt" /\ poolErased
    /\ \/ \E b \in Pool :
            /\ FirstOf(b, Unmapped)
            /\ \/ /\ flash' = Programmed(b, 0, BbtPage(bbt), NoIndex)
                  /\ bbtBlock' = b /\ pc' = "idle"
                  /\ UNCHANGED <<mk, faults>>
               \/ /\ Fail("program", 1)
                  /\ flash' = Spoilt(b, 0)
                  /\ CallMark(b, TRUE, "wbbt")
                  /\ UNCHANGED bbtBlock
       \/ Unmapped = {} /\ pc' = "failed" /\ UNCHANGED <<flash, bbtBlock, mk, faults>>
    /\ UNCHANGED <<factory, table, bmtBlock, bbt, poolErased, lim, op, ghostVars,
                   crashes, debugs>>

-----------------------------------------------------------------------------
(* update_bmt.  Only one update runs at a time: isUpdateBmt makes the call    *)
(* that a read inside the update would trigger return at once.                *)

\* A system block that is already mapped needs no update.
StartUpdate(u) ==
    IF u.bad \in BadBlocks(table) THEN UNCHANGED <<op, pc>>
    ELSE op' = u /\ pc' = "find"

\* Page p of block b failed; v and i are its data and OOB index, l the logical
\* block whose erase or write this was.
UpdateOf(b, p, reason, v, i, l, after) ==
    [bad |-> b, page |-> p, reason |-> reason, val |-> v, idx |-> i, lb |-> l,
     to |-> 0, k |-> 0, ret |-> "markbad", after |-> after,
     recBad |-> 0, recEntry |-> 0]

\* migrate_from_bad copies the pages below a failed write, or every other page of
\* a block whose read went bad, and writes the page in question last: its k-th
\* program is of page CopyPage(o, k).
CopyCount(o) == IF o.reason = "write" THEN o.page + 1 ELSE PageCount

CopyPage(o, k) == IF k = CopyCount(o) THEN o.page
                  ELSE IF k <= o.page THEN k - 1 ELSE k

\* Mutant: the copies carry no index.
OobIndexMutant(o, p) == NoIndex

\* The copy of a system block carries the number of that block in its OOB; the
\* copy of a pool block carries what that block's OOB says.
OobIndex(o, p) ==
    IF o.bad \in System THEN o.bad
    ELSE IF p = o.page THEN o.idx ELSE flash[o.bad].idx

Find ==
    /\ pc = "find" /\ poolErased
    /\ \/ \E b \in Pool :
            /\ FirstOf(b, Unmapped)
            /\ \/ /\ op.reason = "erase"
                  /\ UpdateTable(op.bad, b)
                  /\ pc' = "wbmt" /\ UNCHANGED op
               \/ /\ op.reason # "erase"
                  /\ op' = [op EXCEPT !.to = b, !.k = 1]
                  /\ pc' = "copy" /\ UNCHANGED table
       \/ /\ Unmapped = {}
          /\ UpdateFails /\ UNCHANGED table
    /\ UNCHANGED <<flashVars, bmtBlock, bbtBlock, bbt, poolErased, lim, mk,
                   ghostVars, boundVars>>

Copy ==
    /\ pc = "copy"
    /\ LET p == CopyPage(op, op.k)
           v == IF p = op.page THEN op.val ELSE flash[op.bad].page[p]
       IN  \/ /\ flash' = Programmed(op.to, p, v, OobIndex(op, p))
              /\ \/ /\ op.k = CopyCount(op)
                    /\ UpdateTable(op.bad, op.to)
                    /\ pc' = "wbmt" /\ UNCHANGED op
                 \/ /\ op.k < CopyCount(op)
                    /\ op' = [op EXCEPT !.k = @ + 1]
                    /\ UNCHANGED <<table, pc>>
              /\ UNCHANGED <<mk, faults>>
           \/ /\ Fail("program", 1)
              /\ flash' = Spoilt(op.to, p)
              /\ CallMark(op.to, TRUE, "find")
              /\ UNCHANGED <<table, op>>
    /\ UNCHANGED <<factory, bmtBlock, bbtBlock, bbt, poolErased, lim, ghostVars,
                   crashes, debugs>>

\* Mutant: the mark of a replaced pool block is the factory's.
MarkOldMutant ==
    /\ pc = "markbad"
    /\ CallMark(op.bad, FALSE, "done")
    /\ UNCHANGED <<flashVars, ramVars, op, ghostVars, boundVars>>

\* Only now, with the new table on flash, is the old block marked.
MarkOld ==
    /\ pc = "markbad"
    /\ CallMark(op.bad, op.bad \in Pool, "done")
    /\ UNCHANGED <<flashVars, ramVars, op, ghostVars, boundVars>>

\* update_bmt returned true: the read, write or erase reports success.
Done ==
    /\ pc = "done"
    /\ UpdateReturns(op.val, op.idx)
    /\ written' = IF op.reason = "write" /\ op.lb \in System
                  THEN [written EXCEPT ![op.lb] = op.page + 1] ELSE written
    /\ dirty' = dirty \ {op.lb}
    /\ UNCHANGED <<flashVars, ramVars, mk, boundVars>>

-----------------------------------------------------------------------------
(* The users: spi_nand_erase_internal, spi_nand_write_internal, and          *)
(* spi_nand_read_page on behalf of spi_nand_read_internal.  Logical block l  *)
(* is system block s, which is at b.                                         *)

EraseBlock(l, b) ==
    /\ pc = "idle"
    /\ \/ /\ flash' = EraseOf(b)
          /\ dirty' = dirty \ {l}
          /\ UNCHANGED <<pc, op, faults>>
       \/ /\ Fail("erase", 1)
          /\ StartUpdate(UpdateOf(b, 0, "erase", Erased, NoIndex, l, "idle"))
          /\ dirty' = dirty \cup {l}
          /\ UNCHANGED flash
    /\ written' = [written EXCEPT ![l] = 0]
    /\ UNCHANGED <<factory, ramVars, mk, crashes, debugs>>

\* The pages of a block are written in order, after an erase.
WritePage(l, s, b) ==
    /\ pc = "idle" /\ l \notin dirty /\ written[l] < PageCount
    /\ LET p == written[l]
           i == IF b \in Pool THEN s ELSE NoIndex
       IN  \/ /\ flash' = Programmed(b, p, Data(l, p), i)
              /\ written' = [written EXCEPT ![l] = p + 1]
              /\ UNCHANGED <<pc, op, dirty, faults>>
           \/ /\ Fail("program", 1)
              /\ flash' = Spoilt(b, p)
              /\ StartUpdate(UpdateOf(b, p, "write", Data(l, p), i, l, "idle"))
              /\ dirty' = dirty \cup {l}
              /\ UNCHANGED written
    /\ UNCHANGED <<factory, ramVars, mk, crashes, debugs>>

\* Only a read over the ECC threshold changes anything.
ReadOverThreshold(b, p) ==
    /\ pc = "idle" /\ Fail("read", 1)
    /\ StartUpdate(UpdateOf(b, p, "read", flash[b].page[p], flash[b].idx, Total, "idle"))
    /\ UNCHANGED <<flashVars, ramVars, mk, ghostVars, crashes, debugs>>

\* The pool scan of load_bmt_data reads through the same function.
BootReadOverThreshold(b) ==
    /\ pc = "load" /\ Fail("bootread", 1)
    /\ b < lim /\ ~Bad(b)
    /\ lim' = b
    /\ StartUpdate(UpdateOf(b, 0, "read", flash[b].page[0], flash[b].idx, Total, "load"))
    /\ UNCHANGED <<flashVars, table, bmtBlock, bbtBlock, bbt, poolErased, mk,
                   ghostVars, crashes, debugs>>

-----------------------------------------------------------------------------
(* Console commands on a physical block *)

\* spi_nand_mark_bad_block
MarkBadCommand(b) ==
    /\ pc = "idle" /\ debugs < MaxDebug /\ b \in DebugBlocks
    /\ ~Bad(b)
    /\ LET p == PageCount - 1
       IN  StartUpdate(UpdateOf(b, p, "write", flash[b].page[p], flash[b].idx, Total, "idle"))
    /\ debugs' = debugs + 1
    /\ UNCHANGED <<flashVars, ramVars, mk, ghostVars, faults, crashes>>

\* recover_bmt, called with a mapped block: its data moves back.
RecoverMapped(b) ==
    /\ pc = "idle" /\ debugs < MaxDebug /\ b \in DebugBlocks
    /\ \E i \in DOMAIN table :
         /\ LastOf(i, {j \in DOMAIN table : table[j].bad = b})
         /\ \/ /\ flash' = EraseOf(b)
               /\ op' = Recovery(b, table[i].mapped, i, 0)
               /\ pc' = "recCopy"
               /\ UNCHANGED faults
            \/ Fail("erase", 1) /\ UNCHANGED <<flash, op, pc>>
    /\ debugs' = debugs + 1
    /\ UNCHANGED <<factory, ramVars, mk, ghostVars, crashes>>

\* The page to be copied is over the threshold: recover_bmt does not set isUpdateBmt,
\* so the block is replaced, and marked, in the middle of its recovery.
RecoverRead ==
    /\ pc = "recCopy" /\ op.reason = "none" /\ op.k < PageCount
    /\ Fail("recread", 1)
    /\ op' = [UpdateOf(op.to, op.k, "read", flash[op.to].page[op.k], flash[op.to].idx,
                       Total, "recCopy")
                EXCEPT !.recBad = op.bad, !.recEntry = op.lb]
    /\ pc' = "find"
    /\ UNCHANGED <<flashVars, ramVars, mk, ghostVars, crashes, debugs>>

\* What such a read returned is copied, or else what the block holds.
RecoverCopy ==
    /\ pc = "recCopy"
    /\ LET p == op.k
           v == IF op.reason = "read" THEN op.val ELSE flash[op.to].page[p]
           i == IF op.reason = "read" THEN op.idx ELSE flash[op.to].idx
       IN  \/ /\ flash' = Programmed(op.bad, p, v, i)
              /\ op' = Recovery(op.bad, op.to, op.lb, p + 1)
              /\ pc' = IF p + 1 = PageCount THEN "recFree" ELSE pc
              /\ UNCHANGED faults
           \/ /\ Fail("program", 1)
              /\ flash' = Spoilt(op.bad, p)
              /\ pc' = "idle" /\ op' = NoOp
    /\ UNCHANGED <<factory, ramVars, mk, ghostVars, crashes, debugs>>

\* Entry i is closed up.
Without(t, i) == [j \in 1..(Len(t) - 1) |-> IF j < i THEN t[j] ELSE t[j + 1]]

RecoverFree ==
    /\ pc = "recFree"
    /\ \/ /\ flash' = EraseOf(op.to)
          /\ table' = Without(table, op.lb)
          /\ op' = NoOp
          /\ pc' = "wbmt"
          /\ UNCHANGED faults
       \/ /\ Fail("erase", 1)
          /\ pc' = "idle" /\ op' = NoOp
          /\ UNCHANGED <<flash, table>>
    /\ UNCHANGED <<factory, bmtBlock, bbtBlock, bbt, poolErased, lim, mk, ghostVars,
                   crashes, debugs>>

\* recover_bmt, called with a bad pool block: it is erased, and so usable again.
\* The first block of the pool is left out.
RecoverPool(b) ==
    /\ pc = "idle" /\ debugs < MaxDebug /\ b \in DebugBlocks
    /\ b \notin BadBlocks(table) /\ Bad(b) /\ SysCount < b
    /\ \/ flash' = EraseOf(b) /\ UNCHANGED faults
       \/ Fail("erase", 1) /\ UNCHANGED flash
    /\ debugs' = debugs + 1
    /\ UNCHANGED <<factory, ramVars, ctlVars, ghostVars, crashes>>

-----------------------------------------------------------------------------
\* Power may be lost before any erase or program; the RAM state is gone.  The
\* pool may be erased in part.
PowerLoss ==
    /\ pc # "off" /\ crashes < MaxCrashes
    /\ crashes' = crashes + 1
    /\ \E done \in IF Finding /\ ~poolErased THEN SUBSET Unmapped ELSE {{}} :
         flash' = [b \in Blocks |-> IF b \in done THEN Blank ELSE flash[b]]
    /\ pc' = "off" /\ op' = NoOp /\ mk' = NoMark
    /\ table' = <<>> /\ bmtBlock' = 0 /\ bbtBlock' = 0 /\ bbt' = {}
    /\ poolErased' = FALSE /\ lim' = Total
    /\ dirty' = System     \* the flash users erase before they write again
    /\ UNCHANGED <<factory, written, faults, debugs>>

Init ==
    /\ factory \in {F \in SUBSET (Blocks \ {0, SysCount}) : Cardinality(F) <= MaxFactoryBad}
    /\ flash = [b \in Blocks |-> [Blank EXCEPT !.raw = b \in factory]]
    /\ table = <<>> /\ bmtBlock = 0 /\ bbtBlock = 0 /\ bbt = {}
    /\ poolErased = FALSE /\ lim = Total
    /\ pc = "off" /\ op = NoOp /\ mk = NoMark
    /\ written = [l \in System |-> 0] /\ dirty = {}
    /\ faults = 0 /\ crashes = 0 /\ debugs = 0

Boot == \/ LoadBmt \/ Remark \/ Reconstruct \/ LoadBbt \/ SaveBmt \/ SaveBbt
        \/ \E b \in Pool : BootReadOverThreshold(b)

Update == \/ MarkErase \/ MarkWrite \/ PoolErase \/ BmtFind \/ BmtErase \/ BmtWrite
          \/ BbtWrite \/ Find \/ Copy \/ MarkOld \/ Done

Recover == RecoverRead \/ RecoverCopy \/ RecoverFree

User == \E l \in LogicalBlocks, s \in System, b \in Blocks :
          /\ get_mapping_block_index(l, s, b)
          /\ \/ EraseBlock(l, b)
             \/ WritePage(l, s, b)
             \/ \E p \in Pages : ReadOverThreshold(b, p)

Console == \E b \in Blocks : MarkBadCommand(b) \/ RecoverMapped(b) \/ RecoverPool(b)

Next == PowerOn \/ Boot \/ Update \/ Recover \/ User \/ Console \/ PowerLoss

Spec == Init /\ [][Next]_vars

\* A call, once begun, runs on: nothing in it waits.
FairSpec == Spec /\ WF_vars(Boot \/ Update \/ Recover)

-----------------------------------------------------------------------------
(* Properties *)

OpType == [bad : Blocks, page : Pages, reason : {"none", "erase", "write", "read"},
           val : Content, idx : System \cup {NoIndex}, lb : Nat, to : Blocks,
           k : Nat, ret : {"idle", "markbad", "saveBbt"},
           after : {"idle", "load", "recCopy"}, recBad : Blocks, recEntry : Nat]

PCs == {"off", "load", "remark", "rebuild", "bbt", "saveBmt", "saveBbt", "idle",
        "failed", "find", "copy", "wbmt", "wbmtWrite", "wbbt", "markErase",
        "markWrite", "markbad", "done", "recCopy", "recFree", "moved"}

\* mark_block_bad_bmt returns to one of these.
MarkCall == [blk : Blocks, later : BOOLEAN,
             next : {"idle", "remark", "rebuild", "find", "wbmt", "wbbt", "done"}]

Block == [raw : BOOLEAN, later : BOOLEAN, idx : System \cup {NoIndex},
          page : [Pages -> Content]]

\* The state of bmt.c is well formed: the table holds pairs of a system block and
\* a pool block, and the indices it keeps are blocks of the chip.
TypeOK ==
    /\ flash \in [Blocks -> Block]
    /\ factory \in SUBSET Blocks
    /\ table \in Seq(Entry)
    /\ bmtBlock \in Pool \cup {0} /\ bbtBlock \in Pool \cup {0}
    /\ bbt \in SUBSET System
    /\ poolErased \in BOOLEAN /\ lim \in Nat
    /\ pc \in PCs /\ op \in OpType
    /\ mk \in MarkCall
    /\ pc = "copy" => op.to \in Pool
    /\ written \in [System -> Nat] /\ dirty \in SUBSET System
    /\ faults \in Nat /\ crashes \in Nat /\ debugs \in Nat

\* No two entries of the table share a pool block, whatever fails and whatever the
\* console commands are given: two logical blocks are never at one place.
Injective == \A i, j \in DOMAIN table : table[i].mapped = table[j].mapped => i = j

MappedUsable ==
    \A i \in DOMAIN table : /\ ~Bad(table[i].mapped)
                            /\ table[i].mapped \notin {bmtBlock, bbtBlock}

\* Moreover no entry maps to a block that is marked bad or that holds the BMT or
\* the BBT, and these two are apart: what find_available_block has to ensure,
\* whatever fails and wherever power was lost.
MapSafe == Injective /\ MappedUsable /\ (bmtBlock = bbtBlock => bmtBlock = 0)

\* Once the pool was erased, a block that find_available_block may return is
\* blank: write_bmt_to_flash and migrate_from_bad program it without an erase.
\* (The block under replacement is about to be marked.)
FreeBlank ==
    poolErased /\ pc \in {"idle", "find", "wbmt", "wbbt"}
        => \A b \in Unmapped \ {op.bad} : flash[b] = Blank

\* What the user wrote is what a read returns, through every replacement of the
\* block that holds it.
DataSafe ==
    pc = "idle" => \A l \in LogicalBlocks, s \in System, b \in Blocks :
        get_mapping_block_index(l, s, b)
            => \A p \in Pages : p < written[l] => flash[b].page[p] = Data(l, p)

\* One power loss, wherever it comes, loses nothing of that when few blocks have failed.
\* (In a pool that is used up the BMT may be programmed over data: see the run
\* bmt_rebuild.)
DataSurvivesLoss == crashes <= 1 => DataSafe

\* Between two operations no logical block is at a block that is marked bad.
NoBadInUse ==
    pc = "idle" => \A l \in LogicalBlocks, s \in System, b \in Blocks :
        get_mapping_block_index(l, s, b) => ~flash[b].raw /\ ~flash[b].later

\* The erase of the pool spares every block that a BMT on flash maps to.
PoolEraseSparesMapped ==
    [][~poolErased /\ poolErased' =>
         \A b \in Pool : ~Bad(b) /\ flash[b].page[0].kind = "BMT"
             => \A m \in MappedBlocks(flash[b].page[0].tab) : flash'[m] = flash[m]]_vars

\* The BBT stays what the factory's marks say, so the numbering of the logical
\* blocks never changes: blocks that fail later are not mistaken for these.
BbtIsFactory == pc = "idle" => bbt = factory \cap 1..(SysCount - 1)

\* The RAW marks in the pool stay those of the factory, so that calc_bmt_pool_size,
\* which counts them at every boot, finds the pool where it was.
PoolStable == pc # "moved" /\ \A b \in Pool : flash[b].raw <=> b \in factory

\* Every boot and every read, write, erase or recovery comes to an end, although
\* migrate_from_bad and write_bmt_to_flash start over after each failure.
EveryCallReturns == pc \notin {"off", "idle", "failed"} ~> pc \in {"off", "idle", "failed"}
=============================================================================
