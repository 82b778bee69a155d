--------------------------- MODULE BMTDataProofs ---------------------------
(***************************************************************************)
(* Theorems about the user's data until the power is lost: NoBadInUse and  *)
(* DataSafe.                                                               *)
(*                                                                         *)
(* Neither is inductive.  A block in use is good because every mark that   *)
(* was made later is explained by an entry of the BMT (ListInv).  The data *)
(* outlives a replacement because the copy in progress agrees with the old *)
(* block page by page (CopyExact, RecoverExact), the page that is written  *)
(* last is the one whose write or read went wrong (Job, Landed), the next  *)
(* page of a block is still erased (Image), and no two logical blocks are  *)
(* at the same place (ServesOne).                                          *)
(***************************************************************************)
EXTENDS BMTSafeProofs

\* Power was not lost yet.
Powered == crashes = 0

-----------------------------------------------------------------------------
(* Marks and entries *)

Marking == pc \in {"markErase", "markWrite"}

\* The chip is booted once: there is no BBT before that.
Starting == Booting => \A b \in Pool : ~HoldsBbt(b)

\* A system block has one entry at most.
OneEntry == \A i, j \in DOMAIN table : table[i].bad = table[j].bad => i = j

\* The RAW mark of a system block is the factory's or belongs to an entry; the other mark is
\* for the pool.
RawListed == \A s \in System :
    ~flash[s].later /\ (flash[s].raw => s \in factory \/ s \in BadBlocks(table))

\* A system block that is marked has its entry.
MarkListed == Marking /\ mk.blk \in System => ~mk.later /\ mk.blk \in BadBlocks(table)

\* A system block gets its entry when it is replaced, and has none before.
OpListed == op.bad \in System => /\ Seeking => op.bad \notin BadBlocks(table)
                                 /\ Replaced => op.bad \in BadBlocks(table)

\* The block that recover_bmt fills is the one of the entry it will take out, and not marked.
RecoverClear == Recovering => table[op.lb].bad = op.bad /\ ~flash[op.bad].raw

ListInv == Starting /\ OneEntry /\ RawListed /\ MarkListed /\ OpListed /\ RecoverClear

\* No system block gets a mark.
NoNewMark == \A s \in System : /\ flash'[s].raw => flash[s].raw
                               /\ flash'[s].later => flash[s].later

\* The program of a page changes one block and leaves its marks.
LEMMA ProgramMarks ==
    ASSUME flash \in [Blocks -> Block], NEW x \in Blocks, NEW p, NEW v, NEW i,
           flash' = Programmed(x, p, v, i)
    PROVE  NoNewMark
<1>1. \A c \in Blocks : c # x => flash'[c] = flash[c]
  BY DEF Programmed
<1>2. flash'[x].raw = flash[x].raw /\ flash'[x].later = flash[x].later
  BY DEF Programmed
<1> QED
  BY <1>1, <1>2, Regions DEF NoNewMark

\* So does one that fails.
LEMMA SpoilMarks ==
    ASSUME flash \in [Blocks -> Block], NEW x \in Blocks, NEW p, flash' = Spoilt(x, p)
    PROVE  NoNewMark
BY Regions DEF NoNewMark, Spoilt

\* An erase makes no mark.
LEMMA EraseMarks ==
    ASSUME flash \in [Blocks -> Block], NEW x \in Blocks, flash' = EraseOf(x)
    PROVE  NoNewMark
BY Regions DEF NoNewMark, EraseOf, Blank

\* At the first boot nothing is mapped, and there is nothing to map.
LEMMA FirstBoot ==
    ASSUME SafeInv, Starting, Booting
    PROVE  /\ table = <<>>
           /\ \A b \in Pool : HasBmt(b) => flash[b].page[0].tab = <<>>
           /\ \A b \in Pool : ~Bad(b) => flash[b].idx = NoIndex
           /\ \A b \in Pool : ~HoldsBbt(b)
           /\ ~Marking
BY DEF SafeInv, Starting, Fresh, Booting, MarkingFor, Marking, Rewriting

\* A step that keeps the table and makes no mark keeps the invariant, if it leaves the blocks
\* that are marked, replaced and recovered as they are listed.
LEMMA ListFrame ==
    ASSUME ListInv, UNCHANGED <<table, factory>>, NoNewMark,
           Booting' => Booting /\ \A b \in Pool : HoldsBbt(b)' => HoldsBbt(b),
           MarkListed', OpListed', RecoverClear'
    PROVE  ListInv'
BY DEF ListInv, Starting, OneEntry, RawListed, NoNewMark

\* The steps of the first boot that program nothing find an empty table, and leave it.
LEMMA BootStill ==
    ASSUME TypeOK, SafeInv, Starting,
           PowerOn \/ LoadBmt \/ Remark \/ Reconstruct \/ LoadBbt \/ SaveBmt \/ SaveBbt
    PROVE  /\ UNCHANGED <<flash, factory, table, written, dirty>>
           /\ ~Marking' /\ ~Seeking' /\ ~Replaced' /\ ~Recovering' /\ (Booting' => Booting)
<1> USE DEF flashVars, ramVars, ghostVars, Marking, Seeking, Replaced, Rewriting, Recovering,
            Booting, MarkingFor
<1>1. UNCHANGED <<flash, factory, written, dirty>>
  BY DEF PowerOn, LoadBmt, Remark, Reconstruct, LoadBbt, SaveBmt, SaveBbt
<1>2. CASE PowerOn
  BY <1>2 DEF PowerOn
<1>3. CASE LoadBmt
  <2>1. Booting /\ pc' \in {"rebuild", "remark"}
    BY <1>3 DEF LoadBmt
  <2>2. UNCHANGED table
    BY <1>3, FirstBoot DEF LoadBmt, LastOf, HoldsBmt, HasBmt, Kind
  <2> QED
    BY <1>1, <2>1, <2>2
<1>4. CASE Remark
  <2>1. Booting /\ table = <<>>
    BY <1>4, FirstBoot DEF Remark
  <2>2. op.k \in Nat
    BY OpFields DEF TypeOK
  <2>3. ~(op.k < Len(table))
    BY <2>1, <2>2
  <2>4. UNCHANGED table /\ pc' = "bbt"
    BY <1>4, <2>3 DEF Remark
  <2> QED
    BY <1>1, <2>1, <2>4
<1>5. CASE Reconstruct
  <2>1. Booting /\ pc = "rebuild"
    BY <1>5 DEF Reconstruct
  <2>2. ~(op.k \in Pool /\ ~Bad(op.k) /\ flash[op.k].idx \in System)
    BY <2>1, FirstBoot, BMTAssumption DEF NoIndex, System, Total
  <2>3. UNCHANGED table /\ pc' \in {"bbt", "rebuild"}
    BY <1>5, <2>2 DEF Reconstruct
  <2> QED
    BY <1>1, <2>1, <2>3
<1>6. CASE LoadBbt
  <2>1. UNCHANGED table /\ pc' \in {"saveBmt", "failed"}
    BY <1>6 DEF LoadBbt
  <2> QED
    BY <1>1, <2>1
<1>7. CASE SaveBmt
  <2>1. /\ UNCHANGED table
        /\ pc' = "saveBbt" \/ (pc' = "wbmt" /\ op'.ret = "saveBbt")
    BY <1>7 DEF SaveBmt, NoOp
  <2> QED
    BY <1>1, <2>1
<1>8. CASE SaveBbt
  <2>1. UNCHANGED table /\ pc' \in {"wbbt", "idle"}
    BY <1>8 DEF SaveBbt
  <2> QED
    BY <1>1, <2>1
<1> QED
  BY <1>2, <1>3, <1>4, <1>5, <1>6, <1>7, <1>8

\* They keep the invariant.
LEMMA ListBoot ==
    ASSUME TypeOK, SafeInv, ListInv,
           PowerOn \/ LoadBmt \/ Remark \/ Reconstruct \/ LoadBbt \/ SaveBmt \/ SaveBbt
    PROVE  ListInv'
<1>1. /\ UNCHANGED <<flash, factory, table>>
      /\ ~Marking' /\ ~Seeking' /\ ~Replaced' /\ ~Recovering' /\ (Booting' => Booting)
  BY BootStill DEF ListInv
<1>2. /\ NoNewMark
      /\ \A b \in Pool : HoldsBbt(b)' => HoldsBbt(b)
  BY <1>1 DEF NoNewMark, HoldsBbt, Bad
<1> QED
  BY <1>1, <1>2, ListFrame DEF MarkListed, OpListed, RecoverClear

\* mark_block_bad_bmt's erase.
LEMMA ListMarkErase ==
    ASSUME TypeOK, SafeInv, ListInv, MarkErase
    PROVE  ListInv'
<1>1. UNCHANGED <<table, factory, op, mk>> /\ pc = "markErase" /\ pc' = "markWrite"
  BY DEF MarkErase, ramVars
<1>2. mk.blk \in Blocks
  BY MarkFields DEF TypeOK
<1>3. NoNewMark
  BY <1>2, EraseMarks DEF MarkErase, NoNewMark, TypeOK
<1>4. MarkListed' /\ OpListed' /\ RecoverClear'
  BY <1>1 DEF ListInv, MarkListed, OpListed, RecoverClear, Marking, Seeking, Replaced, Rewriting,
     Recovering, MarkingFor
<1>5. ~Booting /\ ~Booting'
  BY <1>1, FirstBoot DEF ListInv, Marking, Booting, MarkingFor
<1> QED
  BY <1>1, <1>3, <1>4, <1>5, ListFrame

\* mark_block_bad_bmt's mark: a system block has its entry already.
LEMMA ListMarkWrite ==
    ASSUME TypeOK, SafeInv, ListInv, MarkWrite
    PROVE  ListInv'
<1>1. UNCHANGED <<table, factory, op>> /\ pc = "markWrite" /\ pc' = mk.next
  BY DEF MarkWrite, ramVars
<1>2. mk.blk \in Blocks /\ flash \in [Blocks -> Block]
  BY MarkFields DEF TypeOK
<1>3. mk.next \in {"find", "wbmt", "wbbt", "done"}
  <2>1. mk.next \in {"idle", "remark", "rebuild", "find", "wbmt", "wbbt", "done"}
    BY DEF TypeOK, MarkCall
  <2>2. mk.next # "idle"
    BY <1>1 DEF SafeInv, MarkSafe
  <2>3. ~Booting
    BY <1>1, FirstBoot DEF ListInv, Marking
  <2> QED
    BY <1>1, <2>1, <2>2, <2>3 DEF Booting, MarkingFor
<1>4. \A c \in Blocks : c # mk.blk => flash'[c] = flash[c]
  BY <1>2 DEF MarkWrite
<1>5. mk.blk \in System => ~mk.later /\ mk.blk \in BadBlocks(table)
  BY <1>1 DEF ListInv, MarkListed, Marking
<1>6. ~mk.later => flash'[mk.blk].later = flash[mk.blk].later
  <2>1. CASE flash' = [flash EXCEPT ![mk.blk].raw = TRUE]
    <3>1. flash'[mk.blk] = [flash[mk.blk] EXCEPT !.raw = TRUE]
      BY <1>2, <2>1
    <3>2. flash[mk.blk] \in Block
      BY <1>2
    <3> QED
      BY <3>1
  <2>2. CASE UNCHANGED flash
    BY <2>2
  <2> QED
    BY <2>1 DEF MarkWrite
<1>7. RawListed'
  BY <1>1, <1>4, <1>5, <1>6, Regions DEF ListInv, RawListed
<1>8. OpListed'
  BY <1>1, <1>3 DEF ListInv, OpListed, Seeking, Replaced, Rewriting, MarkingFor
<1>9. Starting' /\ OneEntry' /\ MarkListed' /\ RecoverClear'
  BY <1>1, <1>3 DEF ListInv, Starting, Booting, OneEntry, MarkListed, Marking, MarkingFor,
     RecoverClear, Recovering
<1> QED
  BY <1>7, <1>8, <1>9 DEF ListInv

\* The erase of the pool leaves the system blocks alone.
LEMMA ListPoolErase ==
    ASSUME TypeOK, SafeInv, ListInv, PoolErase, "mark" \notin FaultKinds
    PROVE  ListInv'
<1>1. UNCHANGED <<table, factory, pc, op, mk>> /\ Finding
  BY DEF PoolErase, ctlVars
<1>2. NoNewMark
  BY PoolErased, Regions DEF NoNewMark, Unmapped
<1>3. ~Booting'
  BY <1>1 DEF Booting, Finding, MarkingFor
<1>4. MarkListed' /\ OpListed' /\ RecoverClear'
  BY <1>1 DEF ListInv, MarkListed, OpListed, RecoverClear, Marking, Seeking, Replaced, Rewriting,
     Recovering, MarkingFor, Finding
<1> QED
  BY <1>1, <1>2, <1>3, <1>4, ListFrame

\* write_bmt_to_flash and write_bbt_to_flash start no replacement, and finish the one they are
\* called for; what they give up and mark is in the pool.
LEMMA TableWriteControl ==
    ASSUME TypeOK, SafeInv, BmtFind \/ BmtErase \/ BmtWrite \/ BbtWrite
    PROVE  /\ UNCHANGED <<table, factory, written, dirty>>
           /\ ~Booting' /\ ~Seeking' /\ ~Recovering'
           /\ Replaced' => Replaced /\ UNCHANGED op
           /\ Marking' => mk'.blk \notin System
<1>1. UNCHANGED <<table, factory, written, dirty>> /\ pc \in {"wbmt", "wbmtWrite", "wbbt"}
  BY DEF BmtFind, BmtErase, BmtWrite, BbtWrite, flashVars, ghostVars
<1>2. op.ret \in {"idle", "markbad", "saveBbt"} /\ op.after = "idle"
  BY OpFields DEF TypeOK, SafeInv, OpSafe
<1>3. /\ pc' \in {"wbmt", "wbmtWrite", "wbbt", "idle", "failed", "saveBbt", "markbad", "markErase"}
      /\ pc' = "markErase" => mk'.blk \notin System /\ mk'.next \in {"wbmt", "wbbt"}
      /\ pc' \in {"wbmtWrite", "markbad"} \/ MarkingFor({"wbmt"})' => UNCHANGED op /\ pc # "wbbt"
      /\ pc' \in {"markbad"} => op.ret = "markbad"
      /\ pc' # "wbmt"
  <2>1. bmtBlock \in Pool \/ bmtBlock = 0
    BY DEF TypeOK
  <2>2. pc = "wbmtWrite" => bmtBlock # 0
    BY DEF SafeInv, BmtPlace
  <2>3. CASE BmtFind
    BY <1>2, <2>3, UpdateEnds DEF BmtFind, MarkingFor
  <2>4. CASE BmtErase
    BY <2>1, <2>4, Regions DEF BmtErase, GiveUpBmt, CallMark
  <2>5. CASE BmtWrite
    BY <1>2, <2>1, <2>2, <2>5, Regions DEF BmtWrite, GiveUpBmt, CallMark
  <2>6. CASE BbtWrite
    BY <2>6, Regions DEF BbtWrite, CallMark, MarkingFor
  <2> QED
    BY <2>3, <2>4, <2>5, <2>6
<1> QED
  BY <1>1, <1>3 DEF Booting, Marking, Seeking, Replaced, Rewriting, Recovering, MarkingFor

\* They make no mark themselves.
LEMMA ListTableWrite ==
    ASSUME TypeOK, SafeInv, ListInv, BmtFind \/ BmtErase \/ BmtWrite \/ BbtWrite
    PROVE  ListInv'
<1>1. /\ UNCHANGED <<table, factory>>
      /\ ~Booting' /\ ~Seeking' /\ ~Recovering'
      /\ Replaced' => Replaced /\ UNCHANGED op
      /\ Marking' => mk'.blk \notin System
  BY TableWriteControl
<1>2. NoNewMark
  <2>1. bmtBlock \in Blocks /\ (\A b \in Pool : b \in Blocks) /\ flash \in [Blocks -> Block]
    BY Regions DEF TypeOK
  <2>2. CASE BmtFind
    BY <2>2 DEF BmtFind, flashVars, NoNewMark
  <2>3. CASE BmtErase
    BY <2>1, <2>3, EraseMarks DEF BmtErase, NoNewMark
  <2>4. CASE BmtWrite
    BY <2>1, <2>4, ProgramMarks, SpoilMarks DEF BmtWrite
  <2>5. CASE BbtWrite
    <3>1. UNCHANGED flash => NoNewMark
      BY DEF NoNewMark
    <3> QED
      BY <2>1, <2>5, <3>1, ProgramMarks, SpoilMarks DEF BbtWrite
  <2> QED
    BY <2>2, <2>3, <2>4, <2>5
<1>3. MarkListed' /\ OpListed' /\ RecoverClear'
  BY <1>1 DEF ListInv, MarkListed, OpListed, RecoverClear
<1> QED
  BY <1>1, <1>2, <1>3, ListFrame

\* mark_block_bad_bmt is called for the block that was replaced.
LEMMA ListMarkOld ==
    ASSUME TypeOK, SafeInv, ListInv, MarkOld
    PROVE  ListInv'
<1>1. /\ UNCHANGED <<flash, table, factory, op>>
      /\ pc = "markbad" /\ pc' = "markErase"
      /\ mk'.blk = op.bad /\ mk'.next = "done" /\ mk'.later = (op.bad \in Pool)
  BY DEF MarkOld, CallMark, flashVars, ramVars
<1>2. op.bad \in System => op.bad \in BadBlocks(table) /\ op.bad \notin Pool
  BY <1>1, Regions DEF ListInv, OpListed, Replaced
<1>3. MarkListed' /\ OpListed' /\ RecoverClear' /\ ~Booting'
  BY <1>1, <1>2 DEF MarkListed, OpListed, RecoverClear, Booting, Marking, Seeking, Replaced,
     Rewriting, Recovering, MarkingFor
<1>4. NoNewMark
  BY <1>1 DEF NoNewMark
<1> QED
  BY <1>1, <1>3, <1>4, ListFrame

\* update_bmt returns.
LEMMA ListDone ==
    ASSUME TypeOK, SafeInv, ListInv, Done
    PROVE  ListInv'
<1>1. UNCHANGED <<flash, table, factory>> /\ pc' = "idle"
  BY UpdateEnds DEF Done, flashVars, ramVars
<1>2. NoNewMark /\ OpListed'
  BY <1>1 DEF NoNewMark, OpListed, Seeking, Replaced, Rewriting, MarkingFor
<1> QED
  BY <1>1, <1>2, ListFrame DEF MarkListed, RecoverClear, Marking, Recovering, Booting, MarkingFor

\* update_bmt's change of the table: a system block gets its one entry.
LEMMA UpdateTableBad ==
    ASSUME TypeOK, OneEntry, NEW bad \in Blocks, NEW to \in Pool, UpdateTable(bad, to),
           bad \in System => bad \notin BadBlocks(table)
    PROVE  /\ OneEntry'
           /\ bad \in System => BadBlocks(table') = BadBlocks(table) \cup {bad}
           /\ bad \notin System => BadBlocks(table') = BadBlocks(table)
<1>1. \A i \in DOMAIN table : table[i] \in Entry
  BY DEF TypeOK
<1>2. CASE bad \in System
  <2>1. /\ [bad |-> bad, mapped |-> to] \in Entry
        /\ table' = Append(table, [bad |-> bad, mapped |-> to])
    BY <1>2, EntryType DEF UpdateTable
  <2>2. table \in Seq(Entry)
    BY DEF TypeOK
  <2>3. DOMAIN table' = DOMAIN table \cup {Len(table) + 1} /\ Len(table) + 1 \notin DOMAIN table
    BY <2>1, <2>2
  <2>4. table'[Len(table) + 1].bad = bad /\ \A i \in DOMAIN table : table'[i] = table[i]
    BY <2>1, <2>2
  <2>5. \A i \in DOMAIN table : table[i].bad # bad
    BY <1>2 DEF BadBlocks
  <2>6. OneEntry'
    BY <2>3, <2>4, <2>5 DEF OneEntry
  <2> QED
    BY <1>2, <2>3, <2>4, <2>6 DEF BadBlocks
<1>3. CASE bad \notin System
  <2>1. CASE UNCHANGED table
    BY <1>3, <2>1 DEF OneEntry
  <2>2. CASE \E i \in DOMAIN table : table' = [table EXCEPT ![i].mapped = to]
    <3>1. PICK i \in DOMAIN table : table' = [table EXCEPT ![i].mapped = to]
      BY <2>2
    <3>2. DOMAIN table' = DOMAIN table /\ \A j \in DOMAIN table : table'[j].bad = table[j].bad
      BY <3>1
    <3>3. OneEntry'
      BY <3>2 DEF OneEntry
    <3> QED
      BY <1>3, <3>2, <3>3 DEF BadBlocks
  <2> QED
    BY <1>3, <2>1, <2>2 DEF UpdateTable
<1> QED
  BY <1>2, <1>3

\* A step that only adds an entry, for a block that is replaced from now on, keeps the
\* invariant.
LEMMA ListUpdate ==
    ASSUME TypeOK, SafeInv, ListInv, Seeking, NoNewMark, NEW to \in Pool, UpdateTable(op.bad, to),
           UNCHANGED <<factory, op>>, pc' = "wbmt"
    PROVE  ListInv'
<1>1. op.bad \in Blocks
  BY OpFields DEF TypeOK
<1>2. op.bad \in System => op.bad \notin BadBlocks(table)
  BY DEF ListInv, OpListed
<1>3. /\ OneEntry'
      /\ op.bad \in System => BadBlocks(table') = BadBlocks(table) \cup {op.bad}
      /\ op.bad \notin System => BadBlocks(table') = BadBlocks(table)
  BY <1>1, <1>2, UpdateTableBad DEF ListInv
<1>4. RawListed'
  BY <1>3 DEF ListInv, RawListed, NoNewMark
<1>5. OpListed'
  BY <1>3 DEF OpListed, Seeking, MarkingFor
<1> QED
  BY <1>3, <1>4, <1>5 DEF ListInv, Starting, Booting, MarkListed, Marking, RecoverClear, Recovering,
     MarkingFor

\* migrate_from_bad looks for a block.
LEMMA ListFind ==
    ASSUME TypeOK, SafeInv, ListInv, Find
    PROVE  ListInv'
<1>1. UNCHANGED <<flash, factory>> /\ pc = "find"
  BY DEF Find, flashVars
<1>2. Seeking /\ NoNewMark
  BY <1>1 DEF Seeking, NoNewMark
<1>3. CASE \E b \in Pool : UpdateTable(op.bad, b) /\ pc' = "wbmt" /\ UNCHANGED op
  BY <1>1, <1>2, <1>3, ListUpdate
<1>4. CASE UNCHANGED table /\ ((pc' = "copy" /\ op'.bad = op.bad) \/ pc' = "idle")
  <2>1. MarkListed' /\ OpListed' /\ RecoverClear' /\ ~Booting'
    BY <1>2, <1>4 DEF ListInv, MarkListed, OpListed, RecoverClear, Booting, Marking, Seeking,
       Replaced, Rewriting, Recovering, MarkingFor
  <2> QED
    BY <1>1, <1>2, <1>4, <2>1, ListFrame
<1> QED
  BY <1>3, <1>4, UpdateEnds DEF Find, TypeOK, OpType

\* migrate_from_bad copies a page.
LEMMA ListCopy ==
    ASSUME TypeOK, SafeInv, ListInv, Copy
    PROVE  ListInv'
<1>1. UNCHANGED factory /\ pc = "copy"
  BY DEF Copy
<1>2. Seeking
  BY <1>1 DEF Seeking
<1>3. op.to \in Pool /\ op.to \in Blocks /\ flash \in [Blocks -> Block]
  BY <1>1, Regions DEF TypeOK
<1>4. NoNewMark
  BY <1>3, ProgramMarks, SpoilMarks DEF Copy
<1>5. CASE UpdateTable(op.bad, op.to) /\ pc' = "wbmt" /\ UNCHANGED op
  BY <1>1, <1>2, <1>3, <1>4, <1>5, ListUpdate
<1>6. CASE UNCHANGED table /\ pc' = "copy" /\ op'.bad = op.bad
  <2>1. MarkListed' /\ OpListed' /\ RecoverClear' /\ ~Booting'
    BY <1>2, <1>6 DEF ListInv, MarkListed, OpListed, RecoverClear, Booting, Marking, Seeking,
       Replaced, Rewriting, Recovering, MarkingFor
  <2> QED
    BY <1>1, <1>4, <1>6, <2>1, ListFrame
<1>7. CASE UNCHANGED <<table, op>> /\ pc' = "markErase" /\ mk'.blk = op.to /\ mk'.next = "find"
  <2>1. MarkListed' /\ OpListed' /\ RecoverClear' /\ ~Booting'
    BY <1>2, <1>3, <1>7, Regions DEF ListInv, MarkListed, OpListed, RecoverClear, Booting, Marking,
       Seeking, Replaced, Rewriting, Recovering, MarkingFor
  <2> QED
    BY <1>1, <1>4, <1>7, <2>1, ListFrame
<1> QED
  BY <1>5, <1>6, <1>7 DEF Copy, CallMark, TypeOK, OpType

\* recover_bmt copies a page back.
LEMMA ListRecoverCopy ==
    ASSUME TypeOK, SafeInv, ListInv, RecoverCopy
    PROVE  ListInv'
<1>1. UNCHANGED <<table, factory>> /\ pc = "recCopy"
  BY DEF RecoverCopy, ramVars
<1>2. op.bad \in System /\ op.bad \in Blocks /\ flash \in [Blocks -> Block]
  BY <1>1, Regions DEF TypeOK, SafeInv, OpSafe, Recovering
<1>3. NoNewMark
  BY <1>2, ProgramMarks, SpoilMarks DEF RecoverCopy
<1>4. pc' = "idle" \/ (pc' \in {"recCopy", "recFree"} /\ op'.bad = op.bad /\ op'.lb = op.lb)
  BY RecoveryFields DEF RecoverCopy
<1>5. MarkListed' /\ OpListed' /\ RecoverClear' /\ ~Booting'
  BY <1>1, <1>2, <1>3, <1>4 DEF ListInv, MarkListed, OpListed, RecoverClear, Booting, Marking,
     Seeking, Replaced, Rewriting, Recovering, MarkingFor, NoNewMark
<1> QED
  BY <1>1, <1>3, <1>5, ListFrame

\* recover_bmt takes the entry of a system block out, and so that block from the list.
LEMMA WithoutBad ==
    ASSUME NEW t \in Seq(Entry), NEW i \in DOMAIN t,
           \A j, k \in DOMAIN t : t[j].bad = t[k].bad => j = k
    PROVE  /\ BadBlocks(Without(t, i)) = BadBlocks(t) \ {t[i].bad}
           /\ \A j, k \in DOMAIN Without(t, i) :
                Without(t, i)[j].bad = Without(t, i)[k].bad => j = k
<1> DEFINE w == Without(t, i)
<1>1. /\ DOMAIN w = 1..(Len(t) - 1)
      /\ \A j \in 1..(Len(t) - 1) : w[j] = IF j < i THEN t[j] ELSE t[j + 1]
  BY DEF Without
<1>2. /\ DOMAIN t = 1..Len(t) /\ Len(t) \in Nat /\ i \in 1..Len(t)
  OBVIOUS
<1>3. \A j \in DOMAIN w : /\ j \in DOMAIN t /\ j + 1 \in DOMAIN t
                          /\ w[j] = IF j < i THEN t[j] ELSE t[j + 1]
  BY <1>1, <1>2
<1> HIDE DEF w
<1>4. \A j \in DOMAIN t : j # i => \E k \in DOMAIN w : w[k] = t[j]
  <2> SUFFICES ASSUME NEW j \in DOMAIN t, j # i PROVE \E k \in DOMAIN w : w[k] = t[j]
    OBVIOUS
  <2>1. CASE j < i
    BY <1>1, <1>2, <2>1
  <2>2. CASE j > i
    <3>1. j - 1 \in DOMAIN w /\ ~(j - 1 < i) /\ (j - 1) + 1 = j
      BY <1>1, <1>2, <2>2
    <3> QED
      BY <1>3, <3>1
  <2> QED
    BY <1>2, <2>1, <2>2
<1>5. \A k \in DOMAIN w : \E j \in DOMAIN t : j # i /\ w[k] = t[j]
  BY <1>1, <1>2, <1>3
<1>6. BadBlocks(w) = BadBlocks(t) \ {t[i].bad}
  <2>1. \A x \in BadBlocks(w) : x \in BadBlocks(t) \ {t[i].bad}
    BY <1>5 DEF BadBlocks
  <2>2. \A x \in BadBlocks(t) \ {t[i].bad} : x \in BadBlocks(w)
    BY <1>4 DEF BadBlocks
  <2> QED
    BY <2>1, <2>2
<1>7. \A j, k \in DOMAIN w : w[j].bad = w[k].bad => j = k
  <2> SUFFICES ASSUME NEW j \in DOMAIN w, NEW k \in DOMAIN w, w[j].bad = w[k].bad PROVE j = k
    OBVIOUS
  <2>1. (IF j < i THEN j ELSE j + 1) = (IF k < i THEN k ELSE k + 1)
    BY <1>3
  <2> QED
    BY <1>1, <1>2, <2>1
<1> QED
  BY <1>6, <1>7 DEF w

\* recover_bmt frees the mapped block.
LEMMA ListRecoverFree ==
    ASSUME TypeOK, SafeInv, ListInv, RecoverFree
    PROVE  ListInv'
<1>1. UNCHANGED factory /\ pc = "recFree" /\ op' = NoOp
  BY DEF RecoverFree
<1>2. op.to \in Blocks /\ flash \in [Blocks -> Block] /\ table \in Seq(Entry)
  BY OpFields DEF TypeOK
<1>3. NoNewMark
  BY <1>2, EraseMarks DEF RecoverFree, NoNewMark
<1>4. op.lb \in DOMAIN table /\ table[op.lb].bad = op.bad /\ ~flash[op.bad].raw
  BY <1>1 DEF SafeInv, OpSafe, ListInv, RecoverClear, Recovering
<1>5. pc' \in {"wbmt", "idle"} /\ op'.ret = "idle"
  BY DEF RecoverFree, NoOp
<1>6. OneEntry' /\ RawListed'
  <2>1. CASE UNCHANGED table
    BY <1>1, <1>3, <2>1 DEF ListInv, OneEntry, RawListed, NoNewMark
  <2>2. CASE table' = Without(table, op.lb)
    <3>1. /\ BadBlocks(table') = BadBlocks(table) \ {op.bad}
          /\ OneEntry'
      BY <1>2, <1>4, <2>2, WithoutBad DEF ListInv, OneEntry
    <3> QED
      BY <1>1, <1>3, <1>4, <3>1 DEF ListInv, RawListed, NoNewMark
  <2> QED
    BY <2>1, <2>2 DEF RecoverFree
<1>7. Starting' /\ MarkListed' /\ OpListed' /\ RecoverClear'
  BY <1>5 DEF Starting, Booting, MarkListed, OpListed, RecoverClear, Marking, Seeking, Replaced,
     Rewriting, Recovering, MarkingFor
<1> QED
  BY <1>6, <1>7 DEF ListInv

\* A failure that is reported to update_bmt makes no mark yet.
LEMMA ListStartUpdate ==
    ASSUME ListInv, pc = "idle", UNCHANGED <<table, factory>>, NoNewMark,
           NEW u, StartUpdate(u)
    PROVE  ListInv'
<1>1. /\ pc' = "idle" \/ (pc' = "find" /\ op' = u /\ u.bad \notin BadBlocks(table))
  BY DEF StartUpdate
<1>2. MarkListed' /\ OpListed' /\ RecoverClear' /\ ~Booting'
  BY <1>1 DEF MarkListed, OpListed, RecoverClear, Booting, Marking, Seeking, Replaced, Rewriting,
     Recovering, MarkingFor
<1> QED
  BY <1>2, ListFrame

\* The user's operations: an erase or a program makes no mark.
LEMMA ListUser ==
    ASSUME TypeOK, SafeInv, ListInv, NEW l, NEW s, NEW b \in Blocks,
           EraseBlock(l, b) \/ WritePage(l, s, b) \/ (\E p \in Pages : ReadOverThreshold(b, p))
    PROVE  ListInv'
<1>1. UNCHANGED <<table, factory>> /\ pc = "idle" /\ flash \in [Blocks -> Block]
  BY DEF EraseBlock, WritePage, ReadOverThreshold, flashVars, ramVars, TypeOK
<1>2. NoNewMark
  <2>1. CASE EraseBlock(l, b)
    BY <1>1, <2>1, EraseMarks DEF EraseBlock, NoNewMark
  <2>2. CASE WritePage(l, s, b)
    BY <1>1, <2>2, ProgramMarks, SpoilMarks DEF WritePage
  <2>3. CASE \E p \in Pages : ReadOverThreshold(b, p)
    BY <2>3 DEF ReadOverThreshold, flashVars, NoNewMark
  <2> QED
    BY <2>1, <2>2, <2>3
<1>3. CASE \E u : StartUpdate(u)
  BY <1>1, <1>2, <1>3, ListStartUpdate
<1>4. CASE UNCHANGED <<pc, op>>
  BY <1>1, <1>2, <1>4, ListFrame DEF MarkListed, OpListed, RecoverClear, Booting, Marking, Seeking,
     Replaced, Rewriting, Recovering, MarkingFor
<1> QED
  BY <1>3, <1>4 DEF EraseBlock, WritePage, ReadOverThreshold

\* The console commands: recover_bmt starts on an entry, with its system block erased.
LEMMA ListConsole ==
    ASSUME TypeOK, SafeInv, ListInv, NEW b \in System, MarkBadCommand(b) \/ RecoverMapped(b)
    PROVE  ListInv'
<1>1. UNCHANGED <<table, factory>> /\ pc = "idle" /\ flash \in [Blocks -> Block] /\ b \in Blocks
  BY Regions DEF MarkBadCommand, RecoverMapped, flashVars, ramVars, TypeOK
<1>2. CASE MarkBadCommand(b)
  <2>1. NoNewMark
    BY <1>2 DEF MarkBadCommand, flashVars, NoNewMark
  <2> QED
    BY <1>1, <1>2, <2>1, ListStartUpdate DEF MarkBadCommand
<1>3. CASE RecoverMapped(b)
  <2>1. NoNewMark
    BY <1>1, <1>3, EraseMarks DEF RecoverMapped, NoNewMark
  <2>2. PICK i \in DOMAIN table :
          /\ LastOf(i, {j \in DOMAIN table : table[j].bad = b})
          /\ \/ /\ flash' = EraseOf(b)
                /\ op' = Recovery(b, table[i].mapped, i, 0)
                /\ pc' = "recCopy"
             \/ UNCHANGED <<flash, op, pc>>
    BY <1>3 DEF RecoverMapped
  <2>3. CASE flash' = EraseOf(b) /\ pc' = "recCopy"
             /\ op' = Recovery(b, table[i].mapped, i, 0)
    <3>1. table[i].bad = b
      BY <2>2 DEF LastOf
    <3>2. ~flash'[b].raw
      BY <1>1, <2>3 DEF EraseOf, Blank
    <3>3. op'.bad = b /\ op'.lb = i
      BY <2>3, RecoveryFields
    <3>4. MarkListed' /\ OpListed' /\ RecoverClear' /\ ~Booting'
      BY <1>1, <2>3, <3>1, <3>2, <3>3 DEF MarkListed, OpListed, RecoverClear, Booting, Marking,
         Seeking, Replaced, Rewriting, Recovering, MarkingFor
    <3> QED
      BY <1>1, <2>1, <3>4, ListFrame
  <2>4. CASE UNCHANGED <<flash, op, pc>>
    BY <1>1, <2>1, <2>4, ListFrame DEF MarkListed, OpListed, RecoverClear, Booting, Marking,
       Seeking, Replaced, Rewriting, Recovering, MarkingFor
  <2> QED
    BY <2>2, <2>3, <2>4
<1> QED
  BY <1>2, <1>3

\* The chip as it was shipped.
LEMMA ListInit == Init => ListInv
<1> SUFFICES ASSUME Init PROVE ListInv
  OBVIOUS
<1>1. table = <<>> /\ pc = "off"
  BY DEF Init
<1>2. \A b \in Blocks : /\ flash[b].raw <=> b \in factory
                        /\ ~flash[b].later /\ flash[b].page[0].kind = "erased"
  BY Regions DEF Init, Blank, Erased
<1>3. Starting /\ RawListed
  BY <1>2, Regions DEF Starting, HoldsBbt, RawListed
<1> QED
  BY <1>1, <1>3 DEF ListInv, OneEntry, MarkListed, OpListed, RecoverClear, Marking, Seeking,
     Replaced, Rewriting, Recovering, MarkingFor

\* A step that changes nothing.
LEMMA ListStutter ==
    ASSUME ListInv, UNCHANGED vars
    PROVE  ListInv'
<1>1. UNCHANGED <<flash, table, factory, pc, op, mk>>
  BY DEF vars, flashVars, ramVars, ctlVars
<1>2. NoNewMark /\ (\A b \in Pool : HoldsBbt(b)' => HoldsBbt(b)) /\ (Booting' => Booting)
  BY <1>1 DEF NoNewMark, HoldsBbt, Bad, Booting, MarkingFor
<1>3. MarkListed' /\ OpListed' /\ RecoverClear'
  BY <1>1 DEF ListInv, MarkListed, OpListed, RecoverClear, Marking, Seeking, Replaced, Rewriting,
     Recovering, MarkingFor
<1> QED
  BY <1>1, <1>2, <1>3, ListFrame

\* A step after which the power was not lost is no power loss, and follows no power loss.
LEMMA PowerKept ==
    ASSUME TypeOK, [Next]_vars, Powered'
    PROVE  Powered /\ ~PowerLoss
<1> USE DEF vars, boundVars
<1>1. crashes \in Nat
  BY DEF TypeOK
<1>2. PowerLoss => crashes' = crashes + 1
  BY DEF PowerLoss
<1>3. Boot \/ PowerOn \/ UNCHANGED vars => UNCHANGED crashes
  BY DEF Boot, PowerOn, LoadBmt, Remark, Reconstruct, LoadBbt, SaveBmt, SaveBbt,
     BootReadOverThreshold
<1>4. User \/ Console \/ Recover => UNCHANGED crashes
  BY DEF User, Console, Recover, EraseBlock, WritePage, ReadOverThreshold, MarkBadCommand,
     RecoverMapped, RecoverPool, RecoverRead, RecoverCopy, RecoverFree
<1>5. Update => UNCHANGED crashes
  BY DEF Update, MarkErase, MarkWrite, PoolErase, BmtFind, BmtErase, BmtWrite, BbtWrite, Find,
     Copy, MarkOld, Done
<1>6. PowerLoss \/ UNCHANGED crashes
  BY <1>3, <1>4, <1>5 DEF Next
<1> QED
  BY <1>1, <1>2, <1>6 DEF Powered

\* Every step that is no power loss keeps the invariant.
LEMMA ListStep ==
    ASSUME Ordinary, TypeOK, SafeInv, ListInv, [Next]_vars, Powered'
    PROVE  ListInv'
<1>1. "mark" \notin FaultKinds /\ "bootread" \notin FaultKinds /\ "recread" \notin FaultKinds
  BY DEF Ordinary
<1>2. \A b \in Blocks : b \in DebugBlocks => b \in System
  BY Regions DEF Ordinary
<1>3. CASE UNCHANGED vars
  BY <1>3, ListStutter
<1>4. CASE PowerOn
  BY <1>4, ListBoot
<1>5. CASE Boot
  <2>1. ASSUME NEW b \in Pool, BootReadOverThreshold(b) PROVE FALSE
    BY <1>1, <2>1 DEF BootReadOverThreshold, Fail
  <2> QED
    BY <1>5, <2>1, ListBoot DEF Boot
<1>6. CASE Update
  BY <1>1, <1>6, ListMarkErase, ListMarkWrite, ListPoolErase, ListTableWrite, ListFind, ListCopy,
     ListMarkOld, ListDone DEF Update
<1>7. CASE Recover
  BY <1>1, <1>7, ListRecoverCopy, ListRecoverFree DEF Recover, RecoverRead, Fail
<1>8. CASE User
  BY <1>8, ListUser DEF User
<1>9. CASE Console
  <2>1. ASSUME NEW b \in Blocks, RecoverPool(b) PROVE FALSE
    <3>1. b \in System /\ SysCount < b
      BY <1>2, <2>1 DEF RecoverPool
    <3> QED
      BY <3>1, BMTAssumption DEF System
  <2>2. ASSUME NEW b \in Blocks, MarkBadCommand(b) \/ RecoverMapped(b) PROVE ListInv'
    <3>1. b \in System
      BY <1>2, <2>2 DEF MarkBadCommand, RecoverMapped
    <3> QED
      BY <2>2, <3>1, ListConsole
  <2> QED
    BY <1>9, <2>1, <2>2 DEF Console
<1>10. ~PowerLoss
  BY PowerKept
<1> QED
  BY <1>3, <1>4, <1>5, <1>6, <1>7, <1>8, <1>9, <1>10 DEF Next

\* Block 0 is shipped good; factory never changes.
FirstGood == 0 \notin factory

\* The invariant holds until the power is lost.
LEMMA ListAlways ==
    ASSUME Ordinary
    PROVE  Spec => [](TypeOK /\ MapInv /\ SafeInv /\ FirstGood /\ (Powered => ListInv))
<1>1. Init => ListInv /\ FirstGood
  BY ListInit DEF Init, FirstGood
<1>2. [Next]_vars => UNCHANGED factory
  <2> USE DEF vars, flashVars
  <2>1. Boot \/ PowerOn \/ PowerLoss \/ UNCHANGED vars => UNCHANGED factory
    BY DEF Boot, PowerOn, LoadBmt, Remark, Reconstruct, LoadBbt, SaveBmt, SaveBbt,
       BootReadOverThreshold, PowerLoss
  <2>2. User \/ Console \/ Recover => UNCHANGED factory
    BY DEF User, Console, Recover, EraseBlock, WritePage, ReadOverThreshold, MarkBadCommand,
       RecoverMapped, RecoverPool, RecoverRead, RecoverCopy, RecoverFree
  <2>3. Update => UNCHANGED factory
    BY DEF Update, MarkErase, MarkWrite, PoolErase, BmtFind, BmtErase, BmtWrite, BbtWrite, Find,
       Copy, MarkOld, Done
  <2> QED
    BY <2>1, <2>2, <2>3 DEF Next
<1>3. FirstGood /\ [Next]_vars => FirstGood'
  BY <1>2 DEF FirstGood
<1>4. TypeOK /\ SafeInv /\ (Powered => ListInv) /\ [Next]_vars => (Powered => ListInv)'
  BY ListStep, PowerKept
<1> QED
  BY <1>1, <1>3, <1>4, SafeAlways, PTL DEF Spec

\* Until the power is lost, no logical block is at a block that carries a bad mark between two
\* operations, however many erases, programs and reads fail, however often a replacement starts
\* over, and whatever recover_bmt gives back (NoBadInUse).  Ordinary leaves out the failures that
\* break it: a mark that cannot be written, and an update started by a read of the boot or of a
\* recovery.
THEOREM GoodBlocksOnly ==
    ASSUME Ordinary
    PROVE  Spec => [](crashes = 0 => NoBadInUse)
<1>1. TypeOK /\ SafeInv /\ ListInv /\ FirstGood => NoBadInUse
  <2> SUFFICES ASSUME TypeOK, SafeInv, ListInv, FirstGood, pc = "idle",
                      NEW l \in LogicalBlocks, NEW s \in System, NEW b \in Blocks,
                      get_mapping_block_index(l, s, b)
               PROVE  ~flash[b].raw /\ ~flash[b].later
    BY DEF NoBadInUse
  <2>1. b \in Pool => ~Bad(b)
    BY UserBlock
  <2>2. CASE b \in Pool
    BY <2>1, <2>2 DEF Bad
  <2>3. CASE b \in System
    <3>1. s \notin BadBlocks(table) /\ b = s
      BY <2>3, Entries, Regions DEF get_mapping_block_index, ByBmt, MappedBlocks
    <3>2. bbt = Shipped
      BY DEF SafeInv, BbtPlace, Booting, MarkingFor
    <3>3. s \notin Shipped
      BY <3>2 DEF get_mapping_block_index, SkipsTo
    <3>4. s \notin factory
      BY <3>3 DEF Shipped, FirstGood, System
    <3> QED
      BY <3>1, <3>4 DEF ListInv, RawListed
  <2> QED
    BY <2>2, <2>3, Regions
<1>2. crashes = 0 => Powered
  BY DEF Powered
<1> QED
  BY <1>1, <1>2, ListAlways, PTL

-----------------------------------------------------------------------------
(* Where the data is *)

\* Logical block l is system block s, by the list of the blocks that were shipped bad.
At(l, s) == SkipsTo(l, s, Shipped, SysCount)

\* Logical block l is at b.
Serves(l, b) == \E s \in System : At(l, s) /\ ByBmt(s, b)

\* Block b is the place of some system block.
InUse(b) == (b \in System /\ b \notin BadBlocks(table)) \/ b \in MappedBlocks(table)

\* Block b holds what the user wrote to logical block l and, if no operation on l is unfinished,
\* nothing else: its next page can be written.
Image(l, b) == \A p \in Pages :
    /\ p < written[l] => flash[b].page[p] = Data(l, p)
    /\ ~(p < written[l]) /\ l \notin dirty => flash[b].page[p] = Erased

DataHeld == \A l \in System, b \in Blocks : Serves(l, b) => Image(l, b)

\* recover_bmt's copy has the pages below op.k.
RecoverExact == Recovering =>
    /\ pc = "recCopy" => op.k < PageCount
    /\ \A p \in Pages : flash[op.bad].page[p] =
         IF pc = "recFree" \/ p < op.k THEN flash[op.to].page[p] ELSE Erased

\* migrate_from_bad has copied page p with the programs before the o.k-th.
Copied(o, p) == p # o.page /\ p < (IF p < o.page THEN o.k - 1 ELSE o.k)

\* The new block has the pages copied so far, and is blank otherwise.
CopyExact == pc = "copy" =>
    /\ op.k \in 1..CopyCount(op) /\ op.reason # "erase"
    /\ \A p \in Pages :
         flash[op.to].page[p] = IF Copied(op, p) THEN flash[op.bad].page[p] ELSE Erased

\* What a replacement is for: the erase of a block, the write of its next page, or the move of
\* all its pages, the one written last being the one in question.
EraseJob == /\ op.reason = "erase" /\ op.lb \in System
            /\ written[op.lb] = 0 /\ Serves(op.lb, op.bad)

WriteJob == /\ op.reason = "write" /\ op.lb \in dirty /\ Serves(op.lb, op.bad)
            /\ written[op.lb] = op.page /\ op.val = Data(op.lb, op.page)

MoveJob == /\ op.lb = Total /\ op.val = flash[op.bad].page[op.page]
           /\ op.reason = "read" \/ (op.reason = "write" /\ op.page = PageCount - 1)

Job == Seeking => EraseJob \/ WriteJob \/ MoveJob

\* Once the block is replaced, the page whose write failed is in the new one, and the pages
\* above it are blank: update_bmt may report success.
Landed == Replaced /\ op.lb \in System =>
    /\ op.reason = "write" => written[op.lb] = op.page
    /\ \A b \in Blocks : Serves(op.lb, b) => \A p \in Pages :
         IF op.reason = "write" /\ p = op.page
         THEN flash[b].page[p] = Data(op.lb, p)
         ELSE ~(p < written[op.lb]) => flash[b].page[p] = Erased

DataInv == DataHeld /\ RecoverExact /\ CopyExact /\ Job /\ Landed

-----------------------------------------------------------------------------
(* No two logical blocks are at one place. *)

\* A logical block is one system block, and a system block one logical block.
LEMMA AtOne ==
    ASSUME NEW l, NEW m, NEW s \in System, NEW t \in System, At(l, s), At(m, t)
    PROVE  l = m <=> s = t
<1>1. ASSUME NEW x \in System, NEW y \in System, NEW k, At(k, x), At(k, y), x < y
      PROVE  FALSE
  <2> DEFINE U == 0..(SysCount - 1) \ Shipped
             X == {c \in U : c < x}
             Y == {c \in U : c < y}
  <2>1. x \in U /\ Cardinality(X) = k /\ Cardinality(Y) = k
    BY <1>1 DEF At, SkipsTo
  <2>2. IsFiniteSet(0..(SysCount - 1))
    BY FS_Interval, BMTAssumption
  <2>3. X \subseteq 0..(SysCount - 1) /\ Y \subseteq 0..(SysCount - 1)
    OBVIOUS
  <2>4. IsFiniteSet(X) /\ IsFiniteSet(Y)
    BY <2>2, <2>3, FS_Subset
  <2>5. X \cup {x} \subseteq Y /\ x \notin X
    BY <1>1, <2>1
  <2> HIDE DEF U, X, Y
  <2>6. Cardinality(X \cup {x}) = Cardinality(X) + 1
    BY <2>4, <2>5, FS_AddElement
  <2>7. Cardinality(X \cup {x}) <= Cardinality(Y)
    BY <2>4, <2>5, FS_Subset
  <2>8. Cardinality(X) \in Nat
    BY <2>4, FS_CardinalityType
  <2> QED
    BY <2>1, <2>6, <2>7, <2>8
<1>2. l = m => s = t
  BY <1>1 DEF System
<1>3. s = t => l = m
  BY DEF At, SkipsTo
<1> QED
  BY <1>2, <1>3

\* A system block is at itself, or where its one entry says.
LEMMA ByEntry ==
    ASSUME TypeOK, OneEntry, NEW s, NEW b
    PROVE  ByBmt(s, b) <=> \/ s \notin BadBlocks(table) /\ b = s
                           \/ \E i \in DOMAIN table : table[i].bad = s /\ table[i].mapped = b
<1>1. \A i \in DOMAIN table : i \in Nat
  BY DEF TypeOK
<1>2. ASSUME NEW i \in DOMAIN table, table[i].bad = s
      PROVE  FirstOf(i, {j \in DOMAIN table : table[j].bad = s})
  BY <1>1, <1>2 DEF FirstOf, OneEntry
<1>3. ASSUME NEW i \in DOMAIN table, FirstOf(i, {j \in DOMAIN table : table[j].bad = s})
      PROVE  table[i].bad = s
  BY <1>3 DEF FirstOf
<1> QED
  BY <1>2, <1>3 DEF ByBmt

\* It is at one place, and alone there.
LEMMA PlaceOne ==
    ASSUME TypeOK, MapInv, OneEntry,
           NEW s \in System, NEW t \in System, NEW b, NEW c, ByBmt(s, b), ByBmt(t, c)
    PROVE  s = t <=> b = c
<1>1. \A i \in DOMAIN table : table[i].mapped \in Pool /\ table[i].mapped \notin System
  BY EntryFields, Regions DEF TypeOK
<1>2. \A i, j \in DOMAIN table : (table[i].mapped = table[j].mapped => i = j)
                                 /\ (table[i].bad = table[j].bad => i = j)
  BY DEF MapInv, Inj, OneEntry
<1>3. /\ \/ s \notin BadBlocks(table) /\ b = s
         \/ \E i \in DOMAIN table : table[i].bad = s /\ table[i].mapped = b
      /\ \/ t \notin BadBlocks(table) /\ c = t
         \/ \E i \in DOMAIN table : table[i].bad = t /\ table[i].mapped = c
  BY ByEntry
<1> QED
  BY <1>1, <1>2, <1>3 DEF BadBlocks

\* So is a logical block.
LEMMA ServesOne ==
    ASSUME TypeOK, MapInv, OneEntry, NEW l, NEW m, NEW b, NEW c, Serves(l, b), Serves(m, c)
    PROVE  l = m <=> b = c
<1>1. PICK s \in System : At(l, s) /\ ByBmt(s, b)
  BY DEF Serves
<1>2. PICK t \in System : At(m, t) /\ ByBmt(t, c)
  BY DEF Serves
<1>3. l = m <=> s = t
  BY <1>1, <1>2, AtOne
<1>4. s = t <=> b = c
  BY <1>1, <1>2, PlaceOne
<1> QED
  BY <1>3, <1>4

\* The place of a logical block is in use.
LEMMA ServesInUse ==
    ASSUME NEW l, NEW b, Serves(l, b)
    PROVE  InUse(b)
BY DEF Serves, ByBmt, InUse, MappedBlocks

\* After a step, too, a system block is at itself or where an entry says.
LEMMA ByEntryNext ==
    ASSUME NEW s, NEW b, ByBmt(s, b)'
    PROVE  \/ s \notin BadBlocks(table') /\ b = s
           \/ \E i \in DOMAIN table' : table'[i].bad = s /\ table'[i].mapped = b
BY DEF ByBmt, FirstOf

\* update_bmt's change of the table moves one system block.
LEMMA UpdateByBmt ==
    ASSUME TypeOK, MapInv, OneEntry,
           NEW bad \in Blocks, NEW to \in Pool, UpdateTable(bad, to), InUse(bad), ~InUse(to),
           NEW s \in System, NEW b, ByBmt(s, b)'
    PROVE  (b = to /\ ByBmt(s, bad)) \/ (b # bad /\ b # to /\ ByBmt(s, b))
<1>1. /\ \A i \in DOMAIN table : table[i] \in Entry /\ table[i].mapped \in Pool
      /\ table \in Seq(Entry)
  BY EntryFields DEF TypeOK
<1>2. \/ s \notin BadBlocks(table') /\ b = s
      \/ \E i \in DOMAIN table' : table'[i].bad = s /\ table'[i].mapped = b
  BY ByEntryNext
<1>3. \A c : ByBmt(s, c) <=> \/ s \notin BadBlocks(table) /\ c = s
                             \/ \E i \in DOMAIN table : table[i].bad = s /\ table[i].mapped = c
  BY ByEntry
<1>4. \A i \in DOMAIN table : table[i].mapped # to
  BY DEF InUse, MappedBlocks
<1>5. to \notin System /\ s \notin Pool /\ s # to
  BY Regions
<1>6. CASE bad \in System
  <2>1. /\ [bad |-> bad, mapped |-> to] \in Entry
        /\ table' = Append(table, [bad |-> bad, mapped |-> to])
    BY <1>6, EntryType DEF UpdateTable
  <2>2. DOMAIN table' = DOMAIN table \cup {Len(table) + 1}
    BY <1>1, <2>1
  <2>3. /\ table'[Len(table) + 1].bad = bad /\ table'[Len(table) + 1].mapped = to
        /\ \A i \in DOMAIN table : table'[i] = table[i]
    BY <1>1, <2>1
  <2>4. bad \notin Pool /\ bad \notin BadBlocks(table)
    BY <1>1, <1>6, Regions DEF InUse, MappedBlocks
  <2>5. bad \in BadBlocks(table') /\ \A c : c \in BadBlocks(table) => c \in BadBlocks(table')
    BY <2>2, <2>3 DEF BadBlocks
  <2>6. CASE s = bad
    <3>1. b = to
      BY <1>2, <2>2, <2>3, <2>4, <2>6 DEF BadBlocks
    <3> QED
      BY <1>3, <2>4, <2>6, <3>1
  <2>7. CASE s # bad
    <3>1. \/ s \notin BadBlocks(table) /\ b = s
          \/ \E i \in DOMAIN table : table[i].bad = s /\ table[i].mapped = b
      BY <1>2, <2>2, <2>3, <2>5, <2>7
    <3> QED
      BY <1>1, <1>3, <1>4, <1>5, <2>4, <2>7, <3>1
  <2> QED
    BY <2>6, <2>7
<1>7. CASE bad \notin System
  <2>1. PICK i \in DOMAIN table : table[i].mapped = bad /\ table' = [table EXCEPT ![i].mapped = to]
    BY <1>7 DEF UpdateTable, FirstOf, InUse
  <2>2. DOMAIN table' = DOMAIN table
    BY <2>1
  <2>3. \A j \in DOMAIN table : /\ table'[j].mapped = IF j = i THEN to ELSE table[j].mapped
                                /\ table'[j].bad = table[j].bad
    BY <2>1
  <2>4. \A j \in DOMAIN table : table[j].mapped = bad => j = i
    BY <2>1 DEF MapInv, Inj
  <2>5. BadBlocks(table') = BadBlocks(table)
    BY <2>2, <2>3 DEF BadBlocks
  <2>6. CASE s \notin BadBlocks(table) /\ b = s
    BY <1>3, <1>5, <1>7, <2>6
  <2>7. CASE \E j \in DOMAIN table : table'[j].bad = s /\ table'[j].mapped = b
    BY <1>3, <1>4, <2>1, <2>3, <2>4, <2>7
  <2> QED
    BY <1>2, <2>2, <2>5, <2>6, <2>7
<1> QED
  BY <1>6, <1>7

\* So it moves one logical block.
LEMMA UpdateServes ==
    ASSUME TypeOK, MapInv, OneEntry, UNCHANGED factory,
           NEW bad \in Blocks, NEW to \in Pool, UpdateTable(bad, to), InUse(bad), ~InUse(to),
           NEW l, NEW b, Serves(l, b)'
    PROVE  (b = to /\ Serves(l, bad)) \/ (b # bad /\ b # to /\ Serves(l, b))
<1>1. PICK s \in System : At(l, s)' /\ ByBmt(s, b)'
  BY DEF Serves
<1>2. At(l, s)
  BY <1>1 DEF At, Shipped
<1>3. (b = to /\ ByBmt(s, bad)) \/ (b # bad /\ b # to /\ ByBmt(s, b))
  BY <1>1, UpdateByBmt
<1> QED
  BY <1>2, <1>3 DEF Serves

\* recover_bmt's change of the table moves one logical block back.
LEMMA WithoutServes ==
    ASSUME TypeOK, MapInv, OneEntry, UNCHANGED factory,
           NEW i \in DOMAIN table, table' = Without(table, i),
           NEW l, NEW b, Serves(l, b)'
    PROVE  \/ b = table[i].bad /\ Serves(l, table[i].mapped)
           \/ b # table[i].bad /\ b # table[i].mapped /\ Serves(l, b)
<1>1. PICK s \in System : At(l, s)' /\ ByBmt(s, b)'
  BY DEF Serves
<1>2. At(l, s)
  BY <1>1 DEF At, Shipped
<1>3. /\ table \in Seq(Entry)
      /\ \A j \in DOMAIN table : table[j].mapped \in Pool /\ table[j].bad \in System
  BY EntryFields DEF TypeOK
<1>4. BadBlocks(table') = BadBlocks(table) \ {table[i].bad}
  BY <1>3, WithoutBad DEF OneEntry
<1>5. \A k \in DOMAIN table' : \E j \in DOMAIN table : table'[k] = table[j]
  <2>1. /\ DOMAIN table' = 1..(Len(table) - 1)
        /\ \A j \in 1..(Len(table) - 1) : table'[j] = IF j < i THEN table[j] ELSE table[j + 1]
    BY DEF Without
  <2>2. \A j \in 1..(Len(table) - 1) : j \in DOMAIN table /\ j + 1 \in DOMAIN table
    BY <1>3
  <2> QED
    BY <2>1, <2>2
<1>6. \/ s \notin BadBlocks(table') /\ b = s
      \/ \E k \in DOMAIN table' : table'[k].bad = s /\ table'[k].mapped = b
  BY <1>1, ByEntryNext
<1>7. \A c : ByBmt(s, c) <=> \/ s \notin BadBlocks(table) /\ c = s
                             \/ \E j \in DOMAIN table : table[j].bad = s /\ table[j].mapped = c
  BY ByEntry
<1>8. CASE s = table[i].bad
  <2>1. b = s
    BY <1>4, <1>6, <1>8 DEF BadBlocks
  <2>2. ByBmt(s, table[i].mapped)
    BY <1>7, <1>8
  <2> QED
    BY <1>2, <1>8, <2>1, <2>2 DEF Serves
<1>9. CASE s # table[i].bad
  <2>1. \/ s \notin BadBlocks(table) /\ b = s
        \/ \E j \in DOMAIN table : table[j].bad = s /\ table[j].mapped = b
    BY <1>4, <1>5, <1>6, <1>9
  <2>2. b # table[i].bad /\ b # table[i].mapped
    BY <1>3, <1>9, <2>1, Regions DEF MapInv, Inj
  <2> QED
    BY <1>2, <1>7, <2>1, <2>2 DEF Serves
<1> QED
  BY <1>8, <1>9

-----------------------------------------------------------------------------
(* What a step does to the pages of a block *)

\* Only block x changes.
Only(x) == \A c \in Blocks : c # x => flash'[c] = flash[c]

\* An erase.
LEMMA ErasePages ==
    ASSUME flash \in [Blocks -> Block], NEW x \in Blocks, flash' = EraseOf(x)
    PROVE  Only(x) /\ \A q \in Pages : flash'[x].page[q] = Erased
BY DEF Only, EraseOf, Blank

\* The program of a page.
LEMMA ProgramPages ==
    ASSUME flash \in [Blocks -> Block], NEW x \in Blocks, NEW p \in Pages, NEW v, NEW i,
           flash' = Programmed(x, p, v, i)
    PROVE  /\ Only(x)
           /\ \A q \in Pages : q # p => flash'[x].page[q] = flash[x].page[q]
           /\ flash[x].page[p] = Erased => flash'[x].page[p] = v
<1>1. flash[x] \in Block /\ flash[x].page \in [Pages -> Content]
  BY BlockFields
<1>2. flash'[x].page = [flash[x].page EXCEPT ![p] = IF @ = Erased THEN v ELSE Garbage]
  BY DEF Programmed
<1>3. Only(x)
  BY DEF Only, Programmed
<1> QED
  BY <1>1, <1>2, <1>3

\* One that fails.
LEMMA SpoilPages ==
    ASSUME flash \in [Blocks -> Block], NEW x \in Blocks, NEW p, flash' = Spoilt(x, p)
    PROVE  Only(x) /\ \A q \in Pages : q # p => flash'[x].page[q] = flash[x].page[q]
<1>1. flash[x] \in Block /\ flash[x].page \in [Pages -> Content]
  BY BlockFields
<1>2. flash'[x].page = [flash[x].page EXCEPT ![p] = Garbage]
  BY DEF Spoilt
<1>3. Only(x)
  BY DEF Only, Spoilt
<1> QED
  BY <1>1, <1>2, <1>3

-----------------------------------------------------------------------------
(* Steps that leave the data where it is *)

\* The blocks in use keep their pages.
Spared == \A c \in Blocks : InUse(c) => flash'[c].page = flash[c].page

\* The update in progress goes on.
SameJob == /\ op'.bad = op.bad /\ op'.page = op.page /\ op'.reason = op.reason
           /\ op'.val = op.val /\ op'.lb = op.lb

\* A step that changes one block, which is not in use, spares the others.
LEMMA OnlySpares ==
    ASSUME NEW x \in Blocks, Only(x), ~InUse(x)
    PROVE  Spared
BY DEF Only, Spared

\* Where the logical blocks are depends on the table and on the factory's list.
LEMMA ServesStill ==
    ASSUME UNCHANGED <<table, factory>>
    PROVE  \A l, b : Serves(l, b)' <=> Serves(l, b)
BY DEF Serves, At, Shipped, ByBmt

\* Such a step keeps the invariant if the copies it goes on with stay exact.
LEMMA DataFrame ==
    ASSUME TypeOK, SafeInv, ListInv, DataInv, UNCHANGED <<table, factory, written, dirty>>, Spared,
           Seeking' => Seeking, Replaced' => Replaced, Seeking' \/ Replaced' => SameJob,
           CopyExact', RecoverExact'
    PROVE  DataInv'
<1>1. \A l, b : Serves(l, b)' <=> Serves(l, b)
  BY ServesStill
<1>2. \A l, b : Serves(l, b) => InUse(b)
  BY ServesInUse
<1>3. DataHeld'
  BY <1>1, <1>2 DEF DataInv, DataHeld, Image, Spared
<1>4. Job'
  <2> SUFFICES ASSUME Seeking' PROVE (EraseJob \/ WriteJob \/ MoveJob)'
    BY DEF Job
  <2>1. Seeking /\ SameJob
    OBVIOUS
  <2>2. op.bad \in Blocks /\ InUse(op.bad)
    BY OpFields DEF TypeOK, SafeInv, OpSafe, ListInv, OpListed, InUse
  <2>3. flash'[op.bad].page = flash[op.bad].page
    BY <2>2 DEF Spared
  <2>4. CASE EraseJob
    BY <1>1, <2>4 DEF EraseJob, SameJob
  <2>5. CASE WriteJob
    BY <1>1, <2>5 DEF WriteJob, SameJob
  <2>6. CASE MoveJob
    BY <2>3, <2>6 DEF MoveJob, SameJob
  <2> QED
    BY <2>4, <2>5, <2>6 DEF DataInv, Job
<1>5. Landed'
  <2> SUFFICES ASSUME Replaced', op'.lb \in System PROVE Landed'
    BY DEF Landed
  <2>1. /\ Replaced /\ op'.lb = op.lb /\ op'.page = op.page /\ op'.reason = op.reason
        /\ op.lb \in System
    BY DEF SameJob
  <2>2. /\ op.reason = "write" => written[op.lb] = op.page
        /\ \A b \in Blocks : Serves(op.lb, b) => \A p \in Pages :
             IF op.reason = "write" /\ p = op.page
             THEN flash[b].page[p] = Data(op.lb, p)
             ELSE ~(p < written[op.lb]) => flash[b].page[p] = Erased
    BY <2>1 DEF DataInv, Landed
  <2>3. \A b \in Blocks : Serves(op.lb, b) => flash'[b].page = flash[b].page
    BY <1>2 DEF Spared
  <2> QED
    BY <1>1, <2>1, <2>2, <2>3 DEF Landed
<1> QED
  BY <1>3, <1>4, <1>5 DEF DataInv

\* The boot.
LEMMA DataBoot ==
    ASSUME TypeOK, SafeInv, ListInv, DataInv,
           PowerOn \/ LoadBmt \/ Remark \/ Reconstruct \/ LoadBbt \/ SaveBmt \/ SaveBbt
    PROVE  DataInv'
<1>1. /\ UNCHANGED <<flash, factory, table, written, dirty>>
      /\ ~Seeking' /\ ~Replaced' /\ ~Recovering'
  BY BootStill DEF ListInv
<1>2. Spared /\ CopyExact' /\ RecoverExact'
  BY <1>1 DEF Spared, CopyExact, RecoverExact, Seeking
<1> QED
  BY <1>1, <1>2, DataFrame

\* mark_block_bad_bmt: the block is not in use.
LEMMA DataMark ==
    ASSUME TypeOK, SafeInv, ListInv, DataInv, MarkErase \/ MarkWrite
    PROVE  DataInv'
<1>1. /\ UNCHANGED <<table, factory, written, dirty, op>> /\ Marking
      /\ \/ pc' = "markWrite" /\ UNCHANGED mk
         \/ pc' = mk.next
  BY DEF MarkErase, MarkWrite, ramVars, ghostVars, Marking
<1>2. mk.blk \in Blocks /\ mk.next \in {"find", "wbmt", "wbbt", "done"}
  <2>1. /\ mk.next \in {"idle", "remark", "rebuild", "find", "wbmt", "wbbt", "done"}
        /\ mk.blk \in Blocks
    BY DEF TypeOK, MarkCall
  <2>2. mk.next # "idle"
    BY <1>1 DEF SafeInv, MarkSafe, Marking
  <2>3. ~Booting
    BY <1>1, FirstBoot DEF ListInv
  <2> QED
    BY <1>1, <2>1, <2>2, <2>3 DEF Booting, MarkingFor, Marking
<1>3. ~InUse(mk.blk)
  <2>1. mk.blk \in Pool => mk.blk \notin MappedBlocks(table)
    BY <1>1 DEF SafeInv, MarkSafe, Marking
  <2>2. mk.blk \in System => mk.blk \in BadBlocks(table)
    BY <1>1 DEF ListInv, MarkListed
  <2> QED
    BY <2>1, <2>2, Entries DEF InUse
<1>4. Only(mk.blk)
  <2>1. flash \in [Blocks -> Block]
    BY DEF TypeOK
  <2>2. CASE MarkErase
    BY <1>2, <2>1, <2>2, ErasePages DEF MarkErase, Only
  <2>3. CASE MarkWrite
    BY <2>1, <2>3 DEF MarkWrite, Only
  <2> QED
    BY <2>2, <2>3
<1>5. Spared
  BY <1>2, <1>3, <1>4, OnlySpares
<1>6. CopyExact' /\ RecoverExact' /\ SameJob
  BY <1>1, <1>2 DEF CopyExact, RecoverExact, Recovering, SameJob
<1>7. (Seeking' => Seeking) /\ (Replaced' => Replaced)
  BY <1>1, <1>2 DEF Seeking, Replaced, Rewriting, MarkingFor, Marking
<1> QED
  BY <1>1, <1>5, <1>6, <1>7, DataFrame

\* The erase of the pool spares the blocks in use.
LEMMA DataPoolErase ==
    ASSUME TypeOK, SafeInv, ListInv, DataInv, PoolErase, "mark" \notin FaultKinds
    PROVE  DataInv'
<1>1. UNCHANGED <<table, factory, written, dirty, op, pc, mk>> /\ Finding
  BY DEF PoolErase, ctlVars, ghostVars
<1>2. Spared
  <2>1. \A c \in Blocks : c \notin Unmapped => flash'[c] = flash[c]
    BY PoolErased
  <2>2. \A c \in Unmapped : ~InUse(c)
    BY Regions DEF Unmapped, InUse
  <2> QED
    BY <2>1, <2>2 DEF Spared
<1>3. CopyExact' /\ RecoverExact' /\ SameJob
  BY <1>1 DEF Finding, CopyExact, RecoverExact, Recovering, SameJob
<1>4. (Seeking' => Seeking) /\ (Replaced' => Replaced)
  BY <1>1 DEF Seeking, Replaced, Rewriting, MarkingFor
<1> QED
  BY <1>1, <1>2, <1>3, <1>4, DataFrame

\* The tables are written to blocks that are not in use.
LEMMA DataTableWrite ==
    ASSUME TypeOK, SafeInv, ListInv, DataInv, BmtFind \/ BmtErase \/ BmtWrite \/ BbtWrite
    PROVE  DataInv'
<1>1. /\ UNCHANGED <<table, factory, written, dirty>>
      /\ ~Seeking' /\ ~Recovering'
      /\ Replaced' => Replaced /\ UNCHANGED op
  BY TableWriteControl
<1>2. Spared
  <2>1. flash \in [Blocks -> Block] /\ bmtBlock \in Blocks /\ 0 \in Pages
    BY Regions DEF TypeOK
  <2>2. bmtBlock # 0 => ~InUse(bmtBlock)
    BY Regions DEF TypeOK, SafeInv, InUse
  <2>3. \A b \in Unmapped : b \in Blocks /\ ~InUse(b)
    BY Regions DEF Unmapped, InUse
  <2>4. CASE UNCHANGED flash
    BY <2>4 DEF Spared
  <2>5. CASE BmtErase /\ flash' = EraseOf(bmtBlock)
    BY <2>1, <2>2, <2>5, ErasePages, OnlySpares DEF BmtErase
  <2>6. CASE BmtWrite
    <3>1. Only(bmtBlock)
      BY <2>1, <2>6, ProgramPages, SpoilPages DEF BmtWrite
    <3>2. bmtBlock # 0
      BY <2>6 DEF BmtWrite, SafeInv, BmtPlace
    <3> QED
      BY <2>1, <2>2, <3>1, <3>2, OnlySpares
  <2>7. CASE BbtWrite
    <3>1. ASSUME NEW b \in Unmapped,
                 flash' = Programmed(b, 0, BbtPage(bbt), NoIndex) \/ flash' = Spoilt(b, 0)
          PROVE  Spared
      BY <2>1, <2>3, <3>1, ProgramPages, SpoilPages, OnlySpares
    <3> QED
      BY <2>4, <2>7, <3>1 DEF BbtWrite, FirstOf
  <2> QED
    BY <2>4, <2>5, <2>6, <2>7 DEF BmtFind, BmtErase, flashVars
<1>3. CopyExact' /\ RecoverExact' /\ (UNCHANGED op => SameJob)
  BY <1>1 DEF CopyExact, RecoverExact, Seeking, SameJob
<1> QED
  BY <1>1, <1>2, <1>3, DataFrame

\* The call of mark_block_bad_bmt for the block that was replaced.
LEMMA DataMarkOld ==
    ASSUME TypeOK, SafeInv, ListInv, DataInv, MarkOld
    PROVE  DataInv'
<1>1. /\ UNCHANGED <<flash, table, factory, written, dirty, op>>
      /\ pc = "markbad" /\ pc' = "markErase" /\ mk'.next = "done"
  BY DEF MarkOld, CallMark, flashVars, ramVars, ghostVars
<1>2. Spared /\ CopyExact' /\ RecoverExact' /\ SameJob
  BY <1>1 DEF Spared, CopyExact, RecoverExact, Recovering, SameJob
<1>3. (Seeking' => Seeking) /\ (Replaced' => Replaced)
  BY <1>1 DEF Seeking, Replaced, MarkingFor
<1> QED
  BY <1>1, <1>2, <1>3, DataFrame

\* A step that changes nothing.
LEMMA DataStutter ==
    ASSUME TypeOK, SafeInv, ListInv, DataInv, UNCHANGED vars
    PROVE  DataInv'
<1>1. UNCHANGED <<flash, table, factory, written, dirty, op, pc, mk>>
  BY DEF vars, flashVars, ramVars, ctlVars, ghostVars
<1>2. Spared /\ CopyExact' /\ RecoverExact' /\ SameJob
  BY <1>1 DEF DataInv, Spared, CopyExact, RecoverExact, Recovering, SameJob
<1>3. (Seeking' => Seeking) /\ (Replaced' => Replaced)
  BY <1>1 DEF Seeking, Replaced, Rewriting, MarkingFor
<1> QED
  BY <1>1, <1>2, <1>3, DataFrame

-----------------------------------------------------------------------------
(* A block is replaced *)

\* update_bmt reports success: the page that was written last counts.
LEMMA DataDone ==
    ASSUME TypeOK, SafeInv, ListInv, DataInv, Done
    PROVE  DataInv'
<1>1. /\ UNCHANGED <<flash, table, factory>> /\ pc = "done" /\ pc' = "idle"
      /\ written' = IF op.reason = "write" /\ op.lb \in System
                    THEN [written EXCEPT ![op.lb] = op.page + 1] ELSE written
      /\ dirty' = dirty \ {op.lb}
  BY UpdateEnds DEF Done, flashVars, ramVars
<1>2. \A l, b : Serves(l, b)' <=> Serves(l, b)
  BY <1>1, ServesStill
<1>3. op.page \in Nat /\ written \in [System -> Nat] /\ (\A p \in Pages : p \in Nat) /\ Replaced
  BY <1>1, OpFields DEF TypeOK, Pages, Replaced
<1>4. ASSUME NEW l \in System, NEW b \in Blocks, Serves(l, b)
      PROVE  Image(l, b)'
  <2>1. Image(l, b)
    BY <1>4 DEF DataInv, DataHeld
  <2>2. CASE l # op.lb
    <3>1. written'[l] = written[l] /\ (l \in dirty' <=> l \in dirty)
      BY <1>1, <1>3, <2>2
    <3> QED
      BY <1>1, <2>1, <3>1 DEF Image
  <2>3. CASE l = op.lb
    <3>1. /\ op.reason = "write" => written[l] = op.page
          /\ \A p \in Pages : IF op.reason = "write" /\ p = op.page
                              THEN flash[b].page[p] = Data(l, p)
                              ELSE ~(p < written[l]) => flash[b].page[p] = Erased
      BY <1>3, <1>4, <2>3 DEF DataInv, Landed
    <3>2. \A p \in Pages : p < written[l] => flash[b].page[p] = Data(l, p)
      BY <2>1 DEF Image
    <3>3. CASE op.reason = "write"
      <4>1. written'[l] = op.page + 1 /\ written[l] = op.page
        BY <1>1, <1>3, <2>3, <3>1, <3>3
      <4>2. \A p \in Pages : p < op.page + 1 => p < op.page \/ p = op.page
        BY <1>3
      <4>3. \A p \in Pages : ~(p < op.page + 1) => ~(p < op.page) /\ p # op.page
        BY <1>3
      <4> QED
        BY <1>1, <3>1, <3>2, <4>1, <4>2, <4>3 DEF Image
    <3>4. CASE op.reason # "write"
      <4>1. written'[l] = written[l]
        BY <1>1, <3>4
      <4> QED
        BY <1>1, <3>1, <3>2, <3>4 DEF Image
    <3> QED
      BY <3>3, <3>4
  <2> QED
    BY <2>2, <2>3
<1>5. DataHeld'
  BY <1>2, <1>4 DEF DataHeld
<1> QED
  BY <1>1, <1>5 DEF DataInv, RecoverExact, Recovering, CopyExact, Job, Seeking, Landed, Replaced,
     Rewriting, MarkingFor

\* The change of the table moves the logical block whose block is replaced, and no other.  It
\* keeps the invariant if the new block is right for that one.
LEMMA DataUpdate ==
    ASSUME TypeOK, MapInv, SafeInv, ListInv, DataInv, Seeking,
           UNCHANGED <<factory, written, dirty, op>>, pc' = "wbmt",
           NEW to \in Pool, ~InUse(to), UpdateTable(op.bad, to), Only(to),
           \A l \in System : Serves(l, op.bad) => Image(l, to)',
           op.lb \in System =>
             /\ Serves(op.lb, op.bad)
             /\ op.reason = "write" => written[op.lb] = op.page
             /\ \A p \in Pages : IF op.reason = "write" /\ p = op.page
                                 THEN flash'[to].page[p] = Data(op.lb, p)
                                 ELSE ~(p < written[op.lb]) => flash'[to].page[p] = Erased
    PROVE  DataInv'
<1>1. op.bad \in Blocks /\ InUse(op.bad)
  BY OpFields DEF TypeOK, SafeInv, OpSafe, ListInv, OpListed, InUse
<1>2. \A l, b : Serves(l, b)' => \/ b = to /\ Serves(l, op.bad)
                                 \/ b # op.bad /\ b # to /\ Serves(l, b)
  BY <1>1, UpdateServes DEF ListInv
<1>3. DataHeld'
  <2> SUFFICES ASSUME NEW l \in System, NEW b \in Blocks, Serves(l, b)' PROVE Image(l, b)'
    BY DEF DataHeld
  <2>1. CASE b = to /\ Serves(l, op.bad)
    BY <2>1
  <2>2. CASE b # to /\ Serves(l, b)
    <3>1. Image(l, b) /\ flash'[b] = flash[b]
      BY <2>2 DEF DataInv, DataHeld, Only
    <3> QED
      BY <3>1 DEF Image
  <2> QED
    BY <1>2, <2>1, <2>2
<1>4. Landed'
  <2> SUFFICES ASSUME op.lb \in System PROVE Landed'
    BY DEF Landed
  <2>1. \A b \in Blocks : Serves(op.lb, b)' => b = to
    <3> SUFFICES ASSUME NEW b \in Blocks, Serves(op.lb, b)', b # to PROVE FALSE
      OBVIOUS
    <3>1. b # op.bad /\ Serves(op.lb, b) /\ Serves(op.lb, op.bad)
      BY <1>2
    <3> QED
      BY <3>1, ServesOne DEF ListInv
  <2> QED
    BY <2>1 DEF Landed
<1> QED
  BY <1>3, <1>4 DEF DataInv, RecoverExact, Recovering, CopyExact, Job, Seeking, MarkingFor

\* The programs of migrate_from_bad: page by page, and no page twice.
LEMMA CopyNext ==
    ASSUME NEW o \in OpType, o.k \in 1..CopyCount(o)
    PROVE  /\ o.page \in Pages /\ ~Copied(o, o.page)
           /\ o.k < CopyCount(o) =>
                LET p == CopyPage(o, o.k)
                IN  /\ p \in Pages /\ p # o.page /\ ~Copied(o, p)
                    /\ \A q \in Pages : Copied([o EXCEPT !.k = @ + 1], q) <=> Copied(o, q) \/ q = p
           /\ o.k = CopyCount(o) =>
                /\ CopyPage(o, o.k) = o.page
                /\ o.reason # "write" \/ o.page = PageCount - 1 =>
                     \A q \in Pages : q # o.page => Copied(o, q)
                /\ o.reason = "write" => \A q \in Pages : Copied(o, q) <=> q < o.page
<1> DEFINE n == [o EXCEPT !.k = @ + 1]
           p == CopyPage(o, o.k)
<1>1. o.page \in 0..(PageCount - 1) /\ o.k \in Nat /\ PageCount \in Nat
  BY OpFields, BMTAssumption DEF Pages
<1>2. n.k = o.k + 1 /\ n.page = o.page
  OBVIOUS
<1>3. ~Copied(o, o.page)
  BY DEF Copied
<1>4. CopyCount(o) \in Nat /\ CopyCount(o) <= PageCount /\ CopyCount(o) >= o.page + 1
  BY <1>1 DEF CopyCount
<1>5. ASSUME o.k < CopyCount(o)
      PROVE  /\ p \in Pages /\ p # o.page /\ ~Copied(o, p)
             /\ \A q \in Pages : Copied(n, q) <=> Copied(o, q) \/ q = p
  <2>1. p = IF o.k <= o.page THEN o.k - 1 ELSE o.k
    BY <1>5 DEF CopyPage
  <2>2. p \in Pages /\ p # o.page
    BY <1>1, <1>4, <1>5, <2>1 DEF Pages
  <2> HIDE DEF p
  <2>3. ~Copied(o, p)
    BY <1>1, <2>1 DEF Copied
  <2>4. ASSUME NEW q \in Pages PROVE Copied(n, q) <=> Copied(o, q) \/ q = p
    <3> HIDE DEF n
    <3>1. q \in Nat
      BY DEF Pages
    <3>2. CASE o.k <= o.page
      BY <1>1, <1>2, <2>1, <3>1 DEF Copied
    <3>3. CASE ~(o.k <= o.page)
      BY <1>1, <1>2, <2>1, <3>1 DEF Copied
    <3> QED
      BY <3>2, <3>3
  <2> QED
    BY <2>2, <2>3, <2>4
<1>6. ASSUME o.k = CopyCount(o)
      PROVE  /\ CopyPage(o, o.k) = o.page
             /\ o.reason # "write" \/ o.page = PageCount - 1 =>
                  \A q \in Pages : q # o.page => Copied(o, q)
             /\ o.reason = "write" => \A q \in Pages : Copied(o, q) <=> q < o.page
  <2>1. CopyPage(o, o.k) = o.page
    BY <1>6 DEF CopyPage
  <2>2. ASSUME o.reason # "write" \/ o.page = PageCount - 1, NEW q \in Pages, q # o.page
        PROVE  Copied(o, q)
    <3>1. o.k = PageCount /\ q \in 0..(PageCount - 1)
      BY <1>1, <1>6, <2>2 DEF CopyCount, Pages
    <3> QED
      BY <1>1, <2>2, <3>1 DEF Copied
  <2>3. ASSUME o.reason = "write", NEW q \in Pages
        PROVE  Copied(o, q) <=> q < o.page
    <3>1. o.k = o.page + 1 /\ q \in Nat
      BY <1>6, <2>3 DEF CopyCount, Pages
    <3> QED
      BY <1>1, <3>1 DEF Copied
  <2> QED
    BY <2>1, <2>2, <2>3
<1> QED
  BY <1>1, <1>3, <1>5, <1>6 DEF Pages

\* migrate_from_bad finds a blank block, or gives up.
LEMMA DataFind ==
    ASSUME TypeOK, MapInv, SafeInv, ListInv, DataInv, Find
    PROVE  DataInv'
<1>1. UNCHANGED <<flash, factory, written, dirty, mk>> /\ pc = "find" /\ poolErased
  BY DEF Find, flashVars, ghostVars
<1>2. Seeking /\ Spared
  BY <1>1 DEF Seeking, Spared
<1>3. ASSUME NEW b \in Pool, FirstOf(b, Unmapped)
      PROVE  /\ ~InUse(b) /\ b \in Blocks
             /\ \A p \in Pages : flash[b].page[p] = Erased
  <2>1. b \in Unmapped /\ ~InUse(b) /\ b \in Blocks
    BY <1>3, Regions DEF FirstOf, Unmapped, InUse
  <2>2. flash[b] = Blank
    BY <1>1, <2>1 DEF SafeInv, FreeErased, Replaced, Rewriting, MarkingFor
  <2> QED
    BY <2>1, <2>2 DEF Blank
<1>4. ASSUME NEW b \in Pool, FirstOf(b, Unmapped), op.reason = "erase", UpdateTable(op.bad, b),
             pc' = "wbmt", UNCHANGED op
      PROVE  DataInv'
  <2>1. EraseJob
    BY <1>2, <1>4 DEF DataInv, Job, WriteJob, MoveJob
  <2>2. Only(b)
    BY <1>1 DEF Only
  <2>3. \A l \in System : Serves(l, op.bad) => Image(l, b)'
    <3> SUFFICES ASSUME NEW l \in System, Serves(l, op.bad) PROVE Image(l, b)'
      OBVIOUS
    <3>1. l = op.lb
      BY <2>1, ServesOne DEF EraseJob, ListInv
    <3>2. written'[l] = 0
      BY <1>1, <2>1, <3>1 DEF EraseJob
    <3>3. \A p \in Pages : ~(p < 0)
      BY DEF Pages
    <3> QED
      BY <1>1, <1>3, <1>4, <3>2, <3>3 DEF Image
  <2>4. \A p \in Pages : flash'[b].page[p] = Erased
    BY <1>1, <1>3, <1>4
  <2> QED
    BY <1>1, <1>2, <1>3, <1>4, <2>1, <2>2, <2>3, DataUpdate DEF EraseJob
<1>5. ASSUME NEW b \in Pool, FirstOf(b, Unmapped), op.reason # "erase",
             op' = [op EXCEPT !.to = b, !.k = 1], pc' = "copy", UNCHANGED table
      PROVE  DataInv'
  <2>1. SameJob /\ op'.to = b /\ op'.k = 1
    BY <1>5 DEF SameJob
  <2>2. op.page \in Nat /\ PageCount \in Nat \ {0}
    BY OpFields, BMTAssumption DEF TypeOK, Pages
  <2>3. 1 \in 1..CopyCount(op')
    BY <2>1, <2>2 DEF CopyCount, SameJob
  <2>4. \A p \in Pages : ~Copied(op', p)
    BY <2>1, <2>2 DEF Copied, SameJob, Pages
  <2>5. CopyExact'
    BY <1>1, <1>3, <1>5, <2>3, <2>4 DEF CopyExact
  <2>6. RecoverExact' /\ ~Replaced'
    BY <1>5 DEF RecoverExact, Recovering, Replaced, Rewriting, MarkingFor
  <2> QED
    BY <1>1, <1>2, <1>5, <2>1, <2>5, <2>6, DataFrame
<1>6. ASSUME pc' = "idle", UNCHANGED table
      PROVE  DataInv'
  <2>1. CopyExact' /\ RecoverExact' /\ ~Replaced' /\ ~Seeking'
    BY <1>6 DEF CopyExact, RecoverExact, Recovering, Replaced, Rewriting, Seeking, MarkingFor
  <2> QED
    BY <1>1, <1>2, <1>6, <2>1, DataFrame
<1> QED
  BY <1>4, <1>5, <1>6, UpdateEnds DEF Find

\* migrate_from_bad copies a page, or the last one: then the new block has all that the old one
\* had, and the page in question.
LEMMA DataCopy ==
    ASSUME TypeOK, MapInv, SafeInv, ListInv, DataInv, Copy
    PROVE  DataInv'
<1> DEFINE p == CopyPage(op, op.k)
           v == IF p = op.page THEN op.val ELSE flash[op.bad].page[p]
<1>1. UNCHANGED <<factory, written, dirty>> /\ pc = "copy" /\ Seeking
  BY DEF Copy, ghostVars, Seeking
<1>2. /\ op \in OpType /\ op.bad \in Blocks /\ op.to \in Pool /\ op.to \in Blocks
      /\ flash \in [Blocks -> Block]
  BY <1>1, OpFields DEF TypeOK
<1>3. ~InUse(op.to) /\ InUse(op.bad)
  <2>1. op.to \in Unmapped
    BY <1>1 DEF SafeInv, OpSafe
  <2>2. ~InUse(op.to)
    BY <2>1, Regions DEF Unmapped, InUse
  <2> QED
    BY <1>1, <2>2 DEF SafeInv, OpSafe, ListInv, OpListed, InUse
<1>4. /\ op.k \in 1..CopyCount(op) /\ op.reason # "erase"
      /\ \A q \in Pages :
           flash[op.to].page[q] = IF Copied(op, q) THEN flash[op.bad].page[q] ELSE Erased
  BY <1>1 DEF DataInv, CopyExact
<1>5. /\ op.page \in Pages /\ ~Copied(op, op.page)
      /\ op.k < CopyCount(op) =>
           /\ p \in Pages /\ p # op.page /\ ~Copied(op, p)
           /\ \A q \in Pages : Copied([op EXCEPT !.k = @ + 1], q) <=> Copied(op, q) \/ q = p
      /\ op.k = CopyCount(op) => p = op.page
  BY <1>2, <1>4, CopyNext
<1>6. /\ op.k = CopyCount(op) /\ (op.reason # "write" \/ op.page = PageCount - 1) =>
           \A q \in Pages : q # op.page => Copied(op, q)
      /\ op.k = CopyCount(op) /\ op.reason = "write" =>
           \A q \in Pages : Copied(op, q) <=> q < op.page
  BY <1>2, <1>4, CopyNext
<1> HIDE DEF p
<1>7. ASSUME flash' = Programmed(op.to, p, v, OobIndex(op, p)), op.k = CopyCount(op),
             UpdateTable(op.bad, op.to), pc' = "wbmt", UNCHANGED op
      PROVE  DataInv'
  <2>1. p = op.page /\ v = op.val /\ p \in Pages
    BY <1>5, <1>7
  <2> HIDE DEF v
  <2>2. /\ Only(op.to)
        /\ \A q \in Pages : q # op.page => flash'[op.to].page[q] = flash[op.to].page[q]
        /\ flash'[op.to].page[op.page] = op.val
    <3>1. flash[op.to].page[p] = Erased
      BY <1>4, <1>5, <2>1
    <3> QED
      BY <1>2, <1>7, <2>1, <3>1, ProgramPages
  <2>3. \A q \in Pages : q # op.page =>
          flash'[op.to].page[q] = IF Copied(op, q) THEN flash[op.bad].page[q] ELSE Erased
    BY <1>4, <2>2
  <2>4. WriteJob \/ MoveJob
    BY <1>1, <1>4 DEF DataInv, Job, EraseJob
  <2>5. CASE WriteJob
    <3>1. /\ op.reason = "write" /\ op.lb \in dirty /\ op.lb \in System /\ Serves(op.lb, op.bad)
          /\ written[op.lb] = op.page /\ op.val = Data(op.lb, op.page)
      BY <2>5 DEF WriteJob, TypeOK
    <3>2. \A q \in Pages : Copied(op, q) <=> q < op.page
      BY <1>6, <1>7, <3>1
    <3>3. \A q \in Pages : q < op.page => flash[op.bad].page[q] = Data(op.lb, q)
      BY <1>2, <3>1 DEF DataInv, DataHeld, Image
    <3>4. ~(op.page < op.page)
      BY <1>5 DEF Pages
    <3>5. \A q \in Pages : /\ q < op.page => flash'[op.to].page[q] = Data(op.lb, q)
                           /\ ~(q < op.page) /\ q # op.page => flash'[op.to].page[q] = Erased
      BY <2>3, <3>2, <3>3, <3>4
    <3>6. \A l \in System : Serves(l, op.bad) => l = op.lb
      BY <3>1, ServesOne DEF ListInv
    <3>7. \A l \in System : Serves(l, op.bad) => Image(l, op.to)'
      <4> SUFFICES ASSUME NEW l \in System, Serves(l, op.bad) PROVE Image(l, op.to)'
        OBVIOUS
      <4>1. l = op.lb
        BY <3>6
      <4> QED
        BY <1>1, <1>7, <3>1, <3>5, <4>1 DEF Image
    <3>8. \A q \in Pages : IF op.reason = "write" /\ q = op.page
                           THEN flash'[op.to].page[q] = Data(op.lb, q)
                           ELSE ~(q < written[op.lb]) => flash'[op.to].page[q] = Erased
      BY <2>2, <3>1, <3>5
    <3> QED
      BY <1>1, <1>2, <1>3, <1>7, <2>2, <3>1, <3>7, <3>8, DataUpdate
  <2>6. CASE MoveJob
    <3>1. /\ op.lb = Total /\ op.val = flash[op.bad].page[op.page]
          /\ op.reason # "write" \/ op.page = PageCount - 1
      BY <2>6 DEF MoveJob
    <3>2. \A q \in Pages : flash'[op.to].page[q] = flash[op.bad].page[q]
      BY <1>6, <1>7, <2>2, <2>3, <3>1
    <3>3. \A l \in System : Serves(l, op.bad) => Image(l, op.to)'
      <4> SUFFICES ASSUME NEW l \in System, Serves(l, op.bad) PROVE Image(l, op.to)'
        OBVIOUS
      <4>1. Image(l, op.bad)
        BY <1>2 DEF DataInv, DataHeld
      <4> QED
        BY <1>1, <1>7, <3>2, <4>1 DEF Image
    <3>4. op.lb \notin System
      BY <3>1, BMTAssumption DEF System, Total
    <3> QED
      BY <1>1, <1>2, <1>3, <1>7, <2>2, <3>3, <3>4, DataUpdate
  <2> QED
    BY <2>4, <2>5, <2>6
<1>8. ASSUME flash' = Programmed(op.to, p, v, OobIndex(op, p)), op.k < CopyCount(op),
             op' = [op EXCEPT !.k = @ + 1], UNCHANGED <<table, pc>>
      PROVE  DataInv'
  <2>1. p \in Pages /\ p # op.page /\ ~Copied(op, p) /\ v = flash[op.bad].page[p]
    BY <1>5, <1>8
  <2> HIDE DEF v
  <2>2. /\ Only(op.to)
        /\ \A q \in Pages : q # p => flash'[op.to].page[q] = flash[op.to].page[q]
        /\ flash'[op.to].page[p] = flash[op.bad].page[p]
    <3>1. flash[op.to].page[p] = Erased
      BY <1>4, <2>1
    <3> QED
      BY <1>2, <1>8, <2>1, <3>1, ProgramPages
  <2>3. SameJob /\ op'.to = op.to /\ op'.k = op.k + 1
    BY <1>8 DEF SameJob
  <2>4. op'.k \in 1..CopyCount(op')
    <3>1. CopyCount(op') = CopyCount(op) /\ CopyCount(op) \in Nat
      BY <1>5, <2>3, BMTAssumption DEF CopyCount, SameJob, Pages
    <3> QED
      BY <1>4, <1>8, <2>3, <3>1
  <2>5. \A q \in Pages : Copied(op', q) <=> Copied(op, q) \/ q = p
    BY <1>5, <1>8
  <2>6. flash'[op.bad] = flash[op.bad]
    BY <1>2, <1>3, <2>2 DEF Only
  <2>7. CopyExact'
    BY <1>4, <2>2, <2>3, <2>4, <2>5, <2>6 DEF CopyExact, SameJob
  <2>8. Spared
    BY <1>2, <1>3, <2>2, OnlySpares
  <2>9. RecoverExact' /\ ~Replaced'
    BY <1>1, <1>8 DEF RecoverExact, Recovering, Replaced, Rewriting, MarkingFor
  <2> QED
    BY <1>1, <1>8, <2>3, <2>7, <2>8, <2>9, DataFrame
<1>9. ASSUME flash' = Spoilt(op.to, p), pc' = "markErase", mk'.next = "find",
             UNCHANGED <<table, op>>
      PROVE  DataInv'
  <2>1. Spared
    BY <1>2, <1>3, <1>9, SpoilPages, OnlySpares
  <2>2. CopyExact' /\ RecoverExact' /\ ~Replaced' /\ SameJob
    BY <1>9 DEF CopyExact, RecoverExact, Recovering, Replaced, Rewriting, MarkingFor, SameJob
  <2> QED
    BY <1>1, <1>9, <2>1, <2>2, DataFrame
<1> QED
  BY <1>7, <1>8, <1>9 DEF Copy, CallMark, p

-----------------------------------------------------------------------------
(* A block is recovered *)

\* The system block of an entry is not in use.
LEMMA EntryIdle ==
    ASSUME TypeOK, NEW i \in DOMAIN table
    PROVE  /\ table[i].bad \in System /\ table[i].bad \in Blocks /\ ~InUse(table[i].bad)
           /\ table[i].mapped \in Pool /\ table[i].mapped \in Blocks
           /\ table[i].mapped # table[i].bad
<1>1. /\ table[i].bad \in System /\ table[i].bad \in BadBlocks(table)
      /\ table[i].mapped \in Pool
  BY EntryFields DEF TypeOK, BadBlocks
<1> QED
  BY <1>1, Entries, Regions DEF InUse

\* recover_bmt starts with an erased block.
LEMMA DataRecoverMapped ==
    ASSUME TypeOK, SafeInv, ListInv, DataInv, NEW b, RecoverMapped(b)
    PROVE  DataInv'
<1>1. UNCHANGED <<table, factory, written, dirty>> /\ pc = "idle" /\ flash \in [Blocks -> Block]
  BY DEF RecoverMapped, ramVars, ghostVars, TypeOK
<1>2. PICK i \in DOMAIN table :
        /\ table[i].bad = b
        /\ \/ /\ flash' = EraseOf(b)
              /\ op' = Recovery(b, table[i].mapped, i, 0)
              /\ pc' = "recCopy"
           \/ UNCHANGED <<flash, op, pc>>
  BY DEF RecoverMapped, LastOf
<1>3. b \in Blocks /\ ~InUse(b)
  BY <1>2, EntryIdle
<1>4. ~Seeking' /\ ~Replaced' /\ CopyExact'
  BY <1>1, <1>2 DEF Seeking, Replaced, Rewriting, MarkingFor, CopyExact
<1>5. CASE flash' = EraseOf(b) /\ pc' = "recCopy"
           /\ op' = Recovery(b, table[i].mapped, i, 0)
  <2>1. Only(b) /\ \A q \in Pages : flash'[b].page[q] = Erased
    BY <1>1, <1>3, <1>5, ErasePages
  <2>2. Spared
    BY <1>3, <2>1, OnlySpares
  <2>3. op'.bad = b /\ op'.k = 0
    BY <1>5, RecoveryFields
  <2>4. 0 < PageCount /\ \A q \in Pages : ~(q < 0)
    BY BMTAssumption DEF Pages
  <2>5. RecoverExact'
    BY <1>5, <2>1, <2>3, <2>4 DEF RecoverExact
  <2> QED
    BY <1>1, <1>4, <2>2, <2>5, DataFrame
<1>6. CASE UNCHANGED <<flash, op, pc>>
  BY <1>1, <1>4, <1>6, DataFrame DEF Spared, RecoverExact, Recovering
<1> QED
  BY <1>2, <1>5, <1>6

\* recover_bmt copies a page back.
LEMMA DataRecoverCopy ==
    ASSUME TypeOK, SafeInv, ListInv, DataInv, RecoverCopy
    PROVE  DataInv'
<1>1. UNCHANGED <<table, factory, written, dirty>> /\ pc = "recCopy" /\ flash \in [Blocks -> Block]
  BY DEF RecoverCopy, ramVars, ghostVars, TypeOK
<1>2. /\ op.lb \in DOMAIN table /\ table[op.lb].mapped = op.to /\ table[op.lb].bad = op.bad
      /\ op.reason = "none"
  BY <1>1 DEF SafeInv, OpSafe, ListInv, RecoverClear, Recovering
<1>3. /\ op.bad \in Blocks /\ ~InUse(op.bad) /\ op.to \in Blocks /\ op.to # op.bad
  BY <1>2, EntryIdle
<1>4. /\ op.k < PageCount
      /\ \A q \in Pages : flash[op.bad].page[q] =
           IF q < op.k THEN flash[op.to].page[q] ELSE Erased
  BY <1>1 DEF DataInv, RecoverExact, Recovering
<1>5. op.k \in Pages /\ op.k \in Nat /\ PageCount \in Nat
  BY <1>4, OpFields, BMTAssumption DEF TypeOK, Pages
<1>6. ASSUME flash' = Programmed(op.bad, op.k, flash[op.to].page[op.k], flash[op.to].idx),
             op' = Recovery(op.bad, op.to, op.lb, op.k + 1),
             pc' = IF op.k + 1 = PageCount THEN "recFree" ELSE pc
      PROVE  DataInv'
  <2>1. flash[op.bad].page[op.k] = Erased
    BY <1>4, <1>5
  <2>2. /\ Only(op.bad)
        /\ \A q \in Pages : q # op.k => flash'[op.bad].page[q] = flash[op.bad].page[q]
        /\ flash'[op.bad].page[op.k] = flash[op.to].page[op.k]
    BY <1>1, <1>3, <1>5, <1>6, <2>1, ProgramPages
  <2>3. op'.bad = op.bad /\ op'.to = op.to /\ op'.k = op.k + 1
    BY <1>6, RecoveryFields
  <2>4. flash'[op.to] = flash[op.to]
    BY <1>3, <2>2 DEF Only
  <2>5. \A q \in Pages : flash'[op.bad].page[q] =
          IF q < op.k + 1 THEN flash'[op.to].page[q] ELSE Erased
    <3> SUFFICES ASSUME NEW q \in Pages
                 PROVE  flash'[op.bad].page[q] =
                          IF q < op.k + 1 THEN flash'[op.to].page[q] ELSE Erased
      OBVIOUS
    <3>1. q < op.k + 1 <=> q < op.k \/ q = op.k
      BY <1>5 DEF Pages
    <3> QED
      BY <1>4, <2>2, <2>4, <3>1
  <2>6. op.k + 1 = PageCount => \A q \in Pages : q < op.k + 1
    BY <1>5 DEF Pages
  <2>7. op.k + 1 # PageCount => op.k + 1 < PageCount
    BY <1>4, <1>5
  <2>8. RecoverExact'
    BY <1>1, <1>6, <2>3, <2>5, <2>6, <2>7 DEF RecoverExact
  <2>9. ~Seeking' /\ ~Replaced' /\ CopyExact'
    BY <1>1, <1>6 DEF Seeking, Replaced, Rewriting, MarkingFor, CopyExact
  <2> QED
    BY <1>1, <1>3, <2>2, <2>8, <2>9, OnlySpares, DataFrame
<1>7. ASSUME flash' = Spoilt(op.bad, op.k), pc' = "idle"
      PROVE  DataInv'
  <2>1. Spared
    BY <1>1, <1>3, <1>7, SpoilPages, OnlySpares
  <2>2. ~Seeking' /\ ~Replaced' /\ CopyExact' /\ RecoverExact'
    BY <1>7 DEF Seeking, Replaced, Rewriting, MarkingFor, CopyExact, RecoverExact, Recovering
  <2> QED
    BY <1>1, <2>1, <2>2, DataFrame
<1> QED
  BY <1>2, <1>6, <1>7 DEF RecoverCopy

\* The mapped block is erased, and the recovered one takes its place.
LEMMA DataRecoverFree ==
    ASSUME TypeOK, MapInv, SafeInv, ListInv, DataInv, RecoverFree
    PROVE  DataInv'
<1>1. /\ UNCHANGED <<factory, written, dirty>> /\ pc = "recFree" /\ op' = NoOp
      /\ flash \in [Blocks -> Block]
  BY DEF RecoverFree, ghostVars, TypeOK
<1>2. op.lb \in DOMAIN table /\ table[op.lb].mapped = op.to /\ table[op.lb].bad = op.bad
  BY <1>1 DEF SafeInv, OpSafe, ListInv, RecoverClear, Recovering
<1>3. /\ op.bad \in Blocks /\ op.to \in Blocks /\ op.to # op.bad
  BY <1>2, EntryIdle
<1>4. \A q \in Pages : flash[op.bad].page[q] = flash[op.to].page[q]
  BY <1>1 DEF DataInv, RecoverExact, Recovering
<1>5. pc' \in {"wbmt", "idle"} /\ op'.ret = "idle"
  BY DEF RecoverFree, NoOp
<1>6. /\ ~Seeking' /\ ~Replaced' /\ ~Recovering' /\ CopyExact' /\ RecoverExact'
  BY <1>5 DEF Seeking, Replaced, MarkingFor, CopyExact, RecoverExact, Recovering
<1>7. CASE UNCHANGED <<flash, table>>
  BY <1>1, <1>6, <1>7, DataFrame DEF Spared
<1>8. CASE flash' = EraseOf(op.to) /\ table' = Without(table, op.lb)
  <2>1. Only(op.to)
    BY <1>1, <1>3, <1>8, ErasePages
  <2>2. DataHeld'
    <3> SUFFICES ASSUME NEW l \in System, NEW b \in Blocks, Serves(l, b)' PROVE Image(l, b)'
      BY DEF DataHeld
    <3>1. (b = op.bad /\ Serves(l, op.to)) \/ (b # op.to /\ Serves(l, b))
      BY <1>1, <1>2, <1>8, WithoutServes DEF ListInv
    <3>2. CASE b = op.bad /\ Serves(l, op.to)
      <4>1. Image(l, op.to)
        BY <1>3, <3>2 DEF DataInv, DataHeld
      <4>2. \A q \in Pages : flash'[b].page[q] = flash[op.to].page[q]
        BY <1>3, <1>4, <2>1, <3>2 DEF Only
      <4> QED
        BY <1>1, <4>1, <4>2 DEF Image
    <3>3. CASE b # op.to /\ Serves(l, b)
      <4>1. Image(l, b) /\ flash'[b] = flash[b]
        BY <2>1, <3>3 DEF DataInv, DataHeld, Only
      <4> QED
        BY <1>1, <4>1 DEF Image
    <3> QED
      BY <3>1, <3>2, <3>3
  <2> QED
    BY <1>6, <2>2 DEF DataInv, Job, Landed
<1> QED
  BY <1>7, <1>8 DEF RecoverFree

-----------------------------------------------------------------------------
(* The user's operations *)

\* Between two operations the code's lookup finds the place of a logical block.
LEMMA LookupServes ==
    ASSUME TypeOK, SafeInv, pc = "idle", NEW s \in System
    PROVE  \A l, b : get_mapping_block_index(l, s, b) => Serves(l, b)
<1>1. bbt = Shipped
  BY DEF SafeInv, BbtPlace, Booting, MarkingFor
<1> QED
  BY <1>1 DEF get_mapping_block_index, Serves, At

\* A user's operation, or the update it starts, keeps the invariant if the data is right
\* afterwards and the update is for one of the three reasons.
LEMMA DataStart ==
    ASSUME pc = "idle", DataHeld',
           pc' = "idle" \/ (pc' = "find" /\ (EraseJob \/ WriteJob \/ MoveJob)')
    PROVE  DataInv'
BY DEF DataInv, RecoverExact, Recovering, CopyExact, Job, Landed, Seeking, Replaced, Rewriting,
   MarkingFor

\* spi_nand_erase_internal
LEMMA DataErase ==
    ASSUME TypeOK, MapInv, SafeInv, ListInv, DataInv,
           NEW l \in LogicalBlocks, NEW s \in System, NEW b \in Blocks,
           get_mapping_block_index(l, s, b), EraseBlock(l, b)
    PROVE  DataInv'
<1>1. /\ UNCHANGED <<factory, table>> /\ pc = "idle" /\ written' = [written EXCEPT ![l] = 0]
      /\ flash \in [Blocks -> Block] /\ written \in [System -> Nat]
  BY DEF EraseBlock, ramVars, TypeOK
<1>2. l \in System
  BY LogicalInSystem DEF TypeOK
<1>3. Serves(l, b)
  BY <1>1, LookupServes
<1>4. \A m, c : Serves(m, c)' <=> Serves(m, c)
  BY <1>1, ServesStill
<1>5. \A m, c : Serves(m, c) => (m = l <=> c = b)
  BY <1>3, ServesOne DEF ListInv
<1>6. \A m \in System : written'[m] = IF m = l THEN 0 ELSE written[m]
  BY <1>1, <1>2
<1>7. \A m \in System, c \in Blocks : Serves(m, c) => Image(m, c)
  BY DEF DataInv, DataHeld
<1>8. \A q \in Pages : ~(q < 0)
  BY DEF Pages
<1>9. CASE flash' = EraseOf(b) /\ dirty' = dirty \ {l} /\ UNCHANGED pc
  <2>1. Only(b) /\ \A q \in Pages : flash'[b].page[q] = Erased
    BY <1>1, <1>9, ErasePages
  <2>2. ASSUME NEW m \in System, NEW c \in Blocks, Serves(m, c) PROVE Image(m, c)'
    <3>1. CASE m = l
      BY <1>5, <1>6, <1>8, <2>1, <2>2, <3>1 DEF Image
    <3>2. CASE m # l
      <4>1. written'[m] = written[m] /\ (m \in dirty' <=> m \in dirty) /\ flash'[c] = flash[c]
        BY <1>5, <1>6, <1>9, <2>1, <2>2, <3>2 DEF Only
      <4> QED
        BY <1>7, <2>2, <4>1 DEF Image
    <3> QED
      BY <3>1, <3>2
  <2>3. DataHeld'
    BY <1>4, <2>2 DEF DataHeld
  <2> QED
    BY <1>1, <1>9, <2>3, DataStart
<1>10. CASE /\ StartUpdate(UpdateOf(b, 0, "erase", Erased, NoIndex, l, "idle"))
            /\ dirty' = dirty \cup {l} /\ UNCHANGED flash
  <2>1. ASSUME NEW m \in System, NEW c \in Blocks, Serves(m, c) PROVE Image(m, c)'
    <3>1. CASE m = l
      BY <1>6, <1>8, <1>10, <3>1 DEF Image
    <3>2. CASE m # l
      <4>1. written'[m] = written[m] /\ (m \in dirty' <=> m \in dirty)
        BY <1>6, <1>10, <3>2
      <4> QED
        BY <1>7, <1>10, <2>1, <4>1 DEF Image
    <3> QED
      BY <3>1, <3>2
  <2>2. DataHeld'
    BY <1>4, <2>1 DEF DataHeld
  <2>3. pc' = "idle" \/ (pc' = "find" /\ op'.reason = "erase" /\ op'.lb = l /\ op'.bad = b)
    BY <1>1, <1>10 DEF StartUpdate, UpdateOf
  <2>4. CASE pc' = "find" /\ op'.reason = "erase" /\ op'.lb = l /\ op'.bad = b
    <3>1. EraseJob'
      BY <1>2, <1>3, <1>4, <1>6, <2>4 DEF EraseJob
    <3> QED
      BY <1>1, <2>2, <2>4, <3>1, DataStart
  <2> QED
    BY <1>1, <2>2, <2>3, <2>4, DataStart
<1> QED
  BY <1>9, <1>10 DEF EraseBlock

\* spi_nand_write_internal
LEMMA DataWrite ==
    ASSUME TypeOK, MapInv, SafeInv, ListInv, DataInv,
           NEW l \in LogicalBlocks, NEW s \in System, NEW b \in Blocks,
           get_mapping_block_index(l, s, b), WritePage(l, s, b)
    PROVE  DataInv'
<1> DEFINE p == written[l]
           i == IF b \in Pool THEN s ELSE NoIndex
<1>1. /\ UNCHANGED <<factory, table>> /\ pc = "idle" /\ l \notin dirty /\ p < PageCount
      /\ flash \in [Blocks -> Block] /\ written \in [System -> Nat]
  BY DEF WritePage, ramVars, TypeOK
<1>2. l \in System
  BY LogicalInSystem DEF TypeOK
<1>3. p \in Pages /\ p \in Nat /\ \A q \in Pages : q \in Nat
  BY <1>1, <1>2, BMTAssumption DEF Pages
<1>4. Serves(l, b)
  BY <1>1, LookupServes
<1>5. \A m, c : Serves(m, c)' <=> Serves(m, c)
  BY <1>1, ServesStill
<1>6. \A m, c : Serves(m, c) => (m = l <=> c = b)
  BY <1>4, ServesOne DEF ListInv
<1>7. \A m \in System, c \in Blocks : Serves(m, c) => Image(m, c)
  BY DEF DataInv, DataHeld
<1>8. /\ \A q \in Pages : q < p => flash[b].page[q] = Data(l, q)
      /\ \A q \in Pages : ~(q < p) => flash[b].page[q] = Erased
  BY <1>1, <1>2, <1>4, <1>7 DEF Image
<1> HIDE DEF p, i
<1>9. CASE /\ flash' = Programmed(b, p, Data(l, p), i) /\ written' = [written EXCEPT ![l] = p + 1]
           /\ UNCHANGED <<pc, dirty>>
  <2>1. /\ Only(b)
        /\ \A q \in Pages : q # p => flash'[b].page[q] = flash[b].page[q]
        /\ flash'[b].page[p] = Data(l, p)
    <3>1. ~(p < p)
      BY <1>3
    <3>2. flash[b].page[p] = Erased
      BY <1>3, <1>8, <3>1
    <3> QED
      BY <1>1, <1>3, <1>9, <3>2, ProgramPages
  <2>2. \A m \in System : written'[m] = IF m = l THEN p + 1 ELSE written[m]
    BY <1>1, <1>2, <1>9
  <2>3. ASSUME NEW m \in System, NEW c \in Blocks, Serves(m, c) PROVE Image(m, c)'
    <3>1. CASE m = l
      <4>1. c = b /\ written'[m] = p + 1
        BY <1>6, <2>2, <2>3, <3>1
      <4>2. \A q \in Pages : q < p + 1 <=> q < p \/ q = p
        BY <1>3
      <4> QED
        BY <1>8, <2>1, <3>1, <4>1, <4>2 DEF Image
    <3>2. CASE m # l
      <4>1. written'[m] = written[m] /\ dirty' = dirty /\ flash'[c] = flash[c]
        BY <1>6, <1>9, <2>1, <2>3, <3>2 DEF Only
      <4> QED
        BY <1>7, <2>3, <4>1 DEF Image
    <3> QED
      BY <3>1, <3>2
  <2>4. DataHeld'
    BY <1>5, <2>3 DEF DataHeld
  <2> QED
    BY <1>1, <1>9, <2>4, DataStart
<1>10. CASE /\ flash' = Spoilt(b, p)
            /\ StartUpdate(UpdateOf(b, p, "write", Data(l, p), i, l, "idle"))
            /\ dirty' = dirty \cup {l} /\ UNCHANGED written
  <2>1. Only(b) /\ \A q \in Pages : q # p => flash'[b].page[q] = flash[b].page[q]
    BY <1>1, <1>10, SpoilPages
  <2>2. ASSUME NEW m \in System, NEW c \in Blocks, Serves(m, c) PROVE Image(m, c)'
    <3>1. CASE m = l
      <4>1. c = b /\ written'[m] = p /\ m \in dirty'
        BY <1>6, <1>10, <2>2, <3>1 DEF p
      <4>2. \A q \in Pages : q < p => q # p
        BY <1>3
      <4> QED
        BY <1>8, <2>1, <3>1, <4>1, <4>2 DEF Image
    <3>2. CASE m # l
      <4>1. written'[m] = written[m] /\ (m \in dirty' <=> m \in dirty) /\ flash'[c] = flash[c]
        BY <1>6, <1>10, <2>1, <2>2, <3>2 DEF Only
      <4> QED
        BY <1>7, <2>2, <4>1 DEF Image
    <3> QED
      BY <3>1, <3>2
  <2>3. DataHeld'
    BY <1>5, <2>2 DEF DataHeld
  <2>4. \/ pc' = "idle"
        \/ pc' = "find" /\ op'.reason = "write" /\ op'.lb = l /\ op'.bad = b /\ op'.page = p
           /\ op'.val = Data(l, p)
    BY <1>1, <1>10 DEF StartUpdate, UpdateOf
  <2>5. CASE pc' = "find" /\ op'.reason = "write" /\ op'.lb = l /\ op'.bad = b /\ op'.page = p
             /\ op'.val = Data(l, p)
    <3>1. l \in dirty' /\ written'[l] = p
      BY <1>10 DEF p
    <3>2. WriteJob'
      BY <1>4, <1>5, <2>5, <3>1 DEF WriteJob
    <3> QED
      BY <1>1, <2>3, <2>5, <3>2, DataStart
  <2> QED
    BY <1>1, <2>3, <2>4, <2>5, DataStart
<1> QED
  BY <1>9, <1>10 DEF WritePage, p, i

\* A read over the threshold, and the mark-bad command: the pages are moved as they are.
LEMMA DataMove ==
    ASSUME TypeOK, SafeInv, ListInv, DataInv, NEW b \in Blocks,
           MarkBadCommand(b) \/ (\E p \in Pages : ReadOverThreshold(b, p))
    PROVE  DataInv'
<1>1. UNCHANGED <<flash, factory, table, written, dirty>> /\ pc = "idle"
  BY DEF MarkBadCommand, ReadOverThreshold, flashVars, ramVars, ghostVars
<1>2. DataHeld'
  BY <1>1, ServesStill DEF DataInv, DataHeld, Image
<1>3. \/ pc' = "idle"
      \/ /\ pc' = "find" /\ op'.bad = b /\ op'.lb = Total /\ op'.val = flash[b].page[op'.page]
         /\ op'.reason = "read" \/ (op'.reason = "write" /\ op'.page = PageCount - 1)
  BY DEF MarkBadCommand, ReadOverThreshold, StartUpdate, UpdateOf
<1>4. CASE /\ pc' = "find" /\ op'.bad = b /\ op'.lb = Total /\ op'.val = flash[b].page[op'.page]
           /\ op'.reason = "read" \/ (op'.reason = "write" /\ op'.page = PageCount - 1)
  <2>1. MoveJob'
    BY <1>1, <1>4 DEF MoveJob
  <2> QED
    BY <1>1, <1>2, <1>4, <2>1, DataStart
<1> QED
  BY <1>1, <1>2, <1>3, <1>4, DataStart

\* The chip as it was shipped holds no data.
LEMMA DataInit == Init => DataInv
<1> SUFFICES ASSUME Init PROVE DataInv
  OBVIOUS
<1>1. pc = "off"
  BY DEF Init
<1>2. \A b \in Blocks, p \in Pages : flash[b].page[p] = Erased
  BY DEF Init, Blank
<1>3. \A l \in System, p \in Pages : ~(p < written[l])
  BY DEF Init, Pages
<1>4. DataHeld
  BY <1>2, <1>3 DEF DataHeld, Image
<1> QED
  BY <1>1, <1>4 DEF DataInv, RecoverExact, Recovering, CopyExact, Job, Landed, Seeking, Replaced,
     Rewriting, MarkingFor

\* Every step that is no power loss keeps the data.
LEMMA DataStep ==
    ASSUME Ordinary, TypeOK, MapInv, SafeInv, ListInv, DataInv, [Next]_vars, Powered'
    PROVE  DataInv'
<1>1. "mark" \notin FaultKinds /\ "bootread" \notin FaultKinds /\ "recread" \notin FaultKinds
  BY DEF Ordinary
<1>2. \A b \in Blocks : b \in DebugBlocks => b \in System
  BY Regions DEF Ordinary
<1>3. CASE UNCHANGED vars
  BY <1>3, DataStutter
<1>4. CASE PowerOn
  BY <1>4, DataBoot
<1>5. CASE Boot
  <2>1. ASSUME NEW b \in Pool, BootReadOverThreshold(b) PROVE FALSE
    BY <1>1, <2>1 DEF BootReadOverThreshold, Fail
  <2> QED
    BY <1>5, <2>1, DataBoot DEF Boot
<1>6. CASE Update
  BY <1>1, <1>6, DataMark, DataPoolErase, DataTableWrite, DataFind, DataCopy, DataMarkOld, DataDone
     DEF Update
<1>7. CASE Recover
  BY <1>1, <1>7, DataRecoverCopy, DataRecoverFree DEF Recover, RecoverRead, Fail
<1>8. CASE User
  BY <1>8, DataErase, DataWrite, DataMove DEF User
<1>9. CASE Console
  <2>1. ASSUME NEW b \in Blocks, RecoverPool(b) PROVE FALSE
    <3>1. b \in System /\ SysCount < b
      BY <1>2, <2>1 DEF RecoverPool
    <3> QED
      BY <3>1, BMTAssumption DEF System
  <2> QED
    BY <1>9, <2>1, DataMove, DataRecoverMapped DEF Console
<1>10. ~PowerLoss
  BY PowerKept
<1> QED
  BY <1>3, <1>4, <1>5, <1>6, <1>7, <1>8, <1>9, <1>10 DEF Next

\* Until the power is lost, a logical block reads as it was written, for every chip, every
\* sequence of failed erases, programs and reads, through every replacement of its block, also
\* one that starts over or finds the pool exhausted, and through recover_bmt (DataSafe).  Ordinary
\* leaves out the failures that do lose data: a mark that cannot be written, and an update started
\* by a read of the boot or of recover_data_from_bmt.
THEOREM DataKept ==
    ASSUME Ordinary
    PROVE  Spec => [](crashes = 0 => DataSafe)
<1>1. TypeOK /\ SafeInv /\ DataInv => DataSafe
  <2> SUFFICES ASSUME TypeOK, SafeInv, DataInv, pc = "idle",
                      NEW l \in LogicalBlocks, NEW s \in System, NEW b \in Blocks,
                      get_mapping_block_index(l, s, b), NEW p \in Pages, p < written[l]
               PROVE  flash[b].page[p] = Data(l, p)
    BY DEF DataSafe
  <2>1. l \in System /\ Serves(l, b)
    BY LogicalInSystem, LookupServes DEF TypeOK
  <2> QED
    BY <2>1 DEF DataInv, DataHeld, Image
<1>2. ASSUME TypeOK, MapInv, SafeInv, Powered => ListInv, Powered => DataInv, [Next]_vars, Powered'
      PROVE  DataInv'
  BY <1>2, DataStep, PowerKept
<1>3. TypeOK /\ MapInv /\ SafeInv /\ (Powered => ListInv) /\ (Powered => DataInv) /\ [Next]_vars
        => (Powered => DataInv)'
  BY <1>2
<1>4. crashes = 0 => Powered
  BY DEF Powered
<1> QED
  BY <1>1, <1>3, <1>4, DataInit, ListAlways, PTL DEF Spec
=============================================================================
