----------------------------- MODULE BMTProofs -----------------------------
(***************************************************************************)
(* Proofs about BMT, for every chip size, every set of faults and every    *)
(* number of power losses.                                                 *)
(***************************************************************************)
EXTENDS BMT, FiniteSetTheorems, TLAPS

-----------------------------------------------------------------------------
(* The values the model is built from have their types. *)

\* Block 0 and page 0 exist, and the pool and the system blocks make up the chip.
LEMMA Regions ==
    /\ 0 \in System /\ 0 \in Pages /\ 0 \in Blocks /\ 0 \notin Pool
    /\ \A b \in System : b \in Blocks /\ b \notin Pool
    /\ \A b \in Pool : b \in Blocks /\ b \notin System
    /\ \A b \in Blocks : b \in Pool \/ b \in System
    /\ \A b \in Blocks : b \in Nat
    /\ Total \in Nat /\ SysCount \in Nat
BY BMTAssumption DEF System, Pages, Blocks, Pool, Total

\* The fields of what a page, a block, an operation and a mark call hold.
LEMMA ContentFields ==
    \A c \in Content : c.tab \in Seq(Entry) /\ c.bbt \in SUBSET System
BY DEF Content

\* The fields of a block.
LEMMA BlockFields ==
    \A x \in Block : /\ x.raw \in BOOLEAN /\ x.later \in BOOLEAN
                     /\ x.idx \in System \cup {NoIndex}
                     /\ x.page \in [Pages -> Content]
BY DEF Block

\* The fields of an operation.
LEMMA OpFields ==
    \A o \in OpType : /\ o.bad \in Blocks /\ o.to \in Blocks /\ o.page \in Pages
                      /\ o.val \in Content /\ o.idx \in System \cup {NoIndex}
                      /\ o.lb \in Nat /\ o.k \in Nat
                      /\ o.ret \in {"idle", "markbad", "saveBbt"}
                      /\ o.after \in {"idle", "load", "recCopy"}
                      /\ o.recBad \in Blocks /\ o.recEntry \in Nat
BY DEF OpType

\* The fields of a mark call.
LEMMA MarkFields ==
    \A m \in MarkCall : /\ m.blk \in Blocks /\ m.later \in BOOLEAN
                        /\ m.next \in PCs /\ m.next \notin {"copy", "moved"}
BY DEF MarkCall, PCs

\* The two blocks of an entry of the BMT.
LEMMA EntryFields ==
    \A e \in Entry : e.bad \in System /\ e.mapped \in Pool
BY DEF Entry

\* An entry sends a system block to a pool block.
LEMMA EntryType ==
    \A s \in System, b \in Pool : [bad |-> s, mapped |-> b] \in Entry
BY DEF Entry

\* An erased page, an unreadable one and an erased block.
LEMMA BlankType == Erased \in Content /\ Garbage \in Content /\ Blank \in Block
<1>1. <<>> \in Seq(Entry)
  OBVIOUS
<1>2. Erased \in Content /\ Garbage \in Content
  BY <1>1, Regions DEF Erased, Garbage, Content
<1> QED
  BY <1>2 DEF Blank, Block

\* A mark on a block.
LEMMA MarkedType ==
    \A x \in Block, r \in BOOLEAN :
        [x EXCEPT !.raw = r] \in Block /\ [x EXCEPT !.later = r] \in Block
BY DEF Block

\* What is programmed: a user's page, the BMT, the BBT.
LEMMA PageType ==
    /\ \A l \in System, p \in Pages : Data(l, p) \in Content
    /\ \A t \in Seq(Entry) : BmtPage(t) \in Content
    /\ \A s \in SUBSET System : BbtPage(s) \in Content
<1>1. <<>> \in Seq(Entry)
  OBVIOUS
<1> QED
  BY <1>1, Regions DEF Data, BmtPage, BbtPage, Content

\* The operations the actions start, and the changes they make to one.
LEMMA NoOpType == NoOp \in OpType /\ NoMark \in MarkCall
BY Regions, BlankType DEF NoOp, NoMark, OpType, MarkCall

\* migrate_from_bad goes on to the next page.
LEMMA OpSetK == \A o \in OpType, n \in Nat : [o EXCEPT !.k = n] \in OpType
BY DEF OpType

\* find_available_block has chosen a block.
LEMMA OpSetTo ==
    \A o \in OpType, b \in Blocks, n \in Nat : [o EXCEPT !.to = b, !.k = n] \in OpType
BY DEF OpType

\* The operation of recover_bmt.
LEMMA OpRecover ==
    \A b \in Blocks, c \in Blocks, n \in Nat, p \in Nat : Recovery(b, c, n, p) \in OpType
BY NoOpType DEF OpType, Recovery

\* ... and its fields.
LEMMA RecoveryFields ==
    \A b, c, n, p : /\ Recovery(b, c, n, p).bad = b /\ Recovery(b, c, n, p).to = c
                    /\ Recovery(b, c, n, p).lb = n /\ Recovery(b, c, n, p).k = p
                    /\ Recovery(b, c, n, p).val = Erased
                    /\ Recovery(b, c, n, p).reason = "none"
                    /\ Recovery(b, c, n, p).ret = "idle"
                    /\ Recovery(b, c, n, p).after = "idle"
                    /\ Recovery(b, c, n, p).recBad = 0
BY DEF Recovery, NoOp

\* The save of the BBT follows the save of the BMT.
LEMMA OpSetRet == [NoOp EXCEPT !.ret = "saveBbt"] \in OpType
BY NoOpType DEF OpType

\* update_bmt starts with a well formed operation.
LEMMA UpdateOfType ==
    \A b \in Blocks, p \in Pages, r \in {"erase", "write", "read"}, v \in Content,
       i \in System \cup {NoIndex}, l \in Nat, a \in {"idle", "load", "recCopy"} :
        UpdateOf(b, p, r, v, i, l, a) \in OpType
BY Regions DEF UpdateOf, OpType

\* update_bmt returns to its caller with a well formed operation.
LEMMA UpdateReturnsType ==
    ASSUME op \in OpType, NEW v \in Content, NEW i \in System \cup {NoIndex},
           UpdateReturns(v, i)
    PROVE  op' \in OpType /\ pc' = op.after
<1> DEFINE r == Recovery(op.recBad, op.bad, op.recEntry, op.page)
<1>1. op.page \in Nat
  BY OpFields, BMTAssumption DEF Pages
<1>2. r \in OpType
  BY <1>1, OpFields, OpRecover
<1>3. [r EXCEPT !.reason = "read", !.val = v, !.idx = i] \in OpType
  BY <1>2 DEF OpType
<1> QED
  BY <1>3, NoOpType DEF UpdateReturns

\* So it does when it failed.
LEMMA UpdateFailsType ==
    ASSUME flash \in [Blocks -> Block], table \in Seq(Entry), op \in OpType, UpdateFails
    PROVE  op' \in OpType /\ pc' = op.after
<1>1. PICK v \in {flash[op.bad].page[p] : p \in Pages} \cup {BmtPage(table), Garbage},
           i \in System \cup {NoIndex} : UpdateReturns(v, i)
  BY DEF UpdateFails
<1>2. v \in Content
  BY OpFields, BlockFields, PageType, BlankType
<1> QED
  BY <1>1, <1>2, UpdateReturnsType

-----------------------------------------------------------------------------
(* The primitives keep the types. *)

\* An erase leaves a well formed block.
LEMMA EraseOfType ==
    ASSUME flash \in [Blocks -> Block], NEW b \in Blocks
    PROVE  EraseOf(b) \in [Blocks -> Block]
BY BlankType DEF EraseOf

\* So does a program that succeeds.
LEMMA ProgrammedType ==
    ASSUME flash \in [Blocks -> Block], NEW b \in Blocks, NEW p, NEW v,
           p \in Pages => v \in Content,
           NEW i \in System \cup {NoIndex}
    PROVE  Programmed(b, p, v, i) \in [Blocks -> Block]
BY BlankType DEF Programmed, Block

\* So does a program that fails.
LEMMA SpoiltType ==
    ASSUME flash \in [Blocks -> Block], NEW b \in Blocks, NEW p
    PROVE  Spoilt(b, p) \in [Blocks -> Block]
BY BlankType DEF Spoilt, Block

\* mark_block_bad_bmt is called with a well formed mark.
LEMMA CallMarkType ==
    ASSUME NEW b \in Blocks, NEW isLater \in BOOLEAN,
           NEW next \in {"idle", "remark", "rebuild", "find", "wbmt", "wbbt", "done"},
           CallMark(b, isLater, next)
    PROVE  mk' \in MarkCall /\ pc' \in PCs /\ pc' # "copy"
BY DEF CallMark, MarkCall, PCs

\* A failure reported to update_bmt leaves the program well typed.
LEMMA StartUpdateType ==
    ASSUME op \in OpType, pc = "idle" \/ pc = "load", NEW u \in OpType, StartUpdate(u)
    PROVE  op' \in OpType /\ pc' \in PCs /\ pc' # "copy"
BY DEF StartUpdate, PCs

\* The count of failures stays in its bounds.
LEMMA FailType ==
    ASSUME faults \in Nat, NEW kind, NEW n \in Nat, Fail(kind, n)
    PROVE  faults' \in Nat
BY BMTAssumption DEF Fail

\* The change of the table by update_bmt, and by recover_bmt.
LEMMA UpdateTableType ==
    ASSUME table \in Seq(Entry), NEW bad \in Blocks, NEW to \in Pool, UpdateTable(bad, to)
    PROVE  table' \in Seq(Entry)
<1>1. CASE bad \in System
  BY <1>1, EntryType DEF UpdateTable
<1>2. CASE bad \notin System
  <2>1. CASE UNCHANGED table
    BY <2>1
  <2>2. ASSUME NEW i \in DOMAIN table, table' = [table EXCEPT ![i].mapped = to]
        PROVE  table' \in Seq(Entry)
    <3>1. table[i] \in Entry
      BY <2>2
    <3>2. [table[i] EXCEPT !.mapped = to] \in Entry
      BY <3>1 DEF Entry
    <3> QED
      BY <2>2, <3>2
  <2> QED
    BY <1>2, <2>1, <2>2 DEF UpdateTable
<1> QED
  BY <1>1, <1>2

\* recover_bmt takes an entry out of the table.
LEMMA WithoutType ==
    ASSUME NEW t \in Seq(Entry), NEW i \in Nat
    PROVE  Without(t, i) \in Seq(Entry)
BY DEF Without

\* The BBT sends a logical block to a system block.
LEMMA LogicalInSystem ==
    ASSUME bbt \in SUBSET System
    PROVE  \A l \in LogicalBlocks : l \in System /\ l \in Nat
<1>1. IsFiniteSet(System)
  BY FS_Interval, BMTAssumption DEF System
<1>2. Cardinality(bbt) \in Nat
  BY <1>1, FS_Subset, FS_CardinalityType
<1> QED
  BY <1>2, BMTAssumption DEF LogicalBlocks, System

-----------------------------------------------------------------------------
(* Type correctness *)

\* The chip as it is delivered is well formed.
LEMMA TypeInit == Init => TypeOK
<1> SUFFICES ASSUME Init PROVE TypeOK
  OBVIOUS
<1>1. flash \in [Blocks -> Block]
  <2>1. \A b \in Blocks : (b \in factory) \in BOOLEAN
    OBVIOUS
  <2>2. \A b \in Blocks : [Blank EXCEPT !.raw = b \in factory] \in Block
    BY <2>1, BlankType, MarkedType
  <2> QED
    BY <2>2 DEF Init
<1>2. written \in [System -> Nat]
  BY DEF Init
<1>3. factory \in SUBSET Blocks
  BY DEF Init
<1>4. table \in Seq(Entry)
  BY DEF Init
<1>5. bmtBlock \in Pool \cup {0} /\ bbtBlock \in Pool \cup {0} /\ bbt \in SUBSET System
  BY DEF Init
<1>6. pc \in PCs /\ pc # "copy" /\ op \in OpType /\ mk \in MarkCall
  BY NoOpType DEF Init, PCs
<1>7. poolErased \in BOOLEAN /\ lim \in Nat /\ dirty \in SUBSET System
  BY Regions DEF Init
<1> QED
  BY <1>1, <1>2, <1>3, <1>4, <1>5, <1>6, <1>7 DEF Init, TypeOK

\* Every step keeps the tables and the flash well formed.
LEMMA TypeStep == TypeOK /\ [Next]_vars => TypeOK'
<1> SUFFICES ASSUME TypeOK, [Next]_vars PROVE TypeOK'
  OBVIOUS
<1> USE DEF TypeOK, flashVars, ramVars, ctlVars, ghostVars, boundVars
<1>1. CASE UNCHANGED vars
  BY <1>1 DEF vars
<1>2. CASE PowerOn
  BY <1>2 DEF PowerOn, PCs
<1>3. CASE LoadBmt
  <2>1. table' \in Seq(Entry) /\ bmtBlock' \in Pool \cup {0}
    <3>1. \A b \in Pool : flash[b].page[0].tab \in Seq(Entry)
      BY Regions, BlockFields, ContentFields
    <3>2. <<>> \in Seq(Entry)
      OBVIOUS
    <3> QED
      BY <1>3, <3>1, <3>2 DEF LoadBmt
  <2>2. op' \in OpType
    <3>1. [NoOp EXCEPT !.k = SysCount] \in OpType
      BY NoOpType, OpSetK, Regions
    <3> QED
      BY <1>3, <3>1 DEF LoadBmt
  <2>3. pc' \in PCs /\ pc' # "copy"
    BY <1>3 DEF LoadBmt, PCs
  <2> QED
    BY <1>3, <2>1, <2>2, <2>3 DEF LoadBmt
<1>4. CASE Remark
  <2>1. ASSUME op.k < Len(table) PROVE table[op.k + 1].bad \in Blocks
    <3>1. table[op.k + 1] \in Entry
      BY <2>1, OpFields
    <3> QED
      BY <3>1, EntryFields, Regions
  <2>2. op' \in OpType
    <3>a. op.k + 1 \in Nat
      BY OpFields
    <3>1. [op EXCEPT !.k = op.k + 1] \in OpType
      BY <3>a, OpSetK
    <3> QED
      BY <1>4, <3>1, NoOpType DEF Remark
  <2>3. mk' \in MarkCall /\ pc' \in PCs /\ pc' # "copy"
    BY <1>4, <2>1, CallMarkType DEF Remark, PCs
  <2> QED
    BY <1>4, <2>2, <2>3 DEF Remark
<1>5. CASE Reconstruct
  <2>1. table' \in Seq(Entry)
    <3>1. CASE UNCHANGED table
      BY <3>1
    <3>2. ASSUME op.k \in Pool, flash[op.k].idx \in System,
                 table' = Append(table, [bad |-> flash[op.k].idx, mapped |-> op.k])
          PROVE  table' \in Seq(Entry)
      BY <3>2, EntryType
    <3> QED
      BY <1>5, <3>1, <3>2 DEF Reconstruct
  <2>2. op' \in OpType
    <3>a. op.k + 1 \in Nat
      BY OpFields
    <3>1. [op EXCEPT !.k = op.k + 1] \in OpType
      BY <3>a, OpSetK
    <3> QED
      BY <1>5, <3>1, NoOpType DEF Reconstruct
  <2>3. mk' \in MarkCall /\ pc' \in PCs /\ pc' # "copy"
    <3>1. CASE UNCHANGED mk
      BY <1>5, <3>1 DEF Reconstruct, CallMark, PCs
    <3>2. ASSUME flash[op.k].idx \in System, CallMark(flash[op.k].idx, FALSE, "rebuild")
          PROVE  mk' \in MarkCall /\ pc' \in PCs /\ pc' # "copy"
      BY <3>2, Regions, CallMarkType
    <3> QED
      BY <1>5, <3>1, <3>2 DEF Reconstruct
  <2> QED
    BY <1>5, <2>1, <2>2, <2>3 DEF Reconstruct
<1>6. CASE LoadBbt
  <2>1. \A b \in Pool : flash[b].page[0].bbt \in SUBSET System
    BY Regions, BlockFields, ContentFields
  <2>2. RawUnmapped \in SUBSET System
    BY BMTAssumption DEF RawUnmapped, System
  <2>3. bbt' \in SUBSET System /\ bbtBlock' \in Pool \cup {0}
    BY <1>6, <2>1, <2>2 DEF LoadBbt
  <2> QED
    BY <1>6, <2>3 DEF LoadBbt, PCs
<1>7. CASE SaveBmt
  <2>1. op' \in OpType
    BY <1>7, OpSetRet DEF SaveBmt
  <2> QED
    BY <1>7, <2>1 DEF SaveBmt, PCs
<1>8. CASE SaveBbt
  BY <1>8, NoOpType DEF SaveBbt, PCs
<1>9. ASSUME NEW b \in Pool, BootReadOverThreshold(b) PROVE TypeOK'
  <2>1. b \in Blocks /\ flash[b].page[0] \in Content /\ flash[b].idx \in System \cup {NoIndex}
    BY Regions, BlockFields
  <2>2. UpdateOf(b, 0, "read", flash[b].page[0], flash[b].idx, Total, "load") \in OpType
    BY <2>1, UpdateOfType, Regions
  <2>3. op' \in OpType /\ pc' \in PCs /\ pc' # "copy"
    BY <1>9, <2>2, StartUpdateType DEF BootReadOverThreshold
  <2>4. faults' \in Nat /\ lim' \in Nat
    BY <1>9, FailType, Regions DEF BootReadOverThreshold
  <2> QED
    BY <1>9, <2>3, <2>4 DEF BootReadOverThreshold
<1>10. CASE MarkErase
  <2>1. flash' \in [Blocks -> Block]
    BY <1>10, EraseOfType, MarkFields DEF MarkErase
  <2>2. faults' \in Nat
    BY <1>10, FailType DEF MarkErase
  <2> QED
    BY <1>10, <2>1, <2>2 DEF MarkErase, PCs
<1>11. CASE MarkWrite
  <2>1. flash' \in [Blocks -> Block]
    <3>1. [flash EXCEPT ![mk.blk].later = TRUE] \in [Blocks -> Block]
      BY MarkFields, MarkedType
    <3>2. [flash EXCEPT ![mk.blk].raw = TRUE] \in [Blocks -> Block]
      BY MarkFields, MarkedType
    <3> QED
      BY <1>11, <3>1, <3>2 DEF MarkWrite
  <2>2. faults' \in Nat
    BY <1>11, FailType DEF MarkWrite
  <2>3. pc' \in PCs /\ pc' # "copy"
    BY <1>11, MarkFields DEF MarkWrite
  <2> QED
    BY <1>11, <2>1, <2>2, <2>3, NoOpType DEF MarkWrite
<1>12. CASE PoolErase
  <2>a. PICK failed \in SUBSET Unmapped : \E kept \in SUBSET failed, unmarked \in SUBSET failed :
           /\ unmarked # {} => "mark" \in FaultKinds
           /\ \/ failed = {} /\ UNCHANGED faults
              \/ failed # {} /\ Fail("erase", Cardinality(failed))
           /\ flash' = [b \in Blocks |->
                        IF b \in kept THEN [flash[b] EXCEPT !.later = b \notin unmarked]
                        ELSE IF b \in Unmapped
                             THEN [Blank EXCEPT !.later = b \in failed \ unmarked]
                             ELSE flash[b]]
    BY <1>12, Zenon DEF PoolErase
  <2>1. PICK kept \in SUBSET failed, unmarked \in SUBSET failed :
           /\ unmarked # {} => "mark" \in FaultKinds
           /\ \/ failed = {} /\ UNCHANGED faults
              \/ failed # {} /\ Fail("erase", Cardinality(failed))
           /\ flash' = [b \in Blocks |->
                        IF b \in kept THEN [flash[b] EXCEPT !.later = b \notin unmarked]
                        ELSE IF b \in Unmapped
                             THEN [Blank EXCEPT !.later = b \in failed \ unmarked]
                             ELSE flash[b]]
    BY <2>a, Zenon
  <2>2. flash' \in [Blocks -> Block]
    <3>1. \A x \in Block, t \in BOOLEAN : [x EXCEPT !.later = t] \in Block
      BY MarkedType
    <3>2. \A b \in Blocks : (b \notin unmarked) \in BOOLEAN /\ (b \in failed \ unmarked) \in BOOLEAN
      OBVIOUS
    <3> QED
      BY <2>1, <3>1, <3>2, BlankType
  <2>3. Cardinality(failed) \in Nat
    <3>1. IsFiniteSet(Pool)
      BY FS_Interval, BMTAssumption DEF Pool, Total
    <3> QED
      BY <3>1, FS_Subset, FS_CardinalityType DEF Unmapped
  <2>4. faults' \in Nat
    BY <2>1, <2>3, FailType
  <2> QED
    BY <1>12, <2>2, <2>4 DEF PoolErase
<1>13. CASE BmtFind
  <2>1. op' \in OpType /\ pc' \in PCs /\ pc' # "copy"
    <3>1. CASE UpdateFails
      BY <3>1, UpdateFailsType, OpFields DEF PCs
    <3>2. CASE op' = NoOp /\ pc' \in {"failed", "idle"}
      BY <3>2, NoOpType DEF PCs
    <3>3. CASE UNCHANGED op /\ pc' = "wbmtWrite"
      BY <3>3 DEF PCs
    <3> QED
      BY <1>13, <3>1, <3>2, <3>3 DEF BmtFind
  <2>2. bmtBlock' \in Pool \cup {0}
    BY <1>13 DEF BmtFind
  <2> QED
    BY <1>13, <2>1, <2>2 DEF BmtFind
<1>14. CASE BmtErase
  <2>1. bmtBlock \in Blocks
    BY Regions
  <2>2. flash' \in [Blocks -> Block]
    BY <1>14, <2>1, EraseOfType DEF BmtErase
  <2>3. faults' \in Nat
    BY <1>14, FailType DEF BmtErase
  <2>4. /\ mk' \in MarkCall /\ pc' \in PCs /\ pc' # "copy"
        /\ bmtBlock' \in Pool \cup {0}
    BY <1>14, <2>1, CallMarkType DEF BmtErase, GiveUpBmt, PCs
  <2> QED
    BY <1>14, <2>2, <2>3, <2>4 DEF BmtErase
<1>15. CASE BmtWrite
  <2>1. bmtBlock \in Blocks /\ BmtPage(table) \in Content
    BY Regions, PageType
  <2>2. flash' \in [Blocks -> Block]
    <3>1. Programmed(bmtBlock, 0, BmtPage(table), NoIndex) \in [Blocks -> Block]
      BY <2>1, ProgrammedType
    <3>2. Spoilt(bmtBlock, 0) \in [Blocks -> Block]
      BY <2>1, SpoiltType
    <3> QED
      BY <1>15, <3>1, <3>2 DEF BmtWrite
  <2>3. faults' \in Nat
    BY <1>15, FailType DEF BmtWrite
  <2>4. /\ mk' \in MarkCall /\ pc' \in PCs /\ pc' # "copy"
        /\ bmtBlock' \in Pool \cup {0}
    BY <1>15, <2>1, CallMarkType, OpFields DEF BmtWrite, GiveUpBmt, PCs
  <2> QED
    BY <1>15, <2>2, <2>3, <2>4 DEF BmtWrite
<1>16. CASE BbtWrite
  <2>1. CASE Unmapped = {} /\ pc' = "failed" /\ UNCHANGED <<flash, bbtBlock, mk, faults>>
    BY <1>16, <2>1 DEF BbtWrite, PCs
  <2>2. ASSUME NEW b \in Pool,
               flash' = Programmed(b, 0, BbtPage(bbt), NoIndex),
               bbtBlock' = b, pc' = "idle", UNCHANGED <<mk, faults>>
        PROVE  TypeOK'
    <3>1. flash' \in [Blocks -> Block]
      BY <2>2, ProgrammedType, PageType, Regions
    <3> QED
      BY <1>16, <2>2, <3>1 DEF BbtWrite, PCs
  <2>3. ASSUME NEW b \in Pool, Fail("program", 1), flash' = Spoilt(b, 0),
               CallMark(b, TRUE, "wbbt"), UNCHANGED bbtBlock
        PROVE  TypeOK'
    <3>1. flash' \in [Blocks -> Block]
      BY <2>3, SpoiltType, Regions
    <3>2. mk' \in MarkCall /\ pc' \in PCs /\ pc' # "copy"
      BY <2>3, CallMarkType, Regions
    <3> QED
      BY <1>16, <2>3, <3>1, <3>2, FailType DEF BbtWrite
  <2> QED
    BY <1>16, <2>1, <2>2, <2>3 DEF BbtWrite
<1>17. CASE Find
  <2>1. table' \in Seq(Entry)
    BY <1>17, UpdateTableType, OpFields DEF Find
  <2>2. op' \in OpType /\ pc' \in PCs /\ (pc' = "copy" => op'.to \in Pool)
    <3>1. CASE UpdateFails
      BY <3>1, UpdateFailsType, OpFields DEF PCs
    <3>2. ASSUME NEW b \in Pool, op' = [op EXCEPT !.to = b, !.k = 1], pc' = "copy"
          PROVE  op' \in OpType /\ op'.to \in Pool
      BY <3>2, OpSetTo, Regions DEF OpType
    <3>3. CASE UNCHANGED op /\ pc' = "wbmt"
      BY <3>3 DEF PCs
    <3> QED
      BY <1>17, <3>1, <3>2, <3>3 DEF Find, PCs
  <2> QED
    BY <1>17, <2>1, <2>2 DEF Find
<1>18. CASE Copy
  <2> DEFINE p == CopyPage(op, op.k)
             v == IF p = op.page THEN op.val ELSE flash[op.bad].page[p]
  <2>1. /\ p \in Pages => v \in Content
        /\ OobIndex(op, p) \in System \cup {NoIndex}
        /\ op.bad \in Blocks /\ op.to \in Pool /\ op.to \in Blocks
    BY <1>18, OpFields, BlockFields, Regions DEF OobIndex, Copy
  <2>2. flash' \in [Blocks -> Block]
    <3>1. Programmed(op.to, p, v, OobIndex(op, p)) \in [Blocks -> Block]
      BY <2>1, ProgrammedType
    <3>2. Spoilt(op.to, p) \in [Blocks -> Block]
      BY <2>1, SpoiltType
    <3> QED
      BY <1>18, <3>1, <3>2 DEF Copy
  <2>3. op' \in OpType
    <3>a. op.k + 1 \in Nat
      BY OpFields
    <3>1. [op EXCEPT !.k = op.k + 1] \in OpType
      BY <3>a, OpSetK
    <3> QED
      BY <1>18, <3>1 DEF Copy
  <2>4. mk' \in MarkCall /\ pc' \in PCs
    BY <1>18, <2>1, CallMarkType DEF Copy, PCs
  <2>5. faults' \in Nat
    BY <1>18, FailType DEF Copy
  <2>6. table' \in Seq(Entry)
    BY <1>18, <2>1, UpdateTableType DEF Copy
  <2>7. op'.to = op.to
    BY <1>18 DEF Copy, OpType
  <2> QED
    BY <1>18, <2>1, <2>2, <2>3, <2>4, <2>5, <2>6, <2>7 DEF Copy
<1>19. CASE MarkOld
  <2>1. op.bad \in Blocks /\ (op.bad \in Pool) \in BOOLEAN
    BY OpFields
  <2>2. mk' \in MarkCall /\ pc' \in PCs /\ pc' # "copy"
    BY <1>19, <2>1, CallMarkType DEF MarkOld
  <2> QED
    BY <1>19, <2>2 DEF MarkOld
<1>20. CASE Done
  <2>1. written' \in [System -> Nat]
    BY <1>20, OpFields, BMTAssumption DEF Done, Pages
  <2>2. op' \in OpType /\ pc' \in PCs /\ pc' # "copy"
    BY <1>20, UpdateReturnsType, OpFields DEF Done, PCs
  <2> QED
    BY <1>20, <2>1, <2>2 DEF Done
<1>21. CASE RecoverCopy
  <2> DEFINE v == IF op.reason = "read" THEN op.val ELSE flash[op.to].page[op.k]
             i == IF op.reason = "read" THEN op.idx ELSE flash[op.to].idx
  <2>1. /\ op.bad \in Blocks /\ op.to \in Blocks
        /\ op.k \in Pages => v \in Content
        /\ i \in System \cup {NoIndex}
    BY OpFields, BlockFields
  <2>2. flash' \in [Blocks -> Block]
    <3>1. Programmed(op.bad, op.k, v, i) \in [Blocks -> Block]
      BY <2>1, ProgrammedType
    <3>2. Spoilt(op.bad, op.k) \in [Blocks -> Block]
      BY <2>1, SpoiltType
    <3> QED
      BY <1>21, <3>1, <3>2 DEF RecoverCopy
  <2>3. op' \in OpType
    <3>1. Recovery(op.bad, op.to, op.lb, op.k + 1) \in OpType
      BY OpFields, OpRecover
    <3> QED
      BY <1>21, <3>1, NoOpType DEF RecoverCopy
  <2>4. faults' \in Nat
    BY <1>21, FailType DEF RecoverCopy
  <2>5. pc' \in PCs /\ pc' # "copy"
    BY <1>21 DEF RecoverCopy, PCs
  <2> QED
    BY <1>21, <2>2, <2>3, <2>4, <2>5 DEF RecoverCopy
<1>20a. CASE RecoverRead
  <2> DEFINE u == UpdateOf(op.to, op.k, "read", flash[op.to].page[op.k], flash[op.to].idx,
                           Total, "recCopy")
  <2>1. op.k \in Pages /\ op.to \in Blocks /\ op.bad \in Blocks /\ op.lb \in Nat
    BY <1>20a, OpFields, BMTAssumption DEF RecoverRead, Pages
  <2>2. flash[op.to].page[op.k] \in Content /\ flash[op.to].idx \in System \cup {NoIndex}
    BY <2>1, BlockFields
  <2>3. u \in OpType
    BY <2>1, <2>2, UpdateOfType, Regions
  <2>4. [u EXCEPT !.recBad = op.bad, !.recEntry = op.lb] \in OpType
    <3> HIDE DEF u
    <3> QED
      BY <2>1, <2>3 DEF OpType
  <2>5. op' \in OpType /\ pc' \in PCs /\ pc' # "copy"
    BY <1>20a, <2>4 DEF RecoverRead, PCs
  <2>6. faults' \in Nat
    BY <1>20a, FailType DEF RecoverRead
  <2> QED
    BY <1>20a, <2>5, <2>6 DEF RecoverRead
<1>22. CASE RecoverFree
  <2>1. op.to \in Blocks /\ op.lb \in Nat
    BY OpFields
  <2>2. flash' \in [Blocks -> Block]
    BY <1>22, <2>1, EraseOfType DEF RecoverFree
  <2>3. table' \in Seq(Entry)
    BY <1>22, <2>1, WithoutType DEF RecoverFree
  <2>4. faults' \in Nat
    BY <1>22, FailType DEF RecoverFree
  <2> QED
    BY <1>22, <2>2, <2>3, <2>4, NoOpType DEF RecoverFree, PCs
<1>23. ASSUME NEW l \in LogicalBlocks, NEW b \in Blocks, EraseBlock(l, b)
       PROVE  TypeOK'
  <2>1. l \in System /\ l \in Nat
    BY LogicalInSystem
  <2>2. UpdateOf(b, 0, "erase", Erased, NoIndex, l, "idle") \in OpType
    BY <2>1, UpdateOfType, BlankType, Regions
  <2>3. op' \in OpType /\ pc' \in PCs /\ pc' # "copy"
    BY <1>23, <2>2, StartUpdateType DEF EraseBlock
  <2>4. flash' \in [Blocks -> Block]
    BY <1>23, EraseOfType DEF EraseBlock
  <2>5. faults' \in Nat
    BY <1>23, FailType DEF EraseBlock
  <2>6. written' \in [System -> Nat] /\ dirty' \in SUBSET System
    BY <1>23, <2>1 DEF EraseBlock
  <2> QED
    BY <1>23, <2>3, <2>4, <2>5, <2>6 DEF EraseBlock
<1>24. ASSUME NEW l \in LogicalBlocks, NEW s \in System, NEW b \in Blocks,
              WritePage(l, s, b)
       PROVE  TypeOK'
  <2> DEFINE p == written[l]
             i == IF b \in Pool THEN s ELSE NoIndex
  <2>1. l \in System /\ l \in Nat
    BY LogicalInSystem
  <2>2. p \in Pages
    BY <1>24, <2>1, BMTAssumption DEF WritePage, Pages
  <2>3. Data(l, p) \in Content /\ i \in System \cup {NoIndex}
    BY <2>1, <2>2, PageType
  <2>4. UpdateOf(b, p, "write", Data(l, p), i, l, "idle") \in OpType
    BY <2>1, <2>2, <2>3, UpdateOfType
  <2>5. op' \in OpType /\ pc' \in PCs /\ pc' # "copy"
    BY <1>24, <2>4, StartUpdateType DEF WritePage
  <2>6. flash' \in [Blocks -> Block]
    <3>1. Programmed(b, p, Data(l, p), i) \in [Blocks -> Block]
      BY <2>3, ProgrammedType
    <3>2. Spoilt(b, p) \in [Blocks -> Block]
      BY SpoiltType
    <3> QED
      BY <1>24, <3>1, <3>2 DEF WritePage
  <2>7. written' \in [System -> Nat] /\ dirty' \in SUBSET System
    <3>1. p + 1 \in Nat
      BY <2>1
    <3>2. [written EXCEPT ![l] = p + 1] \in [System -> Nat]
      BY <3>1
    <3> QED
      BY <1>24, <2>1, <3>2 DEF WritePage
  <2>8. faults' \in Nat
    BY <1>24, FailType DEF WritePage
  <2> QED
    BY <1>24, <2>5, <2>6, <2>7, <2>8 DEF WritePage
<1>25. ASSUME NEW b \in Blocks, NEW p \in Pages, ReadOverThreshold(b, p)
       PROVE  TypeOK'
  <2>1. flash[b].page[p] \in Content /\ flash[b].idx \in System \cup {NoIndex}
    BY BlockFields
  <2>2. UpdateOf(b, p, "read", flash[b].page[p], flash[b].idx, Total, "idle") \in OpType
    BY <2>1, UpdateOfType, Regions
  <2>3. op' \in OpType /\ pc' \in PCs /\ pc' # "copy"
    BY <1>25, <2>2, StartUpdateType DEF ReadOverThreshold
  <2>4. faults' \in Nat
    BY <1>25, FailType DEF ReadOverThreshold
  <2> QED
    BY <1>25, <2>3, <2>4 DEF ReadOverThreshold
<1>26. ASSUME NEW b \in Blocks, MarkBadCommand(b) PROVE TypeOK'
  <2> DEFINE p == PageCount - 1
  <2>1. p \in Pages
    BY BMTAssumption DEF Pages
  <2>2. flash[b].page[p] \in Content /\ flash[b].idx \in System \cup {NoIndex}
    BY <2>1, BlockFields
  <2>3. UpdateOf(b, p, "write", flash[b].page[p], flash[b].idx, Total, "idle") \in OpType
    BY <2>1, <2>2, UpdateOfType, Regions
  <2>4. op' \in OpType /\ pc' \in PCs /\ pc' # "copy"
    BY <1>26, <2>3, StartUpdateType DEF MarkBadCommand
  <2> QED
    BY <1>26, <2>4 DEF MarkBadCommand
<1>27. ASSUME NEW b \in Blocks, RecoverMapped(b) PROVE TypeOK'
  <2>1. op' \in OpType /\ pc' \in PCs /\ pc' # "copy"
    <3>1. PICK i \in DOMAIN table :
             \/ op' = Recovery(b, table[i].mapped, i, 0) /\ pc' = "recCopy"
             \/ UNCHANGED <<op, pc>>
      BY <1>27 DEF RecoverMapped
    <3>2. i \in Nat /\ table[i] \in Entry
      OBVIOUS
    <3>3. table[i].mapped \in Blocks
      BY <3>2, EntryFields, Regions
    <3>4. Recovery(b, table[i].mapped, i, 0) \in OpType
      BY <3>2, <3>3, OpRecover
    <3> QED
      BY <1>27, <3>1, <3>4 DEF RecoverMapped, PCs
  <2>2. flash' \in [Blocks -> Block]
    BY <1>27, EraseOfType DEF RecoverMapped
  <2>3. faults' \in Nat
    BY <1>27, FailType DEF RecoverMapped
  <2> QED
    BY <1>27, <2>1, <2>2, <2>3 DEF RecoverMapped
<1>28. ASSUME NEW b \in Blocks, RecoverPool(b) PROVE TypeOK'
  <2>1. flash' \in [Blocks -> Block]
    BY <1>28, EraseOfType DEF RecoverPool
  <2>2. faults' \in Nat
    BY <1>28, FailType DEF RecoverPool
  <2> QED
    BY <1>28, <2>1, <2>2 DEF RecoverPool
<1>29. CASE PowerLoss
  <2>1. flash' \in [Blocks -> Block]
    BY <1>29, BlankType DEF PowerLoss
  <2>2. table' \in Seq(Entry) /\ pc' \in PCs /\ pc' # "copy" /\ lim' \in Nat
    BY <1>29, Regions DEF PowerLoss, PCs
  <2>3. /\ bmtBlock' \in Pool \cup {0} /\ bbtBlock' \in Pool \cup {0}
        /\ bbt' \in SUBSET System /\ poolErased' \in BOOLEAN
        /\ dirty' \in SUBSET System
    BY <1>29 DEF PowerLoss
  <2>4. op' \in OpType /\ mk' \in MarkCall
    BY <1>29, NoOpType DEF PowerLoss
  <2>5. /\ factory' \in SUBSET Blocks /\ written' \in [System -> Nat]
        /\ faults' \in Nat /\ crashes' \in Nat /\ debugs' \in Nat
    BY <1>29 DEF PowerLoss
  <2> QED
    BY <2>1, <2>2, <2>3, <2>4, <2>5
<1> QED
  BY <1>1, <1>2, <1>3, <1>4, <1>5, <1>6, <1>7, <1>8, <1>9, <1>10, <1>11, <1>12,
     <1>13, <1>14, <1>15, <1>16, <1>17, <1>18, <1>19, <1>20, <1>21, <1>22, <1>23,
     <1>24, <1>25, <1>26, <1>27, <1>28, <1>29, <1>20a
     DEF Next, Boot, Update, Recover, User, Console

\* Spec => []TypeOK: the loads at boot, the failures and the power losses leave the
\* tables of bmt.c well formed.
THEOREM TypeCorrect == Spec => []TypeOK
BY TypeInit, TypeStep, PTL DEF Spec

-----------------------------------------------------------------------------
(* The RAW marks of the pool.  PoolStable is not inductive: a pool block that  *)
(* carries such a mark must never be one that the code erases or marks, and    *)
(* those come from the table, from the tables found on flash, from the         *)
(* reserved blocks and from the operation in progress.                         *)

NotFactory(b) == b \in Pool => b \notin factory

TableClear(t) == \A i \in DOMAIN t : t[i].mapped \notin factory

FlashClear(f) ==
    /\ \A b \in Pool : f[b].raw <=> b \in factory
    /\ \A b \in Blocks, p \in Pages : TableClear(f[b].page[p].tab)

OpClear == /\ TableClear(op.val.tab) /\ NotFactory(op.bad) /\ NotFactory(op.to)
           /\ NotFactory(op.recBad)

MarkClear == NotFactory(mk.blk) /\ (mk.blk \in Pool => mk.later)

PoolInv ==
    /\ FlashClear(flash)
    /\ SysCount \notin factory
    /\ TableClear(table)
    /\ NotFactory(bmtBlock)
    /\ OpClear
    /\ MarkClear

\* The values without a table are clear.
LEMMA BlankClear ==
    /\ TableClear(<<>>)
    /\ TableClear(Erased.tab) /\ TableClear(Garbage.tab)
    /\ \A l, p : TableClear(Data(l, p).tab)
    /\ \A s : TableClear(BbtPage(s).tab)
    /\ \A t : BmtPage(t).tab = t
    /\ ~Blank.raw /\ \A p \in Pages : Blank.page[p] = Erased
BY DEF TableClear, Erased, Garbage, Data, BbtPage, BmtPage, Blank

\* A block that can be used carries no RAW mark.
LEMMA UsableNotFactory ==
    ASSUME FlashClear(flash), NEW b \in Pool, ~Bad(b)
    PROVE  b \notin factory
BY DEF FlashClear, Bad

\* The pool is found where it was.
LEMMA PoolFound ==
    ASSUME FlashClear(flash), SysCount \notin factory
    PROVE  PoolStart(SysCount)
<1>1. SysCount \in Pool /\ SysCount..(Total - 1) = Pool
  BY BMTAssumption DEF Pool, Total
<1>2. {c \in Pool : ~flash[c].raw} = Pool \ factory
  BY DEF FlashClear
<1> QED
  BY <1>1, <1>2 DEF PoolStart, FlashClear

\* The erase of a block without a factory mark changes no RAW mark of the pool.
LEMMA EraseClear ==
    ASSUME flash \in [Blocks -> Block], FlashClear(flash), NEW b \in Blocks, NotFactory(b)
    PROVE  FlashClear(EraseOf(b))
BY BlankClear, Regions DEF FlashClear, EraseOf, NotFactory

\* A program that succeeds leaves the marks alone, and writes a clear page.
LEMMA ProgrammedClear ==
    ASSUME flash \in [Blocks -> Block], FlashClear(flash), NEW b \in Blocks, NEW p, NEW v,
           p \in Pages => TableClear(v.tab), NEW i
    PROVE  FlashClear(Programmed(b, p, v, i))
<1> DEFINE g == Programmed(b, p, v, i)
<1>1. \A c \in Blocks : g[c].raw = flash[c].raw
  BY DEF Programmed, Block
<1>2. ASSUME NEW c \in Blocks, NEW q \in Pages PROVE TableClear(g[c].page[q].tab)
  <2>1. \/ g[c].page[q] = flash[c].page[q]
        \/ q = p /\ g[c].page[q] = v
        \/ g[c].page[q] = Garbage
    BY DEF Programmed, Block
  <2> QED
    BY <2>1, BlankClear DEF FlashClear
<1> QED
  BY <1>1, <1>2, Regions DEF FlashClear

\* A program that fails leaves the marks alone.
LEMMA SpoiltClear ==
    ASSUME flash \in [Blocks -> Block], FlashClear(flash), NEW b \in Blocks, NEW p
    PROVE  FlashClear(Spoilt(b, p))
<1> DEFINE g == Spoilt(b, p)
<1>1. \A c \in Blocks : g[c].raw = flash[c].raw
  BY DEF Spoilt, Block
<1>2. ASSUME NEW c \in Blocks, NEW q \in Pages PROVE TableClear(g[c].page[q].tab)
  <2>1. g[c].page[q] = flash[c].page[q] \/ g[c].page[q] = Garbage
    BY DEF Spoilt, Block
  <2> QED
    BY <2>1, BlankClear DEF FlashClear
<1> QED
  BY <1>1, <1>2, Regions DEF FlashClear

\* A mark on a block outside the pool leaves the pool as it was.
LEMMA MarkedClear ==
    ASSUME flash \in [Blocks -> Block], FlashClear(flash), NEW b \in Blocks
    PROVE  /\ FlashClear([flash EXCEPT ![b].later = TRUE])
           /\ b \notin Pool => FlashClear([flash EXCEPT ![b].raw = TRUE])
BY Regions DEF FlashClear, Block

\* update_bmt maps to a block without a factory mark.
LEMMA UpdateTableClear ==
    ASSUME table \in Seq(Entry), TableClear(table), NEW bad \in Blocks, NEW to \in Pool,
           to \notin factory, UpdateTable(bad, to), UNCHANGED factory
    PROVE  TableClear(table)'
<1>1. CASE bad \in System
  BY <1>1, EntryType DEF UpdateTable, TableClear
<1>2. CASE bad \notin System
  <2>1. CASE UNCHANGED table
    BY <2>1 DEF TableClear
  <2>2. ASSUME NEW i \in DOMAIN table, table' = [table EXCEPT ![i].mapped = to]
        PROVE  TableClear(table)'
    BY <2>2 DEF TableClear, Entry
  <2> QED
    BY <1>2, <2>1, <2>2 DEF UpdateTable
<1> QED
  BY <1>1, <1>2

\* Taking an entry out of a clear table leaves it clear.
LEMMA WithoutClear ==
    ASSUME NEW t \in Seq(Entry), NEW i \in Nat, TableClear(t)
    PROVE  TableClear(Without(t, i))
BY DEF TableClear, Without

\* The chip as it is delivered satisfies the invariant of the pool.
LEMMA PoolInit == Init => PoolInv
<1> SUFFICES ASSUME Init PROVE PoolInv
  OBVIOUS
<1>1. \A b \in Blocks : /\ flash[b].raw <=> b \in factory
                        /\ flash[b].page = Blank.page
  BY DEF Init, Blank
<1>2. FlashClear(flash)
  BY <1>1, BlankClear, Regions DEF FlashClear
<1>3. /\ TableClear(table) /\ TableClear(op.val.tab)
      /\ bmtBlock = 0 /\ op.bad = 0 /\ op.to = 0 /\ op.recBad = 0 /\ mk.blk = 0
  BY BlankClear DEF Init, NoOp, NoMark
<1>4. SysCount \notin factory
  BY DEF Init
<1> QED
  BY <1>2, <1>3, <1>4, Regions DEF PoolInv, OpClear, MarkClear, NotFactory

\* A mark call that keeps to the rule, and an update of a usable block.
LEMMA CallMarkClear ==
    ASSUME NEW b, NEW isLater \in BOOLEAN, NEW next, CallMark(b, isLater, next),
           NotFactory(b), b \in Pool => isLater, UNCHANGED factory
    PROVE  MarkClear'
BY DEF CallMark, MarkClear, NotFactory

\* An update of a usable block keeps to the rule.
LEMMA StartUpdateClear ==
    ASSUME PoolInv, NEW b, NEW p, NEW r, NEW v, NEW i, NEW l, NEW a,
           StartUpdate(UpdateOf(b, p, r, v, i, l, a)),
           NotFactory(b), TableClear(v.tab), UNCHANGED factory
    PROVE  OpClear'
<1>1. CASE UNCHANGED op
  BY <1>1 DEF PoolInv, OpClear, NotFactory, TableClear
<1>2. CASE op' = UpdateOf(b, p, r, v, i, l, a)
  BY <1>2, Regions DEF UpdateOf, OpClear, NotFactory, TableClear
<1> QED
  BY <1>1, <1>2 DEF StartUpdate

\* What an action leaves alone, resets, or sets to something clear stays clear.
LEMMA Frame ==
    ASSUME PoolInv, UNCHANGED factory
    PROVE  /\ UNCHANGED flash => FlashClear(flash)'
           /\ UNCHANGED table => TableClear(table)'
           /\ UNCHANGED bmtBlock => NotFactory(bmtBlock)'
           /\ UNCHANGED op => OpClear'
           /\ UNCHANGED mk => MarkClear'
           /\ table' = <<>> => TableClear(table)'
           /\ bmtBlock' = 0 => NotFactory(bmtBlock)'
           /\ op' = NoOp => OpClear'
           /\ mk' = NoMark => MarkClear'
           /\ \A f : FlashClear(f) /\ flash' = f => FlashClear(flash)'
           /\ \A t : TableClear(t) /\ table' = t => TableClear(table)'
<1>1. /\ UNCHANGED flash => FlashClear(flash)'
      /\ \A f : FlashClear(f) /\ flash' = f => FlashClear(flash)'
  BY DEF PoolInv, FlashClear, TableClear
<1>2. /\ UNCHANGED table => TableClear(table)'
      /\ table' = <<>> => TableClear(table)'
      /\ \A t : TableClear(t) /\ table' = t => TableClear(table)'
  BY DEF PoolInv, TableClear
<1>3. /\ UNCHANGED bmtBlock => NotFactory(bmtBlock)'
      /\ bmtBlock' = 0 => NotFactory(bmtBlock)'
  BY Regions DEF PoolInv, NotFactory
<1>4. /\ UNCHANGED op => OpClear'
      /\ op' = NoOp => OpClear'
  BY Regions DEF PoolInv, OpClear, NotFactory, TableClear, NoOp, Erased
<1>5. /\ UNCHANGED mk => MarkClear'
      /\ mk' = NoMark => MarkClear'
  BY Regions DEF PoolInv, MarkClear, NotFactory, NoMark
<1> QED
  BY <1>1, <1>2, <1>3, <1>4, <1>5

\* Only a boot that does not find the pool is stuck.
LEMMA OnlyPowerOnMoves ==
    ASSUME TypeOK, pc # "moved", [Next]_vars
    PROVE  PowerOn \/ pc' # "moved"
<1>1. CASE UNCHANGED vars
  BY <1>1 DEF vars, ctlVars
<1>2. CASE Boot
  <2>1. CASE \E b \in Pool : BootReadOverThreshold(b)
    BY <2>1 DEF BootReadOverThreshold, StartUpdate
  <2> QED
    BY <1>2, <2>1 DEF Boot, LoadBmt, Remark, Reconstruct, LoadBbt, SaveBmt, SaveBbt, CallMark
<1>3. CASE Update
  <2>1. CASE MarkErase \/ MarkWrite \/ PoolErase
    BY <2>1, MarkFields DEF MarkErase, MarkWrite, PoolErase, ctlVars, TypeOK
  <2>2. CASE BmtFind \/ BmtErase \/ BmtWrite
    BY <2>2, OpFields, UpdateFailsType DEF BmtFind, BmtErase, BmtWrite, GiveUpBmt, CallMark, TypeOK
  <2>3. CASE BbtWrite \/ Find \/ Copy
    BY <2>3, OpFields, UpdateFailsType DEF BbtWrite, Find, Copy, CallMark, TypeOK
  <2>4. CASE MarkOld \/ Done
    BY <2>4, OpFields DEF MarkOld, Done, UpdateReturns, CallMark, TypeOK
  <2> QED
    BY <1>3, <2>1, <2>2, <2>3, <2>4 DEF Update
<1>4. CASE Recover
  BY <1>4 DEF Recover, RecoverRead, RecoverCopy, RecoverFree
<1>5. CASE User
  BY <1>5 DEF User, EraseBlock, WritePage, ReadOverThreshold, StartUpdate
<1>6. CASE Console
  BY <1>6 DEF Console, MarkBadCommand, RecoverMapped, RecoverPool, StartUpdate, ctlVars
<1>7. CASE PowerLoss
  BY <1>7 DEF PowerLoss
<1> QED
  BY <1>1, <1>2, <1>3, <1>4, <1>5, <1>6, <1>7 DEF Next

\* The block that a logical block is at carries no RAW mark if it is in the pool.
LEMMA ByBmtClear ==
    ASSUME TypeOK, PoolInv, NEW s \in System, NEW b, ByBmt(s, b)
    PROVE  NotFactory(b)
BY Regions DEF ByBmt, PoolInv, NotFactory, TableClear

\* A recovery goes on with clear blocks and a clear page.
LEMMA UpdateReturnsClear ==
    ASSUME PoolInv, NEW v, NEW i, TableClear(v.tab), UNCHANGED factory, UpdateReturns(v, i)
    PROVE  OpClear'
<1> DEFINE r == Recovery(op.recBad, op.bad, op.recEntry, op.page)
<1>1. CASE op' = NoOp
  BY <1>1, Frame
<1>2. CASE op' = [r EXCEPT !.reason = "read", !.val = v, !.idx = i]
  <2>1. op'.val = v /\ op'.bad = op.recBad /\ op'.to = op.bad /\ op'.recBad = 0
    BY <1>2 DEF Recovery, NoOp
  <2> QED
    BY <2>1, Regions DEF PoolInv, OpClear, NotFactory, TableClear
<1> QED
  BY <1>1, <1>2 DEF UpdateReturns

\* So it does after a failure.
LEMMA UpdateFailsClear ==
    ASSUME TypeOK, PoolInv, UNCHANGED factory, UpdateFails
    PROVE  OpClear'
<1>1. PICK v \in {flash[op.bad].page[p] : p \in Pages} \cup {BmtPage(table), Garbage},
           i \in System \cup {NoIndex} : UpdateReturns(v, i)
  BY DEF UpdateFails
<1>2. TableClear(v.tab)
  BY BlankClear, OpFields DEF PoolInv, FlashClear, TypeOK
<1> QED
  BY <1>1, <1>2, UpdateReturnsClear

\* Every step keeps the invariant of the pool.
LEMMA PoolStep ==
    ASSUME DebugBlocks \cap Pool = {}, TypeOK, PoolInv, [Next]_vars
    PROVE  PoolInv'
<1> USE DEF flashVars, ramVars, ctlVars, ghostVars, boundVars
<1>1. CASE UNCHANGED vars
  BY <1>1, Frame DEF vars, PoolInv
<1>2. CASE PowerOn
  BY <1>2, Frame DEF PowerOn, PoolInv
<1>3. CASE LoadBmt
  <2>1. ASSUME NEW b \in Pool, LastOf(b, {c \in Pool : HoldsBmt(c)})
        PROVE  b \notin factory /\ TableClear(flash[b].page[0].tab)
    BY <2>1, UsableNotFactory, Regions DEF LastOf, HoldsBmt, PoolInv, FlashClear
  <2>2. TableClear(table)' /\ NotFactory(bmtBlock)'
    BY <1>3, <2>1, Frame DEF LoadBmt, NotFactory
  <2>3. OpClear'
    BY <1>3, Frame, BlankClear, Regions DEF LoadBmt, OpClear, NoOp, NotFactory, TableClear
  <2> QED
    BY <1>3, <2>2, <2>3, Frame DEF LoadBmt, PoolInv
<1>4. CASE Remark
  <2>1. OpClear'
    BY <1>4, Frame DEF Remark, PoolInv, OpClear, NotFactory, TableClear, TypeOK, OpType
  <2>2. MarkClear'
    <3>1. ASSUME op.k < Len(table) PROVE table[op.k + 1].bad \notin Pool
      <4>1. table[op.k + 1] \in Entry
        BY <3>1, OpFields DEF TypeOK
      <4> QED
        BY <4>1, EntryFields, Regions
    <3> QED
      BY <1>4, <3>1, CallMarkClear, Frame DEF Remark, NotFactory
  <2> QED
    BY <1>4, <2>1, <2>2, Frame DEF Remark, PoolInv
<1>5. CASE Reconstruct
  <2>1. ASSUME op.k \in Pool, ~Bad(op.k), flash[op.k].idx \in System,
               table' = Append(table, [bad |-> flash[op.k].idx, mapped |-> op.k])
        PROVE  TableClear(table)'
    <3>1. op.k \notin factory
      BY <2>1, UsableNotFactory DEF PoolInv
    <3>2. UNCHANGED factory
      BY <1>5 DEF Reconstruct
    <3> QED
      BY <2>1, <3>1, <3>2, EntryType DEF TableClear, PoolInv, TypeOK
  <2>2. TableClear(table)'
    BY <1>5, <2>1, Frame DEF Reconstruct
  <2>3. OpClear'
    BY <1>5, Frame DEF Reconstruct, PoolInv, OpClear, NotFactory, TableClear, TypeOK, OpType
  <2>4. MarkClear'
    <3>1. ASSUME flash[op.k].idx \in System, CallMark(flash[op.k].idx, FALSE, "rebuild"),
                 UNCHANGED factory
          PROVE  MarkClear'
      BY <3>1, CallMarkClear, Regions DEF NotFactory
    <3>2. UNCHANGED factory
      BY <1>5 DEF Reconstruct
    <3>3. UNCHANGED mk \/ (flash[op.k].idx \in System /\ CallMark(flash[op.k].idx, FALSE, "rebuild"))
      BY <1>5 DEF Reconstruct
    <3> QED
      BY <3>1, <3>2, <3>3, Frame
  <2> QED
    BY <1>5, <2>2, <2>3, <2>4, Frame DEF Reconstruct, PoolInv
<1>6. CASE LoadBbt
  BY <1>6, Frame DEF LoadBbt, PoolInv
<1>7. CASE SaveBmt
  <2>1. OpClear'
    BY <1>7, Frame, Regions, BlankClear DEF SaveBmt, OpClear, NoOp, NotFactory, TableClear
  <2> QED
    BY <1>7, <2>1, Frame DEF SaveBmt, PoolInv
<1>8. CASE SaveBbt
  BY <1>8, Frame DEF SaveBbt, PoolInv
<1>9. ASSUME NEW b \in Pool, BootReadOverThreshold(b) PROVE PoolInv'
  <2>1. NotFactory(b) /\ TableClear(flash[b].page[0].tab)
    BY <1>9, UsableNotFactory, Regions DEF BootReadOverThreshold, NotFactory, PoolInv, FlashClear
  <2>2. OpClear'
    BY <1>9, <2>1, StartUpdateClear DEF BootReadOverThreshold
  <2> QED
    BY <1>9, <2>2, Frame DEF BootReadOverThreshold, PoolInv
<1>10. CASE MarkErase
  <2>1. FlashClear(EraseOf(mk.blk))
    BY EraseClear, MarkFields DEF TypeOK, PoolInv, MarkClear
  <2> QED
    BY <1>10, <2>1, Frame DEF MarkErase, PoolInv
<1>11. CASE MarkWrite
  <2>1. /\ FlashClear([flash EXCEPT ![mk.blk].later = TRUE])
        /\ ~mk.later => FlashClear([flash EXCEPT ![mk.blk].raw = TRUE])
    BY MarkedClear, MarkFields DEF TypeOK, PoolInv, MarkClear
  <2> QED
    BY <1>11, <2>1, Frame DEF MarkWrite, PoolInv
<1>12. CASE PoolErase
  <2>a. PICK failed \in SUBSET Unmapped : \E kept \in SUBSET failed, unmarked \in SUBSET failed :
           /\ unmarked # {} => "mark" \in FaultKinds
           /\ \/ failed = {} /\ UNCHANGED faults
              \/ failed # {} /\ Fail("erase", Cardinality(failed))
           /\ flash' = [b \in Blocks |->
                        IF b \in kept THEN [flash[b] EXCEPT !.later = b \notin unmarked]
                        ELSE IF b \in Unmapped
                             THEN [Blank EXCEPT !.later = b \in failed \ unmarked]
                             ELSE flash[b]]
    BY <1>12, Zenon DEF PoolErase
  <2>1. PICK kept \in SUBSET failed, unmarked \in SUBSET failed :
           /\ unmarked # {} => "mark" \in FaultKinds
           /\ \/ failed = {} /\ UNCHANGED faults
              \/ failed # {} /\ Fail("erase", Cardinality(failed))
           /\ flash' = [b \in Blocks |->
                        IF b \in kept THEN [flash[b] EXCEPT !.later = b \notin unmarked]
                        ELSE IF b \in Unmapped
                             THEN [Blank EXCEPT !.later = b \in failed \ unmarked]
                             ELSE flash[b]]
    BY <2>a, Zenon
  <2>2. \A b \in Unmapped : b \in Pool /\ b \notin factory
    BY UsableNotFactory DEF Unmapped, PoolInv
  <2>3. \A x \in Block, t \in BOOLEAN : /\ [x EXCEPT !.later = t].raw = x.raw
                                       /\ [x EXCEPT !.later = t].page = x.page
    BY DEF Block
  <2>4. FlashClear(flash)'
    <3>1. UNCHANGED factory
      BY <1>12 DEF PoolErase
    <3>2. ASSUME NEW b \in Pool PROVE flash'[b].raw <=> b \in factory
      BY <2>1, <2>2, <2>3, BlankClear, Regions DEF PoolInv, FlashClear
    <3>3. ASSUME NEW b \in Blocks, NEW p \in Pages PROVE TableClear(flash'[b].page[p].tab)
      BY <2>1, <2>3, BlankClear DEF PoolInv, FlashClear
    <3> QED
      BY <3>1, <3>2, <3>3 DEF FlashClear, TableClear
  <2> QED
    BY <1>12, <2>4, Frame DEF PoolErase, PoolInv
<1>13. CASE BmtFind
  <2>1. \A b \in Unmapped : b \notin factory
    BY UsableNotFactory DEF Unmapped, PoolInv
  <2>2. NotFactory(bmtBlock)'
    BY <1>13, <2>1, Frame DEF BmtFind, LastOf, NotFactory
  <2>3. OpClear'
    BY <1>13, UpdateFailsClear, Frame DEF BmtFind
  <2> QED
    BY <1>13, <2>2, <2>3, Frame DEF BmtFind, PoolInv
<1>14. CASE BmtErase
  <2>1. bmtBlock \in Blocks /\ NotFactory(bmtBlock)
    BY Regions DEF TypeOK, PoolInv
  <2>2. FlashClear(EraseOf(bmtBlock))
    BY <2>1, EraseClear DEF TypeOK, PoolInv
  <2>3. MarkClear' /\ NotFactory(bmtBlock)'
    BY <1>14, <2>1, CallMarkClear, Frame DEF BmtErase, GiveUpBmt
  <2> QED
    BY <1>14, <2>2, <2>3, Frame DEF BmtErase, PoolInv
<1>15. CASE BmtWrite
  <2>1. bmtBlock \in Blocks /\ NotFactory(bmtBlock)
    BY Regions DEF TypeOK, PoolInv
  <2>2. FlashClear(Programmed(bmtBlock, 0, BmtPage(table), NoIndex))
    BY <2>1, ProgrammedClear, BlankClear DEF TypeOK, PoolInv
  <2>3. FlashClear(Spoilt(bmtBlock, 0))
    BY <2>1, SpoiltClear DEF TypeOK, PoolInv
  <2>4. MarkClear' /\ NotFactory(bmtBlock)'
    BY <1>15, <2>1, CallMarkClear, Frame DEF BmtWrite, GiveUpBmt
  <2> QED
    BY <1>15, <2>2, <2>3, <2>4, Frame DEF BmtWrite, PoolInv
<1>16. CASE BbtWrite
  <2>1. ASSUME NEW b \in Pool, FirstOf(b, Unmapped)
        PROVE  /\ NotFactory(b)
               /\ FlashClear(Programmed(b, 0, BbtPage(bbt), NoIndex))
               /\ FlashClear(Spoilt(b, 0))
    <3>1. NotFactory(b)
      BY <2>1, UsableNotFactory DEF FirstOf, Unmapped, NotFactory, PoolInv
    <3>2. FlashClear(Programmed(b, 0, BbtPage(bbt), NoIndex))
      BY ProgrammedClear, BlankClear, Regions DEF TypeOK, PoolInv
    <3>3. FlashClear(Spoilt(b, 0))
      BY SpoiltClear, Regions DEF TypeOK, PoolInv
    <3> QED
      BY <3>1, <3>2, <3>3
  <2>2. FlashClear(flash)'
    BY <1>16, <2>1, Frame DEF BbtWrite
  <2>3. MarkClear'
    BY <1>16, <2>1, Frame, CallMarkClear DEF BbtWrite
  <2> QED
    BY <1>16, <2>2, <2>3, Frame DEF BbtWrite, PoolInv
<1>17. CASE Find
  <2>1. ASSUME NEW b \in Pool, FirstOf(b, Unmapped) PROVE b \notin factory
    BY <2>1, UsableNotFactory DEF FirstOf, Unmapped, PoolInv
  <2>2. TableClear(table)'
    BY <1>17, <2>1, UpdateTableClear, Frame, OpFields DEF Find, TypeOK, PoolInv
  <2>3. OpClear'
    <3>1. ASSUME NEW b \in Pool, FirstOf(b, Unmapped), op' = [op EXCEPT !.to = b, !.k = 1],
                 UNCHANGED factory
          PROVE  OpClear'
      BY <2>1, <3>1 DEF PoolInv, OpClear, NotFactory, TableClear, TypeOK, OpType
    <3> QED
      BY <1>17, <3>1, UpdateFailsClear, Frame DEF Find
  <2> QED
    BY <1>17, <2>2, <2>3, Frame DEF Find, PoolInv
<1>18. CASE Copy
  <2> DEFINE p == CopyPage(op, op.k)
             v == IF p = op.page THEN op.val ELSE flash[op.bad].page[p]
  <2>1. op.bad \in Blocks /\ op.to \in Pool /\ op.to \in Blocks /\ op.to \notin factory
    BY <1>18, OpFields, Regions DEF Copy, TypeOK, PoolInv, OpClear, NotFactory
  <2>2. FlashClear(Programmed(op.to, p, v, OobIndex(op, p)))
    <3>1. p \in Pages => TableClear(v.tab)
      BY <2>1 DEF PoolInv, OpClear, FlashClear
    <3> QED
      BY <2>1, <3>1, ProgrammedClear DEF TypeOK, PoolInv
  <2>3. FlashClear(Spoilt(op.to, p))
    BY <2>1, SpoiltClear DEF TypeOK, PoolInv
  <2>4. FlashClear(flash)'
    BY <1>18, <2>2, <2>3, Frame DEF Copy
  <2>5. TableClear(table)'
    BY <1>18, <2>1, UpdateTableClear, Frame DEF Copy, TypeOK, PoolInv
  <2>6. OpClear'
    BY <1>18, Frame DEF Copy, PoolInv, OpClear, NotFactory, TableClear, TypeOK, OpType
  <2>7. MarkClear'
    BY <1>18, <2>1, CallMarkClear, Frame DEF Copy, NotFactory
  <2> QED
    BY <1>18, <2>4, <2>5, <2>6, <2>7, Frame DEF Copy, PoolInv
<1>19. CASE MarkOld
  <2>1. NotFactory(op.bad) /\ (op.bad \in Pool) \in BOOLEAN
    BY DEF PoolInv, OpClear
  <2>2. MarkClear'
    BY <1>19, <2>1, CallMarkClear DEF MarkOld
  <2> QED
    BY <1>19, <2>2, Frame DEF MarkOld, PoolInv
<1>20. CASE Done
  <2>1. OpClear'
    BY <1>20, UpdateReturnsClear DEF Done, PoolInv, OpClear
  <2> QED
    BY <1>20, <2>1, Frame DEF Done, PoolInv
<1>20a. CASE RecoverRead
  <2>1. op.to \in Blocks /\ op.k \in Pages
    BY <1>20a, OpFields, BMTAssumption DEF RecoverRead, TypeOK, Pages
  <2>2. /\ op'.val = flash[op.to].page[op.k] /\ op'.bad = op.to /\ op'.to = 0
        /\ op'.recBad = op.bad
    BY <1>20a DEF RecoverRead, UpdateOf
  <2>3. TableClear(op'.val.tab)
    BY <2>1, <2>2 DEF PoolInv, FlashClear
  <2>4. UNCHANGED <<factory, table>>
    BY <1>20a DEF RecoverRead
  <2>5. /\ NotFactory(op.to) /\ NotFactory(op.bad)
        /\ NotFactory(0)
    BY Regions DEF PoolInv, OpClear, NotFactory
  <2>6. OpClear'
    BY <2>2, <2>3, <2>4, <2>5 DEF OpClear, NotFactory, TableClear
  <2> QED
    BY <1>20a, <2>6, Frame DEF RecoverRead, PoolInv
<1>21. CASE RecoverCopy
  <2> DEFINE v == IF op.reason = "read" THEN op.val ELSE flash[op.to].page[op.k]
             i == IF op.reason = "read" THEN op.idx ELSE flash[op.to].idx
  <2>1. op.bad \in Blocks /\ op.to \in Blocks
    BY OpFields DEF TypeOK
  <2>2. FlashClear(Programmed(op.bad, op.k, v, i))
    <3>1. op.k \in Pages => TableClear(v.tab)
      BY <2>1 DEF PoolInv, FlashClear, OpClear
    <3>2. NotFactory(op.bad)
      BY DEF PoolInv, OpClear
    <3> QED
      BY <2>1, <3>1, <3>2, ProgrammedClear DEF TypeOK, PoolInv
  <2>3. FlashClear(Spoilt(op.bad, op.k))
    BY <2>1, SpoiltClear DEF TypeOK, PoolInv
  <2>4. FlashClear(flash)'
    BY <1>21, <2>2, <2>3, Frame DEF RecoverCopy
  <2>5. OpClear'
    <3>1. CASE op' = NoOp
      BY <1>21, <3>1, Frame DEF RecoverCopy
    <3>2. CASE op' = Recovery(op.bad, op.to, op.lb, op.k + 1)
      BY <1>21, <3>2, RecoveryFields, BlankClear, Regions
         DEF RecoverCopy, PoolInv, OpClear, NotFactory, TableClear
    <3> QED
      BY <1>21, <3>1, <3>2 DEF RecoverCopy
  <2> QED
    BY <1>21, <2>4, <2>5, Frame DEF RecoverCopy, PoolInv
<1>22. CASE RecoverFree
  <2>1. op.to \in Blocks /\ op.lb \in Nat /\ NotFactory(op.to)
    BY OpFields DEF TypeOK, PoolInv, OpClear
  <2>2. FlashClear(flash)'
    BY <1>22, <2>1, EraseClear, Frame DEF RecoverFree, TypeOK, PoolInv
  <2>3. TableClear(table)'
    BY <1>22, <2>1, WithoutClear, Frame DEF RecoverFree, TypeOK, PoolInv
  <2> QED
    BY <1>22, <2>2, <2>3, Frame DEF RecoverFree, PoolInv
<1>23. ASSUME NEW l \in LogicalBlocks, NEW s \in System, NEW b \in Blocks,
              get_mapping_block_index(l, s, b), EraseBlock(l, b)
       PROVE  PoolInv'
  <2>1. NotFactory(b)
    BY <1>23, ByBmtClear DEF get_mapping_block_index
  <2>2. FlashClear(flash)'
    BY <1>23, <2>1, EraseClear, Frame DEF EraseBlock, TypeOK, PoolInv
  <2>3. OpClear'
    BY <1>23, <2>1, StartUpdateClear, BlankClear, Frame DEF EraseBlock
  <2> QED
    BY <1>23, <2>2, <2>3, Frame DEF EraseBlock, PoolInv
<1>24. ASSUME NEW l \in LogicalBlocks, NEW s \in System, NEW b \in Blocks,
              get_mapping_block_index(l, s, b), WritePage(l, s, b)
       PROVE  PoolInv'
  <2> DEFINE p == written[l]
             i == IF b \in Pool THEN s ELSE NoIndex
  <2>1. NotFactory(b)
    BY <1>24, ByBmtClear DEF get_mapping_block_index
  <2>2. FlashClear(Programmed(b, p, Data(l, p), i))
    BY ProgrammedClear, BlankClear DEF TypeOK, PoolInv
  <2>3. FlashClear(Spoilt(b, p))
    BY SpoiltClear DEF TypeOK, PoolInv
  <2>4. FlashClear(flash)'
    BY <1>24, <2>2, <2>3, Frame DEF WritePage
  <2>5. OpClear'
    BY <1>24, <2>1, StartUpdateClear, BlankClear, Frame DEF WritePage
  <2> QED
    BY <1>24, <2>4, <2>5, Frame DEF WritePage, PoolInv
<1>25. ASSUME NEW l \in LogicalBlocks, NEW s \in System, NEW b \in Blocks, NEW p \in Pages,
              get_mapping_block_index(l, s, b), ReadOverThreshold(b, p)
       PROVE  PoolInv'
  <2>1. NotFactory(b) /\ TableClear(flash[b].page[p].tab)
    BY <1>25, ByBmtClear DEF get_mapping_block_index, PoolInv, FlashClear
  <2>2. OpClear'
    BY <1>25, <2>1, StartUpdateClear DEF ReadOverThreshold
  <2> QED
    BY <1>25, <2>2, Frame DEF ReadOverThreshold, PoolInv
<1>26. ASSUME NEW b \in Blocks, MarkBadCommand(b) PROVE PoolInv'
  <2> DEFINE p == PageCount - 1
  <2>1. p \in Pages
    BY BMTAssumption DEF Pages
  <2>2. NotFactory(b) /\ TableClear(flash[b].page[p].tab)
    BY <1>26, <2>1, UsableNotFactory DEF MarkBadCommand, NotFactory, PoolInv, FlashClear
  <2>3. OpClear'
    BY <1>26, <2>2, StartUpdateClear DEF MarkBadCommand
  <2> QED
    BY <1>26, <2>3, Frame DEF MarkBadCommand, PoolInv
<1>27. ASSUME NEW b \in Blocks, RecoverMapped(b) PROVE PoolInv'
  <2>1. PICK i \in DOMAIN table :
           /\ LastOf(i, {j \in DOMAIN table : table[j].bad = b})
           /\ \/ /\ flash' = EraseOf(b)
                 /\ op' = Recovery(b, table[i].mapped, i, 0)
              \/ UNCHANGED <<flash, op>>
    BY <1>27 DEF RecoverMapped
  <2>2. table[i] \in Entry /\ table[i].bad = b /\ table[i].mapped \notin factory
    BY <2>1 DEF LastOf, TypeOK, PoolInv, TableClear
  <2>3. b \notin Pool
    BY <2>2, EntryFields, Regions
  <2>4. FlashClear(flash)'
    BY <1>27, <2>1, <2>3, EraseClear, Frame DEF RecoverMapped, TypeOK, PoolInv, NotFactory
  <2>5. OpClear'
    <3>1. CASE UNCHANGED op
      BY <1>27, <3>1, Frame DEF RecoverMapped
    <3>2. CASE op' = Recovery(b, table[i].mapped, i, 0)
      <4>1. op'.bad = b /\ op'.to = table[i].mapped /\ op'.val = Erased /\ op'.recBad = 0
        BY <3>2, RecoveryFields
      <4> QED
        BY <1>27, <2>2, <2>3, <4>1, Regions DEF RecoverMapped, OpClear, NotFactory, TableClear, Erased
    <3> QED
      BY <2>1, <3>1, <3>2
  <2> QED
    BY <1>27, <2>4, <2>5, Frame DEF RecoverMapped, PoolInv
<1>28. ASSUME NEW b \in Blocks, RecoverPool(b) PROVE PoolInv'
  BY <1>28, BMTAssumption DEF RecoverPool, Pool, Blocks, Total
<1>29. CASE PowerLoss
  <2>1. PICK done \in SUBSET Unmapped :
          flash' = [b \in Blocks |-> IF b \in done THEN Blank ELSE flash[b]]
    BY <1>29 DEF PowerLoss
  <2>2. \A b \in Unmapped : b \in Pool /\ b \notin factory
    BY UsableNotFactory DEF Unmapped, PoolInv
  <2>3. FlashClear(flash)'
    <3>1. UNCHANGED factory
      BY <1>29 DEF PowerLoss
    <3>2. ASSUME NEW b \in Pool PROVE flash'[b].raw <=> b \in factory
      BY <2>1, <2>2, BlankClear, Regions DEF PoolInv, FlashClear
    <3>3. ASSUME NEW b \in Blocks, NEW p \in Pages PROVE TableClear(flash'[b].page[p].tab)
      BY <2>1, BlankClear DEF PoolInv, FlashClear
    <3> QED
      BY <3>1, <3>2, <3>3 DEF FlashClear, TableClear
  <2> QED
    BY <1>29, <2>3, Frame DEF PowerLoss, PoolInv
<1> QED
  BY <1>1, <1>2, <1>3, <1>4, <1>5, <1>6, <1>7, <1>8, <1>9, <1>10, <1>11, <1>12,
     <1>13, <1>14, <1>15, <1>16, <1>17, <1>18, <1>19, <1>20, <1>21, <1>22, <1>23,
     <1>24, <1>25, <1>26, <1>27, <1>28, <1>29, <1>20a
     DEF Next, Boot, Update, Recover, User, Console

\* As long as the recover command is not given a pool block, the RAW marks in the
\* pool never change: the size that calc_bmt_pool_size computes is the same at
\* every boot, whatever fails, whichever marks do not take, whenever power is lost.
THEOREM PoolNeverMoves ==
    ASSUME DebugBlocks \cap Pool = {}
    PROVE  Spec => []PoolStable
<1> DEFINE Inv == TypeOK /\ PoolInv /\ pc # "moved"
<1>1. Init => Inv
  BY TypeInit, PoolInit DEF Init
<1>2. Inv /\ [Next]_vars => Inv'
  <2> SUFFICES ASSUME Inv, [Next]_vars PROVE Inv'
    OBVIOUS
  <2>1. TypeOK' /\ PoolInv'
    BY TypeStep, PoolStep
  <2>2. PoolStart(SysCount)
    BY PoolFound DEF PoolInv
  <2>3. pc' # "moved"
    BY <2>2, OnlyPowerOnMoves DEF PowerOn
  <2> QED
    BY <2>1, <2>3
<1>3. Inv => PoolStable
  BY DEF PoolInv, FlashClear, PoolStable
<1> QED
  BY <1>1, <1>2, <1>3, PTL DEF Spec

-----------------------------------------------------------------------------
(***************************************************************************)
(* The BMT is injective, for every chip size, every set of faults, every   *)
(* number of power losses and every use of the console commands.           *)
(*                                                                         *)
(* Injective is not inductive.  The table may come from any page of the    *)
(* flash, and such a page may be a copy of another one, made from the page *)
(* the update in progress carries; the block migrate_from_bad fills must   *)
(* still be free when its entry is made; and reconstruct_bmt adds blocks   *)
(* in rising order.                                                        *)
(***************************************************************************)

Inj(t) == \A i, j \in DOMAIN t : t[i].mapped = t[j].mapped => i = j

FlashInj(f) == \A b \in Blocks, p \in Pages : Inj(f[b].page[p].tab)

OpInj == Inj(op.val.tab)

CopyToFree == pc = "copy" => op.to \notin MappedBlocks(table)

Rebuilding == pc = "rebuild" \/ (pc \in {"markErase", "markWrite"} /\ mk.next = "rebuild")

RebuildRises == Rebuilding => \A i \in DOMAIN table : table[i].mapped < op.k

MapInv == Inj(table) /\ FlashInj(flash) /\ OpInj /\ CopyToFree /\ RebuildRises

-----------------------------------------------------------------------------
(* The changes of a table keep it injective. *)

\* The values without a table.
LEMMA BlankInj ==
    /\ Inj(<<>>)
    /\ Inj(Erased.tab) /\ Inj(Garbage.tab)
    /\ \A l, p : Inj(Data(l, p).tab)
    /\ \A s : Inj(BbtPage(s).tab)
    /\ \A t : BmtPage(t).tab = t
    /\ \A p \in Pages : Blank.page[p] = Erased
BY DEF Inj, Erased, Garbage, Data, BbtPage, BmtPage, Blank

\* An entry for a block that no entry maps to may be added.
LEMMA AppendInj ==
    ASSUME NEW t \in Seq(Entry), NEW e \in Entry, Inj(t), e.mapped \notin MappedBlocks(t)
    PROVE  Inj(Append(t, e))
BY DEF Inj, MappedBlocks

\* update_bmt maps to a block that no entry maps to.
LEMMA UpdateTableInj ==
    ASSUME table \in Seq(Entry), Inj(table), NEW bad \in Blocks, NEW to \in Pool,
           to \notin MappedBlocks(table), UpdateTable(bad, to)
    PROVE  Inj(table)'
<1>1. CASE bad \in System
  <2>1. [bad |-> bad, mapped |-> to] \in Entry
    BY <1>1, EntryType
  <2> QED
    BY <1>1, <2>1, AppendInj DEF UpdateTable, Inj
<1>2. CASE bad \notin System
  <2>1. CASE UNCHANGED table
    BY <2>1 DEF Inj
  <2>2. ASSUME NEW i \in DOMAIN table, table' = [table EXCEPT ![i].mapped = to]
        PROVE  Inj(table)'
    <3>1. DOMAIN table' = DOMAIN table
      BY <2>2
    <3>2. ASSUME NEW j \in DOMAIN table
          PROVE  table'[j].mapped = IF j = i THEN to ELSE table[j].mapped
      <4>1. table[j] \in Entry
        OBVIOUS
      <4> QED
        BY <2>2, <4>1 DEF Entry
    <3>3. \A j \in DOMAIN table : table[j].mapped # to
      BY DEF MappedBlocks
    <3> QED
      BY <3>1, <3>2, <3>3 DEF Inj
  <2> QED
    BY <1>2, <2>1, <2>2 DEF UpdateTable
<1> QED
  BY <1>1, <1>2

\* recover_bmt takes an entry out.
LEMMA WithoutInj ==
    ASSUME NEW t \in Seq(Entry), NEW i \in Nat, Inj(t)
    PROVE  Inj(Without(t, i))
<1>1. \A j \in 1..(Len(t) - 1) : j \in DOMAIN t /\ j + 1 \in DOMAIN t
  OBVIOUS
<1>2. DOMAIN Without(t, i) = 1..(Len(t) - 1)
  BY DEF Without
<1>3. \A j \in 1..(Len(t) - 1) : Without(t, i)[j] = IF j < i THEN t[j] ELSE t[j + 1]
  BY DEF Without
<1> QED
  BY <1>1, <1>2, <1>3 DEF Inj

-----------------------------------------------------------------------------
(* The flash primitives keep the tables on flash injective. *)

\* An erase leaves no table behind.
LEMMA EraseInj ==
    ASSUME flash \in [Blocks -> Block], FlashInj(flash), NEW b \in Blocks
    PROVE  FlashInj(EraseOf(b))
BY BlankInj DEF FlashInj, EraseOf

\* A program writes an injective table, or spoils the page.
LEMMA ProgrammedInj ==
    ASSUME flash \in [Blocks -> Block], FlashInj(flash), NEW b \in Blocks, NEW p, NEW v,
           p \in Pages => Inj(v.tab), NEW i
    PROVE  FlashInj(Programmed(b, p, v, i))
<1> DEFINE g == Programmed(b, p, v, i)
<1>1. ASSUME NEW c \in Blocks, NEW q \in Pages PROVE Inj(g[c].page[q].tab)
  <2>1. \/ g[c].page[q] = flash[c].page[q]
        \/ q = p /\ g[c].page[q] = v
        \/ g[c].page[q] = Garbage
    BY DEF Programmed, Block
  <2> QED
    BY <2>1, BlankInj DEF FlashInj
<1> QED
  BY <1>1 DEF FlashInj

\* A program that fails spoils the page.
LEMMA SpoiltInj ==
    ASSUME flash \in [Blocks -> Block], FlashInj(flash), NEW b \in Blocks, NEW p
    PROVE  FlashInj(Spoilt(b, p))
<1> DEFINE g == Spoilt(b, p)
<1>1. ASSUME NEW c \in Blocks, NEW q \in Pages PROVE Inj(g[c].page[q].tab)
  <2>1. g[c].page[q] = flash[c].page[q] \/ g[c].page[q] = Garbage
    BY DEF Spoilt, Block
  <2> QED
    BY <2>1, BlankInj DEF FlashInj
<1> QED
  BY <1>1 DEF FlashInj

\* A mark touches no page.
LEMMA MarkedInj ==
    ASSUME flash \in [Blocks -> Block], FlashInj(flash), NEW b \in Blocks
    PROVE  /\ FlashInj([flash EXCEPT ![b].later = TRUE])
           /\ FlashInj([flash EXCEPT ![b].raw = TRUE])
BY DEF FlashInj, Block

-----------------------------------------------------------------------------
(* The invariant *)

\* What an action leaves alone, resets or calls.
LEMMA MapFrame ==
    ASSUME MapInv
    PROVE  /\ UNCHANGED flash => FlashInj(flash)'
           /\ \A f : FlashInj(f) /\ flash' = f => FlashInj(flash)'
           /\ UNCHANGED table => Inj(table)'
           /\ \A t : Inj(t) /\ table' = t => Inj(table)'
           /\ UNCHANGED op \/ op' = NoOp => OpInj'
           /\ pc' # "copy" => CopyToFree'
           /\ pc' \notin {"rebuild", "markErase", "markWrite"} => RebuildRises'
           /\ \A b, isLater, next :
                CallMark(b, isLater, next) /\ next # "rebuild" => RebuildRises' /\ CopyToFree'
           /\ UNCHANGED <<table, op, pc, mk>> => CopyToFree' /\ RebuildRises'
<1>1. /\ UNCHANGED flash => FlashInj(flash)'
      /\ \A f : FlashInj(f) /\ flash' = f => FlashInj(flash)'
      /\ UNCHANGED table => Inj(table)'
      /\ \A t : Inj(t) /\ table' = t => Inj(table)'
  BY DEF MapInv, FlashInj, Inj
<1>2. UNCHANGED op \/ op' = NoOp => OpInj'
  BY BlankInj DEF MapInv, OpInj, Inj, NoOp
<1>3. /\ pc' # "copy" => CopyToFree'
      /\ pc' \notin {"rebuild", "markErase", "markWrite"} => RebuildRises'
      /\ UNCHANGED <<table, op, pc, mk>> => CopyToFree' /\ RebuildRises'
  BY DEF MapInv, CopyToFree, RebuildRises, Rebuilding, MappedBlocks
<1>4. \A b, isLater, next :
        CallMark(b, isLater, next) /\ next # "rebuild" => RebuildRises' /\ CopyToFree'
  BY DEF CallMark, CopyToFree, RebuildRises, Rebuilding
<1> QED
  BY <1>1, <1>2, <1>3, <1>4

\* A recovery goes on with a page whose table is injective.
LEMMA UpdateReturnsInj ==
    ASSUME TypeOK, MapInv, NEW v, NEW i, Inj(v.tab), UpdateReturns(v, i)
    PROVE  OpInj' /\ CopyToFree' /\ RebuildRises'
<1>1. pc' \in {"idle", "load", "recCopy"}
  BY OpFields DEF UpdateReturns, TypeOK
<1>2. op' = NoOp \/ op'.val = v
  BY DEF UpdateReturns, Recovery, NoOp
<1> QED
  BY <1>1, <1>2, MapFrame DEF OpInj, Inj

\* So it does after a failure.
LEMMA UpdateFailsInj ==
    ASSUME TypeOK, MapInv, UpdateFails
    PROVE  OpInj' /\ CopyToFree' /\ RebuildRises' /\ pc' \in {"idle", "load", "recCopy"}
<1>1. PICK v \in {flash[op.bad].page[p] : p \in Pages} \cup {BmtPage(table), Garbage},
           i \in System \cup {NoIndex} : UpdateReturns(v, i)
  BY DEF UpdateFails
<1>2. Inj(v.tab)
  BY BlankInj, OpFields DEF MapInv, FlashInj, TypeOK
<1>3. pc' \in {"idle", "load", "recCopy"}
  BY <1>1, OpFields DEF UpdateReturns, TypeOK
<1> QED
  BY <1>1, <1>2, <1>3, UpdateReturnsInj

\* An update starts with a page whose table is injective.
LEMMA StartUpdateInj ==
    ASSUME MapInv, NEW b, NEW p, NEW r, NEW v, NEW i, NEW l, NEW a,
           pc \in {"idle", "load"}, StartUpdate(UpdateOf(b, p, r, v, i, l, a)), Inj(v.tab)
    PROVE  OpInj' /\ CopyToFree' /\ RebuildRises'
<1>1. pc' \in {"idle", "load", "find"}
  BY DEF StartUpdate
<1>2. CASE UNCHANGED op
  BY <1>1, <1>2, MapFrame
<1>3. CASE op' = UpdateOf(b, p, r, v, i, l, a)
  <2>1. OpInj'
    BY <1>3 DEF UpdateOf, OpInj, Inj
  <2> QED
    BY <1>1, <2>1, MapFrame
<1> QED
  BY <1>2, <1>3 DEF StartUpdate

\* The chip as it is delivered holds no table.
LEMMA MapInit == Init => MapInv
<1> SUFFICES ASSUME Init PROVE MapInv
  OBVIOUS
<1>1. \A b \in Blocks : flash[b].page = Blank.page
  BY DEF Init, Blank
<1>2. FlashInj(flash)
  BY <1>1, BlankInj DEF FlashInj
<1>3. Inj(table) /\ OpInj /\ pc = "off"
  BY BlankInj DEF Init, NoOp, OpInj
<1> QED
  BY <1>2, <1>3 DEF MapInv, CopyToFree, RebuildRises, Rebuilding

\* Every step keeps the invariant.
LEMMA MapStep ==
    ASSUME TypeOK, MapInv, [Next]_vars
    PROVE  MapInv'
<1> USE DEF flashVars, ramVars, ctlVars, ghostVars, boundVars
<1>1. CASE UNCHANGED vars
  BY <1>1, MapFrame DEF vars, MapInv
<1>2. CASE PowerOn
  BY <1>2, MapFrame DEF PowerOn, MapInv
<1>3. CASE LoadBmt
  <2>1. Inj(table)'
    BY <1>3, BlankInj, MapFrame, Regions DEF LoadBmt, MapInv, FlashInj
  <2>2. OpInj'
    BY <1>3, BlankInj, MapFrame DEF LoadBmt, NoOp, OpInj, Inj
  <2>3. RebuildRises'
    <3>1. table' = <<>> \/ pc' = "remark"
      BY <1>3 DEF LoadBmt
    <3>2. CASE table' = <<>>
      BY <3>2 DEF RebuildRises
    <3> QED
      BY <3>1, <3>2, MapFrame
  <2> QED
    BY <1>3, <2>1, <2>2, <2>3, MapFrame DEF LoadBmt, MapInv
<1>4. CASE Remark
  <2>1. OpInj'
    BY <1>4, MapFrame DEF Remark, MapInv, OpInj, Inj, TypeOK, OpType
  <2>2. CopyToFree' /\ RebuildRises'
    BY <1>4, MapFrame DEF Remark
  <2> QED
    BY <1>4, <2>1, <2>2, MapFrame DEF Remark, MapInv
<1>5. CASE Reconstruct
  <2>1. op.k \in Nat /\ RebuildRises /\ Rebuilding
    BY <1>5, OpFields DEF Reconstruct, TypeOK, MapInv, Rebuilding
  <2>2. OpInj'
    BY <1>5, MapFrame DEF Reconstruct, MapInv, OpInj, Inj, TypeOK, OpType
  <2>3. CASE op.k = Total
    <3>1. op.k \notin Pool /\ ~(op.k < Total)
      BY <2>1, <2>3, BMTAssumption DEF Pool, Total
    <3>2. UNCHANGED <<table, flash>> /\ pc' = "bbt"
      BY <1>5, <3>1 DEF Reconstruct
    <3> QED
      BY <2>2, <3>2, MapFrame DEF MapInv
  <2>4. CASE op.k # Total
    <3>1. op'.k = op.k + 1
      BY <1>5, <2>4 DEF Reconstruct, TypeOK, OpType
    <3>2. \/ UNCHANGED table
          \/ /\ op.k \in Pool /\ flash[op.k].idx \in System
             /\ table' = Append(table, [bad |-> flash[op.k].idx, mapped |-> op.k])
      BY <1>5 DEF Reconstruct
    <3>3. CASE UNCHANGED table
      <4>1. \A i \in DOMAIN table' : table'[i].mapped < op'.k
        <5>1. \A i \in DOMAIN table : table[i].mapped \in Nat
          BY EntryFields, Regions DEF TypeOK
        <5> QED
          BY <2>1, <3>1, <3>3, <5>1 DEF RebuildRises
      <4> QED
        BY <1>5, <2>2, <3>3, <4>1, MapFrame DEF Reconstruct, CallMark, MapInv, RebuildRises, CopyToFree
    <3>4. CASE /\ op.k \in Pool /\ flash[op.k].idx \in System
               /\ table' = Append(table, [bad |-> flash[op.k].idx, mapped |-> op.k])
      <4> DEFINE e == [bad |-> flash[op.k].idx, mapped |-> op.k]
      <4>1. e \in Entry /\ e.mapped = op.k /\ table \in Seq(Entry)
        BY <3>4, EntryType DEF TypeOK
      <4>2. \A i \in DOMAIN table : table[i].mapped \in Nat /\ table[i].mapped < op.k
        BY <2>1, EntryFields, Regions DEF TypeOK, RebuildRises
      <4>3. op.k \notin MappedBlocks(table)
        BY <2>1, <4>2 DEF MappedBlocks
      <4>4. Inj(table')
        BY <3>4, <4>1, <4>3, AppendInj DEF MapInv
      <4>5. \A i \in DOMAIN table' : table'[i].mapped < op'.k
        BY <2>1, <3>1, <3>4, <4>1, <4>2
      <4>6. RebuildRises' /\ CopyToFree'
        BY <1>5, <4>5, MapFrame DEF Reconstruct, CallMark, RebuildRises, CopyToFree
      <4> QED
        BY <1>5, <2>2, <4>4, <4>6, MapFrame DEF Reconstruct, MapInv
    <3> QED
      BY <3>2, <3>3, <3>4
  <2> QED
    BY <2>3, <2>4
<1>6. CASE LoadBbt
  BY <1>6, MapFrame DEF LoadBbt, MapInv
<1>7. CASE SaveBmt
  <2>1. OpInj'
    BY <1>7, MapFrame, BlankInj DEF SaveBmt, NoOp, OpInj, Inj
  <2> QED
    BY <1>7, <2>1, MapFrame DEF SaveBmt, MapInv
<1>8. CASE SaveBbt
  BY <1>8, MapFrame DEF SaveBbt, MapInv
<1>9. ASSUME NEW b \in Pool, BootReadOverThreshold(b) PROVE MapInv'
  <2>1. Inj(flash[b].page[0].tab)
    BY Regions DEF MapInv, FlashInj
  <2>2. OpInj' /\ CopyToFree' /\ RebuildRises'
    BY <1>9, <2>1, StartUpdateInj DEF BootReadOverThreshold
  <2> QED
    BY <1>9, <2>2, MapFrame DEF BootReadOverThreshold, MapInv
<1>10. CASE MarkErase
  <2>1. FlashInj(EraseOf(mk.blk))
    BY EraseInj, MarkFields DEF TypeOK, MapInv
  <2>2. RebuildRises'
    BY <1>10 DEF MarkErase, MapInv, RebuildRises, Rebuilding
  <2> QED
    BY <1>10, <2>1, <2>2, MapFrame DEF MarkErase, MapInv
<1>11. CASE MarkWrite
  <2>1. FlashInj([flash EXCEPT ![mk.blk].later = TRUE]) /\ FlashInj([flash EXCEPT ![mk.blk].raw = TRUE])
    BY MarkedInj, MarkFields DEF TypeOK, MapInv
  <2>2. RebuildRises'
    BY <1>11 DEF MarkWrite, MapInv, RebuildRises, Rebuilding, NoMark
  <2>3. CopyToFree'
    BY <1>11, MarkFields, MapFrame DEF MarkWrite, TypeOK
  <2> QED
    BY <1>11, <2>1, <2>2, <2>3, MapFrame DEF MarkWrite, MapInv
<1>12. CASE PoolErase
  <2>a. PICK failed \in SUBSET Unmapped : \E kept \in SUBSET failed, unmarked \in SUBSET failed :
           /\ unmarked # {} => "mark" \in FaultKinds
           /\ \/ failed = {} /\ UNCHANGED faults
              \/ failed # {} /\ Fail("erase", Cardinality(failed))
           /\ flash' = [b \in Blocks |->
                        IF b \in kept THEN [flash[b] EXCEPT !.later = b \notin unmarked]
                        ELSE IF b \in Unmapped
                             THEN [Blank EXCEPT !.later = b \in failed \ unmarked]
                             ELSE flash[b]]
    BY <1>12, Zenon DEF PoolErase
  <2>1. PICK kept \in SUBSET failed, unmarked \in SUBSET failed :
           /\ unmarked # {} => "mark" \in FaultKinds
           /\ \/ failed = {} /\ UNCHANGED faults
              \/ failed # {} /\ Fail("erase", Cardinality(failed))
           /\ flash' = [b \in Blocks |->
                        IF b \in kept THEN [flash[b] EXCEPT !.later = b \notin unmarked]
                        ELSE IF b \in Unmapped
                             THEN [Blank EXCEPT !.later = b \in failed \ unmarked]
                             ELSE flash[b]]
    BY <2>a, Zenon
  <2>2. \A x \in Block, t \in BOOLEAN : [x EXCEPT !.later = t].page = x.page
    BY DEF Block
  <2>3. ASSUME NEW b \in Blocks, NEW p \in Pages PROVE Inj(flash'[b].page[p].tab)
    <3>1. flash'[b].page = flash[b].page \/ flash'[b].page = Blank.page
      BY <2>1, <2>2, BlankType DEF TypeOK
    <3> QED
      BY <3>1, BlankInj DEF MapInv, FlashInj
  <2>4. FlashInj(flash')
    BY <2>3 DEF FlashInj
  <2> QED
    BY <1>12, <2>4, MapFrame DEF PoolErase, MapInv
<1>13. CASE BmtFind
  <2>1. OpInj' /\ CopyToFree' /\ RebuildRises'
    BY <1>13, UpdateFailsInj, MapFrame DEF BmtFind
  <2> QED
    BY <1>13, <2>1, MapFrame DEF BmtFind, MapInv
<1>14. CASE BmtErase
  <2>1. FlashInj(EraseOf(bmtBlock))
    BY EraseInj, Regions DEF TypeOK, MapInv
  <2>2. CopyToFree' /\ RebuildRises'
    BY <1>14, MapFrame DEF BmtErase, GiveUpBmt
  <2> QED
    BY <1>14, <2>1, <2>2, MapFrame DEF BmtErase, MapInv
<1>15. CASE BmtWrite
  <2>1. FlashInj(Programmed(bmtBlock, 0, BmtPage(table), NoIndex))
    BY ProgrammedInj, BlankInj, Regions DEF TypeOK, MapInv
  <2>2. FlashInj(Spoilt(bmtBlock, 0))
    BY SpoiltInj, Regions DEF TypeOK, MapInv
  <2>3. CopyToFree' /\ RebuildRises'
    BY <1>15, MapFrame, OpFields DEF BmtWrite, GiveUpBmt, TypeOK
  <2> QED
    BY <1>15, <2>1, <2>2, <2>3, MapFrame DEF BmtWrite, MapInv
<1>16. CASE BbtWrite
  <2>1. ASSUME NEW b \in Pool
        PROVE  FlashInj(Programmed(b, 0, BbtPage(bbt), NoIndex)) /\ FlashInj(Spoilt(b, 0))
    BY ProgrammedInj, SpoiltInj, BlankInj, Regions DEF TypeOK, MapInv
  <2>2. FlashInj(flash)'
    BY <1>16, <2>1, MapFrame DEF BbtWrite
  <2>3. CopyToFree' /\ RebuildRises'
    BY <1>16, MapFrame DEF BbtWrite
  <2> QED
    BY <1>16, <2>2, <2>3, MapFrame DEF BbtWrite, MapInv
<1>17. CASE Find
  <2>1. ASSUME NEW b \in Pool, FirstOf(b, Unmapped) PROVE b \notin MappedBlocks(table)
    BY <2>1 DEF FirstOf, Unmapped
  <2>2. Inj(table)'
    BY <1>17, <2>1, UpdateTableInj, MapFrame, OpFields DEF Find, TypeOK, MapInv
  <2>3. OpInj'
    <3>1. ASSUME NEW b \in Pool, op' = [op EXCEPT !.to = b, !.k = 1] PROVE OpInj'
      BY <3>1 DEF MapInv, OpInj, Inj, TypeOK, OpType
    <3> QED
      BY <1>17, <3>1, UpdateFailsInj, MapFrame DEF Find
  <2>4. CopyToFree'
    <3>1. ASSUME NEW b \in Pool, FirstOf(b, Unmapped), op' = [op EXCEPT !.to = b, !.k = 1],
                 UNCHANGED table
          PROVE  CopyToFree'
      <4>1. op'.to = b
        BY <3>1 DEF TypeOK, OpType
      <4> QED
        BY <2>1, <3>1, <4>1 DEF CopyToFree, MappedBlocks
    <3>2. pc' = "copy" => \E b \in Pool : /\ FirstOf(b, Unmapped)
                                         /\ op' = [op EXCEPT !.to = b, !.k = 1]
                                         /\ UNCHANGED table
      BY <1>17, UpdateFailsInj DEF Find
    <3> QED
      BY <3>1, <3>2, MapFrame
  <2>5. RebuildRises'
    BY <1>17, UpdateFailsInj, MapFrame DEF Find
  <2> QED
    BY <1>17, <2>2, <2>3, <2>4, <2>5, MapFrame DEF Find, MapInv
<1>18. CASE Copy
  <2> DEFINE p == CopyPage(op, op.k)
             v == IF p = op.page THEN op.val ELSE flash[op.bad].page[p]
  <2>1. op.bad \in Blocks /\ op.to \in Pool /\ op.to \in Blocks /\ op.to \notin MappedBlocks(table)
    BY <1>18, OpFields, Regions DEF Copy, TypeOK, MapInv, CopyToFree
  <2>2. FlashInj(Programmed(op.to, p, v, OobIndex(op, p)))
    <3>1. p \in Pages => Inj(v.tab)
      BY <2>1 DEF MapInv, OpInj, FlashInj
    <3> QED
      BY <2>1, <3>1, ProgrammedInj DEF TypeOK, MapInv
  <2>3. FlashInj(Spoilt(op.to, p))
    BY <2>1, SpoiltInj DEF TypeOK, MapInv
  <2>4. FlashInj(flash)'
    BY <1>18, <2>2, <2>3, MapFrame DEF Copy
  <2>5. Inj(table)'
    BY <1>18, <2>1, UpdateTableInj, MapFrame DEF Copy, TypeOK, MapInv
  <2>6. OpInj'
    BY <1>18, MapFrame DEF Copy, MapInv, OpInj, Inj, TypeOK, OpType
  <2>7. CopyToFree' /\ RebuildRises'
    <3>1. CASE UNCHANGED <<table, pc>> /\ op' = [op EXCEPT !.k = @ + 1]
      <4>1. op'.to = op.to
        BY <3>1 DEF TypeOK, OpType
      <4> QED
        BY <1>18, <2>1, <3>1, <4>1, MapFrame DEF Copy, CopyToFree, MappedBlocks
    <3>2. CASE pc' = "wbmt"
      BY <3>2, MapFrame
    <3>3. CASE CallMark(op.to, TRUE, "find")
      BY <3>3, MapFrame
    <3> QED
      BY <1>18, <3>1, <3>2, <3>3 DEF Copy
  <2> QED
    BY <1>18, <2>4, <2>5, <2>6, <2>7, MapFrame DEF Copy, MapInv
<1>19. CASE MarkOld
  BY <1>19, MapFrame DEF MarkOld, MapInv
<1>20. CASE Done
  <2>1. OpInj' /\ CopyToFree' /\ RebuildRises'
    BY <1>20, UpdateReturnsInj DEF Done, MapInv, OpInj
  <2> QED
    BY <1>20, <2>1, MapFrame DEF Done, MapInv
<1>20a. CASE RecoverRead
  <2>1. op.to \in Blocks /\ op.k \in Pages
    BY <1>20a, OpFields, BMTAssumption DEF RecoverRead, TypeOK, Pages
  <2>2. op'.val = flash[op.to].page[op.k]
    BY <1>20a DEF RecoverRead, UpdateOf
  <2>3. OpInj'
    BY <2>1, <2>2 DEF MapInv, FlashInj, OpInj, Inj
  <2> QED
    BY <1>20a, <2>3, MapFrame DEF RecoverRead, MapInv
<1>21. CASE RecoverCopy
  <2> DEFINE v == IF op.reason = "read" THEN op.val ELSE flash[op.to].page[op.k]
             i == IF op.reason = "read" THEN op.idx ELSE flash[op.to].idx
  <2>1. op.bad \in Blocks /\ op.to \in Blocks
    BY OpFields DEF TypeOK
  <2>2. FlashInj(Programmed(op.bad, op.k, v, i))
    <3>1. op.k \in Pages => Inj(v.tab)
      BY <2>1 DEF MapInv, FlashInj, OpInj
    <3> QED
      BY <2>1, <3>1, ProgrammedInj DEF TypeOK, MapInv
  <2>3. FlashInj(Spoilt(op.bad, op.k))
    BY <2>1, SpoiltInj DEF TypeOK, MapInv
  <2>4. FlashInj(flash)'
    BY <1>21, <2>2, <2>3, MapFrame DEF RecoverCopy
  <2>5. OpInj'
    <3>1. op' = NoOp \/ op'.val = Erased
      BY <1>21, RecoveryFields DEF RecoverCopy
    <3> QED
      BY <3>1, BlankInj, MapFrame DEF OpInj, Inj
  <2> QED
    BY <1>21, <2>4, <2>5, MapFrame DEF RecoverCopy, MapInv
<1>22. CASE RecoverFree
  <2>1. op.to \in Blocks /\ op.lb \in Nat
    BY OpFields DEF TypeOK
  <2>2. FlashInj(flash)'
    BY <1>22, <2>1, EraseInj, MapFrame DEF RecoverFree, TypeOK, MapInv
  <2>3. Inj(table)'
    BY <1>22, <2>1, WithoutInj, MapFrame DEF RecoverFree, TypeOK, MapInv
  <2> QED
    BY <1>22, <2>2, <2>3, MapFrame DEF RecoverFree, MapInv
<1>23. ASSUME NEW l \in LogicalBlocks, NEW b \in Blocks, EraseBlock(l, b)
       PROVE  MapInv'
  <2>1. FlashInj(flash)'
    BY <1>23, EraseInj, MapFrame DEF EraseBlock, TypeOK, MapInv
  <2>2. OpInj' /\ CopyToFree' /\ RebuildRises'
    BY <1>23, StartUpdateInj, BlankInj, MapFrame DEF EraseBlock
  <2> QED
    BY <1>23, <2>1, <2>2, MapFrame DEF EraseBlock, MapInv
<1>24. ASSUME NEW l \in LogicalBlocks, NEW s \in System, NEW b \in Blocks, WritePage(l, s, b)
       PROVE  MapInv'
  <2> DEFINE p == written[l]
             i == IF b \in Pool THEN s ELSE NoIndex
  <2>1. FlashInj(Programmed(b, p, Data(l, p), i))
    BY ProgrammedInj, BlankInj DEF TypeOK, MapInv
  <2>2. FlashInj(Spoilt(b, p))
    BY SpoiltInj DEF TypeOK, MapInv
  <2>3. FlashInj(flash)'
    BY <1>24, <2>1, <2>2, MapFrame DEF WritePage
  <2>4. OpInj' /\ CopyToFree' /\ RebuildRises'
    BY <1>24, StartUpdateInj, BlankInj, MapFrame DEF WritePage
  <2> QED
    BY <1>24, <2>3, <2>4, MapFrame DEF WritePage, MapInv
<1>25. ASSUME NEW b \in Blocks, NEW p \in Pages, ReadOverThreshold(b, p) PROVE MapInv'
  <2>1. Inj(flash[b].page[p].tab)
    BY DEF MapInv, FlashInj
  <2>2. OpInj' /\ CopyToFree' /\ RebuildRises'
    BY <1>25, <2>1, StartUpdateInj DEF ReadOverThreshold
  <2> QED
    BY <1>25, <2>2, MapFrame DEF ReadOverThreshold, MapInv
<1>26. ASSUME NEW b \in Blocks, MarkBadCommand(b) PROVE MapInv'
  <2> DEFINE p == PageCount - 1
  <2>1. p \in Pages
    BY BMTAssumption DEF Pages
  <2>2. Inj(flash[b].page[p].tab)
    BY <2>1 DEF MapInv, FlashInj
  <2>3. OpInj' /\ CopyToFree' /\ RebuildRises'
    BY <1>26, <2>2, StartUpdateInj DEF MarkBadCommand
  <2> QED
    BY <1>26, <2>3, MapFrame DEF MarkBadCommand, MapInv
<1>27. ASSUME NEW b \in Blocks, RecoverMapped(b) PROVE MapInv'
  <2>1. FlashInj(flash)'
    BY <1>27, EraseInj, MapFrame DEF RecoverMapped, TypeOK, MapInv
  <2>2. OpInj'
    <3>1. op'.val = Erased \/ UNCHANGED op
      BY <1>27, RecoveryFields DEF RecoverMapped
    <3> QED
      BY <3>1, BlankInj, MapFrame DEF OpInj, Inj
  <2>3. CopyToFree' /\ RebuildRises'
    BY <1>27, MapFrame DEF RecoverMapped
  <2> QED
    BY <1>27, <2>1, <2>2, <2>3, MapFrame DEF RecoverMapped, MapInv
<1>28. ASSUME NEW b \in Blocks, RecoverPool(b) PROVE MapInv'
  <2>1. FlashInj(flash)'
    BY <1>28, EraseInj, MapFrame DEF RecoverPool, TypeOK, MapInv
  <2> QED
    BY <1>28, <2>1, MapFrame DEF RecoverPool, MapInv
<1>29. CASE PowerLoss
  <2>1. PICK done :
          flash' = [b \in Blocks |-> IF b \in done THEN Blank ELSE flash[b]]
    BY <1>29 DEF PowerLoss
  <2>2. FlashInj(flash')
    BY <2>1, BlankInj DEF MapInv, FlashInj
  <2> QED
    BY <1>29, <2>2, BlankInj, MapFrame DEF PowerLoss, MapInv
<1> QED
  BY <1>1, <1>2, <1>3, <1>4, <1>5, <1>6, <1>7, <1>8, <1>9, <1>10, <1>11, <1>12,
     <1>13, <1>14, <1>15, <1>16, <1>17, <1>18, <1>19, <1>20, <1>21, <1>22, <1>23,
     <1>24, <1>25, <1>26, <1>27, <1>28, <1>29, <1>20a
     DEF Next, Boot, Update, Recover, User, Console

\* Spec => []Injective: no two entries of the BMT ever share a pool block, whatever
\* fails, wherever power is lost and whatever the console commands are given.
THEOREM MapInjective == Spec => []Injective
<1>1. Init => TypeOK /\ MapInv
  BY TypeInit, MapInit
<1>2. TypeOK /\ MapInv /\ [Next]_vars => (TypeOK /\ MapInv)'
  BY TypeStep, MapStep
<1>3. MapInv => Injective
  BY DEF MapInv, Inj, Injective
<1> QED
  BY <1>1, <1>2, <1>3, PTL DEF Spec
=============================================================================
