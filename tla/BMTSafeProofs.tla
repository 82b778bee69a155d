--------------------------- MODULE BMTSafeProofs ---------------------------
(***************************************************************************)
(* Theorems about what find_available_block and the tables on flash owe    *)
(* each other: MapSafe, FreeBlank, BbtIsFactory and PoolEraseSparesMapped. *)
(*                                                                         *)
(* None of them is inductive.  A table is safe only if the block that was  *)
(* found for it was free, which depends on the pool having been erased,    *)
(* which must have spared the blocks the table on flash leads to; and that *)
(* table, after a power loss, is the next one in RAM.  The invariant       *)
(* therefore relates the two tables (Sync), says where each is (BmtPlace,  *)
(* BbtPlace) and what it leads to (FlashTab, TableTab), what is being      *)
(* replaced, copied to or marked (OpSafe, MarkSafe), which blocks are      *)
(* blank (FreeErased), and that a chip without a BBT is as it was shipped  *)
(* (Fresh), since a scan cannot tell the factory's marks from later ones.  *)
(***************************************************************************)
EXTENDS BMTProofs

\* What page 0 of block b holds.
Kind(b) == flash[b].page[0].kind

\* Block b holds a table on its first page, marked bad or not.
Meta(b) == Kind(b) \in {"BMT", "BBT"}

\* Block b is a BMT that load_bmt_data takes: HoldsBmt without the bound of its scan.
HasBmt(b) == ~Bad(b) /\ Kind(b) = "BMT"

\* mark_block_bad_bmt runs, and goes on with a step of S.
MarkingFor(S) == pc \in {"markErase", "markWrite"} /\ mk.next \in S

\* The boot loader has not yet found the BBT.
Booting == \/ pc \in {"off", "load", "remark", "rebuild", "bbt", "moved"}
           \/ MarkingFor({"remark", "rebuild"})

\* table and bmtBlock are those of this boot.
Loaded == pc \notin {"off", "load", "moved"}

\* The BMT on flash is about to be replaced: it may be older than the one in RAM.
Rewriting == pc = "wbmt" \/ MarkingFor({"wbmt"})

\* migrate_from_bad looks for a block, or copies to it.
Seeking == pc \in {"find", "copy"} \/ MarkingFor({"find"})

\* update_bmt has changed the table in RAM and not yet marked the block it replaced.
Replaced == \/ pc \in {"markbad", "done"} \/ MarkingFor({"done"})
            \/ op.ret = "markbad" /\ (Rewriting \/ pc = "wbmtWrite")

\* recover_bmt is between its copy and its change of the table.
Recovering == pc \in {"recCopy", "recFree"}

\* The list a BBT should hold: the system blocks that were bad from the beginning.
Shipped == factory \cap 1..(SysCount - 1)

\* There is one BMT on flash at most, where bmtBlock says, or in the block that was given up
\* and is about to be marked. Nothing is one while a new one is about to be written.
BmtPlace ==
    /\ \A b, c \in Pool : HasBmt(b) /\ HasBmt(c) => b = c
    /\ Loaded => \A b \in Pool : HasBmt(b) => b = bmtBlock \/ (MarkingFor({"wbmt"}) /\ b = mk.blk)
    /\ pc = "wbmtWrite" => bmtBlock # 0 /\ \A b \in Pool : ~HasBmt(b)
    /\ Rebuilding \/ MarkingFor({"wbmt"}) => bmtBlock = 0

\* The entries of table t lead to good blocks that hold no table.
TabGood(t) == \A m \in MappedBlocks(t) : ~Bad(m) /\ ~Meta(m)

\* The BMT on flash leads to good blocks: the next boot may take it.
FlashTab == \A b \in Pool : HasBmt(b) => TabGood(flash[b].page[0].tab)

\* The BMT in RAM leads to good blocks, neither of them that of the BMT or the BBT.
TableTab ==
    TabGood(table) /\ bmtBlock \notin MappedBlocks(table) /\ bbtBlock \notin MappedBlocks(table)

\* The BMT on flash is the one in RAM, except while it is rewritten.
Sync == Loaded /\ ~Rewriting => \A b \in Pool : HasBmt(b) => flash[b].page[0].tab = table

\* No block of the system area holds a table.
SysPlain == \A b \in System : ~Meta(b)

\* The update or recovery in progress: the block under replacement is in use until the table is
\* changed, and not afterwards; the copy goes to a free block; what is programmed into page 0
\* is no table.
OpSafe ==
    /\ op.after = "idle" /\ (op.page = 0 => op.val.kind \notin {"BMT", "BBT"})
    /\ Seeking => op.ret = "markbad" /\ (op.bad \in System \/ op.bad \in MappedBlocks(table))
    /\ pc = "copy" => op.to \in Unmapped
    /\ Replaced /\ op.bad \in Pool => op.bad \notin MappedBlocks(table) /\ op.bad # bbtBlock
    /\ pc = "markbad" => op.ret = "markbad"
    /\ pc = "done" /\ op.bad \in Pool => Bad(op.bad)
    /\ Recovering => /\ op.bad \in System /\ op.reason = "none"
                     /\ op.lb \in DOMAIN table /\ table[op.lb].mapped = op.to

\* The block that mark_block_bad_bmt erases and marks is not in use: at boot it is a block of
\* the system area, else a pool block that no table leads to, or the one just replaced.
MarkSafe ==
    pc \in {"markErase", "markWrite"} =>
        /\ mk.blk \in Pool => mk.blk \notin MappedBlocks(table) /\ mk.blk # bbtBlock
        /\ mk.next \in {"remark", "rebuild"} => mk.blk \in System
        /\ mk.next \in {"wbmt", "wbbt", "find"} => mk.blk \in Pool
        /\ mk.next = "done" => mk.blk = op.bad
        /\ mk.next # "idle"

\* There is one BBT on flash at most, which is the shipped one, where bbtBlock says, and apart
\* from the BMT.
BbtPlace ==
    /\ \A b \in Pool : HoldsBbt(b) => flash[b].page[0].bbt = Shipped /\ flash[b].idx = NoIndex
    /\ \A b, c \in Pool : HoldsBbt(b) /\ HoldsBbt(c) => b = c
    /\ Booting \/ pc = "wbbt" \/ MarkingFor({"wbbt"}) => bbtBlock = 0
    /\ ~Booting /\ pc # "failed" =>
         bbt = Shipped /\ \A b \in Pool : HoldsBbt(b) <=> b = bbtBlock
    /\ bmtBlock \in Pool => ~HoldsBbt(bmtBlock)
    /\ bmtBlock = bbtBlock => bmtBlock = 0

\* Without a BBT on flash the chip is as it was shipped: nothing is mapped or marked, and
\* U-Boot has not come up yet. So what scan_badblock_raw finds when it makes a BBT is the
\* factory's list.
Fresh ==
    (\A b \in Pool : ~HoldsBbt(b)) =>
        /\ table = <<>>
        /\ \A b \in Pool : HasBmt(b) => flash[b].page[0].tab = <<>>
        /\ \A b \in Pool : ~Bad(b) => flash[b].idx = NoIndex
        /\ \A b \in System : flash[b].raw <=> b \in factory
        /\ \/ pc \in {"off", "load", "remark", "rebuild", "bbt", "saveBmt", "saveBbt", "wbbt",
                    "failed", "moved"}
           \/ MarkingFor({"wbbt"})
           \/ op.ret = "saveBbt" /\ (Rewriting \/ pc = "wbmtWrite")

\* The pool is erased after the tables are loaded; then a block that nothing leads to is blank,
\* except the one being copied to, marked or replaced.
FreeErased ==
    /\ Booting => ~poolErased
    /\ poolErased => \A b \in Unmapped :
         \/ flash[b] = Blank
         \/ pc = "copy" /\ b = op.to
         \/ pc \in {"markErase", "markWrite"} /\ b = mk.blk
         \/ Replaced /\ b = op.bad

\* The inductive invariant, beside TypeOK and MapInv. lim = Total: no scan was cut short by a
\* read over the threshold.
SafeInv ==
    /\ lim = Total
    /\ BmtPlace /\ FlashTab /\ TableTab /\ Sync /\ SysPlain
    /\ OpSafe /\ MarkSafe /\ BbtPlace /\ Fresh /\ FreeErased

-----------------------------------------------------------------------------
(* What a step does to a block, as far as the invariant looks at it. *)

\* Block c is the same after the step.
Same(c) == /\ flash'[c] = flash[c]
           /\ Bad(c)' <=> Bad(c)
           /\ Meta(c)' <=> Meta(c)
           /\ HasBmt(c)' <=> HasBmt(c)
           /\ HoldsBbt(c)' <=> HoldsBbt(c)

\* Block c is blank after the step.
Wiped(c) == /\ flash'[c] = Blank
            /\ Bad(c)' => Bad(c)
            /\ ~Meta(c)' /\ ~HasBmt(c)' /\ ~HoldsBbt(c)'

\* A page was programmed into block c, well or not, and it holds no table.
Filled(c) == /\ Bad(c)' <=> Bad(c)
             /\ flash'[c].raw = flash[c].raw
             /\ ~Meta(c)' /\ ~HasBmt(c)' /\ ~HoldsBbt(c)'

\* A block that a step leaves alone is the same.
LEMMA SameView ==
    ASSUME NEW c, flash'[c] = flash[c]
    PROVE  Same(c)
BY DEF Same, Bad, Meta, Kind, HasBmt, HoldsBbt

\* When a step leaves the flash alone every block is the same.
LEMMA StillView ==
    ASSUME UNCHANGED flash
    PROVE  \A c : Same(c)
BY SameView

\* A block that a step leaves blank is not bad afterwards unless it was, and holds no table.
LEMMA WipedView ==
    ASSUME NEW c, flash'[c] = Blank
    PROVE  Wiped(c)
BY Regions DEF Wiped, Bad, Meta, Kind, HasBmt, HoldsBbt, Blank, Erased

\* An erase wipes one block and leaves the others.
LEMMA EraseView ==
    ASSUME flash \in [Blocks -> Block], NEW x \in Blocks, flash' = EraseOf(x)
    PROVE  \A c \in Blocks : IF c = x THEN Wiped(c) ELSE Same(c)
<1>1. \A c \in Blocks : flash'[c] = IF c = x THEN Blank ELSE flash[c]
  BY DEF EraseOf
<1> QED
  BY <1>1, WipedView, SameView

\* The program of a page that is no table, into a block that holds none, fills that block and
\* leaves the others.
LEMMA ProgramView ==
    ASSUME flash \in [Blocks -> Block], NEW x \in Blocks, NEW p, NEW v, NEW i,
           ~Meta(x), p = 0 => v.kind \notin {"BMT", "BBT"}, flash' = Programmed(x, p, v, i)
    PROVE  \A c \in Blocks : IF c = x THEN Filled(c) ELSE Same(c)
<1>1. \A c \in Blocks : c # x => flash'[c] = flash[c]
  BY DEF Programmed
<1>2. /\ flash'[x].raw = flash[x].raw /\ flash'[x].later = flash[x].later
      /\ flash'[x].page[0] \in {flash[x].page[0], v, Garbage}
      /\ p # 0 => flash'[x].page[0] \in {flash[x].page[0], Garbage}
  BY DEF Programmed
<1>3. \A c \in Blocks : c = x => Filled(c)
  BY <1>2 DEF Filled, Bad, Meta, Kind, HasBmt, HoldsBbt, Garbage
<1> QED
  BY <1>1, <1>3, SameView

\* A program that fails, into a block that holds no table, spoils a page there and leaves the
\* others.
LEMMA SpoilView ==
    ASSUME flash \in [Blocks -> Block], NEW x \in Blocks, NEW p,
           ~Meta(x), flash' = Spoilt(x, p)
    PROVE  \A c \in Blocks : IF c = x THEN Filled(c) /\ flash'[c].idx = flash[c].idx ELSE Same(c)
<1>1. \A c \in Blocks : c # x => flash'[c] = flash[c]
  BY DEF Spoilt
<1>2. /\ flash'[x].raw = flash[x].raw /\ flash'[x].later = flash[x].later
      /\ flash'[x].idx = flash[x].idx
      /\ flash'[x].page[0] \in {flash[x].page[0], Garbage}
  BY DEF Spoilt
<1>3. \A c \in Blocks : c = x => Filled(c)
  BY <1>2 DEF Filled, Bad, Meta, Kind, HasBmt, HoldsBbt, Garbage
<1> QED
  BY <1>1, <1>2, <1>3, SameView

\* The program of a table puts it, or garbage, on the first page of one block, and the table if
\* the block was blank; the others are left alone.
LEMMA TableView ==
    ASSUME flash \in [Blocks -> Block], NEW x \in Blocks, NEW v,
           flash' = Programmed(x, 0, v, NoIndex)
    PROVE  /\ \A c \in Blocks : c # x => Same(c)
           /\ \A c \in Blocks : c = x => /\ Bad(c)' <=> Bad(c)
                                         /\ flash'[c].idx = flash[c].idx
                                         /\ flash'[c].page[0] \in {v, Garbage}
                                         /\ flash[c] = Blank => flash'[c].page[0] = v
<1>1. \A c \in Blocks : c # x => flash'[c] = flash[c]
  BY DEF Programmed
<1>2. /\ flash'[x].raw = flash[x].raw /\ flash'[x].later = flash[x].later
      /\ flash'[x].idx = flash[x].idx
      /\ flash'[x].page[0] \in {v, Garbage}
      /\ flash[x] = Blank => flash'[x].page[0] = v
  BY Regions DEF Programmed, Block, Blank
<1> QED
  BY <1>1, <1>2, SameView DEF Bad

\* A mark makes one block bad, so that it is no BMT and no BBT any more, and leaves the others.
LEMMA MarkView ==
    ASSUME flash \in [Blocks -> Block], NEW x \in Blocks,
           \/ flash' = [flash EXCEPT ![x].later = TRUE]
           \/ flash' = [flash EXCEPT ![x].raw = TRUE]
    PROVE  /\ \A c \in Blocks : c # x => Same(c)
           /\ \A c \in Blocks : c = x => /\ Bad(c)'
                                         /\ ~HasBmt(c)' /\ ~HoldsBbt(c)'
                                         /\ Meta(c)' <=> Meta(c)
<1>1. \A c \in Blocks : c # x => flash'[c] = flash[c]
  OBVIOUS
<1>2. (flash'[x].raw \/ flash'[x].later) /\ flash'[x].page = flash[x].page
  BY DEF Block
<1> QED
  BY <1>2, SameView DEF Bad, HasBmt, HoldsBbt, Meta, Kind

-----------------------------------------------------------------------------
(* What the state before a step tells. *)

\* The entries of the tables, in RAM and on flash, lead to blocks of the pool.
LEMMA Entries ==
    ASSUME TypeOK
    PROVE  /\ \A m \in MappedBlocks(table) : m \in Pool /\ m \in Blocks
           /\ \A b \in Blocks : \A m \in MappedBlocks(flash[b].page[0].tab) :
                 m \in Pool /\ m \in Blocks
           /\ MappedBlocks(<<>>) = {}
<1>1. \A t \in Seq(Entry) : \A i \in DOMAIN t : t[i].mapped \in Pool /\ t[i].mapped \in Blocks
  BY EntryFields, Regions
<1>2. \A b \in Blocks : flash[b].page[0].tab \in Seq(Entry)
  BY BlockFields, ContentFields, Regions DEF TypeOK
<1> QED
  BY <1>1, <1>2 DEF TypeOK, MappedBlocks

\* A user's block is in the system area or is one the table leads to, and holds no table.
LEMMA UserBlock ==
    ASSUME TypeOK, SafeInv, NEW l, NEW s \in System, NEW b, get_mapping_block_index(l, s, b)
    PROVE  /\ b \in System \/ b \in MappedBlocks(table)
           /\ b \in Blocks /\ ~Meta(b)
           /\ b \in Pool => ~Bad(b) /\ b \notin {bmtBlock, bbtBlock}
<1>1. b \in System \/ b \in MappedBlocks(table)
  BY DEF get_mapping_block_index, ByBmt, MappedBlocks
<1> QED
  BY <1>1, Entries, Regions DEF SafeInv, SysPlain, TableTab, TabGood

\* Once U-Boot has come up there is a BBT, and the block that holds it is bbtBlock.
LEMMA HaveBbt ==
    ASSUME SafeInv,
           \/ pc \in {"idle", "find", "copy", "markbad", "done", "recCopy", "recFree"}
           \/ MarkingFor({"find", "done"})
           \/ Rewriting /\ op.ret # "saveBbt"
           \/ pc = "wbmtWrite" /\ op.ret # "saveBbt"
    PROVE  bbtBlock \in Pool /\ HoldsBbt(bbtBlock)
BY DEF SafeInv, Fresh, BbtPlace, Booting, Rewriting, MarkingFor

\* A block that find_available_block may return is good, unmapped, and holds no table.
LEMMA FreePlain ==
    ASSUME SafeInv, Loaded, ~Booting, pc # "failed", ~MarkingFor({"wbmt"}), NEW b \in Unmapped
    PROVE  /\ b \in Pool /\ b \notin MappedBlocks(table) /\ b # bmtBlock /\ b # bbtBlock
           /\ ~Bad(b) /\ ~Meta(b) /\ ~HasBmt(b) /\ ~HoldsBbt(b)
<1>1. b \in Pool /\ b \notin MappedBlocks(table) /\ b # bmtBlock /\ b # bbtBlock /\ ~Bad(b)
  BY DEF Unmapped
<1>2. ~HasBmt(b) /\ ~HoldsBbt(b)
  BY <1>1 DEF SafeInv, BmtPlace, BbtPlace
<1> QED
  BY <1>1, <1>2 DEF Meta, Kind, HasBmt, HoldsBbt

\* update_bmt's change of the table: the new block takes the place of the old one.
LEMMA UpdateTableMapped ==
    ASSUME TypeOK, MapInv, NEW bad \in Blocks, NEW to \in Pool, UpdateTable(bad, to),
           bad \in System \/ bad \in MappedBlocks(table), to \notin MappedBlocks(table)
    PROVE  MappedBlocks(table') = (MappedBlocks(table) \ {bad}) \cup {to}
<1>1. \A i \in DOMAIN table : table[i] \in Entry /\ table[i].mapped \in Pool
  BY EntryFields DEF TypeOK
<1>2. CASE bad \in System
  <2>1. /\ [bad |-> bad, mapped |-> to] \in Entry
        /\ table' = Append(table, [bad |-> bad, mapped |-> to])
    BY <1>2, EntryType DEF UpdateTable
  <2>2. DOMAIN table' = DOMAIN table \cup {Len(table) + 1} /\ Len(table) + 1 \notin DOMAIN table
    BY <2>1
  <2>3. table'[Len(table) + 1].mapped = to /\ \A i \in DOMAIN table : table'[i] = table[i]
    BY <2>1
  <2>4. bad \notin MappedBlocks(table)
    BY <1>1, <1>2, Regions DEF MappedBlocks
  <2> QED
    BY <2>2, <2>3, <2>4 DEF MappedBlocks
<1>3. CASE bad \notin System
  <2>1. PICK i \in DOMAIN table : table[i].mapped = bad /\ table' = [table EXCEPT ![i].mapped = to]
    BY <1>3 DEF UpdateTable, FirstOf
  <2>2. DOMAIN table' = DOMAIN table
    BY <2>1
  <2>3. \A j \in DOMAIN table : table'[j].mapped = IF j = i THEN to ELSE table[j].mapped
    BY <2>1
  <2>4. \A j \in DOMAIN table : table[j].mapped = bad => j = i
    BY <2>1 DEF MapInv, Inj
  <2> QED
    BY <2>1, <2>4 DEF MappedBlocks
<1> QED
  BY <1>2, <1>3

-----------------------------------------------------------------------------
(* Every action keeps the invariant. *)

\* Outside a recovery update_bmt ends the operation, whether it succeeds or fails.
LEMMA UpdateEnds ==
    ASSUME SafeInv, UpdateFails \/ \E v, i : UpdateReturns(v, i)
    PROVE  pc' = "idle" /\ op' = NoOp
BY DEF UpdateFails, UpdateReturns, SafeInv, OpSafe

\* A power on keeps the invariant: calc_bmt_pool_size only reads.
LEMMA SafePowerOn ==
    ASSUME TypeOK, MapInv, SafeInv, PowerOn
    PROVE  SafeInv'
<1>1. UNCHANGED <<flash, factory, table, bmtBlock, bbtBlock, bbt, poolErased, lim, op, mk>>
  BY DEF PowerOn, flashVars, ramVars
<1>2. pc = "off" /\ pc' \in {"load", "moved"}
  BY DEF PowerOn
<1>3. \A c : Same(c)
  BY <1>1, StillView
<1>4. BmtPlace'
  BY <1>2, <1>3 DEF SafeInv, BmtPlace, Loaded, MarkingFor, Rebuilding, Same
<1>5. FlashTab'
  BY <1>3 DEF SafeInv, FlashTab, TabGood, Same
<1>6. TableTab'
  BY <1>1, <1>3 DEF SafeInv, TableTab, TabGood, Same
<1>7. Sync'
  BY <1>2 DEF Sync, Loaded
<1>8. SysPlain'
  BY <1>3 DEF SafeInv, SysPlain, Same
<1>9. OpSafe'
  BY <1>1, <1>2 DEF SafeInv, OpSafe, Seeking, Replaced, Rewriting, Recovering, MarkingFor
<1>10. MarkSafe'
  BY <1>2 DEF MarkSafe
<1>11. BbtPlace'
  BY <1>1, <1>2, <1>3 DEF SafeInv, BbtPlace, Booting, Shipped, Same
<1>12. Fresh'
  BY <1>1, <1>2, <1>3 DEF SafeInv, Fresh, Same
<1>13. FreeErased'
  BY <1>1, <1>2 DEF SafeInv, FreeErased, Booting
<1> QED
  BY <1>1, <1>4, <1>5, <1>6, <1>7, <1>8, <1>9, <1>10, <1>11, <1>12, <1>13 DEF SafeInv

\* load_bmt_data keeps the invariant: there is one BMT to find, and its entries are good;
\* without one the table is empty.
LEMMA SafeLoadBmt ==
    ASSUME TypeOK, MapInv, SafeInv, LoadBmt
    PROVE  SafeInv'
<1>1. UNCHANGED <<flash, factory, bbtBlock, bbt, poolErased, lim, mk>> /\ pc = "load"
  BY DEF LoadBmt, flashVars
<1>2. \A c : Same(c)
  BY <1>1, StillView
<1>3. \A b \in Pool : HoldsBmt(b) <=> HasBmt(b)
  <2>1. \A b \in Pool : \A i \in DOMAIN flash[b].page[0].tab : flash[b].page[0].tab[i].bad < Total
    <3>1. \A b \in Pool : flash[b].page[0].tab \in Seq(Entry)
      BY BlockFields, ContentFields, Regions DEF TypeOK
    <3>2. \A e \in Entry : e.bad < Total
      BY BMTAssumption DEF Entry, System, Total
    <3> QED
      BY <3>1, <3>2
  <2>2. \A b \in Pool : b < lim
    BY DEF SafeInv, Pool, Total
  <2> QED
    BY <2>1, <2>2, Entries, Regions DEF HoldsBmt, HasBmt, Kind, MappedBlocks
<1>4. op.page = 0 => op.val.kind \notin {"BMT", "BBT"}
  BY DEF SafeInv, OpSafe
<1>5. CASE /\ \A b \in Pool : ~HasBmt(b)
           /\ table' = <<>> /\ bmtBlock' = 0 /\ op' = [NoOp EXCEPT !.k = SysCount]
           /\ pc' = "rebuild"
  <2>1. op'.val = Erased /\ op'.ret = "idle" /\ op'.after = "idle"
    BY <1>5 DEF NoOp
  <2>2. BmtPlace'
    BY <1>2, <1>5 DEF BmtPlace, Same
  <2>3. FlashTab'
    BY <1>2 DEF SafeInv, FlashTab, TabGood, Same
  <2>4. TableTab'
    BY <1>5, Entries DEF TableTab, TabGood
  <2>5. Sync'
    BY <1>2, <1>5 DEF Sync, Same
  <2>6. SysPlain'
    BY <1>2 DEF SafeInv, SysPlain, Same
  <2>7. OpSafe'
    BY <1>5, <2>1 DEF OpSafe, Seeking, Replaced, Recovering, MarkingFor, Erased
  <2>8. MarkSafe'
    BY <1>5 DEF MarkSafe
  <2>9. BbtPlace'
    BY <1>1, <1>2, <1>5, Regions DEF SafeInv, BbtPlace, Booting, Shipped, Same
  <2>10. Fresh'
    BY <1>1, <1>2, <1>5 DEF SafeInv, Fresh, Same
  <2>11. FreeErased'
    BY <1>1 DEF SafeInv, FreeErased, Booting
  <2> QED
    BY <1>1, <2>2, <2>3, <2>4, <2>5, <2>6, <2>7, <2>8, <2>9, <2>10, <2>11 DEF SafeInv
<1>6. ASSUME NEW b \in Pool, HasBmt(b), table' = flash[b].page[0].tab, bmtBlock' = b,
             pc' = "remark", UNCHANGED op
      PROVE  SafeInv'
  <2>1. Meta(b) /\ ~HoldsBbt(b) /\ bbtBlock = 0 /\ b # 0
    BY <1>1, <1>6, Regions DEF HasBmt, Meta, Kind, HoldsBbt, SafeInv, BbtPlace, Booting
  <2>2. BmtPlace'
    BY <1>2, <1>6 DEF SafeInv, BmtPlace, MarkingFor, Rebuilding, Same
  <2>3. FlashTab'
    BY <1>2 DEF SafeInv, TabGood, Same, FlashTab
  <2>4. TableTab'
    BY <1>1, <1>2, <1>6, <2>1, Entries, Regions DEF SafeInv, TableTab, TabGood, Same, FlashTab
  <2>5. Sync'
    BY <1>2, <1>6 DEF SafeInv, Sync, BmtPlace, Same
  <2>6. SysPlain'
    BY <1>2 DEF SafeInv, SysPlain, Same
  <2>7. OpSafe'
    BY <1>6 DEF SafeInv, OpSafe, Seeking, Replaced, Rewriting, Recovering, MarkingFor
  <2>8. MarkSafe'
    BY <1>6 DEF MarkSafe
  <2>9. BbtPlace'
    BY <1>1, <1>2, <1>6, <2>1 DEF SafeInv, BbtPlace, Booting, Shipped, Same
  <2>10. Fresh'
    BY <1>1, <1>2, <1>6 DEF SafeInv, Fresh, Same
  <2>11. FreeErased'
    BY <1>1 DEF SafeInv, FreeErased, Booting
  <2> QED
    BY <1>1, <2>2, <2>3, <2>4, <2>5, <2>6, <2>7, <2>8, <2>9, <2>10, <2>11 DEF SafeInv
<1> QED
  BY <1>3, <1>5, <1>6 DEF LoadBmt, LastOf

\* The marks missing after a power loss are made in the system area, which keeps the invariant.
LEMMA SafeRemark ==
    ASSUME TypeOK, MapInv, SafeInv, Remark
    PROVE  SafeInv'
<1>1. /\ UNCHANGED <<flash, factory, table, bmtBlock, bbtBlock, bbt, poolErased, lim>>
      /\ pc = "remark"
  BY DEF Remark, flashVars, ramVars
<1>2. \A c : Same(c)
  BY <1>1, StillView
<1>3. (op'.page = op.page /\ op'.val = op.val /\ op'.after = op.after) \/ op' = NoOp
  BY DEF Remark, TypeOK, OpType
<1>4. NoOp.val.kind = "erased" /\ NoOp.after = "idle"
  BY DEF NoOp, Erased
<1>5. CASE pc' \in {"remark", "bbt"} /\ UNCHANGED mk
  <2>1. BmtPlace'
    BY <1>1, <1>2, <1>5 DEF SafeInv, BmtPlace, Loaded, MarkingFor, Rebuilding, Same
  <2>2. FlashTab'
    BY <1>2 DEF SafeInv, FlashTab, TabGood, Same
  <2>3. TableTab'
    BY <1>1, <1>2 DEF SafeInv, TableTab, TabGood, Same
  <2>4. Sync'
    BY <1>1, <1>2 DEF SafeInv, Sync, Loaded, Rewriting, MarkingFor, Same
  <2>5. SysPlain'
    BY <1>2 DEF SafeInv, SysPlain, Same
  <2>6. OpSafe'
    BY <1>3, <1>4, <1>5 DEF SafeInv, OpSafe, Seeking, Replaced, Rewriting, Recovering, MarkingFor
  <2>7. MarkSafe'
    BY <1>5 DEF MarkSafe
  <2>8. BbtPlace'
    BY <1>1, <1>2, <1>5 DEF SafeInv, BbtPlace, Booting, Shipped, Same
  <2>9. Fresh'
    BY <1>1, <1>2, <1>5 DEF SafeInv, Fresh, Same
  <2>10. FreeErased'
    BY <1>1 DEF SafeInv, FreeErased, Booting
  <2> QED
    BY <1>1, <2>1, <2>2, <2>3, <2>4, <2>5, <2>6, <2>7, <2>8, <2>9, <2>10 DEF SafeInv
<1>6. ASSUME op.k < Len(table), CallMark(table[op.k + 1].bad, FALSE, "remark")
      PROVE  SafeInv'
  <2>1. table # <<>> /\ table[op.k + 1].bad \in System
    BY <1>6, OpFields, EntryFields DEF TypeOK
  <2>2. pc' = "markErase" /\ mk'.blk \in System /\ mk'.blk \notin Pool /\ mk'.next = "remark"
    BY <1>6, <2>1, Regions DEF CallMark
  <2>3. BmtPlace'
    BY <1>1, <1>2, <2>2 DEF SafeInv, BmtPlace, Loaded, MarkingFor, Rebuilding, Same
  <2>4. FlashTab'
    BY <1>2 DEF SafeInv, FlashTab, TabGood, Same
  <2>5. TableTab'
    BY <1>1, <1>2 DEF SafeInv, TableTab, TabGood, Same
  <2>6. Sync'
    BY <1>1, <1>2 DEF SafeInv, Sync, Loaded, Rewriting, MarkingFor, Same
  <2>7. SysPlain'
    BY <1>2 DEF SafeInv, SysPlain, Same
  <2>8. OpSafe'
    BY <1>3, <1>4, <2>2 DEF SafeInv, OpSafe, Seeking, Replaced, Rewriting, Recovering, MarkingFor
  <2>9. MarkSafe'
    BY <2>2 DEF MarkSafe
  <2>10. BbtPlace'
    BY <1>1, <1>2, <2>2 DEF SafeInv, BbtPlace, Booting, MarkingFor, Shipped, Same
  <2>11. Fresh'
    BY <1>2, <2>1 DEF SafeInv, Fresh, Same
  <2>12. FreeErased'
    BY <1>1 DEF SafeInv, FreeErased, Booting
  <2> QED
    BY <1>1, <2>3, <2>4, <2>5, <2>6, <2>7, <2>8, <2>9, <2>10, <2>11, <2>12 DEF SafeInv
<1> QED
  BY <1>5, <1>6 DEF Remark

\* reconstruct_bmt keeps the invariant: a block with an OOB index is good and holds no table,
\* and no index is left on a chip without a BBT.
LEMMA SafeReconstruct ==
    ASSUME TypeOK, MapInv, SafeInv, Reconstruct
    PROVE  SafeInv'
<1>1. /\ UNCHANGED <<flash, factory, bmtBlock, bbtBlock, bbt, poolErased, lim>>
      /\ pc = "rebuild"
  BY DEF Reconstruct, flashVars
<1>2. \A c : Same(c)
  BY <1>1, StillView
<1>3. (op'.page = op.page /\ op'.val = op.val /\ op'.after = op.after) \/ op' = NoOp
  BY DEF Reconstruct, TypeOK, OpType
<1>4. NoOp.val.kind = "erased" /\ NoOp.after = "idle"
  BY DEF NoOp, Erased
<1>5. CASE UNCHANGED <<table, mk>> /\ pc' \in {"rebuild", "bbt"}
  <2>1. BmtPlace'
    BY <1>1, <1>2, <1>5 DEF SafeInv, BmtPlace, Loaded, MarkingFor, Rebuilding, Same
  <2>2. FlashTab'
    BY <1>2 DEF SafeInv, FlashTab, TabGood, Same
  <2>3. TableTab'
    BY <1>1, <1>2, <1>5 DEF SafeInv, TableTab, TabGood, Same
  <2>4. Sync'
    BY <1>1, <1>2, <1>5 DEF SafeInv, Sync, Loaded, Rewriting, MarkingFor, Same
  <2>5. SysPlain'
    BY <1>2 DEF SafeInv, SysPlain, Same
  <2>6. OpSafe'
    BY <1>3, <1>4, <1>5 DEF SafeInv, OpSafe, Seeking, Replaced, Rewriting, Recovering, MarkingFor
  <2>7. MarkSafe'
    BY <1>5 DEF MarkSafe
  <2>8. BbtPlace'
    BY <1>1, <1>2, <1>5 DEF SafeInv, BbtPlace, Booting, Shipped, Same
  <2>9. Fresh'
    BY <1>1, <1>2, <1>5 DEF SafeInv, Fresh, Same
  <2>10. FreeErased'
    BY <1>1 DEF SafeInv, FreeErased, Booting
  <2> QED
    BY <1>1, <2>1, <2>2, <2>3, <2>4, <2>5, <2>6, <2>7, <2>8, <2>9, <2>10 DEF SafeInv
<1>6. ASSUME op.k \in Pool, ~Bad(op.k), flash[op.k].idx \in System,
             table' = Append(table, [bad |-> flash[op.k].idx, mapped |-> op.k]),
             \/ pc' = "rebuild" /\ UNCHANGED mk
             \/ CallMark(flash[op.k].idx, FALSE, "rebuild")
      PROVE  SafeInv'
  <2>1. flash[op.k].idx # NoIndex
    BY <1>6, BMTAssumption DEF NoIndex, System, Total
  <2>2. ~Meta(op.k) /\ \E c \in Pool : HoldsBbt(c)
    <3>1. ~HasBmt(op.k)
      BY <1>1, <1>6, Regions DEF SafeInv, BmtPlace, Loaded, Rebuilding, MarkingFor
    <3>2. ~HoldsBbt(op.k)
      BY <1>6, <2>1 DEF SafeInv, BbtPlace
    <3>3. \E c \in Pool : HoldsBbt(c)
      BY <1>6, <2>1 DEF SafeInv, Fresh
    <3> QED
      BY <1>6, <3>1, <3>2, <3>3 DEF Meta, HasBmt, HoldsBbt, Kind
  <2>3. bmtBlock = 0 /\ bbtBlock = 0 /\ 0 \notin Pool
    BY <1>1, Regions DEF SafeInv, BmtPlace, BbtPlace, Rebuilding, Booting
  <2>4. MappedBlocks(table') = MappedBlocks(table) \cup {op.k}
    <3>1. [bad |-> flash[op.k].idx, mapped |-> op.k] \in Entry
      BY <1>6, EntryType
    <3>2. DOMAIN table' = DOMAIN table \cup {Len(table) + 1}
      BY <1>6
    <3>3. table'[Len(table) + 1].mapped = op.k /\ \A i \in DOMAIN table : table'[i] = table[i]
      BY <1>6
    <3> QED
      BY <3>2, <3>3 DEF MappedBlocks
  <2>5. \/ pc' = "rebuild" /\ UNCHANGED mk
        \/ pc' = "markErase" /\ mk'.blk \in System /\ mk'.blk \notin Pool /\ mk'.next = "rebuild"
    BY <1>6, Regions DEF CallMark
  <2>6. op' # NoOp => op'.page = op.page /\ op'.val = op.val /\ op'.after = op.after
    BY <1>3
  <2>7. BmtPlace'
    BY <1>1, <1>2, <2>5 DEF SafeInv, BmtPlace, Loaded, MarkingFor, Rebuilding, Same
  <2>8. FlashTab'
    BY <1>2 DEF SafeInv, FlashTab, TabGood, Same
  <2>9. TableTab'
    BY <1>1, <1>2, <1>6, <2>2, <2>3, <2>4 DEF SafeInv, TableTab, TabGood, Same
  <2>10. Sync'
    BY <1>1, <1>2, <2>3 DEF SafeInv, Sync, BmtPlace, Loaded, MarkingFor, Same
  <2>11. SysPlain'
    BY <1>2 DEF SafeInv, SysPlain, Same
  <2>12. OpSafe'
    BY <1>3, <1>4, <2>5 DEF SafeInv, OpSafe, Seeking, Replaced, Rewriting, Recovering, MarkingFor
  <2>13. MarkSafe'
    BY <2>5 DEF MarkSafe
  <2>14. BbtPlace'
    BY <1>1, <1>2, <2>5 DEF SafeInv, BbtPlace, Booting, MarkingFor, Shipped, Same
  <2>15. Fresh'
    BY <1>2, <2>2 DEF Fresh, Same
  <2>16. FreeErased'
    BY <1>1 DEF SafeInv, FreeErased, Booting
  <2> QED
    BY <1>1, <2>7, <2>8, <2>9, <2>10, <2>11, <2>12, <2>13, <2>14, <2>15, <2>16 DEF SafeInv
<1> QED
  BY <1>5, <1>6 DEF Reconstruct

\* start_init_bbt keeps the invariant: it finds the one BBT, or scans a chip that is as it was
\* shipped.
LEMMA SafeLoadBbt ==
    ASSUME TypeOK, MapInv, SafeInv, LoadBbt
    PROVE  SafeInv'
<1>1. /\ UNCHANGED <<flash, factory, table, bmtBlock, poolErased, lim, op, mk>>
      /\ pc = "bbt"
  BY DEF LoadBbt, flashVars
<1>2. \A c : Same(c)
  BY <1>1, StillView
<1>3. CASE /\ \A b \in Pool : ~HoldsBbt(b)
           /\ \/ bbtBlock' = 0 /\ bbt' = RawUnmapped /\ pc' = "saveBmt"
              \/ pc' = "failed" /\ UNCHANGED <<bbtBlock, bbt>>
  <2>1. RawUnmapped = Shipped
    <3>1. table = <<>> /\ \A b \in System : flash[b].raw <=> b \in factory
      BY <1>3 DEF SafeInv, Fresh
    <3>2. BadBlocks(table) = {}
      BY <3>1 DEF BadBlocks
    <3>3. \A b \in 1..(SysCount - 1) : b \in System
      BY DEF System
    <3> QED
      BY <3>1, <3>2, <3>3 DEF RawUnmapped, Shipped
  <2>2. bbtBlock = 0 /\ bbtBlock' = 0 /\ 0 \notin Pool
    BY <1>1, <1>3, Regions DEF SafeInv, BbtPlace, Booting
  <2>3. BmtPlace'
    BY <1>1, <1>2, <1>3 DEF SafeInv, BmtPlace, Loaded, MarkingFor, Rebuilding, Same
  <2>4. FlashTab'
    BY <1>2 DEF SafeInv, FlashTab, TabGood, Same
  <2>5. TableTab'
    BY <1>1, <1>2, <2>2 DEF SafeInv, TableTab, TabGood, Same
  <2>6. Sync'
    BY <1>1, <1>2 DEF SafeInv, Sync, Loaded, Rewriting, MarkingFor, Same
  <2>7. SysPlain'
    BY <1>2 DEF SafeInv, SysPlain, Same
  <2>8. OpSafe'
    BY <1>1, <1>3 DEF SafeInv, OpSafe, Seeking, Replaced, Rewriting, Recovering, MarkingFor
  <2>9. MarkSafe'
    BY <1>3 DEF MarkSafe
  <2>10. BbtPlace'
    BY <1>1, <1>2, <1>3, <2>1, Regions DEF SafeInv, BbtPlace, Booting, Shipped, Same
  <2>11. Fresh'
    BY <1>1, <1>2, <1>3 DEF SafeInv, Fresh, Same
  <2>12. FreeErased'
    BY <1>1 DEF SafeInv, FreeErased, Booting
  <2> QED
    BY <1>1, <2>3, <2>4, <2>5, <2>6, <2>7, <2>8, <2>9, <2>10, <2>11, <2>12 DEF SafeInv
<1>4. ASSUME NEW b \in Pool, HoldsBbt(b), bbtBlock' = b, bbt' = flash[b].page[0].bbt,
             pc' = "saveBmt"
      PROVE  SafeInv'
  <2>1. Meta(b) /\ b # bmtBlock /\ b # 0
    BY <1>4, Regions DEF SafeInv, BbtPlace, HoldsBbt, Meta, Kind
  <2>2. BmtPlace'
    BY <1>1, <1>2, <1>4 DEF SafeInv, BmtPlace, Loaded, MarkingFor, Rebuilding, Same
  <2>3. FlashTab'
    BY <1>2 DEF SafeInv, FlashTab, TabGood, Same
  <2>4. TableTab'
    BY <1>1, <1>2, <1>4, <2>1 DEF SafeInv, TableTab, TabGood, Same
  <2>5. Sync'
    BY <1>1, <1>2 DEF SafeInv, Sync, Loaded, Rewriting, MarkingFor, Same
  <2>6. SysPlain'
    BY <1>2 DEF SafeInv, SysPlain, Same
  <2>7. OpSafe'
    BY <1>1, <1>4 DEF SafeInv, OpSafe, Seeking, Replaced, Rewriting, Recovering, MarkingFor
  <2>8. MarkSafe'
    BY <1>4 DEF MarkSafe
  <2>9. BbtPlace'
    BY <1>1, <1>2, <1>4 DEF SafeInv, BbtPlace, Booting, MarkingFor, Shipped, Same
  <2>10. Fresh'
    BY <1>2, <1>4 DEF Fresh, Same
  <2>11. FreeErased'
    BY <1>1 DEF SafeInv, FreeErased, Booting
  <2> QED
    BY <1>1, <2>2, <2>3, <2>4, <2>5, <2>6, <2>7, <2>8, <2>9, <2>10, <2>11 DEF SafeInv
<1> QED
  BY <1>3, <1>4 DEF LoadBbt, FirstOf

\* The decision whether to write the BMT keeps the invariant.
LEMMA SafeSaveBmt ==
    ASSUME TypeOK, MapInv, SafeInv, SaveBmt
    PROVE  SafeInv'
<1>1. /\ UNCHANGED <<flash, factory, table, bmtBlock, bbtBlock, bbt, poolErased, lim, mk>>
      /\ pc = "saveBmt"
  BY DEF SaveBmt, flashVars, ramVars
<1>2. \A c : Same(c)
  BY <1>1, StillView
<1>3. \/ /\ bmtBlock = 0 /\ pc' = "wbmt" /\ op'.val.kind = "erased"
         /\ op'.after = "idle" /\ op'.ret = "saveBbt"
      \/ pc' = "saveBbt" /\ UNCHANGED op
  BY DEF SaveBmt, NoOp, Erased
<1>4. BmtPlace'
  BY <1>1, <1>2, <1>3 DEF SafeInv, BmtPlace, Loaded, MarkingFor, Rebuilding, Same
<1>5. FlashTab'
  BY <1>2 DEF SafeInv, FlashTab, TabGood, Same
<1>6. TableTab'
  BY <1>1, <1>2 DEF SafeInv, TableTab, TabGood, Same
<1>7. Sync'
  BY <1>1, <1>2 DEF SafeInv, Sync, Loaded, Rewriting, MarkingFor, Same
<1>8. SysPlain'
  BY <1>2 DEF SafeInv, SysPlain, Same
<1>9. OpSafe'
  BY <1>3 DEF SafeInv, OpSafe, Seeking, Replaced, Rewriting, Recovering, MarkingFor
<1>10. MarkSafe'
  BY <1>3 DEF MarkSafe
<1>11. BbtPlace'
  BY <1>1, <1>2, <1>3 DEF SafeInv, BbtPlace, Booting, MarkingFor, Shipped, Same
<1>12. Fresh'
  BY <1>1, <1>2, <1>3 DEF SafeInv, Fresh, Rewriting, Same
<1>13. FreeErased'
  BY <1>1, <1>2, <1>3
    DEF SafeInv, FreeErased, Booting, Replaced, Rewriting, MarkingFor, Unmapped, Same
<1> QED
  BY <1>1, <1>4, <1>5, <1>6, <1>7, <1>8, <1>9, <1>10, <1>11, <1>12, <1>13 DEF SafeInv

\* The decision whether to write the BBT keeps the invariant: U-Boot comes up with a BBT on
\* flash.
LEMMA SafeSaveBbt ==
    ASSUME TypeOK, MapInv, SafeInv, SaveBbt
    PROVE  SafeInv'
<1>1. /\ UNCHANGED <<flash, factory, table, bmtBlock, bbtBlock, bbt, poolErased, lim, mk>>
      /\ pc = "saveBbt" /\ pc' = IF bbtBlock = 0 THEN "wbbt" ELSE "idle"
  BY DEF SaveBbt, flashVars, ramVars
<1>2. \A c : Same(c)
  BY <1>1, StillView
<1>3. op'.val.kind = "erased" /\ op'.after = "idle" /\ op'.ret = "idle"
  BY DEF SaveBbt, NoOp, Erased
<1>4. bbtBlock # 0 => bbtBlock \in Pool
  BY DEF TypeOK
<1>5. BmtPlace'
  BY <1>1, <1>2 DEF SafeInv, BmtPlace, Loaded, MarkingFor, Rebuilding, Same
<1>6. FlashTab'
  BY <1>2 DEF SafeInv, FlashTab, TabGood, Same
<1>7. TableTab'
  BY <1>1, <1>2 DEF SafeInv, TableTab, TabGood, Same
<1>8. Sync'
  BY <1>1, <1>2 DEF SafeInv, Sync, Loaded, Rewriting, MarkingFor, Same
<1>9. SysPlain'
  BY <1>2 DEF SafeInv, SysPlain, Same
<1>10. OpSafe'
  BY <1>1, <1>3 DEF OpSafe, Seeking, Replaced, Recovering, MarkingFor
<1>11. MarkSafe'
  BY <1>1 DEF MarkSafe
<1>12. BbtPlace'
  BY <1>1, <1>2 DEF SafeInv, BbtPlace, Booting, MarkingFor, Shipped, Same
<1>13. Fresh'
  BY <1>1, <1>2, <1>4 DEF SafeInv, Fresh, BbtPlace, Same
<1>14. FreeErased'
  BY <1>1, <1>2 DEF SafeInv, FreeErased, Booting, Replaced, Rewriting, MarkingFor, Unmapped, Same
<1> QED
  BY <1>1, <1>5, <1>6, <1>7, <1>8, <1>9, <1>10, <1>11, <1>12, <1>13, <1>14 DEF SafeInv

\* The choice of a block for the BMT keeps the invariant: it is free and blank, and no other
\* BMT is left.
LEMMA SafeBmtFind ==
    ASSUME TypeOK, MapInv, SafeInv, BmtFind
    PROVE  SafeInv'
<1>1. /\ UNCHANGED <<flash, factory, table, bbtBlock, bbt, poolErased, lim, mk>>
      /\ pc = "wbmt" /\ bmtBlock = 0
  BY DEF BmtFind, flashVars
<1>2. \A c : Same(c)
  BY <1>1, StillView
<1>3. ASSUME NEW b \in Pool, b \in Unmapped, bmtBlock' = b, pc' = "wbmtWrite", UNCHANGED op
      PROVE  SafeInv'
  <2>1. b # 0 /\ b # bbtBlock /\ ~Bad(b) /\ b \notin MappedBlocks(table)
    BY <1>3, Regions DEF Unmapped
  <2>2. ~HoldsBbt(b)
    BY <1>1, <2>1 DEF SafeInv, BbtPlace, Booting, MarkingFor
  <2>3. BmtPlace'
    BY <1>1, <1>2, <1>3, Regions DEF SafeInv, BmtPlace, Loaded, MarkingFor, Rebuilding, Same
  <2>4. FlashTab'
    BY <1>2 DEF SafeInv, FlashTab, TabGood, Same
  <2>5. TableTab'
    BY <1>1, <1>2, <1>3, <2>1 DEF SafeInv, TableTab, TabGood, Same
  <2>6. Sync'
    BY <1>1, <1>2, Regions DEF SafeInv, Sync, BmtPlace, Loaded, MarkingFor, Same
  <2>7. SysPlain'
    BY <1>2 DEF SafeInv, SysPlain, Same
  <2>8. OpSafe'
    BY <1>1, <1>3 DEF SafeInv, OpSafe, Seeking, Replaced, Rewriting, Recovering, MarkingFor
  <2>9. MarkSafe'
    BY <1>3 DEF MarkSafe
  <2>10. BbtPlace'
    BY <1>1, <1>2, <1>3, <2>2 DEF SafeInv, BbtPlace, Booting, MarkingFor, Shipped, Same
  <2>11. Fresh'
    BY <1>1, <1>2, <1>3 DEF SafeInv, Fresh, MarkingFor, Same
  <2>12. FreeErased'
    BY <1>1, <1>2, <1>3, Regions
      DEF SafeInv, FreeErased, Booting, Replaced, MarkingFor, Unmapped, Same
  <2> QED
    BY <1>1, <2>3, <2>4, <2>5, <2>6, <2>7, <2>8, <2>9, <2>10, <2>11, <2>12 DEF SafeInv
<1>4. CASE Unmapped = {} /\ op' = NoOp /\ UNCHANGED bmtBlock
           /\ pc' = IF op.ret = "saveBbt" THEN "failed" ELSE "idle"
  <2>1. op'.val.kind = "erased" /\ op'.after = "idle" /\ op'.ret = "idle"
    BY <1>4 DEF NoOp, Erased
  <2>2. pc' = IF op.ret = "saveBbt" THEN "failed" ELSE "idle"
    BY <1>4
  <2>3. Unmapped' = {}
    BY <1>1, <1>2, <1>4 DEF Unmapped, Same
  <2>4. BmtPlace'
    BY <1>1, <1>2, <2>2, Regions DEF SafeInv, BmtPlace, Loaded, MarkingFor, Rebuilding, Same
  <2>5. FlashTab'
    BY <1>2 DEF SafeInv, FlashTab, TabGood, Same
  <2>6. TableTab'
    BY <1>1, <1>2, <1>4 DEF SafeInv, TableTab, TabGood, Same
  <2>7. Sync'
    BY <1>1, <1>2, Regions DEF SafeInv, Sync, BmtPlace, Loaded, MarkingFor, Same
  <2>8. SysPlain'
    BY <1>2 DEF SafeInv, SysPlain, Same
  <2>9. OpSafe'
    BY <2>1, <2>2 DEF OpSafe, Seeking, Replaced, Recovering, MarkingFor
  <2>10. MarkSafe'
    BY <2>2 DEF MarkSafe
  <2>11. BbtPlace'
    BY <1>1, <1>2, <1>4, <2>2 DEF SafeInv, BbtPlace, Booting, MarkingFor, Shipped, Same
  <2>12. Fresh'
    BY <1>1, <1>2, <2>2 DEF SafeInv, Fresh, MarkingFor, Same
  <2>13. FreeErased'
    BY <2>2, <2>3 DEF FreeErased, Booting, MarkingFor
  <2> QED
    BY <1>1, <2>4, <2>5, <2>6, <2>7, <2>8, <2>9, <2>10, <2>11, <2>12, <2>13 DEF SafeInv
<1> QED
  BY <1>3, <1>4, UpdateEnds DEF BmtFind, LastOf

\* The erase before the BMT is rewritten keeps the invariant, and so does its failure, which
\* gives the block up.
LEMMA SafeBmtErase ==
    ASSUME TypeOK, MapInv, SafeInv, BmtErase
    PROVE  SafeInv'
<1>1. /\ UNCHANGED <<factory, table, bbtBlock, bbt, poolErased, lim, op>>
      /\ pc = "wbmt" /\ bmtBlock # 0
  BY DEF BmtErase
<1>2. bmtBlock \in Pool /\ bmtBlock \in Blocks
  BY Regions DEF BmtErase, TypeOK
<1>3. CASE flash' = EraseOf(bmtBlock) /\ pc' = "wbmtWrite" /\ UNCHANGED <<bmtBlock, mk>>
  <2>1. \A c \in Blocks : IF c = bmtBlock THEN Wiped(c) ELSE Same(c)
    BY <1>2, <1>3, EraseView DEF TypeOK
  <2>2. BmtPlace'
    BY <1>1, <1>3, <2>1, Regions DEF SafeInv, BmtPlace, Loaded, MarkingFor, Rebuilding, Same, Wiped
  <2>3. FlashTab'
    BY <2>1, Entries, Regions DEF SafeInv, FlashTab, TabGood, Same, Wiped
  <2>4. TableTab'
    BY <1>1, <1>3, <2>1, Entries DEF SafeInv, TableTab, TabGood, Same
  <2>5. Sync'
    BY <1>1, <2>1, Regions DEF SafeInv, Sync, BmtPlace, Loaded, Same, Wiped
  <2>6. SysPlain'
    BY <2>1, Regions DEF SafeInv, SysPlain, Same, Wiped
  <2>7. OpSafe'
    BY <1>1, <1>3 DEF SafeInv, OpSafe, Seeking, Replaced, Rewriting, Recovering, MarkingFor
  <2>8. MarkSafe'
    BY <1>3 DEF MarkSafe
  <2>9. BbtPlace'
    BY <1>1, <1>3, <2>1, Regions DEF SafeInv, BbtPlace, Booting, MarkingFor, Shipped, Same, Wiped
  <2>10. Fresh'
    BY <1>1, <1>2, <1>3, <2>1, Entries, Regions
      DEF SafeInv, Fresh, BbtPlace, Rewriting, Booting, MarkingFor, Same, Wiped, Blank
  <2>11. FreeErased'
    BY <1>1, <1>3, <2>1, Regions
      DEF SafeInv, FreeErased, Booting, Replaced, MarkingFor, Unmapped, Same
  <2> QED
    BY <1>1, <2>2, <2>3, <2>4, <2>5, <2>6, <2>7, <2>8, <2>9, <2>10, <2>11 DEF SafeInv
<1>4. CASE GiveUpBmt /\ UNCHANGED flash
  <2>1. \A c : Same(c)
    BY <1>4, StillView
  <2>2. bmtBlock' = 0 /\ pc' = "markErase" /\ mk'.blk = bmtBlock /\ mk'.next = "wbmt"
    BY <1>4 DEF GiveUpBmt, CallMark
  <2>3. ~HoldsBbt(bmtBlock) /\ bmtBlock # bbtBlock /\ bmtBlock \notin MappedBlocks(table)
    BY <1>1, <1>2 DEF SafeInv, BbtPlace, TableTab
  <2>4. BmtPlace'
    BY <1>1, <2>1, <2>2 DEF SafeInv, BmtPlace, Loaded, MarkingFor, Same
  <2>5. FlashTab'
    BY <2>1 DEF SafeInv, FlashTab, TabGood, Same
  <2>6. TableTab'
    BY <1>1, <2>1, <2>2, Entries, Regions DEF SafeInv, TableTab, TabGood, Same
  <2>7. Sync'
    BY <2>2 DEF Sync, Rewriting, MarkingFor
  <2>8. SysPlain'
    BY <2>1 DEF SafeInv, SysPlain, Same
  <2>9. OpSafe'
    BY <1>1, <2>2 DEF SafeInv, OpSafe, Seeking, Replaced, Rewriting, Recovering, MarkingFor
  <2>10. MarkSafe'
    BY <1>1, <1>2, <2>2, <2>3 DEF MarkSafe
  <2>11. BbtPlace'
    BY <1>1, <2>1, <2>2, Regions DEF SafeInv, BbtPlace, Booting, MarkingFor, Shipped, Same
  <2>12. Fresh'
    BY <1>1, <2>1, <2>2 DEF SafeInv, Fresh, Rewriting, MarkingFor, Same
  <2>13. FreeErased'
    BY <1>1, <2>1, <2>2
      DEF SafeInv, FreeErased, Booting, Replaced, Rewriting, MarkingFor, Unmapped, Same
  <2> QED
    BY <1>1, <2>4, <2>5, <2>6, <2>7, <2>8, <2>9, <2>10, <2>11, <2>12, <2>13 DEF SafeInv
<1> QED
  BY <1>3, <1>4 DEF BmtErase

\* The write of the BMT keeps the invariant: flash and RAM agree again, and the entries it
\* holds are good; a failure gives the block up.
LEMMA SafeBmtWrite ==
    ASSUME TypeOK, MapInv, SafeInv, BmtWrite
    PROVE  SafeInv'
<1>1. /\ UNCHANGED <<factory, table, bbtBlock, bbt, poolErased, lim, op>>
      /\ pc = "wbmtWrite"
  BY DEF BmtWrite
<1>2. /\ bmtBlock \in Pool /\ bmtBlock \in Blocks /\ ~HoldsBbt(bmtBlock) /\ bmtBlock # bbtBlock
      /\ bmtBlock \notin MappedBlocks(table) /\ \A b \in Pool : ~HasBmt(b)
  BY <1>1, Regions DEF TypeOK, SafeInv, BmtPlace, BbtPlace, TableTab
<1>3. CASE /\ flash' = Programmed(bmtBlock, 0, BmtPage(table), NoIndex)
           /\ pc' = op.ret /\ UNCHANGED <<bmtBlock, mk>>
  <2>1. /\ \A c \in Blocks : c # bmtBlock => Same(c)
        /\ \A c \in Blocks : c = bmtBlock => /\ Bad(c)' <=> Bad(c)
                                             /\ flash'[c].idx = flash[c].idx
                                             /\ flash'[c].page[0] \in {BmtPage(table), Garbage}
    BY <1>2, <1>3, TableView DEF TypeOK
  <2>2. \A c \in Blocks : c = bmtBlock => /\ ~HoldsBbt(c)'
                                          /\ HasBmt(c)' => flash'[c].page[0].tab = table
    BY <2>1 DEF HoldsBbt, HasBmt, Kind, BmtPage, Garbage
  <2>3. pc' \in {"idle", "markbad", "saveBbt"}
    BY <1>3, OpFields DEF TypeOK
  <2>4. BmtPlace'
    BY <1>2, <1>3, <2>1, <2>3, Regions DEF BmtPlace, MarkingFor, Rebuilding, Same
  <2>5. FlashTab'
    BY <1>2, <2>1, <2>2, Entries, Regions DEF SafeInv, FlashTab, TabGood, Same, TableTab
  <2>6. TableTab'
    BY <1>1, <1>3, <2>1, Entries DEF SafeInv, TableTab, TabGood, Same
  <2>7. Sync'
    BY <1>1, <2>1, <2>2, Regions DEF SafeInv, Sync, Loaded, Rewriting, MarkingFor, Same
  <2>8. SysPlain'
    BY <1>2, <2>1, Regions DEF SafeInv, SysPlain, Same
  <2>9. OpSafe'
    BY <1>1, <1>3, <2>3 DEF SafeInv, OpSafe, Seeking, Replaced, Recovering, MarkingFor
  <2>10. MarkSafe'
    BY <2>3 DEF MarkSafe
  <2>11. BbtPlace'
    BY <1>1, <1>3, <2>1, <2>2, <2>3, Regions
      DEF SafeInv, BbtPlace, Booting, MarkingFor, Shipped, Same
  <2>12. Fresh'
    BY <1>1, <1>2, <1>3, <2>1, <2>2, Regions DEF SafeInv, Fresh, MarkingFor, Same
  <2>13. FreeErased'
    BY <1>1, <1>3, <2>1, <2>3, Regions
      DEF SafeInv, FreeErased, Booting, Replaced, MarkingFor, Unmapped, Same
  <2> QED
    BY <1>1, <2>4, <2>5, <2>6, <2>7, <2>8, <2>9, <2>10, <2>11, <2>12, <2>13 DEF SafeInv
<1>4. CASE GiveUpBmt /\ flash' = Spoilt(bmtBlock, 0)
  <2>1. ~Meta(bmtBlock) \/ Bad(bmtBlock)
    BY <1>2 DEF HasBmt, HoldsBbt, Meta, Kind
  <2>2. /\ \A c \in Blocks : c # bmtBlock => Same(c)
        /\ \A c \in Blocks : c = bmtBlock => /\ Bad(c)' <=> Bad(c)
                                             /\ flash'[c].idx = flash[c].idx
                                             /\ ~HasBmt(c)' /\ ~HoldsBbt(c)'
    <3>1. \A c \in Blocks : c # bmtBlock => flash'[c] = flash[c]
      BY <1>4 DEF Spoilt
    <3>2. /\ flash'[bmtBlock].raw = flash[bmtBlock].raw
          /\ flash'[bmtBlock].later = flash[bmtBlock].later
          /\ flash'[bmtBlock].idx = flash[bmtBlock].idx /\ flash'[bmtBlock].page[0] = Garbage
      BY <1>4, Regions DEF Spoilt, TypeOK, Block
    <3> QED
      BY <3>1, <3>2, SameView DEF Bad, HasBmt, HoldsBbt, Kind, Garbage
  <2>3. bmtBlock' = 0 /\ pc' = "markErase" /\ mk'.blk = bmtBlock /\ mk'.next = "wbmt"
    BY <1>4 DEF GiveUpBmt, CallMark
  <2>4. BmtPlace'
    BY <1>2, <2>2, <2>3, Regions DEF BmtPlace, Same
  <2>5. FlashTab'
    BY <1>2, <2>2, Regions DEF FlashTab, Same
  <2>6. TableTab'
    BY <1>1, <2>2, <2>3, Entries, Regions DEF SafeInv, TableTab, TabGood, Same
  <2>7. Sync'
    BY <2>3 DEF Sync, Rewriting, MarkingFor
  <2>8. SysPlain'
    BY <1>2, <2>2, Regions DEF SafeInv, SysPlain, Same
  <2>9. OpSafe'
    BY <1>1, <2>3 DEF SafeInv, OpSafe, Seeking, Replaced, Recovering, MarkingFor
  <2>10. MarkSafe'
    BY <1>1, <1>2, <2>3 DEF MarkSafe
  <2>11. BbtPlace'
    BY <1>1, <2>2, <2>3, Regions DEF SafeInv, BbtPlace, Booting, MarkingFor, Shipped, Same
  <2>12. Fresh'
    BY <1>1, <1>2, <2>2, <2>3, Regions DEF SafeInv, Fresh, Rewriting, MarkingFor, Same
  <2>13. FreeErased'
    BY <1>1, <2>2, <2>3, Regions
      DEF SafeInv, FreeErased, Booting, Replaced, Rewriting, MarkingFor, Unmapped, Same
  <2> QED
    BY <1>1, <2>4, <2>5, <2>6, <2>7, <2>8, <2>9, <2>10, <2>11, <2>12, <2>13 DEF SafeInv
<1> QED
  BY <1>3, <1>4 DEF BmtWrite

\* The write of the BBT keeps the invariant: the list written is the shipped one, as nothing
\* was marked before.
LEMMA SafeBbtWrite ==
    ASSUME TypeOK, MapInv, SafeInv, BbtWrite
    PROVE  SafeInv'
<1>1. /\ UNCHANGED <<factory, table, bmtBlock, bbt, poolErased, lim, op>>
      /\ pc = "wbbt" /\ poolErased
  BY DEF BbtWrite
<1>2. bbtBlock = 0 /\ bbt = Shipped /\ \A c \in Pool : ~HoldsBbt(c)
  <2>1. \/ bbtBlock = 0
        \/ \E c \in Pool : c = bbtBlock
    BY DEF TypeOK
  <2> QED
    BY <1>1, Regions DEF SafeInv, BbtPlace, Booting, MarkingFor
<1>3. ASSUME NEW b \in Pool, b \in Unmapped
      PROVE  /\ b \in Blocks /\ b # 0 /\ b # bmtBlock /\ ~Bad(b) /\ b \notin MappedBlocks(table)
             /\ flash[b] = Blank /\ ~HasBmt(b) /\ ~Meta(b)
  <2>1. b \in Blocks /\ b # 0 /\ b # bmtBlock /\ ~Bad(b) /\ b \notin MappedBlocks(table)
    BY <1>3, Regions DEF Unmapped
  <2>2. flash[b] = Blank
    BY <1>1, <1>3 DEF SafeInv, FreeErased, Replaced, Rewriting, MarkingFor
  <2> QED
    BY <2>1, Regions DEF Blank, Erased
<1>4. ASSUME NEW b \in Pool, b \in Unmapped, flash' = Programmed(b, 0, BbtPage(bbt), NoIndex),
             bbtBlock' = b, pc' = "idle", UNCHANGED mk
      PROVE  SafeInv'
  <2>1. /\ \A c \in Blocks : c # b => Same(c)
        /\ Bad(b)' <=> Bad(b)
        /\ flash'[b].idx = flash[b].idx
        /\ flash'[b].page[0] = BbtPage(bbt)
    BY <1>3, <1>4, TableView DEF TypeOK
  <2>2. HoldsBbt(b)' /\ ~HasBmt(b)' /\ flash'[b].page[0].bbt = bbt /\ flash'[b].idx = NoIndex
    BY <1>3, <1>4, <2>1 DEF HoldsBbt, HasBmt, Kind, BbtPage, Blank
  <2>3. b \in Blocks /\ b # 0 /\ b # bmtBlock /\ ~Bad(b) /\ b \notin MappedBlocks(table)
    BY <1>3, <1>4
  <2>4. BmtPlace'
    BY <1>1, <1>4, <2>1, <2>2, Regions DEF SafeInv, BmtPlace, Loaded, MarkingFor, Rebuilding, Same
  <2>5. FlashTab'
    BY <1>1, <2>1, <2>2, <2>3, Entries, Regions
      DEF SafeInv, FlashTab, TabGood, Same, Sync, Loaded, Rewriting, MarkingFor
  <2>6. TableTab'
    BY <1>1, <1>4, <2>1, <2>3, Entries DEF SafeInv, TableTab, TabGood, Same
  <2>7. Sync'
    BY <1>1, <2>1, <2>2, Regions DEF SafeInv, Sync, Loaded, Rewriting, MarkingFor, Same
  <2>8. SysPlain'
    BY <2>1, Regions DEF SafeInv, SysPlain, Same
  <2>9. OpSafe'
    BY <1>1, <1>4 DEF SafeInv, OpSafe, Seeking, Replaced, Rewriting, Recovering, MarkingFor
  <2>10. MarkSafe'
    BY <1>4 DEF MarkSafe
  <2>11. BbtPlace'
    BY <1>1, <1>4, <2>1, <2>2, <2>3, Regions
      DEF SafeInv, BbtPlace, Booting, MarkingFor, Shipped, Same
  <2>12. Fresh'
    BY <2>2 DEF Fresh
  <2>13. FreeErased'
    BY <1>1, <1>2, <1>4, <2>1, Regions
      DEF SafeInv, FreeErased, Booting, Replaced, Rewriting, MarkingFor, Unmapped, Same
  <2> QED
    BY <1>1, <2>4, <2>5, <2>6, <2>7, <2>8, <2>9, <2>10, <2>11, <2>12, <2>13 DEF SafeInv
<1>5. ASSUME NEW b \in Pool, b \in Unmapped, flash' = Spoilt(b, 0), CallMark(b, TRUE, "wbbt"),
             UNCHANGED bbtBlock
      PROVE  SafeInv'
  <2>1. \A c \in Blocks : IF c = b THEN Filled(c) /\ flash'[c].idx = flash[c].idx ELSE Same(c)
    BY <1>3, <1>5, SpoilView DEF TypeOK
  <2>2. pc' = "markErase" /\ mk'.blk = b /\ mk'.next = "wbbt"
    BY <1>5 DEF CallMark
  <2>3. /\ b \in Blocks /\ b # 0 /\ b # bmtBlock /\ ~Bad(b)
        /\ b \notin MappedBlocks(table) /\ ~HasBmt(b)
    BY <1>3, <1>5
  <2>4. BmtPlace'
    BY <1>1, <2>1, <2>2, Regions DEF SafeInv, BmtPlace, Loaded, MarkingFor, Rebuilding, Same, Filled
  <2>5. FlashTab'
    BY <2>1, Entries, Regions DEF SafeInv, FlashTab, TabGood, Same, Filled
  <2>6. TableTab'
    BY <1>1, <1>5, <2>1, Entries DEF SafeInv, TableTab, TabGood, Same, Filled
  <2>7. Sync'
    BY <1>1, <2>1, Regions DEF SafeInv, Sync, Loaded, Rewriting, MarkingFor, Same, Filled
  <2>8. SysPlain'
    BY <2>1, Regions DEF SafeInv, SysPlain, Same
  <2>9. OpSafe'
    BY <1>1, <2>2 DEF SafeInv, OpSafe, Seeking, Replaced, Rewriting, Recovering, MarkingFor
  <2>10. MarkSafe'
    BY <1>1, <1>2, <1>5, <2>2, <2>3 DEF MarkSafe
  <2>11. BbtPlace'
    BY <1>1, <1>5, <2>1, Regions DEF SafeInv, BbtPlace, Booting, MarkingFor, Shipped, Same, Filled
  <2>12. Fresh'
    BY <1>1, <2>1, <2>2, Regions DEF SafeInv, Fresh, BbtPlace, Booting, MarkingFor, Same, Filled
  <2>13. FreeErased'
    BY <1>1, <1>5, <2>1, <2>2, Regions
      DEF SafeInv, FreeErased, Booting, Replaced, Rewriting, MarkingFor, Unmapped, Same
  <2> QED
    BY <1>1, <2>4, <2>5, <2>6, <2>7, <2>8, <2>9, <2>10, <2>11, <2>12, <2>13 DEF SafeInv
<1>6. CASE pc' = "failed" /\ UNCHANGED <<flash, bbtBlock, mk>>
  <2>1. \A c : Same(c)
    BY <1>6, StillView
  <2>2. BmtPlace'
    BY <1>1, <1>6, <2>1 DEF SafeInv, BmtPlace, Loaded, MarkingFor, Rebuilding, Same
  <2>3. FlashTab'
    BY <2>1 DEF SafeInv, FlashTab, TabGood, Same
  <2>4. TableTab'
    BY <1>1, <1>6, <2>1 DEF SafeInv, TableTab, TabGood, Same
  <2>5. Sync'
    BY <1>1, <2>1 DEF SafeInv, Sync, Loaded, Rewriting, MarkingFor, Same
  <2>6. SysPlain'
    BY <2>1 DEF SafeInv, SysPlain, Same
  <2>7. OpSafe'
    BY <1>1, <1>6 DEF SafeInv, OpSafe, Seeking, Replaced, Rewriting, Recovering, MarkingFor
  <2>8. MarkSafe'
    BY <1>6 DEF MarkSafe
  <2>9. BbtPlace'
    BY <1>2, <1>6, <2>1 DEF BbtPlace, Same
  <2>10. Fresh'
    BY <1>1, <1>6, <2>1 DEF SafeInv, Fresh, Same
  <2>11. FreeErased'
    BY <1>1, <1>6, <2>1
      DEF SafeInv, FreeErased, Booting, Replaced, Rewriting, MarkingFor, Unmapped, Same
  <2> QED
    BY <1>1, <2>2, <2>3, <2>4, <2>5, <2>6, <2>7, <2>8, <2>9, <2>10, <2>11 DEF SafeInv
<1> QED
  BY <1>4, <1>5, <1>6 DEF BbtWrite, FirstOf

\* The erase of mark_block_bad_bmt keeps the invariant: the block is not in use.
LEMMA SafeMarkErase ==
    ASSUME TypeOK, MapInv, SafeInv, MarkErase
    PROVE  SafeInv'
<1>1. /\ UNCHANGED <<factory, table, bmtBlock, bbtBlock, bbt, poolErased, lim, op, mk>>
      /\ pc = "markErase" /\ pc' = "markWrite"
  BY DEF MarkErase, ramVars
<1>2. mk.blk \in Blocks
  BY MarkFields DEF TypeOK
<1>3. mk.blk \in Pool => /\ mk.blk \notin MappedBlocks(table) /\ mk.blk # bbtBlock
                         /\ ~HoldsBbt(mk.blk) /\ ~Booting
  BY <1>1, Regions DEF SafeInv, MarkSafe, BbtPlace, Booting, MarkingFor
<1>4. CASE UNCHANGED flash
  <2>1. \A c : Same(c)
    BY <1>4, StillView
  <2>2. BmtPlace'
    BY <1>1, <2>1 DEF SafeInv, BmtPlace, Loaded, MarkingFor, Rebuilding, Same
  <2>3. FlashTab'
    BY <2>1 DEF SafeInv, FlashTab, TabGood, Same
  <2>4. TableTab'
    BY <1>1, <2>1 DEF SafeInv, TableTab, TabGood, Same
  <2>5. Sync'
    BY <1>1, <2>1 DEF SafeInv, Sync, Loaded, Rewriting, MarkingFor, Same
  <2>6. SysPlain'
    BY <2>1 DEF SafeInv, SysPlain, Same
  <2>7. OpSafe'
    BY <1>1 DEF SafeInv, OpSafe, Seeking, Replaced, Rewriting, Recovering, MarkingFor
  <2>8. MarkSafe'
    BY <1>1 DEF SafeInv, MarkSafe
  <2>9. BbtPlace'
    BY <1>1, <2>1 DEF SafeInv, BbtPlace, Booting, MarkingFor, Shipped, Same
  <2>10. Fresh'
    BY <1>1, <2>1 DEF SafeInv, Fresh, Rewriting, MarkingFor, Same
  <2>11. FreeErased'
    BY <1>1, <2>1 DEF SafeInv, FreeErased, Booting, Replaced, Rewriting, MarkingFor, Unmapped, Same
  <2> QED
    BY <1>1, <2>2, <2>3, <2>4, <2>5, <2>6, <2>7, <2>8, <2>9, <2>10, <2>11 DEF SafeInv
<1>5. CASE flash' = EraseOf(mk.blk)
  <2>1. \A c \in Blocks : IF c = mk.blk THEN Wiped(c) ELSE Same(c)
    BY <1>2, <1>5, EraseView DEF TypeOK
  <2>2. \A b \in System : b = mk.blk => \E c \in Pool : HoldsBbt(c)
    BY <1>1, Regions DEF SafeInv, Fresh, MarkSafe, MarkingFor, Rewriting
  <2>3. BmtPlace'
    BY <1>1, <2>1, Regions DEF SafeInv, BmtPlace, Loaded, MarkingFor, Rebuilding, Same, Wiped
  <2>4. FlashTab'
    BY <2>1, Entries, Regions DEF SafeInv, FlashTab, TabGood, Same, Wiped
  <2>5. TableTab'
    BY <1>1, <2>1, Entries DEF SafeInv, TableTab, TabGood, Same, Wiped
  <2>6. Sync'
    BY <1>1, <2>1, Regions DEF SafeInv, Sync, Loaded, Rewriting, MarkingFor, Same, Wiped
  <2>7. SysPlain'
    BY <2>1, Regions DEF SafeInv, SysPlain, Same, Wiped
  <2>8. OpSafe'
    BY <1>1 DEF SafeInv, OpSafe, Seeking, Replaced, Rewriting, Recovering, MarkingFor
  <2>9. MarkSafe'
    BY <1>1 DEF SafeInv, MarkSafe
  <2>10. BbtPlace'
    BY <1>1, <1>3, <2>1, Regions DEF SafeInv, BbtPlace, Booting, MarkingFor, Shipped, Same, Wiped
  <2>11. Fresh'
    BY <1>2, <1>3, <2>1, <2>2, Entries, Regions DEF SafeInv, Booting, MarkingFor, Same, Wiped, Blank
  <2>12. FreeErased'
    BY <1>1, <2>1, Regions
      DEF SafeInv, FreeErased, Booting, Replaced, Rewriting, MarkingFor, Unmapped, Same
  <2> QED
    BY <1>1, <2>3, <2>4, <2>5, <2>6, <2>7, <2>8, <2>9, <2>10, <2>11, <2>12 DEF SafeInv
<1> QED
  BY <1>4, <1>5 DEF MarkErase

\* The mark of mark_block_bad_bmt keeps the invariant, when it does not fail.
LEMMA SafeMarkWrite ==
    ASSUME TypeOK, MapInv, SafeInv, MarkWrite, "mark" \notin FaultKinds
    PROVE  SafeInv'
<1>1. /\ UNCHANGED <<factory, table, bmtBlock, bbtBlock, bbt, poolErased, lim, op>>
      /\ pc = "markWrite" /\ pc' = mk.next
  BY DEF MarkWrite, ramVars
<1>2. mk.blk \in Blocks /\ pc' \in {"remark", "rebuild", "find", "wbmt", "wbbt", "done"}
  BY <1>1 DEF TypeOK, MarkCall, SafeInv, MarkSafe
<1>3. mk.blk \in Pool => /\ mk.blk \notin MappedBlocks(table) /\ mk.blk # bbtBlock
                         /\ ~HoldsBbt(mk.blk) /\ ~Booting
  BY <1>1, Regions DEF SafeInv, MarkSafe, BbtPlace, Booting, MarkingFor
<1>4. /\ \A c \in Blocks : c # mk.blk => Same(c)
      /\ \A c \in Blocks : c = mk.blk => /\ Bad(c)' /\ ~HasBmt(c)' /\ ~HoldsBbt(c)'
                                         /\ Meta(c)' <=> Meta(c)
  BY <1>2, MarkView DEF MarkWrite, Fail, TypeOK
<1>5. \A b \in System : b = mk.blk => \E c \in Pool : HoldsBbt(c)
  BY <1>1, Regions DEF SafeInv, Fresh, MarkSafe, MarkingFor, Rewriting
<1>6. \A b \in Pool : HasBmt(b) => mk.blk \notin MappedBlocks(flash[b].page[0].tab)
  <2> SUFFICES ASSUME NEW b \in Pool, HasBmt(b), mk.blk \in MappedBlocks(flash[b].page[0].tab)
               PROVE  FALSE
    OBVIOUS
  <2>1. mk.blk \in Pool /\ ~Meta(mk.blk) /\ Meta(b)
    BY Entries, Regions DEF SafeInv, FlashTab, TabGood, HasBmt, Meta
  <2>2. CASE Rewriting
    BY <1>1, <2>1, <2>2, Regions DEF SafeInv, BmtPlace, Loaded, Rewriting
  <2>3. CASE ~Rewriting
    BY <1>1, <1>3, <2>1, <2>3 DEF SafeInv, Sync, Loaded
  <2> QED
    BY <2>2, <2>3
<1>7. BmtPlace'
  BY <1>1, <1>2, <1>4, Regions DEF SafeInv, BmtPlace, Loaded, MarkingFor, Rebuilding, Same
<1>8. FlashTab'
  BY <1>4, <1>6, Entries, Regions DEF SafeInv, FlashTab, TabGood, Same
<1>9. TableTab'
  BY <1>1, <1>3, <1>4, Entries DEF SafeInv, TableTab, TabGood, Same
<1>10. Sync'
  BY <1>1, <1>4, Regions DEF SafeInv, Sync, Loaded, Rewriting, MarkingFor, Same
<1>11. SysPlain'
  BY <1>4, Regions DEF SafeInv, SysPlain, Same
<1>12. OpSafe'
  BY <1>1, <1>2, <1>4
    DEF SafeInv, OpSafe, Seeking, Replaced, Rewriting, Recovering, MarkingFor, MarkSafe
<1>13. MarkSafe'
  BY <1>2 DEF MarkSafe
<1>14. BbtPlace'
  BY <1>1, <1>2, <1>3, <1>4, Regions DEF SafeInv, BbtPlace, Booting, MarkingFor, Shipped, Same
<1>15. Fresh'
  BY <1>1, <1>3, <1>4, <1>5, Regions DEF SafeInv, Fresh, Rewriting, MarkingFor, Same
<1>16. FreeErased'
  BY <1>1, <1>2, <1>4, Regions
    DEF SafeInv, FreeErased, Booting, Replaced, Rewriting, MarkingFor, Unmapped, Same
<1> QED
  BY <1>1, <1>7, <1>8, <1>9, <1>10, <1>11, <1>12, <1>13, <1>14, <1>15, <1>16 DEF SafeInv

\* The end of update_bmt, which has the old block marked, keeps the invariant: no table leads
\* to that block any more.
LEMMA SafeMarkOld ==
    ASSUME TypeOK, MapInv, SafeInv, MarkOld
    PROVE  SafeInv'
<1>1. /\ UNCHANGED <<flash, factory, table, bmtBlock, bbtBlock, bbt, poolErased, lim, op>>
      /\ pc = "markbad" /\ pc' = "markErase" /\ mk'.blk = op.bad /\ mk'.next = "done"
  BY DEF MarkOld, CallMark, flashVars, ramVars
<1>2. \A c : Same(c)
  BY <1>1, StillView
<1>3. op.bad \in Pool => op.bad \notin MappedBlocks(table) /\ op.bad # bbtBlock
  BY <1>1 DEF SafeInv, OpSafe, Replaced
<1>4. bbtBlock \in Pool /\ HoldsBbt(bbtBlock)
  BY <1>1, HaveBbt
<1>5. BmtPlace'
  BY <1>1, <1>2 DEF SafeInv, BmtPlace, Loaded, MarkingFor, Rebuilding, Same
<1>6. FlashTab'
  BY <1>2 DEF SafeInv, FlashTab, TabGood, Same
<1>7. TableTab'
  BY <1>1, <1>2 DEF SafeInv, TableTab, TabGood, Same
<1>8. Sync'
  BY <1>1, <1>2 DEF SafeInv, Sync, Loaded, Rewriting, MarkingFor, Same
<1>9. SysPlain'
  BY <1>2 DEF SafeInv, SysPlain, Same
<1>10. OpSafe'
  BY <1>1 DEF SafeInv, OpSafe, Seeking, Replaced, Recovering, MarkingFor
<1>11. MarkSafe'
  BY <1>1, <1>3 DEF MarkSafe
<1>12. BbtPlace'
  BY <1>1, <1>2 DEF SafeInv, BbtPlace, Booting, MarkingFor, Shipped, Same
<1>13. Fresh'
  BY <1>2, <1>4 DEF Fresh, Same
<1>14. FreeErased'
  BY <1>1, <1>2 DEF SafeInv, FreeErased, Booting, MarkingFor, Unmapped, Same
<1> QED
  BY <1>1, <1>5, <1>6, <1>7, <1>8, <1>9, <1>10, <1>11, <1>12, <1>13, <1>14 DEF SafeInv

\* The end of a replacement keeps the invariant.
LEMMA SafeDone ==
    ASSUME TypeOK, MapInv, SafeInv, Done
    PROVE  SafeInv'
<1>1. /\ UNCHANGED <<flash, factory, table, bmtBlock, bbtBlock, bbt, poolErased, lim, mk>>
      /\ pc = "done" /\ pc' = "idle"
  BY UpdateEnds DEF Done, flashVars, ramVars
<1>2. \A c : Same(c)
  BY <1>1, StillView
<1>3. op'.val.kind = "erased" /\ op'.after = "idle" /\ op'.ret = "idle"
  BY UpdateEnds DEF Done, NoOp, Erased
<1>4. bbtBlock \in Pool /\ HoldsBbt(bbtBlock)
  BY <1>1, HaveBbt
<1>5. op.bad \in Pool => Bad(op.bad)
  BY <1>1 DEF SafeInv, OpSafe
<1>6. BmtPlace'
  BY <1>1, <1>2 DEF SafeInv, BmtPlace, Loaded, MarkingFor, Rebuilding, Same
<1>7. FlashTab'
  BY <1>2 DEF SafeInv, FlashTab, TabGood, Same
<1>8. TableTab'
  BY <1>1, <1>2 DEF SafeInv, TableTab, TabGood, Same
<1>9. Sync'
  BY <1>1, <1>2 DEF SafeInv, Sync, Loaded, Rewriting, MarkingFor, Same
<1>10. SysPlain'
  BY <1>2 DEF SafeInv, SysPlain, Same
<1>11. OpSafe'
  BY <1>1, <1>3 DEF OpSafe, Seeking, Replaced, Recovering, MarkingFor
<1>12. MarkSafe'
  BY <1>1 DEF MarkSafe
<1>13. BbtPlace'
  BY <1>1, <1>2 DEF SafeInv, BbtPlace, Booting, MarkingFor, Shipped, Same
<1>14. Fresh'
  BY <1>2, <1>4 DEF Fresh, Same
<1>15. FreeErased'
  BY <1>1, <1>2, <1>5 DEF SafeInv, FreeErased, Booting, MarkingFor, Unmapped, Same
<1> QED
  BY <1>1, <1>6, <1>7, <1>8, <1>9, <1>10, <1>11, <1>12, <1>13, <1>14, <1>15 DEF SafeInv

\* When the pool is erased, neither the tables on flash nor a block the BMT leads to is among
\* the unmapped blocks: flash and RAM agree, or there is no BMT on flash.
LEMMA PoolEraseFree ==
    ASSUME TypeOK, SafeInv, Finding
    PROVE  /\ \A b \in Pool : HasBmt(b) => /\ b \notin Unmapped
                                           /\ flash[b].page[0].tab = table
           /\ \A b \in Pool : HoldsBbt(b) => b \notin Unmapped
           /\ \A m \in MappedBlocks(table) : m \notin Unmapped
           /\ Loaded /\ ~Booting /\ ~MarkingFor({"wbmt"})
<1>1. Loaded /\ ~Booting /\ ~MarkingFor({"wbmt"}) /\ pc # "failed"
  BY DEF Finding, Loaded, Booting, MarkingFor
<1>2. \A b \in Pool : HasBmt(b) => b = bmtBlock
  BY <1>1 DEF SafeInv, BmtPlace
<1>3. \A b \in Pool : HasBmt(b) => flash[b].page[0].tab = table
  BY <1>1, <1>2, Regions DEF SafeInv, Sync, Rewriting, Finding
<1>4. \A b \in Pool : HoldsBbt(b) => b = bbtBlock
  BY <1>1 DEF SafeInv, BbtPlace
<1> QED
  BY <1>1, <1>2, <1>3, <1>4 DEF Unmapped

\* PoolErase touches only the blocks that the table in RAM does not map, and leaves each of
\* them blank or marked as later bad, when no mark fails.
LEMMA PoolErased ==
    ASSUME TypeOK, PoolErase, "mark" \notin FaultKinds
    PROVE  \A c \in Blocks : /\ c \notin Unmapped => flash'[c] = flash[c]
                             /\ c \in Unmapped => flash'[c] = Blank \/ flash'[c].later
<1>1. PICK failed \in SUBSET Unmapped : \E kept \in SUBSET failed, unmarked \in SUBSET failed :
         /\ unmarked # {} => "mark" \in FaultKinds
         /\ \/ failed = {} /\ UNCHANGED faults
            \/ failed # {} /\ Fail("erase", Cardinality(failed))
         /\ flash' = [b \in Blocks |->
                      IF b \in kept THEN [flash[b] EXCEPT !.later = b \notin unmarked]
                      ELSE IF b \in Unmapped
                           THEN [Blank EXCEPT !.later = b \in failed \ unmarked]
                           ELSE flash[b]]
  BY Zenon DEF PoolErase
<1>2. PICK kept \in SUBSET failed, unmarked \in SUBSET failed :
         /\ unmarked # {} => "mark" \in FaultKinds
         /\ flash' = [b \in Blocks |->
                      IF b \in kept THEN [flash[b] EXCEPT !.later = b \notin unmarked]
                      ELSE IF b \in Unmapped
                           THEN [Blank EXCEPT !.later = b \in failed \ unmarked]
                           ELSE flash[b]]
  BY <1>1, Zenon
<1>3. \A x \in Block : [x EXCEPT !.later = TRUE].later
  OBVIOUS
<1>4. \A x \in Block : ~x.later => [x EXCEPT !.later = FALSE] = x
  BY DEF Block
<1>5. ~Blank.later
  BY DEF Blank
<1>6. unmarked = {}
  BY <1>2
<1>7. \A c \in Blocks : c \in kept => flash'[c] = [flash[c] EXCEPT !.later = TRUE]
  BY <1>2, <1>6
<1>8. \A c \in failed : c \notin kept /\ c \in Blocks => flash'[c] = [Blank EXCEPT !.later = TRUE]
  BY <1>2, <1>6
<1>9. ASSUME NEW c \in Unmapped, c \notin failed, c \in Blocks PROVE flash'[c] = Blank
  <2>1. flash'[c] = [Blank EXCEPT !.later = c \in failed \ unmarked]
    BY <1>2, <1>9
  <2>2. (c \in failed \ unmarked) = FALSE
    BY <1>9
  <2>3. flash'[c] = [Blank EXCEPT !.later = FALSE]
    BY <2>1, <2>2, Zenon
  <2> QED
    BY <1>4, <1>5, <2>3, BlankType
<1>10. ASSUME NEW c \in failed, c \in Blocks PROVE flash'[c].later
  <2>1. flash[c] \in Block
    BY <1>10 DEF TypeOK
  <2>2. flash'[c] = [flash[c] EXCEPT !.later = TRUE] \/ flash'[c] = [Blank EXCEPT !.later = TRUE]
    BY <1>7, <1>8, <1>10
  <2> QED
    BY <1>3, <2>1, <2>2, BlankType
<1>11. \A c \in Blocks : c \notin Unmapped => flash'[c] = flash[c]
  BY <1>2
<1> QED
  BY <1>9, <1>10, <1>11

\* The erase of the pool keeps the invariant.
LEMMA SafePoolErase ==
    ASSUME TypeOK, MapInv, SafeInv, PoolErase, "mark" \notin FaultKinds
    PROVE  SafeInv'
<1>1. /\ UNCHANGED <<factory, table, bmtBlock, bbtBlock, bbt, lim, pc, op, mk>>
      /\ Finding /\ poolErased'
  BY DEF PoolErase, ctlVars
<1>2. \A c \in Blocks : /\ c \notin Unmapped => flash'[c] = flash[c]
                        /\ c \in Unmapped => flash'[c] = Blank \/ flash'[c].later
  BY PoolErased
<1>3. \A c \in Blocks : /\ c \notin Unmapped => Same(c)
                        /\ c \in Unmapped => Wiped(c) \/ (Bad(c)' /\ ~HasBmt(c)' /\ ~HoldsBbt(c)')
  BY <1>2, WipedView, SameView DEF Bad, HasBmt, HoldsBbt
<1>4. \A c \in Unmapped : c \in Pool /\ ~Bad(c)
  BY DEF Unmapped
<1>5. BmtPlace'
  BY <1>1, <1>3, Regions DEF SafeInv, BmtPlace, Loaded, MarkingFor, Rebuilding, Same, Wiped
<1>6. FlashTab'
  BY <1>1, <1>3, PoolEraseFree, Entries, Regions DEF SafeInv, FlashTab, TabGood, Same, Wiped
<1>7. TableTab'
  BY <1>1, <1>3, PoolEraseFree, Entries DEF SafeInv, TableTab, TabGood, Same
<1>8. Sync'
  BY <1>1, <1>3, Regions DEF SafeInv, Sync, Loaded, Rewriting, MarkingFor, Same, Wiped
<1>9. SysPlain'
  BY <1>3, <1>4, Regions DEF SafeInv, SysPlain, Same
<1>10. OpSafe'
  BY <1>1 DEF SafeInv, OpSafe, Seeking, Replaced, Rewriting, Recovering, MarkingFor, Finding
<1>11. MarkSafe'
  BY <1>1 DEF SafeInv, MarkSafe
<1>12. BbtPlace'
  BY <1>1, <1>3, PoolEraseFree, Regions
    DEF SafeInv, BbtPlace, Booting, MarkingFor, Shipped, Same, Wiped
<1>13. Fresh'
  BY <1>1, <1>3, <1>4, PoolEraseFree, Regions
    DEF SafeInv, Fresh, Rewriting, MarkingFor, Same, Wiped, Blank
<1>14. FreeErased'
  BY <1>1, <1>3, PoolEraseFree, Regions DEF FreeErased, Booting, MarkingFor, Unmapped, Same, Wiped
<1> QED
  BY <1>1, <1>5, <1>6, <1>7, <1>8, <1>9, <1>10, <1>11, <1>12, <1>13, <1>14 DEF SafeInv

\* The choice of a replacement block, and its entry in the table, keep the invariant: it is
\* free.
LEMMA SafeFind ==
    ASSUME TypeOK, MapInv, SafeInv, Find
    PROVE  SafeInv'
<1>1. /\ UNCHANGED <<flash, factory, bmtBlock, bbtBlock, bbt, poolErased, lim, mk>>
      /\ pc = "find" /\ poolErased
  BY DEF Find, flashVars
<1>2. \A c : Same(c)
  BY <1>1, StillView
<1>3. /\ op.bad \in Blocks /\ op.ret = "markbad" /\ op.after = "idle"
      /\ op.bad \in System \/ op.bad \in MappedBlocks(table)
  BY <1>1, OpFields DEF TypeOK, SafeInv, OpSafe, Seeking
<1>4. bbtBlock \in Pool /\ HoldsBbt(bbtBlock)
  BY <1>1, HaveBbt
<1>5. ASSUME NEW b \in Unmapped
      PROVE  /\ b \in Pool /\ b \notin MappedBlocks(table) /\ b # bmtBlock /\ b # bbtBlock
             /\ ~Bad(b) /\ ~Meta(b)
  BY <1>1, FreePlain DEF Loaded, Booting, MarkingFor
<1>6. ASSUME NEW b \in Unmapped, UpdateTable(op.bad, b), pc' = "wbmt", UNCHANGED op
      PROVE  SafeInv'
  <2>1. MappedBlocks(table)' = (MappedBlocks(table) \ {op.bad}) \cup {b}
    BY <1>3, <1>5, <1>6, UpdateTableMapped
  <2>2. /\ b \in Pool /\ b \notin MappedBlocks(table) /\ ~Bad(b) /\ ~Meta(b) /\ b # bmtBlock
        /\ b # bbtBlock
        /\ op.bad # b /\ op.bad # bbtBlock
    BY <1>3, <1>4, <1>5, Regions DEF SafeInv, TableTab
  <2>3. BmtPlace'
    BY <1>1, <1>2, <1>6 DEF SafeInv, BmtPlace, Loaded, MarkingFor, Rebuilding, Same
  <2>4. FlashTab'
    BY <1>2 DEF SafeInv, FlashTab, TabGood, Same
  <2>5. TableTab'
    BY <1>1, <1>2, <2>1, <2>2 DEF SafeInv, TableTab, TabGood, Same
  <2>6. Sync'
    BY <1>6 DEF Sync, Rewriting
  <2>7. SysPlain'
    BY <1>2 DEF SafeInv, SysPlain, Same
  <2>8. OpSafe'
    BY <1>1, <1>6, <2>1, <2>2 DEF SafeInv, OpSafe, Seeking, Recovering, MarkingFor
  <2>9. MarkSafe'
    BY <1>6 DEF MarkSafe
  <2>10. BbtPlace'
    BY <1>1, <1>2, <1>6 DEF SafeInv, BbtPlace, Booting, MarkingFor, Shipped, Same
  <2>11. Fresh'
    BY <1>2, <1>4 DEF Fresh, Same
  <2>12. FreeErased'
    BY <1>1, <1>2, <1>3, <1>6, <2>1
      DEF SafeInv, FreeErased, Booting, Replaced, Rewriting, MarkingFor, Unmapped, Same
  <2> QED
    BY <1>1, <2>3, <2>4, <2>5, <2>6, <2>7, <2>8, <2>9, <2>10, <2>11, <2>12 DEF SafeInv
<1>7. ASSUME NEW b \in Unmapped, op' = [op EXCEPT !.to = b, !.k = 1], pc' = "copy", UNCHANGED table
      PROVE  SafeInv'
  <2>1. /\ op'.to = b /\ op'.bad = op.bad /\ op'.page = op.page /\ op'.val = op.val
        /\ op'.ret = op.ret /\ op'.after = op.after
    BY <1>7
  <2>2. BmtPlace'
    BY <1>1, <1>2, <1>7 DEF SafeInv, BmtPlace, Loaded, MarkingFor, Rebuilding, Same
  <2>3. FlashTab'
    BY <1>2 DEF SafeInv, FlashTab, TabGood, Same
  <2>4. TableTab'
    BY <1>1, <1>2, <1>7 DEF SafeInv, TableTab, TabGood, Same
  <2>5. Sync'
    BY <1>1, <1>2, <1>7 DEF SafeInv, Sync, Loaded, Rewriting, MarkingFor, Same
  <2>6. SysPlain'
    BY <1>2 DEF SafeInv, SysPlain, Same
  <2>7. OpSafe'
    BY <1>1, <1>2, <1>7
      DEF SafeInv, OpSafe, Seeking, Replaced, Rewriting, Recovering, MarkingFor, Unmapped, Same
  <2>8. MarkSafe'
    BY <1>7 DEF MarkSafe
  <2>9. BbtPlace'
    BY <1>1, <1>2, <1>7 DEF SafeInv, BbtPlace, Booting, MarkingFor, Shipped, Same
  <2>10. Fresh'
    BY <1>2, <1>4 DEF Fresh, Same
  <2>11. FreeErased'
    BY <1>1, <1>2, <1>7
      DEF SafeInv, FreeErased, Booting, Replaced, Rewriting, MarkingFor, Unmapped, Same
  <2> QED
    BY <1>1, <2>2, <2>3, <2>4, <2>5, <2>6, <2>7, <2>8, <2>9, <2>10, <2>11 DEF SafeInv
<1>8. CASE Unmapped = {} /\ pc' = "idle" /\ op' = NoOp /\ UNCHANGED table
  <2>1. op'.val.kind = "erased" /\ op'.after = "idle" /\ op'.ret = "idle" /\ pc' = "idle"
    BY <1>3, <1>8 DEF NoOp, Erased
  <2>2. BmtPlace'
    BY <1>1, <1>2, <2>1 DEF SafeInv, BmtPlace, Loaded, MarkingFor, Rebuilding, Same
  <2>3. FlashTab'
    BY <1>2 DEF SafeInv, FlashTab, TabGood, Same
  <2>4. TableTab'
    BY <1>1, <1>2, <1>8 DEF SafeInv, TableTab, TabGood, Same
  <2>5. Sync'
    BY <1>1, <1>2, <1>8 DEF SafeInv, Sync, Loaded, Rewriting, MarkingFor, Same
  <2>6. SysPlain'
    BY <1>2 DEF SafeInv, SysPlain, Same
  <2>7. OpSafe'
    BY <2>1 DEF OpSafe, Seeking, Replaced, Recovering, MarkingFor
  <2>8. MarkSafe'
    BY <2>1 DEF MarkSafe
  <2>9. BbtPlace'
    BY <1>1, <1>2, <2>1 DEF SafeInv, BbtPlace, Booting, MarkingFor, Shipped, Same
  <2>10. Fresh'
    BY <1>2, <1>4 DEF Fresh, Same
  <2>11. FreeErased'
    BY <1>1, <1>2, <1>8, <2>1 DEF FreeErased, Booting, MarkingFor, Unmapped, Same
  <2> QED
    BY <1>1, <2>2, <2>3, <2>4, <2>5, <2>6, <2>7, <2>8, <2>9, <2>10, <2>11 DEF SafeInv
<1> QED
  BY <1>6, <1>7, <1>8, UpdateEnds DEF Find, FirstOf

\* The copy of a page to the replacement block keeps the invariant, and so does its failure,
\* which has that block marked and another one found.
LEMMA SafeCopy ==
    ASSUME TypeOK, MapInv, SafeInv, Copy
    PROVE  SafeInv'
<1> DEFINE p == CopyPage(op, op.k)
           v == IF p = op.page THEN op.val ELSE flash[op.bad].page[p]
<1>1. /\ UNCHANGED <<factory, bmtBlock, bbtBlock, bbt, poolErased, lim>> /\ pc = "copy"
  BY DEF Copy
<1>2. /\ op.bad \in Blocks /\ op.ret = "markbad" /\ op.after = "idle" /\ op.to \in Unmapped
      /\ op.bad \in System \/ op.bad \in MappedBlocks(table)
  BY <1>1, OpFields DEF TypeOK, SafeInv, OpSafe, Seeking
<1>3. bbtBlock \in Pool /\ HoldsBbt(bbtBlock)
  BY <1>1, HaveBbt
<1>4. /\ op.to \in Pool /\ op.to \in Blocks /\ op.to \notin MappedBlocks(table) /\ ~Bad(op.to)
      /\ op.to # bmtBlock /\ op.to # bbtBlock
  BY <1>2, Regions DEF Unmapped
<1>5. ~Meta(op.to) /\ ~HasBmt(op.to) /\ ~HoldsBbt(op.to)
  BY <1>1, <1>2, FreePlain DEF Loaded, Booting, MarkingFor
<1>6. ~Meta(op.bad)
  BY <1>2 DEF SafeInv, SysPlain, TableTab, TabGood
<1>7. p = 0 => v.kind \notin {"BMT", "BBT"}
  BY <1>6 DEF SafeInv, OpSafe, Meta, Kind
<1>8. CASE /\ flash' = Programmed(op.to, p, v, OobIndex(op, p))
           /\ \/ UpdateTable(op.bad, op.to) /\ pc' = "wbmt" /\ UNCHANGED op
              \/ op' = [op EXCEPT !.k = @ + 1] /\ UNCHANGED <<table, pc>>
  <2>1. \A c \in Blocks : IF c = op.to THEN Filled(c) ELSE Same(c)
    BY <1>4, <1>5, <1>7, <1>8, ProgramView DEF TypeOK
  <2>2. CASE UpdateTable(op.bad, op.to) /\ pc' = "wbmt" /\ UNCHANGED op
    <3>1. MappedBlocks(table)' = (MappedBlocks(table) \ {op.bad}) \cup {op.to}
      BY <1>2, <1>4, <2>2, UpdateTableMapped
    <3>2. op.bad # op.to /\ op.bad # bbtBlock
      BY <1>2, <1>3, <1>4, Regions DEF SafeInv, TableTab
    <3>3. BmtPlace'
      BY <1>1, <2>1, <2>2, Regions
        DEF SafeInv, BmtPlace, Loaded, MarkingFor, Rebuilding, Same, Filled
    <3>4. FlashTab'
      BY <2>1, Entries, Regions DEF SafeInv, FlashTab, TabGood, Same, Filled
    <3>5. TableTab'
      BY <1>1, <1>4, <2>1, <3>1, Entries DEF SafeInv, TableTab, TabGood, Same, Filled
    <3>6. Sync'
      BY <2>2 DEF Sync, Rewriting
    <3>7. SysPlain'
      BY <2>1, Regions DEF SafeInv, SysPlain, Same, Filled
    <3>8. OpSafe'
      BY <1>1, <2>2, <3>1, <3>2 DEF SafeInv, OpSafe, Seeking, Recovering, MarkingFor
    <3>9. MarkSafe'
      BY <2>2 DEF MarkSafe
    <3>10. BbtPlace'
      BY <1>1, <1>5, <2>1, <2>2, Regions
        DEF SafeInv, BbtPlace, Booting, MarkingFor, Shipped, Same, Filled
    <3>11. Fresh'
      BY <1>3, <1>5, <2>1, Regions DEF Fresh, Same
    <3>12. FreeErased'
      BY <1>1, <1>2, <2>1, <2>2, <3>1, Regions
        DEF SafeInv, FreeErased, Booting, Replaced, Rewriting, MarkingFor, Unmapped, Same
    <3> QED
      BY <1>1, <3>3, <3>4, <3>5, <3>6, <3>7, <3>8, <3>9, <3>10, <3>11, <3>12 DEF SafeInv
  <2>3. CASE op' = [op EXCEPT !.k = @ + 1] /\ UNCHANGED <<table, pc>>
    <3>1. /\ op'.to = op.to /\ op'.bad = op.bad /\ op'.page = op.page /\ op'.val = op.val
          /\ op'.ret = op.ret /\ op'.after = op.after
      BY <2>3
    <3>2. BmtPlace'
      BY <1>1, <2>1, <2>3, Regions
        DEF SafeInv, BmtPlace, Loaded, MarkingFor, Rebuilding, Same, Filled
    <3>3. FlashTab'
      BY <2>1, Entries, Regions DEF SafeInv, FlashTab, TabGood, Same, Filled
    <3>4. TableTab'
      BY <1>1, <2>1, <2>3, Entries DEF SafeInv, TableTab, TabGood, Same, Filled
    <3>5. Sync'
      BY <1>1, <2>1, <2>3, Regions DEF SafeInv, Sync, Loaded, Rewriting, MarkingFor, Same, Filled
    <3>6. SysPlain'
      BY <2>1, Regions DEF SafeInv, SysPlain, Same, Filled
    <3>7. OpSafe'
      BY <1>1, <2>1, <2>3, Regions
        DEF SafeInv, OpSafe, Seeking, Replaced, Rewriting, Recovering, MarkingFor, Unmapped, Filled
    <3>8. MarkSafe'
      BY <1>1, <2>3 DEF MarkSafe
    <3>9. BbtPlace'
      BY <1>1, <1>5, <2>1, <2>3, Regions
        DEF SafeInv, BbtPlace, Booting, MarkingFor, Shipped, Same, Filled
    <3>10. Fresh'
      BY <1>3, <1>5, <2>1, Regions DEF Fresh, Same
    <3>11. FreeErased'
      BY <1>1, <2>1, <2>3, Regions
        DEF SafeInv, FreeErased, Booting, Replaced, Rewriting, MarkingFor, Unmapped, Same
    <3> QED
      BY <1>1, <3>2, <3>3, <3>4, <3>5, <3>6, <3>7, <3>8, <3>9, <3>10, <3>11 DEF SafeInv
  <2> QED
    BY <1>8, <2>2, <2>3
<1>9. CASE flash' = Spoilt(op.to, p) /\ CallMark(op.to, TRUE, "find") /\ UNCHANGED <<table, op>>
  <2>1. \A c \in Blocks : IF c = op.to THEN Filled(c) /\ flash'[c].idx = flash[c].idx ELSE Same(c)
    BY <1>4, <1>5, <1>9, SpoilView DEF TypeOK
  <2>2. pc' = "markErase" /\ mk'.blk = op.to /\ mk'.next = "find"
    BY <1>9 DEF CallMark
  <2>3. BmtPlace'
    BY <1>1, <2>1, <2>2, Regions DEF SafeInv, BmtPlace, Loaded, MarkingFor, Rebuilding, Same, Filled
  <2>4. FlashTab'
    BY <2>1, Entries, Regions DEF SafeInv, FlashTab, TabGood, Same, Filled
  <2>5. TableTab'
    BY <1>1, <1>9, <2>1, Entries DEF SafeInv, TableTab, TabGood, Same, Filled
  <2>6. Sync'
    BY <1>1, <1>9, <2>1, Regions DEF SafeInv, Sync, Loaded, Rewriting, MarkingFor, Same, Filled
  <2>7. SysPlain'
    BY <2>1, Regions DEF SafeInv, SysPlain, Same, Filled
  <2>8. OpSafe'
    BY <1>2, <1>9, <2>2 DEF SafeInv, OpSafe, Replaced, Rewriting, Recovering, MarkingFor
  <2>9. MarkSafe'
    BY <1>1, <1>4, <1>9, <2>2 DEF MarkSafe
  <2>10. BbtPlace'
    BY <1>1, <1>5, <2>1, <2>2, Regions
      DEF SafeInv, BbtPlace, Booting, MarkingFor, Shipped, Same, Filled
  <2>11. Fresh'
    BY <1>3, <1>5, <2>1, Regions DEF Fresh, Same
  <2>12. FreeErased'
    BY <1>1, <1>9, <2>1, <2>2, Regions
      DEF SafeInv, FreeErased, Booting, Replaced, Rewriting, MarkingFor, Unmapped, Same
  <2> QED
    BY <1>1, <2>3, <2>4, <2>5, <2>6, <2>7, <2>8, <2>9, <2>10, <2>11, <2>12 DEF SafeInv
<1> QED
  BY <1>8, <1>9 DEF Copy

\* The copy of recover_bmt, back to the system block, keeps the invariant.
LEMMA SafeRecoverCopy ==
    ASSUME TypeOK, MapInv, SafeInv, RecoverCopy
    PROVE  SafeInv'
<1>1. /\ UNCHANGED <<factory, table, bmtBlock, bbtBlock, bbt, poolErased, lim, mk>>
      /\ pc = "recCopy"
  BY DEF RecoverCopy, ramVars
<1>2. /\ op.bad \in System /\ op.lb \in DOMAIN table /\ table[op.lb].mapped = op.to
      /\ op.after = "idle" /\ op.bad \in Blocks /\ op.bad \notin Pool /\ op.reason = "none"
  BY <1>1, Regions DEF SafeInv, OpSafe, Recovering
<1>3. bbtBlock \in Pool /\ HoldsBbt(bbtBlock)
  BY <1>1, HaveBbt
<1>4. ~Meta(op.bad) /\ ~Meta(op.to)
  BY <1>2 DEF SafeInv, SysPlain, TableTab, TabGood, MappedBlocks
<1>5. \A c \in Blocks : IF c = op.bad THEN Filled(c) ELSE Same(c)
  <2>1. op.k = 0 => flash[op.to].page[op.k].kind \notin {"BMT", "BBT"}
    BY <1>4 DEF Meta, Kind
  <2>2. CASE flash' = Programmed(op.bad, op.k, flash[op.to].page[op.k], flash[op.to].idx)
    BY <1>2, <1>4, <2>1, <2>2, ProgramView DEF TypeOK
  <2>3. CASE flash' = Spoilt(op.bad, op.k)
    BY <1>2, <1>4, <2>3, SpoilView DEF TypeOK
  <2> QED
    BY <1>2, <2>2, <2>3 DEF RecoverCopy
<1>6. \/ /\ pc' \in {"recCopy", "recFree"} /\ op'.val.kind = "erased" /\ op'.reason = "none"
         /\ op'.bad = op.bad /\ op'.to = op.to /\ op'.lb = op.lb /\ op'.after = "idle"
      \/ pc' = "idle" /\ op'.val.kind = "erased" /\ op'.after = "idle"
  BY <1>1, RecoveryFields DEF RecoverCopy, NoOp, Erased
<1>7. BmtPlace'
  BY <1>1, <1>5, <1>6, Regions DEF SafeInv, BmtPlace, Loaded, MarkingFor, Rebuilding, Same, Filled
<1>8. FlashTab'
  BY <1>5, Entries, Regions DEF SafeInv, FlashTab, TabGood, Same, Filled
<1>9. TableTab'
  BY <1>1, <1>5, Entries DEF SafeInv, TableTab, TabGood, Same, Filled
<1>10. Sync'
  BY <1>1, <1>5, Regions DEF SafeInv, Sync, Loaded, Rewriting, MarkingFor, Same, Filled
<1>11. SysPlain'
  BY <1>5, Regions DEF SafeInv, SysPlain, Same, Filled
<1>12. OpSafe'
  BY <1>1, <1>6 DEF SafeInv, OpSafe, Seeking, Replaced, Rewriting, Recovering, MarkingFor
<1>13. MarkSafe'
  BY <1>6 DEF MarkSafe
<1>14. BbtPlace'
  BY <1>1, <1>2, <1>5, <1>6, Regions DEF SafeInv, BbtPlace, Booting, MarkingFor, Shipped, Same
<1>15. Fresh'
  BY <1>2, <1>5, Regions DEF SafeInv, Fresh, Same
<1>16. FreeErased'
  BY <1>1, <1>2, <1>5, <1>6, Regions DEF SafeInv, FreeErased, Booting, MarkingFor, Unmapped, Same
<1> QED
  BY <1>1, <1>7, <1>8, <1>9, <1>10, <1>11, <1>12, <1>13, <1>14, <1>15, <1>16 DEF SafeInv

\* recover_bmt's change of the table: one block is no longer mapped to.
LEMMA WithoutMapped ==
    ASSUME NEW t \in Seq(Entry), NEW i \in DOMAIN t
    PROVE  /\ MappedBlocks(Without(t, i)) \subseteq MappedBlocks(t)
           /\ MappedBlocks(t) \subseteq MappedBlocks(Without(t, i)) \cup {t[i].mapped}
<1>1. /\ DOMAIN Without(t, i) = 1..(Len(t) - 1)
      /\ \A j \in 1..(Len(t) - 1) : Without(t, i)[j] = IF j < i THEN t[j] ELSE t[j + 1]
  BY DEF Without
<1>2. MappedBlocks(Without(t, i)) \subseteq MappedBlocks(t)
  BY <1>1 DEF MappedBlocks
<1>3. ASSUME NEW j \in DOMAIN t, j # i PROVE t[j].mapped \in MappedBlocks(Without(t, i))
  <2>1. CASE j < i
    BY <1>1, <2>1 DEF MappedBlocks
  <2>2. CASE ~(j < i)
    <3>1. j - 1 \in 1..(Len(t) - 1) /\ ~(j - 1 < i) /\ (j - 1) + 1 = j
      BY <1>3, <2>2
    <3> QED
      BY <1>1, <3>1 DEF MappedBlocks
  <2> QED
    BY <2>1, <2>2
<1> QED
  BY <1>2, <1>3 DEF MappedBlocks

\* The end of recover_bmt keeps the invariant: the block it frees is blank.
LEMMA SafeRecoverFree ==
    ASSUME TypeOK, MapInv, SafeInv, RecoverFree
    PROVE  SafeInv'
<1>1. /\ UNCHANGED <<factory, bmtBlock, bbtBlock, bbt, poolErased, lim, mk>>
      /\ pc = "recFree" /\ op' = NoOp
  BY DEF RecoverFree
<1>2. op.lb \in DOMAIN table /\ table[op.lb].mapped = op.to /\ op.to \in MappedBlocks(table)
  BY <1>1 DEF SafeInv, OpSafe, Recovering, MappedBlocks
<1>3. bbtBlock \in Pool /\ HoldsBbt(bbtBlock)
  BY <1>1, HaveBbt
<1>4. op'.val.kind = "erased" /\ op'.after = "idle" /\ op'.ret = "idle"
  BY <1>1 DEF NoOp, Erased
<1>5. CASE flash' = EraseOf(op.to) /\ table' = Without(table, op.lb) /\ pc' = "wbmt"
  <2>1. op.to \in Pool /\ op.to \in Blocks /\ op.to # bmtBlock /\ op.to # bbtBlock /\ ~Meta(op.to)
    BY <1>2, Entries DEF SafeInv, TableTab, TabGood
  <2>2. \A c \in Blocks : IF c = op.to THEN Wiped(c) ELSE Same(c)
    BY <1>5, <2>1, EraseView DEF TypeOK
  <2>3. /\ MappedBlocks(table') \subseteq MappedBlocks(table)
        /\ MappedBlocks(table) \subseteq MappedBlocks(table') \cup {op.to}
    BY <1>2, <1>5, WithoutMapped DEF TypeOK
  <2>4. ~HasBmt(op.to) /\ ~HoldsBbt(op.to)
    BY <2>1 DEF Meta, HasBmt, HoldsBbt, Kind
  <2>5. BmtPlace'
    BY <1>1, <1>5, <2>2, Regions DEF SafeInv, BmtPlace, Loaded, MarkingFor, Rebuilding, Same, Wiped
  <2>6. FlashTab'
    BY <2>2, Entries, Regions DEF SafeInv, FlashTab, TabGood, Same, Wiped
  <2>7. TableTab'
    BY <1>1, <2>2, <2>3, Entries DEF SafeInv, TableTab, TabGood, Same, Wiped
  <2>8. Sync'
    BY <1>5 DEF Sync, Rewriting
  <2>9. SysPlain'
    BY <2>2, Regions DEF SafeInv, SysPlain, Same, Wiped
  <2>10. OpSafe'
    BY <1>4, <1>5 DEF OpSafe, Seeking, Replaced, Recovering, MarkingFor
  <2>11. MarkSafe'
    BY <1>5 DEF MarkSafe
  <2>12. BbtPlace'
    BY <1>1, <1>5, <2>2, <2>4, Regions
      DEF SafeInv, BbtPlace, Booting, MarkingFor, Shipped, Same, Wiped
  <2>13. Fresh'
    BY <1>3, <2>2, <2>4, Regions DEF Fresh, Same
  <2>14. FreeErased'
    BY <1>1, <1>5, <2>2, <2>3, Regions
      DEF SafeInv, FreeErased, Booting, Replaced, Rewriting, MarkingFor, Unmapped, Same, Wiped
  <2> QED
    BY <1>1, <2>5, <2>6, <2>7, <2>8, <2>9, <2>10, <2>11, <2>12, <2>13, <2>14 DEF SafeInv
<1>6. CASE pc' = "idle" /\ UNCHANGED <<flash, table>>
  <2>1. \A c : Same(c)
    BY <1>6, StillView
  <2>2. BmtPlace'
    BY <1>1, <1>6, <2>1 DEF SafeInv, BmtPlace, Loaded, MarkingFor, Rebuilding, Same
  <2>3. FlashTab'
    BY <2>1 DEF SafeInv, FlashTab, TabGood, Same
  <2>4. TableTab'
    BY <1>1, <1>6, <2>1 DEF SafeInv, TableTab, TabGood, Same
  <2>5. Sync'
    BY <1>1, <1>6, <2>1 DEF SafeInv, Sync, Loaded, Rewriting, MarkingFor, Same
  <2>6. SysPlain'
    BY <2>1 DEF SafeInv, SysPlain, Same
  <2>7. OpSafe'
    BY <1>4, <1>6 DEF OpSafe, Seeking, Replaced, Recovering, MarkingFor
  <2>8. MarkSafe'
    BY <1>6 DEF MarkSafe
  <2>9. BbtPlace'
    BY <1>1, <1>6, <2>1 DEF SafeInv, BbtPlace, Booting, MarkingFor, Shipped, Same
  <2>10. Fresh'
    BY <1>3, <2>1 DEF Fresh, Same
  <2>11. FreeErased'
    BY <1>1, <1>6, <2>1
      DEF SafeInv, FreeErased, Booting, Replaced, Rewriting, MarkingFor, Unmapped, Same
  <2> QED
    BY <1>1, <2>2, <2>3, <2>4, <2>5, <2>6, <2>7, <2>8, <2>9, <2>10, <2>11 DEF SafeInv
<1> QED
  BY <1>5, <1>6 DEF RecoverFree

\* A read, write or erase of the user's that fails starts an update for a block in use, and
\* keeps the invariant.
LEMMA SafeStartUpdate ==
    ASSUME TypeOK, SafeInv, pc = "idle",
           UNCHANGED <<factory, table, bmtBlock, bbtBlock, bbt, poolErased, lim, mk>>,
           NEW b \in Blocks, b \in System \/ b \in MappedBlocks(table), ~Meta(b),
           NEW p, NEW r, NEW v, NEW i, NEW l,
           p = 0 => v.kind \notin {"BMT", "BBT"},
           \A c \in Blocks : (c = b /\ Filled(c)) \/ Same(c),
           StartUpdate(UpdateOf(b, p, r, v, i, l, "idle"))
    PROVE  SafeInv'
<1>1. bbtBlock \in Pool /\ HoldsBbt(bbtBlock)
  BY HaveBbt
<1>2. ~HasBmt(b) /\ ~HoldsBbt(b)
  BY DEF Meta, HasBmt, HoldsBbt, Kind
<1>3. \/ pc' = "idle" /\ UNCHANGED op
      \/ /\ pc' = "find" /\ op'.bad = b /\ op'.page = p /\ op'.val = v
         /\ op'.ret = "markbad" /\ op'.after = "idle"
  BY DEF StartUpdate, UpdateOf
<1>4. BmtPlace'
  BY <1>3, Regions DEF SafeInv, BmtPlace, Loaded, MarkingFor, Rebuilding, Same, Filled
<1>5. FlashTab'
  BY Entries, Regions DEF SafeInv, FlashTab, TabGood, Same, Filled
<1>6. TableTab'
  BY Entries DEF SafeInv, TableTab, TabGood, Same, Filled
<1>7. Sync'
  BY Regions DEF SafeInv, Sync, Loaded, Rewriting, MarkingFor, Same, Filled
<1>8. SysPlain'
  BY Regions DEF SafeInv, SysPlain, Same, Filled
<1>9. OpSafe'
  BY <1>3 DEF SafeInv, OpSafe, Seeking, Replaced, Rewriting, Recovering, MarkingFor
<1>10. MarkSafe'
  BY <1>3 DEF MarkSafe
<1>11. BbtPlace'
  BY <1>2, <1>3, Regions DEF SafeInv, BbtPlace, Booting, MarkingFor, Shipped, Same, Filled
<1>12. Fresh'
  BY <1>2, Regions DEF SafeInv, Fresh, Rewriting, MarkingFor, Same
<1>13. FreeErased'
  BY <1>3, Regions DEF SafeInv, FreeErased, Booting, Replaced, Rewriting, MarkingFor, Unmapped, Same
<1> QED
  BY <1>4, <1>5, <1>6, <1>7, <1>8, <1>9, <1>10, <1>11, <1>12, <1>13 DEF SafeInv

\* A read, write or erase of the user's that succeeds changes a block in use only, and keeps
\* the invariant.
LEMMA SafeUserStep ==
    ASSUME TypeOK, SafeInv, pc = "idle",
           UNCHANGED <<factory, table, bmtBlock, bbtBlock, bbt, poolErased, lim, pc, op, mk>>,
           NEW b \in Blocks, b \in System \/ b \in MappedBlocks(table), ~Meta(b),
           \A c \in Blocks : (c = b /\ (Filled(c) \/ Wiped(c))) \/ Same(c)
    PROVE  SafeInv'
<1>1. bbtBlock \in Pool /\ HoldsBbt(bbtBlock)
  BY HaveBbt
<1>2. ~HasBmt(b) /\ ~HoldsBbt(b)
  BY DEF Meta, HasBmt, HoldsBbt, Kind
<1>3. BmtPlace'
  BY Regions DEF SafeInv, BmtPlace, Loaded, MarkingFor, Rebuilding, Same, Filled, Wiped
<1>4. FlashTab'
  BY Entries, Regions DEF SafeInv, FlashTab, TabGood, Same, Filled, Wiped
<1>5. TableTab'
  BY Entries DEF SafeInv, TableTab, TabGood, Same, Filled, Wiped
<1>6. Sync'
  BY Regions DEF SafeInv, Sync, Loaded, Rewriting, MarkingFor, Same, Filled, Wiped
<1>7. SysPlain'
  BY Regions DEF SafeInv, SysPlain, Same, Filled, Wiped
<1>8. OpSafe'
  BY DEF SafeInv, OpSafe, Seeking, Replaced, Rewriting, Recovering, MarkingFor
<1>9. MarkSafe'
  BY DEF MarkSafe
<1>10. BbtPlace'
  BY <1>2, Regions DEF SafeInv, BbtPlace, Booting, MarkingFor, Shipped, Same, Filled, Wiped
<1>11. Fresh'
  BY <1>2, Regions DEF SafeInv, Fresh, Rewriting, MarkingFor, Same
<1>12. FreeErased'
  BY Regions DEF SafeInv, FreeErased, Booting, Replaced, Rewriting, MarkingFor, Unmapped, Same
<1> QED
  BY <1>3, <1>4, <1>5, <1>6, <1>7, <1>8, <1>9, <1>10, <1>11, <1>12 DEF SafeInv

\* An erase of the user's keeps the invariant.
LEMMA SafeEraseBlock ==
    ASSUME TypeOK, SafeInv, NEW l, NEW s \in System, NEW b \in Blocks,
           get_mapping_block_index(l, s, b), EraseBlock(l, b)
    PROVE  SafeInv'
<1>1. UNCHANGED <<factory, table, bmtBlock, bbtBlock, bbt, poolErased, lim, mk>> /\ pc = "idle"
  BY DEF EraseBlock, ramVars
<1>2. (b \in System \/ b \in MappedBlocks(table)) /\ ~Meta(b)
  BY UserBlock
<1>3. CASE flash' = EraseOf(b) /\ UNCHANGED <<pc, op>>
  <2>1. \A c \in Blocks : IF c = b THEN Wiped(c) ELSE Same(c)
    BY <1>3, EraseView DEF TypeOK
  <2> QED
    BY <1>1, <1>2, <1>3, <2>1, SafeUserStep
<1>4. CASE UNCHANGED flash /\ StartUpdate(UpdateOf(b, 0, "erase", Erased, NoIndex, l, "idle"))
  <2>1. \A c \in Blocks : Same(c)
    BY <1>4, StillView
  <2>2. Erased.kind \notin {"BMT", "BBT"}
    BY DEF Erased
  <2> QED
    BY <1>1, <1>2, <1>4, <2>1, <2>2, SafeStartUpdate
<1> QED
  BY <1>3, <1>4 DEF EraseBlock

\* A write of the user's keeps the invariant.
LEMMA SafeWritePage ==
    ASSUME TypeOK, SafeInv, NEW l, NEW s \in System, NEW b \in Blocks,
           get_mapping_block_index(l, s, b), WritePage(l, s, b)
    PROVE  SafeInv'
<1> DEFINE p == written[l]
           i == IF b \in Pool THEN s ELSE NoIndex
<1>1. UNCHANGED <<factory, table, bmtBlock, bbtBlock, bbt, poolErased, lim, mk>> /\ pc = "idle"
  BY DEF WritePage, ramVars
<1>2. (b \in System \/ b \in MappedBlocks(table)) /\ ~Meta(b)
  BY UserBlock
<1>3. Data(l, p).kind \notin {"BMT", "BBT"}
  BY DEF Data
<1>4. CASE flash' = Programmed(b, p, Data(l, p), i) /\ UNCHANGED <<pc, op>>
  <2>1. \A c \in Blocks : IF c = b THEN Filled(c) ELSE Same(c)
    BY <1>2, <1>3, <1>4, ProgramView DEF TypeOK
  <2> QED
    BY <1>1, <1>2, <1>4, <2>1, SafeUserStep
<1>5. CASE flash' = Spoilt(b, p) /\ StartUpdate(UpdateOf(b, p, "write", Data(l, p), i, l, "idle"))
  <2>1. \A c \in Blocks : IF c = b THEN Filled(c) ELSE Same(c)
    BY <1>2, <1>5, SpoilView DEF TypeOK
  <2> QED
    BY <1>1, <1>2, <1>3, <1>5, <2>1, SafeStartUpdate
<1> QED
  BY <1>4, <1>5 DEF WritePage

\* A read of the user's over the threshold keeps the invariant.
LEMMA SafeRead ==
    ASSUME TypeOK, SafeInv, NEW l, NEW s \in System, NEW b \in Blocks, NEW p \in Pages,
           get_mapping_block_index(l, s, b), ReadOverThreshold(b, p)
    PROVE  SafeInv'
<1>1. /\ UNCHANGED <<flash, factory, table, bmtBlock, bbtBlock, bbt, poolErased, lim, mk>>
      /\ pc = "idle"
  BY DEF ReadOverThreshold, flashVars, ramVars
<1>2. (b \in System \/ b \in MappedBlocks(table)) /\ ~Meta(b)
  BY UserBlock
<1>3. \A c \in Blocks : Same(c)
  BY <1>1, StillView
<1>4. p = 0 => flash[b].page[p].kind \notin {"BMT", "BBT"}
  BY <1>2 DEF Meta, Kind
<1> QED
  BY <1>1, <1>2, <1>3, <1>4, SafeStartUpdate DEF ReadOverThreshold

\* The console command that marks a system block bad keeps the invariant.
LEMMA SafeMarkBadCommand ==
    ASSUME TypeOK, SafeInv, NEW b \in System, MarkBadCommand(b)
    PROVE  SafeInv'
<1>1. /\ UNCHANGED <<flash, factory, table, bmtBlock, bbtBlock, bbt, poolErased, lim, mk>>
      /\ pc = "idle"
  BY DEF MarkBadCommand, flashVars, ramVars
<1>2. b \in Blocks /\ ~Meta(b)
  BY Regions DEF SafeInv, SysPlain
<1>3. \A c \in Blocks : Same(c)
  BY <1>1, StillView
<1>4. PageCount - 1 = 0 => flash[b].page[PageCount - 1].kind \notin {"BMT", "BBT"}
  BY <1>2 DEF Meta, Kind
<1> QED
  BY <1>1, <1>2, <1>3, <1>4, SafeStartUpdate DEF MarkBadCommand

\* The console command that recovers a system block keeps the invariant.
LEMMA SafeRecoverMapped ==
    ASSUME TypeOK, SafeInv, NEW b \in System, RecoverMapped(b)
    PROVE  SafeInv'
<1>1. UNCHANGED <<factory, table, bmtBlock, bbtBlock, bbt, poolErased, lim, mk>> /\ pc = "idle"
  BY DEF RecoverMapped, ramVars
<1>2. b \in Blocks /\ b \notin Pool /\ ~Meta(b)
  BY Regions DEF SafeInv, SysPlain
<1>3. CASE UNCHANGED <<flash, op, pc>>
  <2>1. \A c \in Blocks : Same(c)
    BY <1>3, StillView
  <2> QED
    BY <1>1, <1>2, <1>3, <2>1, SafeUserStep
<1>4. ASSUME NEW i \in DOMAIN table, flash' = EraseOf(b), pc' = "recCopy",
             op' = Recovery(b, table[i].mapped, i, 0)
      PROVE  SafeInv'
  <2>1. \A c \in Blocks : IF c = b THEN Wiped(c) ELSE Same(c)
    BY <1>2, <1>4, EraseView DEF TypeOK
  <2>2. /\ op'.bad = b /\ op'.lb = i /\ op'.to = table[i].mapped
        /\ op'.val.kind = "erased" /\ op'.after = "idle" /\ op'.reason = "none"
    BY <1>4, RecoveryFields DEF Erased
  <2>3. bbtBlock \in Pool /\ HoldsBbt(bbtBlock)
    BY <1>1, HaveBbt
  <2>4. BmtPlace'
    BY <1>1, <1>4, <2>1, Regions DEF SafeInv, BmtPlace, Loaded, MarkingFor, Rebuilding, Same
  <2>5. FlashTab'
    BY <2>1, Entries, Regions DEF SafeInv, FlashTab, TabGood, Same
  <2>6. TableTab'
    BY <1>1, <2>1, Entries DEF SafeInv, TableTab, TabGood, Same, Wiped
  <2>7. Sync'
    BY <1>1, <2>1, Regions DEF SafeInv, Sync, Loaded, Rewriting, MarkingFor, Same
  <2>8. SysPlain'
    BY <2>1, Regions DEF SafeInv, SysPlain, Same, Wiped
  <2>9. OpSafe'
    BY <1>1, <1>4, <2>2 DEF OpSafe, Seeking, Replaced, Rewriting, MarkingFor
  <2>10. MarkSafe'
    BY <1>4 DEF MarkSafe
  <2>11. BbtPlace'
    BY <1>1, <1>4, <2>1, Regions DEF SafeInv, BbtPlace, Booting, MarkingFor, Shipped, Same
  <2>12. Fresh'
    BY <2>1, Regions DEF SafeInv, Fresh, Same
  <2>13. FreeErased'
    BY <1>1, <1>4, <2>1, Regions
      DEF SafeInv, FreeErased, Booting, Replaced, Rewriting, MarkingFor, Unmapped, Same
  <2> QED
    BY <1>1, <2>4, <2>5, <2>6, <2>7, <2>8, <2>9, <2>10, <2>11, <2>12, <2>13 DEF SafeInv
<1> QED
  BY <1>3, <1>4 DEF RecoverMapped

\* A loss of power keeps the invariant, wherever it happens: everything in RAM is forgotten,
\* and what is on flash stands on its own.
LEMMA SafePowerLoss ==
    ASSUME TypeOK, MapInv, SafeInv, PowerLoss
    PROVE  SafeInv'
<1>1. /\ UNCHANGED factory /\ pc' = "off" /\ op' = NoOp
      /\ table' = <<>> /\ bmtBlock' = 0 /\ bbtBlock' = 0 /\ bbt' = {} /\ ~poolErased'
      /\ lim' = Total
  BY DEF PowerLoss
<1>2. op'.val.kind = "erased" /\ op'.after = "idle"
  BY <1>1 DEF NoOp, Erased
<1>3. PICK done \in (IF Finding /\ ~poolErased THEN SUBSET Unmapped ELSE {{}}) :
        flash' = [b \in Blocks |-> IF b \in done THEN Blank ELSE flash[b]]
  BY DEF PowerLoss
<1>4. \A c \in Blocks : IF c \in done THEN Wiped(c) ELSE Same(c)
  BY <1>3, WipedView, SameView
<1>5. \A c \in done : c \in Unmapped /\ Finding /\ c \in Pool
  BY DEF Unmapped
<1>6. \A b \in Pool :
         HasBmt(b) => /\ b \notin done
                      /\ \A m \in MappedBlocks(flash[b].page[0].tab) : m \notin done
  BY <1>5, PoolEraseFree
<1>7. \A b \in Pool : HoldsBbt(b) => b \notin done
  BY <1>5, PoolEraseFree
<1>8. BmtPlace'
  BY <1>1, <1>4, Regions DEF SafeInv, BmtPlace, Loaded, Same, Wiped
<1>9. FlashTab'
  BY <1>4, Entries, Regions DEF SafeInv, FlashTab, TabGood, Same, Wiped
<1>10. TableTab'
  BY <1>1, Entries DEF TableTab, TabGood
<1>11. Sync'
  BY <1>1 DEF Sync, Loaded
<1>12. SysPlain'
  BY <1>4, Regions DEF SafeInv, SysPlain, Same, Wiped
<1>13. OpSafe'
  BY <1>1, <1>2 DEF OpSafe, Seeking, Replaced, Rewriting, Recovering, MarkingFor
<1>14. MarkSafe'
  BY <1>1 DEF MarkSafe
<1>15. BbtPlace'
  BY <1>1, <1>4, Regions DEF SafeInv, BbtPlace, Booting, Shipped, Same, Wiped
<1>16. Fresh'
  BY <1>1, <1>4, <1>5, <1>7, Regions DEF SafeInv, Fresh, Wiped, Blank
<1>17. FreeErased'
  BY <1>1 DEF FreeErased
<1> QED
  BY <1>1, <1>8, <1>9, <1>10, <1>11, <1>12, <1>13, <1>14, <1>15, <1>16, <1>17 DEF SafeInv
-----------------------------------------------------------------------------
(* The results *)

\* No mark fails, no read during the scan at boot or inside a recovery is over the threshold,
\* and the console commands are used on system blocks only. Each of these breaks one of the
\* results: a block whose mark fails is handed out again although it is not blank, a scan that
\* is cut short misses the BMT, a block that is replaced while it is recovered leaves its copy
\* unmapped and not blank, and a command on the block of the BBT copies it to a block that
\* stays free.
Ordinary == /\ FaultKinds \cap {"mark", "bootread", "recread"} = {}
            /\ DebugBlocks \cap Pool = {}

\* The invariant holds of the chip as it is delivered: it holds no table.
LEMMA SafeInit == Init => SafeInv
<1> SUFFICES ASSUME Init PROVE SafeInv
  OBVIOUS
<1>1. /\ pc = "off" /\ table = <<>> /\ bmtBlock = 0 /\ bbtBlock = 0 /\ ~poolErased
      /\ lim = Total /\ op.val.kind = "erased" /\ op.after = "idle"
  BY DEF Init, NoOp, Erased
<1>2. \A b \in Blocks : /\ flash[b].page[0].kind = "erased" /\ flash[b].idx = NoIndex
                        /\ flash[b].raw <=> b \in factory
  BY Regions DEF Init, Blank, Erased
<1>3. \A b \in Blocks : ~Meta(b) /\ ~HasBmt(b) /\ ~HoldsBbt(b)
  BY <1>2 DEF Meta, HasBmt, HoldsBbt, Kind
<1>4. MappedBlocks(table) = {}
  BY <1>1 DEF MappedBlocks
<1>5. BmtPlace /\ FlashTab /\ TableTab /\ Sync /\ SysPlain
  BY <1>1, <1>3, <1>4, Regions
     DEF BmtPlace, FlashTab, TableTab, TabGood, Sync, SysPlain, Loaded, Rebuilding, MarkingFor
<1>6. OpSafe /\ MarkSafe
  BY <1>1 DEF OpSafe, MarkSafe, Seeking, Replaced, Rewriting, Recovering, MarkingFor
<1>7. BbtPlace /\ Fresh /\ FreeErased
  BY <1>1, <1>2, <1>3, Regions DEF BbtPlace, Fresh, FreeErased, Booting
<1> QED
  BY <1>1, <1>5, <1>6, <1>7 DEF SafeInv

\* A step that changes nothing keeps the invariant.
LEMMA SafeStutter ==
    ASSUME SafeInv, UNCHANGED vars
    PROVE  SafeInv'
<1>1. UNCHANGED <<flash, factory, table, bmtBlock, bbtBlock, bbt, poolErased, lim, pc, op, mk>>
  BY DEF vars, flashVars, ramVars, ctlVars
<1>2. \A c : Same(c)
  BY <1>1, StillView
<1>3. BmtPlace' /\ FlashTab' /\ TableTab' /\ Sync' /\ SysPlain'
  BY <1>1, <1>2 DEF SafeInv, BmtPlace, FlashTab, TableTab, TabGood, Sync, SysPlain, Same,
     Loaded, Rebuilding, Rewriting, MarkingFor
<1>4. OpSafe' /\ MarkSafe'
  BY <1>1, <1>2 DEF SafeInv, OpSafe, MarkSafe, Same, Unmapped, Seeking, Replaced, Rewriting,
     Recovering, MarkingFor
<1>5. BbtPlace' /\ Fresh' /\ FreeErased'
  BY <1>1, <1>2 DEF SafeInv, BbtPlace, Fresh, FreeErased, Same, Unmapped, Shipped, Booting,
     Replaced, Rewriting, MarkingFor
<1> QED
  BY <1>1, <1>3, <1>4, <1>5 DEF SafeInv

\* Every step keeps the invariant.
LEMMA SafeStep ==
    ASSUME Ordinary, TypeOK, MapInv, SafeInv, [Next]_vars
    PROVE  SafeInv'
<1>1. "mark" \notin FaultKinds /\ "bootread" \notin FaultKinds /\ "recread" \notin FaultKinds
  BY DEF Ordinary
<1>2. \A b \in Blocks : b \in DebugBlocks => b \in System
  BY Regions DEF Ordinary
<1>3. CASE UNCHANGED vars
  BY <1>3, SafeStutter
<1>4. CASE PowerOn
  BY <1>4, SafePowerOn
<1>5. CASE Boot
  <2>1. ASSUME NEW b \in Pool, BootReadOverThreshold(b) PROVE FALSE
    BY <1>1, <2>1 DEF BootReadOverThreshold, Fail
  <2> QED
    BY <1>5, <2>1, SafeLoadBmt, SafeRemark, SafeReconstruct, SafeLoadBbt, SafeSaveBmt, SafeSaveBbt
       DEF Boot
<1>6. CASE Update
  BY <1>1, <1>6, SafeMarkErase, SafeMarkWrite, SafePoolErase, SafeBmtFind, SafeBmtErase,
     SafeBmtWrite, SafeBbtWrite, SafeFind, SafeCopy, SafeMarkOld, SafeDone DEF Update
<1>7. CASE Recover
  BY <1>1, <1>7, SafeRecoverCopy, SafeRecoverFree DEF Recover, RecoverRead, Fail
<1>8. CASE User
  BY <1>8, SafeEraseBlock, SafeWritePage, SafeRead DEF User
<1>9. CASE Console
  <2>1. ASSUME NEW b \in Blocks, RecoverPool(b) PROVE FALSE
    <3>1. b \in System /\ SysCount < b
      BY <1>2, <2>1 DEF RecoverPool
    <3> QED
      BY <3>1, BMTAssumption DEF System
  <2>2. ASSUME NEW b \in Blocks, MarkBadCommand(b) PROVE SafeInv'
    BY <1>2, <2>2, SafeMarkBadCommand DEF MarkBadCommand
  <2>3. ASSUME NEW b \in Blocks, RecoverMapped(b) PROVE SafeInv'
    BY <1>2, <2>3, SafeRecoverMapped DEF RecoverMapped
  <2> QED
    BY <1>9, <2>1, <2>2, <2>3 DEF Console
<1>10. CASE PowerLoss
  BY <1>10, SafePowerLoss
<1> QED
  BY <1>3, <1>4, <1>5, <1>6, <1>7, <1>8, <1>9, <1>10 DEF Next

\* The invariant holds in every reachable state.
LEMMA SafeAlways ==
    ASSUME Ordinary
    PROVE  Spec => [](TypeOK /\ MapInv /\ SafeInv)
<1>1. Init => TypeOK /\ MapInv /\ SafeInv
  BY TypeInit, MapInit, SafeInit
<1>2. TypeOK /\ MapInv /\ SafeInv /\ [Next]_vars => (TypeOK /\ MapInv /\ SafeInv)'
  BY TypeStep, MapStep, SafeStep
<1> QED
  BY <1>1, <1>2, PTL DEF Spec

\* No entry of the BMT leads to a block that is marked bad or holds the BMT or the BBT, and no
\* two to the same block: for every chip, every sequence of failed erases, programs and reads,
\* every replacement that starts over, and every power loss (MapSafe).
THEOREM MapAlwaysSafe ==
    ASSUME Ordinary
    PROVE  Spec => []MapSafe
<1>1. TypeOK /\ MapInv /\ SafeInv => MapSafe
  <2> SUFFICES ASSUME TypeOK, MapInv, SafeInv PROVE MapSafe
    OBVIOUS
  <2>1. Injective
    BY DEF MapInv, Inj, Injective
  <2>2. MappedUsable
    BY DEF MappedUsable, SafeInv, TableTab, TabGood, MappedBlocks
  <2>3. bmtBlock = bbtBlock => bmtBlock = 0
    BY DEF SafeInv, BbtPlace
  <2> QED
    BY <2>1, <2>2, <2>3 DEF MapSafe
<1> QED
  BY <1>1, SafeAlways, PTL

\* Once the pool was erased, a block that find_available_block may return is blank, so that
\* programming it needs no erase, whatever failed before and wherever power was lost, as long
\* as the failures are ordinary ones: a read over the threshold inside a recovery is not
\* (FreeBlank).
THEOREM FreeAlwaysBlank ==
    ASSUME Ordinary
    PROVE  Spec => []FreeBlank
<1>1. SafeInv => FreeBlank
  BY DEF FreeBlank, SafeInv, FreeErased
<1> QED
  BY <1>1, SafeAlways, PTL

\* The BBT of every boot is the list of the blocks that were bad when the chip was shipped, so
\* the numbering of the logical blocks never shifts, although blocks that fail later get the
\* same mark (BbtIsFactory).
THEOREM NumberingStable ==
    ASSUME Ordinary
    PROVE  Spec => []BbtIsFactory
<1>1. SafeInv => BbtIsFactory
  BY DEF BbtIsFactory, SafeInv, BbtPlace, Booting, MarkingFor, Shipped
<1> QED
  BY <1>1, SafeAlways, PTL

\* The erase of the pool never touches a block that the BMT on flash leads to: also after a
\* power loss that left that table on flash (PoolEraseSparesMapped).
THEOREM PoolErasedSafely ==
    ASSUME Ordinary
    PROVE  Spec => PoolEraseSparesMapped
<1> DEFINE Spares == ~poolErased /\ poolErased' =>
              \A b \in Pool : ~Bad(b) /\ flash[b].page[0].kind = "BMT"
                  => \A m \in MappedBlocks(flash[b].page[0].tab) : flash'[m] = flash[m]
<1>1. TypeOK /\ SafeInv /\ [Next]_vars => Spares
  <2> SUFFICES ASSUME TypeOK, SafeInv, [Next]_vars, ~poolErased, poolErased'
               PROVE  \A b \in Pool : ~Bad(b) /\ flash[b].page[0].kind = "BMT"
                        => \A m \in MappedBlocks(flash[b].page[0].tab) : flash'[m] = flash[m]
    OBVIOUS
  <2>1. PoolErase
    <3> USE DEF vars, flashVars, ramVars, ctlVars, ghostVars, boundVars
    <3>1. ~Boot /\ ~PowerOn /\ ~UNCHANGED vars /\ ~PowerLoss
      BY DEF Boot, PowerOn, LoadBmt, Remark, Reconstruct, LoadBbt, SaveBmt, SaveBbt,
         BootReadOverThreshold, PowerLoss
    <3>2. ~User /\ ~Console /\ ~Recover
      BY DEF User, Console, Recover, EraseBlock, WritePage, ReadOverThreshold, MarkBadCommand,
         RecoverMapped, RecoverPool, RecoverRead, RecoverCopy, RecoverFree
    <3>3. Update => PoolErase
      BY DEF Update, MarkErase, MarkWrite, BmtFind, BmtErase, BmtWrite, BbtWrite, Find, Copy,
         MarkOld, Done
    <3> QED
      BY <3>1, <3>2, <3>3 DEF Next
  <2>2. \A c \in Blocks : c \notin Unmapped => flash'[c] = flash[c]
    BY <2>1, PoolErased DEF Ordinary
  <2>3. Finding
    BY <2>1 DEF PoolErase
  <2> QED
    BY <2>2, <2>3, PoolEraseFree, Entries DEF HasBmt, Kind
<1>2. TypeOK /\ SafeInv /\ [Next]_vars => [Spares]_vars
  BY <1>1
<1> QED
  BY <1>2, SafeAlways, PTL DEF Spec, PoolEraseSparesMapped
=============================================================================
