-------------------------- MODULE UbootFlashProofs --------------------------
(***************************************************************************)
(* For any number of commands, faults and power cuts: what U-Boot keeps in *)
(* flash stays usable.                                                     *)
(***************************************************************************)
EXTENDS UbootFlash, TLAPS

-----------------------------------------------------------------------------
(* The inductive invariant.  Its parts speak of a flash that works (faults = 0), *)
(* TypeOK of any.                                                                *)

R == readBootFlagFromFlash

\* Between the erase and the write of the flag's block both images are whole, so
\* that it does not matter which of them the erased flag stands for.
SwapInv == (faults = 0 /\ ~unsafe) =>
    /\ img[R] = "whole"
    /\ pc = "swap" => img[1 - R] = "whole"
    /\ pc \in {"flagCheck", "flagErase", "flagWrite"} => img[tgt] = "whole"
    /\ pc = "bootm" /\ DualImage => dram # None
    /\ pc \in {"upWrite", "upWrite2"} => job = "writeimg"
    /\ ~DualImage => img[0] = "whole" /\ (pc \in {"upWrite", "upWrite2"} => tgt # 0)

\* An upgrade of NMRP replaces the image that does not boot.
TargetInv == faults = 0 =>
    /\ pc \in {"upErase", "upWrite", "upWrite2", "upDone"} /\ job = "writeimg" => tgt = 1 - R
    /\ pc = "upDone" /\ job = "writeimg" => img[tgt] = "whole"
    /\ pc = "flagErase" => tgt = 1 - R
    /\ pc # "upSpoil"

Moving == {"disable", "miErase", "miHead", "miWrite", "move", "mtkErase", "mtkWrite"}
Upgrading == {"upErase", "upWrite", "upWrite2", "upSpoil", "upDone"}
JobInv == pc \in Upgrading => job \in AllJobs

\* What was loaded is what the flag names.
RunInv == (faults = 0 /\ DualImage) =>
    (pc \in {"bootm", "linux"} /\ dram # None => dram = R) /\ (pc = "linux" => dram # None)

Flagging == {"flagCheck", "flagErase", "flagWrite"}
Saving == {"saveErase", "saveWrite"}
Loading == {"reloc", "load"} \cup Moving

\* The boot command swaps the flag once, away from an image that is bad; a
\* kernel that was just written is whole, so that the boot after it never
\* comes back to the delay with isSwap set.
BootInv == (faults = 0 /\ DualImage) =>
    /\ pc = "bootm" /\ dram = None => img[R] = "bad"
    /\ pc \in Loading \cup {"delay"} => ~isSwap
    /\ pc \in Upgrading => ~inBoot /\ (job = "kernel" => tgt = 0)
    /\ pc \in Upgrading \cup Saving => back # "gaveup" /\ (back = "delay" => ~isSwap)
    /\ pc = "upDone" /\ job = "kernel" => img[0] = "whole"
    /\ pc = "swap" /\ back # "console" => inBoot
    /\ pc \in {"swap", "flagCheck", "flagErase"} /\ inBoot => img[R] = "bad"
    /\ pc = "flagWrite" /\ inBoot => img[1 - tgt] = "bad"
    /\ pc = "flagCheck" /\ inBoot => tgt = 1 - R
    /\ pc \in Flagging /\ ~inBoot => back # "gaveup" /\ (back = "delay" => ~isSwap)
    /\ pc \in {"imgread", "bootm"} /\ isSwap /\ back = "gaveup" => img[1 - R] = "bad"
    /\ pc \in {"imgread", "bootm"} /\ isSwap /\ back = "delay" => R = 0
    /\ pc \in {"imgread", "bootm", "swap"} \cup Flagging /\ back = "delay" =>
        (pc \in Flagging /\ ~inBoot) \/ img[0] = "whole"
    /\ pc = "gaveup" => \A i \in Images : img[i] = "bad"

\* The boot code is erased only while mi.conf asks to be moved, and the first
\* thing written then is that it does not.
MoveInv == faults = 0 =>
    /\ codeErased <= 1
    /\ codeErased = 1 => ~mi.move
    /\ pc \in {"disable", "miErase"} => mi.move
    /\ pc \in {"miErase", "miHead", "miWrite"} => ~ram.move

\* An environment is saved only when there is nothing left to move.
SavedInv == faults = 0 =>
    /\ saved = "yes" => env.val = "user" /\ ~mi.move /\ pc \notin Moving
    /\ pc = "saveWrite" => saved # "yes"
    /\ saved = "no" /\ pc \notin {"reloc", "disable", "miErase", "dead"} => ~mi.move
    /\ pc \in {"upWrite", "upWrite2", "upDone"} /\ job \in {"uboot", "allinone"} =>
        saved = "replaced"

\* TypeOK in parts.
FlashOK == /\ code \in {"ok", "lost"}
           /\ mi \in Env \cup {Bad} /\ env \in Env \cup {Bad}
           /\ flag \in Images \cup {None}
           /\ img \in [Images -> {"whole", "kernel", "bad"}]
MemOK == ram \in Env /\ dram \in Images \cup {None} /\ buf \in Env \cup {Bad}
BoolOK == isSwap \in BOOLEAN /\ net \in BOOLEAN /\ inBoot \in BOOLEAN /\ unsafe \in BOOLEAN
CtlOK == tgt \in Images /\ job \in AllJobs \cup {"none"} /\ saved \in {"no", "yes", "replaced"}
CountOK == /\ codeErased \in 0..2
           /\ ops \in 0..MaxOps /\ faults \in 0..MaxFaults /\ crashes \in 0..MaxCrashes
Pcs == {"reloc", "disable", "miErase", "miHead", "miWrite", "move", "mtkErase", "mtkWrite",
        "load", "delay", "console", "saveErase", "saveWrite", "swap", "flagCheck",
        "flagErase", "flagWrite", "upErase", "upWrite", "upWrite2", "upSpoil", "upDone",
        "imgread", "bootm", "gaveup", "linux", "dead"}
PcOK == back \in {"console", "delay", "gaveup"} /\ pc \in Pcs

FInv == TypeOK /\ SwapInv /\ TargetInv /\ RunInv /\ MoveInv /\ SavedInv /\ JobInv /\ BootInv

-----------------------------------------------------------------------------
\* TypeOK, taken apart so that each action shows only the parts it can disturb.
LEMMA TypeParts ==
    /\ TypeOK <=> (FlashOK /\ MemOK /\ BoolOK /\ CtlOK /\ CountOK /\ PcOK)
    /\ TypeOK' <=> (FlashOK /\ MemOK /\ BoolOK /\ CtlOK /\ CountOK /\ PcOK)'
BY ONLY DEF TypeOK, FlashOK, MemOK, BoolOK, CtlOK, CountOK, PcOK, Pcs

\* What the proofs need to know of the environments.
LEMMA EnvValues ==
    /\ Default \in Env /\ Default.move = FALSE
    /\ Bad.move = FALSE /\ Bad.val = "bad"
    /\ \A m \in BOOLEAN : [val |-> "miconf", move |-> m] \in Env
    /\ \A x \in Env \cup {Bad} :
        /\ env_import(x) \in Env
        /\ [env_import(x) EXCEPT !.move = FALSE] \in Env
        /\ [env_import(x) EXCEPT !.move = FALSE].move = FALSE
    /\ \A x \in Env : /\ [x EXCEPT !.val = "user"] \in Env
                      /\ [x EXCEPT !.val = "user"].val = "user"
                      /\ [x EXCEPT !.val = "user"].move = x.move
                      /\ x.move \in BOOLEAN
BY DEF Env, Default, Bad, env_import

\* A device as it leaves the factory or as an upgrade of before left it satisfies
\* the invariant.
LEMMA FInit == Init => FInv
<1> SUFFICES ASSUME Init PROVE FInv OBVIOUS
<1> USE UbootFlashAssumption
<1>1. FlashOK /\ MemOK
    BY EnvValues DEF Init, FlashOK, MemOK, Images
<1>2. BoolOK
    BY Zenon DEF Init, BoolOK
<1>3. CtlOK /\ CountOK /\ PcOK
    BY DEF Init, CtlOK, CountOK, PcOK, Pcs, Images
<1>4. SwapInv /\ TargetInv /\ RunInv
    BY DEF Init, SwapInv, TargetInv, RunInv, R, readBootFlagFromFlash, Images
<1>5. MoveInv /\ SavedInv
    BY DEF Init, MoveInv, SavedInv
<1>6. JobInv
    BY DEF Init, JobInv, Upgrading
<1>7. BootInv
    BY DEF Init, BootInv
<1> QED BY <1>1, <1>2, <1>3, <1>4, <1>5, <1>6, <1>7, TypeParts DEF FInv

\* The search for MTK_MOVE_ENV writes nothing; only a found one leads to the move.
LEMMA Keeps_mtk_check_first_boot ==
    ASSUME FInv, mtk_check_first_boot
    PROVE  FInv'
<1> USE UbootFlashAssumption DEF mtk_check_first_boot, flashVars, ctlVars, memVars,
      countVars, ghostVars, Step, Works, Fails
<1> TypeOK /\ FlashOK /\ MemOK /\ BoolOK /\ CtlOK /\ CountOK /\ PcOK
    BY ONLY FInv, TypeParts DEF FInv
<1>1. FlashOK' /\ MemOK'
    BY DEF FlashOK, MemOK
<1>2. BoolOK'
    BY Zenon DEF BoolOK
<1>3. CtlOK' /\ CountOK'
    BY DEF CtlOK, CountOK
<1>4. PcOK'
    BY DEF PcOK, Pcs
<1>5. SwapInv' /\ TargetInv' /\ RunInv'
    BY DEF FInv, CountOK, SwapInv, TargetInv, RunInv, R, readBootFlagFromFlash
<1>6. MoveInv' /\ SavedInv'
    BY EnvValues DEF FInv, CountOK, MoveInv, SavedInv, Moving
<1>7. JobInv'
    BY DEF JobInv, Upgrading
<1>8. BootInv'
    BY DEF FInv, BootInv, CountOK, Loading, Upgrading, Saving, Flagging
<1> QED BY ONLY <1>1, <1>2, <1>3, <1>4, <1>5, <1>6, <1>7, <1>8, TypeParts DEF FInv

\* MTK_MOVE_ENV is cleared in memory, and the block of mi.conf is written next.
LEMMA Keeps_disable_mtk_move_env ==
    ASSUME FInv, disable_mtk_move_env
    PROVE  FInv'
<1> USE UbootFlashAssumption DEF disable_mtk_move_env, flashVars, ctlVars, memVars,
      countVars, ghostVars, Step, Works, Fails
<1> TypeOK /\ FlashOK /\ MemOK /\ BoolOK /\ CtlOK /\ CountOK /\ PcOK
    BY ONLY FInv, TypeParts DEF FInv
<1>1. FlashOK' /\ MemOK'
    BY EnvValues DEF FlashOK, MemOK
<1>2. BoolOK'
    BY Zenon DEF BoolOK
<1>3. CtlOK' /\ CountOK'
    BY DEF CtlOK, CountOK
<1>4. PcOK'
    BY DEF PcOK, Pcs
<1>5. SwapInv' /\ TargetInv' /\ RunInv'
    BY DEF FInv, CountOK, SwapInv, TargetInv, RunInv, R, readBootFlagFromFlash
<1>6. MoveInv' /\ SavedInv'
  <2> SUFFICES ASSUME faults' = 0 PROVE MoveInv' /\ SavedInv'
      BY DEF MoveInv, SavedInv
  <2>1. faults = 0 /\ pc = "disable" /\ pc' = "miErase"
      BY DEF CountOK
  <2>2. ~ram'.move
      BY EnvValues DEF FlashOK
  <2> QED BY <2>1, <2>2 DEF FInv, MoveInv, SavedInv, Moving
<1>7. JobInv'
    BY DEF JobInv, Upgrading
<1>8. BootInv'
    BY DEF FInv, BootInv, CountOK, Loading, Moving, Upgrading, Saving, Flagging
<1> QED BY ONLY <1>1, <1>2, <1>3, <1>4, <1>5, <1>6, <1>7, <1>8, TypeParts DEF FInv

\* The erase that takes boot code and mi.conf together: it is the first one, as
\* mi.conf still asks to be moved.
LEMMA Keeps_MiErase ==
    ASSUME FInv, MiErase
    PROVE  FInv'
<1> USE UbootFlashAssumption DEF MiErase, flashVars, ctlVars, memVars, countVars,
      ghostVars, Step, Works, Fails
<1> TypeOK /\ FlashOK /\ MemOK /\ BoolOK /\ CtlOK /\ CountOK /\ PcOK
    BY ONLY FInv, TypeParts DEF FInv
<1>1. FlashOK' /\ MemOK'
    BY DEF FlashOK, MemOK
<1>2. BoolOK'
    BY Zenon DEF BoolOK
<1>3. CtlOK' /\ CountOK'
    BY DEF CtlOK, CountOK
<1>4. PcOK'
    BY DEF PcOK, Pcs
<1>5. SwapInv' /\ TargetInv' /\ RunInv'
    BY DEF FInv, CountOK, SwapInv, TargetInv, RunInv, R, readBootFlagFromFlash
<1>6. MoveInv' /\ SavedInv'
  <2> SUFFICES ASSUME faults' = 0 PROVE MoveInv' /\ SavedInv'
      BY DEF MoveInv, SavedInv
  <2>1. faults = 0 /\ pc = "miErase" /\ pc' = "miHead" /\ mi' = Bad
      BY DEF CountOK
  <2>2. codeErased = 0 /\ codeErased' = 1
      BY DEF FInv, MoveInv, CountOK
  <2>3. ~ram'.move
      BY <2>1 DEF FInv, MoveInv
  <2>4. MoveInv'
      BY <2>2, <2>3, EnvValues DEF MoveInv
  <2>5. SavedInv'
      BY <2>1, EnvValues DEF FInv, SavedInv, Moving
  <2> QED BY <2>4, <2>5
<1>7. JobInv'
    BY DEF JobInv, Upgrading
<1>8. BootInv'
    BY DEF FInv, BootInv, CountOK, Loading, Moving, Upgrading, Saving, Flagging
<1> QED BY ONLY <1>1, <1>2, <1>3, <1>4, <1>5, <1>6, <1>7, <1>8, TypeParts DEF FInv

\* The boot code before mi.conf is written back.
LEMMA Keeps_MiHead ==
    ASSUME FInv, MiHead
    PROVE  FInv'
<1> USE UbootFlashAssumption DEF MiHead, flashVars, ctlVars, memVars, countVars,
      ghostVars, Step, Works, Fails
<1> TypeOK /\ FlashOK /\ MemOK /\ BoolOK /\ CtlOK /\ CountOK /\ PcOK
    BY ONLY FInv, TypeParts DEF FInv
<1>1. FlashOK' /\ MemOK'
    BY DEF FlashOK, MemOK
<1>2. BoolOK'
    BY Zenon DEF BoolOK
<1>3. CtlOK' /\ CountOK'
    BY DEF CtlOK, CountOK
<1>4. PcOK'
    BY DEF PcOK, Pcs
<1>5. SwapInv' /\ TargetInv' /\ RunInv'
    BY DEF FInv, CountOK, SwapInv, TargetInv, RunInv, R, readBootFlagFromFlash
<1>6. MoveInv' /\ SavedInv'
    BY DEF FInv, CountOK, MoveInv, SavedInv, Moving
<1>7. JobInv'
    BY DEF JobInv, Upgrading
<1>8. BootInv'
    BY DEF FInv, BootInv, CountOK, Loading, Moving, Upgrading, Saving, Flagging
<1> QED BY ONLY <1>1, <1>2, <1>3, <1>4, <1>5, <1>6, <1>7, <1>8, TypeParts DEF FInv

\* mi.conf is written back and asks no more to be moved.
LEMMA Keeps_MiWrite ==
    ASSUME FInv, MiWrite
    PROVE  FInv'
<1> USE UbootFlashAssumption DEF MiWrite, flashVars, ctlVars, memVars, countVars,
      ghostVars, Step, Works, Fails
<1> TypeOK /\ FlashOK /\ MemOK /\ BoolOK /\ CtlOK /\ CountOK /\ PcOK
    BY ONLY FInv, TypeParts DEF FInv
<1>1. FlashOK' /\ MemOK'
    BY DEF FlashOK, MemOK
<1>2. BoolOK'
    BY Zenon DEF BoolOK
<1>3. CtlOK' /\ CountOK'
    BY DEF CtlOK, CountOK
<1>4. PcOK'
    BY DEF PcOK, Pcs
<1>5. SwapInv' /\ TargetInv' /\ RunInv'
    BY DEF FInv, CountOK, SwapInv, TargetInv, RunInv, R, readBootFlagFromFlash
<1>6. MoveInv' /\ SavedInv'
    BY DEF FInv, CountOK, MoveInv, SavedInv, Moving
<1>7. JobInv'
    BY DEF JobInv, Upgrading
<1>8. BootInv'
    BY DEF FInv, BootInv, CountOK, Loading, Moving, Upgrading, Saving, Flagging
<1> QED BY ONLY <1>1, <1>2, <1>3, <1>4, <1>5, <1>6, <1>7, <1>8, TypeParts DEF FInv

\* The copy of mi.conf to 0x80000; nothing was saved there yet.
LEMMA Keeps_mtk_move_miconf ==
    ASSUME FInv, mtk_move_miconf
    PROVE  FInv'
<1> USE UbootFlashAssumption DEF mtk_move_miconf, flashVars, ctlVars, memVars,
      countVars, ghostVars, Step, Works, Fails
<1> TypeOK /\ FlashOK /\ MemOK /\ BoolOK /\ CtlOK /\ CountOK /\ PcOK
    BY ONLY FInv, TypeParts DEF FInv
<1>1. FlashOK' /\ MemOK'
    BY DEF FlashOK, MemOK
<1>2. BoolOK'
    BY Zenon DEF BoolOK
<1>3. CtlOK' /\ CountOK'
    BY DEF CtlOK, CountOK
<1>4. PcOK'
    BY DEF PcOK, Pcs
<1>5. SwapInv' /\ TargetInv' /\ RunInv'
    BY DEF FInv, CountOK, SwapInv, TargetInv, RunInv, R, readBootFlagFromFlash
<1>6. MoveInv' /\ SavedInv'
    BY DEF FInv, CountOK, MoveInv, SavedInv, Moving
<1>7. JobInv'
    BY DEF JobInv, Upgrading
<1>8. BootInv'
    BY DEF FInv, BootInv, CountOK, Loading, Moving, Upgrading, Saving, Flagging
<1> QED BY ONLY <1>1, <1>2, <1>3, <1>4, <1>5, <1>6, <1>7, <1>8, TypeParts DEF FInv

\* The environment is read, or the default one taken.
LEMMA Keeps_LoadEnv ==
    ASSUME FInv, LoadEnv
    PROVE  FInv'
<1> USE UbootFlashAssumption DEF LoadEnv, flashVars, ctlVars, memVars, countVars,
      ghostVars, Step, Works, Fails
<1> TypeOK /\ FlashOK /\ MemOK /\ BoolOK /\ CtlOK /\ CountOK /\ PcOK
    BY ONLY FInv, TypeParts DEF FInv
<1>1. FlashOK' /\ MemOK'
    BY EnvValues DEF FlashOK, MemOK
<1>2. BoolOK'
    BY Zenon DEF BoolOK
<1>3. CtlOK' /\ CountOK'
    BY DEF CtlOK, CountOK
<1>4. PcOK'
    BY DEF PcOK, Pcs
<1>5. SwapInv' /\ TargetInv' /\ RunInv'
    BY DEF FInv, CountOK, SwapInv, TargetInv, RunInv, R, readBootFlagFromFlash
<1>6. MoveInv' /\ SavedInv'
    BY DEF FInv, CountOK, MoveInv, SavedInv, Moving
<1>7. JobInv'
    BY DEF JobInv, Upgrading
<1>8. BootInv'
    BY DEF FInv, BootInv, CountOK, Loading, Upgrading, Saving, Flagging
<1> QED BY ONLY <1>1, <1>2, <1>3, <1>4, <1>5, <1>6, <1>7, <1>8, TypeParts DEF FInv

\* saveenv starts with nothing left to move, so what it writes stays.
LEMMA Keeps_saveenv ==
    ASSUME FInv, saveenv
    PROVE  FInv'
<1> USE UbootFlashAssumption DEF saveenv, SaveEnv, Command, Packet, Called, flashVars,
      ctlVars, memVars, countVars, ghostVars, Step, Works, Fails
<1> TypeOK /\ FlashOK /\ MemOK /\ BoolOK /\ CtlOK /\ CountOK /\ PcOK
    BY ONLY FInv, TypeParts DEF FInv
<1>1. FlashOK' /\ MemOK'
    BY EnvValues DEF FlashOK, MemOK
<1>2. BoolOK'
    BY Zenon DEF BoolOK
<1>3. CtlOK' /\ CountOK'
    BY DEF CtlOK, CountOK
<1>4. PcOK'
    BY DEF PcOK, Pcs
<1>5. SwapInv' /\ TargetInv' /\ RunInv'
    BY DEF FInv, CountOK, PcOK, SwapInv, TargetInv, RunInv, R, readBootFlagFromFlash
<1>6. MoveInv' /\ SavedInv'
  <2> SUFFICES ASSUME faults' = 0 PROVE MoveInv' /\ SavedInv'
      BY DEF MoveInv, SavedInv
  <2>1. faults = 0 /\ MoveInv /\ SavedInv
      BY DEF FInv, CountOK
  <2>2. pc' \in {"saveErase", "saveWrite", "console", "delay", "gaveup"}
      BY DEF PcOK
  <2>3. MoveInv'
      BY <2>1, <2>2 DEF MoveInv
  <2>4. SavedInv'
    <3>1. CASE pc \in {"console", "delay"}
        BY <3>1, <2>1 DEF SavedInv, Moving
    <3>2. CASE pc = "saveErase"
        BY <3>2, <2>1 DEF SavedInv
    <3>3. CASE pc = "saveWrite"
      <4>1. saved # "yes" /\ mi' = mi /\ (saved = "no" => ~mi.move)
          BY <3>3, <2>1 DEF SavedInv
      <4>4. pc' \in {"console", "delay", "gaveup"}
          BY <3>3 DEF PcOK
      <4>2. saved' = "yes" => saved = "no" /\ env'.val = "user"
          BY <3>3, <4>1, <2>1
      <4>3. saved' = "no" => saved = "no"
          BY <3>3, <4>1, <2>1
      <4> QED BY <4>1, <4>2, <4>3, <4>4, <3>3 DEF SavedInv, Moving
    <3> QED BY <3>1, <3>2, <3>3
  <2> QED BY <2>3, <2>4
<1>7. JobInv'
    BY DEF JobInv, Upgrading, PcOK
<1>8. BootInv'
    BY DEF FInv, BootInv, CountOK, PcOK, Loading, Moving, Upgrading, Saving, Flagging
<1> QED BY ONLY <1>1, <1>2, <1>3, <1>4, <1>5, <1>6, <1>7, <1>8, TypeParts DEF FInv

\* The console command that asks for a swap of the flag.
LEMMA Keeps_SwapCommand ==
    ASSUME FInv, SwapCommand
    PROVE  FInv'
<1> USE UbootFlashAssumption DEF SwapCommand, Command, Called, flashVars, ctlVars,
      memVars, countVars, ghostVars, Step, Works, Fails
<1> TypeOK /\ FlashOK /\ MemOK /\ BoolOK /\ CtlOK /\ CountOK /\ PcOK
    BY ONLY FInv, TypeParts DEF FInv
<1>1. FlashOK' /\ MemOK'
    BY DEF FlashOK, MemOK
<1>2. BoolOK'
    BY Zenon DEF BoolOK
<1>3. CtlOK' /\ CountOK'
    BY DEF CtlOK, CountOK
<1>4. PcOK'
    BY DEF PcOK, Pcs
<1>5. SwapInv' /\ TargetInv' /\ RunInv'
    BY DEF FInv, SwapInv, TargetInv, RunInv, R, readBootFlagFromFlash
<1>6. MoveInv' /\ SavedInv'
    BY DEF FInv, MoveInv, SavedInv, Moving
<1>7. JobInv'
    BY DEF JobInv, Upgrading
<1>8. BootInv'
    BY DEF BootInv, Loading, Moving, Upgrading
<1> QED BY ONLY <1>1, <1>2, <1>3, <1>4, <1>5, <1>6, <1>7, <1>8, TypeParts DEF FInv

\* The console command that boots.
LEMMA Keeps_GoCommand ==
    ASSUME FInv, GoCommand
    PROVE  FInv'
<1> USE UbootFlashAssumption DEF GoCommand, Command, Called, flashVars, ctlVars,
      memVars, countVars, ghostVars, Step, Works, Fails
<1> TypeOK /\ FlashOK /\ MemOK /\ BoolOK /\ CtlOK /\ CountOK /\ PcOK
    BY ONLY FInv, TypeParts DEF FInv
<1>1. FlashOK' /\ MemOK'
    BY DEF FlashOK, MemOK
<1>2. BoolOK'
    BY Zenon DEF BoolOK
<1>3. CtlOK' /\ CountOK'
    BY DEF CtlOK, CountOK
<1>4. PcOK'
    BY DEF PcOK, Pcs
<1>5. SwapInv' /\ TargetInv' /\ RunInv'
    BY DEF FInv, SwapInv, TargetInv, RunInv, R, readBootFlagFromFlash
<1>6. MoveInv' /\ SavedInv'
    BY DEF FInv, MoveInv, SavedInv, Moving
<1>7. JobInv'
    BY DEF JobInv, Upgrading
<1>8. BootInv'
    BY DEF BootInv, Loading, Moving, Upgrading
<1> QED BY ONLY <1>1, <1>2, <1>3, <1>4, <1>5, <1>6, <1>7, <1>8, TypeParts DEF FInv

\* The image to be named next is the other one.
LEMMA Keeps_swap_bootflag ==
    ASSUME FInv, swap_bootflag
    PROVE  FInv'
<1> USE UbootFlashAssumption DEF swap_bootflag, FlagRead, flashVars, ctlVars, memVars,
      countVars, ghostVars, Step, Works, Fails
<1> TypeOK /\ FlashOK /\ MemOK /\ BoolOK /\ CtlOK /\ CountOK /\ PcOK
    BY ONLY FInv, TypeParts DEF FInv
<1>1. FlashOK' /\ MemOK'
    BY DEF FlashOK, MemOK
<1>2. BoolOK'
    BY Zenon DEF BoolOK
<1>3. CtlOK' /\ CountOK'
    BY DEF CtlOK, CountOK, Images
<1>4. PcOK'
    BY DEF PcOK, Pcs
<1>5. SwapInv' /\ TargetInv' /\ RunInv'
    BY DEF FInv, CountOK, SwapInv, TargetInv, RunInv, R, readBootFlagFromFlash
<1>6. MoveInv' /\ SavedInv'
    BY DEF FInv, CountOK, MoveInv, SavedInv, Moving
<1>7. JobInv'
    BY DEF JobInv, Upgrading
<1>8. BootInv'
    BY DEF FInv, BootInv, CountOK, R, readBootFlagFromFlash, Loading, Moving, Upgrading, Saving
<1> QED BY ONLY <1>1, <1>2, <1>3, <1>4, <1>5, <1>6, <1>7, <1>8, TypeParts DEF FInv

\* The block of the flag is erased and written; both images are whole or it is the
\* fallback from a bad one.
LEMMA Keeps_writeBootFlagtoFlash ==
    ASSUME FInv, writeBootFlagtoFlash
    PROVE  FInv'
<1> USE UbootFlashAssumption DEF writeBootFlagtoFlash, FlagRead, FlagDone, flashVars,
      ctlVars, memVars, countVars, ghostVars, Step, Works, Fails
<1> TypeOK /\ FlashOK /\ MemOK /\ BoolOK /\ CtlOK /\ CountOK /\ PcOK
    BY ONLY FInv, TypeParts DEF FInv
<1>1. FlashOK' /\ MemOK'
    BY DEF FlashOK, MemOK, CtlOK
<1>2. BoolOK'
    BY Zenon DEF BoolOK
<1>3. CtlOK' /\ CountOK'
    BY DEF CtlOK, CountOK
<1>4. PcOK'
    BY DEF PcOK, Pcs
<1>5. SwapInv' /\ TargetInv' /\ RunInv'
    BY DEF FInv, CtlOK, CountOK, PcOK, SwapInv, TargetInv, RunInv, R, readBootFlagFromFlash,
       Images
<1>6. MoveInv' /\ SavedInv'
    BY DEF FInv, CountOK, PcOK, MoveInv, SavedInv, Moving
<1>7. JobInv'
    BY DEF JobInv, Upgrading, PcOK
<1>8. BootInv'
    BY DEF FInv, BootInv, TargetInv, CtlOK, CountOK, PcOK, R, readBootFlagFromFlash, Images,
       Loading, Moving, Upgrading, Saving, Flagging
<1> QED BY ONLY <1>1, <1>2, <1>3, <1>4, <1>5, <1>6, <1>7, <1>8, TypeParts DEF FInv

\* An upgrade picks what it replaces: writeimg the image that does not boot.
LEMMA Keeps_StartJob ==
    ASSUME FInv, NEW j \in AllJobs, StartJob(j)
    PROVE  FInv'
<1> USE UbootFlashAssumption DEF StartJob, WriteTarget, FlagRead, Packet, Called,
      flashVars, ctlVars, memVars, countVars, ghostVars, Step, Works, Fails
<1> TypeOK /\ FlashOK /\ MemOK /\ BoolOK /\ CtlOK /\ CountOK /\ PcOK
    BY ONLY FInv, TypeParts DEF FInv
<1>1. FlashOK' /\ MemOK'
    BY DEF FlashOK, MemOK
<1>2. BoolOK'
    BY Zenon DEF BoolOK
<1>3. CtlOK' /\ CountOK'
    BY DEF CtlOK, CountOK, Images
<1>4. PcOK'
    BY DEF PcOK, Pcs
<1>5. SwapInv' /\ TargetInv' /\ RunInv'
    BY DEF FInv, CountOK, SwapInv, TargetInv, RunInv, R, readBootFlagFromFlash, Images
<1>6. MoveInv' /\ SavedInv'
    BY DEF FInv, CountOK, MoveInv, SavedInv, Moving
<1>7. JobInv'
    BY DEF JobInv
<1>8. BootInv'
    BY DEF FInv, BootInv, CountOK, Loading, Moving
<1> QED BY ONLY <1>1, <1>2, <1>3, <1>4, <1>5, <1>6, <1>7, <1>8, TypeParts DEF FInv

\* The erase of an upgrade destroys only what it is about to replace.
LEMMA Keeps_UpErase ==
    ASSUME FInv, UpErase
    PROVE  FInv'
<1> USE UbootFlashAssumption DEF UpErase, Replaced, flashVars, ctlVars, memVars,
      countVars, ghostVars, Step, Works, Fails
<1> TypeOK /\ FlashOK /\ MemOK /\ BoolOK /\ CtlOK /\ CountOK /\ PcOK
    BY ONLY FInv, TypeParts DEF FInv
<1>1. FlashOK' /\ MemOK'
    BY DEF FlashOK, MemOK
<1>2. BoolOK'
    BY Zenon DEF BoolOK
<1>3. CtlOK' /\ CountOK'
    BY DEF CtlOK, CountOK
<1>4. PcOK'
    BY DEF PcOK, Pcs
<1>5. SwapInv' /\ TargetInv' /\ RunInv'
  <2> SUFFICES ASSUME faults' = 0 PROVE SwapInv' /\ TargetInv' /\ RunInv'
      BY DEF SwapInv, TargetInv, RunInv
  <2>1. faults = 0 /\ R' = R /\ R \in Images /\ 1 - R \in Images
      BY DEF CountOK, R, readBootFlagFromFlash, Images
  <2>2. job = "writeimg" => tgt = 1 - R
      BY <2>1 DEF FInv, TargetInv
  <2>3. job \in AllJobs
      BY DEF FInv, JobInv, Upgrading
  <2>4. TargetInv'
      BY <2>1 DEF FInv, TargetInv
  <2>5. SwapInv'
    <3> SUFFICES ASSUME ~unsafe' PROVE SwapInv'
        BY DEF SwapInv
    <3>1. ~unsafe /\ job = "writeimg" /\ (~DualImage => tgt # 0)
        BY Zenon
    <3>2. img'[R] = img[R] /\ img[R] = "whole"
        BY <3>1, <2>1, <2>2 DEF FInv, SwapInv, Images
    <3>3. ~DualImage => img'[0] = img[0] /\ img[0] = "whole"
        BY <3>1, <2>1 DEF FInv, SwapInv, Images
    <3> QED BY <3>1, <3>2, <3>3, <2>1 DEF SwapInv
  <2>6. RunInv'
      BY DEF RunInv
  <2> QED BY <2>4, <2>5, <2>6
<1>6. MoveInv' /\ SavedInv'
    BY EnvValues DEF FInv, CountOK, MoveInv, SavedInv, Moving
<1>7. JobInv'
    BY DEF FInv, JobInv, Upgrading
<1>8. BootInv'
    BY DEF FInv, BootInv, CountOK, Loading, Moving, Upgrading
<1> QED BY ONLY <1>1, <1>2, <1>3, <1>4, <1>5, <1>6, <1>7, <1>8, TypeParts DEF FInv

\* The (first) write of an upgrade.
LEMMA Keeps_UpWrite ==
    ASSUME FInv, UpWrite
    PROVE  FInv'
<1> USE UbootFlashAssumption DEF UpWrite, Replaced, flashVars, ctlVars, memVars,
      countVars, ghostVars, Step, Works, Fails
<1> TypeOK /\ FlashOK /\ MemOK /\ BoolOK /\ CtlOK /\ CountOK /\ PcOK
    BY ONLY FInv, TypeParts DEF FInv
<1>1. FlashOK' /\ MemOK'
    BY EnvValues DEF FlashOK, MemOK
<1>2. BoolOK'
    BY Zenon DEF BoolOK
<1>3. CtlOK' /\ CountOK'
    BY DEF CtlOK, CountOK
<1>4. PcOK'
    BY DEF PcOK, Pcs
<1>5. SwapInv' /\ TargetInv' /\ RunInv'
  <2> SUFFICES ASSUME faults' = 0 PROVE SwapInv' /\ TargetInv' /\ RunInv'
      BY DEF SwapInv, TargetInv, RunInv
  <2>1. faults = 0 /\ R' = R /\ R \in Images /\ 1 - R \in Images
      BY DEF CountOK, R, readBootFlagFromFlash, Images
  <2>2. job = "writeimg" => tgt = 1 - R
      BY <2>1 DEF FInv, TargetInv
  <2>3. job \in AllJobs
      BY DEF FInv, JobInv, Upgrading
  <2>4. TargetInv'
      BY <2>1 DEF FInv, TargetInv
  <2>5. SwapInv'
      BY <2>1 DEF FInv, SwapInv, TargetInv, Images
  <2>6. RunInv'
      BY DEF RunInv
  <2> QED BY <2>4, <2>5, <2>6
<1>6. MoveInv' /\ SavedInv'
    BY DEF FInv, CountOK, MoveInv, SavedInv, Moving
<1>7. JobInv'
    BY DEF FInv, JobInv, Upgrading
<1>8. BootInv'
    BY DEF FInv, BootInv, CountOK, Loading, Moving, Upgrading
<1> QED BY ONLY <1>1, <1>2, <1>3, <1>4, <1>5, <1>6, <1>7, <1>8, TypeParts DEF FInv

\* The second write of an upgrade.
LEMMA Keeps_UpWrite2 ==
    ASSUME FInv, UpWrite2
    PROVE  FInv'
<1> USE UbootFlashAssumption DEF UpWrite2, Replaced, flashVars, ctlVars, memVars,
      countVars, ghostVars, Step, Works, Fails
<1> TypeOK /\ FlashOK /\ MemOK /\ BoolOK /\ CtlOK /\ CountOK /\ PcOK
    BY ONLY FInv, TypeParts DEF FInv
<1>1. FlashOK' /\ MemOK'
    BY DEF FlashOK, MemOK
<1>2. BoolOK'
    BY Zenon DEF BoolOK
<1>3. CtlOK' /\ CountOK'
    BY DEF CtlOK, CountOK
<1>4. PcOK'
    BY DEF PcOK, Pcs
<1>5. SwapInv' /\ TargetInv' /\ RunInv'
  <2> SUFFICES ASSUME faults' = 0 PROVE SwapInv' /\ TargetInv' /\ RunInv'
      BY DEF SwapInv, TargetInv, RunInv
  <2>1. faults = 0 /\ R' = R /\ R \in Images /\ 1 - R \in Images
      BY DEF CountOK, R, readBootFlagFromFlash, Images
  <2>2. job = "writeimg" => tgt = 1 - R
      BY <2>1 DEF FInv, TargetInv
  <2>3. job \in AllJobs
      BY DEF FInv, JobInv, Upgrading
  <2>4. TargetInv'
      BY <2>1 DEF FInv, TargetInv
  <2>5. SwapInv'
      BY <2>1 DEF FInv, SwapInv, Images
  <2>6. RunInv'
      BY DEF RunInv
  <2> QED BY <2>4, <2>5, <2>6
<1>6. MoveInv' /\ SavedInv'
    BY DEF FInv, CountOK, MoveInv, SavedInv, Moving
<1>7. JobInv'
    BY DEF FInv, JobInv, Upgrading
<1>8. BootInv'
    BY DEF FInv, BootInv, CountOK, Images, Loading, Moving, Upgrading
<1> QED BY ONLY <1>1, <1>2, <1>3, <1>4, <1>5, <1>6, <1>7, <1>8, TypeParts DEF FInv

\* The way of a failed flash call; with a flash that works it is not taken.
LEMMA Keeps_UpSpoil ==
    ASSUME FInv, UpSpoil
    PROVE  FInv'
<1> USE UbootFlashAssumption DEF UpSpoil, flashVars, ctlVars, memVars, countVars,
      ghostVars, Step, Works, Fails
<1> TypeOK /\ FlashOK /\ MemOK /\ BoolOK /\ CtlOK /\ CountOK /\ PcOK
    BY ONLY FInv, TypeParts DEF FInv
<1>1. FlashOK' /\ MemOK'
    BY DEF FlashOK, MemOK
<1>2. BoolOK'
    BY Zenon DEF BoolOK
<1>3. CtlOK' /\ CountOK'
    BY DEF CtlOK, CountOK
<1>4. PcOK'
    BY DEF PcOK, Pcs
<1>5. SwapInv' /\ TargetInv' /\ RunInv'
    BY DEF FInv, SwapInv, TargetInv, RunInv
<1>6. MoveInv' /\ SavedInv'
    BY DEF FInv, TargetInv, MoveInv, SavedInv
<1>7. JobInv'
    BY DEF FInv, JobInv, Upgrading
<1>8. BootInv'
    BY DEF FInv, BootInv, TargetInv
<1> QED BY ONLY <1>1, <1>2, <1>3, <1>4, <1>5, <1>6, <1>7, <1>8, TypeParts DEF FInv

\* After its writes writeimg swaps the flag to a whole image; others start over.
LEMMA Keeps_UpDone ==
    ASSUME FInv, UpDone
    PROVE  FInv'
<1> USE UbootFlashAssumption DEF UpDone, PowerOn, Dead, flashVars, ctlVars, memVars,
      countVars, ghostVars, Step, Works, Fails
<1> TypeOK /\ FlashOK /\ MemOK /\ BoolOK /\ CtlOK /\ CountOK /\ PcOK
    BY ONLY FInv, TypeParts DEF FInv
<1>1. FlashOK' /\ MemOK'
    BY EnvValues DEF FlashOK, MemOK
<1>2. BoolOK'
    BY Zenon DEF BoolOK
<1>3. CtlOK' /\ CountOK'
    BY DEF CtlOK, CountOK, Images
<1>4. PcOK'
    BY DEF PcOK, Pcs
<1>5. SwapInv' /\ TargetInv' /\ RunInv'
    BY DEF FInv, PcOK, SwapInv, TargetInv, RunInv, R, readBootFlagFromFlash
<1>6. MoveInv' /\ SavedInv'
    BY DEF FInv, PcOK, MoveInv, SavedInv, Moving
<1>7. JobInv'
    BY DEF JobInv, Upgrading, PcOK
<1>8. BootInv'
    BY DEF FInv, BootInv, PcOK, Loading, Moving, Upgrading
<1> QED BY ONLY <1>1, <1>2, <1>3, <1>4, <1>5, <1>6, <1>7, <1>8, TypeParts DEF FInv

\* The delay ends; the boot command starts with isSwap not yet set.
LEMMA Keeps_process_boot_delay ==
    ASSUME FInv, process_boot_delay
    PROVE  FInv'
<1> USE UbootFlashAssumption DEF process_boot_delay, flashVars, ctlVars, memVars,
      countVars, ghostVars, Step, Works, Fails
<1> TypeOK /\ FlashOK /\ MemOK /\ BoolOK /\ CtlOK /\ CountOK /\ PcOK
    BY ONLY FInv, TypeParts DEF FInv
<1>1. FlashOK' /\ MemOK'
    BY DEF FlashOK, MemOK
<1>2. BoolOK'
    BY Zenon DEF BoolOK
<1>3. CtlOK' /\ CountOK'
    BY DEF CtlOK, CountOK
<1>4. PcOK'
    BY DEF PcOK, Pcs
<1>5. SwapInv' /\ TargetInv' /\ RunInv'
    BY DEF FInv, SwapInv, TargetInv, RunInv, R, readBootFlagFromFlash
<1>6. MoveInv' /\ SavedInv'
    BY DEF FInv, MoveInv, SavedInv, Moving
<1>7. JobInv'
    BY DEF JobInv, Upgrading
<1>8. BootInv'
    BY DEF FInv, BootInv, Upgrading, Saving, Flagging
<1> QED BY ONLY <1>1, <1>2, <1>3, <1>4, <1>5, <1>6, <1>7, <1>8, TypeParts DEF FInv

\* The image the flag names is loaded and checked.
LEMMA Keeps_imgread ==
    ASSUME FInv, imgread
    PROVE  FInv'
<1> USE UbootFlashAssumption DEF imgread, FlagRead, flashVars, ctlVars, memVars,
      countVars, ghostVars, Step, Works, Fails
<1> TypeOK /\ FlashOK /\ MemOK /\ BoolOK /\ CtlOK /\ CountOK /\ PcOK
    BY ONLY FInv, TypeParts DEF FInv
<1>1. FlashOK' /\ MemOK'
    BY DEF FlashOK, MemOK
<1>2. BoolOK'
    BY Zenon DEF BoolOK
<1>3. CtlOK' /\ CountOK'
    BY DEF CtlOK, CountOK
<1>4. PcOK'
    BY DEF PcOK, Pcs
<1>5. SwapInv' /\ TargetInv' /\ RunInv'
    BY DEF FInv, CountOK, SwapInv, TargetInv, RunInv, R, readBootFlagFromFlash, Images, None
<1>6. MoveInv' /\ SavedInv'
    BY DEF FInv, CountOK, MoveInv, SavedInv, Moving
<1>7. JobInv'
    BY DEF JobInv, Upgrading
<1>8. BootInv'
    BY DEF FInv, BootInv, CountOK, R, readBootFlagFromFlash, Images, None, Loading, Moving,
       Upgrading, Saving, Flagging
<1> QED BY ONLY <1>1, <1>2, <1>3, <1>4, <1>5, <1>6, <1>7, <1>8, TypeParts DEF FInv

\* A bad image leads to the swap once and then to giving up.
LEMMA Keeps_do_bootm ==
    ASSUME FInv, do_bootm
    PROVE  FInv'
<1> USE UbootFlashAssumption DEF do_bootm, flashVars, ctlVars, memVars, countVars,
      ghostVars, Step, Works, Fails
<1> TypeOK /\ FlashOK /\ MemOK /\ BoolOK /\ CtlOK /\ CountOK /\ PcOK
    BY ONLY FInv, TypeParts DEF FInv
<1>1. FlashOK' /\ MemOK'
    BY DEF FlashOK, MemOK
<1>2. BoolOK'
    BY Zenon DEF BoolOK
<1>3. CtlOK' /\ CountOK'
    BY DEF CtlOK, CountOK
<1>4. PcOK'
    BY DEF PcOK, Pcs
<1>5. SwapInv' /\ TargetInv' /\ RunInv'
    BY DEF FInv, PcOK, SwapInv, TargetInv, RunInv, R, readBootFlagFromFlash
<1>6. MoveInv' /\ SavedInv'
    BY DEF FInv, PcOK, MoveInv, SavedInv, Moving
<1>7. JobInv'
    BY DEF JobInv, Upgrading, PcOK
<1>8. BootInv'
    BY DEF FInv, BootInv, PcOK, R, readBootFlagFromFlash, Images, Loading, Moving,
       Upgrading, Saving, Flagging
<1> QED BY ONLY <1>1, <1>2, <1>3, <1>4, <1>5, <1>6, <1>7, <1>8, TypeParts DEF FInv

\* The fallback has given up and the console takes over.
LEMMA Keeps_Prompt ==
    ASSUME FInv, Prompt
    PROVE  FInv'
<1> USE UbootFlashAssumption DEF Prompt, flashVars, ctlVars, memVars, countVars,
      ghostVars, Step, Works, Fails
<1> TypeOK /\ FlashOK /\ MemOK /\ BoolOK /\ CtlOK /\ CountOK /\ PcOK
    BY ONLY FInv, TypeParts DEF FInv
<1>1. FlashOK' /\ MemOK'
    BY DEF FlashOK, MemOK
<1>2. BoolOK'
    BY Zenon DEF BoolOK
<1>3. CtlOK' /\ CountOK'
    BY DEF CtlOK, CountOK
<1>4. PcOK'
    BY DEF PcOK, Pcs
<1>5. SwapInv' /\ TargetInv' /\ RunInv'
    BY DEF FInv, SwapInv, TargetInv, RunInv, R, readBootFlagFromFlash
<1>6. MoveInv' /\ SavedInv'
    BY DEF FInv, MoveInv, SavedInv, Moving
<1>7. JobInv'
    BY DEF JobInv, Upgrading
<1>8. BootInv'
    BY DEF BootInv, Loading, Moving, Upgrading, Saving, Flagging
<1> QED BY ONLY <1>1, <1>2, <1>3, <1>4, <1>5, <1>6, <1>7, <1>8, TypeParts DEF FInv

\* A reset clears the memory and leaves the flash.
LEMMA Keeps_Reset ==
    ASSUME FInv, Reset
    PROVE  FInv'
<1> USE UbootFlashAssumption DEF Reset, PowerOn, Dead, flashVars, ctlVars, memVars,
      countVars, ghostVars, Step, Works, Fails
<1> TypeOK /\ FlashOK /\ MemOK /\ BoolOK /\ CtlOK /\ CountOK /\ PcOK
    BY ONLY FInv, TypeParts DEF FInv
<1>1. FlashOK' /\ MemOK'
    BY EnvValues DEF FlashOK, MemOK
<1>2. BoolOK'
    BY Zenon DEF BoolOK
<1>3. CtlOK' /\ CountOK'
    BY DEF CtlOK, CountOK, Images
<1>4. PcOK'
    BY DEF PcOK, Pcs
<1>5. SwapInv' /\ TargetInv' /\ RunInv'
    BY DEF FInv, SwapInv, TargetInv, RunInv, R, readBootFlagFromFlash
<1>6. MoveInv' /\ SavedInv'
    BY DEF FInv, MoveInv, SavedInv, Moving
<1>7. JobInv'
    BY DEF JobInv, Upgrading
<1>8. BootInv'
    BY DEF BootInv
<1> QED BY ONLY <1>1, <1>2, <1>3, <1>4, <1>5, <1>6, <1>7, <1>8, TypeParts DEF FInv

\* A power cut between two flash calls is a reset at any point.
LEMMA Keeps_Crash ==
    ASSUME FInv, Crash
    PROVE  FInv'
<1> USE UbootFlashAssumption DEF Crash, PowerOn, Dead, flashVars, ctlVars, memVars,
      countVars, ghostVars, Step, Works, Fails
<1> TypeOK /\ FlashOK /\ MemOK /\ BoolOK /\ CtlOK /\ CountOK /\ PcOK
    BY ONLY FInv, TypeParts DEF FInv
<1>1. FlashOK' /\ MemOK'
    BY EnvValues DEF FlashOK, MemOK
<1>2. BoolOK'
    BY Zenon DEF BoolOK
<1>3. CtlOK' /\ CountOK'
    BY DEF CtlOK, CountOK, Images
<1>4. PcOK'
    BY DEF PcOK, Pcs
<1>5. SwapInv' /\ TargetInv' /\ RunInv'
    BY DEF FInv, SwapInv, TargetInv, RunInv, R, readBootFlagFromFlash
<1>6. MoveInv' /\ SavedInv'
    BY DEF FInv, MoveInv, SavedInv, Moving
<1>7. JobInv'
    BY DEF JobInv, Upgrading
<1>8. BootInv'
    BY DEF BootInv
<1> QED BY ONLY <1>1, <1>2, <1>3, <1>4, <1>5, <1>6, <1>7, <1>8, TypeParts DEF FInv

-----------------------------------------------------------------------------

\* Every step of U-Boot, of its user and of the power keeps the invariant.
LEMMA FStep == FInv /\ [Next]_vars => FInv'
<1> SUFFICES ASSUME FInv, [Next]_vars PROVE FInv'
    OBVIOUS
<1>1. CASE env_relocate_spec
    BY <1>1, Keeps_mtk_check_first_boot, Keeps_disable_mtk_move_env, Keeps_MiErase,
       Keeps_MiHead,
       Keeps_MiWrite, Keeps_mtk_move_miconf, Keeps_LoadEnv
       DEF env_relocate_spec, mtk_save_miconf
<1>2. CASE saveenv \/ SwapCommand \/ GoCommand
    BY <1>2, Keeps_saveenv, Keeps_SwapCommand, Keeps_GoCommand
<1>3. CASE Upgrade
    BY <1>3, Keeps_StartJob, Keeps_UpErase, Keeps_UpWrite, Keeps_UpWrite2, Keeps_UpSpoil,
       Keeps_UpDone
       DEF Upgrade
<1>4. CASE Boot
    BY <1>4, Keeps_process_boot_delay, Keeps_imgread, Keeps_do_bootm, Keeps_swap_bootflag,
       Keeps_writeBootFlagtoFlash, Keeps_Prompt
       DEF Boot
<1>5. CASE Reset \/ Crash
    BY <1>5, Keeps_Reset, Keeps_Crash
<1>6. CASE UNCHANGED vars
    BY <1>6 DEF vars, flashVars, ctlVars, memVars, countVars, ghostVars, FInv, TypeOK, SwapInv,
       TargetInv, JobInv, RunInv, BootInv, MoveInv, SavedInv, R, readBootFlagFromFlash
<1> QED BY <1>1, <1>2, <1>3, <1>4, <1>5, <1>6 DEF Next

\* The invariant holds in every reachable state.
LEMMA FAlways == Spec => []FInv
BY FInit, FStep, PTL DEF Spec

-----------------------------------------------------------------------------

\* Whatever is asked of U-Boot, whichever flash calls fail and wherever the
\* power goes, its variables keep their types.
THEOREM UbootFlashTypeCorrect == Spec => []TypeOK
<1>1. FInv => TypeOK
    BY DEF FInv
<1> QED BY <1>1, FAlways, PTL

\* For any number of upgrades and power cuts: do_write_img and the swaps of the
\* flag leave the image that boots next whole, as long as the flash works and
\* nobody gave it up knowingly.  Without CONFIG_DUAL_IMAGE, where the main image
\* boots whatever the flag says, do_write_img on that image is such a giving up.
THEOREM ActiveAlwaysWhole == Spec => []ActiveWhole
<1>1. FInv => ActiveWhole
    BY DEF FInv, SwapInv, ActiveWhole, BootImage, R
<1> QED BY <1>1, FAlways, PTL

\* boot_from_another_image gives up only when neither image can be booted.
THEOREM GivesUpLast == Spec => []GivesUpOnlyIfNone
<1>1. FInv => GivesUpOnlyIfNone
    BY DEF FInv, BootInv, GivesUpOnlyIfNone
<1> QED BY <1>1, FAlways, PTL

\* The image that runs is the one the flag in flash names.
THEOREM RunningIsNamed == Spec => []FlagNamesRunning
<1>1. FInv => FlagNamesRunning
    BY DEF FInv, RunInv, FlagNamesRunning, R
<1> QED BY <1>1, FAlways, PTL

\* The move of mi.conf never undoes a saveenv that was completed.
THEOREM SavedEnvKept == Spec => []UserEnvKept
<1>1. FInv => UserEnvKept
    BY DEF FInv, SavedInv, UserEnvKept
<1> QED BY <1>1, FAlways, PTL

\* The move of mi.conf erases the block of boot code once per boot loader.
THEOREM CodeErasedAtMostOnce == Spec => []CodeErasedOnce
<1>1. FInv => CodeErasedOnce
    BY DEF FInv, MoveInv, CodeErasedOnce
<1> QED BY <1>1, FAlways, PTL
=============================================================================
