----------------------------- MODULE UbootFlash -----------------------------
(***************************************************************************)
(* What U-Boot keeps in flash, and the power cuts it has to survive: the   *)
(* environment (common/ecnt/env_flash.c), the boot flag                    *)
(* (ecnt_bootargs.c), the two system images and their upgrades             *)
(* (ecnt_image.c, cmd_net.c) and the boot itself (cmd_flash.c,             *)
(* cmd_bootm.c), over the erase and write calls of flashhal.c.             *)
(*                                                                         *)
(* U-Boot is one thread; a step is one call of the flash layer, and the    *)
(* power may go between any two steps.                                     *)
(***************************************************************************)
EXTENDS Naturals

CONSTANTS
    DualImage,  \* CONFIG_DUAL_IMAGE
    Jobs,       \* the upgrades that are asked for
    MaxOps,     \* bound on the commands of the user
    MaxFaults,  \* bound on the calls of the flash layer that fail
    MaxCrashes  \* bound on the power cuts

AllJobs == {"writeimg", "kernel", "uboot", "allinone"}

ASSUME UbootFlashAssumption ==
    /\ DualImage \in BOOLEAN
    /\ Jobs \subseteq AllJobs
    /\ MaxOps \in Nat /\ MaxFaults \in Nat /\ MaxCrashes \in Nat

VARIABLES
    code,       \* the block of boot code that the area at 0x7C000 shares: "ok" or "lost"
    mi,         \* the area at 0x7C000 (AIROHA): an environment, or Bad
    env,        \* the area at 0x80000 (MTK): an environment, or Bad
    flag,       \* the byte of the boot flag: 0, 1 or something else
    img,        \* the two images: "whole", "kernel" (the root file system is not) or "bad"
    ram,        \* the environment in memory
    dram,       \* the image at the load address, if any
    isSwap,     \* isSwap of boot_from_another_image
    net,        \* the MAC and its interrupt are on
    pc,         \* where U-Boot is
    back,       \* where a command returns to
    inBoot,     \* the flag is being swapped for boot_from_another_image
    tgt,        \* the value of the flag, or the image, that is being written
    job,        \* the upgrade under way
    buf,        \* the buffer of mtk_move_miconf
    ops, faults, crashes,
    \* what happened, for the properties
    saved,      \* "yes": the last saveenv was completed; "replaced": the boot
                \* loader was, and moves its own mi.conf at the next power on
    codeErased, \* how often the move of the environment erased boot code (up to 2)
    unsafe      \* an image was given up knowingly: an upgrade in place that is
                \* not complete (do_write_img is one for the main image if it is
                \* the only one that boots), or a swap by hand to an image that is
                \* not whole

flashVars == <<code, mi, env, flag, img>>
ctlVars == <<isSwap, net, back, inBoot, tgt, job>>
memVars == <<ram, dram, buf>>
countVars == <<ops, faults, crashes>>
ghostVars == <<saved, codeErased, unsafe>>
vars == <<flashVars, ctlVars, memVars, pc, countVars, ghostVars>>

\* An area whose CRC is wrong: erased, or half written.
Bad == [val |-> "bad", move |-> FALSE]
None == 2               \* a byte that is neither '0' nor '1'; no image
Images == {0, 1}
Env == [val : {"default", "miconf", "user"}, move : BOOLEAN]
Default == [val |-> "default", move |-> FALSE]

-----------------------------------------------------------------------------
(* The flash layer *)

\* A call that fails, and one that does not.
Fails == faults < MaxFaults /\ faults' = faults + 1
Works == UNCHANGED faults

Step(from, to) == pc = from /\ pc' = to

\* env_import: a wrong CRC gives the default environment.
env_import(area) == IF area = Bad THEN Default ELSE area

\* readBootFlagFromFlash: what is neither '0' nor '1' stands for the main image.
readBootFlagFromFlash == IF flag \in Images THEN flag ELSE 0

\* The image that boots next: without CONFIG_DUAL_IMAGE it is always the main one.
BootImage == IF DualImage THEN readBootFlagFromFlash ELSE 0

\* The flag as it is read; when the read fails flag - '0' is no flag either.
FlagRead(f) ==
    \/ f = readBootFlagFromFlash /\ Works
    \/ f = 0 /\ Fails

-----------------------------------------------------------------------------
(* env_relocate_spec: the first boot moves mi.conf from 0x7C000 to 0x80000 *)

\* Mutant: any value of MTK_MOVE_ENV will do.
CheckFirstBootMutant ==
    /\ Step("reloc", IF mi # Bad THEN "disable" ELSE "load")
    /\ UNCHANGED <<flashVars, ctlVars, memVars, countVars, ghostVars>>

\* The area is searched for MTK_MOVE_ENV without a look at its CRC; it is not
\* found in an area that was erased.  The error of a read that fails is
\* returned like a flag that is set.
mtk_check_first_boot ==
    /\ \/ Step("reloc", IF mi # Bad /\ mi.move THEN "disable" ELSE "load") /\ Works
       \/ Step("reloc", "disable") /\ Fails
    /\ UNCHANGED <<flashVars, ctlVars, memVars, ops, crashes, ghostVars>>

\* Mutant: the flag is not cleared.
DisableMoveMutant ==
    /\ Step("disable", "miErase")
    /\ ram' = env_import(mi)
    /\ UNCHANGED <<flashVars, ctlVars, dram, buf, countVars, ghostVars>>

disable_mtk_move_env ==
    /\ \/ Step("disable", "miErase") /\ Works
          /\ ram' = [env_import(mi) EXCEPT !.move = FALSE]
       \/ Step("disable", "move") /\ Fails
          /\ ram' = Default
    /\ UNCHANGED <<flashVars, ctlVars, dram, buf, ops, crashes, ghostVars>>

\* flash_erase_non_block: the head of the block, which is boot code, is read,
\* the block erased, and the head written again.
MiErase ==
    /\ \/ /\ Step("miErase", "miHead") /\ Works
          /\ code' = "lost" /\ mi' = Bad
          /\ codeErased' = IF codeErased < 2 THEN codeErased + 1 ELSE 2
       \/ \* the head cannot be read, or the block not erased
          /\ Step("miErase", "move") /\ Fails
          /\ \/ UNCHANGED <<code, mi>>
             \/ code' = "lost" /\ mi' = Bad
          /\ UNCHANGED codeErased
    /\ UNCHANGED <<env, flag, img, ctlVars, memVars, ops, crashes, saved, unsafe>>

MiHead ==
    /\ \/ Step("miHead", "miWrite") /\ Works /\ code' = "ok"
       \/ Step("miHead", "move") /\ Fails /\ UNCHANGED code
    /\ UNCHANGED <<mi, env, flag, img, ctlVars, memVars, ops, crashes, ghostVars>>

MiWrite ==
    /\ Step("miWrite", "move")
    /\ \/ Works /\ mi' = ram
       \/ Fails /\ UNCHANGED mi
    /\ UNCHANGED <<code, env, flag, img, ctlVars, memVars, ops, crashes, ghostVars>>

mtk_save_miconf == MiErase \/ MiHead \/ MiWrite

mtk_move_miconf ==
    /\ \/ /\ Step("move", "mtkErase") /\ Works
          /\ buf' = mi /\ UNCHANGED env
       \/ /\ Step("move", "load") /\ Fails
          /\ UNCHANGED <<buf, env>>
       \/ /\ Step("mtkErase", "mtkWrite") /\ Works
          /\ env' = Bad /\ UNCHANGED buf
       \/ /\ Step("mtkErase", "load") /\ Fails
          /\ env' \in {env, Bad} /\ UNCHANGED buf
       \/ /\ Step("mtkWrite", "load")
          /\ \/ Works /\ env' = buf
             \/ Fails /\ UNCHANGED env
          /\ UNCHANGED buf
    /\ UNCHANGED <<code, mi, flag, img, ctlVars, ram, dram, ops, crashes, ghostVars>>

\* The environment is always taken from 0x80000.
LoadEnv ==
    /\ Step("load", "delay")
    /\ \/ Works /\ ram' = env_import(env)
       \/ Fails /\ ram' = Default
    /\ UNCHANGED <<flashVars, ctlVars, dram, buf, ops, crashes, ghostVars>>

env_relocate_spec ==
    mtk_check_first_boot \/ disable_mtk_move_env \/ mtk_save_miconf \/ mtk_move_miconf \/ LoadEnv

-----------------------------------------------------------------------------
(* The user: a command at the prompt, or an upgrade over the network       *)

Called(from) == pc \in from /\ ops < MaxOps /\ ops' = ops + 1 /\ back' = pc

\* The network is served by an interrupt, while U-Boot waits for a key too.
Command == Called({"console"})
Packet == net /\ Called({"console", "delay"})

\* setenv and saveenv of the user, or the saveenv of Nmrp_done
SaveEnv ==
    \/ /\ \/ Command /\ ram' = [ram EXCEPT !.val = "user"]
          \/ Packet /\ UNCHANGED ram
       /\ pc' = "saveErase"
       /\ UNCHANGED <<env, faults, saved>>
    \/ /\ pc = "saveErase"
       /\ saved' = IF saved = "yes" THEN "no" ELSE saved
       /\ \/ Works /\ env' = Bad /\ pc' = "saveWrite"
          \/ Fails /\ env' \in {env, Bad} /\ pc' = back
       /\ UNCHANGED <<back, ops, ram>>
    \/ /\ Step("saveWrite", back)
       /\ \/ Works /\ env' = ram /\ saved' = IF saved = "no" /\ ram.val = "user" THEN "yes" ELSE saved
          \/ Fails /\ UNCHANGED <<env, saved>>
       /\ UNCHANGED <<back, ops, ram>>

saveenv ==
    /\ SaveEnv
    /\ UNCHANGED <<code, mi, flag, img, isSwap, net, inBoot, tgt, job, dram, buf, crashes,
                   codeErased, unsafe>>

\* "bootflag swap" by hand
SwapCommand ==
    /\ Command /\ pc' = "swap"
    /\ inBoot' = FALSE
    /\ unsafe' = (unsafe \/ img[1 - readBootFlagFromFlash] # "whole")
    /\ UNCHANGED <<flashVars, isSwap, net, tgt, job, memVars, faults, crashes, saved, codeErased>>

\* "go": the boot command
GoCommand ==
    /\ Command /\ pc' = "imgread"
    /\ UNCHANGED <<flashVars, isSwap, net, inBoot, tgt, job, memVars, faults, crashes, ghostVars>>

-----------------------------------------------------------------------------
(* The boot flag *)

\* Mutant: the flag counts up.
SwapMutant ==
    /\ Step("swap", "flagCheck")
    /\ tgt' = readBootFlagFromFlash + 1
    /\ UNCHANGED <<flashVars, isSwap, net, back, inBoot, job, memVars, countVars, ghostVars>>

swap_bootflag ==
    /\ Step("swap", "flagCheck")
    /\ \E f \in Images : FlagRead(f) /\ tgt' = 1 - f
    /\ UNCHANGED <<flashVars, isSwap, net, back, inBoot, job, memVars, ops, crashes, ghostVars>>

\* Mutant: the flag is swapped for the next power on only.
FlagDoneMutant(ok) == pc' = back

\* boot_from_another_image goes on with the boot only if the swap succeeded.
FlagDone(ok) == pc' = IF inBoot /\ ok THEN "imgread" ELSE back

\* writeBootFlagtoFlash, and flash_partial_write of the byte: the block is
\* read, erased and written.
writeBootFlagtoFlash ==
    /\ \/ /\ pc = "flagCheck"
          /\ \/ \E f \in Images : FlagRead(f) /\ IF f = tgt THEN FlagDone(FALSE) ELSE pc' = "flagErase"
             \/ Fails /\ FlagDone(FALSE)
          /\ UNCHANGED flag
       \/ /\ pc = "flagErase"
          /\ \/ Works /\ flag' = None /\ pc' = "flagWrite"
             \/ Fails /\ flag' \in {flag, None} /\ FlagDone(FALSE)
       \/ /\ pc = "flagWrite"
          /\ \/ Works /\ flag' = tgt /\ FlagDone(TRUE)
             \/ Fails /\ UNCHANGED flag /\ FlagDone(FALSE)
    /\ UNCHANGED <<code, mi, env, img, ctlVars, memVars, ops, crashes, ghostVars>>

-----------------------------------------------------------------------------
(* Upgrades: do_write_img (NMRP) and ecnt_ImageUpgrade (TFTP)              *)

\* Mutant: the image that runs is the one that is replaced.
WriteTargetMutant(f) == f

\* do_write_img replaces the image the flag does not name, and the flag then.
WriteTarget(f) == IF f = 1 THEN 0 ELSE 1

\* An image that fails its checks (decrypt_image; CRC, hash and name in
\* ecnt_ImageUpgrade) leaves the flash alone; this is one that passes.
StartJob(j) ==
    /\ j \in Jobs
    /\ Packet /\ pc' = "upErase"
    /\ job' = j
    /\ inBoot' = FALSE
    /\ \/ j = "writeimg" /\ \E f \in Images : FlagRead(f) /\ tgt' = WriteTarget(f)
       \/ j # "writeimg" /\ tgt' = 0 /\ Works
    /\ UNCHANGED <<flashVars, isSwap, net, memVars, crashes, ghostVars>>

\* What is erased and written: the image only, the boot code with the area at
\* 0x7C000, or everything up to the end of the second image.
Replaced == CASE job \in {"writeimg", "kernel"} -> {tgt}
              [] job = "uboot" -> {}
              [] job = "allinone" -> Images

\* The result of flash_erase is ignored.
UpErase ==
    /\ \/ Step("upErase", "upWrite") /\ Works
       \/ Step("upErase", "upSpoil") /\ Fails
    /\ img' = [i \in Images |-> IF i \in Replaced THEN "bad" ELSE img[i]]
    /\ code' = IF job \in {"uboot", "allinone"} THEN "lost" ELSE code
    /\ mi' = IF job \in {"uboot", "allinone"} THEN Bad ELSE mi
    /\ env' = IF job = "allinone" THEN Bad ELSE env
    /\ saved' = IF job \in {"uboot", "allinone"} THEN "replaced" ELSE saved
    /\ unsafe' = (unsafe \/ job # "writeimg" \/ (~DualImage /\ tgt = 0))
    /\ UNCHANGED <<flag, ctlVars, memVars, ops, crashes, codeErased>>

\* The file is written from its beginning: boot code, kernel, root file system.
UpWrite ==
    /\ \/ Step("upWrite", "upWrite2") /\ Works
          /\ img' = [i \in Images |-> IF i \in Replaced THEN "kernel" ELSE img[i]]
          /\ \/ /\ job \in {"uboot", "allinone"}
                /\ code' = "ok"
                /\ \E m \in BOOLEAN : mi' = [val |-> "miconf", move |-> m]
                /\ codeErased' = 0
             \/ /\ job \in {"writeimg", "kernel"}
                /\ UNCHANGED <<code, mi, codeErased>>
       \/ Step("upWrite", "upDone") /\ Fails /\ UNCHANGED <<img, code, mi, codeErased>>
    /\ UNCHANGED <<env, flag, ctlVars, memVars, ops, crashes, saved, unsafe>>

UpWrite2 ==
    /\ Step("upWrite2", "upDone")
    /\ \/ /\ Works
          /\ img' = [i \in Images |-> IF i \in Replaced THEN "whole" ELSE img[i]]
          /\ unsafe' = (unsafe /\ \E i \in Images : img'[i] # "whole")
       \/ Fails /\ UNCHANGED <<img, unsafe>>
    /\ UNCHANGED <<code, mi, env, flag, ctlVars, memVars, ops, crashes, saved, codeErased>>

\* What is written over an area that is not erased is lost.
UpSpoil ==
    /\ Step("upSpoil", "upDone")
    /\ UNCHANGED <<flashVars, ctlVars, memVars, countVars, ghostVars>>

-----------------------------------------------------------------------------
(* Booting *)

Dead == code = "lost"   \* BL2 finds no U-Boot

\* Memory is lost; BL2 starts U-Boot again.
PowerOn ==
    /\ pc' = IF Dead THEN "dead" ELSE "reloc"
    /\ isSwap' = FALSE /\ net' = TRUE
    /\ ram' = Default /\ dram' = None /\ buf' = Bad
    /\ back' = "console" /\ inBoot' = FALSE /\ tgt' = 0 /\ job' = "none"
    /\ saved' = IF saved = "replaced" THEN "no" ELSE saved
    /\ UNCHANGED <<flashVars, codeErased, unsafe>>

\* do_write_img goes on to the flag, ecnt_ImageUpgrade boots the kernel (when
\* there is a partition rootfs_data to erase) or starts again after tcboot.
UpDone ==
    /\ pc = "upDone"
    /\ \/ /\ job = "writeimg" /\ pc' = "flagCheck"
          /\ UNCHANGED <<flashVars, ctlVars, memVars, countVars, ghostVars>>
       \/ /\ job = "kernel" /\ pc' \in {"imgread", back}
          /\ UNCHANGED <<flashVars, ctlVars, memVars, countVars, ghostVars>>
       \/ /\ job = "allinone" /\ pc' = back
          /\ UNCHANGED <<flashVars, ctlVars, memVars, countVars, ghostVars>>
       \/ job = "uboot" /\ PowerOn /\ UNCHANGED countVars

Upgrade == (\E j \in AllJobs : StartJob(j)) \/ UpErase \/ UpWrite \/ UpWrite2 \/ UpSpoil \/ UpDone

\* process_boot_delay: nobody pressed a key, or somebody did.
process_boot_delay ==
    /\ pc = "delay"
    /\ \/ pc' = "imgread" /\ back' = "gaveup"
       \/ pc' = "console" /\ UNCHANGED back
    /\ UNCHANGED <<flashVars, isSwap, net, inBoot, tgt, job, memVars, countVars, ghostVars>>

\* Mutant: an image that is bad is left out, whatever the flag says.
ImgreadMutant ==
    /\ Step("imgread", "bootm")
    /\ dram' = LET f == readBootFlagFromFlash IN
                IF img[f] # "bad" THEN f ELSE IF img[1 - f] # "bad" THEN 1 - f ELSE None
    /\ net' = FALSE
    /\ UNCHANGED <<flashVars, isSwap, back, inBoot, tgt, job, ram, buf, countVars, ghostVars>>

\* "flash imgread": the header and the kernel of the image the flag names.
\* The MAC is shut down before.  Whatever comes of it, "bootm" is the next command.
imgread ==
    /\ Step("imgread", "bootm")
    /\ \/ /\ \E f \in Images :
               /\ IF DualImage THEN FlagRead(f) ELSE f = 0 /\ Works
               /\ dram' = IF img[f] = "bad" THEN None ELSE f
       \/ Fails /\ dram' = None
    /\ net' = FALSE
    /\ UNCHANGED <<flashVars, isSwap, back, inBoot, tgt, job, ram, buf, ops, crashes, ghostVars>>

\* Mutant: isSwap is not set.
BootmMutant ==
    /\ pc = "bootm"
    /\ \/ dram # None /\ pc' = "linux" /\ UNCHANGED inBoot
       \/ dram = None /\ pc' = "swap" /\ inBoot' = TRUE
    /\ UNCHANGED <<flashVars, isSwap, net, back, tgt, job, memVars, countVars, ghostVars>>

\* do_bootm checks the kernel, not the root file system; boot_from_another_image
\* swaps the flag and boots once more, once after power on.
do_bootm ==
    /\ pc = "bootm"
    /\ \/ dram # None /\ pc' = "linux" /\ UNCHANGED <<isSwap, inBoot>>
       \/ dram = None /\ DualImage /\ ~isSwap /\ isSwap' = TRUE /\ inBoot' = TRUE /\ pc' = "swap"
       \/ dram = None /\ (isSwap \/ ~DualImage) /\ pc' = back /\ UNCHANGED <<isSwap, inBoot>>
    /\ UNCHANGED <<flashVars, net, back, tgt, job, memVars, countVars, ghostVars>>

\* The boot command has failed: the prompt.
Prompt ==
    /\ Step("gaveup", "console")
    /\ UNCHANGED <<flashVars, ctlVars, memVars, countVars, ghostVars>>

Reset == pc \in {"linux", "console"} /\ PowerOn /\ UNCHANGED countVars

Crash ==
    /\ pc # "dead"
    /\ crashes < MaxCrashes /\ crashes' = crashes + 1
    /\ PowerOn
    /\ UNCHANGED <<ops, faults>>

-----------------------------------------------------------------------------

\* A board from the factory has mi.conf at 0x7C000, to be moved or not, and
\* both images.
Init ==
    /\ code = "ok"
    /\ \/ \E m \in BOOLEAN : mi = [val |-> "miconf", move |-> m]
       \/ mi = Bad
    /\ env \in {Bad, [val |-> "miconf", move |-> FALSE]}
    /\ flag \in {0, 1, None}
    /\ img = [i \in Images |-> "whole"]
    /\ ram = Default /\ dram = None /\ buf = Bad
    /\ isSwap = FALSE /\ net = TRUE
    /\ pc = "reloc" /\ back = "console" /\ inBoot = FALSE /\ tgt = 0 /\ job = "none"
    /\ ops = 0 /\ faults = 0 /\ crashes = 0
    /\ saved = "no" /\ codeErased = 0 /\ unsafe = FALSE

Boot == process_boot_delay \/ imgread \/ do_bootm \/ swap_bootflag \/ writeBootFlagtoFlash \/ Prompt

Next == \/ env_relocate_spec \/ saveenv \/ SwapCommand \/ GoCommand \/ Upgrade \/ Boot
        \/ Reset \/ Crash

Spec == Init /\ [][Next]_vars

\* U-Boot goes on by itself: what it does at the prompt, and what the power
\* does, is not its doing.
FairSpec == Spec /\ WF_vars(env_relocate_spec) /\ WF_vars(Boot)
                 /\ WF_vars(pc \in {"saveErase", "saveWrite"} /\ saveenv)
                 /\ WF_vars(UpErase \/ UpWrite \/ UpWrite2 \/ UpSpoil \/ UpDone)

-----------------------------------------------------------------------------

\* The variables have the values the code can give them.
TypeOK ==
    /\ code \in {"ok", "lost"}
    /\ mi \in Env \cup {Bad} /\ env \in Env \cup {Bad} /\ buf \in Env \cup {Bad}
    /\ flag \in Images \cup {None}
    /\ img \in [Images -> {"whole", "kernel", "bad"}]
    /\ ram \in Env
    /\ dram \in Images \cup {None}
    /\ isSwap \in BOOLEAN /\ net \in BOOLEAN /\ inBoot \in BOOLEAN /\ unsafe \in BOOLEAN
    /\ saved \in {"no", "yes", "replaced"}
    /\ tgt \in Images
    /\ job \in AllJobs \cup {"none"}
    /\ codeErased \in 0..2
    /\ ops \in 0..MaxOps /\ faults \in 0..MaxFaults /\ crashes \in 0..MaxCrashes
    /\ back \in {"console", "delay", "gaveup"}
    /\ pc \in {"reloc", "disable", "miErase", "miHead", "miWrite", "move", "mtkErase", "mtkWrite",
               "load", "delay", "console", "saveErase", "saveWrite", "swap", "flagCheck",
               "flagErase", "flagWrite", "upErase", "upWrite", "upWrite2", "upSpoil", "upDone",
               "imgread", "bootm", "gaveup", "linux", "dead"}

\* do_write_img (cmd_net.c) can be cut off anywhere, between the erase and the
\* write of the flag's block too: the image that boots next is whole.  Without
\* CONFIG_DUAL_IMAGE the main image boots whatever the flag says, and do_write_img
\* replaces it in place when the flag is 1.  Flash calls that fail are left out:
\* their results are ignored.
ActiveWhole == (faults = 0 /\ ~unsafe) => img[BootImage] = "whole"

\* boot_from_another_image: the boot command of a power on gives up only when
\* neither image can be booted, whatever power cuts left of the flag.
GivesUpOnlyIfNone == (pc = "gaveup" /\ faults = 0 /\ DualImage) => \A i \in Images : img[i] = "bad"

\* The flag in flash names the image that runs, after a fallback too: this is
\* what the system that runs relies on when it replaces the other one.
FlagNamesRunning == (pc = "linux" /\ faults = 0 /\ DualImage) => dram = readBootFlagFromFlash

\* env_relocate_spec: the move of mi.conf never undoes a saveenv that was
\* completed, across power cuts (and as long as the flash works).
UserEnvKept == (saved = "yes" /\ faults = 0) => env.val = "user"

\* mtk_save_miconf erases a block that holds boot code: it does so once in the
\* life of a boot loader, so that one power cut at most can cost it.
CodeErasedOnce == faults = 0 => codeErased <= 1

\* Every boot ends, in an image or at the prompt: boot_from_another_image does
\* not swap for ever, and a failing flash does not keep U-Boot.
BootEnds == (pc = "reloc") ~> (pc \in {"linux", "console", "dead"})
=============================================================================
