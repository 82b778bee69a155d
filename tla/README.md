# Verification of the EN75xx boot loader

This directory holds TLA+ models of the parts of the EN75xx/EN7523 boot chain
that keep state across failures or share it between actors: the bad-block
management of the SPI NAND flash, what U-Boot keeps in flash (environment, boot
flag, two images), the three ways to upgrade over a wire (serial, multicast,
NMRP with TFTP), and the power states of the cores in BL31. TLC checks them on
small instances, and TLAPS proves the theorems listed below for every value of
the constants.

Paths are relative to `src/bootloader/`; `UB` is `Uboot/u-boot-2014.04-rc1`,
`ATF` is `ATF/arm-trusted-firmware-2.3`.

    tlc -config BMT_faults.cfg MCBMT        a run; the other runs likewise
    tlapm BMTProofs.tla                     the proofs about BMT; then BMTSafeProofs.tla
                                            and BMTDataProofs.tla
    tlapm XModemProofs.tla                  the proofs about XModem; likewise
                                            UbootFlashProofs.tla, NmrpProofs.tla,
                                            MultiUpgradeProofs.tla, PsciProofs.tla

## 1. Inventory

The repository is a vendor tree: U-Boot 2014.04-rc1, Arm Trusted Firmware 2.1
and 2.3 and mbed TLS, with the vendor's code added in a few directories
(`UB/drivers/misc/ecnt`, `UB/common/ecnt`, `ATF/plat/ecnt`,
`ATF/drivers/mtd/chips`). Only the vendor's code is of interest here.

| Component | State | Operations | What makes it correct |
|---|---|---|---|
| Bad-block management, `UB/drivers/misc/ecnt/flash/bmt.c` | BMT and BBT in RAM and in the last blocks of the chip; marks and OOB indices in the spare areas; `pool_erased` | load or rebuild at boot, `update_bmt` on a failure, `recover_bmt`, address translation | no two logical blocks at one place; replacements are blank; data survives replacement and power loss; logical numbering never shifts; the pool never moves |
| SPI NAND driver, `ATF/drivers/mtd/chips/spi_nand_flash.c` | page cache, marks, geometry | read, program, erase, mark, test for bad, pool size, console commands | reports every failure once to `update_bmt` and repeats the operation at the new place |
| Serial emergency upgrade, `ATF/plat/ecnt/common/drivers/xmodem/xmodem.c`, `ATF/plat/ecnt/en7523/ecnt_bl2_setup.c` | sequence number, response, retries, buffer | `xmodemReceive`, erase and write of the flash | the buffer is the file; only a whole image reaches the flash; it ends |
| Multicast upgrade, `UB/drivers/misc/ecnt/net/multiupgrade.c` | static counters, buffer, two flags | one handler per frame, `MultiWriteImage` | every packet in its place; one whole image in flash; it finishes |
| Environment, `UB/common/ecnt/env_flash.c` | two areas of the flash, one of them in a block of boot code; the flag `MTK_MOVE_ENV` | `saveenv`, `env_relocate_spec` | the move of an older environment never undoes a save, and endangers the boot code once at most |
| Boot flag and dual image, `UB/drivers/misc/ecnt/bootargs`, `UB/drivers/misc/ecnt/image` | the flag's byte, two images, `isSwap` | read, swap and write the flag; load, check, fall back | a good image is started if there is one; the flag names what runs; the fallback ends |
| Upgrades, `UB/drivers/misc/ecnt/image/ecnt_image.c`, `UB/common/cmd_net.c` | the image in memory, the partition being written | check, erase, write, swap the flag | a power cut never costs the image that boots |
| NMRP and TFTP, `UB/net/nmrp.c`, `UB/net/tftp.c`, `UB/drivers/misc/ecnt/net/ecnt_eth.c` | state of the session, its timer, `net_state`, block number and wraps | packet handlers, timeouts, in the interrupt | what is written is one whole file; a session ends |
| PSCI, `ATF/plat/ecnt/en7523/plat_pm.c`, `ATF/lib/psci` | affinity state and lock of each core, locks of the domains, one register of power requests | `CPU_ON`, `CPU_OFF`, `AFFINITY_INFO`, warm boot | a core runs only with its context and its power; calls end |
| Ethernet, switch, PHY, GPIO, timers, NOR and eMMC drivers | registers | hardware access | - |

How they interact. Every flash access of U-Boot goes through `flashhal.c` to
the NAND driver; the driver translates the logical address
(`get_mapping_block_index`), and calls `update_bmt` when an erase or a program
fails, or when a read needs more corrected bits than the ECC threshold.
`bmt.c` calls the driver back for single pages and blocks, and such a read may
itself be over the threshold and enter `update_bmt` again (`isUpdateBmt` stops
the nesting, but `recover_bmt`, which reads the same way, does not set it). The upgrades call the same flash functions. BL2 carries an older
copy of `bmt.c` and reads the same tables. The multicast handler runs in the
Ethernet interrupt, and `uart_tstc` looks at its flag to stop the autoboot.
NMRP and the TFTP server run in the same interrupt: a TFTP transfer ends in
`ecnt_ImageUpgrade` (`net_state`), or, within a session of NMRP, in `writeimg`
when the timer of NMRP next expires; both write the images the boot command
reads, and NMRP saves the environment. BL31 serves PSCI calls of all cores at
once.

What is hard here. Each flash update consists of several erases and programs;
any of them may fail, power may be lost before any of them, and recovery works
from what is on flash alone. The transfer protocols have no more than a
wrapping sequence number to tell a lost packet from a repeated one. U-Boot is
not pre-emptive apart from interrupts, so the interleavings that matter there are
those of device, sender, line and power supply; the cores in BL31 really run in
parallel, under two kinds of locks and outside them. `PROJECT.json` lists each
hazard at its line.

## 2. Plan

| Module | What | State |
|---|---|---|
| `BbtTable` | the loop that builds `pBbt`, against its definition | done |
| `BMT`, `MCBMT` | bad-block management and its use by the driver | done |
| `BMTProofs` | type correctness; the pool never moves; the table is injective | done |
| `BMTSafeProofs` | what is mapped to is usable, what is free is blank, the numbering is the factory's, the erase of the pool is safe | done |
| `BMTDataProofs` | no bad block in use and no data lost until the first power loss | done |
| `Transfer` | abstract specification of an upgrade over a line | done |
| `XModem`, `MCXModem` | serial upgrade; implements `Transfer` | done |
| `XModemProofs` | the buffer is the file; the flash gets the image; the refinement | done |
| `MultiUpgrade`, `MCMultiUpgrade` | multicast upgrade | done |
| `MultiUpgradeProofs` | all its invariants | done |
| `UbootFlash`, `MCUbootFlash` | environment, boot flag, dual image and the upgrades that write them, under power cuts | done |
| `UbootFlashProofs` | all its invariants | done |
| `Nmrp`, `MCNmrp` | NMRP and the TFTP server in the interrupt | done |
| `NmrpProofs` | all its invariants | done |
| `Psci`, `MCPsci` | cores on and off | done |
| `PsciProofs` | types and lock owners; the context is ready; with two cores, no power request is lost that a running core needs | done |
| `BlockDevice` | abstract specification of the NAND: logical pages that read as written, an operation that a power loss interrupts leaves its block undefined; `BMT` implements it | planned |

## 3. Modules

### BbtTable

`create_badblock_table_by_bbt` turns the list of factory-bad blocks into
`pBbt`, the physical block of each logical block, with nested loops
whose counters live across rounds. The module translates the loops as recursive
functions and compares the result with the definition: logical block *l* is
the *l*-th good block (`SkipTableCorrect`). A pure function has no states, so this is
no run of its own: `MCBMT` assumes it for every list of every chip of up to 8 system
blocks, and TLC evaluates that before each of the BMT runs.

### BMT

State. `flash` gives each physical block its two marks (`raw`: the factory's
mark, which `mark_block_bad_bmt` also puts on system blocks; `later`: the mark
on pool blocks that failed in use), the OOB index of its page 0, and the
contents of its pages. A content is a user's page, a BMT with its
table, a BBT with its list, erased, or garbage; signature and checksum of the
tables are abstracted to that kind, as `valid_bmt_data` and `valid_bbt_data`
accept nothing else. `table`, `bmtBlock`, `bbtBlock`, `bbt` and `poolErased`
are the static variables of `bmt.c`. `op` and `mk` are the parameters and
locals of the update and of the mark call in progress, `pc` is where the code
is. `written` and `dirty` are ghosts that only the properties use: what a user
wrote, and the blocks whose last operation did not finish.

Actions.

| Action | Code |
|---|---|
| `PowerOn`, `LoadBmt`, `Remark`, `Reconstruct`, `LoadBbt`, `SaveBmt`, `SaveBbt` | `init_bmt_bbt`, `calc_bmt_pool_size`, `load_bmt_data`, `reconstruct_bmt`, `start_init_bbt`, `write_bbt_or_bmt_to_flash` |
| `BootReadOverThreshold` | a page of the pool reads over the threshold during the scan |
| `EraseBlock`, `WritePage`, `ReadOverThreshold` | `spi_nand_erase_internal`, `spi_nand_write_internal`, `spi_nand_read_page` |
| `StartUpdate`, `Find`, `PoolErase`, `Copy`, `MarkOld`, `Done` | `update_bmt`, `find_available_block`, `migrate_from_bad` |
| `BmtFind`, `BmtErase`, `BmtWrite`, `BbtWrite` | `write_bmt_to_flash`, `write_bbt_to_flash` |
| `MarkErase`, `MarkWrite` | `en7512_nand_mark_badblock` |
| `RecoverMapped`, `RecoverRead`, `RecoverCopy`, `RecoverFree`, `RecoverPool`, `MarkBadCommand` | `recover_bmt`, `recover_data_from_bmt` and the console commands |
| `PowerLoss` | before any erase or program, and in the middle of the erase of the pool |

Every erase and every program is a step of its own, also inside
`migrate_from_bad` and `mark_badblock`. The erase of the free blocks of the
pool is one step that picks the blocks whose erase fails; a power loss may
leave any part of it done.

A read over the threshold inside `recover_data_from_bmt` (`RecoverRead`, the failure
`"recread"`) enters `update_bmt` in the middle of the recovery: `op` then carries the
recovery (`recBad`, `recEntry`) through the update, and `UpdateReturns` gives the caller
the page that was read. When the update fails, the read leaves the caller's
buffer as it was, and `UpdateFails` chooses what that is.

Abstracted: ECC and DMA of one page (a page program succeeds, or fails and
leaves garbage); dies; the page cache; printing; `CopyFlashData` (not compiled
in any configuration of this tree). The flash users erase a block before they
write it again after a power loss, as every caller in this tree does, which is
what `dirty' = System` in `PowerLoss` says.

### XModem

Packets and responses instead of bytes: a packet arrives whole, arrives
damaged (too short, wrong complement or CRC) or is lost. `Solicit`, `Timeout`,
`ReceivePacket` (with `Accept`), `ReceiveDamaged`, `ReceiveEnd` and
`RetriesExceeded` are the branches of the loop of `xmodemReceive`; `Return`
also stands for the caller, who asks again after an empty transfer, writes the
flash after one of the right length and otherwise goes on. `SenderReads`,
`SenderTimeout` and `LineFault` are external: an ordinary XModem sender that
sends one packet at a time, repeats on NAK or after a time and goes on after
an ACK, and the line.

### MultiUpgrade

`multiupgrade_process` and `MultiUpgradeHandle` are one action, as the handler
runs to its end in the interrupt. `job` is what `MultiWriteImage` was called for: the kind
of image, what is in the buffer for it, and the environment read from flash before.
`MultiWriteImage` is the list of erases and writes that it makes, part by part of the
flash; `FlashStep` begins or ends the one that `step` has come to, and a part that was begun and
not ended is `cut`. `Verified` is what the code accepts: a kernel is recognised by its
first packet and must fit its partition, but its hashes decide nothing
(section 6); an image of the whole flash must have its checksum. `heard` is a ghost, the
images whose packets the attempt has taken. The station, the link and the power supply are external: `Broadcast`,
`Lose`, `Late`, `Switch`, `PowerLoss`. The build without `TCSUPPORT_OPENWRT` is
modelled, which also erases the settings.

### Transfer

What the user of an upgrade expects, without the protocol: blocks arrive in
order, each once; the transfer may be refused; the flash is erased and written
only when all blocks are there. `XModem` implements it (`ImplementsTransfer`)
with the buffer as it is and the program counter as the phase.

### UbootFlash

State. The five places of the flash that U-Boot depends on: the block of boot code
that the area at 0x7C000 shares (`code`), that area (`mi`), the environment at
0x80000 (`env`), the byte of the boot flag and the two images. An environment is
abstracted to where it came from and whether `MTK_MOVE_ENV` is set in it; an area
with a wrong CRC is `Bad`. An image is whole, bad, or has a kernel without its
root file system, which `bootm` does not notice. In memory: the environment,
the image loaded, `isSwap`, and whether the MAC is on: `flash imgread` turns it
off for good. `saved`, `codeErased` and `unsafe` are ghosts.

| Action | Code |
|---|---|
| `mtk_check_first_boot`, `disable_mtk_move_env`, `MiErase`, `MiHead`, `MiWrite`, `mtk_move_miconf`, `LoadEnv` | `env_relocate_spec` with `flash_erase_non_block`, call by call |
| `saveenv` | `setenv` and `saveenv` at the prompt, or the `saveenv` of `Nmrp_done` |
| `SwapCommand`, `swap_bootflag`, `writeBootFlagtoFlash` | `bootflag swap`, the fallback, and the swap after `writeimg`; `flash_partial_write` reads, erases and writes the block |
| `StartJob`, `UpErase`, `UpWrite`, `UpWrite2`, `UpSpoil`, `UpDone` | `do_write_img` and `ecnt_ImageUpgrade` for a kernel, a boot loader or everything |
| `process_boot_delay`, `imgread`, `do_bootm`, `Prompt` | the boot command and `boot_from_another_image` |
| `Reset`, `Crash` | restart; the power goes between any two flash calls |

Every call of the flash layer may fail (`Fails`), and the code's reaction to that,
often none, is in the action. The checks of an image are an input: an image
that fails them leaves the flash alone and is not an action. Network upgrades
come in an interrupt while U-Boot waits at the delay or at the prompt; one in the
middle of another command is not modelled. `DualImage` stands for
`CONFIG_DUAL_IMAGE`, which no configuration of this tree defines although `writeimg`
swaps the flag; the theorems cover both values. `BootImage` is the image `imgread` loads
(cmd_flash.c:106-110): the one the flag names, or without `CONFIG_DUAL_IMAGE` always
the main one, whatever the flag says.

### Nmrp

One action, `Receive`, is one reception in the interrupt, as in
`qdma_bm_receive_packets`: `ip_rcv_packet` starts the TFTP server, `NetReceive`
looks at the timer of NMRP and then passes the packet on, and what the handlers
left in `net_state` is acted upon. The device is a record, each function of the
code an operator on it. Packets of NMRP may come at any time in any order
(`ReceiveNmrp`). The TFTP client is external: it sends one file after the other,
waits for the acknowledgement of each block, repeats the block after a time, and
may break off for the next file; the network loses packets (`Lose`) and keeps
their order. The timer of TFTP is set by the code but polled by `NetLoop` only, which
is not running: it never fires here. `abortboot_normal` is the thread that is
interrupted. `Limit` is the space between `load_addr` and `tftp_limit`, in blocks: a
block behind it is not stored. The options of NMRP packets, the LEDs and the
block-size option are left out.

### Psci

Every core is a process with a program counter; a step is one access to what cores
share. `SpmRead` and `SpmWrite` are the two halves of `mmio_setbits_32` and
`mmio_clrbits_32` on the register of power requests. `OnCall`, `OnStart`,
`plat_power_domain_on`, `OnDone` are `CPU_ON`, under the lock of the target;
`WarmBoot`, `WarmLock`, `OnFinish`, `WarmDone` the way up of the target, under the
locks of the power domains; `OffCall`, `OffLock`, `OffUnlock`, `OffState`,
`plat_power_domain_down_wfi` are `CPU_OFF`, whose last part runs outside the locks;
`AffInfo`, `AffDone` are `AFFINITY_INFO` with the platform's check. A wait with a
timeout may end at any time. `HwUp` and `HwDown` are the power controller; the
operating system calls what it likes, or one change at a time if `Serial` (as
Linux does), and leaves one core on. Caches are taken to be coherent.

## 4. Runs

| Run | Bounds | Shows |
|---|---|---|
| `bmt_faults` | 2 system blocks, 4 pool blocks, 2 pages; 3 failures of erases, programs and reads (none inside a recovery); 1 console command on a system block | free blocks are blank (`FreeBlank`), data is kept (`DataSafe`), no bad block in use (`NoBadInUse`) |
| `bmt_crash` | as above; 2 failures, 2 power losses, no console command | the table is injective and maps to usable blocks (`MapSafe`), data is kept through one loss (`DataSurvivesLoss`; with two failures the BMT is never programmed over data), the numbering does not shift (`BbtIsFactory`), the pool stays (`PoolStable`) and its erase spares mapped blocks (`PoolEraseSparesMapped`) |
| `bmt_live` | 1 page; programs that fail without end, 1 failure of any other kind (marks, reads during the boot and inside a recovery), 1 power loss, 1 command on a system or a pool block | what holds without any assumption: `TypeOK`, `Injective`; and `EveryCallReturns` |
| `bmt_rebuild` | 2 system blocks, 5 pool blocks, 1 page; 4 failed erases or reads over the threshold, 1 power loss | violation, see section 6 |
| `xmodem` | image of 4 packets, files of 0 to 5, 4 sequence numbers, 3 retries, 2 faults | `InOrder`, `FlashWhole`, `ReceiveReturns`, the refinement `ImplementsTransfer` |
| `multiupgrade` | kernels of 3 and 5 packets, the second too big, a whole image of 4, 6 sequence numbers, 2 faults, 2 switches, 1 power loss, also in the middle of an erase or a write | `InPlace`, `FlashSound`, `Finishes` |
| `multi_mixed` | the same images, no fault, 1 switch | violation, see section 6 |
| `uboot_flash` | 3 commands or upgrades of any of the 4 kinds, 2 power cuts, 1 flash call that fails, both images and any flag at first, mi.conf to be moved or not, with `DualImage` | `ActiveWhole`, `GivesUpOnlyIfNone`, `FlagNamesRunning`, `UserEnvKept`, `CodeErasedOnce`, `BootEnds` |
| `nmrp` | files of 5, 2 and 8 blocks, room for 6, 4 block numbers, 2 requests before each state is given up, 2 packets under way, 2 losses | `TimerArmed`, `WriteWhole`, `EarlyOnce`, `SavedOnce`, `SessionCloses`, `UploadCompletes` |
| `nmrp_lost` | 1 loss | violation |
| `psci` | 2 cores, calls in any order at once | `ContextReady`, `WokenOnPurpose`, `RunningPowered`, `CallsReturn` |
| `psci_lost` | 2 cores, one change at a time | violation |

Why the bounds are enough. Two system blocks are the fewest for which the
logical numbering and the table can confuse blocks. Of four pool blocks two
hold BMT and BBT, so that two are left for replacements; with three failures
the pool is exhausted, and with one factory-bad pool block sooner. Two pages
distinguish page 0, which carries the OOB index, from the others, and a
copy that is half done. Two power losses allow one in the recovery from the
other. In `xmodem` the sequence number wraps before the image is complete and a
file may be too long; with two faults the two ends get out of step. In
`multiupgrade` the images have different lengths, so that a mixture can end
inside either. In `uboot_flash` three operations are a save, an upgrade and a swap
in any order, and two power cuts allow one in the boot that repairs the other. In
`nmrp` the first file wraps the block number, the second is shorter than what
the first leaves in memory, and the third does not fit; a session starts over after
each of its limits. The EN7523 has two cores. The proofs lift
these bounds for the properties they are about.

Deadlock is not checked: a chip whose pool is used up, a device that has
finished and one that lost its boot loader really stop. In `psci` and `psci_lost`
it is checked.

Fairness. `bmt_live` assumes weak fairness of the steps of the boot and of an
update or recovery: the code runs on, as nothing in it waits. Users, console and
power supply are not fair, and the failures named in `Endless` may go on for ever.
`xmodem` assumes that the receiver runs on, whose waits all have a
timeout, and nothing about the sender. `multiupgrade` assumes that the station
goes on sending, which is what it is for, and that the device runs on.
`uboot_flash` assumes that U-Boot runs on; not that anybody gives a command.
`nmrp` assumes that packets of some kind keep coming, because the code looks at its
timer only then (on a network that is silent a session does not end), that what is
sent and not lost arrives, and that the client repeats what is not acknowledged.
`psci` assumes that each core runs on while it is in BL31 and that the power
controller does its work; a lock that is contended is taken only under weak
fairness of the core's own steps.

## 5. Proofs

`BMTProofs`, from `BMTAssumption` alone (at least one system block, pool block
and page; sets of the right kind):

- `TypeCorrect`: `Spec => []TypeOK`, for every chip, every kind and number of
  failures and every console command. It says more than the types of the
  variables: the entries of the table go from system blocks to pool blocks, also
  those read back from flash, of a table rebuilt from OOB indices, and after the
  failure of a pool block. `TypeOK` is inductive once it says that the
  destination of a copy is in the pool. The proof has one step per action.
- `PoolNeverMoves`: if the console commands are not used on pool blocks, then
  `Spec => []PoolStable`: no RAW mark in the pool is ever made or lost, and
  every boot finds the pool where it was. The property is not inductive. A
  RAW mark of the pool is lost when its block is erased, and blocks to be
  erased come from the table, from a table read from flash, from the location of
  the BMT, and from the operation in progress; `PoolInv` says of each of these
  that it does not lead to a factory-bad pool block (`TableClear`, `FlashClear`,
  `NotFactory`, `OpClear`), and of the mark call that in the pool it makes
  only the `later` mark (`MarkClear`). The lemma `Frame` carries the parts that
  an action leaves alone; the step lemma has one case per action.
- `MapInjective`: `Spec => []Injective`, for every failure, power loss and console
  command: no two entries of the table ever share a pool block. The table may
  have been read from any page of the flash, which may be a copy that an update made,
  so `MapInv` says of every page (`FlashInj`) and of the page the update carries
  (`OpInj`) that the table there is injective; that the block `migrate_from_bad` fills
  is still in no entry when its entry is made (`CopyToFree`), although the update may
  start over in between; and that `reconstruct_bmt` is past every block it has
  entered, also while it marks one (`RebuildRises`).

`BMTSafeProofs`, on top of it, under `Ordinary`: no mark fails, no read during the
scan at boot or inside a recovery is over the threshold, and console commands are used on
system blocks only. Every other failure, any number of them, and every power loss are allowed; the
cases `Ordinary` leaves out each break one of the properties, see section 6.

- `MapAlwaysSafe`: `Spec => []MapSafe`.
- `FreeAlwaysBlank`: `Spec => []FreeBlank`.
- `NumberingStable`: `Spec => []BbtIsFactory`.
- `PoolErasedSafely`: `Spec => PoolEraseSparesMapped`, an action property.

None of these is inductive, and they rest on each other: a table is safe if the block
found for a replacement was free, a free block is blank if the pool was erased, the
erase spares what the table on flash leads to, and that table is the next one in RAM
when the power goes. `SafeInv` has a part for each link of this chain: where the BMT
and the BBT are, and that there is one of each (`BmtPlace`, `BbtPlace`); that the BMT in
RAM and the one on flash lead to good blocks without a table (`TableTab`, `FlashTab`) and
agree except while one is rewritten (`Sync`); that the block under replacement is in
use until the table changes and not afterwards (`OpSafe`); that what is about to be
marked is not in use (`MarkSafe`); which blocks are blank (`FreeErased`); and that a chip
without a BBT is as it was shipped (`Fresh`), because the scan that makes one cannot tell
the factory's marks from later ones. One lemma per action says that it keeps `SafeInv`,
with a step for each part; the lemmas `...View` say once what an erase, a program, a
failed program and a mark do to each block.

`BMTDataProofs`, on top of these and again under `Ordinary`, with any number of failures
and of power losses in the specification; what it states is for the time until the first
loss (after one, both properties fail in corner cases, see section 6):

- `GoodBlocksOnly`: `Spec => [](crashes = 0 => NoBadInUse)`.
- `DataKept`: `Spec => [](crashes = 0 => DataSafe)`.

For the first, `ListInv` says that a system block with a mark of its own is the factory's
or in the table (`RawListed`), also while the mark is being made (`MarkListed`) and while
an update for it is under way (`OpListed`); that a system block has one entry at most
(`OneEntry`: without a rebuild there are no two); and that the block a recovery fills is
the one of the entry it will take out, and not marked (`RecoverClear`). For the second,
`DataInv` says in every state, not only between two operations, that each logical block is
at a place that holds what was written to it, and is erased behind that unless an
operation on it is unfinished (`DataHeld`); that `migrate_from_bad` and
`recover_data_from_bmt` have copied exactly the pages they are past (`CopyExact`,
`RecoverExact`); what a replacement is for, an erase, the write of the next page or a move
(`Job`); and that once the table is changed the page whose write failed is at the new
place (`Landed`), which the mark of the old block, an erase, does not touch. A copy that
fails half way starts over at another block; that is harmless because the source is not
touched before the mark, and because by `FreeBlank` every new destination is blank.
`ServesOne`, `UpdateServes` and `WithoutServes` say what `get_mapping_block_index` returns
after the table changed.

`XModemProofs`, from `XModemAssumption` (in particular `MaxFaults + 1 < SeqMod`:
fewer than 255 faults for the 8 bits of the code):

- `BufferInOrder`: `Spec => []InOrder`, for every image, file, retry limit and
  width of the sequence number.
- `FlashGetsImage`: `Spec => []FlashWhole`.

The invariant `XInv` relates the two ends: the sender's packet is never
behind the receiver and ahead only by the packets the line has lost and
the one on it (`StepInv`). With that distance below `SeqMod` the lemmas
`SameRemainder`, `NextRemainder` and `LastRemainder` on remainders identify
the packet on the line by its number (`PacketKnown`), so that one that is
accepted is the next one and one that is dropped was a repetition.

- `XModemTypeCorrect`: `Spec => []TypeOK`.
- `XModemImplements`: `Spec => ImplementsTransfer`. Only `Accept` delivers a block,
  and by `PacketKnown` it is the next one (`AcceptDelivers`); `Return` maps to the
  steps that end a transfer (`ReturnEnds`); every other action is a stutter.

`UbootFlashProofs`, from `UbootFlashAssumption` (any set of upgrades, any number of
commands, failures and power cuts, with and without `CONFIG_DUAL_IMAGE`): the
theorems `UbootFlashTypeCorrect`, `ActiveAlwaysWhole`, `GivesUpLast`,
`RunningIsNamed`, `SavedEnvKept` and `CodeErasedAtMostOnce` are the six invariants
of the run. The inductive invariant `FInv` has a part for each argument. `SwapInv`:
while the flag's block is erased or the flag about to be, the image it will name is
whole, so that it does not matter what an erased flag stands for; without
`CONFIG_DUAL_IMAGE`, where the flag does not matter, the main image is. `TargetInv`:
`writeimg` replaces the image that does not boot, also after a power cut, and swaps
the flag only then. Without `CONFIG_DUAL_IMAGE` it replaces the only one that
boots when the flag is 1, which `ActiveWhole` counts as given up (`unsafe`, section 6). `RunInv` and `BootInv`: the fallback leaves an image only when it
is bad and does so once, and what an upgrade of the kernel boots is whole.
`MoveInv` and `SavedInv`: boot code is erased only while mi.conf asks to be moved, the
first thing written then is that it does not, and nothing is saved before.
One lemma per action says that it keeps `FInv`, one step per part. Except for the
types these facts are for a flash that works (`faults = 0`): the code ignores the
result of most of its flash calls.

`PsciProofs`, from `PsciAssumption`; the first two for any number of cores, the others for two
(`TwoCores`), as the EN7523 has them:

- `PsciTypeCorrect`: `Spec => []TypeOK`, which says that a lock is held by a core
  that is between taking and releasing it.
- `ContextAlwaysReady`: `Spec => []ContextReady`. A core may be started before its
  context is written; the invariant says that the lock of a core that is coming up
  is then still held by the one that turned it on, which is what the lock taken and
  released in `psci_cpu_on_finish` waits for.
- `RunningStaysPowered`: `TwoCores => (Spec => []RunningPowered)` and `AlwaysWokenOnPurpose`:
  `TwoCores => (Spec => []WokenOnPurpose)`. Each core changes the register of power
  requests by reading and writing it back outside every lock, so its old value may undo
  what the other core wrote in between. `RegInv` says which bits such a value may be
  wrong about: a core that needs its bit (it runs, comes up, or has not cleared it yet)
  is in every value about to be written back (`BitKept`); a bit such a value lacks has not
  been set since (`NotSetSince`); a core that is off and has cleared its bit is not woken
  (`OffStaysOff`); and of two cores one is always neither coming up nor going down
  (`OneStays`), as `CPU_OFF` is not called on the last one. What may still be lost is the
  request of a `CPU_ON`: run `psci_lost`.

`MultiUpgradeProofs`, from `MultiUpgradeAssumption` (any images of fewer packets than
there are sequence numbers; any number of faults, switches and power losses):

- `TypeCorrect`, `PacketsInPlace`, `FlashAlwaysSound`: `Spec => []TypeOK`, `Spec => []InPlace`,
  `Spec => []FlashSound`. The slot of a packet is computed from the number of packets
  counted, not from its own number; `AttemptInv` ties the two together through
  `startSeq`, also past the end of a round, as long as one image is heard. `WriteInv` says
  for each `step` of `MultiWriteImage` what the parts before it hold by then; the part it
  is at may be cut. `FlashSound` promises what the code can: an attempt that heard
  one image puts it on the flash whole, and an image of the whole flash is never mixed.
  For a kernel from two images nothing is promised, and `KernelWhole` is refuted.

`NmrpProofs`, from `NmrpAssumption` (any number of files of any length; at least 3 block
numbers; any limits of the requests; any number of packets lost and repeated):

- `TypeCorrect`, `TimerAlwaysArmed`, `EarlyOnlyOnce`, `SavedOnlyOnce`: the invariants of
  the same names. In the middle of a reception they do not hold, so each function of
  the code is characterised on its own (the lemmas `...View`), and the parts are put
  together to a reception. `SessionInv` is what makes the counts inductive: INIT and
  CLOSED are not left, and `net_state` holds no result while a server runs.
- `WrittenWhole`: `FilesFit => (Spec => []WriteWhole)`. `TftpData` takes any number that is
  not the last one for the next block, so that the buffer is right depends on what the
  device cannot see. `Link` relates the device to its client and to the packets and
  acknowledgements between them: nothing overtakes (`Line`), no request comes to a
  transfer that has begun (`Request1`), and what is under way for an upload is the block
  that came last or the next one (`Underway`). `FilesFit` says that every file fits
  before `tftp_limit`; without it the property fails, see section 6.

Only model-checked: the liveness properties `EveryCallReturns`,
`ReceiveReturns`, `Finishes`, `BootEnds`, `SessionCloses`, `UploadCompletes` and
`CallsReturn` (fairness and ENABLED are beyond the prover);
`SkipTableCorrect` (induction over data); and `DataSurvivesLoss`. The last is not true of
every instance: when the pool is exhausted a single loss may cost data (run `bmt_rebuild`),
so a theorem would need a count of the free blocks as an assumption, and an invariant
that says what a rebuild would make of the flash in every state. `bmt_crash` checks it
for two failures, one factory-bad block and four pool blocks.

## 6. Where code and comments disagree

- `psci_lost`: `plat_power_domain_down_wfi` (plat_pm.c:182-188) takes back the power
  request of its core outside every lock, when the core already counts as off. The
  porting guide of the firmware wants such a hook to be local to its core, or free of
  races. `check_flag`, which `AFFINITY_INFO` and so the caller of `CPU_ON` would wait
  for, is set only at line 188. A `CPU_ON` that comes before finds the affinity state
  OFF and sets the request; then the core, still on its way down, clears its
  own bit again, or goes to WFI with request and acknowledgement set, and nothing wakes
  it. `CPU_ON` has returned success, the core stays `ON_PENDING`, and no later
  `CPU_ON` is accepted for it. This needs no two changes at once, and an atomic
  clear would not help. (That the read-modify-write takes the bit of another core away
  needs three cores, see below.)
- `multi_mixed`: `fit_all_image_verify` returns 1 or 0 (image-fit.c:1036-1037), and
  multiupgrade.c:597 and 716 compare its result with -1 (ecnt_image.c:308, for the
  other upgrades, with 1). The hashes of a multicast kernel are computed and decide
  nothing. Packets carry no name of their image, so when the station changes images
  in the middle of an attempt, packets of both are counted; if the one in front is
  the first of a kernel and the size fits, the mixture is written and "upgrade
  finished !" reported. An image of the whole flash is still protected by its checksum.
- `nmrp_lost`: the TFTP server drops a block that comes a second time without
  acknowledging it (tftp.c:683), and its own timer is polled by `NetLoop` only
  (net.c:535). After one lost acknowledgement the client repeats the block for ever.
- `bmt_rebuild`: `write_bmt_to_flash` does not erase the block it finds for the BMT, "as it
  has been erased in find_available_block()" (bmt.c:702). That is done once after a boot, and
  `update_bmt` writes the BMT before it marks the block it replaced (bmt.c:1235-1247). When
  no other block is free, `find_available_block` returns that block, and the BMT is
  programmed over its data. A power loss before the mark leaves a page that is neither;
  `reconstruct_bmt` (bmt.c:838) enters both the old and the new replacement for the
  same system block, does not see that one of them is stale, and the first counts: the data
  is lost although a good copy is there.

Met while modelling; a property fails when the constants allow the case:

- the same duplicate entry without an exhausted pool: a replacement that was itself
  replaced is not marked yet when power is lost between the erase of the old BMT and the
  write of the new one (bmt.c:714). The first of the two entries is used and written to, and
  later replaced and marked; when power is lost at the same place again, the rebuild finds
  the other one first, whose data is of long before. `DataSafe` fails with 1 system block,
  6 pool blocks, 2 pages, 4 reads over the threshold and 2 power losses.
- the register of power requests with more than two cores: a core that goes down writes back
  a value it read before another one came up or went down, and `RunningPowered` and
  `WokenOnPurpose` fail with 3 cores in `Cpus`. The same `plat_pm.c` is built for the EN7581,
  to which platform_def.h:45-48 gives four cores; the theorems do not cover that build.
- `migrate_from_bad` (bmt.c:668) ignores whether the mark of the
  failed block took, and calls itself again; if not, it finds the same
  block for ever, whereas its caller promises to return true or false:
  `EveryCallReturns` fails in `bmt_live` with `"mark"` in `Endless`.
- while `load_bmt_data` scans the pool its table is empty. A read over the threshold
  there enters `update_bmt`, which erases the "un-mapped" blocks of the pool (bmt.c:524),
  replacements in use included: `PoolEraseSparesMapped` fails with `"bootread"` in
  `FaultKinds`, which `Ordinary` therefore excludes.
- a block that was given up and whose mark fails stays among the free ones, although
  it is not blank: a BBT programmed there cannot be read, and a boot that has to rebuild
  the BMT takes blocks that failed later for the factory's. `FreeBlank` and `BbtIsFactory`
  fail with `"mark"` in `FaultKinds`. The console command that marks a
  block bad, used on the block of the BBT, copies the BBT to another block, which stays
  among the free ones and is then mapped to: `MapSafe` fails after the next boot with
  pool blocks in `DebugBlocks`.
- a file one block longer than the space before `tftp_limit`: `store_block` leaves the last
  block out and sets `NETLOOP_FAIL` (tftp.c:209-214), and `tftp_complete`, called for the
  same block, overwrites that with `NETLOOP_CONTINUE` (tftp.c:340-345), so that NMRP writes
  the file without its end. `WriteWhole` fails when a file has `Limit + 1` blocks; with
  more than that the failure ends the transfer, as in the run.
- `recover_data_from_bmt` erases the mapped block (bmt.c:1061) before the BMT
  without its entry is on flash; after a power loss in between the logical block
  leads to the erased block. `DataSafe` fails when one run allows both `recover_bmt`
  and a power loss, so `bmt_crash` leaves the command out.
- `recover_data_from_bmt` reads the mapped block M through `nand_read_page_bmt` (bmt.c:1051);
  a page over the threshold enters `update_bmt` (spi_nand_flash.c:1980-1996), because
  `recover_bmt` does not set `isUpdateBmt`. M is migrated to M', and erased and
  marked, under the recovery, which goes on reading M: the later pages are
  erased ones. "If move data successfully, erase BMT mapped block." (bmt.c:1060) then erases M
  once more, and the entry that now leads to M' is dropped. The data is lost, and M'
  is neither mapped nor blank. If the nested update fails, the read leaves what was in the
  buffer, and that is copied. `DataSafe` and `FreeBlank` fail in `bmt_faults` with
  `"recread"` in `FaultKinds`; the run and `Ordinary` leave it out. `TypeOK`, `Injective` and
  `EveryCallReturns` hold with it (`bmt_live`).
- without `CONFIG_DUAL_IMAGE`, which no configuration defines, `imgread` always boots
  the main image, but `do_write_img` still goes by the flag (cmd_net.c:756-809): with
  the flag at 1 it erases and writes the main image in place, and a power cut there
  costs the only image that boots. `ActiveWhole` counts that as given up.
- with `response = NAK` commented out (xmodem.c:181) a timeout repeats the last
  ACK, and the sender goes on past the packet that was lost. If it was the last one
  the receive "completed transmission normally" with a shorter file.
  `bl2_plat_preload_setup` compares the length and leaves the flash alone.
- a power cut after `MTK_MOVE_ENV` is cleared (common/ecnt/env_flash.c:202) and before the copy is
  written leaves no environment at 0x80000, and the next boot does not try
  again; the comment there (env_flash.c:192-198) calls both steps necessary, and
  everything after it uses 0x80000 only.

Met while modelling, without a run of their own:

- chips with `SPI_NAND_FLASH_OOB_RESERVE_FOR_BMT` (five entries of the flash
  table): `en7512_nand_check_block_bad` (spi_nand_flash.c:4058) overwrites the
  byte of the second mark with 0 before it tests it, every block counts as
  bad and no table is found. The model has the constant `OobReserve` for it.
- after a power loss while the BMT is rewritten, `reconstruct_bmt` (bmt.c:820) finds
  only replacements whose page 0 is written; a block that failed before its page 0 was
  written again is then in use although it is marked. So `NoBadInUse` is not
  checked in `bmt_crash`, and `GoodBlocksOnly` is for the time before the first loss;
  the data, of which there is none, is not affected.
- the recovery of a factory-bad pool block erases its RAW mark: the next boot
  computes another pool size. This is the assumption of `PoolNeverMoves`.
- `update_bmt` writes the BMT before it marks the block it replaced (bmt.c:1235-1247), and
  `find_available_block` may choose that very block, no longer mapped, for the BMT: the
  mark then erases the BMT just written. The tables in RAM are right, but there is
  none on flash until the next update; a boot rebuilds it.
- `recover_bmt` (bmt.c:1127) never recovers the first block of the pool.
- a multicast image of 65536 packets or more would give several packets the same
  number; `MultiUpgradeAssumption` excludes it.
- a read that fails in `mtk_check_first_boot` (env_flash.c:93-95, 119) is taken for a
  first boot, and the environment the user saved is written over with mi.conf; the
  pointer it passes for the length read is not initialised.
- the results of erase and write are ignored where an image is stored
  (ecnt_image.c:401-403, cmd_net.c:803-805); `do_write_img` has no return
  value on success (cmd_net.c:809); after a failed boot the MAC stays
  off (cmd_flash.c:87).
- the listen timeout of NMRP ends the loop with `NETLOOP_SUCCESS` (nmrp.c:181), so a plain
  TFTP upload in progress is handed over incomplete; one ADVERTISE packet aborts the
  countdown of autoboot (main.c:259); `tftp_start` stays 1 after an upload started
  by NMRP, and a client that comes back from another port is ignored.
- `goto done` in the receive path does not give the RX descriptor back
  (ecnt_eth.c:1736).

## 7. Not modelled

The repository holds 2.7 million lines. Nearly all are the vendored U-Boot,
Trusted Firmware and mbed TLS with their boards, register maps, firmware blobs and
logos; the logic that is this vendor's own is a few thousand lines, and the
modules cover the part of it that keeps state across calls. The share of mapped
lines of the whole is therefore well below one per cent and says little.

`PROJECT.json` lists every component. Left out for good: register-level
drivers (Ethernet, switch, PHY, GPIO, timers, NOR, eMMC), whose correctness is a
matter of the hardware; hash and signature functions, whose results are inputs
here; start-up code that runs once on one core; test commands; the host tool
`trx`; the vendored parts, except where vendor hooks run inside them (`Psci`).
Left out of modelled components: the HTTP server and its uIP stack, the
TFTP client, the strings of the boot
arguments, trusted boot, and the older copy of the BMT code in BL2 (same algorithm).

Left out of modelled actions, each of them without effect on the properties stated
unless it says so:

- `BMT`: reads over the threshold at boot are modelled for the scan of `load_bmt` only
  (`BootReadOverThreshold`); those of `reconstruct_bmt` (bmt.c:812-818), `load_bbt_data`
  (462-468), `scan_badblock_raw` (766) and `calc_bmt_pool_size` (spi_nand_flash.c:4252) can
  enter `update_bmt` too and get no failures, so nothing is claimed for them. The mark
  programs the page cache, with an older content, into page 0 of a block that is bad
  from then on (spi_nand_flash.c:3283, 4181). The entry behind `mapped_count` that an
  update of an unmapped pool block writes (bmt.c:1211-1223) is not part of the table.
- `Nmrp`: the branches `TFTP_ERROR` (tftp.c:739-763) and `TFTP_OACK` (602-648) of the
  TFTP handler: the client of the model sends no error packet, which would end the
  transfer as an overlong file does, and a server gets no OACK. A WRQ is answered with block 0, where the
  code answers with `TftpBlock`, which is 0 whenever a WRQ is taken on this wire.
  `NetStartAgain` ends the transfer with `NETLOOP_FAIL`, as on a board with one Ethernet device
  whose `NetLoop` has not run; with several devices, or `ethrotate=no`, it gives
  `NETLOOP_RESTART`, which the receive loop treats alike, and after a command that ran
  `NetLoop` before it only replaces the handlers. The RX descriptor that
  `goto done` does not hook up again is not modelled, and reception stops as soon as
  the boot command starts, not when `bootm` turns interrupts off.
- `Psci`: `AffInfo` reads the affinity state and `check_flag` in one step.
- `MultiUpgrade`: the magic number of a kernel is taken to be in its first packet
  (`get_fip_offset` 0). Under `TCSUPPORT_ARM_MULTIBOOT` the environment is at
  another offset; one place is modelled.

Still to come: `BlockDevice` (section 2).
