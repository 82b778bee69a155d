-------------------------------- MODULE Psci --------------------------------
(***************************************************************************)
(* Turning CPUs on and off: the PSCI calls CPU_ON, CPU_OFF and             *)
(* AFFINITY_INFO as BL31 serves them (lib/psci) through the platform's     *)
(* hooks (plat/ecnt/en7523/plat_pm.c).                                     *)
(*                                                                         *)
(* Every CPU runs by itself.  The power requests of all CPUs are bits of   *)
(* one register of the power controller, SPM_BASE + 0x1C; mmio_setbits_32  *)
(* and mmio_clrbits_32 read it in one step and write it in another.        *)
(***************************************************************************)
EXTENDS Naturals

CONSTANTS
    Cpus,       \* the cores of the cluster
    Primary,    \* the one that comes out of reset
    NoCpu,      \* the holder of a lock that is free
    Serial      \* TRUE: the OS changes one CPU at a time, as Linux does

ASSUME PsciAssumption ==
    /\ Primary \in Cpus
    /\ NoCpu \notin Cpus
    /\ Serial \in BOOLEAN

VARIABLES
    aff,        \* aff_info_state of each CPU
    cpuLock,    \* cpu_lock of each CPU: its holder
    pdLock,     \* the locks of the cluster and of the system, taken together
    spm,        \* the CPUs whose spmc_pwr_on bit is set
    ack,        \* the CPUs whose spmc_pwr_ack bit is set: they have power
    checkFlag,  \* check_flag
    ctx,        \* the context the CPU leaves EL3 with: "stale" or "ready"
    pc,         \* where each CPU is
    tgt,        \* the CPU its call is about
    reg,        \* the register as it last read it
    hot         \* the CPU the OS is taking up or down (only if Serial)

vars == <<aff, cpuLock, pdLock, spm, ack, checkFlag, ctx, pc, tgt, reg, hot>>

Goto(c, to) == pc' = [pc EXCEPT ![c] = to]
Step(c, from, to) == pc[c] = from /\ Goto(c, to)

-----------------------------------------------------------------------------
(* The operating system: outside the repository *)

\* It starts a change when no other one is under way.
Begin(c) == IF Serial THEN hot = NoCpu /\ hot' = c ELSE UNCHANGED hot
End(c) == hot' = IF hot = c THEN NoCpu ELSE hot

-----------------------------------------------------------------------------
(* Read-modify-write of SPM_BASE + 0x1C *)

SpmRead(c, from, to) ==
    /\ Step(c, from, to)
    /\ reg' = [reg EXCEPT ![c] = spm]
    /\ UNCHANGED <<aff, cpuLock, pdLock, spm, ack, checkFlag, ctx, tgt, hot>>

SpmWrite(c, from, to, v) ==
    /\ Step(c, from, to)
    /\ spm' = v
    /\ UNCHANGED <<aff, cpuLock, pdLock, ack, checkFlag, ctx, tgt, reg, hot>>

-----------------------------------------------------------------------------
(* CPU_ON: psci_cpu_on, psci_cpu_on_start, plat_power_domain_on *)

OnCall(c, t) ==
    /\ Step(c, "run", "onLock")
    /\ tgt' = [tgt EXCEPT ![c] = t]
    /\ Begin(t)
    /\ UNCHANGED <<aff, cpuLock, pdLock, spm, ack, checkFlag, ctx, reg>>

\* Mutant: the target is not marked as pending.
OnStartMutant(c) ==
    /\ cpuLock[tgt[c]] = NoCpu /\ aff[tgt[c]] = "OFF"
    /\ Step(c, "onLock", "onRst")
    /\ cpuLock' = [cpuLock EXCEPT ![tgt[c]] = c]
    /\ ctx' = [ctx EXCEPT ![tgt[c]] = "stale"]
    /\ UNCHANGED <<aff, pdLock, spm, ack, checkFlag, tgt, reg, hot>>

\* Under the lock of the target: only a CPU that is OFF is turned on.
OnStart(c) ==
    /\ cpuLock[tgt[c]] = NoCpu
    /\ \/ /\ aff[tgt[c]] = "OFF"
          /\ Step(c, "onLock", "onRst")
          /\ cpuLock' = [cpuLock EXCEPT ![tgt[c]] = c]
          /\ aff' = [aff EXCEPT ![tgt[c]] = "PENDING"]
          /\ ctx' = [ctx EXCEPT ![tgt[c]] = "stale"]
          /\ UNCHANGED hot
       \/ /\ aff[tgt[c]] # "OFF"
          /\ Step(c, "onLock", "run")
          /\ End(tgt[c])
          /\ UNCHANGED <<cpuLock, aff, ctx>>
    /\ UNCHANGED <<pdLock, spm, ack, checkFlag, tgt, reg>>

\* Mutant: the wait for the power has no limit.
OnPollMutant(c) ==
    /\ Step(c, "onWait", IF tgt[c] \in ack THEN "onCtx" ELSE "onWait")
    /\ UNCHANGED <<aff, cpuLock, pdLock, spm, ack, checkFlag, ctx, tgt, reg, hot>>

\* plat_power_domain_wait_reg: the bit of the target shows, or POLLING_TIMES
\* microseconds have passed; the result is the same.
OnPoll(c) ==
    /\ Step(c, "onWait", "onCtx")
    /\ UNCHANGED <<aff, cpuLock, pdLock, spm, ack, checkFlag, ctx, tgt, reg, hot>>

\* Mutant: the register is written, not its bit set.
PowerOnMutant(c) ==
    \/ SpmWrite(c, "onRst", "onWait", {tgt[c]})
    \/ OnPoll(c)

\* spmc_pwr_rst is cleared, then spmc_pwr_on set.
plat_power_domain_on(c) ==
    \/ SpmRead(c, "onRst", "onRstWrite")
    \/ SpmWrite(c, "onRstWrite", "onPwr", reg[c])
    \/ SpmRead(c, "onPwr", "onPwrWrite")
    \/ SpmWrite(c, "onPwrWrite", "onWait", reg[c] \cup {tgt[c]})
    \/ OnPoll(c)

\* cm_init_context_by_index, then the lock is released.
OnDone(c) ==
    /\ Step(c, "onCtx", "run")
    /\ ctx' = [ctx EXCEPT ![tgt[c]] = "ready"]
    /\ cpuLock' = [cpuLock EXCEPT ![tgt[c]] = NoCpu]
    /\ UNCHANGED <<aff, pdLock, spm, ack, checkFlag, tgt, reg, hot>>

-----------------------------------------------------------------------------
(* A CPU that comes up: psci_warmboot_entrypoint, psci_cpu_on_finish *)

\* "Verify that we have been explicitly turned ON": otherwise panic.
WarmBoot(c) ==
    /\ Step(c, "boot", IF aff[c] = "OFF" THEN "panic" ELSE "warm")
    /\ UNCHANGED <<aff, cpuLock, pdLock, spm, ack, checkFlag, ctx, tgt, reg, hot>>

WarmLock(c) ==
    /\ Step(c, "warm", "finish")
    /\ pdLock = NoCpu /\ pdLock' = c
    /\ UNCHANGED <<aff, cpuLock, spm, ack, checkFlag, ctx, tgt, reg, hot>>

\* Mutant: the CPU does not wait for the one that turned it on.
OnFinishMutant(c) ==
    /\ Step(c, "finish", "exit")
    /\ UNCHANGED <<aff, cpuLock, pdLock, spm, ack, checkFlag, ctx, tgt, reg, hot>>

\* The lock of the CPU is taken and released, "to make sure that the context
\* initialization is done".
OnFinish(c) ==
    /\ cpuLock[c] = NoCpu
    /\ Step(c, "finish", "exit")
    /\ UNCHANGED <<aff, cpuLock, pdLock, spm, ack, checkFlag, ctx, tgt, reg, hot>>

\* psci_set_pwr_domains_to_run
WarmDone(c) ==
    /\ Step(c, "exit", "run")
    /\ aff' = [aff EXCEPT ![c] = "ON"]
    /\ pdLock' = NoCpu
    /\ End(c)
    /\ UNCHANGED <<cpuLock, spm, ack, checkFlag, ctx, tgt, reg>>

-----------------------------------------------------------------------------
(* CPU_OFF: psci_do_cpu_off, plat_power_domain_off, and outside the locks    *)
(* plat_power_domain_down_wfi                                                *)

\* The OS leaves one CPU on.
OffCall(c) ==
    /\ \E d \in Cpus \ {c} : aff[d] = "ON" /\ pc[d] \notin {"offLock", "off", "offState"}
    /\ Step(c, "run", "offLock")
    /\ Begin(c)
    /\ UNCHANGED <<aff, cpuLock, pdLock, spm, ack, checkFlag, ctx, tgt, reg>>

OffLock(c) ==
    /\ Step(c, "offLock", "off")
    /\ pdLock = NoCpu /\ pdLock' = c
    /\ UNCHANGED <<aff, cpuLock, spm, ack, checkFlag, ctx, tgt, reg, hot>>

\* Mutant: the locks are kept.
OffUnlockMutant(c) ==
    /\ Step(c, "off", "offState")
    /\ UNCHANGED <<aff, cpuLock, pdLock, spm, ack, checkFlag, ctx, tgt, reg, hot>>

OffUnlock(c) ==
    /\ Step(c, "off", "offState")
    /\ pdLock' = NoCpu
    /\ UNCHANGED <<aff, cpuLock, spm, ack, checkFlag, ctx, tgt, reg, hot>>

OffState(c) ==
    /\ Step(c, "offState", "down")
    /\ aff' = [aff EXCEPT ![c] = "OFF"]
    /\ UNCHANGED <<cpuLock, pdLock, spm, ack, checkFlag, ctx, tgt, reg, hot>>

DownFlag(c) ==
    /\ Step(c, "downFlag", "wfi")
    /\ checkFlag' = [checkFlag EXCEPT ![c] = TRUE]
    /\ UNCHANGED <<aff, cpuLock, pdLock, spm, ack, ctx, tgt, reg, hot>>

\* spmc_resetpwron_config is cleared, then spmc_pwr_on.
plat_power_domain_down_wfi(c) ==
    \/ SpmRead(c, "down", "downWrite")
    \/ SpmWrite(c, "downWrite", "downPwr", reg[c])
    \/ SpmRead(c, "downPwr", "downPwrWrite")
    \/ SpmWrite(c, "downPwrWrite", "downFlag", reg[c] \ {c})
    \/ DownFlag(c)

-----------------------------------------------------------------------------
(* AFFINITY_INFO: psci_affinity_info, plat_power_domain_off_check *)

AffInfo(c, t) ==
    /\ \/ /\ aff[t] = "OFF" /\ checkFlag[t]
          /\ Step(c, "run", "affWait")
          /\ tgt' = [tgt EXCEPT ![c] = t]
          /\ UNCHANGED hot
       \/ /\ aff[t] # "OFF" \/ ~checkFlag[t]
          /\ pc[c] = "run"
          /\ IF aff[t] = "OFF" THEN End(t) ELSE UNCHANGED hot
          /\ UNCHANGED <<pc, tgt>>
    /\ UNCHANGED <<aff, cpuLock, pdLock, spm, ack, checkFlag, ctx, reg>>

\* The power is gone, or the wait timed out.
AffDone(c) ==
    /\ Step(c, "affWait", "run")
    /\ checkFlag' = [checkFlag EXCEPT ![tgt[c]] = FALSE]
    /\ IF aff[tgt[c]] = "OFF" THEN End(tgt[c]) ELSE UNCHANGED hot
    /\ UNCHANGED <<aff, cpuLock, pdLock, spm, ack, ctx, tgt, reg>>

-----------------------------------------------------------------------------
(* The power controller: hardware.  A CPU without power gets it when its bit *)
(* is set, and starts at the warm boot entry; a CPU whose bit is clear loses *)
(* it when it waits for it in WFI.                                           *)

HwUp(c) ==
    /\ c \in spm /\ c \notin ack
    /\ ack' = ack \cup {c}
    /\ Goto(c, "boot")
    /\ UNCHANGED <<aff, cpuLock, pdLock, spm, checkFlag, ctx, tgt, reg, hot>>

HwDown(c) ==
    /\ c \notin spm /\ c \in ack
    /\ Step(c, "wfi", "dead")
    /\ ack' = ack \ {c}
    /\ UNCHANGED <<aff, cpuLock, pdLock, spm, checkFlag, ctx, tgt, reg, hot>>

-----------------------------------------------------------------------------
Init ==
    /\ aff = [c \in Cpus |-> IF c = Primary THEN "ON" ELSE "OFF"]
    /\ cpuLock = [c \in Cpus |-> NoCpu] /\ pdLock = NoCpu
    /\ spm = {Primary} /\ ack = {Primary}
    /\ checkFlag = [c \in Cpus |-> FALSE]
    /\ ctx = [c \in Cpus |-> "stale"]
    /\ pc = [c \in Cpus |-> IF c = Primary THEN "run" ELSE "dead"]
    /\ tgt = [c \in Cpus |-> c]
    /\ reg = [c \in Cpus |-> {}]
    /\ hot = NoCpu

\* A call that has begun, and a CPU that comes up, go on by themselves.
Progress(c) ==
    \/ OnStart(c) \/ plat_power_domain_on(c) \/ OnDone(c)
    \/ WarmBoot(c) \/ WarmLock(c) \/ OnFinish(c) \/ WarmDone(c)
    \/ OffLock(c) \/ OffUnlock(c) \/ OffState(c) \/ plat_power_domain_down_wfi(c)
    \/ AffDone(c)

Calls(c) == OffCall(c) \/ \E t \in Cpus \ {c} : OnCall(c, t) \/ AffInfo(c, t)

Hardware(c) == HwUp(c) \/ HwDown(c)

Next == \E c \in Cpus : Progress(c) \/ Calls(c) \/ Hardware(c)

Spec == Init /\ [][Next]_vars

\* No CPU stops in the middle of BL31, and the power controller does its work.
FairSpec == Spec /\ \A c \in Cpus : WF_vars(Progress(c)) /\ WF_vars(Hardware(c))

-----------------------------------------------------------------------------
(* Properties *)

InOn == {"onRst", "onRstWrite", "onPwr", "onPwrWrite", "onWait", "onCtx"}
InDown == {"down", "downWrite", "downPwr", "downPwrWrite", "downFlag"}
InCall == InOn \cup InDown \cup {"onLock", "offLock", "off", "offState", "affWait"}
ComingUp == {"boot", "warm", "finish", "exit"}

\* A lock is held only by a CPU that is between taking and releasing it.
LockOwners ==
    /\ \A c, t \in Cpus : cpuLock[t] = c => pc[c] \in InOn /\ tgt[c] = t
    /\ \A c \in Cpus : pdLock = c => pc[c] \in {"finish", "exit", "off"}

\* The state of PSCI and of the platform hooks is well formed, and the locks
\* belong to the CPUs that are using them.
TypeOK ==
    /\ aff \in [Cpus -> {"ON", "OFF", "PENDING"}]
    /\ cpuLock \in [Cpus -> Cpus \cup {NoCpu}] /\ pdLock \in Cpus \cup {NoCpu}
    /\ spm \in SUBSET Cpus /\ ack \in SUBSET Cpus
    /\ checkFlag \in [Cpus -> BOOLEAN]
    /\ ctx \in [Cpus -> {"stale", "ready"}]
    /\ pc \in [Cpus -> InCall \cup ComingUp \cup {"run", "wfi", "dead", "panic"}]
    /\ tgt \in [Cpus -> Cpus]
    /\ reg \in [Cpus -> SUBSET Cpus]
    /\ hot \in Cpus \cup {NoCpu}
    /\ LockOwners

\* A CPU leaves psci_cpu_on_finish with the context of the CPU_ON that woke it,
\* although the power controller may start it before that context is there.
ContextReady == \A c \in Cpus : pc[c] = "exit" => ctx[c] = "ready"

\* A CPU that comes up was turned on by a CPU_ON: psci_warmboot_entrypoint does
\* not panic.
WokenOnPurpose == \A c \in Cpus : pc[c] # "panic"

\* The power request of a CPU that runs the OS is set: no update of the shared
\* register by another CPU takes it away.
RunningPowered == \A c \in Cpus : pc[c] = "run" => c \in spm

\* Every PSCI call returns or ends in WFI: the locks and the waits of the hooks
\* never keep a CPU for ever.
CallsReturn == \A c \in Cpus : pc[c] \in InCall ~> pc[c] \notin InCall

\* A CPU that CPU_ON reported as turned on comes to run.
OnMeansUp == \A c \in Cpus : aff[c] = "PENDING" ~> pc[c] = "run"
=============================================================================
