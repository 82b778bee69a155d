----------------------------- MODULE PsciProofs -----------------------------
(***************************************************************************)
(* For any number of CPUs, and calls in any order: the locks belong to the *)
(* CPUs that use them, and a CPU never leaves EL3 with a stale context.    *)
(* For two CPUs: the unlocked updates of the power register neither take   *)
(* the power from a CPU that runs nor wake one that is to stay off.        *)
(***************************************************************************)
EXTENDS Psci, TLAPS

\* CPU_ON holds the lock of its target, which stays ON_PENDING meanwhile.
OnHolds == \A c \in Cpus :
    pc[c] \in InOn => cpuLock[tgt[c]] = c /\ aff[tgt[c]] = "PENDING"

\* The power domain locks are held where LockOwners allows it.
PdHolds == \A c \in Cpus : pc[c] \in {"finish", "exit", "off"} => pdLock = c

\* The affinity state of a CPU follows where the CPU is.
Inside == InOn \cup {"run", "onLock", "offLock", "off", "offState", "affWait"}
AffMatches == \A c \in Cpus :
    /\ pc[c] \in Inside => aff[c] = "ON"
    /\ pc[c] \in {"warm", "finish", "exit"} => aff[c] = "PENDING"
    /\ aff[c] = "ON" => pc[c] \in Inside

\* Only a dead CPU is without power.
PowerMatches == \A c \in Cpus : c \notin ack => pc[c] = "dead"

\* Once its lock is free, a pending CPU has its context.
Prepared == \A c \in Cpus :
    /\ aff[c] = "PENDING" /\ cpuLock[c] = NoCpu => ctx[c] = "ready"
    /\ pc[c] = "exit" => cpuLock[c] = NoCpu

IInv == TypeOK /\ OnHolds /\ PdHolds /\ AffMatches /\ PowerMatches /\ Prepared

USE PsciAssumption DEF InOn, InDown, InCall, ComingUp, Inside

-----------------------------------------------------------------------------
(* One lemma for each action that moves more than the register *)

\* CPU_ON is called: nothing is held yet.
LEMMA OnCallKeeps ==
  ASSUME IInv, NEW c \in Cpus, NEW t \in Cpus \ {c}, OnCall(c, t)
  PROVE  IInv'
BY DEF IInv, TypeOK, LockOwners, OnHolds, PdHolds, AffMatches, PowerMatches,
       Prepared, OnCall, Step, Goto, Begin

\* The lock is taken only when it is free, and the target made pending under it.
LEMMA OnStartKeeps ==
  ASSUME IInv, NEW c \in Cpus, OnStart(c)
  PROVE  IInv'
BY DEF IInv, TypeOK, LockOwners, OnHolds, PdHolds, AffMatches, PowerMatches,
       Prepared, OnStart, Step, Goto, End

\* The end of the wait keeps the lock.
LEMMA OnPollKeeps ==
  ASSUME IInv, NEW c \in Cpus, OnPoll(c)
  PROVE  IInv'
BY DEF IInv, TypeOK, LockOwners, OnHolds, PdHolds, AffMatches, PowerMatches,
       Prepared, OnPoll, Step, Goto

\* The lock is freed together with the context being ready.
LEMMA OnDoneKeeps ==
  ASSUME IInv, NEW c \in Cpus, OnDone(c)
  PROVE  IInv'
BY DEF IInv, TypeOK, LockOwners, OnHolds, PdHolds, AffMatches, PowerMatches,
       Prepared, OnDone, Step, Goto

\* A CPU goes on only if it is pending: it cannot be ON while it has no power.
LEMMA WarmBootKeeps ==
  ASSUME IInv, NEW c \in Cpus, WarmBoot(c)
  PROVE  IInv'
BY DEF IInv, TypeOK, LockOwners, OnHolds, PdHolds, AffMatches, PowerMatches,
       Prepared, WarmBoot, Step, Goto

\* A CPU that comes up takes the power domain locks.
LEMMA WarmLockKeeps ==
  ASSUME IInv, NEW c \in Cpus, WarmLock(c)
  PROVE  IInv'
BY DEF IInv, TypeOK, LockOwners, OnHolds, PdHolds, AffMatches, PowerMatches,
       Prepared, WarmLock, Step, Goto

\* Its own lock is free, so the CPU_ON that woke it is over.
LEMMA OnFinishKeeps ==
  ASSUME IInv, NEW c \in Cpus, OnFinish(c)
  PROVE  IInv'
BY DEF IInv, TypeOK, LockOwners, OnHolds, PdHolds, AffMatches, PowerMatches,
       Prepared, OnFinish, Step, Goto

\* It becomes ON; no CPU_ON on it is in progress.
LEMMA WarmDoneKeeps ==
  ASSUME IInv, NEW c \in Cpus, WarmDone(c)
  PROVE  IInv'
BY DEF IInv, TypeOK, LockOwners, OnHolds, PdHolds, AffMatches, PowerMatches,
       Prepared, WarmDone, Step, Goto, End

\* CPU_OFF is called: nothing is held yet.
LEMMA OffCallKeeps ==
  ASSUME IInv, NEW c \in Cpus, OffCall(c)
  PROVE  IInv'
BY DEF IInv, TypeOK, LockOwners, OnHolds, PdHolds, AffMatches, PowerMatches,
       Prepared, OffCall, Step, Goto, Begin

\* CPU_OFF takes the power domain locks.
LEMMA OffLockKeeps ==
  ASSUME IInv, NEW c \in Cpus, OffLock(c)
  PROVE  IInv'
BY DEF IInv, TypeOK, LockOwners, OnHolds, PdHolds, AffMatches, PowerMatches,
       Prepared, OffLock, Step, Goto

\* CPU_OFF gives them back.
LEMMA OffUnlockKeeps ==
  ASSUME IInv, NEW c \in Cpus, OffUnlock(c)
  PROVE  IInv'
BY DEF IInv, TypeOK, LockOwners, OnHolds, PdHolds, AffMatches, PowerMatches,
       Prepared, OffUnlock, Step, Goto

\* The CPU becomes OFF: it was ON, so no CPU_ON on it is in progress.
LEMMA OffStateKeeps ==
  ASSUME IInv, NEW c \in Cpus, OffState(c)
  PROVE  IInv'
BY DEF IInv, TypeOK, LockOwners, OnHolds, PdHolds, AffMatches, PowerMatches,
       Prepared, OffState, Step, Goto

\* check_flag is set on the way to WFI.
LEMMA DownFlagKeeps ==
  ASSUME IInv, NEW c \in Cpus, DownFlag(c)
  PROVE  IInv'
BY DEF IInv, TypeOK, LockOwners, OnHolds, PdHolds, AffMatches, PowerMatches,
       Prepared, DownFlag, Step, Goto

\* AFFINITY_INFO holds no lock.
LEMMA AffInfoKeeps ==
  ASSUME IInv, NEW c \in Cpus, NEW t \in Cpus \ {c}, AffInfo(c, t)
  PROVE  IInv'
BY DEF IInv, TypeOK, LockOwners, OnHolds, PdHolds, AffMatches, PowerMatches,
       Prepared, AffInfo, Step, Goto, End

\* Nor does the end of its wait.
LEMMA AffDoneKeeps ==
  ASSUME IInv, NEW c \in Cpus, AffDone(c)
  PROVE  IInv'
BY DEF IInv, TypeOK, LockOwners, OnHolds, PdHolds, AffMatches, PowerMatches,
       Prepared, AffDone, Step, Goto, End

\* Power comes to a dead CPU only.
LEMMA HwUpKeeps ==
  ASSUME IInv, NEW c \in Cpus, HwUp(c)
  PROVE  IInv'
BY DEF IInv, TypeOK, LockOwners, OnHolds, PdHolds, AffMatches, PowerMatches,
       Prepared, HwUp, Goto

\* Power goes from a CPU in WFI only.
LEMMA HwDownKeeps ==
  ASSUME IInv, NEW c \in Cpus, HwDown(c)
  PROVE  IInv'
BY DEF IInv, TypeOK, LockOwners, OnHolds, PdHolds, AffMatches, PowerMatches,
       Prepared, HwDown, Step, Goto

\* The steps of plat_power_domain_on on the register keep every lock and state.
LEMMA plat_power_domain_onKeeps ==
  ASSUME IInv, NEW c \in Cpus, plat_power_domain_on(c)
  PROVE  IInv'
<1>1. CASE SpmRead(c, "onRst", "onRstWrite")
  BY <1>1 DEF IInv, TypeOK, LockOwners, OnHolds, PdHolds, AffMatches, PowerMatches,
           Prepared, SpmRead, Step, Goto
<1>2. CASE SpmWrite(c, "onRstWrite", "onPwr", reg[c])
  BY <1>2 DEF IInv, TypeOK, LockOwners, OnHolds, PdHolds, AffMatches, PowerMatches,
           Prepared, SpmWrite, Step, Goto
<1>3. CASE SpmRead(c, "onPwr", "onPwrWrite")
  BY <1>3 DEF IInv, TypeOK, LockOwners, OnHolds, PdHolds, AffMatches, PowerMatches,
           Prepared, SpmRead, Step, Goto
<1>4. CASE SpmWrite(c, "onPwrWrite", "onWait", reg[c] \cup {tgt[c]})
  BY <1>4 DEF IInv, TypeOK, LockOwners, OnHolds, PdHolds, AffMatches, PowerMatches,
           Prepared, SpmWrite, Step, Goto
<1>5. CASE OnPoll(c)
  BY <1>5, OnPollKeeps
<1>. QED BY <1>1, <1>2, <1>3, <1>4, <1>5 DEF plat_power_domain_on

\* The steps of plat_power_domain_down_wfi on the register keep every lock and state.
LEMMA plat_power_domain_down_wfiKeeps ==
  ASSUME IInv, NEW c \in Cpus, plat_power_domain_down_wfi(c)
  PROVE  IInv'
<1>1. CASE SpmRead(c, "down", "downWrite")
  BY <1>1 DEF IInv, TypeOK, LockOwners, OnHolds, PdHolds, AffMatches, PowerMatches,
           Prepared, SpmRead, Step, Goto
<1>2. CASE SpmWrite(c, "downWrite", "downPwr", reg[c])
  BY <1>2 DEF IInv, TypeOK, LockOwners, OnHolds, PdHolds, AffMatches, PowerMatches,
           Prepared, SpmWrite, Step, Goto
<1>3. CASE SpmRead(c, "downPwr", "downPwrWrite")
  BY <1>3 DEF IInv, TypeOK, LockOwners, OnHolds, PdHolds, AffMatches, PowerMatches,
           Prepared, SpmRead, Step, Goto
<1>4. CASE SpmWrite(c, "downPwrWrite", "downFlag", reg[c] \ {c})
  BY <1>4 DEF IInv, TypeOK, LockOwners, OnHolds, PdHolds, AffMatches, PowerMatches,
           Prepared, SpmWrite, Step, Goto
<1>5. CASE DownFlag(c)
  BY <1>5, DownFlagKeeps
<1>. QED BY <1>1, <1>2, <1>3, <1>4, <1>5 DEF plat_power_domain_down_wfi

-----------------------------------------------------------------------------
\* The invariant holds when the primary CPU comes out of reset.
LEMMA InitIInv == Init => IInv
BY DEF Init, IInv, TypeOK, LockOwners, OnHolds, PdHolds, AffMatches, PowerMatches,
       Prepared

\* Every step keeps the invariant.
LEMMA NextIInv == IInv /\ [Next]_vars => IInv'
<1>. SUFFICES ASSUME IInv, [Next]_vars PROVE IInv'
  OBVIOUS
<1>1. CASE UNCHANGED vars
  BY <1>1 DEF vars, IInv, TypeOK, LockOwners, OnHolds, PdHolds, AffMatches, PowerMatches,
              Prepared
<1>2. ASSUME NEW c \in Cpus, Progress(c) PROVE IInv'
  BY <1>2, OnStartKeeps, plat_power_domain_onKeeps, OnDoneKeeps, WarmBootKeeps,
     WarmLockKeeps, OnFinishKeeps, WarmDoneKeeps, OffLockKeeps, OffUnlockKeeps,
     OffStateKeeps, plat_power_domain_down_wfiKeeps, AffDoneKeeps DEF Progress
<1>3. ASSUME NEW c \in Cpus, Calls(c) PROVE IInv'
  BY <1>3, OffCallKeeps, OnCallKeeps, AffInfoKeeps DEF Calls
<1>4. ASSUME NEW c \in Cpus, Hardware(c) PROVE IInv'
  BY <1>4, HwUpKeeps, HwDownKeeps DEF Hardware
<1>. QED BY <1>1, <1>2, <1>3, <1>4 DEF Next

\* For any number of CPUs the state is well formed and every lock belongs to the
\* CPU that is using it, however the calls interleave.
THEOREM PsciTypeCorrect == Spec => []TypeOK
<1>1. IInv => TypeOK
  BY DEF IInv
<1>. QED BY InitIInv, NextIInv, <1>1, PTL DEF Spec

\* For any number of CPUs, a CPU leaves psci_cpu_on_finish only with the context
\* of the CPU_ON that woke it: taking and releasing cpu_lock there suffices.
THEOREM ContextAlwaysReady == Spec => []ContextReady
<1>1. IInv => ContextReady
  BY DEF IInv, AffMatches, Prepared, ContextReady, TypeOK
<1>. QED BY InitIInv, NextIInv, <1>1, PTL DEF Spec
-----------------------------------------------------------------------------
(* Two CPUs, as the EN7523 has them: the power register.  With three, an old *)
(* value that one CPU writes back undoes what another one has written.       *)

\* PLATFORM_CORE_COUNT is not more than 2.
TwoCores == \A a, b, c \in Cpus : a = b \/ b = c \/ a = c

\* A CPU that runs the OS or works for it, and is not on its way off.
Steady == InOn \cup {"run", "onLock", "affWait"}

\* A CPU that needs its bit: it runs, comes up, or has not yet cleared it.
Keeping == Steady \cup ComingUp \cup
    {"offLock", "off", "offState", "down", "downWrite", "downPwr", "downPwrWrite"}

\* Between the read of the register and the write.
Updating == {"onRstWrite", "onPwrWrite", "downWrite", "downPwrWrite"}

\* The bit is set, and every value about to be written back has it too.
BitKept == \A c \in Cpus : pc[c] \in Keeping =>
    c \in spm /\ \A d \in Cpus : pc[d] \in Updating => c \in reg[d]

\* A bit that an old value lacks has not been set since.
NotSetSince == \A c, d \in Cpus : pc[d] \in Updating /\ c \notin reg[d] => c \notin spm

\* One CPU is always left: CPU_OFF is not called on the last one.
OneStays == \A c, d \in Cpus : c # d => pc[c] \in Steady \/ pc[d] \in Steady

\* Nothing sets the bit of a CPU that is OFF and has cleared it.
OffStaysOff == \A c \in Cpus : aff[c] = "OFF" /\ pc[c] \notin Keeping => c \notin spm

\* A CPU that comes up is pending.
UpPending == \A c \in Cpus : pc[c] \in ComingUp => aff[c] = "PENDING"

RegInv == BitKept /\ NotSetSince /\ OneStays /\ OffStaysOff /\ UpPending /\ WokenOnPurpose

USE DEF TwoCores, RegInv, BitKept, NotSetSince, OneStays, OffStaysOff, UpPending,
        WokenOnPurpose, Steady, Keeping, Updating, IInv, TypeOK, OnHolds, AffMatches,
        PowerMatches

\* Calling CPU_ON keeps the caller on.
LEMMA OnCallReg ==
  ASSUME TwoCores, IInv, RegInv, NEW c \in Cpus, NEW t \in Cpus \ {c}, OnCall(c, t)
  PROVE  RegInv'
BY DEF OnCall, Step, Goto, Begin

\* The target is pending from here on, whatever its bit.
LEMMA OnStartReg ==
  ASSUME IInv, RegInv, NEW c \in Cpus, OnStart(c)
  PROVE  RegInv'
<1>1. /\ UNCHANGED <<spm, reg>> /\ pc[c] \in Steady /\ pc'[c] \in Steady
      /\ \A d \in Cpus \ {c} : pc'[d] = pc[d]
  BY DEF OnStart, Step, Goto
<1>2. \A d \in Cpus : /\ aff'[d] = "OFF" => aff[d] = "OFF"
                      /\ aff[d] = "PENDING" => aff'[d] = "PENDING"
  BY DEF OnStart
<1>3. BitKept' /\ NotSetSince'
  BY <1>1 DEF OnStart, Step, Goto
<1>4. OneStays' /\ WokenOnPurpose'
  BY <1>1
<1>5. OffStaysOff' /\ UpPending'
  BY <1>1, <1>2
<1>. QED BY <1>3, <1>4, <1>5

\* The end of CPU_ON leaves the register alone.
LEMMA OnDoneReg ==
  ASSUME TwoCores, IInv, RegInv, NEW c \in Cpus, OnDone(c)
  PROVE  RegInv'
BY DEF OnDone, Step, Goto

\* A CPU that has power is pending, so it does not panic.
LEMMA WarmBootReg ==
  ASSUME TwoCores, IInv, RegInv, NEW c \in Cpus, WarmBoot(c)
  PROVE  RegInv'
BY DEF WarmBoot, Step, Goto

\* The register is left alone while a CPU comes up.
LEMMA WarmLockReg ==
  ASSUME TwoCores, IInv, RegInv, NEW c \in Cpus, WarmLock(c)
  PROVE  RegInv'
BY DEF WarmLock, Step, Goto

\* The register is left alone while a CPU comes up.
LEMMA OnFinishReg ==
  ASSUME TwoCores, IInv, RegInv, NEW c \in Cpus, OnFinish(c)
  PROVE  RegInv'
BY DEF OnFinish, Step, Goto

\* A CPU that has come up still has its bit.
LEMMA WarmDoneReg ==
  ASSUME TwoCores, IInv, RegInv, NEW c \in Cpus, WarmDone(c)
  PROVE  RegInv'
BY DEF WarmDone, Step, Goto, End

\* A CPU goes off only while the other one stays.
LEMMA OffCallReg ==
  ASSUME TwoCores, IInv, RegInv, NEW c \in Cpus, OffCall(c)
  PROVE  RegInv'
BY DEF OffCall, Step, Goto, Begin

\* Until it is down a CPU keeps its bit.
LEMMA OffLockReg ==
  ASSUME TwoCores, IInv, RegInv, NEW c \in Cpus, OffLock(c)
  PROVE  RegInv'
BY DEF OffLock, Step, Goto

\* Until it is down a CPU keeps its bit.
LEMMA OffUnlockReg ==
  ASSUME TwoCores, IInv, RegInv, NEW c \in Cpus, OffUnlock(c)
  PROVE  RegInv'
BY DEF OffUnlock, Step, Goto

\* OFF, but with its bit still set.
LEMMA OffStateReg ==
  ASSUME TwoCores, IInv, RegInv, NEW c \in Cpus, OffState(c)
  PROVE  RegInv'
BY DEF OffState, Step, Goto

\* AFFINITY_INFO leaves the register alone.
LEMMA AffInfoReg ==
  ASSUME IInv, RegInv, NEW c \in Cpus, NEW t \in Cpus \ {c}, AffInfo(c, t)
  PROVE  RegInv'
<1>1. /\ UNCHANGED <<spm, reg, aff>> /\ pc[c] \in Steady /\ pc'[c] \in Steady \ Updating
      /\ \A d \in Cpus \ {c} : pc'[d] = pc[d]
  BY DEF AffInfo, Step, Goto
<1>2. BitKept' /\ NotSetSince'
  BY <1>1
<1>3. OneStays' /\ WokenOnPurpose'
  BY <1>1
<1>4. OffStaysOff' /\ UpPending'
  BY <1>1
<1>. QED BY <1>2, <1>3, <1>4

\* So does the end of its wait.
LEMMA AffDoneReg ==
  ASSUME TwoCores, IInv, RegInv, NEW c \in Cpus, AffDone(c)
  PROVE  RegInv'
BY DEF AffDone, Step, Goto, End

\* Power comes to a CPU that is pending, and no value of the register that lacks
\* its bit is about to be written.
LEMMA HwUpReg ==
  ASSUME TwoCores, IInv, RegInv, NEW c \in Cpus, HwUp(c)
  PROVE  RegInv'
BY DEF HwUp, Goto

\* A CPU without power has no bit to keep.
LEMMA HwDownReg ==
  ASSUME TwoCores, IInv, RegInv, NEW c \in Cpus, HwDown(c)
  PROVE  RegInv'
BY DEF HwDown, Step, Goto

\* The two updates of plat_power_domain_on.
LEMMA plat_power_domain_onReg ==
  ASSUME TwoCores, IInv, RegInv, NEW c \in Cpus, plat_power_domain_on(c)
  PROVE  RegInv'
<1>1. CASE SpmRead(c, "onRst", "onRstWrite")
  BY <1>1 DEF SpmRead, Step, Goto
<1>2. CASE SpmWrite(c, "onRstWrite", "onPwr", reg[c])
  BY <1>2 DEF SpmWrite, Step, Goto
<1>3. CASE SpmRead(c, "onPwr", "onPwrWrite")
  BY <1>3 DEF SpmRead, Step, Goto
<1>4. CASE SpmWrite(c, "onPwrWrite", "onWait", reg[c] \cup {tgt[c]})
  BY <1>4 DEF SpmWrite, Step, Goto
<1>5. CASE OnPoll(c)
  BY <1>5 DEF OnPoll, Step, Goto
<1>. QED BY <1>1, <1>2, <1>3, <1>4, <1>5 DEF plat_power_domain_on

\* The two updates of plat_power_domain_down_wfi.
LEMMA plat_power_domain_down_wfiReg ==
  ASSUME TwoCores, IInv, RegInv, NEW c \in Cpus, plat_power_domain_down_wfi(c)
  PROVE  RegInv'
<1>1. CASE SpmRead(c, "down", "downWrite")
  BY <1>1 DEF SpmRead, Step, Goto
<1>2. CASE SpmWrite(c, "downWrite", "downPwr", reg[c])
  BY <1>2 DEF SpmWrite, Step, Goto
<1>3. CASE SpmRead(c, "downPwr", "downPwrWrite")
  BY <1>3 DEF SpmRead, Step, Goto
<1>4. CASE SpmWrite(c, "downPwrWrite", "downFlag", reg[c] \ {c})
  BY <1>4 DEF SpmWrite, Step, Goto
<1>5. CASE DownFlag(c)
  BY <1>5 DEF DownFlag, Step, Goto
<1>. QED BY <1>1, <1>2, <1>3, <1>4, <1>5 DEF plat_power_domain_down_wfi

\* When the primary CPU comes out of reset only its own bit is set.
LEMMA InitReg == TwoCores /\ Init => RegInv
BY DEF Init

\* Every step of two CPUs keeps what is said of the register.
LEMMA NextReg == ASSUME TwoCores PROVE IInv /\ RegInv /\ [Next]_vars => RegInv'
<1>. SUFFICES ASSUME IInv, RegInv, [Next]_vars PROVE RegInv'
  OBVIOUS
<1>1. CASE UNCHANGED vars
  BY <1>1 DEF vars
<1>2. ASSUME NEW c \in Cpus, Progress(c) PROVE RegInv'
  BY <1>2, OnStartReg, plat_power_domain_onReg, OnDoneReg, WarmBootReg,
     WarmLockReg, OnFinishReg, WarmDoneReg, OffLockReg, OffUnlockReg,
     OffStateReg, plat_power_domain_down_wfiReg, AffDoneReg DEF Progress
<1>3. ASSUME NEW c \in Cpus, Calls(c) PROVE RegInv'
  BY <1>3, OffCallReg, OnCallReg, AffInfoReg DEF Calls
<1>4. ASSUME NEW c \in Cpus, Hardware(c) PROVE RegInv'
  BY <1>4, HwUpReg, HwDownReg DEF Hardware
<1>. QED BY <1>1, <1>2, <1>3, <1>4 DEF Next

\* On a chip with two cores no update of the shared register, which is read and
\* written in separate steps and outside any common lock, takes the power
\* request away from a CPU that runs the OS.
THEOREM RunningStaysPowered == ASSUME TwoCores PROVE Spec => []RunningPowered
<1>1. RegInv => RunningPowered
  BY DEF RunningPowered
<1>. QED BY InitIInv, NextIInv, InitReg, NextReg, <1>1, PTL DEF Spec

\* On a chip with two cores a CPU that gets power was turned on by a CPU_ON:
\* psci_warmboot_entrypoint never panics.
THEOREM AlwaysWokenOnPurpose == ASSUME TwoCores PROVE Spec => []WokenOnPurpose
<1>1. RegInv => WokenOnPurpose
  OBVIOUS
<1>. QED BY InitIInv, NextIInv, InitReg, NextReg, <1>1, PTL DEF Spec
=============================================================================
