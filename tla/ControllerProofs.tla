-------------------------- MODULE ControllerProofs --------------------------
(***************************************************************************)
(* Theorems about the process controller and, in the last part, about the  *)
(* smoke test that runs on it, for every set of VMs, PIDs and concurrent   *)
(* commands.                                                               *)
(***************************************************************************)
EXTENDS SmokeTest, TLAPS

(* The options an idle invocation carries are well formed. *)
LEMMA DefaultsType == Defaults \in Options
<1>1. (CHOOSE v \in VMs : TRUE) \in VMs
  BY IdentityAssumption
<1>2. QED
  BY <1>1 DEF Defaults, Options, Actions

LEMMA AfterLoadType == \A act \in Actions \ {"start"} : AfterLoad[act] \in Steps
BY DEF AfterLoad, Actions, Steps

(* What births, deaths and reaping do to the shape of the process table. *)
LEMMA ReapedType ==
  ASSUME TypeOK, NEW dead, Reaped(dead)
  PROVE  /\ life' \in [Pids -> {"free", "alive", "zombie"}]
         /\ vmOf' \in [Pids -> VMs \union Others \union {None}]
         /\ unrecorded' \subseteq Pids
BY DEF TypeOK, Reaped, Cleared

LEMMA DiesType ==
  ASSUME TypeOK, NEW p, Dies(p)
  PROVE  /\ life' \in [Pids -> {"free", "alive", "zombie"}]
         /\ vmOf' \in [Pids -> VMs \union Others \union {None}]
         /\ unrecorded' \subseteq Pids
<1>1. CASE \E c \in Invocations : child[c] = p
  BY <1>1 DEF TypeOK, Dies
<1>2. CASE ~ \E c \in Invocations : child[c] = p
  BY <1>2, ReapedType DEF Dies
<1>3. QED
  BY <1>1, <1>2

LEMMA BornType ==
  ASSUME TypeOK, NEW p \in Pids, NEW v \in VMs \union Others, Born(p, v)
  PROVE  /\ life' \in [Pids -> {"free", "alive", "zombie"}]
         /\ vmOf' \in [Pids -> VMs \union Others \union {None}]
         /\ unrecorded' \subseteq Pids
BY DEF TypeOK, Born

-----------------------------------------------------------------------------
(* The commands' own steps, one action at a time. *)
IInv == TypeOK /\ HoldsPid

LEMMA StopStepInd ==
  ASSUME IInv, NEW c \in Invocations, StopStep(c)
  PROVE  IInv'
<1> USE DEF IInv, TypeOK, HoldsPid, Observing, Steps, osVars, Goto, Stopped, vm
<1>1. CASE RestartObserve(c)
  BY <1>1 DEF RestartObserve
<1>2. CASE StopObserve(c)
  BY <1>2 DEF StopObserve
<1>3. CASE Term(c)
  BY <1>3 DEF Term
<1>4. CASE AwaitGone(c)
  BY <1>4 DEF AwaitGone
<1>5. CASE AwaitDeadline(c)
  BY <1>5 DEF AwaitDeadline
<1>6. CASE Recheck(c)
  BY <1>6 DEF Recheck
<1>7. CASE Kill(c)
  <2>1. /\ life' \in [Pids -> {"free", "alive", "zombie"}]
        /\ vmOf' \in [Pids -> VMs \union Others \union {None}]
        /\ unrecorded' \subseteq Pids
    BY <1>7, DiesType DEF Kill
  <2>2. QED
    BY <1>7, <2>1 DEF Kill
<1>8. CASE AwaitKillDeadline(c)
  BY <1>8 DEF AwaitKillDeadline
<1>9. QED
  BY <1>1, <1>2, <1>3, <1>4, <1>5, <1>6, <1>7, <1>8 DEF StopStep

LEMMA LaunchStepInd ==
  ASSUME IInv, NEW c \in Invocations, LaunchStep(c)
  PROVE  IInv'
<1> USE DEF IInv, TypeOK, HoldsPid, Observing, Steps, osVars, Goto, Hold, vm
<1>0. arg[c].vm \in VMs
  BY DEF Options
<1>1. CASE LaunchLoad(c)
  BY <1>0, <1>1 DEF LaunchLoad
<1>2. CASE LaunchObserve(c)
  BY <1>2 DEF LaunchObserve
<1>14. CASE SpawnFails(c)
  BY <1>14 DEF SpawnFails
<1>15. CASE WriteFails(c)
  <2>1. held[c] \in Pids
    BY <1>15 DEF WriteFails
  <2>2. PICK left \in {tmp[vm(c)], Torn} : tmp' = [tmp EXCEPT ![vm(c)] = left]
    BY <1>15 DEF WriteFails
  <2>3. left \in Pids \union {None, Torn}
    BY <1>0, <2>2
  <2>4. tmp' \in [VMs -> Pids \union {None, Torn}]
    BY <1>0, <2>2, <2>3
  <2>5. unrecorded' \subseteq Pids
    BY <1>15 DEF WriteFails, WithoutRecord
  <2> QED
    BY <1>15, <2>4, <2>5 DEF WriteFails, WithoutRecord
<1>16. CASE ReplaceFails(c)
  BY <1>16 DEF ReplaceFails, WithoutRecord
<1>3. CASE Spawn(c)
  <2>1. PICK p \in Pids : /\ Born(p, vm(c))
                          /\ child' = [child EXCEPT ![c] = p]
    BY <1>3 DEF Spawn
  <2>2. /\ life' \in [Pids -> {"free", "alive", "zombie"}]
        /\ vmOf' \in [Pids -> VMs \union Others \union {None}]
        /\ unrecorded' \subseteq Pids
    BY <1>0, <2>1, BornType
  <2>3. QED
    BY <1>3, <2>1, <2>2 DEF Spawn
<1>4. CASE SpawnBackground(c)
  BY <1>0, <1>4 DEF SpawnBackground
<1>5. CASE Grace(c)
  <2>1. /\ life' \in [Pids -> {"free", "alive", "zombie"}]
        /\ vmOf' \in [Pids -> VMs \union Others \union {None}]
        /\ unrecorded' \subseteq Pids
    BY <1>5, ReapedType DEF Grace
  <2>2. QED
    BY <1>5, <2>1 DEF Grace
<1>6. CASE Find(c)
  BY <1>6 DEF Find
<1>7. CASE FindDeadline(c)
  BY <1>7 DEF FindDeadline
<1>8. CASE Write(c)
  BY <1>0, <1>8 DEF Write
<1>9. CASE Replace(c)
  BY <1>0, <1>9 DEF Replace
<1>10. CASE Confirm(c)
  BY <1>10 DEF Confirm
<1>11. CASE PortReady(c)
  BY <1>11 DEF PortReady
<1>12. CASE PortDeadline(c)
  BY <1>12 DEF PortDeadline
<1>13. QED
  BY <1>1, <1>2, <1>3, <1>4, <1>5, <1>6, <1>7, <1>8, <1>9, <1>10, <1>11, <1>12, <1>14, <1>15,
     <1>16
  DEF LaunchStep

LEMMA LeaveInd ==
  ASSUME IInv, NEW c \in Invocations, Leave(c)
  PROVE  IInv'
<1>1. /\ life' \in [Pids -> {"free", "alive", "zombie"}]
      /\ vmOf' \in [Pids -> VMs \union Others \union {None}]
      /\ unrecorded' \subseteq Pids
  BY ReapedType DEF IInv, Leave
<1>2. QED
  BY <1>1, DefaultsType
  DEF IInv, TypeOK, HoldsPid, Observing, Steps, Leave

LEMMA OtherStepInd ==
  ASSUME IInv, NEW c \in Invocations,
         Load(c) \/ WaitPoll(c) \/ WaitDeadline(c) \/ ForgetObserve(c) \/ Unlink(c) \/ UnlinkFails(c)
  PROVE  IInv'
<1> USE DEF IInv, TypeOK, HoldsPid, Observing, Steps, osVars, Goto, Hold, vm
<1>0. arg[c].vm \in VMs /\ arg[c].act \in Actions
  BY DEF Options
<1>1. CASE Load(c)
  <2>1. arg[c].act \in Actions \ {"start"}
    BY <1>0, <1>1 DEF Load
  <2>2. AfterLoad[arg[c].act] \in {"restartObserve", "stopObserve", "waitLoop", "forgetObserve"}
    BY <2>1 DEF AfterLoad, Actions
  <2>3. QED
    BY <1>0, <1>1, <2>2 DEF Load
<1>2. CASE WaitPoll(c)
  BY <1>2 DEF WaitPoll
<1>3. CASE WaitDeadline(c)
  BY <1>3 DEF WaitDeadline
<1>4. CASE ForgetObserve(c)
  BY <1>4 DEF ForgetObserve
<1>5. CASE Unlink(c) \/ UnlinkFails(c)
  BY <1>0, <1>5 DEF Unlink, UnlinkFails
<1>6. QED
  BY <1>1, <1>2, <1>3, <1>4, <1>5

LEMMA EnvironmentInd ==
  ASSUME IInv, Environment
  PROVE  IInv'
<1> USE DEF IInv, TypeOK, HoldsPid, ctlVars, osVars
<1>1. CASE \E v \in VMs : LaunchServices(v)
  <2>1. PICK v \in VMs : LaunchServices(v)
    BY <1>1
  <2>2. CASE \E p \in Pids : Born(p, v)
    BY <2>1, <2>2, BornType DEF LaunchServices
  <2>3. CASE UNCHANGED osVars
    BY <2>1, <2>3 DEF LaunchServices
  <2>4. QED
    BY <2>1, <2>2, <2>3 DEF LaunchServices
<1>2. CASE \E p \in Pids : OtherStart(p)
  <2>1. PICK p \in Pids, v \in Outside \union Others : Born(p, v)
    BY <1>2 DEF OtherStart
  <2>2. v \in VMs \union Others
    BY OutsideAssumption
  <2>3. QED
    BY <1>2, <2>1, <2>2, BornType DEF OtherStart
<1>3. CASE \E p \in Pids : Quit(p)
  BY <1>3, DiesType DEF Quit
<1>4. QED
  BY <1>1, <1>2, <1>3 DEF Environment

(* The inductive invariant is preserved by every step. *)
LEMMA IInvStep == IInv /\ [Next]_vars => IInv'
<1> SUFFICES ASSUME IInv, [Next]_vars
             PROVE  IInv'
  OBVIOUS
<1>1. CASE \E c \in Invocations : Begin(c)
  BY <1>1 DEF IInv, TypeOK, HoldsPid, Observing, Steps, Begin, Goto, osVars
<1>2. CASE \E c \in Invocations : Step(c)
  BY <1>2, StopStepInd, LaunchStepInd, LeaveInd, OtherStepInd DEF Step, Return
<1>3. CASE \E c \in Invocations : Interrupt(c)
  BY <1>3, LeaveInd DEF Interrupt
<1>4. CASE Environment
  BY <1>4, EnvironmentInd
<1>5. CASE UNCHANGED vars
  BY <1>5 DEF IInv, TypeOK, HoldsPid, vars
<1>6. QED
  BY <1>1, <1>2, <1>3, <1>4, <1>5 DEF Next

LEMMA IInvInit == Init => IInv
BY DefaultsType DEF Init, IInv, TypeOK, HoldsPid, Observing, Steps

(* Every variable keeps its type, and no command ever runs ps or kill on   *)
(* a record it does not have.                                              *)
THEOREM TypeCorrect == Spec => [](TypeOK /\ HoldsPid)
<1>1. IInv => TypeOK /\ HoldsPid
  BY DEF IInv
<1>2. QED
  BY <1>1, IInvInit, IInvStep, PTL DEF Spec

-----------------------------------------------------------------------------
(* A PID that a command is about to signal is not given to a new process,  *)
(* and keeps its command line for as long as it has one.                   *)
Keeps(p) == life'[p] = "free" \/ (life[p] # "free" /\ vmOf'[p] = vmOf[p])

LEMMA DiesKeeps ==
  ASSUME TypeOK, NEW q \in Pids, NEW p \in Pids, Dies(q)
  PROVE  life[q] # "free" => Keeps(p)
BY DEF TypeOK, Dies, Reaped, Cleared, Keeps

LEMMA ReapedKeeps ==
  ASSUME TypeOK, NEW dead, Reaped(dead), NEW p \in Pids
  PROVE  Keeps(p)
BY DEF TypeOK, Reaped, Cleared, Keeps

LEMMA BornKeeps ==
  ASSUME TypeOK, ~InstantReuse, NEW q \in Pids, NEW v, Born(q, v),
         NEW c \in Invocations, Signalling(c), held[c] \in Pids
  PROVE  Keeps(held[c])
BY DEF TypeOK, Born, Allocatable, Keeps

(* Steps of anybody else leave a signal in hand aimed where it was. *)
LEMMA ProcessTableKeeps ==
  ASSUME IInv, ~InstantReuse, Next, NEW c \in Invocations, Signalling(c)
  PROVE  Keeps(held[c])
<1> USE DEF IInv
<1>0. held[c] \in Pids
  BY DEF HoldsPid, Signalling, Observing
<1>1. CASE UNCHANGED <<life, vmOf>>
  BY <1>0, <1>1 DEF TypeOK, Keeps
<1>2. ASSUME NEW d \in Invocations, Spawn(d)
      PROVE  Keeps(held[c])
  BY <1>0, <1>2, BornKeeps DEF Spawn
<1>3. ASSUME NEW d \in Invocations, Grace(d) \/ Leave(d)
      PROVE  Keeps(held[c])
  BY <1>0, <1>3, ReapedKeeps DEF Grace, Leave
<1>4. ASSUME NEW d \in Invocations, Kill(d)
      PROVE  Keeps(held[c])
  <2>1. held[d] \in Pids
    BY <1>4 DEF Kill, Goto, HoldsPid, Observing
  <2>2. CASE life[held[d]] = "alive"
    BY <1>0, <1>4, <2>1, <2>2, DiesKeeps DEF Kill
  <2>3. QED
    BY <1>1, <1>4, <2>2 DEF Kill, osVars
<1>6. CASE Environment
  <2>1. ASSUME NEW v \in VMs, LaunchServices(v)
        PROVE  Keeps(held[c])
    BY <1>0, <1>1, <2>1, BornKeeps DEF LaunchServices, osVars
  <2>2. ASSUME NEW p \in Pids, OtherStart(p)
        PROVE  Keeps(held[c])
    BY <1>0, <2>2, BornKeeps DEF OtherStart
  <2>3. ASSUME NEW p \in Pids, Quit(p)
        PROVE  Keeps(held[c])
    BY <1>0, <2>3, DiesKeeps DEF Quit
  <2>4. QED
    BY <1>6, <2>1, <2>2, <2>3 DEF Environment
<1>7. ASSUME NEW d \in Invocations, Begin(d)
      PROVE  UNCHANGED <<life, vmOf>>
  BY <1>7 DEF Begin, osVars
<1>8. ASSUME NEW d \in Invocations, StopStep(d)
      PROVE  Keeps(held[c])
  BY <1>1, <1>4, <1>8
  DEF StopStep, RestartObserve, StopObserve, Term, AwaitGone, AwaitDeadline, Recheck,
      AwaitKillDeadline, osVars
<1>9. ASSUME NEW d \in Invocations, LaunchStep(d)
      PROVE  Keeps(held[c])
  BY <1>1, <1>2, <1>3, <1>9
  DEF LaunchStep, LaunchLoad, LaunchObserve, SpawnFails, SpawnBackground, Find, FindDeadline,
      Write, WriteFails, WithoutRecord, Replace, ReplaceFails, Confirm, PortReady, PortDeadline,
      osVars
<1>10. ASSUME NEW d \in Invocations, Step(d)
       PROVE  Keeps(held[c])
  BY <1>1, <1>3, <1>8, <1>9, <1>10
  DEF Step, Load, Return, WaitPoll, WaitDeadline, ForgetObserve, Unlink, UnlinkFails, osVars
<1>11. QED
  BY <1>1, <1>3, <1>6, <1>7, <1>10 DEF Next, Interrupt

(* A command gets a signal in hand only by verifying the PID it holds, and *)
(* does nothing else before it sends it.                                   *)
LEMMA SignalInHand ==
  ASSUME IInv, Next, NEW c \in Invocations, Signalling(c)'
  PROVE  \/ /\ Signalling(c)
            /\ UNCHANGED <<held[c], arg[c]>>
         \/ /\ Verified(held[c], vm(c))
            /\ UNCHANGED <<held[c], arg[c], life, vmOf>>
<1> USE DEF IInv, TypeOK, Signalling, Steps
<1>1. ASSUME NEW d \in Invocations, Begin(d) \/ Leave(d)
      PROVE  Signalling(c) /\ UNCHANGED <<held[c], arg[c]>>
  BY <1>1 DEF Begin, Leave, Goto
<1>2. ASSUME NEW d \in Invocations, StopStep(d), d # c
      PROVE  Signalling(c) /\ UNCHANGED <<held[c], arg[c]>>
  BY <1>2
  DEF StopStep, RestartObserve, StopObserve, Term, AwaitGone, AwaitDeadline, Recheck,
      Kill, AwaitKillDeadline, Goto
<1>3. CASE StopStep(c)
  BY <1>3
  DEF StopStep, RestartObserve, StopObserve, Term, AwaitGone, AwaitDeadline, Recheck,
      Kill, AwaitKillDeadline, Goto, Stopped, osVars
<1>4. ASSUME NEW d \in Invocations, LaunchStep(d)
      PROVE  Signalling(c) /\ UNCHANGED <<held[c], arg[c]>>
  BY <1>4
  DEF LaunchStep, LaunchLoad, LaunchObserve, Spawn, SpawnFails, SpawnBackground, Grace, Find,
      FindDeadline, Write, WriteFails, WithoutRecord, Replace, ReplaceFails, Confirm, PortReady,
      PortDeadline, Goto, Hold
<1>5. ASSUME NEW d \in Invocations, Load(d)
      PROVE  Signalling(c) /\ UNCHANGED <<held[c], arg[c]>>
  <2>1. arg[d].act \in Actions \ {"start"}
    BY <1>5 DEF Load, HoldsPid, Options, Goto
  <2>2. AfterLoad[arg[d].act] \notin {"term", "kill"}
    BY <2>1 DEF AfterLoad, Actions
  <2>3. QED
    BY <1>5, <2>2 DEF Load, Goto, Hold
<1>6. ASSUME NEW d \in Invocations,
             WaitPoll(d) \/ WaitDeadline(d) \/ ForgetObserve(d) \/ Unlink(d) \/ UnlinkFails(d)
      PROVE  Signalling(c) /\ UNCHANGED <<held[c], arg[c]>>
  BY <1>6 DEF WaitPoll, WaitDeadline, ForgetObserve, Unlink, UnlinkFails, Goto
<1>7. CASE Environment
  BY <1>7 DEF Environment, LaunchServices, OtherStart, Quit, ctlVars
<1>8. QED
  BY <1>1, <1>2, <1>3, <1>4, <1>5, <1>6, <1>7 DEF Next, Step, Return, Interrupt

LEMMA SignalStep ==
  ASSUME ~InstantReuse
  PROVE  IInv /\ SignalTargets /\ [Next]_vars => SignalTargets'
<1> SUFFICES ASSUME IInv, SignalTargets, [Next]_vars,
                    NEW c \in Invocations, Signalling(c)'
             PROVE  (life[held[c]] = "free" \/ <<vm(c), vmOf[held[c]]>> \in Covers)'
  BY DEF SignalTargets
<1>1. CASE UNCHANGED vars
  BY <1>1 DEF vars, SignalTargets, Signalling, vm
<1>2. CASE Next /\ Signalling(c) /\ UNCHANGED <<held[c], arg[c]>>
  BY <1>2, ProcessTableKeeps DEF SignalTargets, Keeps, vm
<1>3. CASE Next /\ Verified(held[c], vm(c)) /\ UNCHANGED <<held[c], arg[c], life, vmOf>>
  BY <1>3 DEF Verified, vm
<1>4. QED
  BY <1>1, <1>2, <1>3, SignalInHand

(* Whatever the commands and the other programs do, a signal is only sent  *)
(* to a free PID or to a process whose command line contains the VM path,  *)
(* provided that no PID is recycled between the ps and the signal.         *)
THEOREM SignalSafety ==
  ASSUME ~InstantReuse
  PROVE  Spec => []SignalTargets
<1>1. Init => SignalTargets
  BY DEF Init, SignalTargets, Signalling
<1>2. QED
  BY <1>1, IInvInit, IInvStep, SignalStep, PTL DEF Spec

(* When moreover no VM path begins another program's path, a signal only   *)
(* reaches the VM the command was given.                                   *)
THEOREM SignalsReachOwnVm ==
  ASSUME ~InstantReuse, \A pair \in Covers : pair[1] = pair[2]
  PROVE  Spec => []SignalsOwnVm
<1>1. SignalTargets => SignalsOwnVm
  BY DEF SignalTargets, SignalsOwnVm
<1>2. QED
  BY <1>1, SignalSafety, PTL

-----------------------------------------------------------------------------
(***************************************************************************)
(* What the controller guarantees when the commands on one VM do not       *)
(* overlap, are not interrupted, do not use --background, and nothing else *)
(* starts the VM: no process is lost, no VM runs twice, and no record of a *)
(* running VM is dropped.  The one exception is a process whose start      *)
(* could not write its record: it stays in unrecorded while it lives.      *)
(***************************************************************************)

Orderly == /\ Exclusive /\ ~Interrupts /\ ~Background
           /\ Outside = {}

(* Only one command works on a VM, and nothing waits in LaunchServices. *)
OneCommand ==
  /\ \A c, d \in Invocations : c # d /\ pc[c] # "idle" /\ pc[d] # "idle" => vm(c) # vm(d)
  /\ opened = {}
  /\ \A c \in Invocations : pc[c] # "find"

(* A process that its start could not record, and no record names.         *)
Stray(c, p) == p \in unrecorded /\ rec[vm(c)] # p

(* What a command knows of its VM at the steps that change the record. *)
Knows(c) ==
  /\ pc[c] \in {"spawn", "unlink"} => \A p \in Pids : Alive(p, vm(c)) => Stray(c, p)
  /\ pc[c] \in {"launchObserve", "forgetObserve"} => held[c] = rec[vm(c)]
  /\ pc[c] \in {"grace", "write", "replace"} =>
       \A p \in Pids : Alive(p, vm(c)) => p = child[c] \/ Stray(c, p)
  /\ pc[c] \in {"write", "replace"} => held[c] = child[c]
  /\ pc[c] = "replace" => tmp[vm(c)] = child[c]

TrackInv == IInv /\ OneCommand /\ NoneLost /\ \A c \in Invocations : Knows(c)

-----------------------------------------------------------------------------
(* Deaths, reaping and the births of other programs add no VM process, and *)
(* leave what is known of those that live.                                 *)
Lasts(p, v) == Alive(p, v)' => Alive(p, v) /\ (p \in unrecorded => p \in unrecorded')
NoVmBorn == \A p \in Pids, v \in VMs : Lasts(p, v)

LEMMA ReapedNoVmBorn ==
  ASSUME TypeOK, NEW dead, Reaped(dead) PROVE NoVmBorn
BY DEF TypeOK, Reaped, Cleared, NoVmBorn, Lasts, Alive

LEMMA DiesNoVmBorn ==
  ASSUME TypeOK, NEW p, Dies(p) PROVE NoVmBorn
BY DEF TypeOK, Dies, Reaped, Cleared, NoVmBorn, Lasts, Alive

LEMMA OtherNoVmBorn ==
  ASSUME TypeOK, NEW p \in Pids, NEW v \in Others, Born(p, v) PROVE NoVmBorn
BY IdentityAssumption DEF TypeOK, Born, NoVmBorn, Lasts, Alive

(* A step that touches neither the VM's record files nor the command, and  *)
(* adds no VM process, keeps all that a command knows.                     *)
LEMMA KnowsStable ==
  ASSUME IInv, NEW c \in Invocations, Knows(c), NoVmBorn,
         UNCHANGED <<pc[c], arg[c], held[c], child[c], rec[vm(c)], tmp[vm(c)]>>
  PROVE  Knows(c)'
BY DEF IInv, TypeOK, Knows, Stray, NoVmBorn, Lasts, Alive, vm, Options

LEMMA NoneLostStable ==
  ASSUME IInv, NoneLost, NoVmBorn, UNCHANGED rec,
         \A c \in Invocations, p \in Pids :
           Launching(c, p) => Launching(c, p)' /\ UNCHANGED arg[c]
  PROVE  NoneLost'
BY DEF NoneLost, NoVmBorn, Lasts, vm

(* The VM that a command works on is not being launched by another one. *)
LEMMA NotLaunchedTwice ==
  ASSUME TrackInv, NEW c \in Invocations, pc[c] # "idle",
         NEW p \in Pids, Alive(p, vm(c))
  PROVE  rec[vm(c)] = p \/ Launching(c, p) \/ p \in unrecorded
BY DEF TrackInv, IInv, TypeOK, Options, OneCommand, NoneLost, Launching, vm

-----------------------------------------------------------------------------
(* A step of the command d, which works on v: everybody else's state, and  *)
(* the records and processes of the other VMs, stay as they are.           *)
LocalStep(d, v) ==
  /\ pc[d] # "idle" /\ v = vm(d)
  /\ \A c \in Invocations \ {d} : UNCHANGED <<pc[c], arg[c], held[c], child[c]>>
  /\ \A w \in VMs \ {v} : /\ UNCHANGED <<rec[w], tmp[w]>>
                          /\ \A p \in Pids : Lasts(p, w)
  /\ UNCHANGED opened
  /\ pc[d]' # "find" /\ (pc[d]' = "idle" \/ UNCHANGED arg[d])

(* The processes of v that are left are recorded, or being launched, or    *)
(* cannot be recorded.                                                     *)
OwnKept(d, v) ==
  \A p \in Pids : Alive(p, v)' => \/ (rec[v] = p \/ p \in unrecorded)'
                                  \/ Launching(d, p)' /\ UNCHANGED arg[d]

LEMMA LocalStepTrack ==
  ASSUME TrackInv, IInv', NEW d \in Invocations, NEW v \in VMs,
         LocalStep(d, v), OwnKept(d, v), Knows(d)'
  PROVE  TrackInv'
<1> USE DEF TrackInv, IInv, TypeOK, Options
<1>1. OneCommand'
  <2>1. \A c \in Invocations : pc[c]' # "idle" => pc[c] # "idle" /\ vm(c)' = vm(c)
    BY DEF LocalStep, vm
  <2>2. opened' = {} /\ \A c \in Invocations : pc[c]' # "find"
    BY DEF OneCommand, LocalStep
  <2>3. QED
    BY <2>1, <2>2 DEF OneCommand
<1>2. ASSUME NEW c \in Invocations
      PROVE  Knows(c)'
  <2>1. CASE c = d
    BY <2>1
  <2>2. CASE c # d /\ pc[c] = "idle"
    BY <2>2 DEF LocalStep, Knows
  <2>3. CASE c # d /\ pc[c] # "idle"
    <3>1. vm(c) \in VMs \ {v}
      BY <2>3 DEF OneCommand, LocalStep, vm
    <3>2. vm(c)' = vm(c)
      BY <2>3 DEF LocalStep, vm
    <3>3. UNCHANGED <<pc[c], held[c], child[c], rec[vm(c)], tmp[vm(c)]>>
      BY <2>3, <3>1 DEF LocalStep, vm
    <3>4. \A p \in Pids : Lasts(p, vm(c))
      BY <3>1 DEF LocalStep
    <3>5. QED
      BY <3>1, <3>2, <3>3, <3>4 DEF Knows, Stray, Lasts, Alive
  <2>4. QED
    BY <2>1, <2>2, <2>3
<1>3. NoneLost'
  <2> SUFFICES ASSUME NEW p \in Pids, NEW w \in VMs, Alive(p, w)'
               PROVE  \/ (rec[w] = p \/ p \in unrecorded)'
                      \/ \E c \in Invocations : (vm(c) = w /\ Launching(c, p))'
    BY DEF NoneLost
  <2>1. CASE w = v
    BY <2>1 DEF OwnKept, LocalStep, vm
  <2>2. CASE w # v
    <3>1. Alive(p, w) /\ UNCHANGED rec[w] /\ (p \in unrecorded => p \in unrecorded')
      BY <2>2 DEF LocalStep, Lasts
    <3>2. CASE rec[w] = p \/ p \in unrecorded
      BY <3>1, <3>2
    <3>3. CASE \E c \in Invocations : vm(c) = w /\ Launching(c, p)
      BY <2>2, <3>3 DEF LocalStep, Launching, vm
    <3>4. QED
      BY <3>1, <3>2, <3>3 DEF NoneLost
  <2>3. QED
    BY <2>1, <2>2
<1>4. QED
  BY <1>1, <1>2, <1>3

(* Steps that only move the command on: no process, record or child of it  *)
(* changes, and it is not launching.                                       *)
LEMMA MoveTrack ==
  ASSUME TrackInv, IInv', NEW d \in Invocations, NoVmBorn,
         UNCHANGED <<rec, tmp, opened, arg, child>>,
         \A c \in Invocations \ {d} : UNCHANGED <<pc[c], held[c]>>,
         pc[d] \notin {"idle", "grace", "write", "replace"},
         pc[d]' \notin {"find", "idle"}, Knows(d)'
  PROVE  TrackInv'
<1> USE DEF TrackInv, IInv, TypeOK, Options
<1>0. PICK v \in VMs : v = vm(d)
  BY DEF vm
<1>1. LocalStep(d, v)
  BY <1>0 DEF LocalStep, NoVmBorn
<1>2. OwnKept(d, v)
  <2> SUFFICES ASSUME NEW p \in Pids, Alive(p, v)'
               PROVE  rec'[v] = p \/ p \in unrecorded'
    BY DEF OwnKept
  <2>1. Alive(p, v) /\ (p \in unrecorded => p \in unrecorded')
    BY DEF NoVmBorn, Lasts
  <2>2. rec[vm(d)] = p \/ Launching(d, p) \/ p \in unrecorded
    BY <1>0, <2>1, NotLaunchedTwice
  <2>3. QED
    BY <1>0, <2>1, <2>2 DEF Launching
<1>3. QED
  BY <1>1, <1>2, LocalStepTrack

-----------------------------------------------------------------------------
LEMMA StopStepTrack ==
  ASSUME TrackInv, NEW d \in Invocations, StopStep(d)
  PROVE  TrackInv'
<1> USE DEF IInv, TypeOK
<1>1. IInv'
  BY StopStepInd DEF TrackInv
<1>2. IInv
  BY DEF TrackInv
<1>3. NoVmBorn
  <2>1. CASE Kill(d)
    BY <1>2, <2>1, DiesNoVmBorn DEF Kill, osVars, NoVmBorn, Lasts, Alive
  <2>2. CASE ~Kill(d)
    BY <2>2 DEF StopStep, RestartObserve, StopObserve, Term, AwaitGone, AwaitDeadline,
                Recheck, AwaitKillDeadline, osVars, NoVmBorn, Lasts, Alive
  <2>3. QED
    BY <2>1, <2>2
<1>4. /\ UNCHANGED <<rec, tmp, opened, arg, held, child>>
      /\ \A c \in Invocations \ {d} : UNCHANGED pc[c]
      /\ pc[d] \in {"restartObserve", "stopObserve", "term", "await", "recheck", "kill",
                    "awaitKill"}
      /\ pc[d]' \in {"stopObserve", "term", "await", "recheck", "kill", "awaitKill",
                     "launchLoad", "ok", "error"}
  BY <1>2 DEF StopStep, RestartObserve, StopObserve, Term, AwaitGone, AwaitDeadline,
              Recheck, Kill, AwaitKillDeadline, osVars, Goto, Stopped
<1>5. Knows(d)'
  BY <1>4 DEF Knows
<1>6. QED
  BY <1>1, <1>3, <1>4, <1>5, MoveTrack

(* The steps of launch that lead up to Popen read the record of a VM that  *)
(* nobody else is launching; a failing Popen changes nothing.              *)
LEMMA LaunchCheckTrack ==
  ASSUME TrackInv, NEW d \in Invocations, LaunchLoad(d) \/ LaunchObserve(d) \/ SpawnFails(d)
  PROVE  TrackInv'
<1> USE DEF IInv, TypeOK
<1>0. IInv /\ vm(d) \in VMs
  BY DEF TrackInv, vm, Options
<1>1. IInv'
  BY <1>0, LaunchStepInd DEF LaunchStep
<1>2. NoVmBorn /\ UNCHANGED <<life, vmOf, unrecorded, rec>> /\ vm(d)' = vm(d)
  BY DEF LaunchLoad, LaunchObserve, SpawnFails, osVars, NoVmBorn, Lasts, Alive, vm
<1>3. Knows(d)'
  <2>0. ASSUME pc[d]' = "spawn", \A p \in Pids : Alive(p, vm(d)) => Stray(d, p)
        PROVE  Knows(d)'
    BY <1>2, <2>0 DEF Knows, Stray, Alive, vm
  <2>1. CASE LaunchLoad(d)
    <3>1. \A p \in Pids : Alive(p, vm(d)) => rec[vm(d)] = p \/ p \in unrecorded
      BY <1>0, <2>1, NotLaunchedTwice DEF LaunchLoad, Goto, Launching
    <3>2. CASE rec[vm(d)] = None
      <4>1. \A p \in Pids : Alive(p, vm(d)) => Stray(d, p)
        BY <3>1, <3>2, IdentityAssumption DEF Stray
      <4> QED
        BY <1>0, <2>0, <2>1, <3>2, <4>1 DEF LaunchLoad, Goto
    <3>3. CASE rec[vm(d)] # None
      BY <1>0, <1>2, <2>1, <3>3 DEF LaunchLoad, Goto, Hold, Knows, vm
    <3>4. QED
      BY <3>2, <3>3
  <2>2. CASE LaunchObserve(d)
    <3>1. \A p \in Pids : Alive(p, vm(d)) => held[d] = p \/ p \in unrecorded
      BY <1>0, <2>2, NotLaunchedTwice
      DEF LaunchObserve, Goto, Launching, TrackInv, Knows
    <3>2. ~Present(held[d]) => \A p \in Pids : Alive(p, vm(d)) => Stray(d, p)
      BY <2>2, <3>1 DEF Present, Alive, Stray, LaunchObserve, Goto, TrackInv, Knows
    <3>3. CASE Present(held[d])
      BY <1>0, <2>2, <3>3 DEF LaunchObserve, Goto, Knows
    <3>4. CASE ~Present(held[d])
      BY <1>0, <2>0, <2>2, <3>2, <3>4 DEF LaunchObserve, Goto
    <3>5. QED
      BY <3>3, <3>4
  <2>3. CASE SpawnFails(d)
    BY <1>0, <2>3 DEF SpawnFails, Goto, Knows
  <2>4. QED
    BY <2>1, <2>2, <2>3
<1>4. QED
  BY <1>0, <1>1, <1>2, <1>3, MoveTrack DEF LaunchLoad, LaunchObserve, SpawnFails, Goto, Hold

LEMMA SpawnTrack ==
  ASSUME TrackInv, NEW d \in Invocations, Spawn(d)
  PROVE  TrackInv'
<1> USE DEF IInv, TypeOK
<1>0. IInv
  BY DEF TrackInv
<1>1. PICK v \in VMs : v = vm(d)
  BY <1>0 DEF vm, Options
<1>2. PICK p \in Pids : Born(p, v) /\ child' = [child EXCEPT ![d] = p]
  BY <1>1 DEF Spawn
<1>3. IInv'
  BY <1>0, LaunchStepInd DEF LaunchStep
<1>4. /\ \A q \in Pids, w \in VMs : Alive(q, w)' => Alive(q, w) \/ (q = p /\ w = v)
      /\ UNCHANGED <<unrecorded, rec>>
  BY <1>0, <1>2 DEF Spawn, Born, Alive
<1>5. \A q \in Pids : Alive(q, v)' => q = p \/ (q \in unrecorded /\ rec[v] # q)
  BY <1>1, <1>4 DEF Spawn, Goto, TrackInv, Knows, Stray
<1>6. pc[d] = "spawn" /\ pc[d]' = "grace" /\ child[d]' = p /\ UNCHANGED arg[d]
  BY <1>0, <1>2 DEF Spawn, Goto
<1>7. LocalStep(d, v)
  BY <1>0, <1>1, <1>2, <1>4, <1>6 DEF Spawn, Goto, LocalStep, Lasts
<1>8. OwnKept(d, v)
  BY <1>4, <1>5, <1>6 DEF OwnKept, Launching
<1>9. Knows(d)'
  BY <1>1, <1>4, <1>5, <1>6 DEF Knows, Stray, vm
<1>10. QED
  BY <1>3, <1>7, <1>8, <1>9, LocalStepTrack

LEMMA GraceTrack ==
  ASSUME TrackInv, NEW d \in Invocations, Grace(d)
  PROVE  TrackInv'
<1> USE DEF IInv, TypeOK
<1>0. IInv
  BY DEF TrackInv
<1>1. PICK v \in VMs : v = vm(d)
  BY <1>0 DEF vm, Options
<1>2. IInv'
  BY <1>0, LaunchStepInd DEF LaunchStep
<1>3. NoVmBorn
  BY <1>0, ReapedNoVmBorn DEF Grace
<1>4. \A p \in Pids : Alive(p, v) => p = child[d] \/ (p \in unrecorded /\ rec[v] # p)
  BY <1>1 DEF Grace, Goto, TrackInv, Knows, Stray
<1>5. child[d] \in Pids
  BY <1>0 DEF Grace, Goto, HoldsPid
<1>6. LocalStep(d, v)
  BY <1>0, <1>1, <1>3 DEF Grace, Goto, Hold, LocalStep, NoVmBorn
<1>7. CASE life[child[d]] = "alive"
  <2>1. pc[d]' = "write" /\ child[d]' = child[d] /\ held[d]' = child[d] /\ UNCHANGED arg
    BY <1>0, <1>7 DEF Grace, Goto, Hold
  <2>2. \A p \in Pids : Alive(p, v)' => p = child[d] \/ (p \in unrecorded' /\ rec'[v] # p)
    BY <1>1, <1>3, <1>4 DEF NoVmBorn, Lasts, Grace
  <2>3. OwnKept(d, v)
    BY <2>1, <2>2 DEF OwnKept, Launching
  <2>4. Knows(d)'
    BY <1>1, <2>1, <2>2 DEF Knows, Stray, vm
  <2>5. QED
    BY <1>2, <1>6, <2>3, <2>4, LocalStepTrack
<1>8. CASE life[child[d]] # "alive"
  <2>1. \A p \in Pids : Alive(p, v) => p \in unrecorded
    BY <1>4, <1>8 DEF Alive
  <2>2. OwnKept(d, v)
    BY <1>1, <1>3, <2>1 DEF OwnKept, NoVmBorn, Lasts
  <2>3. Knows(d)'
    BY <1>0, <1>8 DEF Knows, Grace, Goto
  <2>4. QED
    BY <1>2, <1>6, <2>2, <2>3, LocalStepTrack
<1>9. QED
  BY <1>7, <1>8

(* Writing the .tmp file and renaming it over the record.                  *)
LEMMA RecordTrack ==
  ASSUME TrackInv, NEW d \in Invocations,
         Write(d) \/ WriteFails(d) \/ Replace(d) \/ ReplaceFails(d)
  PROVE  TrackInv'
<1> USE DEF IInv, TypeOK
<1>0. IInv
  BY DEF TrackInv
<1>1. PICK v \in VMs : v = vm(d)
  BY <1>0 DEF vm, Options
<1>2. IInv'
  BY <1>0, LaunchStepInd DEF LaunchStep
<1>3. /\ UNCHANGED <<life, vmOf, arg, child, held, opened>>
      /\ unrecorded \subseteq unrecorded'
  BY DEF Write, WriteFails, Replace, ReplaceFails, WithoutRecord, osVars
<1>4. \A p \in Pids : Alive(p, v) => p = child[d] \/ (p \in unrecorded /\ rec[v] # p)
  BY <1>1 DEF Write, WriteFails, Replace, ReplaceFails, Goto, TrackInv, Knows, Stray
<1>5. \A p \in Pids, w \in VMs : Alive(p, w)' => Alive(p, w)
  BY <1>3 DEF Alive
<1>6. held[d] = child[d] /\ held[d] \in Pids
  BY <1>0
  DEF Write, WriteFails, Replace, ReplaceFails, Goto, TrackInv, Knows, HoldsPid, Observing
<1>7. LocalStep(d, v)
  <2>1. \A w \in VMs \ {v} : UNCHANGED <<rec[w], tmp[w]>>
    BY <1>0, <1>1 DEF Write, WriteFails, Replace, ReplaceFails
  <2>2. /\ pc[d] # "idle" /\ pc[d]' \notin {"find", "idle"}
        /\ \A c \in Invocations \ {d} : UNCHANGED pc[c]
    BY <1>0 DEF Write, WriteFails, Replace, ReplaceFails, Goto
  <2>3. \A w \in VMs, p \in Pids : Lasts(p, w)
    BY <1>3, <1>5 DEF Lasts
  <2> QED
    BY <1>1, <1>3, <2>1, <2>2, <2>3 DEF LocalStep
<1>8. CASE Write(d)
  <2>1. pc[d]' = "replace" /\ tmp'[v] = held[d] /\ UNCHANGED <<rec, unrecorded>>
    BY <1>0, <1>1, <1>8 DEF Write, Goto, osVars
  <2>2. OwnKept(d, v)
    BY <1>3, <1>4, <1>5, <2>1 DEF OwnKept, Launching
  <2>3. Knows(d)'
    BY <1>1, <1>3, <1>4, <1>5, <1>6, <2>1 DEF Knows, Stray, vm
  <2>4. QED
    BY <1>2, <1>7, <2>2, <2>3, LocalStepTrack
<1>9. CASE Replace(d)
  <2>1. tmp[v] = child[d]
    BY <1>1, <1>9 DEF Replace, Goto, TrackInv, Knows
  <2>2. pc[d]' = "confirm" /\ rec'[v] = child[d]
    BY <1>0, <1>1, <1>9, <2>1 DEF Replace, Goto
  <2>3. OwnKept(d, v)
    BY <1>3, <1>4, <1>5, <2>2 DEF OwnKept
  <2>4. Knows(d)'
    BY <2>2 DEF Knows
  <2>5. QED
    BY <1>2, <1>7, <2>3, <2>4, LocalStepTrack
<1>10. CASE WriteFails(d) \/ ReplaceFails(d)
  <2>1. pc[d]' = "error" /\ UNCHANGED rec
    BY <1>0, <1>10 DEF WriteFails, ReplaceFails, Goto
  <2>2. Alive(child[d], v) => child[d] \in unrecorded'
    BY <1>1, <1>6, <1>10 DEF WriteFails, ReplaceFails, WithoutRecord
  <2>3. OwnKept(d, v)
    BY <1>3, <1>4, <1>5, <2>2 DEF OwnKept
  <2>4. Knows(d)'
    BY <2>1 DEF Knows
  <2>5. QED
    BY <1>2, <1>7, <2>3, <2>4, LocalStepTrack
<1>11. QED
  BY <1>8, <1>9, <1>10

LEMMA UnlinkTrack ==
  ASSUME TrackInv, NEW d \in Invocations, Unlink(d)
  PROVE  TrackInv'
<1> USE DEF IInv, TypeOK
<1>0. IInv
  BY DEF TrackInv
<1>1. PICK v \in VMs : v = vm(d)
  BY <1>0 DEF vm, Options
<1>2. IInv'
  BY <1>0, OtherStepInd
<1>3. \A p \in Pids : Alive(p, v)' => p \in unrecorded'
  BY <1>1 DEF Unlink, Goto, TrackInv, Knows, Stray, osVars, Alive
<1>4. LocalStep(d, v)
  BY <1>0, <1>1 DEF Unlink, Goto, osVars, LocalStep, Lasts, Alive
<1>5. OwnKept(d, v) /\ Knows(d)'
  BY <1>0, <1>3 DEF OwnKept, Knows, Unlink, Goto
<1>6. QED
  BY <1>2, <1>4, <1>5, LocalStepTrack

LEMMA ReturnTrack ==
  ASSUME TrackInv, NEW d \in Invocations, Return(d)
  PROVE  TrackInv'
<1> USE DEF IInv, TypeOK
<1>0. IInv
  BY DEF TrackInv
<1>1. PICK v \in VMs : v = vm(d)
  BY <1>0 DEF vm, Options
<1>2. IInv'
  BY <1>0, LeaveInd DEF Return
<1>3. NoVmBorn
  BY <1>0, ReapedNoVmBorn DEF Return, Leave
<1>4. LocalStep(d, v)
  BY <1>0, <1>1, <1>3 DEF Return, Leave, LocalStep, NoVmBorn
<1>5. \A p \in Pids : Alive(p, v) => rec[v] = p \/ p \in unrecorded
  BY <1>0, <1>1, NotLaunchedTwice DEF Return, Launching
<1>6. OwnKept(d, v) /\ Knows(d)'
  BY <1>0, <1>1, <1>3, <1>5 DEF OwnKept, Knows, Return, Leave, NoVmBorn, Lasts
<1>7. QED
  BY <1>2, <1>4, <1>6, LocalStepTrack

(* The remaining steps only move the command on. *)
LEMMA MoveOnTrack ==
  ASSUME TrackInv, NEW d \in Invocations,
         \/ Load(d) \/ Confirm(d) \/ PortReady(d) \/ PortDeadline(d)
         \/ WaitPoll(d) \/ WaitDeadline(d) \/ ForgetObserve(d) \/ UnlinkFails(d)
  PROVE  TrackInv'
<1> USE DEF IInv, TypeOK
<1>0. IInv /\ vm(d) \in VMs
  BY DEF TrackInv, vm, Options
<1>1. IInv'
  BY <1>0, LaunchStepInd, OtherStepInd DEF LaunchStep
<1>2. /\ NoVmBorn
      /\ UNCHANGED <<life, vmOf, unrecorded, rec, tmp, opened, arg, child>>
      /\ \A c \in Invocations \ {d} : UNCHANGED <<pc[c], held[c]>>
      /\ pc[d] \notin {"idle", "grace", "write", "replace"}
  BY <1>0 DEF Load, Confirm, PortReady, PortDeadline, WaitPoll, WaitDeadline,
              ForgetObserve, UnlinkFails, Goto, Hold, osVars, NoVmBorn, Lasts, Alive
<1>3. CASE Load(d)
  <2>1. arg[d].act \in Actions \ {"start"}
    BY <1>0, <1>3 DEF Load, Goto, HoldsPid, Options
  <2>2. AfterLoad[arg[d].act] \in {"restartObserve", "stopObserve", "waitLoop", "forgetObserve"}
    BY <2>1 DEF AfterLoad, Actions
  <2>3. /\ pc[d]' \in {"restartObserve", "stopObserve", "waitLoop", "forgetObserve",
                        "launchLoad", "error"}
        /\ held[d]' = rec[vm(d)] /\ vm(d)' = vm(d) /\ UNCHANGED rec
    BY <1>0, <1>3, <2>2 DEF Load, Goto, Hold, vm
  <2>4. Knows(d)'
    BY <2>3 DEF Knows
  <2>5. QED
    BY <1>1, <1>2, <2>3, <2>4, MoveTrack
<1>4. CASE ForgetObserve(d)
  <2>0. held[d] = rec[vm(d)]
    BY <1>4 DEF ForgetObserve, Goto, TrackInv, Knows
  <2>1. \A p \in Pids : Alive(p, vm(d)) => held[d] = p \/ p \in unrecorded
    BY <1>0, <1>4, <2>0, NotLaunchedTwice DEF ForgetObserve, Goto, Launching
  <2>2. ~Verified(held[d], vm(d)) => \A p \in Pids : Alive(p, vm(d)) => Stray(d, p)
    BY <1>0, <2>0, <2>1, CoversAssumption DEF Verified, Alive, Stray
  <2>3. Knows(d)'
    BY <1>0, <1>2, <1>4, <2>2 DEF ForgetObserve, Goto, Knows, Stray, Alive, vm
  <2>4. pc[d]' \notin {"find", "idle"}
    BY <1>0, <1>4 DEF ForgetObserve, Goto
  <2>5. QED
    BY <1>1, <1>2, <2>3, <2>4, MoveTrack
<1>5. CASE \/ Confirm(d) \/ PortReady(d) \/ PortDeadline(d)
           \/ WaitPoll(d) \/ WaitDeadline(d) \/ UnlinkFails(d)
  <2>1. pc[d]' \in {"port", "ok", "error"}
    BY <1>0, <1>5
    DEF Confirm, PortReady, PortDeadline, WaitPoll, WaitDeadline, UnlinkFails, Goto
  <2>2. Knows(d)'
    BY <2>1 DEF Knows
  <2>3. QED
    BY <1>1, <1>2, <2>1, <2>2, MoveTrack
<1>6. QED
  BY <1>3, <1>4, <1>5

LEMMA StepTrack ==
  ASSUME Orderly, TrackInv, NEW d \in Invocations, Step(d)
  PROVE  TrackInv'
<1>1. CASE LaunchStep(d)
  <2>1. ~SpawnBackground(d)
    BY DEF SpawnBackground, Orderly
  <2>2. ~Find(d) /\ ~FindDeadline(d)
    BY DEF Find, FindDeadline, Goto, TrackInv, OneCommand
  <2>3. QED
    BY <1>1, <2>1, <2>2, LaunchCheckTrack, SpawnTrack, GraceTrack, RecordTrack, MoveOnTrack
    DEF LaunchStep
<1>2. QED
  BY <1>1, StopStepTrack, MoveOnTrack, UnlinkTrack, ReturnTrack DEF Step

LEMMA BeginTrack ==
  ASSUME Orderly, TrackInv, NEW d \in Invocations, Begin(d)
  PROVE  TrackInv'
<1> USE DEF IInv, TypeOK
<1>0. IInv
  BY DEF TrackInv
<1>1. PICK o \in Options : /\ \A c \in Invocations : pc[c] # "idle" => vm(c) # o.vm
                           /\ arg' = [arg EXCEPT ![d] = o]
  BY DEF Begin, Orderly
<1>2. IInv'
  BY <1>0, IInvStep DEF Next
<1>3. /\ UNCHANGED <<life, vmOf, unrecorded, rec, tmp, opened, held, child>>
      /\ pc[d] = "idle" /\ pc[d]' \in {"launchLoad", "load"}
      /\ \A c \in Invocations \ {d} : UNCHANGED <<pc[c], arg[c], vm(c)>>
  BY <1>0, <1>1 DEF Begin, Goto, osVars, vm
<1>4. vm(d)' = o.vm
  BY <1>0, <1>1 DEF vm
<1>5. OneCommand'
  BY <1>1, <1>3, <1>4 DEF TrackInv, OneCommand
<1>6. NoVmBorn
  BY <1>3 DEF NoVmBorn, Lasts, Alive
<1>7. NoneLost'
  BY <1>0, <1>3, <1>6, NoneLostStable DEF TrackInv, Launching
<1>8. \A c \in Invocations : Knows(c)'
  <2>1. ASSUME NEW c \in Invocations, c # d
        PROVE  Knows(c)'
    BY <1>0, <1>3, <1>6, <2>1, KnowsStable DEF TrackInv, vm
  <2>2. Knows(d)'
    BY <1>3 DEF Knows
  <2>3. QED
    BY <2>1, <2>2
<1>9. QED
  BY <1>2, <1>5, <1>7, <1>8 DEF TrackInv

LEMMA EnvironmentTrack ==
  ASSUME Orderly, TrackInv, Environment
  PROVE  TrackInv'
<1>0. IInv /\ IInv'
  BY EnvironmentInd DEF TrackInv
<1>1. NoVmBorn /\ UNCHANGED <<rec, tmp, opened, pc, arg, held, child>>
  <2>1. \A v \in VMs : ~LaunchServices(v)
    BY DEF LaunchServices, TrackInv, OneCommand
  <2>2. ASSUME NEW p \in Pids, OtherStart(p)
        PROVE  NoVmBorn /\ UNCHANGED <<rec, tmp, opened, pc, arg, held, child>>
    BY <1>0, <2>2, OtherNoVmBorn DEF OtherStart, Orderly, IInv, ctlVars
  <2>3. ASSUME NEW p \in Pids, Quit(p)
        PROVE  NoVmBorn /\ UNCHANGED <<rec, tmp, opened, pc, arg, held, child>>
    BY <1>0, <2>3, DiesNoVmBorn DEF Quit, IInv, ctlVars
  <2>4. QED
    BY <2>1, <2>2, <2>3 DEF Environment
<1>2. OneCommand'
  BY <1>1 DEF TrackInv, OneCommand, vm
<1>3. NoneLost'
  BY <1>0, <1>1, NoneLostStable DEF TrackInv, Launching
<1>4. \A c \in Invocations : Knows(c)'
  BY <1>0, <1>1, KnowsStable DEF TrackInv, vm
<1>5. QED
  BY <1>0, <1>2, <1>3, <1>4 DEF TrackInv

LEMMA TrackStep == Orderly => (TrackInv /\ [Next]_vars => TrackInv')
<1> SUFFICES ASSUME Orderly, TrackInv, [Next]_vars
             PROVE  TrackInv'
  OBVIOUS
<1>1. CASE Next
  BY <1>1, BeginTrack, StepTrack, EnvironmentTrack DEF Next, Interrupt, Orderly
<1>2. CASE UNCHANGED vars
  BY <1>2 DEF vars, TrackInv, IInv, TypeOK, HoldsPid, OneCommand, NoneLost, Knows, Stray,
              Alive, Launching, vm
<1>3. QED
  BY <1>1, <1>2

LEMMA TrackInit == Init => TrackInv
<1> SUFFICES ASSUME Init
             PROVE  OneCommand /\ NoneLost /\ \A c \in Invocations : Knows(c)
  BY IInvInit DEF TrackInv
<1>1. QED
  BY DEF Init, OneCommand, NoneLost, Knows, Alive

-----------------------------------------------------------------------------
(* No VM process is lost: as long as commands are orderly, each one is     *)
(* named by its record or about to be recorded by the start that made it,  *)
(* unless that start has reported that it could not write the record.      *)
THEOREM NoProcessLost ==
  ASSUME Orderly
  PROVE  Spec => []NoneLost
<1>1. TrackInv => NoneLost
  BY DEF TrackInv
<1>2. QED
  BY <1>1, TrackInit, TrackStep, PTL DEF Spec

(* start and restart never open a VM directory a second time, except that  *)
(* they cannot see a process whose own start could not write its record.   *)
THEOREM OneProcessPerVm ==
  ASSUME Orderly
  PROVE  Spec => []OnePerVm
<1>1. TrackInv => OnePerVm
  <2> SUFFICES ASSUME TrackInv, NEW p \in Pids, NEW q \in Pids, NEW v \in VMs,
                      p \notin unrecorded, q \notin unrecorded, Alive(p, v), Alive(q, v)
               PROVE  p = q
    BY DEF OnePerVm
  <2>1. CASE rec[v] = p /\ rec[v] = q
    BY <2>1
  <2>2. ASSUME NEW c \in Invocations, vm(c) = v,
               Launching(c, p) \/ Launching(c, q)
        PROVE  p = q
    BY <2>2 DEF TrackInv, Knows, Stray, Launching
  <2>3. QED
    BY <2>1, <2>2 DEF TrackInv, NoneLost
<1>2. QED
  BY <1>1, TrackInit, TrackStep, PTL DEF Spec

(* forget, start and restart never drop the record of a running process. *)
THEOREM RecordOfLiveKept ==
  ASSUME Orderly
  PROVE  Spec => RecordKeepsLive
<1> DEFINE Keep == \A v \in VMs, p \in Pids : rec[v] = p /\ rec'[v] # p => ~Alive(p, v)
<1>1. TrackInv /\ [Next]_vars => [Keep]_vars
  <2> SUFFICES ASSUME TrackInv, Next, NEW v \in VMs, NEW p \in Pids,
                      rec[v] = p, rec'[v] # p
               PROVE  ~Alive(p, v)
    OBVIOUS
  <2>1. PICK d \in Invocations : Replace(d) \/ Unlink(d)
    BY
    DEF Next, Begin, Step, StopStep, LaunchStep, Interrupt, Environment, Load, RestartObserve,
        StopObserve, Term, AwaitGone, AwaitDeadline, Recheck, Kill, AwaitKillDeadline,
        LaunchLoad, LaunchObserve, Spawn, SpawnFails, SpawnBackground, Grace, Find,
        FindDeadline, Write, WriteFails, ReplaceFails, Confirm, PortReady, PortDeadline, Return,
        Leave, WaitPoll, WaitDeadline, ForgetObserve, UnlinkFails, LaunchServices, OtherStart,
        Quit
  <2>2. v = vm(d)
    BY <2>1 DEF Replace, Unlink, TrackInv, IInv, TypeOK
  <2>3. CASE Replace(d)
    <3>1. rec'[v] = tmp[v]
      BY <2>2, <2>3 DEF Replace, TrackInv, IInv, TypeOK
    <3>2. QED
      BY <2>2, <2>3, <3>1 DEF Replace, Goto, TrackInv, Knows, Stray
  <2>4. CASE Unlink(d)
    BY <2>2, <2>4 DEF Unlink, Goto, TrackInv, Knows, Stray
  <2>5. QED
    BY <2>1, <2>3, <2>4
<1>2. QED
  BY <1>1, TrackInit, TrackStep, PTL DEF Spec, RecordKeepsLive

-----------------------------------------------------------------------------
(***************************************************************************)
(* The smoke test: it signals only the process it has launched, and leaves *)
(* none behind.                                                            *)
(***************************************************************************)
Task(act, kill) == [act |-> act, vm |-> Tested, kill |-> kill]

(* Where the two commands of the smoke test can be. *)
StartSteps == {"launchLoad", "launchObserve", "spawn", "grace", "find", "write", "replace",
               "confirm", "port", "ok", "error"}
StopSteps  == {"load", "stopObserve", "term", "await", "recheck", "kill", "awaitKill", "ok",
               "error"}

TestInv ==
  /\ smoke \in {"idle", "starting", "watching", "cleanup", "stopping", "done"}
  /\ smoke \in {"idle", "watching", "cleanup", "done"} => pc[Tester] = "idle"
  /\ smoke = "starting" => pc[Tester] \in StartSteps /\ arg[Tester] = Task("start", FALSE)
  /\ smoke = "stopping" => pc[Tester] \in StopSteps /\ arg[Tester] = Task("stop", TRUE)
  /\ smoke \in {"watching", "cleanup", "stopping"} => launched
  /\ smoke \in {"idle", "starting"} => ~launched
  /\ preparing \subseteq Invocations
  /\ \A c \in preparing : pc[c] \in {"load", "launchLoad"}
  /\ Tester \in preparing => smoke = "starting"

(* wait touches neither records nor processes. *)
Waiter(c) == arg[c].act = "wait" /\ pc[c] \in {"load", "waitLoop", "ok", "error"}

(* Commands that do not disturb the test: they wait, or work elsewhere.    *)
Aside(c) == pc[c] = "idle" \/ Waiter(c) \/ vm(c) # Tested

(* Undisturbed, the record names the process that start has reported.      *)
Undisturbed ==
  /\ \A c \in Invocations \ {Tester} : Aside(c)
  /\ smoke = "starting" =>
       /\ pc[Tester] = "replace" => tmp[Tested] = held[Tester]
       /\ pc[Tester] \in {"confirm", "port", "ok"} =>
            rec[Tested] = held[Tester] /\ held[Tester] \in Pids
  /\ smoke \in {"watching", "cleanup", "stopping"} => rec[Tested] = pid
  /\ launched => pid \in Pids
  /\ smoke = "stopping" /\ pc[Tester] # "load" => held[Tester] = pid

WaitersInv == \A c \in Invocations :
  arg[c].act = "wait" => pc[c] \in {"load", "waitLoop", "ok", "error"}

OwnInv ==
  /\ IInv /\ TestInv /\ WaitersInv
  /\ smoke # "idle" /\ ~disturbed => Undisturbed

(* What has been killed, or has gone, does not come back. *)
GoneInv ==
  /\ opened = {}
  /\ ~disturbed =>
       /\ smoke = "stopping" /\ pc[Tester] \in {"awaitKill", "ok", "error"} => ~Alive(pid, Tested)
       /\ smoke = "done" /\ launched /\ ~(verified /\ keep) => ~Alive(pid, Tested)

-----------------------------------------------------------------------------
(* What one step of a command does to the others, and where it can lead.   *)
LEMMA StepFrame ==
  ASSUME IInv, NEW c \in Invocations, Step(c), NEW d \in Invocations \ {c}
  PROVE  UNCHANGED <<pc[d], arg[d], held[d]>>
<1> USE DEF IInv, TypeOK, Goto, Hold
<1>1. CASE StopStep(c)
  BY <1>1 DEF StopStep, RestartObserve, StopObserve, Term, AwaitGone, AwaitDeadline, Recheck,
              Kill, AwaitKillDeadline
<1>2. CASE LaunchStep(c)
  BY <1>2
  DEF LaunchStep, LaunchLoad, LaunchObserve, Spawn, SpawnFails, SpawnBackground, Grace, Find,
      FindDeadline, Write, WriteFails, WithoutRecord, Replace, ReplaceFails, Confirm, PortReady,
      PortDeadline
<1>3. CASE Load(c) \/ Return(c)
  BY <1>3 DEF Load, Return, Leave
<1>4. CASE WaitPoll(c) \/ WaitDeadline(c) \/ ForgetObserve(c) \/ Unlink(c) \/ UnlinkFails(c)
  BY <1>4 DEF WaitPoll, WaitDeadline, ForgetObserve, Unlink, UnlinkFails
<1> QED
  BY <1>1, <1>2, <1>3, <1>4 DEF Step

(* A command that is not over keeps its options; one that is over is idle  *)
(* after the next step.                                                    *)
LEMMA StepOptions ==
  ASSUME IInv, NEW c \in Invocations, Step(c)
  PROVE  IF pc[c] \in {"ok", "error"} THEN Leave(c) ELSE UNCHANGED arg
<1> USE DEF IInv, TypeOK, Goto, Hold
<1>1. CASE StopStep(c)
  BY <1>1 DEF StopStep, RestartObserve, StopObserve, Term, AwaitGone, AwaitDeadline, Recheck,
              Kill, AwaitKillDeadline
<1>2. CASE LaunchStep(c)
  BY <1>2
  DEF LaunchStep, LaunchLoad, LaunchObserve, Spawn, SpawnFails, SpawnBackground, Grace, Find,
      FindDeadline, Write, WriteFails, WithoutRecord, Replace, ReplaceFails, Confirm, PortReady,
      PortDeadline
<1>3. CASE Load(c) \/ Return(c)
  BY <1>3 DEF Load, Return
<1>4. CASE WaitPoll(c) \/ WaitDeadline(c) \/ ForgetObserve(c) \/ Unlink(c) \/ UnlinkFails(c)
  BY <1>4 DEF WaitPoll, WaitDeadline, ForgetObserve, Unlink, UnlinkFails
<1> QED
  BY <1>1, <1>2, <1>3, <1>4 DEF Step

(* A waiting command reads, and nothing else. *)
LEMMA WaiterStep ==
  ASSUME IInv, NEW c \in Invocations, Step(c), Waiter(c)
  PROVE  /\ (pc'[c] = "idle" /\ arg'[c].act # "wait") \/ Waiter(c)'
         /\ UNCHANGED <<rec, tmp, opened>>
         /\ pc[c] \notin {"ok", "error"} => UNCHANGED osVars
<1> USE DEF IInv, TypeOK, Goto, Hold, Waiter
<1>1. CASE StopStep(c)
  BY <1>1 DEF StopStep, RestartObserve, StopObserve, Term, AwaitGone, AwaitDeadline, Recheck,
              Kill, AwaitKillDeadline
<1>2. CASE LaunchStep(c)
  BY <1>2
  DEF LaunchStep, LaunchLoad, LaunchObserve, Spawn, SpawnFails, SpawnBackground, Grace, Find,
      FindDeadline, Write, WriteFails, WithoutRecord, Replace, ReplaceFails, Confirm, PortReady,
      PortDeadline
<1>3. CASE Load(c)
  BY <1>3 DEF Load, AfterLoad
<1>4. CASE Return(c)
  BY <1>4 DEF Return, Leave, Defaults
<1>5. CASE WaitPoll(c) \/ WaitDeadline(c)
  BY <1>5 DEF WaitPoll, WaitDeadline
<1>6. CASE ForgetObserve(c) \/ Unlink(c) \/ UnlinkFails(c)
  BY <1>6 DEF ForgetObserve, Unlink, UnlinkFails
<1> QED
  BY <1>1, <1>2, <1>3, <1>4, <1>5, <1>6 DEF Step

(* An idle command takes no step. *)
LEMMA StepNotIdle == \A c \in Invocations : Step(c) => pc[c] # "idle"
  BY
  DEF Step, StopStep, LaunchStep, Load, RestartObserve, StopObserve, Term, AwaitGone,
      AwaitDeadline, Recheck, Kill, AwaitKillDeadline, LaunchLoad, LaunchObserve, Spawn,
      SpawnFails, SpawnBackground, Grace, Find, FindDeadline, Write, WriteFails, WithoutRecord,
      Replace, ReplaceFails, Confirm, PortReady, PortDeadline, WaitPoll, WaitDeadline,
      ForgetObserve, Unlink, UnlinkFails, Goto, Return

(* Nothing but a start by the controller brings the tested VM to life.     *)
Unborn == \A p \in Pids : Alive(p, Tested)' => Alive(p, Tested)

LEMMA BornElsewhere ==
  ASSUME TypeOK, NEW p \in Pids, NEW v, v # Tested, Born(p, v) PROVE Unborn
BY DEF TypeOK, Born, Unborn, Alive

LEMMA LeaveUnborn ==
  ASSUME TypeOK, NEW c, Leave(c) PROVE Unborn
BY SmokeAssumption, ReapedNoVmBorn DEF Leave, NoVmBorn, Lasts, Unborn

(* A command on another VM leaves the tested one and its record alone.     *)
LEMMA ElsewhereStep ==
  ASSUME IInv, NEW c \in Invocations, Step(c), vm(c) # Tested
  PROVE  UNCHANGED <<rec[Tested], tmp[Tested]>> /\ Unborn
<1> USE SmokeAssumption DEF IInv, TypeOK
<1>0. UNCHANGED <<life, vmOf>> => Unborn
  BY DEF Unborn, Alive
<1>1. CASE Kill(c)
  BY <1>0, <1>1, DiesNoVmBorn DEF Kill, NoVmBorn, Lasts, Unborn, osVars
<1>2. CASE StopStep(c) /\ ~Kill(c)
  BY <1>0, <1>2
  DEF StopStep, RestartObserve, StopObserve, Term, AwaitGone, AwaitDeadline, Recheck,
      AwaitKillDeadline, osVars
<1>3. CASE Spawn(c)
  BY <1>3, BornElsewhere DEF Spawn
<1>4. CASE Grace(c)
  BY <1>4, ReapedNoVmBorn DEF Grace, NoVmBorn, Lasts, Unborn
<1>5. CASE LaunchStep(c) /\ ~Spawn(c) /\ ~Grace(c)
  BY <1>0, <1>5
  DEF LaunchStep, LaunchLoad, LaunchObserve, SpawnFails, SpawnBackground, Find, FindDeadline,
      Write, WriteFails, WithoutRecord, Replace, ReplaceFails, Confirm, PortReady, PortDeadline,
      osVars
<1>6. CASE Return(c)
  BY <1>6, LeaveUnborn DEF Return, Leave
<1>7. CASE Load(c) \/ WaitPoll(c) \/ WaitDeadline(c) \/ ForgetObserve(c) \/ Unlink(c) \/ UnlinkFails(c)
  BY <1>0, <1>7 DEF Load, WaitPoll, WaitDeadline, ForgetObserve, Unlink, UnlinkFails, osVars
<1> QED
  BY <1>1, <1>2, <1>3, <1>4, <1>5, <1>6, <1>7 DEF Step

(* A command that works aside goes on so. *)
LEMMA AsideStep ==
  ASSUME IInv, NEW c \in Invocations, Step(c), Aside(c)
  PROVE  Aside(c)' /\ UNCHANGED <<rec[Tested], tmp[Tested]>> /\ Unborn
<1>1. CASE Waiter(c)
  <2>1. Unborn
    <3>1. CASE pc[c] \in {"ok", "error"}
      BY <3>1, StepOptions, LeaveUnborn DEF IInv
    <3>2. CASE pc[c] \notin {"ok", "error"}
      BY <1>1, <3>2, WaiterStep DEF osVars, Unborn, Alive
    <3> QED
      BY <3>1, <3>2
  <2> QED
    BY <1>1, <2>1, WaiterStep DEF Aside
<1>2. CASE vm(c) # Tested
  <2>1. pc'[c] = "idle" \/ vm(c)' = vm(c)
    BY StepOptions DEF Leave, vm, IInv, TypeOK
  <2> QED
    BY <1>2, <2>1, ElsewhereStep DEF Aside
<1> QED
  BY <1>1, <1>2, StepNotIdle DEF Aside

(* start goes through its steps, and what it writes to the record is the   *)
(* PID it holds.                                                           *)
LEMMA StartStep ==
  ASSUME IInv, NEW c \in Invocations, Step(c),
         pc[c] \in StartSteps \ {"ok", "error"}
  PROVE  /\ pc'[c] \in StartSteps
         /\ pc'[c] = "replace" => tmp'[vm(c)] = held'[c]
         /\ pc'[c] \in {"confirm", "port", "ok"} =>
              \/ pc[c] = "replace" /\ rec'[vm(c)] = tmp[vm(c)] /\ held' = held
              \/ pc[c] \in {"confirm", "port"} /\ rec' = rec /\ held' = held
<1> USE DEF IInv, TypeOK, Goto, Hold, StartSteps, vm, Options
<1>1. CASE StopStep(c)
  BY <1>1 DEF StopStep, RestartObserve, StopObserve, Term, AwaitGone, AwaitDeadline, Recheck,
              Kill, AwaitKillDeadline
<1>2. CASE \/ LaunchLoad(c) \/ LaunchObserve(c) \/ Spawn(c) \/ SpawnFails(c)
           \/ SpawnBackground(c) \/ Grace(c) \/ Find(c) \/ FindDeadline(c)
  BY <1>2
  DEF LaunchLoad, LaunchObserve, Spawn, SpawnFails, SpawnBackground, Grace, Find, FindDeadline
<1>3. CASE Write(c) \/ WriteFails(c)
  BY <1>3 DEF Write, WriteFails
<1>4. CASE Replace(c) \/ ReplaceFails(c)
  BY <1>4 DEF Replace, ReplaceFails
<1>5. CASE Confirm(c) \/ PortReady(c) \/ PortDeadline(c)
  BY <1>5 DEF Confirm, PortReady, PortDeadline
<1>6. CASE Load(c) \/ Return(c)
  BY <1>6 DEF Load, Return
<1>7. CASE WaitPoll(c) \/ WaitDeadline(c) \/ ForgetObserve(c) \/ Unlink(c) \/ UnlinkFails(c)
  BY <1>7 DEF WaitPoll, WaitDeadline, ForgetObserve, Unlink, UnlinkFails
<1> QED
  BY <1>1, <1>2, <1>3, <1>4, <1>5, <1>6, <1>7 DEF Step, LaunchStep

(* stop goes through its steps with the PID it has loaded.                 *)
LEMMA StopTaskStep ==
  ASSUME IInv, NEW c \in Invocations, Step(c),
         pc[c] \in StopSteps \ {"ok", "error"}, arg[c] = Task("stop", TRUE)
  PROVE  /\ pc'[c] \in StopSteps \ {"load"}
         /\ held'[c] = IF pc[c] = "load" THEN rec[Tested] ELSE held[c]
         /\ pc[c] = "load" /\ pc'[c] \in {"ok", "error"} => rec[Tested] \notin Pids
         /\ UNCHANGED <<rec, tmp, opened>>
<1> USE DEF IInv, TypeOK, Goto, Hold, StopSteps, vm, Task, Stopped
<1>1. CASE StopStep(c)
  BY <1>1 DEF StopStep, RestartObserve, StopObserve, Term, AwaitGone, AwaitDeadline, Recheck,
              Kill, AwaitKillDeadline
<1>2. CASE LaunchStep(c)
  BY <1>2
  DEF LaunchStep, LaunchLoad, LaunchObserve, Spawn, SpawnFails, SpawnBackground, Grace, Find,
      FindDeadline, Write, WriteFails, WithoutRecord, Replace, ReplaceFails, Confirm, PortReady,
      PortDeadline
<1>3. CASE Load(c)
  BY <1>3, IdentityAssumption DEF Load, AfterLoad
<1>4. CASE Return(c)
  BY <1>4 DEF Return
<1>5. CASE WaitPoll(c) \/ WaitDeadline(c) \/ ForgetObserve(c) \/ Unlink(c) \/ UnlinkFails(c)
  BY <1>5 DEF WaitPoll, WaitDeadline, ForgetObserve, Unlink, UnlinkFails
<1> QED
  BY <1>1, <1>2, <1>3, <1>4, <1>5 DEF Step

-----------------------------------------------------------------------------
(* The smoke test's steps are steps of the controller, or of nothing that  *)
(* the controller knows of, or a preparation that fails.                   *)
LEMMA SmokeIInv == IInv /\ [SmokeNext]_smokeVars => IInv'
<1> SUFFICES ASSUME IInv, [SmokeNext]_smokeVars PROVE IInv'
  OBVIOUS
<1>1. ASSUME NEW c \in Invocations, Prepare(c), pc' = [pc EXCEPT ![c] = "error"] PROVE IInv'
  BY <1>1 DEF Prepare, IInv, TypeOK, HoldsPid, Observing, Steps, osVars
<1>2. ASSUME NEW c \in Invocations, Prepare(c) PROVE IInv'
  <2>1. CASE pc' = [pc EXCEPT ![c] = pc[c]]
    <3> UNCHANGED vars
      BY <1>2, <2>1 DEF Prepare, IInv, TypeOK, osVars, vars
    <3> QED
      BY IInvStep
  <2> QED
    BY <1>1, <1>2, <2>1 DEF Prepare
<1>3. CASE UNCHANGED vars
  BY <1>3, IInvStep
<1>4. ASSUME NEW c \in Invocations, UserBegins(c) \/ Works(c) PROVE IInv'
  BY <1>4, IInvStep DEF UserBegins, Works, Next
<1>5. CASE Launch \/ CleanUp
  BY <1>5, SmokeAssumption, IInvStep DEF Launch, CleanUp, Runs, Next
<1>6. CASE LaunchReturns \/ StopCommandReturns \/ CtrlC
  BY <1>3, <1>6, SmokeAssumption, LeaveInd DEF LaunchReturns, StopCommandReturns, CtrlC, Return
<1>7. CASE Machine
  BY <1>7, IInvStep DEF Machine, Next
<1> QED
  BY <1>2, <1>3, <1>4, <1>5, <1>6, <1>7 DEF SmokeNext, TestStep, Watch, smokeVars

LEMMA SmokeTestInv == IInv /\ TestInv /\ [SmokeNext]_smokeVars => TestInv'
<1> SUFFICES ASSUME IInv, TestInv, [SmokeNext]_smokeVars PROVE TestInv'
  OBVIOUS
<1> USE SmokeAssumption DEF TestInv
<1>1. ASSUME NEW c \in Invocations, UserBegins(c) PROVE TestInv'
  <2>1. /\ \A d \in Invocations \ {c} : UNCHANGED <<pc[d], arg[d]>>
        /\ UNCHANGED <<smoke, launched>> /\ c # Tester
    BY <1>1 DEF UserBegins, Begin, Goto, IInv, TypeOK
  <2>2. \/ preparing' = preparing
        \/ preparing' = preparing \union {c} /\ pc'[c] \in {"load", "launchLoad"}
    BY <1>1 DEF UserBegins, NowPreparing, Prepares, Begin, Goto, IInv, TypeOK
  <2>3. c \notin preparing
    BY <1>1 DEF UserBegins, Begin, Goto
  <2> QED
    BY <2>1, <2>2, <2>3
<1>2. ASSUME NEW c \in Invocations, Prepare(c) PROVE TestInv'
  BY <1>2 DEF Prepare, testVars, IInv, TypeOK, StartSteps
<1>3. ASSUME NEW c \in Invocations, Works(c) PROVE TestInv'
  <2>0. /\ UNCHANGED <<preparing, smoke, launched>> /\ c \notin preparing
        /\ \A d \in Invocations \ {c} : UNCHANGED <<pc[d], arg[d]>>
    BY <1>3, StepFrame DEF Works, testVars
  <2>1. CASE c = Tester
    <3>1. smoke \in {"starting", "stopping"} /\ pc[Tester] \notin {"ok", "error"}
      BY <1>3, <2>1, StepOptions
      DEF Works, Step, StopStep, LaunchStep, Load, RestartObserve, StopObserve, Term, AwaitGone,
          AwaitDeadline, Recheck, Kill, AwaitKillDeadline, LaunchLoad, LaunchObserve, Spawn,
          SpawnFails, SpawnBackground, Grace, Find, FindDeadline, Write, WriteFails,
          WithoutRecord, Replace, ReplaceFails, Confirm, PortReady, PortDeadline, WaitPoll,
          WaitDeadline, ForgetObserve, Unlink, UnlinkFails, Goto, Return
    <3>2. arg' = arg
      BY <1>3, <2>1, <3>1, StepOptions DEF Works
    <3>3. smoke = "starting" => pc'[Tester] \in StartSteps
      BY <1>3, <2>1, <3>1, StartStep DEF Works
    <3>4. smoke = "stopping" => pc'[Tester] \in StopSteps
      BY <1>3, <2>1, <3>1, StopTaskStep DEF Works
    <3>5. \A d \in preparing : pc'[d] = pc[d]
      BY <2>0, <2>1, <1>3 DEF Works, IInv, TypeOK
    <3> QED
      BY <2>0, <3>1, <3>2, <3>3, <3>4, <3>5
  <2>2. CASE c # Tester
    BY <2>0, <2>2
  <2> QED
    BY <2>1, <2>2
<1>4. CASE Launch
  BY <1>4 DEF Launch, Runs, NowPreparing, Prepares, Begin, Goto, IInv, TypeOK, StartSteps, Task
<1>5. CASE LaunchReturns
  BY <1>5 DEF LaunchReturns, Return, Leave, IInv, TypeOK
<1>6. CASE Watch
  BY <1>6 DEF Watch, vars
<1>7. CASE CleanUp
  BY <1>7 DEF CleanUp, Runs, testVars, Begin, Goto, IInv, TypeOK, StopSteps, Task
<1>8. CASE StopCommandReturns
  BY <1>8 DEF StopCommandReturns, Return, Leave, testVars, IInv, TypeOK
<1>9. CASE CtrlC
  BY <1>9 DEF CtrlC, Leave, vars, testVars, IInv, TypeOK
<1>10. CASE Machine
  BY <1>10 DEF Machine, testVars, Environment, LaunchServices, OtherStart, Quit, ctlVars
<1>11. CASE UNCHANGED smokeVars
  BY <1>11 DEF smokeVars, vars, testVars
<1> QED
  BY <1>1, <1>2, <1>3, <1>4, <1>5, <1>6, <1>7, <1>8, <1>9, <1>10, <1>11 DEF SmokeNext, TestStep

LEMMA SmokeWaiters ==
  IInv /\ WaitersInv /\ [SmokeNext]_smokeVars => WaitersInv'
<1> SUFFICES ASSUME IInv, WaitersInv, [SmokeNext]_smokeVars PROVE WaitersInv'
  OBVIOUS
<1> USE SmokeAssumption DEF WaitersInv
<1>1. ASSUME NEW c \in Invocations, Begin(c) PROVE WaitersInv'
  BY <1>1 DEF Begin, Goto, IInv, TypeOK
<1>2. ASSUME NEW c \in Invocations, Prepare(c) PROVE WaitersInv'
  BY <1>2 DEF Prepare, IInv, TypeOK
<1>3. ASSUME NEW c \in Invocations, Leave(c) PROVE WaitersInv'
  BY <1>3 DEF Leave, Defaults, IInv, TypeOK
<1>4. ASSUME NEW c \in Invocations, Works(c) PROVE WaitersInv'
  <2> SUFFICES ASSUME NEW d \in Invocations, arg'[d].act = "wait"
               PROVE  pc'[d] \in {"load", "waitLoop", "ok", "error"}
    OBVIOUS
  <2>1. CASE d # c
    BY <1>4, <2>1, StepFrame DEF Works
  <2>2. CASE d = c /\ pc[c] \in {"ok", "error"}
    BY <1>3, <1>4, <2>2, StepOptions DEF Works
  <2>3. CASE d = c /\ pc[c] \notin {"ok", "error"}
    <3> Waiter(c)
      BY <1>4, <2>3, StepOptions DEF Works, Waiter
    <3> QED
      BY <1>4, <2>3, WaiterStep DEF Works, Waiter
  <2> QED
    BY <2>1, <2>2, <2>3
<1>5. CASE Machine \/ Watch \/ UNCHANGED smokeVars
  BY <1>5
  DEF Machine, Environment, LaunchServices, OtherStart, Quit, ctlVars, Watch, smokeVars, vars
<1>6. CASE LaunchReturns \/ StopCommandReturns
  BY <1>3, <1>6 DEF LaunchReturns, StopCommandReturns, Return
<1>7. CASE CtrlC
  BY <1>3, <1>7 DEF CtrlC, vars
<1> QED
  BY <1>1, <1>2, <1>4, <1>5, <1>6, <1>7
  DEF SmokeNext, TestStep, UserBegins, Launch, CleanUp, Runs

(* While nobody disturbs the test, its record is written by itself only.   *)
LEMMA UndisturbedWorks ==
  ASSUME IInv, TestInv, Undisturbed, NEW c \in Invocations, Works(c)
  PROVE  Undisturbed'
<1> USE SmokeAssumption
<1>0. /\ UNCHANGED <<smoke, pid, launched>> /\ Step(c)
      /\ \A d \in Invocations \ {c} : UNCHANGED <<pc[d], arg[d], held[d]>>
  BY StepFrame DEF Works, testVars
<1>1. CASE c # Tester
  <2>1. Aside(c)' /\ UNCHANGED <<rec[Tested], tmp[Tested]>>
    BY <1>0, <1>1, AsideStep DEF Undisturbed
  <2> QED
    BY <1>0, <1>1, <2>1 DEF Undisturbed, Aside, Waiter, vm
<1>2. CASE c = Tester /\ smoke = "starting"
  <2>1. pc[c] \in StartSteps \ {"ok", "error"} /\ vm(c) = Tested
    BY <1>2 DEF Works, TestInv, Task, vm
  <2>3. pc[c] = "replace" => held[c] \in Pids
    BY DEF IInv, HoldsPid, Observing
  <2> QED
    BY <1>0, <1>2, <2>1, <2>3, StartStep DEF Undisturbed, Aside, Waiter, vm
<1>3. CASE c = Tester /\ smoke = "stopping"
  <2>1. pc[c] \in StopSteps \ {"ok", "error"} /\ arg[c] = Task("stop", TRUE)
    BY <1>3 DEF Works, TestInv
  <2> QED
    BY <1>0, <1>3, <2>1, StopTaskStep DEF Undisturbed, Aside, Waiter, vm
<1> QED
  BY <1>0, <1>1, <1>2, <1>3, StepNotIdle DEF TestInv

LEMMA SmokeOwn == OwnInv /\ [SmokeNext]_smokeVars => OwnInv'
<1> SUFFICES ASSUME OwnInv, [SmokeNext]_smokeVars, smoke' # "idle", ~disturbed'
             PROVE  Undisturbed'
  BY SmokeIInv, SmokeTestInv, SmokeWaiters DEF OwnInv
<1> USE SmokeAssumption
<1> IInv /\ TestInv /\ WaitersInv
  BY DEF OwnInv
<1>1. ASSUME NEW c \in Invocations, UserBegins(c) PROVE Undisturbed'
  <2>1. /\ \A d \in Invocations \ {c} : UNCHANGED <<pc[d], arg[d]>>
        /\ UNCHANGED <<smoke, pid, launched, rec, tmp, held>> /\ c # Tester /\ Aside(c)' /\ ~disturbed
    BY <1>1 DEF UserBegins, Disturbs, Begin, Goto, Aside, Waiter, vm, IInv, TypeOK
  <2> QED
    BY <2>1 DEF OwnInv, Undisturbed, Aside, Waiter, vm
<1>2. ASSUME NEW c \in Invocations, Prepare(c) PROVE Undisturbed'
  <2>1. /\ UNCHANGED <<smoke, pid, launched, rec, tmp, held, arg, disturbed>>
        /\ \A d \in Invocations \ {c} : pc'[d] = pc[d]
        /\ pc'[c] \in {pc[c], "error"} /\ pc[c] # "idle"
    BY <1>2 DEF Prepare, testVars, TestInv, IInv, TypeOK
  <2>2. c = Tester => smoke = "starting"
    BY <1>2 DEF Prepare, TestInv
  <2> QED
    BY <2>1, <2>2 DEF OwnInv, Undisturbed, Aside, Waiter, vm
<1>3. ASSUME NEW c \in Invocations, Works(c) PROVE Undisturbed'
  BY <1>3, UndisturbedWorks DEF OwnInv, Works, testVars
<1>4. CASE Launch
  <2>1. /\ \A d \in Invocations \ {Tester} : UNCHANGED <<pc[d], arg[d]>>
        /\ smoke' = "starting" /\ pc'[Tester] = "launchLoad" /\ launched' = launched /\ smoke = "idle"
    BY <1>4 DEF Launch, Runs, Begin, Goto, IInv, TypeOK
  <2>2. \A d \in Invocations : Aside(d)
    BY <1>4 DEF Launch, Disturbs, WaitersInv, Waiter, Aside, vm
  <2> QED
    BY <2>1, <2>2 DEF Undisturbed, Aside, Waiter, vm, TestInv
<1>5. CASE LaunchReturns
  <2>1. /\ \A d \in Invocations \ {Tester} : UNCHANGED <<pc[d], arg[d]>>
        /\ UNCHANGED <<rec, disturbed>>
    BY <1>5 DEF LaunchReturns, Return, Leave, IInv, TypeOK
  <2>2. CASE pc[Tester] = "ok"
    <3> smoke = "starting" /\ smoke' = "watching" /\ pid' = held[Tester]
      BY <1>5, <2>2 DEF LaunchReturns
    <3> QED
      BY <2>1, <2>2 DEF OwnInv, Undisturbed, Aside, Waiter, vm
  <2>3. CASE pc[Tester] # "ok"
    <3> smoke = "starting" /\ smoke' = "done" /\ ~launched'
      BY <1>5, <2>3 DEF LaunchReturns
    <3> QED
      BY <2>1, <2>3 DEF OwnInv, Undisturbed, Aside, Waiter, vm
  <2> QED
    BY <2>2, <2>3
<1>6. CASE Watch
  BY <1>6 DEF Watch, vars, OwnInv, Undisturbed, Aside, Waiter, vm
<1>7. CASE CleanUp
  <2>1. /\ \A d \in Invocations \ {Tester} : UNCHANGED <<pc[d], arg[d]>>
        /\ smoke = "cleanup" /\ smoke' = "stopping" /\ pc'[Tester] = "load"
        /\ UNCHANGED <<rec, pid, launched, disturbed>>
    BY <1>7 DEF CleanUp, Runs, testVars, Begin, Goto, Task, IInv, TypeOK
  <2> QED
    BY <2>1 DEF OwnInv, Undisturbed, Aside, Waiter, vm
<1>8. CASE StopCommandReturns \/ CtrlC
  <2>1. /\ \A d \in Invocations \ {Tester} : UNCHANGED <<pc[d], arg[d]>>
        /\ smoke' = "done" \/ (smoke = "watching" /\ smoke' = "cleanup" /\ pc' = pc)
        /\ UNCHANGED <<rec, pid, launched, disturbed>> /\ smoke # "idle"
    BY <1>8 DEF StopCommandReturns, CtrlC, Return, Leave, testVars, vars, IInv, TypeOK
  <2> QED
    BY <2>1 DEF OwnInv, Undisturbed, Aside, Waiter, vm
<1>9. CASE Machine
  BY <1>9 DEF Machine, testVars, Environment, LaunchServices, OtherStart, Quit, ctlVars, OwnInv,
              Undisturbed, Aside, Waiter, vm
<1>10. CASE UNCHANGED smokeVars
  BY <1>10 DEF smokeVars, vars, testVars, OwnInv, Undisturbed, Aside, Waiter, vm
<1> QED
  BY <1>1, <1>2, <1>3, <1>4, <1>5, <1>6, <1>7, <1>8, <1>9, <1>10 DEF SmokeNext, TestStep

LEMMA SmokeInitOwn == SmokeInit => OwnInv
<1> SUFFICES ASSUME SmokeInit PROVE OwnInv
  OBVIOUS
<1>1. IInv
  BY IInvInit DEF SmokeInit
<1> QED
  BY <1>1, SmokeAssumption DEF SmokeInit, Init, OwnInv, TestInv, WaitersInv, Defaults

(* README 333: as long as nobody else starts, stops or forgets the tested  *)
(* VM, the smoke test only ever signals the PID that its own start has     *)
(* reported, whatever is done to other VMs.                                *)
THEOREM OwnLaunchOnly == SmokeSpec => []StopsOwnLaunch
<1>1. OwnInv => StopsOwnLaunch
  BY SmokeAssumption
  DEF OwnInv, TestInv, Undisturbed, StopsOwnLaunch, Signalling, StartSteps, StopSteps
<1> QED
  BY <1>1, SmokeInitOwn, SmokeOwn, PTL DEF SmokeSpec

-----------------------------------------------------------------------------
LEMMA StopTaskUnborn ==
  ASSUME IInv, NEW c \in Invocations, Step(c),
         pc[c] \in StopSteps \ {"ok", "error"}, arg[c] = Task("stop", TRUE),
         pc[c] # "load" => held[c] = pid, pid \in Pids, rec[Tested] = pid
  PROVE  /\ Unborn
         /\ pc'[c] \in {"awaitKill", "ok", "error"} =>
              (pc[c] = "awaitKill" /\ life' = life) \/ ~(life'[pid] = "alive" /\ vmOf'[pid] = Tested)
<1> USE DEF IInv, TypeOK, Goto, Hold, StopSteps, vm, Task, Stopped, osVars, Unborn, Alive
<1>1. CASE RestartObserve(c)
  BY <1>1 DEF RestartObserve
<1>2. CASE StopObserve(c)
  BY <1>2, SmokeAssumption, CoversAssumption DEF StopObserve, Present, Verified
<1>3. CASE Term(c)
  BY <1>3 DEF Term, Present
<1>4. CASE AwaitGone(c)
  BY <1>4 DEF AwaitGone, Present
<1>5. CASE AwaitDeadline(c)
  BY <1>5 DEF AwaitDeadline
<1>6. CASE Recheck(c)
  BY <1>6, SmokeAssumption, CoversAssumption DEF Recheck, Present, Verified
<1>7. CASE Kill(c)
  <2>1. CASE life[held[c]] = "alive"
    <3>1. Dies(pid)
      BY <1>7, <2>1 DEF Kill
    <3>2. life'[pid] # "alive"
      BY <3>1 DEF Dies, Reaped, Cleared
    <3> QED
      BY <3>1, <3>2, DiesNoVmBorn, SmokeAssumption DEF NoVmBorn, Lasts
  <2>2. CASE life[held[c]] # "alive"
    BY <1>7, <2>2 DEF Kill
  <2> QED
    BY <2>1, <2>2
<1>8. CASE AwaitKillDeadline(c)
  BY <1>8 DEF AwaitKillDeadline
<1>9. CASE LaunchStep(c)
  BY <1>9
  DEF LaunchStep, LaunchLoad, LaunchObserve, Spawn, SpawnFails, SpawnBackground, Grace, Find,
      FindDeadline, Write, WriteFails, WithoutRecord, Replace, ReplaceFails, Confirm, PortReady,
      PortDeadline
<1>10. CASE Load(c)
  BY <1>10, IdentityAssumption DEF Load, AfterLoad
<1>11. CASE Return(c) \/ WaitPoll(c) \/ WaitDeadline(c) \/ ForgetObserve(c) \/ Unlink(c) \/ UnlinkFails(c)
  BY <1>11 DEF Return, WaitPoll, WaitDeadline, ForgetObserve, Unlink, UnlinkFails
<1> QED
  BY <1>1, <1>2, <1>3, <1>4, <1>5, <1>6, <1>7, <1>8, <1>9, <1>10, <1>11 DEF Step, StopStep

LEMMA MachineUnborn ==
  ASSUME IInv, opened = {}, Tested \notin Outside, Machine
  PROVE  Unborn /\ opened' = {}
<1>1. Tested \notin Others
  BY SmokeAssumption, IdentityAssumption
<1>2. CASE \E p \in Pids : OtherStart(p)
  <2>1. PICK p \in Pids, v \in Outside \union Others : Born(p, v)
    BY <1>2 DEF OtherStart
  <2> QED
    BY <1>1, <1>2, <2>1, BornElsewhere DEF IInv, OtherStart
<1>3. CASE \E p \in Pids : Quit(p)
  BY <1>3, DiesNoVmBorn, SmokeAssumption DEF Quit, NoVmBorn, Lasts, Unborn, IInv
<1> QED
  BY <1>2, <1>3 DEF Machine, Environment, LaunchServices

LEMMA OpenedStep ==
  ASSUME ~Background, opened = {}, [SmokeNext]_smokeVars PROVE opened' = {}
<1>1. ASSUME NEW c, Step(c) PROVE opened' = {}
  BY <1>1
  DEF Step, StopStep, LaunchStep, Load, RestartObserve, StopObserve, Term, AwaitGone,
      AwaitDeadline, Recheck, Kill, AwaitKillDeadline, LaunchLoad, LaunchObserve, Spawn,
      SpawnFails, SpawnBackground, Grace, Find, FindDeadline, Write, WriteFails, Replace,
      ReplaceFails, Confirm, PortReady, PortDeadline, WaitPoll, WaitDeadline, ForgetObserve,
      Unlink, UnlinkFails, Return, Leave
<1> QED
  BY <1>1
  DEF SmokeNext, UserBegins, Begin, Prepare, Works, Launch, Runs, TestStep, LaunchReturns,
      Watch, CleanUp, StopCommandReturns, CtrlC, Return, Leave, Machine, Environment,
      LaunchServices, OtherStart, Quit, smokeVars, vars

(* The process that was launched is gone when stop comes back, and nothing *)
(* starts the VM again.                                                    *)
LEMMA SmokeGone ==
  ASSUME ~Background, Tested \notin Outside
  PROVE  OwnInv /\ GoneInv /\ [SmokeNext]_smokeVars => GoneInv'
<1> SUFFICES ASSUME OwnInv, GoneInv, [SmokeNext]_smokeVars, ~disturbed', smoke' \in {"stopping", "done"},
                    smoke' = "stopping" => pc'[Tester] \in {"awaitKill", "ok", "error"},
                    smoke' = "done" => (launched /\ ~(verified /\ keep))'
             PROVE  ~Alive(pid, Tested)'
  BY OpenedStep DEF GoneInv
<1> USE SmokeAssumption
<1> IInv /\ TypeOK /\ TestInv
  BY DEF OwnInv, IInv
<1> DEFINE Ended == \/ smoke = "stopping" /\ pc[Tester] \in {"awaitKill", "ok", "error"}
                    \/ smoke = "done" /\ launched /\ ~(verified /\ keep)
<1>0. ASSUME Ended, Unborn, pid' = pid, ~disturbed PROVE ~Alive(pid, Tested)'
  <2>1. ~Alive(pid, Tested)
    BY <1>0 DEF GoneInv
  <2>2. pid \in Pids
    BY <1>0 DEF OwnInv, Undisturbed, TestInv
  <2> QED
    BY <1>0, <2>1, <2>2 DEF Unborn, Alive
<1>1. ASSUME NEW c \in Invocations, UserBegins(c) PROVE ~Alive(pid, Tested)'
  BY <1>0, <1>1 DEF UserBegins, Begin, Goto, osVars, Unborn, Alive, TypeOK
<1>2. ASSUME NEW c \in Invocations, Prepare(c) PROVE ~Alive(pid, Tested)'
  BY <1>0, <1>2 DEF Prepare, testVars, osVars, Unborn, Alive, TestInv
<1>3. ASSUME NEW c \in Invocations, Works(c) PROVE ~Alive(pid, Tested)'
  <2>0. UNCHANGED <<smoke, testVars>> /\ Step(c) /\ Undisturbed /\ ~disturbed
    BY <1>3 DEF Works, OwnInv, TestInv, testVars
  <2>1. CASE c # Tester
    <3>2. Unborn
      BY <2>0, <2>1, AsideStep DEF Undisturbed
    <3>3. Ended
      BY <2>0, <2>1, StepFrame DEF testVars
    <3> QED
      BY <1>0, <2>0, <3>2, <3>3 DEF testVars
  <2>2. CASE c = Tester
    <3>1. smoke = "stopping"
      BY <2>0, <2>2, StepNotIdle DEF TestInv
    <3>2. pc[c] \in StopSteps \ {"ok", "error"} /\ arg[c] = Task("stop", TRUE)
      BY <1>3, <2>2, <3>1 DEF Works, TestInv
    <3>3. /\ rec[Tested] = pid /\ pid \in Pids /\ pid' = pid
          /\ pc[c] # "load" => held[c] = pid
      BY <2>0, <2>2, <3>1 DEF Undisturbed, TestInv, testVars
    <3>4. /\ Unborn
          /\ pc'[c] \in {"awaitKill", "ok", "error"} =>
               (pc[c] = "awaitKill" /\ life' = life) \/ ~(life'[pid] = "alive" /\ vmOf'[pid] = Tested)
      BY <2>0, <3>2, <3>3, StopTaskUnborn
    <3>5. CASE pc[c] = "awaitKill"
      BY <1>0, <2>0, <2>2, <3>1, <3>3, <3>4, <3>5
    <3> QED
      BY <2>0, <2>2, <3>1, <3>3, <3>4, <3>5 DEF Alive, testVars
  <2> QED
    BY <2>1, <2>2
<1>4. CASE Launch \/ LaunchReturns \/ Watch
  BY <1>4 DEF Launch, LaunchReturns, Watch, TestInv
<1>5. CASE CleanUp
  BY <1>5 DEF CleanUp, Runs, Begin, Goto, TypeOK, Task
<1>6. CASE StopCommandReturns
  BY <1>0, <1>6, LeaveUnborn DEF StopCommandReturns, Return, testVars
<1>7. CASE CtrlC
  BY <1>7 DEF CtrlC, TestInv
<1>8. CASE Machine
  <2>1. Unborn /\ Ended /\ pid' = pid /\ ~disturbed
    BY <1>8, MachineUnborn
    DEF Machine, testVars, GoneInv, Environment, LaunchServices, OtherStart, Quit, ctlVars
  <2> QED
    BY <1>0, <2>1
<1>9. CASE UNCHANGED smokeVars
  BY <1>0, <1>9 DEF smokeVars, vars, testVars, Unborn, Alive
<1> QED
  BY <1>1, <1>2, <1>3, <1>4, <1>5, <1>6, <1>7, <1>8, <1>9 DEF SmokeNext, TestStep

(* The process launched for the test does not outlive it, unless the text  *)
(* has been seen and the user wants to keep it, somebody works on its VM   *)
(* meanwhile, or the VM is also started without the controller.            *)
THEOREM NothingLeft ==
  ASSUME ~Background, Tested \notin Outside
  PROVE  SmokeSpec => []LeavesNothing
<1>1. SmokeInit => GoneInv
  BY DEF SmokeInit, Init, GoneInv
<1>2. GoneInv => LeavesNothing
  BY DEF GoneInv, LeavesNothing
<1> QED
  BY <1>1, <1>2, SmokeInitOwn, SmokeOwn, SmokeGone, PTL DEF SmokeSpec
=============================================================================
