----------------------------- MODULE Controller -----------------------------
(***************************************************************************)
(* The process controller of 86boxctl.py: one invocation of the command    *)
(* line per member of Invocations, the record files they share, and the    *)
(* kernel's process table, whose PIDs are recycled.                        *)
(*                                                                         *)
(* Every read of a record file, every ps, every signal, every write and    *)
(* every rename is a step of its own, so that invocations interleave where *)
(* the operating system lets them.  Popen and the operations that change a *)
(* file may fail, the write of a record also half-way.                     *)
(***************************************************************************)
EXTENDS Naturals

CONSTANTS
  VMs,          \* resolved VM directories
  Pids,         \* the kernel's process identifiers
  Invocations,  \* concurrently running 86boxctl commands
  Others,       \* command lines of programs the controller does not launch
  None,         \* no process, no record, no child
  Torn,         \* a record file of which only a part was written
  Covers,       \* <<v, w>>: "--vmpath v" is a substring of the command line of w
  Outside,      \* VMs the user also starts without the controller
  Background,   \* TRUE: start --background on macOS may be used
  Exclusive,    \* TRUE: at most one command at a time works on a VM
  Interrupts,   \* TRUE: a command may be interrupted or killed
  InstantReuse  \* TRUE: a PID may be recycled between a ps and the signal

ASSUME IdentityAssumption == /\ VMs # {}
                             /\ VMs \cap Others = {}
                             /\ None \notin VMs \union Others \union Pids
                             /\ Torn \notin VMs \union Others \union Pids \union {None}
ASSUME CoversAssumption ==   /\ Covers \subseteq VMs \X (VMs \union Others)
                             /\ \A v \in VMs : <<v, v>> \in Covers
ASSUME OutsideAssumption ==  Outside \subseteq VMs
ASSUME FlagAssumption ==     {Background, Exclusive, Interrupts, InstantReuse} \subseteq BOOLEAN

VARIABLES
  life,    \* PID -> "free", "alive" or "zombie" (dead, not yet reaped by its parent)
  vmOf,    \* PID -> the VM (or the other program) on its command line
  unrecorded, \* history: processes whose start could not write their record
  rec,     \* VM -> PID in the record file, Torn, or None when there is no file
  tmp,     \* VM -> the same of the record's .tmp file
  opened,  \* VMs handed to LaunchServices whose process has not appeared
  pc,      \* invocation -> where it is in its command
  arg,     \* invocation -> its parsed options
  held,    \* invocation -> PID of the ProcessRecord it holds in memory
  child    \* invocation -> PID of its Popen child that it has not reaped

osVars  == <<life, vmOf, unrecorded>>
ctlVars == <<pc, arg, held, child>>
vars    == <<life, vmOf, unrecorded, rec, tmp, opened, pc, arg, held, child>>

Actions == {"start", "restart", "stop", "wait", "forget"}

(* --background, --gdb-stub and the --timeout of wait are chosen where they *)
(* are first looked at; no step before that depends on them.               *)
Options == [act : Actions, vm : VMs, kill : BOOLEAN]

Steps == {"idle", "load", "restartObserve", "stopObserve", "term", "await",
          "recheck", "kill", "awaitKill", "launchLoad", "launchObserve",
          "spawn", "grace", "find", "write", "replace", "confirm", "port",
          "waitLoop", "forgetObserve", "unlink", "ok", "error"}

TypeOK ==
  /\ life \in [Pids -> {"free", "alive", "zombie"}]
  /\ vmOf \in [Pids -> VMs \union Others \union {None}]
  /\ unrecorded \subseteq Pids
  /\ rec \in [VMs -> Pids \union {None, Torn}]
  /\ tmp \in [VMs -> Pids \union {None, Torn}]
  /\ opened \subseteq VMs
  /\ pc \in [Invocations -> Steps]
  /\ arg \in [Invocations -> Options]
  /\ held \in [Invocations -> Pids \union {None, Torn}]
  /\ child \in [Invocations -> Pids \union {None}]

-----------------------------------------------------------------------------
(* What ps tells an invocation about a recorded PID. *)

Present(p)     == life[p] # "free"
Alive(p, v)    == life[p] = "alive" /\ vmOf[p] = v
Verified(p, v) == life[p] = "alive" /\ <<v, vmOf[p]>> \in Covers

(* Controls that are about to signal the PID they hold. *)
Signalling(c) == pc[c] \in {"term", "kill"}

Allocatable(p) ==
  /\ life[p] = "free"
  /\ InstantReuse \/ ~ \E c \in Invocations : Signalling(c) /\ held[c] = p

Born(p, v) ==
  /\ Allocatable(p)
  /\ life' = [life EXCEPT ![p] = "alive"]
  /\ vmOf' = [vmOf EXCEPT ![p] = v]
  /\ UNCHANGED unrecorded

Cleared(f, value, dead) == [p \in Pids |-> IF p \in dead THEN value ELSE f[p]]

Reaped(dead) ==
  /\ life' = Cleared(life, "free", dead)
  /\ vmOf' = Cleared(vmOf, None, dead)
  /\ unrecorded' = unrecorded \ dead

(* An exited process stays a zombie while the command that spawned it runs. *)
Dies(p) ==
  IF \E c \in Invocations : child[c] = p
  THEN /\ life' = [life EXCEPT ![p] = "zombie"]
       /\ UNCHANGED <<vmOf, unrecorded>>
  ELSE Reaped({p})

-----------------------------------------------------------------------------
Defaults == [act |-> "stop", vm |-> CHOOSE v \in VMs : TRUE, kill |-> FALSE]

Init ==
  /\ life = [p \in Pids |-> "free"]
  /\ vmOf = [p \in Pids |-> None]
  /\ unrecorded = {}
  /\ rec = [v \in VMs |-> None]
  /\ tmp = [v \in VMs |-> None]
  /\ opened = {}
  /\ pc = [c \in Invocations |-> "idle"]
  /\ arg = [c \in Invocations |-> Defaults]
  /\ held = [c \in Invocations |-> None]
  /\ child = [c \in Invocations |-> None]

Goto(c, from, to) == pc[c] = from /\ pc' = [pc EXCEPT ![c] = to]

Hold(c, p) == held' = [held EXCEPT ![c] = p]

vm(c) == arg[c].vm

(* A command is typed: argparse has accepted its options and resolve_vm    *)
(* has found the VM directory.  An action that never looks at              *)
(* --kill-after-timeout runs without it.                                   *)
Accepted(o) == o.kill => o.act \in {"stop", "restart"}

Begin(c) ==
  \E o \in Options :
    /\ Accepted(o)
    /\ Exclusive => \A d \in Invocations : pc[d] # "idle" => vm(d) # o.vm
    /\ Goto(c, "idle", IF o.act = "start" THEN "launchLoad" ELSE "load")
    /\ arg' = [arg EXCEPT ![c] = o]
    /\ UNCHANGED <<osVars, rec, tmp, opened, held, child>>

(* The command ends, by returning or by being interrupted: a child that is *)
(* still alive is handed to init, a zombie child is reaped.                *)
Leave(c) ==
  /\ Reaped({p \in Pids : p = child[c] /\ life[p] = "zombie"})
  /\ pc' = [pc EXCEPT ![c] = "idle"]
  /\ arg' = [arg EXCEPT ![c] = Defaults]
  /\ held' = [held EXCEPT ![c] = None]
  /\ child' = [child EXCEPT ![c] = None]
  /\ UNCHANGED <<rec, tmp, opened>>

Return(c) == pc[c] \in {"ok", "error"} /\ Leave(c)

Interrupt(c) == Interrupts /\ pc[c] \notin {"idle", "ok", "error"} /\ Leave(c)

-----------------------------------------------------------------------------
(* main: the record is loaded before stop, wait, forget and restart; a     *)
(* torn one cannot be parsed, which ends the command.                      *)
AfterLoad == [restart |-> "restartObserve", stop |-> "stopObserve",
              wait    |-> "waitLoop",       forget |-> "forgetObserve"]

Load(c) ==
  /\ LET missing == IF arg[c].act = "restart" THEN "launchLoad" ELSE "error"
     IN  Goto(c, "load", IF rec[vm(c)] = None THEN missing
                         ELSE IF rec[vm(c)] = Torn THEN "error" ELSE AfterLoad[arg[c].act])
  /\ Hold(c, rec[vm(c)])
  /\ UNCHANGED <<osVars, rec, tmp, opened, arg, child>>

RestartObserve(c) ==
  /\ Goto(c, "restartObserve", IF Present(held[c]) THEN "stopObserve" ELSE "launchLoad")
  /\ UNCHANGED <<osVars, rec, tmp, opened, arg, held, child>>

(* stop_process returns to main: stop is done, restart goes on to launch. *)
Stopped(c) == IF arg[c].act = "restart" THEN "launchLoad" ELSE "ok"

(* Mutant: stop trusts the recorded PID without looking at its command line. *)
StopObserveTrusting(c) ==
  /\ Goto(c, "stopObserve", IF Present(held[c]) THEN "term" ELSE Stopped(c))
  /\ UNCHANGED <<osVars, rec, tmp, opened, arg, held, child>>

StopObserve(c) ==
  /\ Goto(c, "stopObserve", IF ~Present(held[c]) THEN Stopped(c)
                            ELSE IF Verified(held[c], vm(c)) THEN "term" ELSE "error")
  /\ UNCHANGED <<osVars, rec, tmp, opened, arg, held, child>>

(* os.kill raises ProcessLookupError for a free PID.  86Box may quit at    *)
(* SIGTERM, later, or never: that is Quit.                                 *)
Term(c) ==
  /\ Goto(c, "term", IF Present(held[c]) THEN "await" ELSE "error")
  /\ UNCHANGED <<osVars, rec, tmp, opened, arg, held, child>>

(* The polling loops look only at whether the PID is present.  --timeout 0 *)
(* never polls, so the deadline may pass first whatever the process does.  *)
AwaitGone(c) ==
  /\ \E from \in {"await", "awaitKill"} : Goto(c, from, Stopped(c))
  /\ ~Present(held[c])
  /\ UNCHANGED <<osVars, rec, tmp, opened, arg, held, child>>

(* Mutants: SIGKILL without observing the process again; the option is     *)
(* ignored; the loop has no deadline.                                      *)
AwaitDeadlineBlind(c) ==
  /\ Goto(c, "await", IF arg[c].kill THEN "kill" ELSE "error")
  /\ UNCHANGED <<osVars, rec, tmp, opened, arg, held, child>>

AwaitDeadlineGentle(c) ==
  /\ Goto(c, "await", "error")
  /\ UNCHANGED <<osVars, rec, tmp, opened, arg, held, child>>

AwaitDeadlineNever(c) ==
  /\ Goto(c, "await", "await")
  /\ UNCHANGED <<osVars, rec, tmp, opened, arg, held, child>>

AwaitDeadline(c) ==
  /\ Goto(c, "await", IF arg[c].kill THEN "recheck" ELSE "error")
  /\ UNCHANGED <<osVars, rec, tmp, opened, arg, held, child>>

Recheck(c) ==
  /\ Goto(c, "recheck", IF ~Present(held[c]) THEN Stopped(c)
                        ELSE IF Verified(held[c], vm(c)) THEN "kill" ELSE "error")
  /\ UNCHANGED <<osVars, rec, tmp, opened, arg, held, child>>

Kill(c) ==
  /\ Goto(c, "kill", IF Present(held[c]) THEN "awaitKill" ELSE "error")
  /\ IF life[held[c]] = "alive" THEN Dies(held[c]) ELSE UNCHANGED osVars
  /\ UNCHANGED <<rec, tmp, opened, arg, held, child>>

AwaitKillDeadline(c) ==
  /\ Goto(c, "awaitKill", "error")
  /\ UNCHANGED <<osVars, rec, tmp, opened, arg, held, child>>

-----------------------------------------------------------------------------
(* launch *)
(* Mutant: start does not look at the record it is about to replace. *)
LaunchLoadBlind(c) ==
  /\ Goto(c, "launchLoad", "spawn")
  /\ Hold(c, rec[vm(c)])
  /\ UNCHANGED <<osVars, rec, tmp, opened, arg, child>>

LaunchLoad(c) ==
  /\ Goto(c, "launchLoad", IF rec[vm(c)] = None THEN "spawn"
                           ELSE IF rec[vm(c)] = Torn THEN "error" ELSE "launchObserve")
  /\ Hold(c, rec[vm(c)])
  /\ UNCHANGED <<osVars, rec, tmp, opened, arg, child>>

LaunchObserve(c) ==
  /\ Goto(c, "launchObserve", IF Present(held[c]) THEN "error" ELSE "spawn")
  /\ UNCHANGED <<osVars, rec, tmp, opened, arg, held, child>>

Spawn(c) ==
  /\ Goto(c, "spawn", "grace")
  /\ \E p \in Pids : /\ Born(p, vm(c))
                     /\ child' = [child EXCEPT ![c] = p]
  /\ UNCHANGED <<rec, tmp, opened, arg, held>>

(* No binary, no gdbstub_port, no log file, or Popen itself fails.         *)
SpawnFails(c) ==
  /\ Goto(c, "spawn", "error")
  /\ UNCHANGED <<osVars, rec, tmp, opened, arg, held, child>>

(* open -g -n: LaunchServices makes the process, in its own time. *)
SpawnBackground(c) ==
  /\ Background
  /\ Goto(c, "spawn", "find")
  /\ opened' = opened \union {vm(c)}
  /\ UNCHANGED <<osVars, rec, tmp, arg, held, child>>

(* process.poll() in the startup grace period; it reaps a dead child. *)
Grace(c) ==
  /\ LET p == child[c]
         alive == life[p] = "alive"
     IN  /\ Goto(c, "grace", IF alive THEN "write" ELSE "error")
         /\ Hold(c, p)
         /\ Reaped({q \in {p} : ~alive})
         /\ child' = [child EXCEPT ![c] = IF alive THEN p ELSE None]
  /\ UNCHANGED <<rec, tmp, opened, arg>>

(* pgrep -f lists every process whose command line matches; pids[0] wins. *)
Find(c) ==
  /\ Goto(c, "find", "write")
  /\ \E p \in Pids : Verified(p, vm(c)) /\ Hold(c, p)
  /\ UNCHANGED <<osVars, rec, tmp, opened, arg, child>>

FindDeadline(c) ==
  /\ \A p \in Pids : ~Verified(p, vm(c))
  /\ Goto(c, "find", "error")
  /\ UNCHANGED <<osVars, rec, tmp, opened, arg, held, child>>

(* Mutant: the record's pid field is given the VM. *)
WriteVm(c) ==
  /\ Goto(c, "write", "replace")
  /\ tmp' = [tmp EXCEPT ![vm(c)] = vm(c)]
  /\ UNCHANGED <<osVars, rec, opened, arg, held, child>>

(* _write_record: every launch of a VM writes the same .tmp file. *)
Write(c) ==
  /\ Goto(c, "write", "replace")
  /\ tmp' = [tmp EXCEPT ![vm(c)] = held[c]]
  /\ UNCHANGED <<osVars, rec, opened, arg, held, child>>

(* The .tmp file cannot be opened, or only a part of it is written.  Popen *)
(* has succeeded: if the process lives, it goes on without a record.       *)
WithoutRecord(c) ==
  /\ unrecorded' = unrecorded \union {p \in Pids : p = held[c] /\ Alive(p, vm(c))}
  /\ UNCHANGED <<life, vmOf>>

WriteFails(c) ==
  /\ Goto(c, "write", "error")
  /\ \E left \in {tmp[vm(c)], Torn} : tmp' = [tmp EXCEPT ![vm(c)] = left]
  /\ WithoutRecord(c)
  /\ UNCHANGED <<rec, opened, arg, held, child>>

Replace(c) ==
  /\ tmp[vm(c)] # None
  /\ Goto(c, "replace", "confirm")
  /\ rec' = [rec EXCEPT ![vm(c)] = tmp[vm(c)]]
  /\ tmp' = [tmp EXCEPT ![vm(c)] = None]
  /\ UNCHANGED <<osVars, opened, arg, held, child>>

(* The rename fails, for one thing because another launch of the VM has    *)
(* renamed the .tmp file that both wrote.                                  *)
ReplaceFails(c) ==
  /\ Goto(c, "replace", "error")
  /\ WithoutRecord(c)
  /\ UNCHANGED <<rec, tmp, opened, arg, held, child>>

Confirm(c) ==
  /\ \E then \in {"port", "ok"} :               \* with and without --gdb-stub
       Goto(c, "confirm", IF Verified(held[c], vm(c)) THEN then ELSE "error")
  /\ UNCHANGED <<osVars, rec, tmp, opened, arg, held, child>>

(* _wait_for_port: each poll observes the process before it tries the      *)
(* port; when and whether something listens is left open.                  *)
PortReady(c) ==
  /\ Goto(c, "port", IF Verified(held[c], vm(c)) THEN "ok" ELSE "error")
  /\ UNCHANGED <<osVars, rec, tmp, opened, arg, held, child>>

PortDeadline(c) ==
  /\ Goto(c, "port", "error")
  /\ UNCHANGED <<osVars, rec, tmp, opened, arg, held, child>>

-----------------------------------------------------------------------------
(* wait, with and without a --timeout, and forget *)
WaitPoll(c) ==
  /\ Goto(c, "waitLoop", IF Present(held[c]) THEN "error" ELSE "ok")
  /\ ~Verified(held[c], vm(c))
  /\ UNCHANGED <<osVars, rec, tmp, opened, arg, held, child>>

WaitDeadline(c) ==
  /\ Goto(c, "waitLoop", "error")
  /\ Verified(held[c], vm(c))
  /\ UNCHANGED <<osVars, rec, tmp, opened, arg, held, child>>

(* Mutant: forget does not look whether the process still runs. *)
ForgetObserveBlind(c) ==
  /\ Goto(c, "forgetObserve", "unlink")
  /\ UNCHANGED <<osVars, rec, tmp, opened, arg, held, child>>

ForgetObserve(c) ==
  /\ Goto(c, "forgetObserve", IF Verified(held[c], vm(c)) THEN "error" ELSE "unlink")
  /\ UNCHANGED <<osVars, rec, tmp, opened, arg, held, child>>

Unlink(c) ==
  /\ rec[vm(c)] # None
  /\ Goto(c, "unlink", "ok")
  /\ rec' = [rec EXCEPT ![vm(c)] = None]
  /\ UNCHANGED <<osVars, tmp, opened, arg, held, child>>

UnlinkFails(c) ==
  /\ Goto(c, "unlink", "error")
  /\ UNCHANGED <<osVars, rec, tmp, opened, arg, held, child>>

-----------------------------------------------------------------------------
(* The rest of the machine. *)
LaunchServices(v) ==
  /\ v \in opened
  /\ opened' = opened \ {v}
  /\ \/ \E p \in Pids : Born(p, v)
     \/ UNCHANGED osVars                     \* open failed; its status is ignored
  /\ UNCHANGED <<rec, tmp, ctlVars>>

OtherStart(p) ==
  /\ \E v \in Outside \union Others : Born(p, v)
  /\ UNCHANGED <<rec, tmp, opened, ctlVars>>

Quit(p) ==
  /\ life[p] = "alive"
  /\ Dies(p)
  /\ UNCHANGED <<rec, tmp, opened, ctlVars>>

-----------------------------------------------------------------------------
StopStep(c) ==
  \/ RestartObserve(c) \/ StopObserve(c) \/ Term(c) \/ AwaitGone(c)
  \/ AwaitDeadline(c) \/ Recheck(c) \/ Kill(c) \/ AwaitKillDeadline(c)

LaunchStep(c) ==
  \/ LaunchLoad(c) \/ LaunchObserve(c) \/ Spawn(c) \/ SpawnFails(c) \/ SpawnBackground(c)
  \/ Grace(c) \/ Find(c) \/ FindDeadline(c)
  \/ Write(c) \/ WriteFails(c) \/ Replace(c) \/ ReplaceFails(c)
  \/ Confirm(c) \/ PortReady(c) \/ PortDeadline(c)

Step(c) ==
  \/ Load(c) \/ StopStep(c) \/ LaunchStep(c) \/ Return(c)
  \/ WaitPoll(c) \/ WaitDeadline(c) \/ ForgetObserve(c)
  \/ Unlink(c) \/ UnlinkFails(c)

Environment ==
  \/ \E v \in VMs : LaunchServices(v)
  \/ \E p \in Pids : OtherStart(p) \/ Quit(p)

Next ==
  \/ \E c \in Invocations : Begin(c) \/ Step(c) \/ Interrupt(c)
  \/ Environment

Spec == Init /\ [][Next]_vars
-----------------------------------------------------------------------------
(* Wherever a command asks ps about its record, it has one. *)
Observing == {"restartObserve", "stopObserve", "term", "await", "recheck", "kill",
              "awaitKill", "launchObserve", "write", "replace", "confirm", "port",
              "waitLoop", "forgetObserve"}

HoldsPid ==
  \A c \in Invocations : /\ pc[c] \in Observing => held[c] \in Pids
                         /\ pc[c] = "grace" => child[c] \in Pids
                         /\ pc[c] = "load" => arg[c].act # "start"

(* A signal is only ever sent to a PID that is free, or whose command line *)
(* contains the recorded VM path: stop_process verifies before SIGTERM and *)
(* again before SIGKILL, whatever other commands do to the record, and     *)
(* however often the PID was recycled while stop was polling.              *)
SignalTargets ==
  \A c \in Invocations :
    Signalling(c) => \/ life[held[c]] = "free"
                     \/ <<vm(c), vmOf[held[c]]>> \in Covers

(* README 142-149: a PID that "belongs to another 86Box instance" is never *)
(* signalled; a signal reaches the very VM the command was given.          *)
SignalsOwnVm ==
  \A c \in Invocations :
    Signalling(c) /\ life[held[c]] = "alive" => vmOf[held[c]] = vm(c)

(* Between Popen and the rename of the record, the command in flight is    *)
(* what knows the process.                                                 *)
Launching(c, p) == pc[c] \in {"grace", "write", "replace"} /\ child[c] = p

(* No VM process is lost: it is the one its record names, or a start is    *)
(* about to record it (the "central invariant" of the README), except that *)
(* a start that has launched it and cannot write the record, then or at    *)
(* the rename, reports the error and leaves it running without one.        *)
NoneLost ==
  \A p \in Pids, v \in VMs :
    Alive(p, v) => \/ rec[v] = p \/ p \in unrecorded
                   \/ \E c \in Invocations : vm(c) = v /\ Launching(c, p)

(* A VM directory is never opened by two 86Box processes: start and        *)
(* restart refuse, or wait for the old process to be gone.  They do not    *)
(* see a process left behind by a start that could not write its record:   *)
(* of two that run, all but one have been left in that way.                *)
OnePerVm ==
  \A p, q \in Pids \ unrecorded, v \in VMs : Alive(p, v) /\ Alive(q, v) => p = q

(* forget, start and restart never drop or replace a record while the      *)
(* process it names still runs the VM.                                     *)
RecordKeepsLive ==
  [][\A v \in VMs, p \in Pids : rec[v] = p /\ rec'[v] # p => ~Alive(p, v)]_vars

(* A background launch records the process of the VM it launched, never    *)
(* "an arbitrary pgrep result" (README 19-21).                             *)
AdoptsOwnVm ==
  [][\A c \in Invocations : Find(c) => vmOf[held'[c]] = vm(c)]_vars

-----------------------------------------------------------------------------
(* stop --kill-after-timeout gets rid of the process it has signalled,     *)
(* even one that ignores SIGTERM.                                          *)
KillAfterTimeoutStops ==
  \A p \in Pids, v \in VMs :
    (\E c \in Invocations : /\ pc[c] = "await" /\ arg[c].kill
                            /\ held[c] = p /\ vm(c) = v)
      ~> ~Alive(p, v)
=============================================================================
