------------------------------ MODULE SmokeTest ------------------------------
(***************************************************************************)
(* model80_rom_smoke.py as a client of the process controller: it launches *)
(* a VM with a patched ROM set, waits for a text on its screen and stops   *)
(* it again.  Its two commands run as the invocation Tester; users give    *)
(* other commands meanwhile.                                               *)
(*                                                                         *)
(* The preparation of the ROM set, which start and restart do before they  *)
(* look at any record, is here one step that succeeds or fails; module     *)
(* RomSet says what either leaves on the disk.                             *)
(***************************************************************************)
EXTENDS Controller

CONSTANTS
  Tester,  \* the invocation that the smoke test uses
  Tested,  \* its VM
  Given    \* the commands that users give; a run bounds them

ASSUME SmokeAssumption == Tester \in Invocations /\ Tested \in VMs /\ Given \subseteq Options

VARIABLES
  preparing,  \* invocations whose ROM set is being prepared
  smoke,      \* where the smoke test is
  keep,       \* its option --keep-running, chosen where it is first looked at
  launched, verified,
  pid,        \* the PID that start has reported
  disturbed   \* history: another command worked on Tested meanwhile

testVars  == <<keep, launched, verified, pid, disturbed>>
smokeVars == <<vars, preparing, smoke, testVars>>

Prepares(c) == arg'[c].act \in {"start", "restart"}
NowPreparing(c) == preparing' = IF Prepares(c) THEN preparing \union {c} ELSE preparing

SmokeInit ==
  /\ Init
  /\ preparing = {} /\ smoke = "idle"
  /\ keep = FALSE /\ launched = FALSE /\ verified = FALSE
  /\ disturbed = FALSE
  /\ pid = None

-----------------------------------------------------------------------------
(* The commands of the controller, with the preparation in front. *)
(* wait reads, and does nothing else. *)
Disturbs(o) == o.vm = Tested /\ o.act # "wait"

UserBegins(c) ==
  /\ c # Tester /\ Begin(c) /\ arg'[c] \in Given /\ NowPreparing(c)
  /\ disturbed' = (disturbed \/ Disturbs(arg'[c]))
  /\ UNCHANGED <<smoke, keep, launched, verified, pid>>

(* When the preparation fails, the command ends before it has looked at    *)
(* any record: restart has then not stopped the old process.               *)
Prepare(c) ==
  /\ c \in preparing /\ preparing' = preparing \ {c}
  /\ \E to \in {pc[c], "error"} : pc' = [pc EXCEPT ![c] = to]
  /\ UNCHANGED <<osVars, rec, tmp, opened, arg, held, child, smoke, testVars>>

Works(c) ==
  /\ c \notin preparing /\ Step(c)
  /\ c = Tester => pc[c] \notin {"ok", "error"}
  /\ UNCHANGED <<preparing, smoke, testVars>>

-----------------------------------------------------------------------------
(* The smoke test. *)
Runs(act, kill) == Begin(Tester) /\ arg'[Tester] = [act |-> act, vm |-> Tested, kill |-> kill]

Launch ==
  /\ smoke = "idle" /\ smoke' = "starting"
  /\ Runs("start", FALSE) /\ NowPreparing(Tester)
  /\ disturbed' = \E c \in Invocations : pc[c] # "idle" /\ Disturbs(arg[c])
  /\ UNCHANGED <<keep, launched, verified, pid>>

(* Mutant: launched is set whatever start returns. *)
LaunchReturnsBlind ==
  /\ smoke = "starting" /\ Return(Tester)
  /\ launched' = TRUE
  /\ IF pc[Tester] = "ok" THEN smoke' = "watching" /\ pid' = held[Tester]
                          ELSE smoke' = "cleanup" /\ UNCHANGED pid
  /\ UNCHANGED <<preparing, keep, verified, disturbed>>

LaunchReturns ==
  /\ smoke = "starting" /\ Return(Tester)
  /\ launched' = (pc[Tester] = "ok")
  /\ IF pc[Tester] = "ok" THEN smoke' = "watching" /\ pid' = held[Tester]
                          ELSE smoke' = "done" /\ UNCHANGED pid
  /\ UNCHANGED <<preparing, keep, verified, disturbed>>

(* rsp.py wait-screen finds the text, or fails for whatever reason.        *)
(* Mutant: the VM is kept although the text did not appear.                *)
WatchKeepsFailed ==
  /\ smoke = "watching"
  /\ verified' \in BOOLEAN /\ keep' \in BOOLEAN
  /\ verified' => \E p \in Pids : Alive(p, Tested)
  /\ smoke' = IF keep' THEN "done" ELSE "cleanup"
  /\ UNCHANGED <<vars, preparing, launched, pid, disturbed>>

Watch ==
  /\ smoke = "watching"
  /\ verified' \in BOOLEAN /\ keep' \in BOOLEAN
  /\ verified' => \E p \in Pids : Alive(p, Tested)
  /\ smoke' = IF verified' /\ keep' THEN "done" ELSE "cleanup"
  /\ UNCHANGED <<vars, preparing, launched, pid, disturbed>>

CleanUp ==
  /\ smoke = "cleanup" /\ smoke' = "stopping"
  /\ Runs("stop", TRUE)
  /\ UNCHANGED <<preparing, testVars>>

StopCommandReturns ==
  /\ smoke = "stopping" /\ Return(Tester) /\ smoke' = "done"
  /\ UNCHANGED <<preparing, testVars>>

(* Ctrl-C reaches the smoke test and the command it runs; the finally      *)
(* clause still stops what was launched.  A second one, while stop runs,   *)
(* ends the stop as well and is left out.                                  *)
CtrlC ==
  \/ /\ smoke = "starting" /\ Leave(Tester)
     /\ smoke' = "done"
     /\ preparing' = preparing \ {Tester}
     /\ UNCHANGED <<keep, launched, verified, pid, disturbed>>
  \/ /\ smoke = "watching" /\ smoke' = "cleanup"
     /\ UNCHANGED <<vars, preparing, testVars>>

TestStep == LaunchReturns \/ Watch \/ CleanUp \/ StopCommandReturns

Machine == Environment /\ UNCHANGED <<preparing, smoke, testVars>>

SmokeNext ==
  \/ \E c \in Invocations : UserBegins(c) \/ Prepare(c) \/ Works(c)
  \/ Launch \/ TestStep \/ CtrlC \/ Machine

SmokeSpec == SmokeInit /\ [][SmokeNext]_smokeVars

(* Every command goes on when it can, as in Controller, and so does the    *)
(* smoke test: its waits have deadlines.                                   *)
SmokeFairSpec ==
  /\ SmokeSpec /\ WF_smokeVars(TestStep)
  /\ \A c \in Invocations : WF_smokeVars(Prepare(c) \/ Works(c))

-----------------------------------------------------------------------------
(* README 333: the smoke test "stops only the PID recorded for that        *)
(* launch", whatever other VMs and programs come, go and reuse PIDs.  This *)
(* needs that nobody else starts, stops or forgets the tested VM           *)
(* meanwhile: stop takes whatever its record names by then.                *)
StopsOwnLaunch ==
  Signalling(Tester) => launched /\ (disturbed \/ held[Tester] = pid)

(* Once start has succeeded, the process it launched does not outlive the  *)
(* smoke test, whatever happens to the screen and even if 86Box ignores    *)
(* SIGTERM, except when it is verified and to be kept.                     *)
LeavesNothing ==
  (smoke = "done" /\ launched /\ ~(verified /\ keep) /\ ~disturbed)
    => ~Alive(pid, Tested)

(* start, stop, restart, forget and the smoke test come back, whatever     *)
(* 86Box does and whatever fails.                                          *)
AllReturn ==
  /\ \A c \in Invocations \ {Tester} :
       pc[c] # "idle" /\ arg[c].act # "wait" ~> pc[c] = "idle"
  /\ smoke \notin {"idle", "done"} ~> smoke = "done"
=============================================================================
