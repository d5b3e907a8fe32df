------------------------------- MODULE RomSet -------------------------------
(***************************************************************************)
(* prepare_model80_type2_rom_set of 86boxctl.py: the generated ROM set of  *)
(* one VM, one stock tree and one image, which commands build beside it    *)
(* and rename into its place.  A command may fail at any file operation of *)
(* its try block, which it undoes, and at any of the roll-back and of the  *)
(* clean-up, which it does not; or be interrupted or killed, which nothing *)
(* undoes: KeyboardInterrupt is no Exception.                              *)
(***************************************************************************)
EXTENDS Naturals, FiniteSets

CONSTANTS
  Preparers,    \* commands: prepare-roms, start and restart
  MaxVersion    \* bound: versions of the stock ROM tree

ASSUME PreparersAssumption == IsFiniteSet(Preparers)
ASSUME VersionAssumption == MaxVersion \in Nat \ {0}

Versions == 1 .. MaxVersion

(* What a directory name stands for.  The code tells a directory with the  *)
(* controller's manifest (a valid set, or a torn one) from one without     *)
(* (bare or foreign); rename replaces an empty directory only.             *)
Dir(k, v)  == [kind |-> k, version |-> v]
NoDir      == Dir("none", 0)
Torn       == Dir("torn", 0)
Foreign    == Dir("foreign", 0)
RomTree(v) == Dir("set", v)
Copied(v)  == Dir("bare", v)
Dirs == {Dir(k, 0) : k \in {"none", "empty", "bare", "torn", "foreign"}}
        \union {Dir(k, v) : k \in {"bare", "set"}, v \in Versions}

Exists(d)     == d.kind # "none"
Valid(d)      == d.kind = "set"
Recognised(d) == d.kind \in {"torn", "set"}

VARIABLES
  final,       \* the directory under the set's name
  tmp, old,    \* command -> its .tmp- and .old- directories
  left,        \* the ROM sets that killed commands left under hidden names
  source,      \* version of the stock tree
  pc,          \* command -> where it is; "raised": it ends with an error of the roll-back
               \* or of the clean-up itself
  opts,        \* command -> refresh (its option), replacing and moved (its locals)
  began,       \* history: command -> final and source as it began, while none overlap
  had,         \* history: has a command returned a set, or was one there
  overlapped   \* history: have two commands run at the same time

dirs == <<final, tmp, old, left>>
hist == <<began, overlapped>>
vars == <<dirs, source, pc, opts, hist, had>>

Steps == {"idle", "exists", "reuse", "look", "manifest", "copy", "fill", "moveOld",
          "moveNew", "verify", "removeTmp", "blocked", "remove", "removing",
          "restore", "cleanup", "cleaning", "ok", "error", "raised"}

Nothing == [c \in Preparers |-> [final |-> NoDir, source |-> 1]]
NoOpts == [refresh |-> FALSE, replacing |-> FALSE, moved |-> FALSE]

TypeOK ==
  /\ final \in Dirs /\ left \subseteq Dirs /\ source \in Versions
  /\ tmp \in [Preparers -> Dirs] /\ old \in [Preparers -> Dirs]
  /\ pc \in [Preparers -> Steps]
  /\ opts \in [Preparers -> [refresh : BOOLEAN, replacing : BOOLEAN, moved : BOOLEAN]]
  /\ began \in [Preparers -> [final : Dirs, source : Versions]]
  /\ had \in BOOLEAN /\ overlapped \in BOOLEAN

-----------------------------------------------------------------------------
Init ==
  /\ final \in {NoDir, Foreign, RomTree(1)}
  /\ tmp = [c \in Preparers |-> NoDir] /\ old = tmp
  /\ left = {}
  /\ source = 1
  /\ pc = [c \in Preparers |-> "idle"]
  /\ opts = [c \in Preparers |-> NoOpts]
  /\ began = Nothing
  /\ had = Valid(final)
  /\ overlapped = FALSE

Goto(c, from, to) == pc[c] = from /\ pc' = [pc EXCEPT ![c] = to]

(* A step that changes no directory. *)
Look(c, from, to) == Goto(c, from, to) /\ UNCHANGED <<dirs, opts>>

-----------------------------------------------------------------------------
(* Which directory stands there decides what the command does with it. *)
ExistsStep(c) == Look(c, "exists", IF Exists(final) /\ ~opts[c].refresh THEN "reuse" ELSE "look")

(* Mutant: whatever has the name is reused. *)
ReuseBlind(c) == Look(c, "reuse", "ok")
Reuse(c)      == Look(c, "reuse", IF Valid(final) THEN "ok" ELSE "error")

Replacing(c) ==
  /\ Goto(c, "look", IF Exists(final) THEN "manifest" ELSE "copy")
  /\ opts' = [opts EXCEPT ![c].replacing = Exists(final)]
  /\ UNCHANGED dirs

(* Mutant: any directory is replaced. *)
ManifestBlind(c) == Look(c, "manifest", "copy")
Manifest(c)      == Look(c, "manifest", IF Recognised(final) THEN "copy" ELSE "error")

-----------------------------------------------------------------------------
(* Mutant: the directory is made and the stock tree not copied into it. *)
CopyNothing(c) ==
  /\ Goto(c, "copy", "fill")
  /\ tmp' = [tmp EXCEPT ![c] = Copied(0)]
  /\ UNCHANGED <<final, old, left, opts>>

(* copytree *)
Copy(c) ==
  /\ Goto(c, "copy", "fill")
  /\ tmp' = [tmp EXCEPT ![c] = Copied(source)]
  /\ UNCHANGED <<final, old, left, opts>>

CopyRaises(c) ==
  /\ Goto(c, "copy", "removeTmp")
  /\ tmp' = [tmp EXCEPT ![c] = Copied(0)]
  /\ UNCHANGED <<final, old, left, opts>>

(* The two ROM halves, the manifest, and the first validation. *)
Fill(c) ==
  /\ Goto(c, "fill", IF opts[c].replacing THEN "moveOld" ELSE "moveNew")
  /\ tmp' = [tmp EXCEPT ![c] = RomTree(@.version)]
  /\ UNCHANGED <<final, old, left, opts>>

(* Mutant: the old set is removed, not renamed. *)
MoveOldRemoves(c) ==
  /\ Goto(c, "moveOld", "moveNew")
  /\ final' = NoDir
  /\ opts' = [opts EXCEPT ![c].moved = TRUE]
  /\ UNCHANGED <<tmp, old, left>>

MoveOld(c) ==
  /\ Exists(final)
  /\ Goto(c, "moveOld", "moveNew")
  /\ final' = NoDir /\ old' = [old EXCEPT ![c] = final]
  /\ opts' = [opts EXCEPT ![c].moved = TRUE]
  /\ UNCHANGED <<tmp, left>>

MoveNew(c) ==
  /\ final.kind \in {"none", "empty"}
  /\ Goto(c, "moveNew", "verify")
  /\ final' = tmp[c] /\ tmp' = [tmp EXCEPT ![c] = NoDir]
  /\ UNCHANGED <<old, left, opts>>

(* The second validation. *)
Verify(c) ==
  Look(c, "verify", IF ~Valid(final) THEN "removeTmp"
                    ELSE IF opts[c].moved THEN "cleanup" ELSE "ok")

(* rmtree takes a directory apart, in any order, before it removes it. *)
Apart == {Torn, Copied(0), Dir("empty", 0)}

(* The rmtree of the old set. *)
Cleanup(c) ==
  /\ Goto(c, "cleanup", "cleaning")
  /\ \E d \in Apart : old' = [old EXCEPT ![c] = d]
  /\ UNCHANGED <<final, tmp, left, opts>>

Cleaned(c) ==
  /\ Goto(c, "cleaning", "ok")
  /\ old' = [old EXCEPT ![c] = NoDir]
  /\ UNCHANGED <<final, tmp, left, opts>>

-----------------------------------------------------------------------------
(* Any operation in the try block may raise: a full disk, a directory that *)
(* somebody else has moved, one that stands in the way of a rename.        *)
Raise(c) == \E from \in {"copy", "fill", "moveOld", "moveNew", "verify"} :
              Look(c, from, "removeTmp")

(* Mutant: what was moved away is not put back. *)
RemoveTmpOnly(c) ==
  /\ Goto(c, "removeTmp", "error")
  /\ tmp' = [tmp EXCEPT ![c] = NoDir]
  /\ UNCHANGED <<final, old, left, opts>>

RemoveTmp(c) ==
  /\ Goto(c, "removeTmp", IF opts[c].moved /\ Exists(old[c]) THEN "blocked" ELSE "error")
  /\ tmp' = [tmp EXCEPT ![c] = NoDir]
  /\ UNCHANGED <<final, old, left, opts>>

Blocked(c) == Look(c, "blocked", IF Exists(final) THEN "remove" ELSE "restore")

Remove(c) ==
  /\ Exists(final) /\ Goto(c, "remove", "removing")
  /\ final' \in Apart
  /\ UNCHANGED <<tmp, old, left, opts>>

Removing(c) ==
  /\ final.kind \in {"torn", "bare", "empty"} /\ Goto(c, "removing", "restore")
  /\ final' = NoDir
  /\ UNCHANGED <<tmp, old, left, opts>>

Restore(c) ==
  /\ final.kind \in {"none", "empty"} /\ Goto(c, "restore", "error")
  /\ final' = old[c] /\ old' = [old EXCEPT ![c] = NoDir]
  /\ UNCHANGED <<tmp, left, opts>>

(* An operation of the roll-back or of the clean-up raises in its turn, on *)
(* a read-only file or because another command was there first: the        *)
(* command ends there.  What is left of the new set after a failing rmtree *)
(* is not looked at again.                                                 *)
EndsRaised(c) ==
  \/ Exists(tmp[c]) /\ Look(c, "removeTmp", "raised")
  \/ \E from \in {"remove", "removing", "restore", "cleanup", "cleaning"} : Look(c, from, "raised")

-----------------------------------------------------------------------------
Step(c) ==
  /\ \/ ExistsStep(c) \/ Reuse(c) \/ Replacing(c) \/ Manifest(c) \/ Copy(c) \/ Fill(c)
     \/ MoveOld(c) \/ MoveNew(c) \/ Verify(c) \/ Cleanup(c) \/ Raise(c) \/ RemoveTmp(c)
     \/ Blocked(c) \/ Remove(c) \/ Removing(c) \/ Restore(c) \/ Cleaned(c) \/ CopyRaises(c)
     \/ EndsRaised(c)
  /\ UNCHANGED <<source, hist>>

Begin(c) ==
  /\ Goto(c, "idle", "exists")
  /\ \E r \in BOOLEAN : opts' = [opts EXCEPT ![c] = [NoOpts EXCEPT !.refresh = r]]
  /\ overlapped' = (overlapped \/ \E d \in Preparers : pc[d] # "idle")
  /\ began' = IF overlapped' THEN Nothing
              ELSE [Nothing EXCEPT ![c] = [final |-> final, source |-> source]]
  /\ UNCHANGED <<dirs, source>>

(* The process ends, at its end or by an interrupt or a signal: its hidden *)
(* directories stay, under names that nobody uses again.                   *)
Leave(c) ==
  /\ pc[c] # "idle" /\ pc' = [pc EXCEPT ![c] = "idle"]
  /\ left' = left \union {d \in {old[c]} : Valid(d)}
  /\ tmp' = [tmp EXCEPT ![c] = NoDir] /\ old' = [old EXCEPT ![c] = NoDir]
  /\ opts' = [opts EXCEPT ![c] = NoOpts]
  /\ UNCHANGED <<final, source, hist>>

(* The user updates the stock ROMs. *)
NewSource ==
  /\ source < MaxVersion /\ source' = source + 1
  /\ UNCHANGED <<dirs, pc, opts, hist>>

Next ==
  /\ (\E c \in Preparers : Step(c) \/ Begin(c) \/ Leave(c)) \/ NewSource
  /\ had' = (had \/ \E c \in Preparers : pc'[c] = "ok")

Spec == Init /\ [][Next]_vars

-----------------------------------------------------------------------------
(* However commands overlap, fail and die: once a command has returned a   *)
(* ROM set there is a whole one, under its name or a hidden one, that a    *)
(* user can put back (86boxctl.py 502-523).                                *)
SetSurvives ==
  had => \E d \in {final} \union left \union {old[c] : c \in Preparers} : Valid(d)

(* A command that succeeds leaves a valid set; with --refresh-rom-set one  *)
(* that is no older than the stock tree as the command began (README 296). *)
ReturnsCurrent ==
  \A c \in Preparers : pc[c] = "ok" /\ ~overlapped =>
    /\ Valid(final)
    /\ opts[c].refresh => final.version >= began[c].source

(* A command that fails leaves under the name what it found there; where   *)
(* it found nothing, the set it built may stay.  One whose roll-back or    *)
(* clean-up fails too may leave anything there, but then what it found     *)
(* stands as it was under its hidden name, or the new set under the right  *)
(* one (86boxctl.py 514-523).                                              *)
FailureUndone ==
  \A c \in Preparers : ~overlapped =>
    /\ pc[c] = "error" => \/ final = began[c].final
                          \/ ~Exists(began[c].final) /\ Valid(final)
    /\ pc[c] = "raised" => \/ final = began[c].final
                           \/ Exists(began[c].final) /\ old[c] = began[c].final
                           \/ Valid(final) /\ final.version >= began[c].source

(* A directory without the controller's manifest is never touched (README  *)
(* 296-297, and the message "refusing to replace unrecognized directory"). *)
ForeignKept == [][final.kind = "foreign" => final' = final]_vars
=============================================================================
