---------------------------- MODULE RomSetProofs ----------------------------
(***************************************************************************)
(* Theorems about the preparation of ROM sets, for any number of commands: *)
(* a directory the controller did not make is never touched, however they  *)
(* interleave; and a command that runs alone undoes what it did when it    *)
(* fails, and leaves a current set when it succeeds; and a whole set       *)
(* always survives.                                                        *)
(***************************************************************************)
EXTENDS RomSet, FiniteSetTheorems, TLAPS

(* The directories a command makes. *)
LEMMA DirFacts ==
  /\ NoDir \in Dirs /\ Torn \in Dirs /\ Foreign \in Dirs /\ Dir("empty", 0) \in Dirs
  /\ Copied(0) \in Dirs
  /\ \A v \in Versions : /\ Copied(v) \in Dirs /\ RomTree(v) \in Dirs
                         /\ Copied(v).version = v /\ Copied(v).kind = "bare"
                         /\ RomTree(v).version = v /\ RomTree(v).kind = "set"
  /\ NoDir.kind = "none" /\ Torn.kind = "torn" /\ Foreign.kind = "foreign"
  /\ Dir("empty", 0).kind = "empty" /\ Copied(0).kind = "bare"
  /\ 1 \in Versions /\ Versions \subseteq Nat
<1>1. 1 \in Versions /\ Versions \subseteq Nat
  BY VersionAssumption DEF Versions
<1>2. \A k \in {"none", "empty", "bare", "torn", "foreign"} : Dir(k, 0) \in Dirs
  BY DEF Dirs
<1>3. \A v \in Versions : Dir("bare", v) \in Dirs /\ Dir("set", v) \in Dirs
  BY DEF Dirs
<1>4. \A k, v : Dir(k, v).kind = k /\ Dir(k, v).version = v
  BY DEF Dir
<1>5. QED
  BY <1>1, <1>2, <1>3, <1>4 DEF NoDir, Torn, Foreign, Copied, RomTree

LEMMA ApartFacts ==
  Apart \subseteq Dirs /\ \A d \in Apart : d.kind \in {"torn", "bare", "empty"}
BY DirFacts DEF Apart

(* A directory of a new set has the version of the stock tree it was       *)
(* copied from.                                                            *)
Built(c) ==
  /\ pc[c] = "fill" => tmp[c].version \in Versions
TypeInv == TypeOK /\ \A c \in Preparers : Built(c)

LEMMA OptionsType ==
  ASSUME opts \in [Preparers -> [refresh : BOOLEAN, replacing : BOOLEAN, moved : BOOLEAN]],
         NEW c \in Preparers, NEW b \in BOOLEAN
  PROVE  /\ [opts EXCEPT ![c].replacing = b]
              \in [Preparers -> [refresh : BOOLEAN, replacing : BOOLEAN, moved : BOOLEAN]]
         /\ [opts EXCEPT ![c].moved = b]
              \in [Preparers -> [refresh : BOOLEAN, replacing : BOOLEAN, moved : BOOLEAN]]
OBVIOUS

(* What a step of a command may do to the types: it moves on, and puts     *)
(* directories where directories are.                                      *)
LEMMA MovesOn ==
  ASSUME TypeInv, NEW c \in Preparers, NEW to \in Steps, pc' = [pc EXCEPT ![c] = to],
         final' \in Dirs, tmp' \in [Preparers -> Dirs], old' \in [Preparers -> Dirs],
         opts' \in [Preparers -> [refresh : BOOLEAN, replacing : BOOLEAN, moved : BOOLEAN]],
         left' \subseteq Dirs, source' \in Versions,
         began' \in [Preparers -> [final : Dirs, source : Versions]],
         overlapped' \in BOOLEAN, had' \in BOOLEAN,
         \A d \in Preparers : d # c => tmp'[d] = tmp[d],
         to = "fill" => tmp'[c].version \in Versions
  PROVE  TypeInv'
BY DEF TypeInv, TypeOK, Built

LEMMA StepType ==
  ASSUME TypeInv, NEW c \in Preparers, Step(c), had' \in BOOLEAN PROVE TypeInv'
<1> USE DEF TypeInv, TypeOK, hist, dirs, Goto, Steps
<1>1. UNCHANGED <<source, began, overlapped>>
  BY DEF Step
<1>2. CASE \E from, to \in Steps \ {"fill"} : Look(c, from, to)
  <2>1. PICK from, to \in Steps \ {"fill"} : Look(c, from, to)
    BY <1>2
  <2>2. pc' = [pc EXCEPT ![c] = to] /\ UNCHANGED <<final, tmp, old, left, opts>>
    BY <2>1 DEF Look
  <2>3. QED
    BY <1>1, <2>2, MovesOn
<1>3. CASE Replacing(c)
  BY <1>1, <1>3, MovesOn, OptionsType DEF Replacing, Exists
<1>4. CASE Copy(c)
  BY ZenonT(60), <1>1, <1>4, MovesOn, DirFacts DEF Copy
<1>4a. CASE CopyRaises(c)
  BY ZenonT(60), <1>1, <1>4a, MovesOn, DirFacts DEF CopyRaises
<1>5. CASE Fill(c)
  BY <1>1, <1>5, MovesOn, DirFacts DEF Fill, Built
<1>6. CASE MoveOld(c)
  BY <1>1, <1>6, MovesOn, DirFacts, OptionsType DEF MoveOld
<1>7. CASE MoveNew(c)
  BY <1>1, <1>7, MovesOn, DirFacts DEF MoveNew
<1>8. CASE Cleanup(c)
  <2>1. PICK d \in Apart : old' = [old EXCEPT ![c] = d]
    BY <1>8 DEF Cleanup
  <2>2. /\ old' \in [Preparers -> Dirs] /\ pc' = [pc EXCEPT ![c] = "cleaning"]
        /\ UNCHANGED <<final, tmp, left, opts>>
    BY <1>8, <2>1, ApartFacts DEF Cleanup
  <2>3. QED
    BY <1>1, <2>2, MovesOn
<1>8a. CASE Cleaned(c)
  BY <1>1, <1>8a, MovesOn, DirFacts DEF Cleaned
<1>9. CASE RemoveTmp(c)
  BY <1>1, <1>9, MovesOn, DirFacts DEF RemoveTmp
<1>10. CASE Remove(c) \/ Removing(c)
  <2>1. /\ final' \in Apart \union {NoDir}
        /\ UNCHANGED <<tmp, old, left, opts>>
        /\ \E to \in {"removing", "restore"} : pc' = [pc EXCEPT ![c] = to]
    BY <1>10 DEF Remove, Removing
  <2>2. final' \in Dirs
    BY <2>1, ApartFacts, DirFacts
  <2>3. QED
    BY <1>1, <2>1, <2>2, MovesOn
<1>11. CASE Restore(c)
  <2>1. /\ final' = old[c] /\ old' = [old EXCEPT ![c] = NoDir]
        /\ pc' = [pc EXCEPT ![c] = "error"] /\ UNCHANGED <<tmp, left, opts>>
    BY <1>11 DEF Restore
  <2>2. QED
    BY <1>1, <2>1, MovesOn, DirFacts
<1>12. CASE ExistsStep(c) \/ Reuse(c) \/ Manifest(c) \/ Verify(c) \/ Raise(c) \/ Blocked(c)
            \/ EndsRaised(c)
  <2>1. CASE ExistsStep(c)
    BY <1>2, <2>1 DEF ExistsStep
  <2>2. CASE Reuse(c)
    BY <1>2, <2>2 DEF Reuse
  <2>3. CASE Manifest(c)
    BY <1>2, <2>3 DEF Manifest
  <2>4. CASE Verify(c)
    BY <1>2, <2>4 DEF Verify
  <2>5. CASE Raise(c)
    <3>1. PICK from \in {"copy", "fill", "moveOld", "moveNew", "verify"} :
             Look(c, from, "removeTmp")
      BY <2>5 DEF Raise
    <3>2. /\ pc' = [pc EXCEPT ![c] = "removeTmp"]
          /\ UNCHANGED <<final, tmp, old, left, opts>>
      BY <3>1 DEF Look
    <3>3. QED
      BY <1>1, <3>2, MovesOn
  <2>6. CASE Blocked(c)
    BY <1>2, <2>6 DEF Blocked
  <2>7. CASE EndsRaised(c)
    BY <1>2, <2>7 DEF EndsRaised
  <2>8. QED
    BY <1>12, <2>1, <2>2, <2>3, <2>4, <2>5, <2>6, <2>7
<1>13. QED
  BY <1>3, <1>4, <1>4a, <1>5, <1>6, <1>7, <1>8, <1>8a, <1>9, <1>10, <1>11, <1>12 DEF Step

LEMMA InitType == Init => TypeInv
<1> SUFFICES ASSUME Init PROVE TypeInv
  OBVIOUS
<1>1. final \in Dirs
  BY DirFacts DEF Init
<1>2. had \in BOOLEAN
  BY DEF Init, Valid
<1>3. Nothing \in [Preparers -> [final : Dirs, source : Versions]]
  BY DirFacts DEF Nothing
<1>4. QED
  BY <1>1, <1>2, <1>3, DirFacts DEF Init, TypeInv, TypeOK, Built, NoOpts, Steps

LEMMA BeginType ==
  ASSUME TypeInv, NEW c \in Preparers, Begin(c), had' \in BOOLEAN PROVE TypeInv'
<1> USE DEF TypeInv, TypeOK
<1>1. began' \in [Preparers -> [final : Dirs, source : Versions]]
  BY DirFacts DEF Begin, Nothing
<1>2. opts' \in [Preparers -> [refresh : BOOLEAN, replacing : BOOLEAN, moved : BOOLEAN]]
  <2>1. PICK r \in BOOLEAN : opts' = [opts EXCEPT ![c] = [NoOpts EXCEPT !.refresh = r]]
    BY DEF Begin
  <2>2. [NoOpts EXCEPT !.refresh = r] \in [refresh : BOOLEAN, replacing : BOOLEAN, moved : BOOLEAN]
    BY DEF NoOpts
  <2>3. QED
    BY <2>1, <2>2
<1>3. overlapped' \in BOOLEAN
  BY DEF Begin
<1>4. pc' = [pc EXCEPT ![c] = "exists"] /\ UNCHANGED <<final, tmp, old, left, source>>
  BY DEF Begin, Goto, dirs
<1>5. QED
  BY <1>1, <1>2, <1>3, <1>4, MovesOn DEF Steps

LEMMA LeaveType ==
  ASSUME TypeInv, NEW c \in Preparers, Leave(c), had' \in BOOLEAN PROVE TypeInv'
<1> USE DEF TypeInv, TypeOK
<1>1. /\ pc' = [pc EXCEPT ![c] = "idle"] /\ left' \subseteq Dirs
      /\ tmp' = [tmp EXCEPT ![c] = NoDir] /\ old' = [old EXCEPT ![c] = NoDir]
      /\ UNCHANGED <<final, source, began, overlapped>>
  BY DEF Leave, hist
<1>2. opts' \in [Preparers -> [refresh : BOOLEAN, replacing : BOOLEAN, moved : BOOLEAN]]
  BY DEF Leave, NoOpts
<1>3. QED
  BY <1>1, <1>2, DirFacts, MovesOn DEF Steps

LEMMA NextType == TypeInv /\ [Next]_vars => TypeInv'
<1> SUFFICES ASSUME TypeInv, [Next]_vars PROVE TypeInv'
  OBVIOUS
<1>1. CASE UNCHANGED vars
  BY <1>1 DEF vars, dirs, hist, TypeInv, TypeOK, Built
<1>2. CASE Next
  <2>1. had' \in BOOLEAN
    BY <1>2 DEF Next, TypeInv, TypeOK
  <2>2. CASE \E c \in Preparers : Step(c) \/ Begin(c) \/ Leave(c)
    BY <2>1, <2>2, StepType, BeginType, LeaveType
  <2>3. CASE NewSource
    <3>1. source' \in Versions
      BY <2>3, VersionAssumption DEF NewSource, TypeInv, TypeOK, Versions
    <3>2. QED
      BY <2>1, <2>3, <3>1 DEF NewSource, dirs, hist, TypeInv, TypeOK, Built
  <2>4. QED
    BY <1>2, <2>2, <2>3 DEF Next
<1>3. QED
  BY <1>1, <1>2

(* Every variable has its type. *)
THEOREM TypeCorrect == Spec => []TypeOK
<1>1. TypeInv => TypeOK
  BY DEF TypeInv
<1>2. QED
  BY <1>1, InitType, NextType, PTL DEF Spec

-----------------------------------------------------------------------------
(* Foreign directories.  While one has the name, no command is past the    *)
(* tests that refuse it; none ever comes under the name, since no command  *)
(* moves one.                                                              *)
Refusing == {"idle", "exists", "reuse", "look", "manifest", "error", "raised"}
ForeignInv ==
  /\ final.kind = "foreign" => \A c \in Preparers : pc[c] \in Refusing
  /\ \A c \in Preparers : tmp[c].kind # "foreign" /\ old[c].kind # "foreign"

LEMMA InitForeign == Init => ForeignInv
BY DirFacts DEF Init, ForeignInv, Refusing

LEMMA StepForeign ==
  ASSUME TypeInv, ForeignInv, NEW c \in Preparers, Step(c)
  PROVE  ForeignInv' /\ (final.kind = "foreign" => final' = final)
<1> USE DEF TypeInv, TypeOK, ForeignInv, Goto, Refusing
<1>1. CASE ExistsStep(c) \/ Reuse(c) \/ Manifest(c) \/ Verify(c) \/ Raise(c) \/ Blocked(c)
           \/ EndsRaised(c)
  BY <1>1 DEF ExistsStep, Reuse, Manifest, Verify, Raise, Blocked, EndsRaised, Look, dirs,
              Valid, Recognised
<1>2. CASE Replacing(c)
  BY <1>2 DEF Replacing, dirs, Exists
<1>3. CASE Copy(c) \/ CopyRaises(c) \/ Fill(c)
  <2>1. /\ pc[c] \in {"copy", "fill"} /\ UNCHANGED <<final, old>>
        /\ \E d : d.kind # "foreign" /\ tmp' = [tmp EXCEPT ![c] = d]
        /\ \E to : pc' = [pc EXCEPT ![c] = to]
    BY <1>3 DEF Copy, CopyRaises, Fill, Copied, RomTree, Dir
  <2>2. QED
    BY <2>1
<1>4. CASE MoveOld(c)
  <2>1. /\ pc[c] = "moveOld" /\ pc' = [pc EXCEPT ![c] = "moveNew"] /\ tmp' = tmp
        /\ final' = NoDir /\ old' = [old EXCEPT ![c] = final]
    BY <1>4 DEF MoveOld
  <2>2. final.kind # "foreign"
    BY <2>1
  <2>3. QED
    BY <2>1, <2>2, DirFacts
<1>5. CASE MoveNew(c)
  BY <1>5, DirFacts DEF MoveNew
<1>6. CASE Cleanup(c) \/ Cleaned(c) \/ RemoveTmp(c)
  <2>1. /\ pc[c] \in {"cleanup", "cleaning", "removeTmp"} /\ final' = final
        /\ \E to : pc' = [pc EXCEPT ![c] = to]
        /\ tmp' \in {tmp, [tmp EXCEPT ![c] = NoDir]}
        /\ old' = old \/ \E d \in Apart \union {NoDir} : old' = [old EXCEPT ![c] = d]
    BY <1>6 DEF Cleanup, Cleaned, RemoveTmp
  <2>2. final'.kind # "foreign"
    BY <2>1
  <2>3. \A d \in Preparers : tmp'[d].kind # "foreign"
    BY <2>1, DirFacts
  <2>4. \A d \in Preparers : old'[d].kind # "foreign"
    <3>1. \A d \in Apart \union {NoDir} : d.kind # "foreign"
      BY DirFacts, ApartFacts
    <3>2. QED
      BY <2>1, <3>1
  <2>5. QED
    BY <2>1, <2>2, <2>3, <2>4
<1>7. CASE Remove(c) \/ Removing(c)
  <2>1. /\ pc[c] \in {"remove", "removing"}
        /\ final' \in Apart \union {NoDir}
        /\ UNCHANGED <<tmp, old>>
    BY <1>7 DEF Remove, Removing
  <2>2. final'.kind # "foreign" /\ final.kind # "foreign"
    BY <2>1, DirFacts, ApartFacts
  <2>3. QED
    BY <2>1, <2>2
<1>8. CASE Restore(c)
  <2>1. pc[c] = "restore" /\ pc' = [pc EXCEPT ![c] = "error"] /\ tmp' = tmp
    BY <1>8 DEF Restore, Look, dirs
  <2>2. /\ final' \in {final, old[c]}
        /\ old' \in {old, [old EXCEPT ![c] = NoDir]}
    BY <1>8 DEF Restore, Look, dirs
  <2>3. final.kind # "foreign" /\ final'.kind # "foreign"
    BY <2>1, <2>2
  <2>4. QED
    BY <2>1, <2>2, <2>3, DirFacts
<1>9. QED
  BY <1>1, <1>2, <1>3, <1>4, <1>5, <1>6, <1>7, <1>8 DEF Step

LEMMA NextForeign ==
  ASSUME TypeInv, ForeignInv, [Next]_vars
  PROVE  ForeignInv' /\ (final.kind = "foreign" => final' = final)
<1>1. ASSUME NEW c \in Preparers, Begin(c) \/ Leave(c)
      PROVE  ForeignInv' /\ final' = final
  <2>1. /\ final' = final /\ \E to \in {"exists", "idle"} : pc' = [pc EXCEPT ![c] = to]
        /\ tmp' \in {tmp, [tmp EXCEPT ![c] = NoDir]}
        /\ old' \in {old, [old EXCEPT ![c] = NoDir]}
    BY <1>1 DEF Begin, Leave, Goto, dirs
  <2>2. \A d \in Preparers : pc[d] \in Refusing => pc'[d] \in Refusing
    BY <2>1 DEF TypeInv, TypeOK, Refusing
  <2>3. \A d \in Preparers : tmp'[d].kind # "foreign" /\ old'[d].kind # "foreign"
    BY <2>1, DirFacts DEF TypeInv, TypeOK, ForeignInv
  <2>4. QED
    BY <2>1, <2>2, <2>3 DEF ForeignInv
<1>2. CASE NewSource \/ UNCHANGED vars
  BY <1>2 DEF NewSource, vars, dirs, ForeignInv
<1>3. QED
  BY <1>1, <1>2, StepForeign DEF Next

(* prepare_model80_type2_rom_set refuses a directory without a manifest of *)
(* its own, and no rename, rollback or copy of another command reaches it. *)
THEOREM ForeignNeverTouched == Spec => ForeignKept
<1>1. Init => TypeInv /\ ForeignInv
  BY InitType, InitForeign
<1>2. TypeInv /\ ForeignInv /\ [Next]_vars => (TypeInv /\ ForeignInv)'
  BY NextType, NextForeign
<1>3. TypeInv /\ ForeignInv /\ [Next]_vars => [final.kind = "foreign" => final' = final]_vars
  BY NextForeign
<1>4. QED
  BY <1>1, <1>2, <1>3, PTL DEF Spec, ForeignKept

-----------------------------------------------------------------------------
(* A command that runs alone.  Found(c) is what it found under the name;   *)
(* New says that a set no older than the stock tree it began with stands   *)
(* there.                                                                  *)
Found(c)  == began[c].final
New(d, c) == Valid(d) /\ d.version >= began[c].source

(* Where the command is in its two renames: it has moved nothing, or moved *)
(* what it found away, or put its own set there.                           *)
NotMoved(c) == ~opts[c].moved /\ final = Found(c)
MovedOld(c) == opts[c].moved /\ Exists(Found(c)) /\ old[c] = Found(c)
PutNew(c)   == \/ MovedOld(c) /\ Valid(final)
               \/ ~opts[c].moved /\ ~Exists(Found(c)) /\ Valid(final)
MovedAway(c) == MovedOld(c) /\ final = NoDir

(* What a command that runs alone knows at each of its steps. *)
KnowsAlone(c) ==
  /\ pc[c] # "idle" => source >= began[c].source
  /\ pc[c] \in {"exists", "reuse", "look", "manifest", "copy", "fill", "moveOld"} => NotMoved(c)
  /\ pc[c] = "reuse" => ~opts[c].refresh
  /\ pc[c] \in {"copy", "fill"} => opts[c].replacing = Exists(final)
  /\ pc[c] = "manifest" => opts[c].replacing /\ Exists(final)
  /\ pc[c] = "fill" => tmp[c].version >= began[c].source
  /\ pc[c] = "moveOld" => Exists(final)
  /\ pc[c] = "moveNew" => MovedAway(c) \/ (NotMoved(c) /\ ~Exists(final))
  /\ pc[c] \in {"moveOld", "moveNew"} => New(tmp[c], c)
  /\ pc[c] = "verify" => PutNew(c)
  /\ pc[c] \in {"verify", "cleanup", "cleaning"} => New(final, c)
  /\ pc[c] = "removeTmp" => NotMoved(c) \/ MovedAway(c) \/ (PutNew(c) /\ New(final, c))
  /\ pc[c] = "blocked" => MovedAway(c) \/ (MovedOld(c) /\ Valid(final))
  /\ pc[c] = "remove" => MovedOld(c) /\ Valid(final)
  /\ pc[c] = "removing" => MovedOld(c) /\ final.kind \in {"torn", "bare", "empty"}
  /\ pc[c] = "restore" => MovedAway(c)
  /\ pc[c] = "ok" => Valid(final) /\ (opts[c].refresh => New(final, c))
  /\ pc[c] = "error" => final = Found(c) \/ (~Exists(Found(c)) /\ Valid(final))
  /\ pc[c] = "raised" => final = Found(c) \/ (Exists(Found(c)) /\ old[c] = Found(c)) \/ New(final, c)

AloneInv ==
  ~overlapped => /\ \A c, d \in Preparers : c = d \/ pc[c] = "idle" \/ pc[d] = "idle"
                 /\ \A c \in Preparers : KnowsAlone(c)

(* A command that is idle knows nothing, and no other one runs: only what  *)
(* the command that takes the step knows has to be looked at.              *)
LEMMA StepOfAlone ==
  ASSUME TypeInv, NEW c \in Preparers, NEW to, pc' = [pc EXCEPT ![c] = to],
         \A d \in Preparers \ {c} : pc[d] = "idle" \/ overlapped',
         ~overlapped' => KnowsAlone(c)'
  PROVE  AloneInv'
BY DEF TypeInv, TypeOK, AloneInv, KnowsAlone

LEMMA StepAlone ==
  ASSUME TypeInv, AloneInv, NEW c \in Preparers, Step(c) PROVE AloneInv'
<1>1. UNCHANGED <<source, began, overlapped>>
  BY DEF Step, hist
<1>2. SUFFICES ASSUME ~overlapped PROVE AloneInv'
  BY <1>1 DEF AloneInv
<1>3. /\ KnowsAlone(c)
      /\ \A d \in Preparers \ {c} : pc[c] = "idle" \/ pc[d] = "idle"
  BY <1>2 DEF AloneInv
<1>4. ASSUME NEW from \in Steps \ {"idle"}, NEW to, Goto(c, from, to), KnowsAlone(c)'
      PROVE  AloneInv'
  BY <1>1, <1>2, <1>3, <1>4, StepOfAlone DEF Goto
<1> USE DEF TypeInv, TypeOK, KnowsAlone, NotMoved, MovedOld, MovedAway, PutNew, New, Found, Exists,
            Valid, Steps
<1>5. CASE ExistsStep(c) \/ Reuse(c) \/ Manifest(c)
  <2>1. Goto(c, pc[c], pc'[c]) /\ pc[c] # "idle" /\ UNCHANGED <<dirs, opts>>
    BY <1>5 DEF ExistsStep, Reuse, Manifest, Look, Goto
  <2>2. KnowsAlone(c)'
    <3>1. CASE ExistsStep(c)
      BY <1>1, <1>3, <2>1, <3>1 DEF ExistsStep, Look, dirs, Goto
    <3>2. CASE Reuse(c)
      BY <1>1, <1>3, <2>1, <3>2 DEF Reuse, Look, dirs, Goto
    <3>3. CASE Manifest(c)
      BY <1>1, <1>3, <2>1, <3>3 DEF Manifest, Look, dirs, Goto
    <3>4. QED
      BY <1>5, <3>1, <3>2, <3>3
  <2>3. QED
    BY <1>4, <2>1, <2>2
<1>6. CASE Replacing(c)
  <2>1. /\ Goto(c, "look", pc'[c]) /\ UNCHANGED dirs
        /\ pc'[c] = IF Exists(final) THEN "manifest" ELSE "copy"
        /\ opts'[c] = [opts[c] EXCEPT !.replacing = Exists(final)]
    BY <1>6 DEF Replacing, Goto
  <2>2. KnowsAlone(c)'
    BY ZenonT(60), <1>1, <1>3, <2>1 DEF dirs, Goto
  <2>3. QED
    BY <1>4, <2>1, <2>2
<1>7. CASE Copy(c)
  <2>1. /\ Goto(c, "copy", "fill") /\ pc'[c] = "fill" /\ UNCHANGED <<final, old, opts>>
        /\ tmp'[c] = Copied(source)
    BY <1>7 DEF Copy, Goto
  <2>2. tmp'[c].version = source /\ source \in Nat
    BY <2>1, DirFacts
  <2>3. KnowsAlone(c)'
    BY <1>1, <1>3, <2>1, <2>2 DEF Goto
  <2>4. QED
    BY <1>4, <2>1, <2>3
<1>7a. CASE CopyRaises(c)
  <2>1. /\ Goto(c, "copy", "removeTmp") /\ pc[c] = "copy" /\ pc'[c] = "removeTmp"
        /\ UNCHANGED <<final, old, opts>>
    BY <1>7a DEF CopyRaises, Goto
  <2>2. KnowsAlone(c)'
    BY <1>1, <1>3, <2>1
  <2>3. QED
    BY <1>4, <2>1, <2>2
<1>8. CASE Fill(c)
  <2>1. /\ pc[c] = "fill" /\ pc'[c] = IF opts[c].replacing THEN "moveOld" ELSE "moveNew"
        /\ Goto(c, "fill", IF opts[c].replacing THEN "moveOld" ELSE "moveNew")
        /\ tmp'[c] = RomTree(tmp[c].version)
        /\ UNCHANGED <<final, old, opts>>
    BY <1>8 DEF Fill, Goto
  <2>2. tmp[c].version \in Versions /\ tmp[c].version >= began[c].source
    BY <1>3, <2>1 DEF Built
  <2>3. Valid(tmp'[c]) /\ tmp'[c].version = tmp[c].version
    BY <2>1, <2>2, DirFacts
  <2>4. KnowsAlone(c)'
    BY <1>1, <1>3, <2>1, <2>2, <2>3
  <2>5. QED
    BY <1>4, <2>1, <2>4
<1>9. CASE MoveOld(c)
  <2>1. /\ pc[c] = "moveOld" /\ pc'[c] = "moveNew" /\ Goto(c, "moveOld", "moveNew")
        /\ final' = NoDir /\ old'[c] = final /\ tmp' = tmp
        /\ opts'[c].moved = TRUE /\ opts'[c].refresh = opts[c].refresh
    BY <1>9 DEF MoveOld, Goto
  <2>2. KnowsAlone(c)'
    BY <1>1, <1>3, <2>1
  <2>3. QED
    BY <1>4, <2>1, <2>2
<1>10. CASE MoveNew(c)
  <2>1. /\ pc[c] = "moveNew" /\ pc'[c] = "verify" /\ Goto(c, "moveNew", "verify")
        /\ final' = tmp[c] /\ UNCHANGED <<old, opts>>
    BY <1>10 DEF MoveNew, Goto
  <2>2. New(final, c)'
    BY <1>1, <1>3, <2>1
  <2>3. KnowsAlone(c)'
    BY <1>1, <1>3, <2>1, <2>2
  <2>4. QED
    BY <1>4, <2>1, <2>3
<1>11. CASE Verify(c) \/ Blocked(c)
  BY <1>1, <1>3, <1>4, <1>11, DirFacts DEF Verify, Blocked, Look, dirs, Goto
<1>11a. CASE EndsRaised(c)
  <2>1. PICK from \in {"removeTmp", "remove", "removing", "restore", "cleanup", "cleaning"} :
           Goto(c, from, "raised") /\ UNCHANGED <<final, tmp, old, opts>>
    BY <1>11a DEF EndsRaised, Look, dirs
  <2>2. pc[c] = from /\ pc'[c] = "raised"
    BY <2>1 DEF Goto
  <2>3. final = Found(c) \/ (Exists(Found(c)) /\ old[c] = Found(c)) \/ New(final, c)
    BY <1>3, <2>2
  <2>4. KnowsAlone(c)'
    BY <1>1, <2>1, <2>2, <2>3, <1>3
  <2>5. QED
    BY <1>4, <2>1, <2>4
<1>12. CASE Raise(c)
  <2>1. PICK from \in {"copy", "fill", "moveOld", "moveNew", "verify"} :
           Goto(c, from, "removeTmp") /\ UNCHANGED <<final, tmp, old, opts>>
    BY <1>12 DEF Raise, Look, dirs
  <2>2. pc[c] = from /\ pc'[c] = "removeTmp"
    BY <2>1 DEF Goto
  <2>3. NotMoved(c) \/ MovedAway(c) \/ (PutNew(c) /\ New(final, c))
    BY <1>3, <2>2
  <2>4. KnowsAlone(c)'
    BY <1>1, <1>3, <2>1, <2>2, <2>3
  <2>5. QED
    BY <1>4, <2>1, <2>4
<1>13. CASE Cleanup(c) \/ Cleaned(c)
  <2>1. /\ pc[c] \in {"cleanup", "cleaning"} /\ pc'[c] \in {"cleaning", "ok"}
        /\ Goto(c, pc[c], pc'[c]) /\ UNCHANGED <<final, tmp, opts>>
    BY <1>13 DEF Cleanup, Cleaned, Goto
  <2>2. KnowsAlone(c)'
    BY <1>1, <1>3, <2>1
  <2>3. QED
    BY <1>4, <2>1, <2>2
<1>14. CASE RemoveTmp(c)
  <2> DEFINE to == IF opts[c].moved /\ Exists(old[c]) THEN "blocked" ELSE "error"
  <2>1. /\ pc[c] = "removeTmp" /\ pc'[c] = to /\ Goto(c, "removeTmp", to)
        /\ UNCHANGED <<final, old, opts>>
    BY <1>14 DEF RemoveTmp, Goto
  <2>2. NotMoved(c) \/ MovedAway(c) \/ PutNew(c)
    BY <1>3, <2>1
  <2>3. to = "blocked" => MovedAway(c) \/ (MovedOld(c) /\ Valid(final))
    BY <2>2
  <2>4. to # "blocked" => to = "error" /\ (final = Found(c) \/ (~Exists(Found(c)) /\ Valid(final)))
    BY <2>2
  <2> HIDE DEF to
  <2>5. KnowsAlone(c)'
    BY <1>1, <1>3, <2>1, <2>3, <2>4
  <2>6. QED
    BY <1>4, <2>1, <2>5
<1>15. CASE Remove(c)
  <2>1. /\ pc[c] = "remove" /\ pc'[c] = "removing" /\ Goto(c, "remove", "removing")
        /\ final' \in Apart /\ UNCHANGED <<tmp, old, opts>>
    BY <1>15 DEF Remove, Goto
  <2>2. final'.kind \in {"torn", "bare", "empty"}
    BY <2>1, ApartFacts
  <2>3. KnowsAlone(c)'
    BY <1>1, <1>3, <2>1, <2>2
  <2>4. QED
    BY <1>4, <2>1, <2>3
<1>16. CASE Removing(c)
  BY <1>1, <1>3, <1>4, <1>16, DirFacts DEF Removing, Goto
<1>17. CASE Restore(c)
  <2>1. Goto(c, "restore", "error") /\ pc[c] = "restore" /\ pc'[c] = "error"
    BY <1>17 DEF Restore, Goto
  <2>2. final = NoDir /\ old[c] = Found(c)
    BY <1>3, <2>1
  <2>3. final' = Found(c) /\ UNCHANGED <<source, began>>
    BY <1>1, <1>17, <2>2 DEF Restore
  <2>4. KnowsAlone(c)'
    BY <1>3, <2>1, <2>3
  <2>5. QED
    BY <1>4, <2>1, <2>4
<1>18. QED
  BY <1>5, <1>6, <1>7, <1>7a, <1>8, <1>9, <1>10, <1>11, <1>11a, <1>12, <1>13, <1>14, <1>15,
     <1>16, <1>17
  DEF Step

LEMMA BeginAlone ==
  ASSUME TypeInv, AloneInv, NEW c \in Preparers, Begin(c) PROVE AloneInv'
<1>1. /\ pc[c] = "idle" /\ pc' = [pc EXCEPT ![c] = "exists"]
      /\ overlapped' = (overlapped \/ \E d \in Preparers : pc[d] # "idle")
      /\ UNCHANGED <<final, source>>
  BY DEF Begin, Goto, dirs
<1>2. \A d \in Preparers \ {c} : pc[d] = "idle" \/ overlapped'
  BY <1>1
<1>3. ASSUME ~overlapped' PROVE KnowsAlone(c)'
  <2>1. began' = [Nothing EXCEPT ![c] = [final |-> final, source |-> source]]
    BY <1>3 DEF Begin
  <2>2. began'[c] = [final |-> final, source |-> source]
    BY <2>1 DEF Nothing
  <2>3. ~opts'[c].moved
    BY DEF Begin, NoOpts, TypeInv, TypeOK
  <2>4. source' >= began'[c].source /\ pc'[c] = "exists"
    BY <1>1, <2>2, DirFacts DEF TypeInv, TypeOK
  <2>5. NotMoved(c)'
    BY <1>1, <2>2, <2>3 DEF NotMoved, Found
  <2>6. QED
    BY <2>4, <2>5 DEF KnowsAlone
<1>4. QED
  BY <1>1, <1>2, <1>3, StepOfAlone

LEMMA LeaveAlone ==
  ASSUME TypeInv, AloneInv, NEW c \in Preparers, Leave(c) PROVE AloneInv'
<1>1. pc[c] # "idle" /\ pc' = [pc EXCEPT ![c] = "idle"] /\ UNCHANGED overlapped
  BY DEF Leave, hist
<1>2. \A d \in Preparers \ {c} : pc[d] = "idle" \/ overlapped'
  BY <1>1 DEF AloneInv
<1>3. KnowsAlone(c)'
  BY <1>1 DEF TypeInv, TypeOK, KnowsAlone
<1>4. QED
  BY <1>1, <1>2, <1>3, StepOfAlone

(* A newer stock tree makes no set older than it was. *)
LEMMA NewSourceAlone ==
  ASSUME TypeInv, AloneInv, NewSource PROVE AloneInv'
<1>1. source' = source + 1 /\ source \in Nat /\ UNCHANGED <<dirs, pc, opts, hist>>
  BY DirFacts DEF NewSource, TypeInv, TypeOK
<1>2. \A c \in Preparers : began[c].source \in Nat
  BY DirFacts DEF TypeInv, TypeOK
<1>3. ASSUME NEW c \in Preparers, KnowsAlone(c) PROVE KnowsAlone(c)'
  BY <1>1, <1>2, <1>3
  DEF dirs, hist, KnowsAlone, NotMoved, MovedOld, MovedAway, PutNew, New, Found
<1>4. QED
  BY <1>1, <1>3 DEF hist, AloneInv

LEMMA InitAlone == Init => AloneInv
BY DEF Init, AloneInv, KnowsAlone

LEMMA NextAlone == TypeInv /\ AloneInv /\ [Next]_vars => AloneInv'
<1> SUFFICES ASSUME TypeInv, AloneInv, [Next]_vars PROVE AloneInv'
  OBVIOUS
<1>1. CASE UNCHANGED vars
  BY <1>1 DEF vars, dirs, hist, AloneInv, KnowsAlone, NotMoved, MovedOld, MovedAway, PutNew,
              New, Found
<1>2. QED
  BY <1>1, StepAlone, BeginAlone, LeaveAlone, NewSourceAlone DEF Next

(* The roll-back of prepare_model80_type2_rom_set: a command that fails    *)
(* has put back what it found, whichever operation of the try block        *)
(* failed; and where one of the roll-back or of the clean-up fails too,    *)
(* what it found stands under its hidden name, or the new set in place.    *)
THEOREM FailureChangesNothing == Spec => []FailureUndone
<1>1. Init => TypeInv /\ AloneInv
  BY InitType, InitAlone
<1>2. TypeInv /\ AloneInv /\ [Next]_vars => (TypeInv /\ AloneInv)'
  BY NextType, NextAlone
<1>3. TypeInv /\ AloneInv => FailureUndone
  BY DEF AloneInv, KnowsAlone, FailureUndone, Found, New
<1>4. QED
  BY <1>1, <1>2, <1>3, PTL DEF Spec

(* A command that succeeds leaves a valid set, and one that was asked for  *)
(* a refresh has copied the stock ROMs as they were when it began, or      *)
(* later ones.                                                             *)
THEOREM SuccessIsCurrent == Spec => []ReturnsCurrent
<1>1. Init => TypeInv /\ AloneInv
  BY InitType, InitAlone
<1>2. TypeInv /\ AloneInv /\ [Next]_vars => (TypeInv /\ AloneInv)'
  BY NextType, NextAlone
<1>3. TypeInv /\ AloneInv => ReturnsCurrent
  BY DEF AloneInv, KnowsAlone, ReturnsCurrent, New
<1>4. QED
  BY <1>1, <1>2, <1>3, PTL DEF Spec

-----------------------------------------------------------------------------
(***************************************************************************)
(* The theorem that a ROM set survives: however many commands rebuild it   *)
(* at once, fail, roll back over each other and are killed, a whole set    *)
(* stays under its name or a hidden one.  The argument counts.  A roll-    *)
(* back takes the directory under the name apart, which may be a whole     *)
(* one; another command may meet it torn, move it away for the old set and *)
(* put it back later in place of a whole one.  But every torn directory    *)
(* about is matched by a command that has made one and still holds a whole *)
(* set, or that set has been left behind by a command that was killed.     *)
(***************************************************************************)

Whole == \E d \in left : Valid(d)

(* Torn directories about: under the name, or held by a command that may   *)
(* yet put it there.                                                       *)
Broken(d) == d.kind \in {"empty", "bare", "torn"}
Rolling   == {"moveNew", "verify", "removeTmp", "blocked", "remove", "restore"}
Holders   == {c \in Preparers : Broken(old[c]) /\ pc[c] \in Rolling}
TornInPlace == IF Broken(final) THEN 1 ELSE 0

(* Commands that have taken a set apart and hold a whole one.              *)
Keepers == {c \in Preparers : Valid(old[c]) /\ pc[c] \in {"removing", "error", "raised"}}

Counted == Cardinality(Holders) + TornInPlace <= Cardinality(Keepers)

(* What a command holds at its steps. *)
Holds(c) ==
  /\ pc[c] \in {"idle", "exists", "reuse", "look", "manifest", "copy", "fill", "moveOld"}
       => old[c] = NoDir
  /\ pc[c] \in {"moveOld", "moveNew"} => Valid(tmp[c])
  /\ pc[c] \in {"blocked", "remove", "removing", "restore"} => Exists(old[c])

(* A whole set that no clean-up is about to remove. *)
Safe ==
  \/ Whole \/ Valid(final)
  \/ \E d \in Preparers : /\ Valid(old[d])
                         /\ pc[d] \in Rolling \union {"removing", "error", "raised"}

SurvivalInv ==
  /\ TypeInv /\ ForeignInv
  /\ \A c \in Preparers : Holds(c)
  /\ Whole \/ Counted
  /\ (\E c \in Preparers : pc[c] = "ok") => had
  /\ had \/ (\E c \in Preparers : pc[c] \in {"cleanup", "cleaning"}) => Safe

-----------------------------------------------------------------------------
(* Counting.  A step of the command c changes only its own membership in   *)
(* the two sets.                                                           *)
Member(x, S) == IF x \in S THEN 1 ELSE 0

LEMMA CountWithout ==
  ASSUME NEW S \in SUBSET Preparers, NEW x
  PROVE  /\ Cardinality(S) \in Nat /\ Cardinality(S \ {x}) \in Nat
         /\ Cardinality(S) = Cardinality(S \ {x}) + Member(x, S)
<1>1. IsFiniteSet(S) /\ IsFiniteSet(S \ {x})
  BY PreparersAssumption, FS_Subset
<1>2. Cardinality(S) \in Nat /\ Cardinality(S \ {x}) \in Nat
  BY <1>1, FS_CardinalityType
<1>3. Cardinality(S \ {x}) = IF x \in S THEN Cardinality(S) - 1 ELSE Cardinality(S)
  BY <1>1, FS_RemoveElement
<1>4. CASE x \in S
  BY <1>2, <1>3, <1>4 DEF Member
<1>5. CASE x \notin S
  BY <1>2, <1>3, <1>5 DEF Member
<1>6. QED
  BY <1>2, <1>4, <1>5

(* What a step may do to the two sides of the count.                       *)
NoNewHolder(c)  == c \in Holders' => c \in Holders
KeeperStays(c)  == c \in Keepers => c \in Keepers'
NoneTorn(c)     == NoNewHolder(c) /\ KeeperStays(c) /\ (Broken(final') => Broken(final))
TornTaken(c)    == c \notin Holders /\ KeeperStays(c) /\ Broken(final) /\ ~Broken(final')
TornPutBack(c)  == c \in Holders /\ c \notin Holders' /\ KeeperStays(c)
TakenApart(c)   == NoNewHolder(c) /\ c \notin Keepers /\ c \in Keepers'
TornCleared(c)  == NoNewHolder(c) /\ Broken(final) /\ ~Broken(final')

LEMMA Balance ==
  ASSUME NEW c \in Preparers, Counted,
         Holders' \ {c} = Holders \ {c}, Keepers' \ {c} = Keepers \ {c},
         NoneTorn(c) \/ TornTaken(c) \/ TornPutBack(c) \/ TakenApart(c) \/ TornCleared(c)
  PROVE  Counted'
<1> DEFINE a == Cardinality(Holders \ {c})
           b == Cardinality(Keepers \ {c})
<1>1. /\ a \in Nat /\ Cardinality(Holders) = a + Member(c, Holders)
      /\ Cardinality(Holders') = a + Member(c, Holders')
  <2>1. Holders \in SUBSET Preparers /\ Holders' \in SUBSET Preparers
    BY DEF Holders
  <2>2. QED
    BY <2>1, CountWithout
<1>2. /\ b \in Nat /\ Cardinality(Keepers) = b + Member(c, Keepers)
      /\ Cardinality(Keepers') = b + Member(c, Keepers')
  <2>1. Keepers \in SUBSET Preparers /\ Keepers' \in SUBSET Preparers
    BY DEF Keepers
  <2>2. QED
    BY <2>1, CountWithout
<1>3. /\ Member(c, Holders) \in {0, 1} /\ Member(c, Holders') \in {0, 1}
      /\ Member(c, Keepers) \in {0, 1} /\ Member(c, Keepers') \in {0, 1}
      /\ TornInPlace \in {0, 1} /\ TornInPlace' \in {0, 1}
  BY DEF Member, TornInPlace
<1>4. Member(c, Holders') + TornInPlace' + Member(c, Keepers)
        <= Member(c, Holders) + TornInPlace + Member(c, Keepers')
  BY DEF Member, TornInPlace, NoneTorn, TornTaken, TornPutBack, TakenApart, TornCleared,
         NoNewHolder, KeeperStays
<1> HIDE DEF a, b
<1>5. a + Member(c, Holders') + TornInPlace' <= b + Member(c, Keepers')
  BY <1>1, <1>2, <1>3, <1>4 DEF Counted
<1>6. QED
  BY <1>1, <1>2, <1>5 DEF Counted

LEMMA OnlyOwn ==
  ASSUME TypeInv, NEW c \in Preparers, NEW to, pc' = [pc EXCEPT ![c] = to],
         \A x \in Preparers \ {c} : old'[x] = old[x]
  PROVE  Holders' \ {c} = Holders \ {c} /\ Keepers' \ {c} = Keepers \ {c}
BY DEF TypeInv, TypeOK, Holders, Keepers

-----------------------------------------------------------------------------
(* What each step does to the name and to the command's own directories.   *)
LEMMA QuietStep ==
  ASSUME TypeInv, NEW c \in Preparers, NEW from \in Steps, NEW to \in Steps, Goto(c, from, to),
         UNCHANGED <<final, old>>, Counted,
         to \in Rolling => from \in Rolling \/ old[c] = NoDir,
         from \in {"removing", "error", "raised"} => to \in {"removing", "error", "raised"}
  PROVE  Counted'
<1>1. pc[c] = from /\ pc' = [pc EXCEPT ![c] = to] /\ pc'[c] = to
  BY DEF Goto, TypeInv, TypeOK
<1>2. Holders' \ {c} = Holders \ {c} /\ Keepers' \ {c} = Keepers \ {c}
  BY <1>1, OnlyOwn
<1>3. NoNewHolder(c)
  BY <1>1, DirFacts DEF NoNewHolder, Holders, Broken
<1>4. KeeperStays(c)
  BY <1>1 DEF KeeperStays, Keepers
<1>5. QED
  BY <1>2, <1>3, <1>4, Balance DEF NoneTorn

LEMMA StepCounted ==
  ASSUME TypeInv, ForeignInv, NEW c \in Preparers, Holds(c), Step(c), Counted
  PROVE  Counted'
<1>1. \A from, to \in Steps : Look(c, from, to) => Goto(c, from, to) /\ UNCHANGED <<final, old>>
  BY DEF Look, dirs
<1>2. CASE ExistsStep(c)
  BY <1>1, <1>2, QuietStep DEF ExistsStep, Steps, Rolling
<1>3. CASE Reuse(c)
  BY <1>1, <1>3, QuietStep DEF Reuse, Steps, Rolling
<1>4. CASE Replacing(c)
  BY <1>4, QuietStep DEF Replacing, Steps, Rolling, dirs
<1>5. CASE Manifest(c)
  BY <1>1, <1>5, QuietStep DEF Manifest, Steps, Rolling
<1>6. CASE Copy(c)
  BY <1>6, QuietStep DEF Copy, Steps, Rolling
<1>6a. CASE CopyRaises(c)
  <2>1. pc[c] = "copy" /\ old[c] = NoDir
    BY <1>6a DEF CopyRaises, Goto, Holds
  <2>2. QED
    BY <1>6a, <2>1, QuietStep DEF CopyRaises, Steps, Rolling
<1>7. CASE Fill(c)
  <2>1. pc[c] = "fill" /\ old[c] = NoDir
    BY <1>7 DEF Fill, Goto, Holds
  <2>2. QED
    BY <1>7, <2>1, QuietStep DEF Fill, Steps, Rolling
<1>8. CASE Verify(c)
  BY <1>1, <1>8, QuietStep DEF Verify, Steps, Rolling
<1>9. CASE Raise(c)
  <2>1. PICK from \in {"copy", "fill", "moveOld", "moveNew", "verify"} : Look(c, from, "removeTmp")
    BY <1>9 DEF Raise
  <2>2. pc[c] = from /\ Goto(c, from, "removeTmp") /\ UNCHANGED <<final, old>>
    BY <2>1 DEF Look, Goto, dirs
  <2>3. from \in {"moveNew", "verify"} \/ old[c] = NoDir
    BY <2>2 DEF Holds
  <2>4. QED
    BY <2>2, <2>3, QuietStep DEF Steps, Rolling
<1>10. CASE RemoveTmp(c)
  BY <1>10, QuietStep DEF RemoveTmp, Steps, Rolling
<1>11. CASE Blocked(c)
  BY <1>1, <1>11, QuietStep DEF Blocked, Steps, Rolling
<1>12. CASE EndsRaised(c)
  <2>1. PICK from \in {"removeTmp", "remove", "removing", "restore", "cleanup", "cleaning"} :
           Look(c, from, "raised")
    BY <1>12 DEF EndsRaised
  <2>2. Goto(c, from, "raised") /\ UNCHANGED <<final, old>>
    BY <2>1 DEF Look, dirs
  <2>3. QED
    BY <2>2, QuietStep DEF Steps, Rolling
<1>13. CASE MoveOld(c)
  <2>1. /\ pc[c] = "moveOld" /\ pc' = [pc EXCEPT ![c] = "moveNew"] /\ pc'[c] = "moveNew"
        /\ final' = NoDir /\ old' = [old EXCEPT ![c] = final] /\ old'[c] = final
    BY <1>13 DEF MoveOld, Goto, TypeInv, TypeOK
  <2>2. Holders' \ {c} = Holders \ {c} /\ Keepers' \ {c} = Keepers \ {c}
    <3>1. \A x \in Preparers \ {c} : old'[x] = old[x]
      BY <2>1 DEF TypeInv, TypeOK
    <3>2. QED
      BY <2>1, <3>1, OnlyOwn
  <2>3. ~Broken(final') /\ KeeperStays(c) /\ c \notin Holders
    BY <2>1, DirFacts DEF Broken, KeeperStays, Keepers, Holders, Rolling
  <2>4. CASE Broken(final)
    BY <2>2, <2>3, <2>4, Balance DEF TornTaken
  <2>5. CASE ~Broken(final)
    <3>1. c \notin Holders'
      BY <2>1, <2>5 DEF Holders
    <3>2. QED
      BY <2>2, <2>3, <3>1, Balance DEF NoneTorn, NoNewHolder
  <2>6. QED
    BY <2>4, <2>5
<1>14. CASE MoveNew(c)
  <2>1. /\ pc[c] = "moveNew" /\ pc' = [pc EXCEPT ![c] = "verify"] /\ pc'[c] = "verify"
        /\ final' = tmp[c] /\ old' = old
    BY <1>14 DEF MoveNew, Goto, TypeInv, TypeOK
  <2>2. Holders' \ {c} = Holders \ {c} /\ Keepers' \ {c} = Keepers \ {c}
    BY <2>1, OnlyOwn
  <2>3. ~Broken(final')
    BY <2>1 DEF Holds, Valid, Broken
  <2>4. NoNewHolder(c) /\ KeeperStays(c)
    BY <2>1 DEF NoNewHolder, KeeperStays, Holders, Keepers, Rolling
  <2>5. QED
    BY <2>2, <2>3, <2>4, Balance DEF NoneTorn
<1>15. CASE Cleanup(c) \/ Cleaned(c)
  <2>1. PICK to \in {"cleaning", "ok"}, d \in Apart \union {NoDir} :
           /\ pc[c] \in {"cleanup", "cleaning"} /\ pc' = [pc EXCEPT ![c] = to]
           /\ final' = final /\ old' = [old EXCEPT ![c] = d]
    BY <1>15 DEF Cleanup, Cleaned, Goto
  <2>2. Holders' \ {c} = Holders \ {c} /\ Keepers' \ {c} = Keepers \ {c}
    <3>1. \A x \in Preparers \ {c} : old'[x] = old[x]
      BY <2>1 DEF TypeInv, TypeOK
    <3>2. QED
      BY <2>1, <3>1, OnlyOwn
  <2>3. pc'[c] = to
    BY <2>1 DEF TypeInv, TypeOK
  <2>4. NoNewHolder(c) /\ KeeperStays(c)
    BY <2>1, <2>3 DEF NoNewHolder, KeeperStays, Holders, Keepers, Rolling
  <2>5. QED
    BY <2>1, <2>2, <2>4, Balance DEF NoneTorn
<1>16. CASE Remove(c)
  <2>1. /\ pc[c] = "remove" /\ pc' = [pc EXCEPT ![c] = "removing"] /\ pc'[c] = "removing"
        /\ old' = old
    BY <1>16 DEF Remove, Goto, TypeInv, TypeOK
  <2>2. Holders' \ {c} = Holders \ {c} /\ Keepers' \ {c} = Keepers \ {c}
    BY <2>1, OnlyOwn
  <2>3. c \notin Holders' /\ c \notin Keepers /\ KeeperStays(c)
    BY <2>1 DEF Holders, Keepers, Rolling, KeeperStays
  <2>4. Broken(old[c]) \/ Valid(old[c])
    <3>1. old[c] \in Dirs /\ old[c].kind # "foreign" /\ old[c].kind # "none"
      BY <2>1 DEF TypeInv, TypeOK, ForeignInv, Holds, Exists
    <3>2. \A d \in Dirs : d.kind \in {"none", "empty", "bare", "torn", "foreign", "set"}
      BY DEF Dirs, Dir
    <3>3. QED
      BY <3>1, <3>2 DEF Broken, Valid
  <2>5. CASE Broken(old[c])
    <3>1. c \in Holders
      BY <2>1, <2>5 DEF Holders, Rolling
    <3>2. QED
      BY <2>2, <2>3, <3>1, Balance DEF TornPutBack
  <2>6. CASE Valid(old[c])
    <3>1. c \in Keepers'
      BY <2>1, <2>6 DEF Keepers
    <3>2. QED
      BY <2>2, <2>3, <3>1, Balance DEF TakenApart, NoNewHolder
  <2>7. QED
    BY <2>4, <2>5, <2>6
<1>17. CASE Removing(c)
  <2>1. /\ pc[c] = "removing" /\ pc' = [pc EXCEPT ![c] = "restore"] /\ pc'[c] = "restore"
        /\ final' = NoDir /\ old' = old /\ Broken(final)
    BY <1>17 DEF Removing, Goto, TypeInv, TypeOK, Broken
  <2>2. Holders' \ {c} = Holders \ {c} /\ Keepers' \ {c} = Keepers \ {c}
    BY <2>1, OnlyOwn
  <2>3. ~Broken(final') /\ c \notin Holders
    BY <2>1, DirFacts DEF Broken, Holders, Rolling
  <2>4. CASE Broken(old[c])
    <3>1. KeeperStays(c)
      BY <2>4 DEF KeeperStays, Keepers, Broken, Valid
    <3>2. QED
      BY <2>1, <2>2, <2>3, <3>1, Balance DEF TornTaken
  <2>5. CASE ~Broken(old[c])
    <3>1. NoNewHolder(c)
      BY <2>1, <2>5 DEF NoNewHolder, Holders
    <3>2. QED
      BY <2>1, <2>2, <2>3, <3>1, Balance DEF TornCleared
  <2>6. QED
    BY <2>4, <2>5
<1>18. CASE Restore(c)
  <2>1. /\ pc[c] = "restore" /\ pc' = [pc EXCEPT ![c] = "error"] /\ pc'[c] = "error"
        /\ final' = old[c] /\ old' = [old EXCEPT ![c] = NoDir]
    BY <1>18 DEF Restore, Goto, TypeInv, TypeOK
  <2>2. Holders' \ {c} = Holders \ {c} /\ Keepers' \ {c} = Keepers \ {c}
    <3>1. \A x \in Preparers \ {c} : old'[x] = old[x]
      BY <2>1 DEF TypeInv, TypeOK
    <3>2. QED
      BY <2>1, <3>1, OnlyOwn
  <2>3. c \notin Holders' /\ KeeperStays(c)
    BY <2>1 DEF Holders, Keepers, Rolling, KeeperStays
  <2>4. CASE Broken(old[c])
    <3>1. c \in Holders
      BY <2>1, <2>4 DEF Holders, Rolling
    <3>2. QED
      BY <2>2, <2>3, <3>1, Balance DEF TornPutBack
  <2>5. CASE ~Broken(old[c])
    BY <2>1, <2>2, <2>3, <2>5, Balance DEF NoneTorn, NoNewHolder
  <2>6. QED
    BY <2>4, <2>5
<1>19. QED
  BY <1>2, <1>3, <1>4, <1>5, <1>6, <1>6a, <1>7, <1>8, <1>9, <1>10, <1>11, <1>12, <1>13, <1>14,
     <1>15, <1>16, <1>17, <1>18 DEF Step

-----------------------------------------------------------------------------
(* What the commands hold. *)
LEMMA StepHolds ==
  ASSUME TypeInv, NEW c \in Preparers, Step(c), \A d \in Preparers : Holds(d)
  PROVE  \A d \in Preparers : Holds(d)'
<1>1. ASSUME NEW d \in Preparers \ {c} PROVE Holds(d)'
  <2>1. Holds(d) /\ UNCHANGED <<pc[d], old[d], tmp[d]>>
    BY DEF Step, ExistsStep, Reuse, Replacing, Manifest, Copy, Fill, MoveOld, MoveNew, Verify,
           Cleanup, Raise, RemoveTmp, Blocked, Remove, Removing, Restore, Cleaned, CopyRaises,
         EndsRaised, Look,
           Goto, dirs, TypeInv, TypeOK
  <2>2. QED
    BY <2>1 DEF Holds
<1>2. Holds(c)'
  <2> USE DEF TypeInv, TypeOK, Goto, Holds
  <2>1. CASE ExistsStep(c) \/ Reuse(c) \/ Manifest(c) \/ Verify(c) \/ Blocked(c) \/ EndsRaised(c)
    BY <2>1 DEF ExistsStep, Reuse, Manifest, Verify, Blocked, EndsRaised, Look, dirs
  <2>2. CASE Replacing(c) \/ Copy(c) \/ CopyRaises(c)
    BY <2>2 DEF Replacing, Copy, CopyRaises, dirs
  <2>3. CASE Fill(c)
    <3>1. /\ pc[c] = "fill" /\ pc'[c] \in {"moveOld", "moveNew"} /\ old' = old
          /\ tmp'[c] = RomTree(tmp[c].version)
      BY <2>3 DEF Fill
    <3>2. Valid(tmp'[c])
      BY <3>1 DEF RomTree, Dir, Valid
    <3>3. QED
      BY <3>1, <3>2
  <2>4. CASE MoveOld(c)
    BY <2>4 DEF MoveOld
  <2>5. CASE MoveNew(c) \/ Raise(c)
    BY <2>5 DEF MoveNew, Raise, Look, dirs
  <2>6. CASE Cleanup(c) \/ Cleaned(c)
    BY <2>6 DEF Cleanup, Cleaned
  <2>7. CASE RemoveTmp(c)
    BY <2>7 DEF RemoveTmp
  <2>8. CASE Remove(c) \/ Removing(c)
    BY <2>8 DEF Remove, Removing
  <2>9. CASE Restore(c)
    BY <2>9 DEF Restore
  <2>10. QED
    BY <2>1, <2>2, <2>3, <2>4, <2>5, <2>6, <2>7, <2>8, <2>9 DEF Step
<1>3. QED
  BY <1>1, <1>2

-----------------------------------------------------------------------------
(* A whole set stays.  Only two steps take one away: a roll-back that      *)
(* takes the name apart, and a clean-up.                                   *)
Keeping == Rolling \union {"removing", "error", "raised"}

LEMMA KeeperExists ==
  ASSUME Counted, Broken(final) \/ Holders # {}
  PROVE  \E d \in Preparers : Valid(old[d]) /\ pc[d] \in {"removing", "error", "raised"}
<1>1. /\ IsFiniteSet(Holders) /\ Cardinality(Holders) \in Nat
      /\ IsFiniteSet(Keepers) /\ Cardinality(Keepers) \in Nat
  BY PreparersAssumption, FS_Subset, FS_CardinalityType DEF Holders, Keepers
<1>2. TornInPlace \in {0, 1}
  BY DEF TornInPlace
<1>3. CASE Broken(final)
  <2>1. Cardinality(Keepers) # 0
    BY <1>1, <1>3 DEF Counted, TornInPlace
  <2>2. QED
    BY <1>1, <2>1, FS_EmptySet DEF Keepers
<1>4. CASE Holders # {}
  <2>1. Cardinality(Holders) # 0
    BY <1>1, <1>4, FS_EmptySet
  <2>2. Cardinality(Keepers) # 0
    BY <1>1, <1>2, <2>1 DEF Counted
  <2>3. QED
    BY <1>1, <2>2, FS_EmptySet DEF Keepers
<1>5. QED
  BY <1>3, <1>4

LEMMA StepSafe ==
  ASSUME TypeInv, ForeignInv, NEW c \in Preparers, Holds(c), Step(c), Whole \/ Counted, Safe
  PROVE  Safe'
<1> USE DEF TypeInv, TypeOK, Goto, Rolling
<1>1. left' = left /\ (Whole => Safe')
  BY DEF Step, ExistsStep, Reuse, Replacing, Manifest, Copy, Fill, MoveOld, MoveNew, Verify,
         Cleanup, Raise, RemoveTmp, Blocked, Remove, Removing, Restore, Cleaned, CopyRaises,
         EndsRaised, Look,
         dirs, Safe, Whole
<1>2. CASE \/ Look(c, pc[c], pc'[c]) \/ Replacing(c) \/ Copy(c) \/ CopyRaises(c) \/ Fill(c)
           \/ RemoveTmp(c)
  <2>1. UNCHANGED <<final, old>> /\ \A d \in Preparers \ {c} : pc'[d] = pc[d]
    BY <1>2 DEF Look, Replacing, Copy, CopyRaises, Fill, RemoveTmp, dirs
  <2>2. CASE pc'[c] \in Keeping \/ pc[c] \notin Keeping
    BY <1>1, <2>1, <2>2 DEF Safe, Whole, Keeping
  <2>3. CASE pc'[c] \notin Keeping /\ pc[c] \in Keeping
    <3>1. Verify(c)
      BY <2>3
      DEF Step, ExistsStep, Reuse, Replacing, Manifest, Copy, Fill, MoveOld, MoveNew, Verify,
          Cleanup, Raise, RemoveTmp, Blocked, Remove, Removing, Restore, Cleaned, CopyRaises,
         EndsRaised, Look,
          Keeping
    <3>2. Valid(final)
      BY <3>1, <2>3 DEF Verify, Look, Keeping
    <3>3. QED
      BY <2>1, <3>2 DEF Safe
  <2>4. QED
    BY <2>2, <2>3
<1>3. CASE MoveOld(c)
  <2>1. /\ pc[c] = "moveOld" /\ pc'[c] = "moveNew" /\ old'[c] = final
        /\ \A d \in Preparers \ {c} : pc'[d] = pc[d] /\ old'[d] = old[d]
    BY <1>3 DEF MoveOld
  <2>2. QED
    BY <1>1, <2>1 DEF Safe
<1>4. CASE MoveNew(c)
  BY <1>4 DEF MoveNew, Holds, Safe
<1>5. CASE Cleanup(c) \/ Cleaned(c)
  <2>1. /\ pc[c] \in {"cleanup", "cleaning"} /\ final' = final
        /\ \A d \in Preparers \ {c} : pc'[d] = pc[d] /\ old'[d] = old[d]
    BY <1>5 DEF Cleanup, Cleaned
  <2>2. QED
    BY <1>1, <2>1 DEF Safe
<1>6. CASE Remove(c)
  <2>1. /\ pc[c] = "remove" /\ pc'[c] = "removing" /\ old' = old
        /\ \A d \in Preparers \ {c} : pc'[d] = pc[d]
    BY <1>6 DEF Remove
  <2>2. CASE Valid(old[c])
    BY <2>1, <2>2 DEF Safe
  <2>3. CASE ~Valid(old[c])
    <3>1. old[c] \in Dirs /\ old[c].kind # "foreign" /\ old[c].kind # "none"
      BY <2>1 DEF ForeignInv, Holds, Exists
    <3>2. \A d \in Dirs : d.kind \in {"none", "empty", "bare", "torn", "foreign", "set"}
      BY DEF Dirs, Dir
    <3>3. c \in Holders
      BY <2>1, <2>3, <3>1, <3>2 DEF Holders, Broken, Valid
    <3>4. Whole \/ \E d \in Preparers : Valid(old[d]) /\ pc[d] \in {"removing", "error", "raised"}
      BY <3>3, KeeperExists
    <3>5. QED
      BY <1>1, <2>1, <3>4 DEF Safe
  <2>4. QED
    BY <2>2, <2>3
<1>7. CASE Removing(c)
  <2>1. /\ pc[c] = "removing" /\ pc'[c] = "restore" /\ old' = old /\ ~Valid(final)
        /\ \A d \in Preparers \ {c} : pc'[d] = pc[d]
    BY <1>7 DEF Removing, Valid
  <2>2. QED
    BY <1>1, <2>1 DEF Safe
<1>8. CASE Restore(c)
  <2>1. /\ final' = old[c] /\ ~Valid(final)
        /\ \A d \in Preparers \ {c} : pc'[d] = pc[d] /\ old'[d] = old[d]
    BY <1>8 DEF Restore, Valid
  <2>2. QED
    BY <1>1, <2>1 DEF Safe
<1>10. CASE ExistsStep(c) \/ Reuse(c) \/ Manifest(c) \/ Verify(c) \/ Raise(c) \/ Blocked(c)
            \/ EndsRaised(c)
  <2>1. Look(c, pc[c], pc'[c])
    BY <1>10 DEF ExistsStep, Reuse, Manifest, Verify, Raise, Blocked, EndsRaised, Look
  <2>2. QED
    BY <1>2, <2>1
<1>11. QED
  BY <1>2, <1>3, <1>4, <1>5, <1>6, <1>7, <1>8, <1>10 DEF Step

-----------------------------------------------------------------------------
(* The three actions around the function's own steps. *)
LEMMA BeginSurvives ==
  ASSUME SurvivalInv, NEW c \in Preparers, Begin(c)
  PROVE  /\ \A d \in Preparers : Holds(d)'
         /\ (Whole \/ Counted)' /\ (Safe => Safe') /\ pc'[c] \notin {"ok", "cleanup", "cleaning"}
<1> USE DEF SurvivalInv, TypeInv, TypeOK
<1>1. /\ pc[c] = "idle" /\ pc' = [pc EXCEPT ![c] = "exists"] /\ pc'[c] = "exists"
      /\ UNCHANGED dirs
  BY DEF Begin, Goto
<1>2. \A d \in Preparers : Holds(d)'
  BY <1>1 DEF dirs, Holds
<1>3. (Whole \/ Counted)'
  <2>1. CASE Whole
    BY <1>1, <2>1 DEF dirs, Whole
  <2>2. CASE Counted
    <3>1. Holders' = Holders /\ Keepers' = Keepers /\ TornInPlace' = TornInPlace
      BY <1>1 DEF dirs, Holders, Keepers, Rolling, TornInPlace
    <3>2. QED
      BY <2>2, <3>1 DEF Counted
  <2>3. QED
    BY <2>1, <2>2
<1>4. Safe => Safe'
  BY <1>1 DEF dirs, Safe, Whole, Rolling
<1>5. QED
  BY <1>1, <1>2, <1>3, <1>4

LEMMA LeaveSurvives ==
  ASSUME SurvivalInv, NEW c \in Preparers, Leave(c)
  PROVE  /\ \A d \in Preparers : Holds(d)'
         /\ (Whole \/ Counted)' /\ (Safe => Safe') /\ pc'[c] \notin {"ok", "cleanup", "cleaning"}
<1> USE DEF SurvivalInv, TypeInv, TypeOK
<1>1. /\ pc' = [pc EXCEPT ![c] = "idle"] /\ pc'[c] = "idle"
      /\ old' = [old EXCEPT ![c] = NoDir] /\ old'[c] = NoDir
      /\ tmp' = [tmp EXCEPT ![c] = NoDir]
      /\ left' = left \union {d \in {old[c]} : Valid(d)} /\ final' = final
  BY DEF Leave
<1>2. \A d \in Preparers : Holds(d)'
  BY <1>1 DEF Holds
<1>3. (Whole => Whole') /\ (Valid(old[c]) => Whole')
  BY <1>1 DEF Whole
<1>4. (Whole \/ Counted)'
  <2>1. CASE Whole \/ Valid(old[c])
    BY <1>3, <2>1
  <2>2. CASE ~Whole /\ ~Valid(old[c])
    <3>1. Holders' \ {c} = Holders \ {c} /\ Keepers' \ {c} = Keepers \ {c}
      <4>1. \A x \in Preparers \ {c} : old'[x] = old[x]
        BY <1>1
      <4>2. QED
        BY <1>1, <4>1, OnlyOwn
    <3>2. NoneTorn(c)
      BY <1>1, <2>2 DEF NoneTorn, NoNewHolder, KeeperStays, Holders, Keepers, Rolling
    <3>3. QED
      BY <2>2, <3>1, <3>2, Balance
  <2>3. QED
    BY <2>1, <2>2
<1>5. Safe => Safe'
  <2>1. \A d \in Preparers \ {c} : pc'[d] = pc[d] /\ old'[d] = old[d]
    BY <1>1
  <2>2. QED
    BY <1>1, <1>3, <2>1 DEF Safe
<1>6. QED
  BY <1>1, <1>2, <1>4, <1>5

(* A command comes to its end, or to its clean-up, only with a whole set   *)
(* under the name.                                                         *)
LEMMA EndsWhole ==
  ASSUME TypeInv, NEW c \in Preparers, Step(c), pc'[c] \in {"ok", "cleanup", "cleaning"}
  PROVE  pc[c] \in {"cleanup", "cleaning"} \/ Safe'
BY DEF Step, ExistsStep, Reuse, Replacing, Manifest, Copy, Fill, MoveOld, MoveNew, Verify,
       Cleanup, Raise, RemoveTmp, Blocked, Remove, Removing, Restore, Cleaned, CopyRaises,
         EndsRaised, Look,
       Goto, dirs, TypeInv, TypeOK, Safe

LEMMA InitSurvival == Init => SurvivalInv
<1> SUFFICES ASSUME Init PROVE SurvivalInv
  OBVIOUS
<1>1. TypeInv /\ ForeignInv
  BY InitType, InitForeign
<1>2. /\ \A c \in Preparers : pc[c] = "idle" /\ old[c] = NoDir
      /\ final.kind \in {"none", "foreign", "set"} /\ (had => Valid(final))
  BY DirFacts DEF Init
<1>3. \A c \in Preparers : Holds(c)
  BY <1>2 DEF Holds
<1>4. Counted
  <2>1. Holders = {} /\ Keepers = {} /\ TornInPlace = 0
    BY <1>2 DEF Holders, Keepers, Rolling, TornInPlace, Broken
  <2>2. Cardinality({}) = 0
    BY FS_EmptySet
  <2>3. QED
    BY <2>1, <2>2 DEF Counted
<1>5. QED
  BY <1>1, <1>2, <1>3, <1>4 DEF SurvivalInv, Safe

LEMMA NextSurvival == SurvivalInv /\ [Next]_vars => SurvivalInv'
<1> SUFFICES ASSUME SurvivalInv, [Next]_vars PROVE SurvivalInv'
  OBVIOUS
<1>1. (TypeInv /\ ForeignInv)'
  BY NextType, NextForeign DEF SurvivalInv
<1>2. CASE UNCHANGED <<dirs, pc>> /\ (had' = had \/ Next)
  <2>1. /\ \A d \in Preparers : Holds(d)'
        /\ (Whole \/ Counted)' /\ (Safe => Safe')
    <3>1. /\ Holders' = Holders /\ Keepers' = Keepers /\ TornInPlace' = TornInPlace
          /\ (Whole => Whole')
      BY <1>2 DEF dirs, Holders, Keepers, Rolling, TornInPlace, Whole
    <3>2. QED
      BY <1>2, <3>1 DEF dirs, SurvivalInv, Holds, Counted, Safe
  <2>2. had' = had
    BY <1>2 DEF SurvivalInv, TypeInv, TypeOK, Next
  <2>3. QED
    BY <1>1, <1>2, <2>1, <2>2 DEF SurvivalInv
<1>3. CASE Next /\ ~UNCHANGED <<dirs, pc>>
  <2>1. had' = (had \/ \E d \in Preparers : pc'[d] = "ok")
    BY <1>3 DEF Next
  <2>2. PICK c \in Preparers : Step(c) \/ Begin(c) \/ Leave(c)
    BY <1>3 DEF Next, NewSource
  <2>3. \A d \in Preparers \ {c} : pc'[d] = pc[d]
    BY <2>2
    DEF Step, ExistsStep, Reuse, Replacing, Manifest, Copy, Fill, MoveOld, MoveNew, Verify,
        Cleanup, Raise, RemoveTmp, Blocked, Remove, Removing, Restore, Cleaned, CopyRaises,
         EndsRaised, Look,
        Goto, Begin, Leave, SurvivalInv, TypeInv, TypeOK
  <2>4. /\ \A d \in Preparers : Holds(d)'
        /\ (Whole \/ Counted)' /\ (Safe => Safe')
    <3>1. CASE Begin(c) \/ Leave(c)
      BY <3>1, BeginSurvives, LeaveSurvives
    <3>2. CASE Step(c)
      <4>1. \A d \in Preparers : Holds(d)'
        BY <3>2, StepHolds DEF SurvivalInv
      <4>2. Whole => Whole'
        BY <3>2
        DEF Step, ExistsStep, Reuse, Replacing, Manifest, Copy, Fill, MoveOld, MoveNew, Verify,
            Cleanup, Raise, RemoveTmp, Blocked, Remove, Removing, Restore, Cleaned, CopyRaises,
         EndsRaised, Look,
            dirs, Whole
      <4>3. Counted => Counted'
        BY <3>2, StepCounted DEF SurvivalInv
      <4>4. Safe => Safe'
        BY <3>2, StepSafe DEF SurvivalInv
      <4>5. QED
        BY <4>1, <4>2, <4>3, <4>4 DEF SurvivalInv
    <3>3. QED
      BY <2>2, <3>1, <3>2
  <2>5. \/ pc'[c] \notin {"ok", "cleanup", "cleaning"}
        \/ pc[c] \in {"cleanup", "cleaning"} \/ Safe'
    BY <2>2, BeginSurvives, LeaveSurvives, EndsWhole DEF SurvivalInv
  <2>6. had' \/ (\E d \in Preparers : pc'[d] \in {"cleanup", "cleaning"}) => Safe'
    <3>1. CASE had \/ \E d \in Preparers : pc[d] \in {"cleanup", "cleaning"}
      BY <2>4, <3>1 DEF SurvivalInv
    <3>2. CASE ~had /\ \A d \in Preparers : pc[d] \notin {"cleanup", "cleaning"}
      <4>1. \A d \in Preparers : pc[d] # "ok"
        BY <3>2 DEF SurvivalInv
      <4>2. pc'[c] \in {"ok", "cleanup", "cleaning"} => Safe'
        BY <2>5, <3>2
      <4>3. QED
        BY <2>1, <2>3, <3>2, <4>1, <4>2
    <3>3. QED
      BY <3>1, <3>2
  <2>7. QED
    BY <1>1, <2>1, <2>4, <2>6 DEF SurvivalInv
<1>4. QED
  BY <1>2, <1>3 DEF vars

-----------------------------------------------------------------------------
(* However commands overlap, fail and die: once a command has returned a   *)
(* ROM set, or one was there, a whole one stays under its name or a hidden *)
(* one (86boxctl.py 502-523).                                              *)
THEOREM SetNeverLost == Spec => []SetSurvives
<1>1. SurvivalInv => SetSurvives
  BY DEF SurvivalInv, Safe, Whole, SetSurvives
<1>2. QED
  BY <1>1, InitSurvival, NextSurvival, PTL DEF Spec
=============================================================================
