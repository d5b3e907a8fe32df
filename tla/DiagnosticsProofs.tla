------------------------- MODULE DiagnosticsProofs --------------------------
(***************************************************************************)
(* Theorems about Diagnostics, for every number of attempts and of drops:  *)
(* as long as the numbers typed are whole, a verdict is that of the test   *)
(* that was asked for, and words that are typed again start no other test  *)
(* in a guest that keeps up.                                               *)
(***************************************************************************)
EXTENDS Diagnostics, SequenceTheorems, TLAPS

(* A sub-test was asked for, or was there when the driver came.            *)
Asked == "requested" \in ran \/ "subtest" \in ran \/ began = "hardcopy"

(* Before the driver has found a screen it knows, no key has been sent.    *)
Untouched == shown # "blank" /\ pending = "blank" /\ keys = <<>> /\ line = <<>>

ScreenInv ==
  /\ shown \in Screens /\ pending \in Screens
  /\ shown # "blank" => pending = "blank"
  /\ at \in Known \union DOMAIN Ahead
            \union {"waitKnown", "waitList", "waitHardCopy", "capture", "done"}
  /\ phase \in {"look", "send", "settle"}
  /\ at \notin Known => phase = "look"
  /\ at = "waitKnown" => Untouched
  /\ at # "done" => verdict = "none"

VerdictInv ==
  /\ at \notin {"waitKnown", "done"} /\ "hardcopy" \in {shown, pending} => Asked
  /\ at \in {"hardcopy", "capture"} \/ verdict \in {"PASS", "FAIL"} => Asked

(* What the screen can be, or become once it is drawn, while the driver is *)
(* at a prompt of which it looks for certain screens.                      *)
Coming == [menu |-> {"menu", "loading", "list"}, list |-> {"list", "checkout"},
          checkout |-> {"checkout", "tests"}, tests |-> {"tests", "fdmenu"}]

(* What is left of one injection of a word. *)
Rest(word) == {<<>>, <<"enter">>, <<word>>, <<word, "enter">>}

(* A guest that keeps up has dealt with all the keys when the driver looks *)
(* or types; until then they are the answer to the prompt it shows, and    *)
(* there is at most one number on the line.                                *)
KeysInv ==
  /\ keys # <<>> => shown \in Known /\ keys \in Rest(Word[shown])
  /\ keys # <<>> /\ at # "done" => shown = at
  /\ line # <<>> => shown \in Known /\ line \in Seq({Word[shown]})
  /\ shown \in Numbers => keys # <<Word[shown]>>
  /\ shown \in Numbers /\ line # <<>> => line = <<Word[shown]>> /\ keys = <<"enter">>
  /\ at # "done" /\ phase # "settle" => keys = <<>> /\ shown # "blank"
  /\ at \in DOMAIN Coming => shown \in Coming[at] \/ pending \in Coming[at]
  /\ at \in Known /\ phase = "send" => shown = at
  /\ ran \subseteq {"requested"}

(* A guest that is late may have many words waiting.  If all of them came  *)
(* with their ENTER, each has a line to itself.                            *)
Followed ==
  \A i \in 1 .. Len(keys) : keys[i] # "enter" => i < Len(keys) /\ keys[i + 1] = "enter"

LateInv ==
  /\ keys \in Seq({Word[p] : p \in Known} \union {"enter"}) /\ Followed
  /\ line # <<>> => /\ keys # <<>> /\ Head(keys) = "enter"
                    /\ \E p \in Known : line = <<Word[p]>>
  /\ "subtest" \notin ran

IInv == /\ ScreenInv /\ VerdictInv
        /\ timely /\ torn \intersect Numbers = {} => KeysInv
        /\ torn = {} => LateInv
-----------------------------------------------------------------------------
LEMMA KnownScreens ==
  Known = {"menu", "list", "checkout", "tests", "fdmenu", "hardcopy"}
  BY DEF Known, Prompts

(* The three outcomes of a look at the screen, and where the driver goes.  *)
LEMMA LookOutcome ==
  Look => \/ /\ at \in Known /\ Expected(at, shown)
             /\ at' \in {"waitList", "atCheckout", "atTests", "atMenu", "waitHardCopy", "capture"}
             /\ at' = "capture" <=> at = "hardcopy"
             /\ phase' = "look" /\ verdict' = verdict
          \/ at \in Known /\ ~Expected(at, shown) /\ at' = at /\ phase' = "send" /\ verdict' = verdict
          \/ at' = "done" /\ phase' = "look" /\ verdict' = "error"
  BY KnownScreens DEF Look, Passed, Again, GiveUp, Goto, After, driver, guest, history

LEMMA LookFrame == Look => UNCHANGED <<timely, guest, drops, samples, history>>
  BY DEF Look, Passed, Again, GiveUp, Goto, driver, guest, history

(* What a prompt can answer; a hard copy prompt comes of a sub-test only.  *)
LEMMA AnswerTypes ==
  ASSUME shown \in Known, NEW answer \in Answers
  PROVE  /\ answer \in Screens \ {"blank"}
         /\ answer = "hardcopy" => shown \in {"fdmenu", "hardcopy"}
  BY KnownScreens DEF Answers, Doubt, Screens

LEMMA InitInv == Init => IInv
  BY EmptySeq DEF Init, IInv, ScreenInv, Untouched, VerdictInv, KeysInv, LateInv, Followed, Asked,
     guest, driver, history, Screens, Coming

LEMMA ScreenStep == IInv /\ [Next]_vars => ScreenInv'
<1> SUFFICES ASSUME IInv, [Next]_vars PROVE ScreenInv'
  OBVIOUS
<1> USE KnownScreens DEF IInv, ScreenInv, Untouched, Screens, Ahead, After, guest, driver, history
<1>1. CASE WaitKnown
  BY <1>1 DEF WaitKnown, Goto, Place
<1>2. CASE WaitList
  BY <1>2 DEF WaitList, WaitFor, Goto
<1>3. CASE WaitHardCopy
  BY <1>3 DEF WaitHardCopy, WaitFor, Goto
<1>4. CASE Reread
  BY <1>4 DEF Reread, Goto, Place, Ahead
<1>5. CASE Deadline
  BY <1>5 DEF Deadline, Goto
<1>6. CASE Unreachable
  BY <1>6 DEF Unreachable, Goto
<1>7. CASE Look
  BY <1>7, LookOutcome, LookFrame
<1>8. CASE Send
  BY <1>8 DEF Send, Arrives
<1>9. CASE SendFails
  BY <1>9 DEF SendFails, Arrives
<1>10. CASE Settle
  BY <1>10 DEF Settle, Idle
<1>11. CASE Sample
  BY <1>11 DEF Sample
<1>12. CASE CaptureEnds
  BY <1>12 DEF CaptureEnds, Goto
<1>13. CASE TakeEnter
  BY <1>13, AnswerTypes DEF TakeEnter, Begun
<1>14. CASE TakeWord
  BY <1>14 DEF TakeWord
<1>15. CASE Draw
  BY <1>15 DEF Draw, Drawn
<1>16. CASE UNCHANGED vars
  BY <1>16 DEF vars
<1>17. QED
  BY <1>1, <1>2, <1>3, <1>4, <1>5, <1>6, <1>7, <1>8, <1>9, <1>10, <1>11, <1>12, <1>13, <1>14, <1>15,
     <1>16 DEF Next, Driver, Guest

LEMMA VerdictStep == IInv /\ [Next]_vars => VerdictInv'
<1> SUFFICES ASSUME IInv, [Next]_vars PROVE VerdictInv'
  OBVIOUS
<1> USE KnownScreens DEF IInv, VerdictInv, ScreenInv, Untouched, Asked, Screens, guest, driver, history
<1>1. CASE WaitKnown
  BY <1>1 DEF WaitKnown, Goto, Place
<1>2. CASE WaitList
  BY <1>2 DEF WaitList, WaitFor, Goto
<1>3. CASE WaitHardCopy
  BY <1>3 DEF WaitHardCopy, WaitFor, Goto
<1>4. CASE Reread
  BY <1>4 DEF Reread, Goto, Place, Ahead
<1>5. CASE Deadline
  BY <1>5 DEF Deadline, Goto
<1>6. CASE Unreachable
  BY <1>6 DEF Unreachable, Goto
<1>7. CASE Look
  BY <1>7, LookOutcome, LookFrame
<1>8. CASE Send
  BY <1>8 DEF Send, Arrives
<1>9. CASE SendFails
  BY <1>9 DEF SendFails, Arrives
<1>10. CASE Settle
  BY <1>10 DEF Settle, Idle
<1>11. CASE Sample
  BY <1>11 DEF Sample
<1>12. CASE CaptureEnds
  BY <1>12 DEF CaptureEnds, Goto
<1>13. CASE TakeEnter
  BY <1>13, AnswerTypes DEF TakeEnter, Begun
<1>14. CASE TakeWord
  BY <1>14 DEF TakeWord
<1>15. CASE Draw
  BY <1>15 DEF Draw, Drawn
<1>16. CASE UNCHANGED vars
  BY <1>16 DEF vars
<1>17. QED
  BY <1>1, <1>2, <1>3, <1>4, <1>5, <1>6, <1>7, <1>8, <1>9, <1>10, <1>11, <1>12, <1>13, <1>14, <1>15,
     <1>16 DEF Next, Driver, Guest

(* What is left after the next key of an injection.                        *)
LEMMA RestTail ==
  ASSUME NEW word, word # "enter", NEW k \in Rest(word), k # <<>>
  PROVE  /\ Head(k) \in {word, "enter"} /\ Tail(k) \in Rest(word)
         /\ Head(k) = "enter" => Tail(k) = <<>>
<1>1. CASE k = <<"enter">>
  <2> Head(k) = "enter" /\ Tail(k) = <<>>
    BY <1>1
  <2> QED
    BY DEF Rest
<1>2. CASE k = <<word>>
  <2> Head(k) = word /\ Tail(k) = <<>>
    BY <1>2
  <2> QED
    BY DEF Rest
<1>3. CASE k = <<word, "enter">>
  <2> Head(k) = word /\ Tail(k) = <<"enter">>
    BY <1>3
  <2> QED
    BY DEF Rest
<1> QED
  BY <1>1, <1>2, <1>3 DEF Rest

LEMMA RestAppended == \A word : \A k \in Rest(word) : <<>> \o k = k
<1> TAKE word
<1> <<>> \o <<>> = <<>> /\ <<>> \o <<word>> = <<word>>
  OBVIOUS
<1> <<>> \o <<"enter">> = <<"enter">> /\ <<>> \o <<word, "enter">> = <<word, "enter">>
  OBVIOUS
<1> QED
  BY DEF Rest

(* One injection, of which a number has not been torn.                     *)
LEMMA ArrivesRest ==
  ASSUME NEW k \in {Typed} \union Lossy \union Wrong, Arrives(k), keys = <<>>, at \in Known,
         torn' \intersect Numbers = {}
  PROVE  keys' \in Rest(Word[at]) /\ (at \in Numbers => keys' # <<Word[at]>>)
<1>1. at \in torn' \/ (k # <<Word[at]>> /\ k \notin Wrong)
  BY DEF Arrives
<1>2. at \in Numbers => k # <<Word[at]>>
  BY <1>1
<1>3. k \notin Wrong
  BY <1>1 DEF Wrong
<1>4. k \in Rest(Word[at])
  BY <1>3, Zenon DEF Typed, Lossy, Rest
<1>5. keys' = k
  BY <1>4, RestAppended DEF Arrives
<1> QED
  BY <1>2, <1>4, <1>5

(* The word of no other prompt but a row of zeros starts a test.           *)
LEMMA TimelyAnswer ==
  ASSUME KeysInv, ScreenInv, shown \in Known, keys = <<"enter">>, NEW answer \in Answers
  PROVE  /\ answer # "other"
         /\ shown \in DOMAIN Coming => answer \in Coming[shown]
         /\ Begun(answer) \subseteq {"requested"}
<1>1. shown \in {"menu", "list", "checkout", "tests", "fdmenu", "hardcopy"}
  BY KnownScreens
<1>2. shown = "tests" => line \in {<<>>, <<"option">>}
  BY DEF KeysInv, Word, Numbers
<1>3. shown = "fdmenu" => line = <<>> \/ line = <<"test">>
  BY DEF KeysInv, Word, Numbers
<1>4. line = <<>> => Words = {}
  BY DEF Words
<1>5. shown = "fdmenu" /\ line = <<>> => answer = "fdmenu"
  BY <1>4 DEF Answers
<1>6. shown = "tests" => answer \in {"tests", "fdmenu"}
  BY <1>2 DEF Answers
<1> QED
  BY <1>1, <1>3, <1>5, <1>6 DEF Answers, Doubt, Begun, Coming

(* A guest keeps up or it does not, and a word that is torn stays torn.     *)
LEMMA TimelyFrame == [Next]_vars => timely' = timely /\ torn \subseteq torn'
<1> SUFFICES ASSUME [Next]_vars PROVE timely' = timely /\ torn \subseteq torn'
  OBVIOUS
<1>1. ASSUME NEW place, Goto(place) PROVE timely' = timely /\ torn' = torn
  BY <1>1 DEF Goto
<1>2. CASE Look
  BY <1>2, LookFrame DEF history
<1>3. CASE Send
  BY <1>3 DEF Send, Arrives
<1>4. CASE SendFails \/ Settle \/ Sample
  BY <1>4 DEF SendFails, Settle, Sample, history, Arrives
<1>5. CASE Guest
  BY <1>5 DEF Guest, TakeEnter, TakeWord, Draw, history
<1>6. CASE UNCHANGED vars
  BY <1>6 DEF vars, history
<1>7. CASE WaitKnown \/ WaitList \/ WaitHardCopy \/ Reread
  BY <1>1, <1>7 DEF WaitKnown, WaitList, WaitHardCopy, WaitFor, Reread
<1>8. CASE Deadline \/ Unreachable \/ CaptureEnds
  BY <1>1, <1>8 DEF Deadline, Unreachable, CaptureEnds
<1> QED
  BY <1>2, <1>3, <1>4, <1>5, <1>6, <1>7, <1>8 DEF Next, Driver

LEMMA KeysStep ==
  IInv /\ [Next]_vars => (timely /\ torn \intersect Numbers = {} => KeysInv)'
<1> SUFFICES ASSUME IInv, [Next]_vars, timely', torn' \intersect Numbers = {} PROVE KeysInv'
  OBVIOUS
<1> timely /\ torn \intersect Numbers = {}
  BY TimelyFrame
<1> KeysInv /\ ScreenInv
  BY DEF IInv
<1> USE KnownScreens
<1>1. CASE WaitKnown
  BY <1>1 DEF KeysInv, ScreenInv, Untouched, WaitKnown, Goto, Place, guest, Coming
<1>2. CASE WaitList
  BY <1>2 DEF KeysInv, ScreenInv, WaitList, WaitFor, Goto, guest, Coming
<1>3. CASE WaitHardCopy
  BY <1>3 DEF KeysInv, ScreenInv, WaitHardCopy, WaitFor, Goto, guest, Coming
<1>4. CASE Reread
  <2>0. at # "done" /\ at \notin Known /\ phase = "look"
    BY <1>4, KnownScreens DEF ScreenInv, Reread, Ahead
  <2>1. keys = <<>> /\ (shown \in Numbers => line = <<>>)
    BY <2>0 DEF KeysInv
  <2>2. UNCHANGED <<shown, pending, keys, line, ran>> /\ phase' = "look" /\ shown # "blank"
    BY <1>4, <2>0 DEF KeysInv, Reread, Goto, guest
  <2>3. at' = "done" \/ at' = Place(shown)
    BY <1>4 DEF Reread, Goto
  <2>4. at' \in DOMAIN Coming => shown \in Coming[at']
    BY <2>3 DEF Place, Coming
  <2> QED
    BY <2>1, <2>2, <2>4 DEF KeysInv, Coming
<1>5. CASE Deadline
  BY <1>5 DEF KeysInv, ScreenInv, Deadline, Goto, guest, Coming
<1>6. CASE Unreachable
  BY <1>6 DEF KeysInv, ScreenInv, Unreachable, Goto, guest, Coming
<1>7. CASE Look
  <2> UNCHANGED <<shown, pending, keys, line, ran>>
    BY <1>7, LookFrame DEF guest, history
  <2>1. CASE at \in Known /\ ~Expected(at, shown) /\ at' = at /\ phase' = "send"
    <3>1. phase = "look" /\ keys = <<>> /\ shown # "blank"
      BY <1>7, <2>1 DEF Look, KeysInv, ScreenInv
    <3>2. at \in DOMAIN Coming => shown \in Coming[at]
      BY <3>1 DEF KeysInv, ScreenInv, Coming
    <3>3. shown = at
      <4>1. CASE at \in {"fdmenu", "hardcopy"}
        BY <2>1, <4>1 DEF Expected
      <4>2. CASE at = "menu"
        <5> shown \in {"menu", "loading", "list"}
          BY <3>2, <4>2 DEF Coming
        <5> QED
          BY <2>1, <4>2 DEF Expected
      <4>3. CASE at = "list"
        <5> shown \in {"list", "checkout"}
          BY <3>2, <4>3 DEF Coming
        <5> QED
          BY <2>1, <4>3 DEF Expected
      <4>4. CASE at = "checkout"
        <5> shown \in {"checkout", "tests"}
          BY <3>2, <4>4 DEF Coming
        <5> QED
          BY <2>1, <4>4 DEF Expected
      <4>5. CASE at = "tests"
        <5> shown \in {"tests", "fdmenu"}
          BY <3>2, <4>5 DEF Coming
        <5> QED
          BY <2>1, <4>5 DEF Expected
      <4> QED
        BY <2>1, <4>1, <4>2, <4>3, <4>4, <4>5
    <3> QED
      BY <2>1, <3>1, <3>3 DEF KeysInv
  <2>2. CASE at' \notin Known /\ phase' = "look"
    <3>1. at \in Known /\ phase = "look" /\ keys = <<>> /\ shown # "blank"
      BY <1>7 DEF Look, KeysInv, ScreenInv
    <3> QED
      BY <2>2, <3>1 DEF KeysInv, Coming
  <2> QED
    BY <1>7, <2>1, <2>2, LookOutcome
<1>8. CASE Send \/ SendFails
  <2>1. at \in Known /\ phase = "send"
    BY <1>8 DEF Send, SendFails
  <2>2. shown = at /\ keys = <<>> /\ at # "done" /\ (at \in Numbers => line = <<>>)
    BY <2>1 DEF KeysInv
  <2>3. keys' \in Rest(Word[at]) /\ (at \in Numbers => keys' # <<Word[at]>>)
    BY <1>8, <2>1, <2>2, ArrivesRest DEF Send, SendFails
  <2>4. UNCHANGED <<shown, pending, line, ran>>
    BY <1>8 DEF Send, SendFails
  <2>5. (at' = at /\ phase' = "settle") \/ at' = "done"
    BY <1>8 DEF Send, SendFails
  <2> QED
    BY <2>1, <2>2, <2>3, <2>4, <2>5 DEF KeysInv, Coming
<1>10. CASE Settle
  BY <1>10 DEF KeysInv, ScreenInv, Settle, Idle, guest, history, Coming
<1>11. CASE Sample
  BY <1>11 DEF KeysInv, ScreenInv, Sample, guest, history, Coming
<1>12. CASE CaptureEnds
  BY <1>12 DEF KeysInv, ScreenInv, CaptureEnds, Goto, guest, Coming
<1>13. CASE TakeEnter \/ TakeWord
  <2>1. keys \in Rest(Word[shown]) \ {<<>>} /\ shown \in Known
    BY <1>13 DEF KeysInv, TakeEnter, TakeWord
  <2>2. Word[shown] # "enter"
    BY <2>1 DEF Word
  <2>3. at # "done" => phase = "settle" /\ shown = at
    BY <2>1 DEF KeysInv, ScreenInv, Rest
  <2>4. CASE TakeEnter
    <3>1. keys = <<"enter">> /\ keys' = <<>>
      <4>1. Head(keys) = "enter" /\ keys' = Tail(keys)
        BY <2>4 DEF TakeEnter
      <4>2. keys = <<"enter">> \/ keys = <<Word[shown]>> \/ keys = <<Word[shown], "enter">>
        BY <2>1 DEF Rest
      <4>3. Head(<<Word[shown]>>) = Word[shown] /\ Head(<<Word[shown], "enter">>) = Word[shown]
        OBVIOUS
      <4> QED
        BY <2>1, <2>2, <4>1, <4>2, <4>3, RestTail
    <3>2. line' = <<>> /\ shown' = "blank" /\ at' = at /\ phase' = phase
      BY <2>4 DEF TakeEnter, driver
    <3>3. PICK answer \in Answers : pending' = answer /\ ran' = ran \union Begun(answer)
      BY <2>4 DEF TakeEnter
    <3>4. /\ shown \in DOMAIN Coming => answer \in Coming[shown]
          /\ Begun(answer) \subseteq {"requested"}
      BY <2>1, <3>1, TimelyAnswer
    <3> QED
      <4>1. "blank" \notin Numbers /\ ran' \subseteq {"requested"}
        BY <3>3, <3>4 DEF KeysInv, Numbers
      <4>2. at' # "done" => phase' = "settle" /\ at' = shown
        BY <2>3, <3>2
      <4>3. at' \in DOMAIN Coming => pending' \in Coming[at']
        BY <3>2, <3>3, <3>4, <4>2 DEF Coming
      <4> QED
        BY <3>1, <3>2, <4>1, <4>2, <4>3 DEF KeysInv
  <2>5. CASE TakeWord
    <3>1. keys' \in Rest(Word[shown]) /\ Head(keys) = Word[shown]
      BY <2>1, <2>2, <2>5, RestTail DEF TakeWord
    <3>2. line' \in Seq({Word[shown]}) /\ line' = Append(line, Word[shown])
      <4>1. line' = Append(line, Word[shown])
        BY <2>5, <3>1 DEF TakeWord
      <4>2. line \in Seq({Word[shown]})
        BY EmptySeq DEF KeysInv
      <4> QED
        BY <4>1, <4>2, AppendProperties
    <3>3. CASE shown \in Numbers
      <4>1. keys = <<Word[shown], "enter">>
        <5>1. keys # <<"enter">>
          BY <2>5 DEF TakeWord
        <5> QED
          BY <2>1, <3>3, <5>1 DEF KeysInv, Rest
      <4>2. line = <<>>
        BY <3>3, <4>1 DEF KeysInv
      <4>3. keys' = <<"enter">> /\ line' = <<Word[shown]>>
        BY <2>5, <3>2, <4>1, <4>2 DEF TakeWord
      <4>4. <<"enter">> # <<Word[shown]>>
        BY <2>2
      <4> QED
        BY <2>1, <2>3, <2>5, <3>1, <3>2, <4>3, <4>4 DEF KeysInv, TakeWord, driver, history
    <3>4. CASE shown \notin Numbers
      BY <2>1, <2>3, <2>5, <3>1, <3>2, <3>4 DEF KeysInv, TakeWord, driver, history
    <3> QED
      BY <3>3, <3>4
  <2> QED
    BY <1>13, <2>4, <2>5
<1>14. CASE Draw
  BY <1>14 DEF KeysInv, ScreenInv, Draw, Drawn, driver, history, Coming, Screens
<1>15. CASE UNCHANGED vars
  BY <1>15 DEF KeysInv, vars, guest, driver, history
<1>16. QED
  BY <1>1, <1>2, <1>3, <1>4, <1>5, <1>6, <1>7, <1>8, <1>10, <1>11, <1>12, <1>13, <1>14, <1>15
     DEF Next, Driver, Guest

-----------------------------------------------------------------------------
(* The words that come with their ENTER, appended to others.               *)
LEMMA ArrivesFollowed ==
  ASSUME NEW k \in {Typed} \union Lossy \union Wrong, Arrives(k), at \in Known, torn' = {}, LateInv
  PROVE  /\ keys' \in Seq({Word[p] : p \in Known} \union {"enter"}) /\ Followed'
         /\ keys # <<>> => keys' # <<>> /\ Head(keys') = Head(keys)
<1> DEFINE W == {Word[p] : p \in Known} \union {"enter"}
<1>1. k # <<Word[at]>> /\ k \notin Wrong
  BY DEF Arrives
<1>2. k = <<Word[at], "enter">> \/ k = <<"enter">> \/ k = <<>>
  BY <1>1, Zenon DEF Typed, Lossy
<1>3. k \in Seq(W)
  <2>1. Word[at] \in W /\ "enter" \in W
    OBVIOUS
  <2> HIDE DEF W
  <2>2. <<Word[at], "enter">> \in Seq(W) /\ <<"enter">> \in Seq(W) /\ <<>> \in Seq(W)
    BY <2>1
  <2> QED
    BY <1>2, <2>2
<1>4. keys \in Seq(W) /\ keys' = keys \o k
  BY DEF LateInv, Arrives
<1>5. \A i \in 1 .. Len(k) : k[i] # "enter" => i < Len(k) /\ k[i + 1] = "enter"
  BY <1>2
<1> HIDE DEF W
<1>6. /\ keys' \in Seq(W) /\ Len(keys') = Len(keys) + Len(k)
      /\ \A i \in 1 .. Len(keys') :
           keys'[i] = IF i <= Len(keys) THEN keys[i] ELSE k[i - Len(keys)]
  BY <1>3, <1>4, ConcatProperties
<1>7. ASSUME NEW i \in 1 .. Len(keys'), keys'[i] # "enter"
      PROVE  i < Len(keys') /\ keys'[i + 1] = "enter"
  <2>0. Len(keys) \in Nat /\ Len(k) \in Nat
    BY <1>3, <1>4, LenProperties
  <2>1. CASE i <= Len(keys)
    <3>1. i \in 1 .. Len(keys) /\ keys[i] # "enter"
      BY <1>6, <1>7, <2>0, <2>1
    <3>2. i < Len(keys) /\ keys[i + 1] = "enter"
      BY <3>1 DEF LateInv, Followed
    <3>3. i + 1 \in 1 .. Len(keys') /\ i + 1 <= Len(keys)
      BY <1>6, <2>0, <3>1, <3>2
    <3> QED
      BY <1>6, <2>0, <3>2, <3>3
  <2>2. CASE i > Len(keys)
    <3> DEFINE j == i - Len(keys)
    <3>1. j \in 1 .. Len(k) /\ k[j] # "enter"
      BY <1>6, <1>7, <2>0, <2>2
    <3>2. j < Len(k) /\ k[j + 1] = "enter"
      BY <1>5, <3>1
    <3>3. i + 1 \in 1 .. Len(keys') /\ ~(i + 1 <= Len(keys)) /\ (i + 1) - Len(keys) = j + 1
      BY <1>6, <2>0, <2>2, <3>2
    <3> QED
      BY <1>6, <3>2, <3>3
  <2> QED
    BY <2>0, <2>1, <2>2
<1>8. Followed'
  BY <1>7 DEF Followed
<1>9. ASSUME keys # <<>> PROVE keys' # <<>> /\ Head(keys') = Head(keys)
  <2>1. Len(keys) \in Nat \ {0} /\ Len(k) \in Nat
    BY <1>3, <1>4, <1>9, EmptySeq, LenProperties
  <2>2. 1 \in 1 .. Len(keys') /\ keys'[1] = keys[1]
    BY <1>6, <2>1
  <2>3. keys' # <<>>
    BY <1>6, <2>1
  <2> QED
    BY <1>4, <1>6, <1>9, <2>2, <2>3, HeadTailProperties
<1> QED
  BY <1>6, <1>8, <1>9 DEF W

(* What is left when the guest has taken the first key.                    *)
LEMMA TailFollowed ==
  ASSUME LateInv, keys # <<>>, keys' = Tail(keys)
  PROVE  /\ keys' \in Seq({Word[p] : p \in Known} \union {"enter"}) /\ Followed'
         /\ Head(keys) # "enter" => /\ keys' # <<>> /\ Head(keys') = "enter"
                                    /\ \E p \in Known : Head(keys) = Word[p]
<1> DEFINE W == {Word[p] : p \in Known} \union {"enter"}
<1>1. keys \in Seq(W)
  BY DEF LateInv
<1> HIDE DEF W
<1>2. /\ keys' \in Seq(W) /\ Len(keys') = Len(keys) - 1 /\ Head(keys) \in W
      /\ \A i \in 1 .. Len(keys') : keys'[i] = keys[i + 1]
      /\ Head(keys) = keys[1] /\ Len(keys) \in Nat \ {0}
  BY <1>1, HeadTailProperties, EmptySeq, LenProperties
<1>3. ASSUME NEW i \in 1 .. Len(keys'), keys'[i] # "enter"
      PROVE  i < Len(keys') /\ keys'[i + 1] = "enter"
  <2>1. i + 1 \in 1 .. Len(keys) /\ keys[i + 1] # "enter"
    BY <1>2, <1>3
  <2>2. i + 1 < Len(keys) /\ keys[(i + 1) + 1] = "enter"
    BY <2>1 DEF LateInv, Followed
  <2>3. i + 1 \in 1 .. Len(keys')
    BY <1>2, <2>1, <2>2
  <2> QED
    BY <1>2, <2>2, <2>3
<1>4. ASSUME Head(keys) # "enter"
      PROVE  keys' # <<>> /\ Head(keys') = "enter" /\ \E p \in Known : Head(keys) = Word[p]
  <2>1. 1 \in 1 .. Len(keys) /\ keys[1] # "enter"
    BY <1>2, <1>4
  <2>2. 1 < Len(keys) /\ keys[1 + 1] = "enter"
    BY <2>1 DEF LateInv, Followed
  <2>3. 1 \in 1 .. Len(keys') /\ keys'[1] = "enter"
    BY <1>2, <2>1, <2>2
  <2>4. keys' # <<>> /\ Head(keys') = "enter"
    <3>1. keys' # <<>>
      BY <1>2, <2>3
    <3> QED
      BY <1>2, <2>3, <3>1, HeadTailProperties
  <2>5. \E p \in Known : Head(keys) = Word[p]
    BY <1>2, <1>4 DEF W
  <2> QED
    BY <2>4, <2>5
<1> QED
  BY <1>2, <1>3, <1>4 DEF Followed, W

(* A line that holds one word and is taken for a sub-test is the one meant. *)
LEMMA LateBegun ==
  ASSUME LateInv, shown \in Known, NEW answer \in Answers
  PROVE  "subtest" \notin Begun(answer)
<1> SUFFICES ASSUME shown = "fdmenu", answer = "hardcopy", line # <<"test">> PROVE FALSE
  BY DEF Begun
<1>1. Words \intersect {"test", "garbled"} # {}
  BY DEF Answers
<1>2. line # <<>>
  BY <1>1 DEF Words
<1>3. PICK p \in Known : line = <<Word[p]>>
  BY <1>2 DEF LateInv
<1>4. Words = {Word[p]}
  BY <1>3 DEF Words
<1>5. Word[p] = "test"
  BY <1>1, <1>4, KnownScreens DEF Word
<1> QED
  BY <1>3, <1>5

LEMMA LateStep == IInv /\ [Next]_vars => (torn = {} => LateInv)'
<1> SUFFICES ASSUME IInv, [Next]_vars, torn' = {} PROVE LateInv'
  OBVIOUS
<1> LateInv /\ ScreenInv
  BY TimelyFrame DEF IInv
<1>1. ASSUME UNCHANGED <<keys, line, ran>> PROVE LateInv'
  BY <1>1 DEF LateInv, Followed
<1>2. CASE WaitKnown \/ WaitList \/ WaitHardCopy \/ Reread \/ Deadline \/ Unreachable \/ CaptureEnds
  BY <1>1, <1>2 DEF WaitKnown, WaitList, WaitHardCopy, WaitFor, Reread, Deadline, Unreachable,
                    CaptureEnds, Goto, guest
<1>3. CASE Look
  BY <1>1, <1>3, LookFrame DEF guest, history
<1>4. CASE Settle \/ Sample \/ Draw
  BY <1>1, <1>4 DEF Settle, Sample, Draw, guest, history
<1>5. CASE UNCHANGED vars
  BY <1>1, <1>5 DEF vars, guest, history
<1>6. CASE Send \/ SendFails
  <2>1. at \in Known /\ UNCHANGED <<line, ran>>
    BY <1>6 DEF Send, SendFails
  <2>2. \E k \in {Typed} \union Lossy \union Wrong : Arrives(k)
    BY <1>6 DEF Send, SendFails
  <2>3. /\ keys' \in Seq({Word[p] : p \in Known} \union {"enter"}) /\ Followed'
        /\ keys # <<>> => keys' # <<>> /\ Head(keys') = Head(keys)
    BY <2>1, <2>2, ArrivesFollowed
  <2> QED
    BY <2>1, <2>3 DEF LateInv
<1>7. CASE TakeEnter
  <2>1. /\ shown \in Known /\ keys # <<>> /\ keys' = Tail(keys) /\ line' = <<>>
        /\ \E answer \in Answers : ran' = ran \union Begun(answer)
    BY <1>7 DEF TakeEnter
  <2> QED
    BY <2>1, TailFollowed, LateBegun DEF LateInv
<1>8. CASE TakeWord
  <2>1. /\ keys # <<>> /\ keys' = Tail(keys) /\ Head(keys) # "enter"
        /\ line' = Append(line, Head(keys)) /\ ran' = ran
    BY <1>8 DEF TakeWord, history
  <2>2. line = <<>>
    BY <2>1 DEF LateInv
  <2>3. line' = <<Head(keys)>>
    BY <2>1, <2>2
  <2> QED
    BY <2>1, <2>3, TailFollowed DEF LateInv
<1> QED
  BY <1>2, <1>3, <1>4, <1>5, <1>6, <1>7, <1>8 DEF Next, Driver, Guest

-----------------------------------------------------------------------------
(* A verdict is that of the sub-test the driver asks for, and a guest that *)
(* keeps up is never made to run another test, as long as the numbers that *)
(* the driver has typed are whole.                                         *)
THEOREM OnlyRequestedTest == Spec => []RequestedTest
<1>1. IInv /\ [Next]_vars => IInv'
  BY ScreenStep, VerdictStep, KeysStep, LateStep DEF IInv
<1>2. IInv => RequestedTest
  BY DEF IInv, VerdictInv, Asked, KeysInv, LateInv, RequestedTest, Whole
<1> QED
  BY InitInv, <1>1, <1>2, PTL DEF Spec
=============================================================================
