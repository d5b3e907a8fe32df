----------------------------- MODULE Diagnostics -----------------------------
(***************************************************************************)
(* diagnostics_driver.py: one VM's driver walks through the menus of the   *)
(* Advanced Diagnostics by typing a word and ENTER, looking at the screen  *)
(* through the memdump server, and typing again.  It opens a GDB           *)
(* connection for each injection only, so that the guest runs while it     *)
(* looks.  The emulated keyboard may drop keys, and the guest may take its *)
(* keys later than the driver expects.  A number that has lost one of its  *)
(* keys, or has been typed again on the same line because its ENTER was    *)
(* lost, is another number.                                                *)
(* The diagnostics program is external: what the driver's predicates and   *)
(* comments say of its screens.                                            *)
(***************************************************************************)
EXTENDS Naturals, Sequences

CONSTANTS
  Attempts,   \* injections for one screen; the code's are 8, 10 and 12
  MaxDrops    \* bound: injections of which the keyboard drops something

ASSUME AttemptBounds == Attempts \in Nat /\ MaxDrops \in Nat

(* The prompts in their order, and the word that each is to be given.      *)
(* "option" is the number of FIXED DISK in the test list, "test" the       *)
(* requested sub-test and drive, such as 6,C.                              *)
Prompts == <<"menu", "list", "checkout", "tests", "fdmenu", "hardcopy">>
Known   == {Prompts[n] : n \in 1 .. 6}
Numbers == {"tests", "fdmenu"}
Word    == [menu |-> "zero", list |-> "yes", checkout |-> "zero", tests |-> "option",
            fdmenu |-> "test", hardcopy |-> "no"]
Screens == Known \union {"boot", "blank", "loading", "other", "testing", "passed", "failed"}

VARIABLES
  timely,   \* the guest has handled its keys when the driver looks again
  shown,    \* the screen
  pending,  \* the screen that is to follow a blank one
  keys,     \* keys that the guest has not read
  line,     \* words typed since the last ENTER
  drops,
  at,       \* where the driver is: a prompt, or one of the waits
  phase,    \* at a prompt: "look", "send" or "settle"
  sent,     \* injections for this prompt
  samples,  \* screens captured
  verdict,
  began,    \* history: the screen the driver has found first
  ran,      \* history: what has begun since: the "requested" sub-test, another
            \* "subtest", or an "other" test of the list
  torn      \* history: prompts at which a word has arrived in part or without ENTER

guest   == <<shown, pending, keys, line>>
driver  == <<at, phase, sent, samples, verdict>>
history == <<began, ran, torn>>
vars    == <<timely, guest, drops, driver, history>>

Init ==
  /\ timely \in BOOLEAN
  /\ shown \in Screens \ {"blank"} /\ pending = "blank"
  /\ keys = <<>> /\ line = <<>> /\ drops = 0
  /\ at = "waitKnown" /\ phase = "look" /\ sent = 0
  /\ samples = {} /\ verdict = "none"
  /\ began = "blank" /\ ran = {} /\ torn = {}

-----------------------------------------------------------------------------
(* The driver. *)
Expected(prompt, screen) ==
  CASE prompt = "menu"     -> screen \in {"list", "loading"}
    [] prompt = "list"     -> screen = "checkout"
    [] prompt = "checkout" -> screen = "tests"
    [] prompt = "tests"    -> screen = "fdmenu"
    [] prompt = "fdmenu"   -> screen # "fdmenu"
    [] prompt = "hardcopy" -> screen # "hardcopy"

After == [menu |-> "waitList", list |-> "atCheckout", checkout |-> "atTests",
          tests |-> "atMenu", fdmenu |-> "waitHardCopy", hardcopy |-> "capture"]

(* After a prompt has been passed the screen is read again, and the walk   *)
(* only goes forward.                                                      *)
Ahead == [atCheckout |-> {"checkout", "tests", "fdmenu", "hardcopy"},
          atTests    |-> {"tests", "fdmenu", "hardcopy"},
          atMenu     |-> {"fdmenu", "hardcopy"}]

(* The driver goes on to a prompt or to one of its waits; an error ends it. *)
Goto(place) == /\ at' = place /\ phase' = "look" /\ sent' = 0
               /\ UNCHANGED <<timely, guest, drops, samples, ran, torn>>

(* Each screen has its place in the walk; a hard copy prompt that is there *)
(* already is treated like the menu before it.                             *)
Place(screen) == IF screen = "hardcopy" THEN "fdmenu" ELSE screen

WaitKnown ==
  /\ at = "waitKnown" /\ shown \in Known
  /\ Goto(Place(shown)) /\ began' = shown
  /\ UNCHANGED verdict

WaitFor(place, prompt) ==
  /\ at = place /\ shown = prompt /\ Goto(prompt)
  /\ UNCHANGED <<verdict, began>>

WaitList     == WaitFor("waitList", "list")
WaitHardCopy == WaitFor("waitHardCopy", "hardcopy")

Reread ==
  /\ at \in DOMAIN Ahead
  /\ IF shown \in Ahead[at] THEN Goto(Place(shown)) /\ UNCHANGED verdict
                             ELSE Goto("done") /\ verdict' = "error"
  /\ UNCHANGED began

Deadline ==
  /\ at \in {"waitKnown", "waitList", "waitHardCopy"}
  /\ Goto("done") /\ verdict' = "error"
  /\ UNCHANGED began

(* Any command to the memdump server may raise. *)
Unreachable ==
  /\ at # "done" /\ phase # "settle"
  /\ Goto("done") /\ verdict' = "error"
  /\ UNCHANGED began

Passed == Expected(at, shown) /\ Goto(After[at]) /\ UNCHANGED <<verdict, began>>
GiveUp == Goto("done") /\ verdict' = "error" /\ UNCHANGED began
Again  == /\ phase' = "send"
          /\ UNCHANGED <<timely, guest, drops, at, sent, samples, verdict, history>>

(* Two looks in a row, at the end of an attempt and before the next, are   *)
(* one.  Mutant: the driver does not look before it sends again.           *)
LookBlind ==
  /\ at \in Known /\ phase = "look"
  /\ \/ sent \in 1 .. Attempts - 1 /\ Again
     \/ sent \notin 1 .. Attempts - 1 /\ Passed
     \/ ~Expected(at, shown) /\ sent = 0 /\ Again
     \/ ~Expected(at, shown) /\ sent >= Attempts /\ GiveUp

Look ==
  /\ at \in Known /\ phase = "look"
  /\ \/ Passed
     \/ ~Expected(at, shown) /\ sent < Attempts /\ Again
     \/ ~Expected(at, shown) /\ sent >= Attempts /\ GiveUp

(* What becomes of a word and ENTER in the keyboard: all of it arrives, or *)
(* the word, the ENTER or both are lost, or a key of a number is.          *)
Typed  == <<Word[at], "enter">>
Lossy  == {<<Word[at]>>, <<"enter">>, <<>>}
Wrong  == IF at \in Numbers THEN {<<"garbled", "enter">>, <<"garbled">>} ELSE {}

Arrives(k) ==
  /\ keys' = keys \o k
  /\ torn' = torn \union (IF k = <<Word[at]>> \/ k \in Wrong THEN {at} ELSE {})

(* Mutant: the attempts are not counted. *)
SendUncounted ==
  /\ at \in Known /\ phase = "send" /\ phase' = "settle"
  /\ sent' = sent
  /\ \E k \in {Typed} \union Lossy \union Wrong :
       /\ Arrives(k)
       /\ drops' = IF k = Typed THEN drops ELSE drops + 1
  /\ drops' <= MaxDrops
  /\ UNCHANGED <<timely, shown, pending, line, at, samples, verdict, began, ran>>

Send ==
  /\ at \in Known /\ phase = "send" /\ phase' = "settle"
  /\ sent' = sent + 1
  /\ \E k \in {Typed} \union Lossy \union Wrong :
       /\ Arrives(k)
       /\ drops' = IF k = Typed THEN drops ELSE drops + 1
  /\ drops' <= MaxDrops
  /\ UNCHANGED <<timely, shown, pending, line, at, samples, verdict, began, ran>>

(* The connection fails: any part of the keys has gone out. *)
SendFails ==
  /\ at \in Known /\ phase = "send"
  /\ \E k \in {Typed} \union Lossy \union Wrong : Arrives(k)
  /\ at' = "done" /\ phase' = "look" /\ sent' = 0 /\ verdict' = "error"
  /\ UNCHANGED <<timely, shown, pending, line, drops, samples, began, ran>>

(* The sleep after an injection. *)
Idle == keys = <<>> /\ shown # "blank"
Settle ==
  /\ at \in Known /\ phase = "settle" /\ phase' = "look"
  /\ timely => Idle
  /\ UNCHANGED <<timely, guest, drops, at, sent, samples, verdict, history>>

Sample ==
  /\ at = "capture" /\ shown \notin samples
  /\ samples' = samples \union {shown}
  /\ UNCHANGED <<timely, guest, drops, at, phase, sent, verdict, history>>

CaptureEnds ==
  /\ at = "capture" /\ Goto("done")
  /\ verdict' = IF "failed" \in samples THEN "FAIL"
                ELSE IF "passed" \in samples THEN "PASS"
                ELSE "no verdict"
  /\ UNCHANGED began

Driver == WaitKnown \/ WaitList \/ WaitHardCopy \/ Reread \/ Deadline \/ Unreachable \/ Look
          \/ Send \/ SendFails \/ Settle \/ Sample \/ CaptureEnds

-----------------------------------------------------------------------------
(* The diagnostics (external).  A prompt takes the word it asks for.  What *)
(* a number that is not the one meant stands for, nobody can tell: it is   *)
(* refused, or begins something else.  Any other line is refused.          *)
Words == {line[n] : n \in DOMAIN line}
Doubt == IF Len(line) = 1 THEN {} ELSE {shown}

Answers ==
  CASE shown = "menu" /\ Words = {"zero"}     -> {"loading"}
    [] shown = "list" /\ Words = {"yes"}      -> {"checkout"} \union Doubt
    [] shown = "checkout" /\ Words = {"zero"} -> {"tests"}
    [] shown = "tests" /\ line = <<"option">> -> {"fdmenu"}
    [] shown = "tests" /\ line \notin {<<>>, <<"option">>} /\ Words \subseteq {"zero", "option", "garbled"}
                                              -> {"tests", "fdmenu", "other"}
    [] shown = "fdmenu" /\ line = <<"test">>  -> {"hardcopy"}
    [] shown = "fdmenu" /\ line # <<"test">> /\ Words \intersect {"test", "garbled"} # {}
                                              -> {"fdmenu", "hardcopy"}
    [] shown = "hardcopy" /\ Words = {"no"}   -> {"testing"} \union Doubt
    [] OTHER                                  -> {shown}

Begun(answer) ==
  IF answer = "other" THEN {"other"}
  ELSE IF shown # "fdmenu" \/ answer # "hardcopy" THEN {}
  ELSE IF line = <<"test">> THEN {"requested"} ELSE {"subtest"}

TakeEnter ==
  /\ keys # <<>> /\ shown \in Known /\ Head(keys) = "enter"
  /\ keys' = Tail(keys) /\ line' = <<>> /\ shown' = "blank"
  /\ \E answer \in Answers : pending' = answer /\ ran' = ran \union Begun(answer)
  /\ UNCHANGED <<timely, drops, driver, began, torn>>

TakeWord ==
  /\ keys # <<>> /\ shown \in Known /\ Head(keys) # "enter"
  /\ keys' = Tail(keys) /\ line' = Append(line, Head(keys))
  /\ UNCHANGED <<timely, shown, pending, drops, driver, history>>

(* A prompt is drawn, a program is loaded, a test ends. *)
Drawn ==
  CASE shown = "blank"   -> {pending}
    [] shown = "boot"    -> {"menu"}
    [] shown = "loading" -> {"list"}
    [] shown = "other"   -> {"tests"}
    [] shown = "testing" -> {"passed", "failed"}
    [] OTHER             -> {}

Draw ==
  /\ shown' \in Drawn /\ pending' = "blank"
  /\ UNCHANGED <<timely, keys, line, drops, driver, history>>

Guest == TakeEnter \/ TakeWord \/ Draw

Next == Driver \/ Guest
Spec == Init /\ [][Next]_vars

(* The driver's sleeps and deadlines are clock time.  Nothing is assumed   *)
(* of the guest but that a timely one comes to the end of its keys.        *)
FairSpec == /\ Spec /\ WF_vars(Driver) /\ WF_vars(CaptureEnds)
            /\ WF_vars(timely /\ Guest)

-----------------------------------------------------------------------------
(* The number of a test or of a sub-test is whole: in a guest that keeps   *)
(* up if neither has lost a key, in one that is late if no word has.       *)
(* (A word that is lost as a whole, with or without its ENTER, does not    *)
(* count: it is typed again on an empty line.)                             *)
Whole == torn = {} \/ (timely /\ torn \intersect Numbers = {})

(* A verdict is that of the sub-test that was asked for, unless the driver *)
(* has found the guest at the hard copy prompt of somebody else's test, or *)
(* a number was not whole: nothing in the driver reads it back.  And in a  *)
(* guest that has dealt with its keys before the driver looks again, the   *)
(* words that are typed again, at whatever prompt, start no other test as  *)
(* long as the numbers are whole.                                          *)
RequestedTest ==
  /\ verdict \in {"PASS", "FAIL"} /\ Whole => "requested" \in ran \/ began = "hardcopy"
  /\ timely /\ Whole => ran \subseteq {"requested"}

(* The driver comes to an end, whatever the guest shows or fails to show.  *)
DriverEnds == at # "done" ~> at = "done"
=============================================================================
