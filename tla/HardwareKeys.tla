---------------------------- MODULE HardwareKeys ----------------------------
(***************************************************************************)
(* guest_console.py with --input-mode hardware: keys as scan bytes, sent   *)
(* to the guest's keyboard in a make phase and, after a gap in which the   *)
(* guest runs, a break phase; and the loop around them, which watches the  *)
(* screen and with --wait-change sends the keys again until it changes.    *)
(***************************************************************************)
EXTENDS Naturals, Sequences, FiniteSets

CONSTANTS
  Keys,          \* records [scan, mod, ext]
  E0,            \* code of the prefix byte without its high bit: names no key
  None,          \* no modifier
  MaxKeys,       \* bound: keys queued
  MaxScreens     \* bound: screens the guest shows

ASSUME KeysAssumption == \A k \in Keys : /\ DOMAIN k = {"scan", "mod", "ext"}
                                         /\ k.scan \notin {E0, None}
                                         /\ \A l \in Keys : k.scan # l.mod
                                         /\ k.mod # E0 /\ k.ext \in BOOLEAN
                                         /\ k.ext => k.mod = None
ASSUME BoundAssumption == MaxKeys \in Nat /\ MaxScreens \in Nat \ {0}

VARIABLES
  scans, breaks,   \* GuestInputQueue: bytes to send, breaks to send
  gap,             \* its break_due: "off", "running", or "over" when it has passed
  pc,              \* where stream_console is
  exit,            \* exit_requested
  again,           \* retry_keys: the first keys with --wait-change, or none
  waiting,         \* --wait-change
  stable,          \* the last screen that was different, 0 before the first
  changed,         \* changed_at: "no", "recent", or "settled" when that is long ago
  screen,          \* the guest's screen
  down,            \* the guest's keyboard: codes of the keys that are down
  pressed,         \* history: keys pressed in the guest, with what was down then
  given            \* history: the keys queued

queue   == <<scans, breaks, gap>>
loop    == <<exit, again, waiting, stable, changed>>
machine == <<screen, down, pressed>>
vars    == <<queue, pc, loop, machine, given>>

Codes == (UNION {{k.scan, k.mod} : k \in Keys}) \ {None}
Mods  == {k.mod : k \in Keys} \ {None}

Make(c)  == [code |-> c, release |-> FALSE]
Break(c) == [code |-> c, release |-> TRUE]
IsMake(b) == ~b.release
Prefix   == Break(E0)          \* 0xE0 has its high bit set, as breaks do

TypeOK ==
  /\ scans \in Seq({Make(c) : c \in Codes} \union {Break(c) : c \in Codes \union {E0}})
  /\ breaks \in Seq({Break(c) : c \in Codes \union {E0}})
  /\ gap \in {"off", "running", "over"}
  /\ pc \in {"top", "gap", "gapInject", "frame", "inject", "retry", "wait", "done"}
  /\ exit \in BOOLEAN /\ waiting \in BOOLEAN
  /\ again \in Seq(Keys) /\ given \in Seq(Keys)
  /\ stable \in 0 .. MaxScreens /\ screen \in 1 .. MaxScreens
  /\ changed \in {"no", "recent", "settled"}
  /\ down \subseteq Codes
  /\ pressed \in Seq([code : Codes, ext : BOOLEAN, with : SUBSET Codes])

-----------------------------------------------------------------------------
(* hardware_scan_bytes *)
When(b, s) == IF b THEN s ELSE <<>>

(* Mutant: the modifier is let go before the key. *)
ScanBytesSingly(k) ==
  When(k.mod # None, <<Make(k.mod), Break(k.mod)>>)
  \o When(k.ext, <<Prefix>>) \o <<Make(k.scan)>>
  \o When(k.ext, <<Prefix>>) \o <<Break(k.scan)>>

ScanBytes(k) ==
  When(k.mod # None, <<Make(k.mod)>>)
  \o When(k.ext, <<Prefix>>) \o <<Make(k.scan)>>
  \o When(k.ext, <<Prefix>>) \o <<Break(k.scan)>>
  \o When(k.mod # None, <<Break(k.mod)>>)

HardwareScanBytes(ks) ==
  LET result[n \in 0 .. Len(ks)] ==
        IF n = 0 THEN <<>> ELSE result[n - 1] \o ScanBytes(ks[n])
  IN  result[Len(ks)]

Extend(ks) ==
  /\ Len(given) + Len(ks) <= MaxKeys
  /\ scans' = scans \o HardwareScanBytes(ks)
  /\ given' = given \o ks
  /\ UNCHANGED <<breaks, gap>>

-----------------------------------------------------------------------------
(* GuestInputQueue.inject *)
(* Mutant: the gap is not waited for but required. *)
BreakPhaseEarly ==
  /\ breaks # <<>> /\ gap = "running"
  /\ down' = down \ {breaks[i].code : i \in DOMAIN breaks}
  /\ breaks' = <<>> /\ gap' = "off"
  /\ UNCHANGED <<scans, pressed>>

BreakPhase ==
  /\ breaks # <<>> /\ gap = "over"
  /\ down' = down \ {breaks[i].code : i \in DOMAIN breaks}
  /\ breaks' = <<>> /\ gap' = "off"
  /\ UNCHANGED <<scans, pressed>>

(* Lengths of the runs of makes and then of breaks that the queue begins with. *)
Makes  == CHOOSE n \in 0 .. Len(scans) :
            /\ \A i \in 1 .. n : IsMake(scans[i])
            /\ n < Len(scans) => ~IsMake(scans[n + 1])
Phase  == CHOOSE n \in Makes .. Len(scans) :
            /\ \A i \in Makes + 1 .. n : ~IsMake(scans[i])
            /\ n < Len(scans) => IsMake(scans[n + 1])

(* The keys of a make phase go down one after the other.  A prefix never   *)
(* comes with them, so that no key goes down as an extended one.           *)
Held(n) == down \union {scans[i].code : i \in 1 .. n - 1}
Presses ==
  LET after[n \in 0 .. Makes] ==
        IF n = 0 THEN pressed
        ELSE IF scans[n].code \in Mods THEN after[n - 1]
        ELSE Append(after[n - 1], [code |-> scans[n].code, ext |-> FALSE, with |-> Held(n)])
  IN  after[Makes]

(* Mutant: all that is left is taken for breaks. *)
MakePhaseAll ==
  /\ breaks = <<>> /\ scans # <<>>
  /\ down' = Held(Makes + 1) /\ pressed' = Presses
  /\ breaks' = SubSeq(scans, Makes + 1, Len(scans))
  /\ scans' = <<>> /\ gap' = "running"

MakePhase ==
  /\ breaks = <<>> /\ scans # <<>>
  /\ down' = Held(Makes + 1) /\ pressed' = Presses
  /\ breaks' = SubSeq(scans, Makes + 1, Phase)
  /\ scans' = SubSeq(scans, Phase + 1, Len(scans))
  /\ gap' = "running"

NoPhase ==
  /\ breaks # <<>> => gap = "running"
  /\ breaks = <<>> => scans = <<>>
  /\ UNCHANGED <<queue, down, pressed>>

Inject == (BreakPhase \/ MakePhase \/ NoPhase) /\ UNCHANGED <<screen, given>>

-----------------------------------------------------------------------------
(* stream_console.  --duration may end whenever the code looks at it. *)
Goto(from, to) == pc = from /\ pc' = to

Init ==
  /\ given \in UNION {[1 .. n -> Keys] : n \in 0 .. MaxKeys}
  /\ waiting \in BOOLEAN
  /\ again = IF waiting THEN given ELSE <<>>
  /\ scans = HardwareScanBytes(given) /\ breaks = <<>> /\ gap = "off"
  /\ pc = "top" /\ exit = FALSE
  /\ stable = 0 /\ changed = "no" /\ screen = 1
  /\ down = {} /\ pressed = <<>>

WaitingForBreak == breaks # <<>> /\ gap = "running"
Top ==
  /\ Goto("top", IF exit THEN "done" ELSE IF WaitingForBreak THEN "gap" ELSE "frame")
  /\ UNCHANGED <<queue, loop, machine, given>>

(* The gap has passed, or Ctrl-], or the host's input has come to its end:  *)
(* the loop then goes round and round until the gap has passed.            *)
GapOver ==
  /\ Goto("gap", "gapInject")
  /\ UNCHANGED <<queue, loop, machine, given>>

InjectAndEnd(from, next) ==
  /\ \E to \in {next, "done"} : Goto(from, to) /\ (exit => to = "done")
  /\ Inject
  /\ UNCHANGED loop

GapInject   == InjectAndEnd("gapInject", "top")
FrameInject == InjectAndEnd("inject", "retry")

(* The baseline, a difference, or a screen that has been the same for      *)
(* WAIT_SETTLE seconds after one.                                          *)
Different == screen # stable

(* Mutant: every screen is compared with the baseline. *)
FrameBaseline ==
  /\ Goto("frame", IF waiting /\ ~Different /\ changed = "settled" THEN "done" ELSE "inject")
  /\ stable' = IF waiting /\ stable = 0 THEN screen ELSE stable
  /\ changed' = IF waiting /\ Different /\ stable # 0 THEN "recent" ELSE changed
  /\ UNCHANGED <<queue, exit, again, waiting, machine, given>>

Frame ==
  /\ Goto("frame", IF waiting /\ ~Different /\ changed = "settled" THEN "done" ELSE "inject")
  /\ stable' = IF waiting THEN screen ELSE stable
  /\ changed' = IF waiting /\ Different /\ stable # 0 THEN "recent" ELSE changed
  /\ UNCHANGED <<queue, exit, again, waiting, machine, given>>

(* The interval of --retry is not looked at: the first one has always      *)
(* passed, as last_retry begins at zero.                                   *)
RetryKeys ==
  /\ again # <<>> /\ changed = "no"
  /\ Goto("retry", "wait")
  /\ Extend(again)
  /\ UNCHANGED <<loop, machine>>

NoRetry ==
  /\ Goto("retry", "wait")
  /\ UNCHANGED <<queue, loop, machine, given>>

WaitUntilSample ==
  /\ Goto("wait", "top")
  /\ UNCHANGED <<queue, loop, machine, given>>

(* The user types while the console waits, or Ctrl-].  An ESC that is      *)
(* flushed after a frame counts as typed in the wait before it.            *)
HostKey ==
  /\ pc \in {"gap", "wait"} /\ ~exit /\ UNCHANGED <<pc, again, waiting, stable, changed, machine>>
  /\ \/ \E k \in Keys : Extend(<<k>>) /\ UNCHANGED exit
     \/ exit' = TRUE /\ UNCHANGED <<queue, given>>

Console == Top \/ GapOver \/ GapInject \/ Frame \/ FrameInject \/ RetryKeys \/ NoRetry
           \/ WaitUntilSample

-----------------------------------------------------------------------------
(* The clock and the guest. *)
GapEnds ==
  /\ gap = "running" /\ gap' = "over"
  /\ UNCHANGED <<scans, breaks, pc, loop, machine, given>>

Settles ==
  /\ changed = "recent" /\ changed' = "settled"
  /\ UNCHANGED <<queue, pc, exit, again, waiting, stable, machine, given>>

ScreenChanges ==
  /\ screen < MaxScreens /\ screen' = screen + 1
  /\ UNCHANGED <<queue, pc, loop, down, pressed, given>>

Next == Console \/ HostKey \/ GapEnds \/ Settles \/ ScreenChanges

Spec == Init /\ [][Next]_vars

(* The console takes its steps and the clock goes on. *)
FairSpec == Spec /\ WF_vars(Console) /\ WF_vars(GapEnds) /\ WF_vars(Settles)

-----------------------------------------------------------------------------
(* For every key queued one key is pressed, in order, with its modifier    *)
(* down and nothing else (guest_console.py 417-421): what is not pressed   *)
(* yet waits.  A key that is not extended is the one pressed.  For an      *)
(* extended one the guest gets its twin on the keypad instead: the prefix  *)
(* that the code puts before it (rsp.py 905-909) is sent as a break.       *)
(* Whatever is down has its break waiting, and in the same phase, so that  *)
(* no modifier outlasts its key (guest_console.py 425-426).                *)
Meant(k) == [code |-> k.scan, ext |-> k.ext, with |-> {k.mod} \ {None}]
Twin(k)  == [code |-> k.scan, ext |-> FALSE, with |-> {k.mod} \ {None}]
IsKeyMake(b) == IsMake(b) /\ b.code \notin Mods
KeysPressedInTurn ==
  /\ \A i \in DOMAIN pressed :
       pressed[i] = IF given[i].ext THEN Twin(given[i]) ELSE Meant(given[i])
  /\ Len(pressed) + Cardinality({i \in DOMAIN scans : IsKeyMake(scans[i])}) = Len(given)
  /\ down = {breaks[i].code : i \in DOMAIN breaks} \ {E0}

(* A key that is down comes up again, unless the console is left first     *)
(* (guest_console.py 401-412, 614-646).                                    *)
KeysComeUp == (down # {}) ~> (down = {} \/ pc = "done")

(* --wait-change: a change that was seen ends the wait once the screen     *)
(* holds still (it changes MaxScreens - 1 times), whatever the user types  *)
(* and however many keys are still queued (guest_console.py 650-667).      *)
ChangeEndsWait == (changed # "no") ~> (pc = "done")
=============================================================================
