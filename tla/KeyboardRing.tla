---------------------------- MODULE KeyboardRing ----------------------------
(***************************************************************************)
(* Keys sent through the BIOS keyboard ring: inject_bios_keys of rsp.py,   *)
(* called by "rsp.py type --bios-buffer", which halts the guest for it,    *)
(* and by guest_console.py in bios mode, which lets the guest run.  Every  *)
(* command to the GDB stub is a step; the guest runs between them.  The    *)
(* guest's BIOS and program are external.  Addresses are offsets into the  *)
(* BIOS data area.                                                         *)
(***************************************************************************)
EXTENDS Naturals, Sequences

CONSTANTS
  Keys,          \* BIOS key words that the tools send
  Typed,         \* a key word of the guest's own keyboard
  NoKey,         \* what a slot holds that was never written
  ClassicStart,  \* CLASSIC_KEYBOARD_START
  ClassicEnd,    \* CLASSIC_KEYBOARD_END
  Limit,         \* offset 100h, where the BIOS data area ends
  Extended,      \* rings <<start, end>> that a BIOS may record at 480h
  Tools,         \* the tools in use: "type", "console"
  CutsInt9,      \* TRUE: the stub may run commands in the middle of INT 9
  MaxKeys,       \* bound: keys the user gives to the tool
  MaxTyped       \* tool -> bound: keys typed on the guest's own keyboard

(* The test of _keyboard_bounds. *)
ValidBounds(r) == /\ r[1] >= ClassicStart /\ r[2] > r[1] /\ r[2] <= Limit
                  /\ r[1] % 2 = 0 /\ r[2] % 2 = 0
Classic == <<ClassicStart, ClassicEnd>>
Unset   == <<0, 0>>
Rings   == Extended \union {Classic}

ASSUME RingAssumption ==
  /\ {ClassicStart, ClassicEnd, Limit} \subseteq Nat
  /\ ClassicStart > 0
  /\ Extended \subseteq Nat \X Nat
  /\ \A r \in Rings : ValidBounds(r)
ASSUME KeyAssumption == Typed \notin Keys /\ NoKey \notin Keys \union {Typed}
ASSUME ToolAssumption == Tools \subseteq {"type", "console"} /\ CutsInt9 \in BOOLEAN
ASSUME BoundAssumption == MaxKeys \in Nat /\ MaxTyped \in [Tools -> Nat]

Offsets == 0 .. Limit - 1

VARIABLES
  mem,       \* offset -> the key word there
  head,      \* the word at 41Ah
  tail,      \* the word at 41Ch
  recorded,  \* the two words at 480h
  ring,      \* the ring that the guest's BIOS uses, Unset before POST
  int9,      \* the tail that an interrupted INT 9 is about to store, or 0
  running,   \* FALSE while the GDB stub holds the guest's CPU
  tool, pc,  \* the tool and where it is
  pend,      \* its pending keys
  h,         \* its locals: head, tail and bounds as it has read them, keys written
  typed,     \* number of keys typed on the guest's own keyboard
  entered,   \* history: the keys the user gave to the tool
  taken      \* history: the keys the guest's program has read

guest == <<mem, head, tail, recorded, ring, int9, typed, taken>>
host  == <<tool, pend, entered>>
vars  == <<mem, head, tail, recorded, ring, int9, running, tool, pc, pend, h, typed,
           entered, taken>>

Local == [head : Offsets, tail : Offsets, ring : Rings \union {Unset}, written : 0 .. MaxKeys]
Fresh == [head |-> 0, tail |-> 0, ring |-> Unset, written |-> 0]
Words == Keys \union {Typed, NoKey}

TypeOK ==
  /\ mem \in [Offsets -> Words]
  /\ head \in Offsets /\ tail \in Offsets /\ int9 \in Offsets
  /\ recorded \in Rings \union {Unset} /\ ring \in Rings \union {Unset}
  /\ running \in BOOLEAN
  /\ tool \in Tools
  /\ pc \in {"connect", "frame", "readPointers", "readBounds", "write", "returned",
             "pause", "done", "error"}
  /\ pend \in Seq(Keys)
  /\ h \in Local
  /\ typed \in 0 .. MaxTyped[tool]
  /\ entered \in Seq(Keys) /\ Len(entered) <= MaxKeys
  /\ taken \in Seq(Words)

-----------------------------------------------------------------------------
(* Both sides step through a ring in the same way. *)
AfterLate(at, r) == IF at + 2 > r[2] THEN r[1] ELSE at + 2   \* mutant: off by one

After(at, r) == IF at + 2 >= r[2] THEN r[1] ELSE at + 2

InRing(at, r) == r[1] <= at /\ at < r[2] /\ at % 2 = 0

Init ==
  /\ mem = [o \in Offsets |-> NoKey]
  /\ head = 0 /\ tail = 0 /\ int9 = 0
  /\ recorded = Unset /\ ring = Unset
  /\ running = TRUE
  /\ tool \in Tools
  /\ pc = IF tool = "type" THEN "connect" ELSE "frame"
  /\ entered \in UNION {[1 .. n -> Keys] : n \in 1 .. MaxKeys}
  /\ pend = entered
  /\ h = Fresh
  /\ typed = 0 /\ taken = <<>>

Goto(from, to) == pc = from /\ pc' = to

StubListens == CutsInt9 \/ int9 = 0

-----------------------------------------------------------------------------
(* inject_bios_keys, one RSP command at a time. *)
ReadPointers ==
  /\ Goto("readPointers", "readBounds")
  /\ h' = [h EXCEPT !.head = head, !.tail = tail]
  /\ UNCHANGED <<guest, host, running>>

KeyboardBounds == IF ValidBounds(recorded) THEN recorded ELSE Classic

(* A ring that is not initialised raises ValueError; the tools detach,    *)
(* which lets the guest run.                                              *)
(* Mutant: no check of the pointers. *)
ReadBoundsBlind ==
  /\ Goto("readBounds", "write")
  /\ h' = [h EXCEPT !.ring = KeyboardBounds, !.written = 0]
  /\ UNCHANGED <<guest, host, running>>

ReadBounds ==
  /\ LET r == KeyboardBounds
         valid == InRing(h.head, r) /\ InRing(h.tail, r)
     IN  /\ Goto("readBounds", IF valid THEN "write" ELSE "error")
         /\ h' = [h EXCEPT !.ring = r, !.written = 0]
         /\ running' = (running \/ ~valid)
  /\ UNCHANGED <<guest, host>>

RingFullBlind == h.tail = h.head /\ h.written # 0     \* mutant: no slot left empty
RingFull == After(h.tail, h.ring) = h.head

WriteKey ==
  /\ Goto("write", "write")
  /\ h.written < Len(pend) /\ ~RingFull
  /\ mem' = [mem EXCEPT ![h.tail] = pend[h.written + 1]]
  /\ h' = [h EXCEPT !.tail = After(h.tail, h.ring), !.written = @ + 1]
  /\ UNCHANGED <<head, tail, recorded, ring, int9, typed, taken, host, running>>

(* The new tail makes the keys visible; the caller drops them from its    *)
(* queue before anything else.  With no room there is nothing to store.   *)
WriteTail ==
  /\ Goto("write", IF tool = "type" THEN "returned" ELSE "frame")
  /\ h.written = Len(pend) \/ RingFull
  /\ tail' = IF h.written = 0 THEN tail ELSE h.tail
  /\ pend' = SubSeq(pend, h.written + 1, Len(pend))
  /\ h' = Fresh
  /\ UNCHANGED <<mem, head, recorded, ring, int9, typed, taken, tool, entered, running>>

-----------------------------------------------------------------------------
(* rsp.py type --bios-buffer *)
(* Mutant: the guest runs on after the break. *)
BreakCpuRunning ==
  /\ \E from \in {"connect", "pause"} : Goto(from, "readPointers")
  /\ UNCHANGED <<guest, host, h, running>>

BreakCpu ==
  /\ \E from \in {"connect", "pause"} : Goto(from, "readPointers")
  /\ running' = FALSE
  /\ UNCHANGED <<guest, host, h>>

Detach ==
  /\ Goto("returned", "done")
  /\ pend = <<>>
  /\ running' = TRUE
  /\ UNCHANGED <<guest, host, h>>

Resume ==
  /\ Goto("returned", "pause")
  /\ pend # <<>>
  /\ running' = TRUE
  /\ UNCHANGED <<guest, host, h>>

DeadlineNever == FALSE        \* mutant: retries for ever

Deadline ==
  /\ Goto("returned", "error")
  /\ pend # <<>>
  /\ running' = TRUE
  /\ UNCHANGED <<guest, host, h>>

-----------------------------------------------------------------------------
(* guest_console.py in bios mode *)
Press ==
  /\ Goto("frame", "frame") /\ Len(entered) < MaxKeys
  /\ \E k \in Keys : pend' = Append(pend, k) /\ entered' = Append(entered, k)
  /\ UNCHANGED <<guest, tool, h, running>>

(* Mutant: only keys given at the start are sent. *)
InjectOnce ==
  /\ Goto("frame", "readPointers")
  /\ pend = entered /\ pend # <<>>
  /\ UNCHANGED <<guest, host, h, running>>

Inject ==
  /\ Goto("frame", "readPointers")
  /\ pend # <<>>
  /\ UNCHANGED <<guest, host, h, running>>

Exit ==
  /\ Goto("frame", "done")
  /\ UNCHANGED <<guest, host, h, running>>

(* Ctrl-C or a lost connection, in either tool: both detach.              *)
Abort ==
  /\ pc \notin {"done", "error"} /\ pc' = "error"
  /\ running' = TRUE
  /\ UNCHANGED <<guest, host, h>>

-----------------------------------------------------------------------------
(* The guest (external): POST sets the ring up; a program reads keys with  *)
(* INT 16h; INT 9 stores a typed key and then the tail, and the stub may   *)
(* run commands between its two instructions.                              *)
tools == <<host, pc, h, running, entered>>

Boot ==
  /\ running /\ ring = Unset
  /\ \E r \in Rings :
       /\ ring' = r /\ head' = r[1] /\ tail' = r[1]
       /\ recorded' = r \/ (r = Classic /\ recorded' = Unset)
  /\ UNCHANGED <<mem, int9, typed, taken, tools>>

Take ==
  /\ running /\ ring # Unset /\ int9 = 0
  /\ head # tail
  /\ taken' = Append(taken, mem[head])
  /\ head' = After(head, ring)
  /\ UNCHANGED <<mem, tail, recorded, ring, int9, typed, tools>>

(* Without room INT 9 beeps and drops the key. *)
Int9Key ==
  /\ running /\ ring # Unset /\ int9 = 0
  /\ typed < MaxTyped[tool] /\ typed' = typed + 1
  /\ After(tail, ring) # head
  /\ mem' = [mem EXCEPT ![tail] = Typed]
  /\ int9' = After(tail, ring)
  /\ UNCHANGED <<head, tail, recorded, ring, taken, tools>>

Int9Tail ==
  /\ running /\ int9 # 0
  /\ tail' = int9 /\ int9' = 0
  /\ UNCHANGED <<mem, head, recorded, ring, typed, taken, tools>>

-----------------------------------------------------------------------------
ToolStep ==
  \/ StubListens /\ (BreakCpu \/ ReadPointers \/ ReadBounds \/ WriteKey \/ WriteTail)
  \/ Detach \/ Resume \/ Deadline \/ Inject

GuestStep == Boot \/ Take \/ Int9Key \/ Int9Tail

Next == ToolStep \/ Press \/ Exit \/ Abort \/ GuestStep

Spec == Init /\ [][Next]_vars

(* A tool goes on with its commands; only the clock may end its retries:   *)
(* of the checks of the deadline, one comes late enough.  An INT 9 that has *)
(* begun ends, as the guest's CPU runs.                                     *)
FairSpec == Spec /\ WF_vars(ToolStep) /\ SF_vars(Deadline) /\ WF_vars(Int9Tail)

-----------------------------------------------------------------------------
(* The keys that the guest can read, from the head of its ring on. *)
Queued ==
  IF ring = Unset THEN <<>>
  ELSE LET size  == ring[2] - ring[1]
           count == ((tail + size - head) % size) \div 2
       IN  [i \in 1 .. count |-> mem[ring[1] + ((head - ring[1] + 2 * (i - 1)) % size)]]

(* The tools implement KeyQueue: however the guest's reads fall between     *)
(* their commands, every key goes through once and in order, and under      *)
(* "type", which holds the CPU, so do the keys of the guest's own keyboard. *)
Promise == INSTANCE KeyQueue WITH Own <- {Typed}, pending <- pend, queue <- Queued
DeliversInOrder == Promise!Spec

(* A tool only ever writes into the ring that the guest has set up, so that *)
(* nothing else in the BIOS data area changes, and leaves the tail in it    *)
(* (README 535-536, "validates the head, tail, and bounds").                *)
WritesInRing == pc = "write" => InRing(h.tail, ring)

(* type --bios-buffer ends, even when the guest never reads a key.          *)
TypeEnds == tool = "type" ~> pc \in {"done", "error"}

(* The console gets rid of its keys when the guest goes on reading.         *)
ConsoleDelivers ==
  WF_vars(Take) => (tool = "console" /\ pend # <<>> ~> pend = <<>> \/ pc \in {"done", "error"})

(* The keys of a sequence but for those of the guest's own keyboard.       *)
Sent(s) ==
  LET sent[n \in 0 .. Len(s)] ==
        IF n = 0 THEN <<>>
        ELSE IF s[n] = Typed THEN sent[n - 1] ELSE Append(sent[n - 1], s[n])
  IN  sent[Len(s)]

(* README 534-538: the ring path "is reliable", it "retries pending input"; *)
(* so between two rounds of the tool every key that has left its queue has  *)
(* reached the guest, or waits in the ring, whatever else is typed.         *)
SentKeysArrive ==
  pc \in {"frame", "returned", "pause", "done"} => Sent(taken \o Queued) \o pend = entered
=============================================================================
