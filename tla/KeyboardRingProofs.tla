------------------------- MODULE KeyboardRingProofs -------------------------
(***************************************************************************)
(* Theorems about the BIOS keyboard ring: whatever ring the guest has set  *)
(* up, and however the commands of a tool and the guest interleave, a tool *)
(* only writes into that ring; undisturbed the tools implement KeyQueue,   *)
(* and every key that they have sent is in the ring or with the guest.     *)
(***************************************************************************)
EXTENDS KeyboardRing, SequenceTheorems, WellFoundedInduction, TLAPS

(* Every ring a BIOS may record has valid bounds, and the zeros that stand *)
(* at 480h before POST, or under a BIOS that records none, do not.         *)
LEMMA RingBounds ==
  /\ ClassicStart \in Nat /\ ClassicEnd \in Nat /\ Limit \in Nat /\ ClassicStart > 0
  /\ \A r \in Rings : r[1] \in Nat /\ r[2] \in Nat /\ ValidBounds(r)
  /\ ~ValidBounds(Unset) /\ Unset \notin Rings /\ Classic \in Rings
<1>1. /\ ClassicStart \in Nat /\ ClassicEnd \in Nat /\ Limit \in Nat /\ ClassicStart > 0
      /\ \A r \in Rings : ValidBounds(r)
  BY RingAssumption
<1>2. ASSUME NEW r \in Rings PROVE r[1] \in Nat /\ r[2] \in Nat
  BY <1>1, RingAssumption DEF Rings, Classic
<1>3. ~ValidBounds(Unset)
  BY <1>1 DEF ValidBounds, Unset
<1>4. QED
  BY <1>1, <1>2, <1>3 DEF Rings

LEMMA InRingOffset ==
  ASSUME NEW r \in Rings, NEW at \in Nat, InRing(at, r)
  PROVE  at \in Offsets /\ at # 0
BY RingBounds DEF InRing, ValidBounds, Offsets

(* A step through a ring stays in it. *)
LEMMA AfterInRing ==
  ASSUME NEW r \in Rings, NEW at \in Nat, InRing(at, r)
  PROVE  After(at, r) \in Nat /\ InRing(After(at, r), r)
<1>1. /\ r[1] \in Nat /\ r[2] \in Nat /\ r[1] < r[2] /\ r[1] % 2 = 0
      /\ r[1] <= at /\ at < r[2] /\ at % 2 = 0
  BY RingBounds DEF ValidBounds, InRing
<1>2. (at + 2) % 2 = 0
  BY <1>1
<1>3. QED
  BY <1>1, <1>2 DEF After, InRing

-----------------------------------------------------------------------------
(* The guest's pointers stay in its ring, and what it has recorded leads   *)
(* the tool to that ring.                                                  *)
GuestInv ==
  /\ ring = Unset => head = 0 /\ tail = 0 /\ int9 = 0 /\ recorded = Unset
  /\ ring # Unset => /\ InRing(head, ring) /\ InRing(tail, ring)
                     /\ int9 # 0 => InRing(int9, ring)
                     /\ recorded = ring \/ (ring = Classic /\ recorded = Unset)

(* What the tool has read: pointers into the guest's ring, or the zeros of *)
(* a guest that had not set it up; and the bounds of that very ring.       *)
ToolInv ==
  /\ pc = "readBounds" => \/ h.head = 0 /\ h.tail = 0
                          \/ ring # Unset /\ InRing(h.head, ring) /\ InRing(h.tail, ring)
  /\ pc = "write" => ring # Unset /\ h.ring = ring /\ InRing(h.tail, ring)

RingInv == TypeOK /\ Len(pend) <= Len(entered) /\ GuestInv /\ ToolInv

LEMMA BoundsFound ==
  ASSUME RingInv
  PROVE  /\ KeyboardBounds \in Rings
         /\ ring # Unset => KeyboardBounds = ring
BY RingBounds DEF RingInv, TypeOK, GuestInv, KeyboardBounds

LEMMA InitRing == Init => RingInv
<1> SUFFICES ASSUME Init PROVE RingInv
  OBVIOUS
<1>1. MaxKeys \in Nat /\ MaxTyped[tool] \in Nat /\ 0 \in Offsets
  BY BoundAssumption, RingBounds DEF Init, Offsets, ValidBounds
<1>2. PICK n \in 1 .. MaxKeys : entered \in [1 .. n -> Keys]
  BY DEF Init
<1>3. entered \in Seq(Keys) /\ Len(entered) = n
  BY <1>1, <1>2
<1>4. Fresh \in Local
  BY <1>1 DEF Fresh, Local
<1>5. <<>> \in Seq(Words)
  BY EmptySeq
<1>6. TypeOK
  BY <1>1, <1>3, <1>4, <1>5 DEF Init, TypeOK, Words
<1>7. QED
  BY <1>3, <1>6 DEF Init, RingInv, GuestInv, ToolInv

-----------------------------------------------------------------------------
(* The commands of the tools. *)
LEMMA LocalType ==
  ASSUME h \in Local
  PROVE  /\ h = [head |-> h.head, tail |-> h.tail, ring |-> h.ring, written |-> h.written]
         /\ h.head \in Offsets /\ h.tail \in Offsets
         /\ h.ring \in Rings \union {Unset} /\ h.written \in 0 .. MaxKeys
BY DEF Local

LEMMA ReadPointersRing == ASSUME RingInv, ReadPointers PROVE RingInv'
<1>1. h' = [h EXCEPT !.head = head, !.tail = tail] /\ pc = "readPointers" /\ pc' = "readBounds"
      /\ UNCHANGED <<guest, host, running>>
  BY DEF ReadPointers, Goto
<1>2. h' \in Local /\ h'.head = head /\ h'.tail = tail
  BY <1>1 DEF RingInv, TypeOK, Local
<1>3. TypeOK'
  BY <1>1, <1>2 DEF guest, host, RingInv, TypeOK
<1>4. QED
  BY <1>1, <1>2, <1>3 DEF guest, host, RingInv, GuestInv, ToolInv

LEMMA ReadBoundsRing == ASSUME RingInv, ReadBounds PROVE RingInv'
<1> DEFINE r == KeyboardBounds
           valid == InRing(h.head, r) /\ InRing(h.tail, r)
<1>1. /\ pc = "readBounds" /\ pc' = IF valid THEN "write" ELSE "error"
      /\ h' = [h EXCEPT !.ring = r, !.written = 0]
      /\ running' = (running \/ ~valid)
      /\ UNCHANGED <<guest, host>>
  BY DEF ReadBounds, Goto
<1>2. r \in Rings /\ (ring # Unset => r = ring)
  BY BoundsFound
<1>3. 0 \in 0 .. MaxKeys
  BY BoundAssumption
<1>4. h \in Local
  BY DEF RingInv, TypeOK
<1> HIDE DEF r
<1>5. h' \in Local /\ h'.ring = r /\ h'.tail = h.tail
  BY <1>1, <1>2, <1>3, <1>4 DEF Local
<1>6. TypeOK'
  BY <1>1, <1>5 DEF guest, host, RingInv, TypeOK
<1>7. ToolInv'
  <2> SUFFICES ASSUME valid
               PROVE  ring # Unset /\ h'.ring = ring /\ InRing(h'.tail, ring)
    BY <1>1 DEF ToolInv, guest
  <2>1. h.head # 0
    BY <1>2, <1>4, InRingOffset, LocalType DEF Offsets
  <2>2. QED
    BY <1>1, <1>2, <1>5, <2>1 DEF RingInv, ToolInv
<1>8. QED
  BY <1>1, <1>6, <1>7 DEF guest, host, RingInv, GuestInv

LEMMA WriteKeyRing == ASSUME RingInv, WriteKey PROVE RingInv'
<1>1. /\ pc = "write" /\ pc' = "write" /\ h.written < Len(pend)
      /\ mem' = [mem EXCEPT ![h.tail] = pend[h.written + 1]]
      /\ h' = [h EXCEPT !.tail = After(h.tail, h.ring), !.written = h.written + 1]
      /\ UNCHANGED <<head, tail, recorded, ring, int9, typed, taken, host, running>>
  BY DEF WriteKey, Goto
<1>2. /\ h \in Local /\ h.written \in Nat /\ h.tail \in Nat /\ pend \in Seq(Keys)
      /\ Len(pend) <= Len(entered) /\ Len(entered) <= MaxKeys /\ entered \in Seq(Keys)
  BY LocalType, RingBounds DEF RingInv, TypeOK, Offsets
<1>3. ring \in Rings /\ h.ring = ring /\ InRing(h.tail, ring) /\ ring # Unset
  BY <1>1 DEF RingInv, TypeOK, ToolInv
<1>4. After(h.tail, h.ring) \in Offsets /\ InRing(After(h.tail, h.ring), ring)
  BY <1>2, <1>3, AfterInRing, InRingOffset
<1>5. pend[h.written + 1] \in Keys /\ h.written + 1 \in 0 .. MaxKeys
  <2>1. Len(pend) \in Nat /\ Len(entered) \in Nat /\ h.written + 1 \in 1 .. Len(pend)
    BY <1>1, <1>2, LenProperties
  <2>2. QED
    BY <1>2, <2>1, BoundAssumption, ElementOfSeq
<1>6. h' \in Local /\ h'.tail = After(h.tail, h.ring) /\ h'.ring = ring
  BY <1>1, <1>2, <1>3, <1>4, <1>5 DEF Local
<1>7. mem' \in [Offsets -> Words]
  BY <1>1, <1>5 DEF RingInv, TypeOK, Words
<1>8. TypeOK'
  BY <1>1, <1>6, <1>7 DEF host, RingInv, TypeOK
<1>9. QED
  BY <1>1, <1>3, <1>4, <1>6, <1>8 DEF host, RingInv, GuestInv, ToolInv

LEMMA WriteTailRing == ASSUME RingInv, WriteTail PROVE RingInv'
<1>1. /\ pc = "write" /\ pc' \in {"returned", "frame"}
      /\ tail' \in {tail, h.tail}
      /\ pend' = SubSeq(pend, h.written + 1, Len(pend))
      /\ h' = Fresh
      /\ UNCHANGED <<mem, head, recorded, ring, int9, typed, taken, tool, entered, running>>
  BY DEF WriteTail, Goto
<1>2. h \in Local /\ h.written \in Nat /\ pend \in Seq(Keys) /\ entered \in Seq(Keys)
      /\ Len(pend) <= Len(entered)
  BY LocalType DEF RingInv, TypeOK
<1>3. pend' \in Seq(Keys) /\ Len(pend') <= Len(entered)
  <2>1. Len(pend) \in Nat /\ \A i \in h.written + 1 .. Len(pend) : pend[i] \in Keys
    BY <1>2, LenProperties, ElementOfSeq
  <2>2. /\ pend' \in Seq(Keys)
        /\ Len(pend') = IF h.written + 1 <= Len(pend) THEN Len(pend) - (h.written + 1) + 1 ELSE 0
    BY <1>1, <1>2, <2>1, SubSeqProperties
  <2>3. Len(pend') <= Len(pend)
    BY <1>2, <2>1, <2>2
  <2>4. QED
    BY <1>2, <2>1, <2>2, <2>3, LenProperties
<1>4. ring # Unset /\ InRing(h.tail, ring) /\ h.tail \in Offsets
  BY <1>1, <1>2, LocalType DEF RingInv, ToolInv
<1>5. Fresh \in Local
  BY BoundAssumption, RingBounds DEF Fresh, Local, Offsets, ValidBounds
<1>6. TypeOK'
  BY <1>1, <1>3, <1>4, <1>5 DEF RingInv, TypeOK
<1>7. QED
  BY <1>1, <1>3, <1>4, <1>6 DEF RingInv, GuestInv, ToolInv

(* The callers' own steps touch no pointer and leave no step of theirs in  *)
(* the middle of inject_bios_keys.                                         *)
LEMMA CallerRing ==
  ASSUME RingInv, Detach \/ Resume \/ Deadline \/ BreakCpu \/ Inject \/ Exit \/ Abort
  PROVE  RingInv'
<1>1. /\ pc' \in {"readPointers", "done", "pause", "error"}
      /\ running' \in {running, TRUE, FALSE}
      /\ UNCHANGED <<guest, host, h>>
  BY DEF Detach, Resume, Deadline, BreakCpu, Inject, Exit, Abort, Goto
<1>2. TypeOK'
  BY <1>1 DEF guest, host, RingInv, TypeOK
<1>3. QED
  BY <1>1, <1>2 DEF guest, host, RingInv, GuestInv, ToolInv

LEMMA PressRing == ASSUME RingInv, Press PROVE RingInv'
<1>1. PICK k \in Keys : pend' = Append(pend, k) /\ entered' = Append(entered, k)
  BY DEF Press
<1>2. pend \in Seq(Keys) /\ entered \in Seq(Keys) /\ Len(pend) \in Nat /\ Len(entered) \in Nat
      /\ Len(pend) <= Len(entered) /\ Len(entered) < MaxKeys
  BY LenProperties DEF Press, RingInv, TypeOK
<1>3. /\ pend' \in Seq(Keys) /\ entered' \in Seq(Keys)
      /\ Len(pend') = Len(pend) + 1 /\ Len(entered') = Len(entered) + 1
  BY <1>1, <1>2, AppendProperties
<1>4. Len(pend') <= Len(entered') /\ Len(entered') <= MaxKeys
  BY <1>2, <1>3, BoundAssumption
<1>5. pc = "frame" /\ pc' = "frame" /\ UNCHANGED <<guest, tool, h, running>>
  BY DEF Press, Goto
<1>6. TypeOK'
  BY <1>3, <1>4, <1>5 DEF guest, RingInv, TypeOK
<1>7. QED
  BY <1>4, <1>5, <1>6 DEF guest, RingInv, GuestInv, ToolInv

-----------------------------------------------------------------------------
(* The guest. *)
LEMMA BootRing == ASSUME RingInv, Boot PROVE RingInv'
<1>1. PICK r \in Rings : /\ ring' = r /\ head' = r[1] /\ tail' = r[1]
                         /\ recorded' = r \/ (r = Classic /\ recorded' = Unset)
  BY DEF Boot
<1>2. /\ r[1] \in Nat /\ InRing(r[1], r) /\ r # Unset
  BY RingBounds DEF InRing, ValidBounds
<1>3. r[1] \in Offsets
  BY <1>2, InRingOffset
<1>4. ring = Unset /\ UNCHANGED <<mem, int9, typed, taken, tools>>
  BY DEF Boot
<1>5. int9 = 0
  BY <1>4 DEF RingInv, GuestInv
<1>6. TypeOK'
  BY <1>1, <1>3, <1>4 DEF tools, host, RingInv, TypeOK
<1>7. ToolInv'
  BY <1>4 DEF tools, host, RingInv, ToolInv
<1>8. QED
  BY <1>1, <1>2, <1>4, <1>5, <1>6, <1>7 DEF tools, host, RingInv, GuestInv

LEMMA GuestRing == ASSUME RingInv, GuestStep PROVE RingInv'
<1>1. CASE Boot
  BY <1>1, BootRing
<1>2. ASSUME NEW at \in Offsets, InRing(at, ring), ring # Unset
      PROVE  After(at, ring) \in Offsets /\ InRing(After(at, ring), ring) /\ After(at, ring) # 0
  <2>1. at \in Nat /\ ring \in Rings
    BY <1>2, RingBounds DEF Offsets, RingInv, TypeOK
  <2>2. QED
    BY <1>2, <2>1, AfterInRing, InRingOffset
<1>3. CASE Take
  <2>1. /\ ring # Unset /\ head' = After(head, ring) /\ taken' = Append(taken, mem[head])
        /\ UNCHANGED <<mem, tail, recorded, ring, int9, typed, tools>>
    BY <1>3 DEF Take
  <2>2. head' \in Offsets /\ InRing(head', ring)
    BY <1>2, <2>1 DEF RingInv, TypeOK, GuestInv
  <2>3. taken' \in Seq(Words)
    BY <2>1, AppendProperties DEF RingInv, TypeOK
  <2>4. TypeOK'
    BY <2>1, <2>2, <2>3 DEF tools, host, RingInv, TypeOK
  <2>5. QED
    BY <2>1, <2>2, <2>4 DEF tools, host, RingInv, GuestInv, ToolInv
<1>4. CASE Int9Key
  <2>1. /\ ring # Unset /\ typed < MaxTyped[tool] /\ typed' = typed + 1
        /\ mem' = [mem EXCEPT ![tail] = Typed] /\ int9' = After(tail, ring)
        /\ UNCHANGED <<head, tail, recorded, ring, taken, tools>>
    BY <1>4 DEF Int9Key
  <2>2. int9' \in Offsets /\ InRing(int9', ring)
    BY <1>2, <2>1 DEF RingInv, TypeOK, GuestInv
  <2>3. mem' \in [Offsets -> Words]
    BY <2>1 DEF RingInv, TypeOK, Words
  <2>4. typed' \in 0 .. MaxTyped[tool]
    BY <2>1, BoundAssumption DEF RingInv, TypeOK
  <2>5. TypeOK'
    BY <2>1, <2>2, <2>3, <2>4 DEF tools, host, RingInv, TypeOK
  <2>6. QED
    BY <2>1, <2>2, <2>5 DEF tools, host, RingInv, GuestInv, ToolInv
<1>5. CASE Int9Tail
  <2>1. int9 # 0 /\ tail' = int9 /\ int9' = 0
        /\ UNCHANGED <<mem, head, recorded, ring, typed, taken, tools>>
    BY <1>5 DEF Int9Tail
  <2>2. 0 \in Offsets
    BY RingBounds DEF Offsets, ValidBounds
  <2>3. TypeOK'
    BY <2>1, <2>2 DEF tools, host, RingInv, TypeOK
  <2>4. QED
    BY <2>1, <2>3 DEF tools, host, RingInv, GuestInv, ToolInv
<1>6. QED
  BY <1>1, <1>3, <1>4, <1>5 DEF GuestStep

LEMMA NextRing == RingInv /\ [Next]_vars => RingInv'
<1> SUFFICES ASSUME RingInv, [Next]_vars PROVE RingInv'
  OBVIOUS
<1>1. CASE ReadPointers
  BY <1>1, ReadPointersRing
<1>2. CASE ReadBounds
  BY <1>2, ReadBoundsRing
<1>3. CASE WriteKey
  BY <1>3, WriteKeyRing
<1>4. CASE WriteTail
  BY <1>4, WriteTailRing
<1>5. CASE Detach \/ Resume \/ Deadline \/ BreakCpu \/ Inject \/ Exit \/ Abort
  BY <1>5, CallerRing
<1>6. CASE Press
  BY <1>6, PressRing
<1>7. CASE GuestStep
  BY <1>7, GuestRing
<1>8. CASE UNCHANGED vars
  BY <1>8 DEF vars, RingInv, TypeOK, GuestInv, ToolInv
<1>9. QED
  BY <1>1, <1>2, <1>3, <1>4, <1>5, <1>6, <1>7, <1>8 DEF Next, ToolStep

(* Every variable has its type; the offsets, and so the bytes written, are *)
(* in the BIOS data area.                                                  *)
THEOREM TypeCorrect == Spec => []TypeOK
<1>1. RingInv => TypeOK
  BY DEF RingInv
<1>2. QED
  BY <1>1, InitRing, NextRing, PTL DEF Spec

(* inject_bios_keys, called at any time, before POST or while the guest    *)
(* reads or types, and even in the middle of INT 9: what it writes is in   *)
(* the ring that the guest uses, though it only knows what it has read.    *)
THEOREM OnlyTheRingIsWritten == Spec => []WritesInRing
<1>1. RingInv => WritesInRing
  BY DEF RingInv, ToolInv, WritesInRing
<1>2. QED
  BY <1>1, InitRing, NextRing, PTL DEF Spec

-----------------------------------------------------------------------------
(***************************************************************************)
(* The theorem that the two keyboard tools implement KeyQueue: every key   *)
(* reaches the guest once and in order, however the guest's reads fall     *)
(* between the memory commands of inject_bios_keys.                        *)
(***************************************************************************)

(* What the theorem assumes: the stub does not stop the guest between the  *)
(* two stores of INT 9, and nobody types at the guest's keyboard while the *)
(* console, which does not halt the guest, is in use.                      *)
Undisturbed == ~CutsInt9 /\ ("console" \in Tools => MaxTyped["console"] = 0)

-----------------------------------------------------------------------------
(* A ring as a circle.  Dist is the way from one slot to another, Nth the  *)
(* slot k keys further on, Content the keys on the way.                    *)
Size(r) == r[2] - r[1]
Dist(r, at, to) == (to + Size(r) - at) % Size(r)
Nth(r, at, k)   == r[1] + ((at - r[1] + 2 * k) % Size(r))
Content(m, r, at, to) == [i \in 1 .. Dist(r, at, to) \div 2 |-> m[Nth(r, at, i - 1)]]

LEMMA ModOnce ==
  ASSUME NEW s \in Nat, s > 0, NEW x \in Nat, x < 2 * s
  PROVE  x % s = IF x < s THEN x ELSE x - s
<1>1. CASE x < s
  BY <1>1
<1>2. CASE x >= s
  BY <1>2
<1>3. QED
  BY <1>1, <1>2

LEMMA DistCases ==
  ASSUME NEW r \in Rings, NEW at \in Nat, NEW to \in Nat, InRing(at, r), InRing(to, r)
  PROVE  Dist(r, at, to) = IF at <= to THEN to - at ELSE to + Size(r) - at
<1>1. /\ r[1] \in Nat /\ r[2] \in Nat /\ r[1] < r[2]
      /\ r[1] <= at /\ at < r[2] /\ r[1] <= to /\ to < r[2]
  BY RingBounds DEF ValidBounds, InRing
<1> DEFINE s == Size(r)
           x == to + s - at
<1>2. s \in Nat /\ s > 0 /\ x \in Nat /\ x < 2 * s
  BY <1>1 DEF Size
<1>3. x % s = IF x < s THEN x ELSE x - s
  <2> HIDE DEF x, s
  <2>1. QED
    BY <1>2, ModOnce
<1>4. QED
  BY <1>1, <1>3 DEF Dist, Size

LEMMA NthCases ==
  ASSUME NEW r \in Rings, NEW at \in Nat, InRing(at, r), NEW k \in Nat, 2 * k < Size(r)
  PROVE  Nth(r, at, k) = IF at + 2 * k < r[2] THEN at + 2 * k ELSE at + 2 * k - Size(r)
<1>1. r[1] \in Nat /\ r[2] \in Nat /\ r[1] < r[2] /\ r[1] <= at /\ at < r[2]
  BY RingBounds DEF ValidBounds, InRing
<1> DEFINE s == Size(r)
           x == at - r[1] + 2 * k
<1>2. s \in Nat /\ s > 0 /\ x \in Nat /\ x < 2 * s
  BY <1>1 DEF Size
<1>3. x % s = IF x < s THEN x ELSE x - s
  <2> HIDE DEF x, s
  <2>1. QED
    BY <1>2, ModOnce
<1>4. QED
  BY <1>1, <1>3 DEF Nth, Size

(* What InRing says of numbers. *)
LEMMA Slot ==
  ASSUME NEW r \in Rings, NEW at \in Nat, InRing(at, r)
  PROVE  /\ r[1] \in Nat /\ r[2] \in Nat /\ r[1] <= at /\ at < r[2] /\ r[2] <= Limit
         /\ r[1] % 2 = 0 /\ r[2] % 2 = 0 /\ at % 2 = 0
         /\ Size(r) \in Nat /\ Size(r) % 2 = 0
<1>1. r[1] \in Nat /\ r[2] \in Nat /\ r[1] < r[2] /\ r[1] % 2 = 0 /\ r[2] % 2 = 0 /\ r[2] <= Limit
  BY RingBounds DEF ValidBounds
<1>2. QED
  BY <1>1 DEF InRing, Size

LEMMA DistType ==
  ASSUME NEW r \in Rings, NEW at \in Nat, NEW to \in Nat, InRing(at, r), InRing(to, r)
  PROVE  /\ Dist(r, at, to) \in Nat /\ Dist(r, at, to) % 2 = 0
         /\ Dist(r, at, to) + 2 <= Size(r)
         /\ Dist(r, at, to) \div 2 \in Nat /\ 2 * (Dist(r, at, to) \div 2) = Dist(r, at, to)
         /\ Dist(r, at, to) = 0 <=> at = to
<1>1. Dist(r, at, to) = IF at <= to THEN to - at ELSE to + Size(r) - at
  BY DistCases
<1>2. QED
  BY <1>1, Slot DEF Size

(* One slot further at either end. *)
LEMMA DistSteps ==
  ASSUME NEW r \in Rings, NEW at \in Nat, NEW to \in Nat, InRing(at, r), InRing(to, r)
  PROVE  /\ at # to => Dist(r, After(at, r), to) + 2 = Dist(r, at, to)
         /\ After(to, r) # at => Dist(r, at, After(to, r)) = Dist(r, at, to) + 2
         /\ After(to, r) = at <=> Dist(r, at, to) + 2 = Size(r)
<1>1. /\ After(at, r) \in Nat /\ InRing(After(at, r), r)
      /\ After(to, r) \in Nat /\ InRing(After(to, r), r)
  BY AfterInRing
<1>2. /\ Dist(r, at, to) = IF at <= to THEN to - at ELSE to + Size(r) - at
      /\ Dist(r, After(at, r), to)
           = IF After(at, r) <= to THEN to - After(at, r) ELSE to + Size(r) - After(at, r)
      /\ Dist(r, at, After(to, r))
           = IF at <= After(to, r) THEN After(to, r) - at ELSE After(to, r) + Size(r) - at
  BY <1>1, DistCases
<1>3. QED
  BY <1>2, Slot DEF Size, After

LEMMA NthSlots ==
  ASSUME NEW r \in Rings, NEW at \in Nat, InRing(at, r), NEW k \in Nat, 2 * k < Size(r)
  PROVE  /\ Nth(r, at, k) \in Nat /\ InRing(Nth(r, at, k), r)
         /\ Dist(r, at, Nth(r, at, k)) = 2 * k
         /\ Nth(r, at, 0) = at
         /\ 2 * k + 2 < Size(r) => Nth(r, After(at, r), k) = Nth(r, at, k + 1)
<1>1. Nth(r, at, k) = IF at + 2 * k < r[2] THEN at + 2 * k ELSE at + 2 * k - Size(r)
  BY NthCases
<1>2. Nth(r, at, k) \in Nat /\ InRing(Nth(r, at, k), r)
  BY <1>1, Slot DEF InRing, Size
<1>3. Dist(r, at, Nth(r, at, k)) = 2 * k
  BY <1>1, <1>2, Slot, DistCases DEF Size
<1>4. Nth(r, at, 0) = at
  <2>1. 0 \in Nat /\ 2 * 0 < Size(r)
    BY Slot DEF Size
  <2>2. Nth(r, at, 0) = IF at + 2 * 0 < r[2] THEN at + 2 * 0 ELSE at + 2 * 0 - Size(r)
    BY <2>1, NthCases
  <2>3. QED
    BY <2>2, Slot
<1>5. ASSUME 2 * k + 2 < Size(r) PROVE Nth(r, After(at, r), k) = Nth(r, at, k + 1)
  <2>1. k + 1 \in Nat /\ 2 * (k + 1) < Size(r) /\ After(at, r) \in Nat /\ InRing(After(at, r), r)
    BY <1>5, AfterInRing, Slot
  <2>2. /\ Nth(r, at, k + 1) = IF at + 2 * (k + 1) < r[2] THEN at + 2 * (k + 1)
                               ELSE at + 2 * (k + 1) - Size(r)
        /\ Nth(r, After(at, r), k) = IF After(at, r) + 2 * k < r[2] THEN After(at, r) + 2 * k
                                     ELSE After(at, r) + 2 * k - Size(r)
    BY <2>1, NthCases
  <2>3. QED
    BY <2>1, <2>2, Slot DEF After, Size
<1>6. QED
  BY <1>2, <1>3, <1>4, <1>5

-----------------------------------------------------------------------------
(* The keys on the way, as a sequence. *)
LEMMA ContentType ==
  ASSUME NEW r \in Rings, NEW at \in Nat, NEW to \in Nat, InRing(at, r), InRing(to, r),
         NEW m \in [Offsets -> Words]
  PROVE  /\ Content(m, r, at, to) \in Seq(Words)
         /\ Len(Content(m, r, at, to)) = Dist(r, at, to) \div 2
         /\ at = to => Content(m, r, at, to) = <<>>
<1> DEFINE n == Dist(r, at, to) \div 2
<1>1. n \in Nat /\ 2 * n = Dist(r, at, to) /\ 2 * n + 2 <= Size(r) /\ Size(r) \in Nat
  BY DistType, Slot
<1>2. ASSUME NEW i \in 1 .. n PROVE m[Nth(r, at, i - 1)] \in Words
  <2>1. i - 1 \in Nat /\ 2 * (i - 1) < Size(r)
    BY <1>1
  <2>2. Nth(r, at, i - 1) \in Offsets
    BY <2>1, NthSlots, InRingOffset
  <2>3. QED
    BY <2>2
<1>3. Content(m, r, at, to) = [i \in 1 .. n |-> m[Nth(r, at, i - 1)]]
  BY DEF Content
<1>4. at = to => n = 0
  BY <1>1, DistType
<1> HIDE DEF n
<1>5. Content(m, r, at, to) \in Seq(Words) /\ Len(Content(m, r, at, to)) = n
  BY <1>1, <1>2, <1>3
<1>6. n = 0 => Content(m, r, at, to) = <<>>
  BY <1>5, EmptySeq
<1>7. QED
  BY <1>4, <1>5, <1>6 DEF n

LEMMA ContentItem ==
  ASSUME NEW m, NEW r, NEW at, NEW to, NEW i \in 1 .. Dist(r, at, to) \div 2
  PROVE  Content(m, r, at, to)[i] = m[Nth(r, at, i - 1)]
BY DEF Content

(* A write to a slot that is not on the way. *)
LEMMA ContentOther ==
  ASSUME NEW r \in Rings, NEW at \in Nat, NEW to \in Nat, InRing(at, r), InRing(to, r),
         NEW m \in [Offsets -> Words], NEW m2 \in [Offsets -> Words],
         \A o \in Offsets \ {to} : m2[o] = m[o],
         NEW x \in Nat, InRing(x, r), Dist(r, at, x) <= Dist(r, at, to)
  PROVE  Content(m2, r, at, x) = Content(m, r, at, x)
<1> DEFINE n == Dist(r, at, x) \div 2
<1>1. n \in Nat /\ 2 * n = Dist(r, at, x) /\ 2 * n + 2 <= Size(r) /\ Size(r) \in Nat
  BY DistType, Slot
<1>2. ASSUME NEW i \in 1 .. n
      PROVE  m2[Nth(r, at, i - 1)] = m[Nth(r, at, i - 1)]
  <2>1. i - 1 \in Nat /\ 2 * (i - 1) < Size(r) /\ 2 * (i - 1) < 2 * n
    BY <1>1
  <2>2. Nth(r, at, i - 1) \in Offsets /\ Dist(r, at, Nth(r, at, i - 1)) = 2 * (i - 1)
    BY <2>1, NthSlots, InRingOffset
  <2>3. Dist(r, at, to) \in Nat
    BY DistType
  <2>4. Nth(r, at, i - 1) # to
    BY <1>1, <2>1, <2>2, <2>3
  <2>5. QED
    BY <2>2, <2>4
<1>3. QED
  BY <1>2 DEF Content

LEMMA ContentAppend ==
  ASSUME NEW r \in Rings, NEW at \in Nat, NEW to \in Nat, InRing(at, r), InRing(to, r),
         NEW m \in [Offsets -> Words], NEW m2 \in [Offsets -> Words],
         \A o \in Offsets \ {to} : m2[o] = m[o], After(to, r) # at
  PROVE  Content(m2, r, at, After(to, r)) = Append(Content(m, r, at, to), m2[to])
<1> DEFINE n == Dist(r, at, to) \div 2
           q == Content(m, r, at, to)
           q2 == Content(m2, r, at, After(to, r))
<1>1. n \in Nat /\ 2 * n = Dist(r, at, to) /\ 2 * n + 2 <= Size(r) /\ Size(r) \in Nat
  BY DistType, Slot
<1>2. Dist(r, at, After(to, r)) \div 2 = n + 1
  <2>1. Dist(r, at, After(to, r)) = Dist(r, at, to) + 2
    BY DistSteps
  <2>2. QED
    BY <1>1, <2>1
<1>3. Content(m2, r, at, to) = q
  <2>1. Dist(r, at, to) <= Dist(r, at, to)
    BY DistType
  <2>2. QED
    BY <2>1, ContentOther
<1>4. Nth(r, at, n) = to
  <2>1. 2 * n < Size(r)
    BY <1>1
  <2>2. /\ Nth(r, at, n) \in Nat /\ InRing(Nth(r, at, n), r)
        /\ Dist(r, at, Nth(r, at, n)) = Dist(r, at, to)
    BY <1>1, <2>1, NthSlots
  <2>3. QED
    BY <2>2, DistCases, Slot DEF Size
<1>5. q \in Seq(Words) /\ Len(q) = n /\ m2[to] \in Words
  BY ContentType, InRingOffset
<1>6. q2 \in Seq(Words) /\ Len(q2) = n + 1
  BY <1>2, AfterInRing, ContentType
<1>7. /\ Append(q, m2[to]) \in Seq(Words) /\ Len(Append(q, m2[to])) = n + 1
      /\ \A i \in 1 .. n : Append(q, m2[to])[i] = q[i]
      /\ Append(q, m2[to])[n + 1] = m2[to]
  BY <1>5, AppendProperties
<1>8. ASSUME NEW i \in 1 .. n + 1 PROVE q2[i] = Append(q, m2[to])[i]
  <2>1. q2[i] = m2[Nth(r, at, i - 1)]
    BY <1>2, ContentItem
  <2>2. CASE i = n + 1
    <3>1. i - 1 = n
      BY <1>1, <2>2
    <3>2. QED
      BY <1>4, <1>7, <2>1, <2>2, <3>1
  <2>3. CASE i # n + 1
    <3>1. i \in 1 .. n
      BY <1>1, <2>3
    <3>2. q[i] = m2[Nth(r, at, i - 1)]
      BY <1>3, <3>1, ContentItem
    <3>3. QED
      BY <1>7, <2>1, <3>1, <3>2
  <2>4. QED
    BY <2>2, <2>3
<1> HIDE DEF q, q2, n
<1>9. q2 = Append(q, m2[to])
  BY <1>6, <1>7, <1>8, SeqEqual
<1>10. QED
  BY <1>9 DEF q, q2

LEMMA ContentTail ==
  ASSUME NEW r \in Rings, NEW at \in Nat, NEW to \in Nat, InRing(at, r), InRing(to, r),
         NEW m \in [Offsets -> Words], at # to
  PROVE  /\ Content(m, r, at, to) # <<>>
         /\ Head(Content(m, r, at, to)) = m[at]
         /\ Tail(Content(m, r, at, to)) = Content(m, r, After(at, r), to)
<1> DEFINE n  == Dist(r, After(at, r), to) \div 2
           q  == Content(m, r, at, to)
           q2 == Content(m, r, After(at, r), to)
<1>1. /\ n \in Nat /\ 2 * n = Dist(r, After(at, r), to) /\ Size(r) \in Nat
      /\ 2 * n + 4 <= Size(r) /\ Dist(r, at, to) \div 2 = n + 1
  <2>1. Dist(r, After(at, r), to) + 2 = Dist(r, at, to) /\ Dist(r, at, to) + 2 <= Size(r)
    BY DistSteps, DistType
  <2>2. /\ Dist(r, After(at, r), to) \in Nat /\ n \in Nat
        /\ 2 * n = Dist(r, After(at, r), to)
    BY AfterInRing, DistType
  <2>3. QED
    BY <2>1, <2>2, Slot
<1>2. q \in Seq(Words) /\ Len(q) = n + 1
  BY <1>1, ContentType
<1>3. q2 \in Seq(Words) /\ Len(q2) = n
  BY AfterInRing, ContentType
<1>4. q # <<>>
  BY <1>1, <1>2, EmptySeq
<1>5. Head(q) = m[at]
  <2>1. 1 \in 1 .. Dist(r, at, to) \div 2 /\ 1 - 1 = 0
    BY <1>1
  <2>2. q[1] = m[Nth(r, at, 1 - 1)]
    BY <2>1, ContentItem
  <2>3. Nth(r, at, 0) = at
    BY <1>1, NthSlots
  <2>4. QED
    BY <1>2, <1>4, <2>1, <2>2, <2>3
<1>6. Tail(q) \in Seq(Words) /\ Len(Tail(q)) = n /\ \A i \in 1 .. n : Tail(q)[i] = q[i + 1]
  <2> HIDE DEF q, n
  <2>1. /\ Tail(q) \in Seq(Words) /\ Len(Tail(q)) = Len(q) - 1
        /\ \A i \in 1 .. Len(Tail(q)) : Tail(q)[i] = q[i + 1]
    BY <1>2, <1>4, HeadTailProperties
  <2>2. Len(Tail(q)) = n
    BY <1>1, <1>2, <2>1
  <2>3. QED
    BY <2>1, <2>2
<1>7. ASSUME NEW i \in 1 .. n PROVE Tail(q)[i] = q2[i]
  <2>1. /\ i - 1 \in Nat /\ 2 * (i - 1) < Size(r) /\ 2 * (i - 1) + 2 < Size(r)
        /\ i - 1 + 1 = i /\ (i + 1) - 1 = i /\ i + 1 \in 1 .. n + 1
    BY <1>1
  <2>2. Nth(r, After(at, r), i - 1) = Nth(r, at, i - 1 + 1)
    BY <2>1, NthSlots
  <2>3. q2[i] = m[Nth(r, After(at, r), i - 1)]
    BY ContentItem
  <2>4. q[i + 1] = m[Nth(r, at, (i + 1) - 1)]
    BY <1>1, <2>1, ContentItem
  <2>5. QED
    BY <1>6, <2>1, <2>2, <2>3, <2>4
<1> HIDE DEF n, q, q2
<1>8. Tail(q) = q2
  BY <1>3, <1>6, <1>7, SeqEqual
<1>9. QED
  BY <1>4, <1>5, <1>8 DEF q, q2

LEMMA TailConcat ==
  ASSUME NEW S, NEW s \in Seq(S), NEW t \in Seq(S), s # <<>>
  PROVE  Tail(s \o t) = Tail(s) \o t
<1>1. Len(s) \in Nat \ {0} /\ Len(t) \in Nat
  BY EmptySeq, LenProperties
<1>2. /\ s \o t \in Seq(S) /\ Len(s \o t) = Len(s) + Len(t)
      /\ \A i \in 1 .. Len(s) + Len(t) :
           (s \o t)[i] = IF i <= Len(s) THEN s[i] ELSE t[i - Len(s)]
  BY ConcatProperties
<1>3. s \o t # <<>>
  BY <1>1, <1>2, EmptySeq
<1>4. /\ Tail(s \o t) \in Seq(S) /\ Len(Tail(s \o t)) = Len(s) + Len(t) - 1
      /\ \A i \in 1 .. Len(s) + Len(t) - 1 : Tail(s \o t)[i] = (s \o t)[i + 1]
  BY <1>2, <1>3, HeadTailProperties
<1>5. /\ Tail(s) \in Seq(S) /\ Len(Tail(s)) = Len(s) - 1
      /\ \A i \in 1 .. Len(s) - 1 : Tail(s)[i] = s[i + 1]
  BY HeadTailProperties
<1>6. /\ Tail(s) \o t \in Seq(S) /\ Len(Tail(s) \o t) = Len(s) - 1 + Len(t)
      /\ \A i \in 1 .. Len(s) - 1 + Len(t) :
           (Tail(s) \o t)[i] = IF i <= Len(s) - 1 THEN Tail(s)[i] ELSE t[i - (Len(s) - 1)]
  BY <1>5, ConcatProperties
<1>7. ASSUME NEW i \in 1 .. Len(s) + Len(t) - 1
      PROVE  Tail(s \o t)[i] = (Tail(s) \o t)[i]
  <2>1. /\ i + 1 \in 1 .. Len(s) + Len(t) /\ i \in 1 .. Len(s) - 1 + Len(t)
        /\ (i + 1) - Len(s) = i - (Len(s) - 1)
        /\ i + 1 <= Len(s) <=> i <= Len(s) - 1
        /\ i <= Len(s) - 1 => i \in 1 .. Len(s) - 1
    BY <1>1
  <2>2. Tail(s \o t)[i] = IF i + 1 <= Len(s) THEN s[i + 1] ELSE t[(i + 1) - Len(s)]
    BY <1>2, <1>4, <2>1
  <2>3. (Tail(s) \o t)[i] = IF i <= Len(s) - 1 THEN s[i + 1] ELSE t[i - (Len(s) - 1)]
    BY <1>5, <1>6, <2>1
  <2>4. QED
    BY <2>1, <2>2, <2>3
<1>8. Len(Tail(s \o t)) = Len(Tail(s) \o t)
  BY <1>1, <1>4, <1>6
<1>9. QED
  BY <1>4, <1>6, <1>7, <1>8, SeqEqual

LEMMA WordsAssociate ==
  ASSUME NEW s \in Seq(Words), NEW t \in Seq(Words), NEW u \in Seq(Words)
  PROVE  (s \o t) \o u = s \o (t \o u)
BY ConcatAssociative

LEMMA SendNext ==
  ASSUME NEW q \in Seq(Words), NEW p \in Seq(Keys), NEW n \in Nat, n < Len(p)
  PROVE  Append(q \o SubSeq(p, 1, n), p[n + 1]) = q \o SubSeq(p, 1, n + 1)
<1>1. p \in Seq(Words)
  BY SeqMonotonic DEF Words
<1>2. Len(p) \in Nat /\ 1 \in 1 .. Len(p) /\ n + 1 \in 1 .. Len(p) /\ (n + 1) - 1 = n
  BY LenProperties
<1>3. p[n + 1] \in Words /\ \A i \in 1 .. n : p[i] \in Words
  BY <1>1, <1>2, ElementOfSeq
<1>4. SubSeq(p, 1, n + 1) = SubSeq(p, 1, n) \o <<p[n + 1]>>
  BY <1>1, <1>2, SubSeqRecursiveSecond
<1>5. SubSeq(p, 1, n) \in Seq(Words)
  BY <1>3, SubSeqProperties
<1>6. <<p[n + 1]>> \in Seq(Words)
  BY <1>3
<1>7. Append(q \o SubSeq(p, 1, n), p[n + 1]) = (q \o SubSeq(p, 1, n)) \o <<p[n + 1]>>
  BY <1>3, <1>5, ConcatProperties, AppendIsConcat
<1>8. (q \o SubSeq(p, 1, n)) \o <<p[n + 1]>> = q \o (SubSeq(p, 1, n) \o <<p[n + 1]>>)
  BY <1>5, <1>6, WordsAssociate, Zenon
<1>9. QED
  BY <1>4, <1>7, <1>8

-----------------------------------------------------------------------------
(* What is queued is what lies between head and tail. *)
LEMMA QueuedIs ==
  /\ ring = Unset => Queued = <<>>
  /\ ring # Unset => Queued = Content(mem, ring, head, tail)
BY DEF Queued, Content, Dist, Nth, Size

LEMMA QueuedNext ==
  /\ ring' = Unset => Queued' = <<>>
  /\ ring' # Unset => Queued' = Content(mem', ring', head', tail')
BY DEF Queued, Content, Dist, Nth, Size

LEMMA QueuedKept == UNCHANGED <<mem, head, tail, ring>> => Queued' = Queued
BY DEF Queued

(* What a tool relies on.  The head that it has read is behind the guest's *)
(* head, which has moved on at most to where the tool's keys begin.        *)
Injecting == {"readPointers", "readBounds", "write"}
Behind(at, to) == Dist(ring, at, head) + Dist(ring, head, to) = Dist(ring, at, to)

ReadInv ==
  pc = "readBounds" =>
    \/ h.head = 0 /\ h.tail = 0
    \/ /\ ring # Unset /\ InRing(h.head, ring)
       /\ h.tail = tail /\ Behind(h.head, tail)

WriteInv ==
  pc = "write" =>
    /\ InRing(h.head, ring) /\ Behind(h.head, h.tail) /\ h.written <= Len(pend)
    /\ Content(mem, ring, head, h.tail) = Queued \o SubSeq(pend, 1, h.written)

(* INT 9 is never in the way of a tool: type holds the CPU while it works  *)
(* on the ring, and nobody types under the console.                        *)
Int9Inv ==
  int9 # 0 => /\ ring # Unset /\ tool = "type" /\ pc \notin Injecting
              /\ int9 = After(tail, ring) /\ int9 # head /\ mem[tail] = Typed

HaltInv ==
  tool = "type" => pc # "frame" /\ (pc \in Injecting => ~running)

QueueInv == RingInv /\ ReadInv /\ WriteInv /\ Int9Inv /\ HaltInv

(* A step of KeyQueue, or none. *)
Promised == [Promise!Next]_<<pend, Queued, taken>>

(* The types of the ring's parts, as the lemmas above need them.           *)
LEMMA RingFacts ==
  ASSUME RingInv, ring # Unset
  PROVE  /\ ring \in Rings /\ head \in Nat /\ tail \in Nat /\ mem \in [Offsets -> Words]
         /\ InRing(head, ring) /\ InRing(tail, ring)
         /\ h.head \in Nat /\ h.tail \in Nat /\ h.written \in Nat
         /\ Queued = Content(mem, ring, head, tail) /\ Queued \in Seq(Words)
         /\ Len(Queued) = Dist(ring, head, tail) \div 2
<1>1. /\ ring \in Rings /\ head \in Nat /\ tail \in Nat /\ mem \in [Offsets -> Words]
      /\ InRing(head, ring) /\ InRing(tail, ring)
  BY RingBounds DEF RingInv, TypeOK, GuestInv, Offsets
<1>2. h.head \in Nat /\ h.tail \in Nat /\ h.written \in Nat
  BY LocalType, RingBounds DEF RingInv, TypeOK, Offsets
<1>3. QED
  BY <1>1, <1>2, QueuedIs, ContentType

-----------------------------------------------------------------------------
(* The commands of inject_bios_keys. *)
LEMMA ReadPointersQueue ==
  ASSUME QueueInv, RingInv', ReadPointers PROVE QueueInv' /\ Promised
<1>1. /\ pc = "readPointers" /\ pc' = "readBounds" /\ UNCHANGED <<guest, host, running>>
      /\ h' = [h EXCEPT !.head = head, !.tail = tail]
  BY DEF ReadPointers, Goto
<1>2. h'.head = head /\ h'.tail = tail
  BY <1>1, LocalType DEF QueueInv, RingInv, TypeOK
<1>3. ring # Unset => Behind(head, tail)
  <2> SUFFICES ASSUME ring # Unset PROVE Behind(head, tail)
    OBVIOUS
  <2>1. Dist(ring, head, head) = 0 /\ Dist(ring, head, tail) \in Nat
    BY RingFacts, DistType DEF QueueInv
  <2>2. QED
    BY <2>1 DEF Behind
<1>4. ReadInv'
  <2>1. CASE ring = Unset
    BY <1>1, <1>2, <2>1 DEF guest, QueueInv, RingInv, GuestInv, ReadInv
  <2>2. CASE ring # Unset
    BY <1>1, <1>2, <1>3, <2>2, RingFacts DEF guest, QueueInv, ReadInv, Behind
  <2>3. QED
    BY <2>1, <2>2
<1>5. QED
  BY <1>1, <1>4, QueuedKept
  DEF QueueInv, WriteInv, Int9Inv, HaltInv, Injecting, guest, host, Promised

LEMMA ReadBoundsQueue ==
  ASSUME QueueInv, RingInv', ReadBounds PROVE QueueInv' /\ Promised
<1>1. /\ pc = "readBounds" /\ pc' \in {"write", "error"} /\ UNCHANGED <<guest, host>>
      /\ pc' = "write" => running' = running /\ InRing(h.head, KeyboardBounds)
      /\ h' = [h EXCEPT !.ring = KeyboardBounds, !.written = 0]
  <2>1. running \in BOOLEAN
    BY DEF QueueInv, RingInv, TypeOK
  <2>2. QED
    BY <2>1 DEF ReadBounds, Goto
<1>2. /\ h'.head = h.head /\ h'.tail = h.tail /\ h'.written = 0
  BY <1>1, LocalType DEF QueueInv, RingInv, TypeOK
<1>3. WriteInv'
  <2> SUFFICES ASSUME pc' = "write"
               PROVE  /\ InRing(h.head, ring) /\ Behind(h.head, h.tail) /\ 0 <= Len(pend)
                      /\ Content(mem, ring, head, h.tail) = Queued \o SubSeq(pend, 1, 0)
    BY <1>1, <1>2, QueuedKept DEF guest, host, WriteInv, Behind
  <2>1. h.head # 0
    <3>1. KeyboardBounds \in Rings /\ h.head \in Nat
      BY BoundsFound, LocalType, RingBounds DEF QueueInv, RingInv, TypeOK, Offsets
    <3>2. QED
      BY <1>1, <3>1, InRingOffset
  <2>2. ring # Unset /\ InRing(h.head, ring) /\ h.tail = tail /\ Behind(h.head, tail)
    BY <1>1, <2>1 DEF QueueInv, ReadInv
  <2>3. SubSeq(pend, 1, 0) = <<>>
    BY SubSeqEmpty
  <2>4. Len(pend) \in Nat
    BY LenProperties DEF QueueInv, RingInv, TypeOK
  <2>5. Queued = Content(mem, ring, head, tail) /\ Queued \o <<>> = Queued
    BY <2>2, RingFacts, ConcatEmptySeq DEF QueueInv
  <2>6. Content(mem, ring, head, h.tail) = Queued \o SubSeq(pend, 1, 0)
    BY <2>2, <2>3, <2>5, Zenon
  <2>7. Behind(h.head, h.tail)
    BY <2>2, Zenon
  <2>8. QED
    BY <2>2, <2>4, <2>6, <2>7
<1>4. QED
  BY <1>1, <1>3, QueuedKept
  DEF QueueInv, ReadInv, Int9Inv, HaltInv, Injecting, guest, host, Promised

(* What WriteInv says of the way from the guest's head to the tool's tail. *)
LEMMA WriteFacts ==
  ASSUME QueueInv, pc = "write"
  PROVE  /\ ring # Unset /\ ring \in Rings /\ h.ring = ring
         /\ InRing(h.head, ring) /\ InRing(h.tail, ring)
         /\ pend \in Seq(Keys) /\ Len(pend) \in Nat
         /\ SubSeq(pend, 1, h.written) \in Seq(Words)
         /\ Len(SubSeq(pend, 1, h.written)) = h.written
         /\ Dist(ring, head, tail) <= Dist(ring, head, h.tail)
         /\ Dist(ring, head, tail) \in Nat /\ Dist(ring, head, h.tail) \in Nat
<1>1. ring # Unset /\ ring \in Rings /\ h.ring = ring /\ InRing(h.tail, ring)
  BY RingFacts DEF QueueInv, RingInv, ToolInv
<1>2. InRing(h.head, ring) /\ h.written <= Len(pend)
      /\ Content(mem, ring, head, h.tail) = Queued \o SubSeq(pend, 1, h.written)
  BY DEF QueueInv, WriteInv
<1>3. pend \in Seq(Keys) /\ Len(pend) \in Nat /\ h.written \in Nat
  BY <1>1, RingFacts, LenProperties DEF QueueInv, RingInv, TypeOK
<1>4. \A i \in 1 .. h.written : pend[i] \in Words
  <2>1. \A i \in 1 .. h.written : i \in 1 .. Len(pend)
    BY <1>2, <1>3
  <2>2. QED
    BY <1>3, <2>1, ElementOfSeq DEF Words
<1>5. /\ SubSeq(pend, 1, h.written) \in Seq(Words)
      /\ Len(SubSeq(pend, 1, h.written)) = h.written
  BY <1>3, <1>4, SubSeqProperties
<1>6. Len(Content(mem, ring, head, h.tail)) = Dist(ring, head, h.tail) \div 2
  BY <1>1, RingFacts, ContentType DEF QueueInv
<1>7. Len(Queued) = Dist(ring, head, tail) \div 2 /\ Queued \in Seq(Words)
  BY <1>1, RingFacts DEF QueueInv
<1>8. Len(Queued \o SubSeq(pend, 1, h.written)) = Len(Queued) + h.written
  BY <1>5, <1>7, ConcatProperties
<1>9. /\ Dist(ring, head, tail) \in Nat /\ Dist(ring, head, h.tail) \in Nat
      /\ 2 * (Dist(ring, head, tail) \div 2) = Dist(ring, head, tail)
      /\ 2 * (Dist(ring, head, h.tail) \div 2) = Dist(ring, head, h.tail)
  <2>1. head \in Nat /\ tail \in Nat /\ h.tail \in Nat /\ InRing(head, ring) /\ InRing(tail, ring)
    BY <1>1, RingFacts DEF QueueInv
  <2>2. /\ Dist(ring, head, tail) \in Nat
        /\ 2 * (Dist(ring, head, tail) \div 2) = Dist(ring, head, tail)
    BY <1>1, <2>1, DistType
  <2>3. /\ Dist(ring, head, h.tail) \in Nat
        /\ 2 * (Dist(ring, head, h.tail) \div 2) = Dist(ring, head, h.tail)
    BY <1>1, <2>1, DistType
  <2>4. QED
    BY <2>2, <2>3
<1>10. Dist(ring, head, h.tail) \div 2 = Dist(ring, head, tail) \div 2 + h.written
  BY <1>2, <1>6, <1>7, <1>8
<1>11. Dist(ring, head, tail) <= Dist(ring, head, h.tail)
  <2> DEFINE a == Dist(ring, head, tail) \div 2
             b == Dist(ring, head, h.tail) \div 2
  <2>1. Dist(ring, head, tail) = 2 * a /\ Dist(ring, head, h.tail) = 2 * b /\ b = a + h.written
    BY <1>9, <1>10
  <2>2. a \in Nat /\ b \in Nat
    BY <1>9
  <2> HIDE DEF a, b
  <2>3. QED
    BY <1>3, <2>1, <2>2
<1>12. QED
  BY <1>1, <1>2, <1>3, <1>5, <1>9, <1>11

LEMMA WriteKeyQueue ==
  ASSUME QueueInv, RingInv', WriteKey PROVE QueueInv' /\ Promised
<1>1. /\ pc = "write" /\ pc' = "write" /\ h.written < Len(pend) /\ After(h.tail, h.ring) # h.head
      /\ mem' = [mem EXCEPT ![h.tail] = pend[h.written + 1]]
      /\ h' = [h EXCEPT !.tail = After(h.tail, h.ring), !.written = h.written + 1]
      /\ UNCHANGED <<head, tail, recorded, ring, int9, typed, taken, host, running>>
  BY DEF WriteKey, RingFull, Goto
<1> DEFINE to == h.tail
           n  == h.written
<1>2. /\ ring # Unset /\ ring \in Rings /\ h.ring = ring /\ InRing(h.head, ring) /\ InRing(to, ring)
      /\ pend \in Seq(Keys) /\ Len(pend) \in Nat
      /\ Dist(ring, head, tail) <= Dist(ring, head, to)
  BY <1>1, WriteFacts
<1>3. /\ head \in Nat /\ tail \in Nat /\ mem \in [Offsets -> Words] /\ h.head \in Nat
      /\ InRing(head, ring) /\ InRing(tail, ring) /\ to \in Nat /\ n \in Nat
      /\ Queued = Content(mem, ring, head, tail) /\ Queued \in Seq(Words)
  BY <1>2, RingFacts DEF QueueInv
<1>4. h'.tail = After(to, ring) /\ h'.head = h.head /\ h'.written = n + 1
  BY <1>1, <1>2, LocalType DEF QueueInv, RingInv, TypeOK
<1>5. mem' \in [Offsets -> Words] /\ \A o \in Offsets \ {to} : mem'[o] = mem[o]
  BY <1>1, <1>3 DEF RingInv, TypeOK
<1>6. mem'[to] = pend[n + 1]
  BY <1>1, <1>2, <1>3, InRingOffset
<1>7. /\ Dist(ring, h.head, head) + Dist(ring, head, to) = Dist(ring, h.head, to)
      /\ Content(mem, ring, head, to) = Queued \o SubSeq(pend, 1, n)
  BY <1>1 DEF QueueInv, WriteInv, Behind
<1>8. /\ After(to, ring) # head
      /\ Dist(ring, h.head, head) + Dist(ring, head, After(to, ring))
           = Dist(ring, h.head, After(to, ring))
  <2>1. /\ Dist(ring, h.head, After(to, ring)) = Dist(ring, h.head, to) + 2
        /\ Dist(ring, h.head, After(to, ring)) + 2 <= Size(ring)
    <3>1. After(to, ring) \in Nat /\ InRing(After(to, ring), ring)
      BY <1>2, <1>3, AfterInRing
    <3>2. Dist(ring, h.head, After(to, ring)) + 2 <= Size(ring)
      BY <1>2, <1>3, <3>1, DistType
    <3>3. After(to, ring) # h.head
      BY <1>1, <1>2
    <3>4. QED
      BY <1>2, <1>3, <3>2, <3>3, DistSteps
  <2>2. /\ Dist(ring, h.head, head) \in Nat /\ Dist(ring, head, to) \in Nat
        /\ Dist(ring, h.head, to) \in Nat /\ Size(ring) \in Nat
    BY <1>2, <1>3, DistType, Slot
  <2>3. Dist(ring, head, to) + 2 # Size(ring)
    BY <1>7, <2>1, <2>2
  <2>4. After(to, ring) # head
    BY <1>2, <1>3, <2>3, DistSteps
  <2>5. Dist(ring, head, After(to, ring)) = Dist(ring, head, to) + 2
    BY <1>2, <1>3, <2>4, DistSteps
  <2>6. QED
    BY <1>7, <2>1, <2>2, <2>4, <2>5
<1>9. Queued' = Queued
  <2>1. Content(mem', ring, head, tail) = Content(mem, ring, head, tail)
    BY <1>2, <1>3, <1>5, ContentOther
  <2>2. QED
    BY <1>1, <1>2, <1>3, <2>1, QueuedNext
<1>10. Content(mem', ring, head, After(to, ring)) = Queued \o SubSeq(pend, 1, n + 1)
  <2>1. Content(mem', ring, head, After(to, ring)) = Append(Content(mem, ring, head, to), mem'[to])
    <3> DEFINE m2 == mem'
    <3>1. /\ ring \in Rings /\ head \in Nat /\ to \in Nat /\ InRing(head, ring) /\ InRing(to, ring)
          /\ mem \in [Offsets -> Words] /\ m2 \in [Offsets -> Words]
          /\ \A o \in Offsets \ {to} : m2[o] = mem[o]
          /\ After(to, ring) # head
      BY <1>2, <1>3, <1>5, <1>8
    <3> HIDE DEF to, m2
    <3>2. Content(m2, ring, head, After(to, ring)) = Append(Content(mem, ring, head, to), m2[to])
      BY <3>1, ContentAppend
    <3>3. QED
      BY <3>2 DEF m2, to
  <2>2. Append(Queued \o SubSeq(pend, 1, n), pend[n + 1]) = Queued \o SubSeq(pend, 1, n + 1)
    BY <1>1, <1>2, <1>3, SendNext
  <2>3. QED
    BY <1>6, <1>7, <2>1, <2>2
<1>11. n + 1 <= Len(pend)
  BY <1>1, <1>2, <1>3
<1>12. WriteInv'
  BY <1>1, <1>2, <1>4, <1>8, <1>9, <1>10, <1>11 DEF host, WriteInv, Behind
<1>13. Int9Inv'
  BY <1>1 DEF QueueInv, Int9Inv, Injecting
<1>14. QED
  BY <1>1, <1>9, <1>12, <1>13 DEF host, QueueInv, ReadInv, HaltInv, Promised

(* The new tail makes all the keys visible at once: KeyQueue's Put. *)
LEMMA WriteTailQueue ==
  ASSUME QueueInv, RingInv', WriteTail PROVE QueueInv' /\ Promised
<1>1. /\ pc = "write" /\ pc' = IF tool = "type" THEN "returned" ELSE "frame"
      /\ tail' = IF h.written = 0 THEN tail ELSE h.tail
      /\ pend' = SubSeq(pend, h.written + 1, Len(pend))
      /\ UNCHANGED <<mem, head, recorded, ring, int9, typed, taken, tool, entered, running>>
  BY DEF WriteTail, Goto
<1>2. /\ ring # Unset /\ pend \in Seq(Keys) /\ Len(pend) \in Nat
      /\ h.written \in Nat /\ h.written <= Len(pend)
      /\ Queued = Content(mem, ring, head, tail)
      /\ Content(mem, ring, head, h.tail) = Queued \o SubSeq(pend, 1, h.written)
  BY <1>1, WriteFacts, RingFacts DEF QueueInv, WriteInv
<1>3. CASE h.written = 0
  <2>1. Queued' = Queued
    BY <1>1, <1>3, QueuedKept
  <2>2. pend' = pend
    BY <1>1, <1>2, <1>3, SubSeqFull
  <2>3. QED
    BY <1>1, <2>1, <2>2
    DEF QueueInv, ReadInv, WriteInv, Int9Inv, HaltInv, Injecting, Promised
<1>4. CASE h.written # 0
  <2>1. Queued' = Queued \o SubSeq(pend, 1, h.written)
    BY <1>1, <1>2, <1>4, QueuedNext
  <2>2. Promise!Put(h.written) /\ h.written \in 1 .. Len(pend)
    BY <1>1, <1>2, <1>4, <2>1 DEF Promise!Put
  <2>3. Promised
    BY <2>2 DEF Promise!Next, Promised
  <2>4. QED
    BY <1>1, <2>3 DEF QueueInv, ReadInv, WriteInv, Int9Inv, HaltInv, Injecting
<1>5. QED
  BY <1>3, <1>4

-----------------------------------------------------------------------------
(* The tools around it. *)
LEMMA CallerQueue ==
  ASSUME QueueInv, RingInv',
         Detach \/ Resume \/ Deadline \/ (int9 = 0 /\ BreakCpu) \/ Inject \/ Exit \/ Abort
  PROVE  QueueInv' /\ Promised
<1>1. /\ pc' \in {"readPointers", "done", "pause", "error"} /\ UNCHANGED <<guest, host, h>>
      /\ pc' = "readPointers" => \/ int9 = 0 /\ ~running'
                                 \/ pc = "frame"
  BY DEF Detach, Resume, Deadline, BreakCpu, Inject, Exit, Abort, Goto
<1>2. Int9Inv'
  BY <1>1 DEF guest, host, QueueInv, HaltInv, Int9Inv, Injecting
<1>3. HaltInv'
  BY <1>1 DEF host, QueueInv, HaltInv, Injecting
<1>4. QED
  BY <1>1, <1>2, <1>3, QueuedKept DEF guest, host, QueueInv, ReadInv, WriteInv, Promised

LEMMA PressQueue ==
  ASSUME QueueInv, RingInv', Press PROVE QueueInv' /\ Promised
<1>1. PICK k \in Keys : pend' = Append(pend, k)
  BY DEF Press
<1>2. pc = "frame" /\ pc' = "frame" /\ UNCHANGED <<guest, tool, h, running>>
  BY DEF Press, Goto
<1>3. Queued' = Queued
  BY <1>2, QueuedKept DEF guest
<1>4. Promise!Press(k)
  BY <1>1, <1>2, <1>3 DEF guest, Promise!Press
<1>5. Promised
  BY <1>4 DEF Promise!Next, Promised
<1>6. QED
  BY <1>2, <1>5 DEF guest, QueueInv, ReadInv, WriteInv, Int9Inv, HaltInv, Injecting

-----------------------------------------------------------------------------
(* The guest. *)
LEMMA BootQueue ==
  ASSUME QueueInv, RingInv', Boot PROVE QueueInv' /\ Promised
<1>1. /\ ring = Unset /\ ring' \in Rings /\ head' = tail' /\ UNCHANGED <<mem, int9, typed, taken, tools>>
  BY DEF Boot
<1>2. int9 = 0 /\ pc # "write"
  BY <1>1 DEF QueueInv, RingInv, GuestInv, ToolInv
<1>3. Queued = <<>> /\ Queued' = <<>>
  <2>1. ring' # Unset
    BY <1>1, RingBounds
  <2>2. head' \in Nat /\ InRing(head', ring') /\ mem' \in [Offsets -> Words]
    BY <2>1, RingBounds DEF RingInv, TypeOK, GuestInv, Offsets
  <2>3. Content(mem', ring', head', tail') = <<>>
    BY <1>1, <2>2, ContentType
  <2>4. QED
    BY <1>1, <2>1, <2>3, QueuedIs, QueuedNext
<1>4. ReadInv'
  BY <1>1 DEF tools, QueueInv, ReadInv
<1>5. QED
  BY <1>1, <1>2, <1>3, <1>4
  DEF tools, host, QueueInv, WriteInv, Int9Inv, HaltInv, Injecting, Promised

(* The guest's head moves on, which keeps everything behind it behind it.  *)
LEMMA BehindTaken ==
  ASSUME NEW r \in Rings, NEW at \in Nat, NEW hd \in Nat, NEW to \in Nat,
         InRing(at, r), InRing(hd, r), InRing(to, r), hd # to,
         Dist(r, at, hd) + Dist(r, hd, to) = Dist(r, at, to)
  PROVE  Dist(r, at, After(hd, r)) + Dist(r, After(hd, r), to) = Dist(r, at, to)
<1>1. /\ Dist(r, at, hd) \in Nat /\ Dist(r, hd, to) \in Nat /\ Dist(r, at, to) \in Nat
      /\ Dist(r, at, to) + 2 <= Size(r) /\ Size(r) \in Nat
  BY DistType, Slot
<1>2. Dist(r, After(hd, r), to) \in Nat
  BY AfterInRing, DistType
<1>3. Dist(r, After(hd, r), to) + 2 = Dist(r, hd, to)
  BY DistSteps
<1>4. Dist(r, at, hd) + 2 # Size(r)
  BY <1>1, <1>2, <1>3
<1>5. Dist(r, at, After(hd, r)) = Dist(r, at, hd) + 2
  BY <1>4, DistSteps
<1>6. QED
  BY <1>1, <1>2, <1>3, <1>5

LEMMA TakeQueue ==
  ASSUME QueueInv, RingInv', Take PROVE QueueInv' /\ Promised
<1>1. /\ ring # Unset /\ int9 = 0 /\ head # tail
      /\ taken' = Append(taken, mem[head]) /\ head' = After(head, ring)
      /\ UNCHANGED <<mem, tail, recorded, ring, int9, typed, tools>>
  BY DEF Take
<1>2. /\ ring \in Rings /\ head \in Nat /\ tail \in Nat /\ mem \in [Offsets -> Words]
      /\ InRing(head, ring) /\ InRing(tail, ring) /\ h.head \in Nat /\ h.tail \in Nat
      /\ Queued = Content(mem, ring, head, tail) /\ Queued \in Seq(Words)
  BY <1>1, RingFacts DEF QueueInv
<1>3. Queued # <<>> /\ Head(Queued) = mem[head] /\ Queued' = Tail(Queued)
  <2>1. /\ Queued # <<>> /\ Head(Queued) = mem[head]
        /\ Tail(Queued) = Content(mem, ring, After(head, ring), tail)
    BY <1>1, <1>2, ContentTail
  <2>2. QED
    BY <1>1, <2>1, QueuedNext
<1>4. Promise!Take
  BY <1>1, <1>3 DEF tools, host, Promise!Take
<1>5. ReadInv'
  <2>1. ASSUME InRing(h.head, ring), h.tail = tail, Behind(h.head, tail)
        PROVE  Dist(ring, h.head, head') + Dist(ring, head', tail) = Dist(ring, h.head, tail)
    BY <1>1, <1>2, <2>1, BehindTaken DEF Behind
  <2>2. QED
    BY <1>1, <2>1 DEF tools, QueueInv, ReadInv, Behind
<1>6. WriteInv'
  <2> SUFFICES ASSUME pc = "write" PROVE WriteInv'
    BY <1>1 DEF tools, WriteInv
  <2> DEFINE sent == SubSeq(pend, 1, h.written)
  <2>1. /\ InRing(h.head, ring) /\ InRing(h.tail, ring) /\ sent \in Seq(Words)
        /\ Dist(ring, head, tail) <= Dist(ring, head, h.tail)
        /\ Dist(ring, head, tail) \in Nat /\ Dist(ring, head, h.tail) \in Nat
    BY WriteFacts
  <2>2. /\ Behind(h.head, h.tail) /\ h.written <= Len(pend)
        /\ Content(mem, ring, head, h.tail) = Queued \o sent
    BY DEF QueueInv, WriteInv
  <2>3. head # h.tail
    <3>1. Dist(ring, head, tail) # 0
      BY <1>1, <1>2, DistType
    <3>2. Dist(ring, head, h.tail) # 0
      BY <2>1, <3>1
    <3>3. Dist(ring, head, head) = 0
      BY <1>2, DistType
    <3>4. QED
      BY <3>2, <3>3
  <2>4. Dist(ring, h.head, head') + Dist(ring, head', h.tail) = Dist(ring, h.head, h.tail)
    <3> DEFINE to == h.tail
               at == h.head
    <3>1. /\ ring \in Rings /\ at \in Nat /\ to \in Nat /\ head \in Nat
          /\ InRing(at, ring) /\ InRing(head, ring) /\ InRing(to, ring) /\ head # to
          /\ Dist(ring, at, head) + Dist(ring, head, to) = Dist(ring, at, to)
      BY <1>2, <2>1, <2>2, <2>3 DEF Behind
    <3> HIDE DEF to, at
    <3>2. Dist(ring, at, After(head, ring)) + Dist(ring, After(head, ring), to) = Dist(ring, at, to)
      BY <3>1, BehindTaken
    <3>3. QED
      BY <1>1, <3>2 DEF to, at
  <2>5. Content(mem, ring, head', h.tail) = Tail(Queued \o sent)
    <3>1. Tail(Content(mem, ring, head, h.tail)) = Content(mem, ring, After(head, ring), h.tail)
      <4> DEFINE to == h.tail
      <4>1. /\ ring \in Rings /\ to \in Nat /\ head \in Nat /\ mem \in [Offsets -> Words]
            /\ InRing(head, ring) /\ InRing(to, ring) /\ head # to
        BY <1>2, <2>1, <2>3
      <4> HIDE DEF to
      <4>2. Tail(Content(mem, ring, head, to)) = Content(mem, ring, After(head, ring), to)
        BY <4>1, ContentTail
      <4>3. QED
        BY <4>2 DEF to
    <3>2. QED
      BY <1>1, <2>2, <3>1, Zenon
  <2>6. Tail(Queued \o sent) = Tail(Queued) \o sent
    BY <1>2, <1>3, <2>1, TailConcat
  <2>7. QED
    BY <1>1, <1>3, <2>1, <2>2, <2>4, <2>5, <2>6 DEF tools, host, WriteInv, Behind
<1>7. Promised
  BY <1>4 DEF Promise!Next, Promised
<1>8. QED
  BY <1>1, <1>5, <1>6, <1>7 DEF tools, host, QueueInv, Int9Inv, HaltInv

LEMMA Int9KeyQueue ==
  ASSUME QueueInv, RingInv', Int9Key, Undisturbed PROVE QueueInv' /\ Promised
<1>1. /\ running /\ ring # Unset /\ int9 = 0 /\ typed < MaxTyped[tool]
      /\ After(tail, ring) # head
      /\ mem' = [mem EXCEPT ![tail] = Typed] /\ int9' = After(tail, ring)
      /\ UNCHANGED <<head, tail, recorded, ring, taken, tools>>
  BY DEF Int9Key
<1>2. /\ ring \in Rings /\ head \in Nat /\ tail \in Nat /\ mem \in [Offsets -> Words]
      /\ InRing(head, ring) /\ InRing(tail, ring) /\ Queued = Content(mem, ring, head, tail)
  BY <1>1, RingFacts DEF QueueInv
<1>3. tool = "type"
  <2>1. tool \in Tools /\ typed \in Nat
    BY BoundAssumption DEF QueueInv, RingInv, TypeOK
  <2>2. tool # "console"
    BY <1>1, <2>1 DEF Undisturbed
  <2>3. QED
    BY <2>1, <2>2, ToolAssumption
<1>4. pc \notin Injecting
  BY <1>1, <1>3 DEF QueueInv, HaltInv
<1>5. /\ mem' \in [Offsets -> Words] /\ \A o \in Offsets \ {tail} : mem'[o] = mem[o]
      /\ mem'[tail] = Typed
  BY <1>1, <1>2, InRingOffset DEF RingInv, TypeOK
<1>6. Queued' = Queued
  <2>1. Dist(ring, head, tail) <= Dist(ring, head, tail)
    BY <1>2, DistType
  <2>2. Content(mem', ring, head, tail) = Content(mem, ring, head, tail)
    BY <1>2, <1>5, <2>1, ContentOther
  <2>3. QED
    BY <1>1, <1>2, <2>2, QueuedNext
<1>7. Int9Inv'
  BY <1>1, <1>3, <1>4, <1>5 DEF tools, host, Int9Inv
<1>8. QED
  BY <1>1, <1>4, <1>6, <1>7
  DEF tools, host, QueueInv, ReadInv, WriteInv, HaltInv, Injecting, Promised

LEMMA Int9TailQueue ==
  ASSUME QueueInv, RingInv', Int9Tail PROVE QueueInv' /\ Promised
<1>1. /\ int9 # 0 /\ tail' = int9 /\ int9' = 0
      /\ UNCHANGED <<mem, head, recorded, ring, typed, taken, tools>>
  BY DEF Int9Tail
<1>2. /\ ring # Unset /\ pc \notin Injecting
      /\ int9 = After(tail, ring) /\ After(tail, ring) # head /\ mem[tail] = Typed
  BY <1>1 DEF QueueInv, Int9Inv
<1>3. /\ ring \in Rings /\ head \in Nat /\ tail \in Nat /\ mem \in [Offsets -> Words]
      /\ InRing(head, ring) /\ InRing(tail, ring) /\ Queued = Content(mem, ring, head, tail)
  BY <1>2, RingFacts DEF QueueInv
<1>4. Content(mem, ring, head, After(tail, ring)) = Append(Queued, Typed)
  <2>1. \A o \in Offsets \ {tail} : mem[o] = mem[o]
    OBVIOUS
  <2>2. Content(mem, ring, head, After(tail, ring)) = Append(Content(mem, ring, head, tail), mem[tail])
    BY <1>2, <1>3, <2>1, ContentAppend
  <2>3. QED
    BY <1>2, <1>3, <2>2
<1>5. Queued' = Append(Queued, Typed)
  BY <1>1, <1>2, <1>4, QueuedNext
<1>6. Promise!Type(Typed)
  BY <1>1, <1>5 DEF tools, host, Promise!Type
<1>7. Promised
  BY <1>6 DEF Promise!Next, Promised
<1>8. QED
  BY <1>1, <1>2, <1>7
  DEF tools, host, QueueInv, ReadInv, WriteInv, Int9Inv, HaltInv, Injecting

-----------------------------------------------------------------------------
LEMMA InitQueue == Init => QueueInv /\ Promise!Init
<1> SUFFICES ASSUME Init PROVE QueueInv /\ Promise!Init
  OBVIOUS
<1>1. RingInv
  BY InitRing
<1>2. pend \in Seq(Keys)
  BY <1>1 DEF RingInv, TypeOK
<1>3. Queued = <<>>
  BY QueuedIs DEF Init
<1>4. QED
  BY <1>1, <1>2, <1>3
  DEF Init, QueueInv, ReadInv, WriteInv, Int9Inv, HaltInv, Injecting, Promise!Init

LEMMA NextQueue ==
  ASSUME Undisturbed, QueueInv, [Next]_vars
  PROVE  QueueInv' /\ [Promise!Next]_<<pend, Queued, taken>>
<1>1. RingInv'
  BY NextRing DEF QueueInv
<1>2. CASE ToolStep
  <2>1. StubListens => int9 = 0
    BY DEF StubListens, Undisturbed
  <2>2. QED
    BY <1>1, <1>2, <2>1, CallerQueue, ReadPointersQueue, ReadBoundsQueue, WriteKeyQueue,
       WriteTailQueue DEF ToolStep, Promised
<1>3. CASE Press \/ Exit \/ Abort
  BY <1>1, <1>3, PressQueue, CallerQueue DEF Promised
<1>4. CASE GuestStep
  BY <1>1, <1>4, BootQueue, TakeQueue, Int9KeyQueue, Int9TailQueue DEF GuestStep, Promised
<1>5. CASE UNCHANGED vars
  BY <1>1, <1>5, QueuedKept
  DEF vars, QueueInv, ReadInv, WriteInv, Int9Inv, HaltInv, Behind
<1>6. QED
  BY <1>2, <1>3, <1>4, <1>5 DEF Next

(* The ring, the tools and the guest's BIOS together implement a queue:    *)
(* inject_bios_keys never loses, repeats or reorders a key, though it      *)
(* works with pointers that it has read several commands ago.              *)
THEOREM RingImplementsQueue ==
  ASSUME Undisturbed
  PROVE  Spec => DeliversInOrder
<1>1. Init => QueueInv /\ Promise!Init
  BY InitQueue
<1>2. QueueInv /\ [Next]_vars => QueueInv' /\ [Promise!Next]_Promise!vars
  BY NextQueue DEF Promise!vars
<1>3. QED
  BY <1>1, <1>2, PTL DEF Spec, DeliversInOrder, Promise!Spec

-----------------------------------------------------------------------------
(* What Sent keeps of a sequence.  Facts about every prefix of a sequence  *)
(* are proved by a least counterexample.                                   *)
LEMMA LeastNumber ==
  ASSUME NEW T, T \subseteq Nat, T # {}
  PROVE  \E x \in T : \A y \in T : x <= y
<1>1. PICK R : R = OpToRel(<, Nat)
  OBVIOUS
<1>2. IsWellFoundedOn(R, Nat)
  BY <1>1, NatLessThanWellFounded
<1>3. PICK x \in T : \A y \in T : ~(<<y, x>> \in R)
  BY <1>2, WFMin
<1>4. R = {p \in Nat \X Nat : p[1] < p[2]}
  BY <1>1 DEF OpToRel
<1>5. \A y \in T : y < x => <<y, x>> \in R
  BY <1>4
<1>6. \A y \in T : ~(y < x)
  BY <1>3, <1>5
<1>7. QED
  BY <1>6

(* The recursive function of Sent, over the first m of a sequence's keys.  *)
SentRule(f, s, n) ==
  IF n = 0 THEN <<>> ELSE IF s[n] = Typed THEN f[n - 1] ELSE Append(f[n - 1], s[n])
SentBy(s, m) ==
  CHOOSE f : f = [n \in 0 .. m |-> IF n = 0 THEN <<>>
                                   ELSE IF s[n] = Typed THEN f[n - 1]
                                   ELSE Append(f[n - 1], s[n])]

LEMMA SentIs == ASSUME NEW s PROVE Sent(s) = SentBy(s, Len(s))[Len(s)]
BY DEF Sent, SentBy

LEMMA SentUnfold ==
  ASSUME NEW s, NEW m \in Nat, NEW n \in 0 .. m
  PROVE  SentBy(s, m)[n] = SentRule(SentBy(s, m), s, n)
<1> DEFINE Solves(f, k) == f = [i \in 0 .. k |-> IF i = 0 THEN <<>>
                                                ELSE IF s[i] = Typed THEN f[i - 1]
                                                ELSE Append(f[i - 1], s[i])]
           T == {k \in Nat : ~ \E f : Solves(f, k)}
<1>1. T = {}
  <2> SUFFICES ASSUME T # {} PROVE FALSE
    OBVIOUS
  <2>1. PICK k \in T : \A j \in T : k <= j
    <3>1. T \subseteq Nat
      OBVIOUS
    <3> HIDE DEF T
    <3>2. QED
      BY <3>1, LeastNumber
  <2>2. CASE k = 0
    <3>1. Solves([i \in 0 .. 0 |-> <<>>], 0)
      OBVIOUS
    <3>2. QED
      BY <2>1, <2>2, <3>1
  <2>3. CASE k # 0
    <3>1. k - 1 \in Nat /\ k - 1 \notin T
      <4>1. k \in Nat
        OBVIOUS
      <4>2. ~(k <= k - 1) /\ k - 1 \in Nat
        BY <2>3, <4>1
      <4> HIDE DEF T
      <4>3. QED
        BY <2>1, <4>2
    <3>2. PICK f : Solves(f, k - 1)
      BY <3>1
    <3> DEFINE last == IF s[k] = Typed THEN f[k - 1] ELSE Append(f[k - 1], s[k])
               g == [i \in 0 .. k |-> IF i = k THEN last ELSE f[i]]
    <3>3. \A i \in 0 .. k - 1 : f[i] = SentRule(f, s, i)
      BY <3>2 DEF SentRule
    <3>4. ASSUME NEW i \in 0 .. k PROVE g[i] = SentRule(g, s, i)
      <4>1. CASE i = 0
        <5>1. g[i] = f[0] /\ f[0] = SentRule(f, s, 0)
          BY <2>3, <3>3, <4>1
        <5> HIDE DEF g
        <5>2. QED
          BY <4>1, <5>1 DEF SentRule
      <4>2. CASE i # 0
        <5>1. i - 1 \in 0 .. k /\ i - 1 # k
          BY <4>2
        <5>2. g[i - 1] = f[i - 1]
          BY <5>1
        <5>3. g[i] = IF i = k THEN last ELSE f[i]
          OBVIOUS
        <5>4. i # k => f[i] = SentRule(f, s, i)
          BY <3>3
        <5> HIDE DEF g
        <5>5. QED
          BY <4>2, <5>2, <5>3, <5>4 DEF SentRule
      <4>3. QED
        BY <4>1, <4>2
    <3>5. Solves(g, k)
      <4>1. g = [i \in 0 .. k |-> g[i]]
        OBVIOUS
      <4> HIDE DEF g
      <4>2. QED
        BY <3>4, <4>1 DEF SentRule
    <3>6. QED
      BY <2>1, <3>5
  <2>4. QED
    BY <2>2, <2>3
<1>2. \E f : Solves(f, m)
  BY <1>1
<1>3. SentBy(s, m) = [i \in 0 .. m |-> IF i = 0 THEN <<>>
                                       ELSE IF s[i] = Typed THEN SentBy(s, m)[i - 1]
                                       ELSE Append(SentBy(s, m)[i - 1], s[i])]
  BY <1>2 DEF SentBy
<1>4. QED
  BY <1>3 DEF SentRule

(* It looks at no more of a sequence than it is asked about.               *)
LEMMA SentAgrees ==
  ASSUME NEW s, NEW t, NEW m \in Nat, NEW k \in Nat, NEW n \in Nat, n <= m, n <= k,
         \A i \in 1 .. n : s[i] = t[i]
  PROVE  SentBy(s, m)[n] = SentBy(t, k)[n]
<1> DEFINE T == {j \in 0 .. n : SentBy(s, m)[j] # SentBy(t, k)[j]}
<1> SUFFICES ASSUME T # {} PROVE FALSE
  OBVIOUS
<1>1. PICK j \in T : \A i \in T : j <= i
  <2>1. T \subseteq Nat
    OBVIOUS
  <2> HIDE DEF T
  <2>2. QED
    BY <2>1, LeastNumber
<1>2. /\ j \in 0 .. n /\ SentBy(s, m)[j] # SentBy(t, k)[j]
      /\ \A i \in 0 .. n : SentBy(s, m)[i] # SentBy(t, k)[i] => j <= i
  BY <1>1
<1> HIDE DEF T
<1>3. /\ SentBy(s, m)[j] = SentRule(SentBy(s, m), s, j)
      /\ SentBy(t, k)[j] = SentRule(SentBy(t, k), t, j)
  BY <1>2, SentUnfold
<1>4. j # 0
  BY <1>2, <1>3 DEF SentRule
<1>5. SentBy(s, m)[j - 1] = SentBy(t, k)[j - 1] /\ s[j] = t[j]
  BY <1>2, <1>4
<1>6. QED
  BY <1>2, <1>3, <1>4, <1>5 DEF SentRule

LEMMA SentType == ASSUME NEW s \in Seq(Words) PROVE Sent(s) \in Seq(Words)
<1> DEFINE m == Len(s)
           T == {j \in 0 .. m : SentBy(s, m)[j] \notin Seq(Words)}
<1>1. m \in Nat /\ \A i \in 1 .. m : s[i] \in Words
  BY LenProperties, ElementOfSeq
<1>2. T = {}
  <2> SUFFICES ASSUME T # {} PROVE FALSE
    OBVIOUS
  <2>1. PICK j \in T : \A i \in T : j <= i
    <3>1. T \subseteq Nat
      OBVIOUS
    <3> HIDE DEF T
    <3>2. QED
      BY <3>1, LeastNumber
  <2>2. /\ j \in 0 .. m /\ SentBy(s, m)[j] \notin Seq(Words)
        /\ \A i \in 0 .. m : SentBy(s, m)[i] \notin Seq(Words) => j <= i
    BY <2>1
  <2> HIDE DEF T, m
  <2>3. SentBy(s, m)[j] = SentRule(SentBy(s, m), s, j)
    BY <1>1, <2>2, SentUnfold
  <2>4. j # 0
    BY <2>2, <2>3 DEF SentRule
  <2>5. SentBy(s, m)[j - 1] \in Seq(Words) /\ s[j] \in Words
    BY <1>1, <2>2, <2>4
  <2>6. QED
    BY <2>2, <2>3, <2>4, <2>5 DEF SentRule
<1>3. QED
  BY <1>1, <1>2, SentIs

LEMMA SentEmpty == Sent(<<>>) = <<>>
<1>1. Len(<<>>) = 0
  OBVIOUS
<1>2. SentBy(<<>>, 0)[0] = SentRule(SentBy(<<>>, 0), <<>>, 0)
  BY SentUnfold
<1>3. QED
  BY <1>1, <1>2, SentIs DEF SentRule

LEMMA SentAppend ==
  ASSUME NEW s \in Seq(Words), NEW x \in Words
  PROVE  Sent(Append(s, x)) = IF x = Typed THEN Sent(s) ELSE Append(Sent(s), x)
<1> DEFINE m == Len(s)
           t == Append(s, x)
<1>1. m \in Nat /\ Len(t) = m + 1 /\ t[m + 1] = x /\ \A i \in 1 .. m : t[i] = s[i]
  BY AppendProperties, LenProperties
<1> HIDE DEF m, t
<1>2. SentBy(t, m + 1)[m + 1] = SentRule(SentBy(t, m + 1), t, m + 1)
  BY <1>1, SentUnfold
<1>3. SentBy(t, m + 1)[m] = SentBy(s, m)[m]
  BY <1>1, SentAgrees
<1>4. Sent(t) = IF x = Typed THEN SentBy(s, m)[m] ELSE Append(SentBy(s, m)[m], x)
  <2>1. m + 1 # 0 /\ (m + 1) - 1 = m
    BY <1>1
  <2>2. Sent(t) = SentBy(t, m + 1)[m + 1]
    BY <1>1, SentIs
  <2>3. QED
    BY <1>1, <1>2, <1>3, <2>1, <2>2 DEF SentRule
<1>5. Sent(s) = SentBy(s, m)[m]
  BY SentIs DEF m
<1>6. QED
  BY <1>4, <1>5 DEF t

(* The keys of the user all count. *)
LEMMA SentKeys ==
  ASSUME NEW s \in Seq(Words), NEW p \in Seq(Keys), NEW n \in Nat, n <= Len(p)
  PROVE  Sent(s \o SubSeq(p, 1, n)) = Sent(s) \o SubSeq(p, 1, n)
<1> DEFINE Holds(j) == Sent(s \o SubSeq(p, 1, j)) = Sent(s) \o SubSeq(p, 1, j)
           T == {j \in 0 .. n : ~Holds(j)}
<1> SUFFICES ASSUME T # {} PROVE FALSE
  OBVIOUS
<1>1. PICK j \in T : \A i \in T : j <= i
  <2>1. T \subseteq Nat
    OBVIOUS
  <2> HIDE DEF T
  <2>2. QED
    BY <2>1, LeastNumber
<1>2. /\ j \in 0 .. n /\ ~Holds(j)
      /\ \A i \in 0 .. n : ~Holds(i) => j <= i
  BY <1>1
<1> HIDE DEF T
<1>3. Sent(s) \in Seq(Words) /\ Len(p) \in Nat /\ p \in Seq(Words)
  BY SentType, LenProperties, SeqMonotonic DEF Words
<1>4. j # 0
  <2>1. SubSeq(p, 1, 0) = <<>>
    BY SubSeqEmpty
  <2>2. Holds(0)
    BY <1>3, <2>1, ConcatEmptySeq
  <2>3. QED
    BY <1>2, <2>2
<1>5. j - 1 \in Nat /\ j - 1 < Len(p) /\ j \in 1 .. Len(p)
  BY <1>2, <1>3, <1>4
<1>6. Holds(j - 1)
  <2> HIDE DEF Holds
  <2>1. j - 1 \in 0 .. n /\ ~(j <= j - 1)
    BY <1>2, <1>5
  <2>2. QED
    BY <1>2, <2>1
<1>7. /\ Append(s \o SubSeq(p, 1, j - 1), p[j]) = s \o SubSeq(p, 1, j)
      /\ Append(Sent(s) \o SubSeq(p, 1, j - 1), p[j]) = Sent(s) \o SubSeq(p, 1, j)
  <2>1. (j - 1) + 1 = j
    BY <1>5
  <2>2. QED
    BY <1>3, <1>5, <2>1, SendNext
<1>8. s \o SubSeq(p, 1, j - 1) \in Seq(Words) /\ p[j] \in Keys
  <2>1. p[j] \in Keys /\ \A i \in 1 .. j - 1 : p[i] \in Words
    BY <1>3, <1>5, ElementOfSeq
  <2>2. SubSeq(p, 1, j - 1) \in Seq(Words)
    BY <1>3, <1>5, <2>1, SubSeqProperties
  <2>3. QED
    BY <2>1, <2>2, ConcatProperties
<1>9. p[j] \in Words /\ p[j] # Typed
  BY <1>8, KeyAssumption DEF Words
<1>10. QED
  BY <1>2, <1>6, <1>7, <1>8, <1>9, SentAppend

-----------------------------------------------------------------------------
(* Between and within the rounds of a tool, every key the user gave is in  *)
(* the tool's queue, in the ring or with the guest's program.              *)
SentInv ==
  /\ taken \in Seq(Words)
  /\ Sent(taken \o Queued) \o pend = entered

(* What a step does to the keys that the user gave and the tool holds.     *)
LEMMA NextEntered ==
  ASSUME RingInv, [Next]_vars
  PROVE  \/ \E k \in Keys : /\ pend' = Append(pend, k) /\ entered' = Append(entered, k)
                            /\ UNCHANGED <<taken, mem, head, tail, ring>>
         \/ entered' = entered /\ ~(\E k \in Keys : pend' = Append(pend, k))
<1>1. pend \in Seq(Keys) /\ Len(pend) \in Nat
  BY LenProperties DEF RingInv, TypeOK
<1>2. CASE Press
  BY <1>2 DEF Press, guest
<1>3. CASE entered' = entered /\ pend' = pend
  <2>1. ASSUME NEW k \in Keys PROVE pend # Append(pend, k)
    <3>1. Len(Append(pend, k)) = Len(pend) + 1
      BY <1>1, AppendProperties
    <3>2. QED
      BY <1>1, <3>1
  <2>2. QED
    BY <1>3, <2>1
<1>4. CASE WriteTail
  <2>1. entered' = entered /\ pend' = SubSeq(pend, h.written + 1, Len(pend))
    BY <1>4 DEF WriteTail
  <2>2. h.written \in Nat
    BY LocalType DEF RingInv, TypeOK
  <2>3. Len(SubSeq(pend, h.written + 1, Len(pend))) <= Len(pend)
    <3> DEFINE a == h.written + 1
               b == Len(pend)
    <3>1. a \in Nat \ {0} /\ b \in Nat /\ \A i \in a .. b : pend[i] \in Keys
      BY <1>1, <2>2, ElementOfSeq
    <3>2. Len(SubSeq(pend, a, b)) = IF a <= b THEN b - a + 1 ELSE 0
      <4> HIDE DEF a, b
      <4>1. QED
        BY <3>1, SubSeqProperties
    <3> HIDE DEF a
    <3>3. QED
      BY <3>1, <3>2 DEF a
  <2>4. ASSUME NEW k \in Keys PROVE pend' # Append(pend, k)
    <3>1. Len(Append(pend, k)) = Len(pend) + 1
      BY <1>1, AppendProperties
    <3>2. Len(pend') <= Len(pend)
      <4>1. pend' = SubSeq(pend, h.written + 1, Len(pend))
        BY <2>1
      <4>2. QED
        BY <2>3, <4>1, Zenon
    <3>3. QED
      BY <1>1, <3>1, <3>2
  <2>5. QED
    BY <2>1, <2>4
<1>5. QED
  <2>1. CASE ToolStep
    BY <1>3, <1>4, <2>1
    DEF ToolStep, BreakCpu, ReadPointers, ReadBounds, WriteKey, Detach, Resume, Deadline,
        Inject, host
  <2>2. CASE Exit \/ Abort
    BY <1>3, <2>2 DEF Exit, Abort, host
  <2>3. CASE GuestStep
    BY <1>3, <2>3 DEF GuestStep, Boot, Take, Int9Key, Int9Tail, tools, host
  <2>4. CASE UNCHANGED vars
    BY <1>3, <2>4 DEF vars
  <2>5. QED
    BY <1>2, <2>1, <2>2, <2>3, <2>4 DEF Next

LEMMA QueuedType == ASSUME RingInv PROVE Queued \in Seq(Words)
<1>1. CASE ring = Unset
  BY <1>1, QueuedIs
<1>2. CASE ring # Unset
  BY <1>2, RingFacts
<1>3. QED
  BY <1>1, <1>2

LEMMA InitSent == Init => SentInv
<1> SUFFICES ASSUME Init PROVE SentInv
  OBVIOUS
<1>1. taken = <<>> /\ Queued = <<>> /\ pend = entered
  BY QueuedIs DEF Init
<1>2. pend \in Seq(Keys)
  BY InitRing DEF RingInv, TypeOK
<1>3. taken \o Queued = <<>>
  BY <1>1
<1>4. QED
  BY <1>1, <1>2, <1>3, SentEmpty, ConcatEmptySeq DEF SentInv

LEMMA NextSent ==
  ASSUME Undisturbed, QueueInv, SentInv, [Next]_vars
  PROVE  SentInv'
<1>1. RingInv /\ QueueInv' /\ Promised
  BY NextQueue DEF QueueInv, Promised
<1>2. /\ taken \in Seq(Words) /\ Queued \in Seq(Words) /\ pend \in Seq(Keys)
      /\ taken \o Queued \in Seq(Words) /\ Sent(taken \o Queued) \in Seq(Words)
      /\ pend \in Seq(Words) /\ Len(pend) \in Nat
      /\ Sent(taken \o Queued) \o pend = entered
  <2>1. taken \in Seq(Words) /\ Queued \in Seq(Words) /\ pend \in Seq(Keys)
    BY <1>1, QueuedType DEF SentInv, RingInv, TypeOK
  <2>2. taken \o Queued \in Seq(Words) /\ Keys \subseteq Words
    BY <2>1, ConcatProperties DEF Words
  <2>3. QED
    BY <2>1, <2>2, SentType, SeqMonotonic, LenProperties DEF SentInv
<1>3. CASE \E k \in Keys : /\ pend' = Append(pend, k) /\ entered' = Append(entered, k)
                           /\ UNCHANGED <<taken, mem, head, tail, ring>>
  <2>1. PICK k \in Keys : /\ pend' = Append(pend, k) /\ entered' = Append(entered, k)
                          /\ UNCHANGED <<taken, mem, head, tail, ring>>
    BY <1>3
  <2>2. Queued' = Queued
    BY <2>1, QueuedKept
  <2>3. Sent(taken \o Queued) \o Append(pend, k) = Append(Sent(taken \o Queued) \o pend, k)
    <3> DEFINE s == Sent(taken \o Queued)
    <3>1. s \in Seq(Words) /\ pend \in Seq(Words) /\ <<k>> \in Seq(Words)
      BY <1>2 DEF Words
    <3> HIDE DEF s
    <3>2. s \o (pend \o <<k>>) = (s \o pend) \o <<k>>
      BY <3>1, WordsAssociate
    <3>3. s \o pend \in Seq(Words)
      BY <3>1, ConcatProperties
    <3>4. QED
      BY <3>1, <3>2, <3>3, AppendIsConcat
  <2>4. QED
    BY <1>2, <2>1, <2>2, <2>3 DEF SentInv
<1>4. CASE entered' = entered /\ ~(\E k \in Keys : pend' = Append(pend, k))
  <2>1. CASE Promise!Take
    <3>1. Queued # <<>> /\ taken' = Append(taken, Head(Queued)) /\ Queued' = Tail(Queued) /\ pend' = pend
      BY <2>1 DEF Promise!Take
    <3>2. Head(Queued) \in Words /\ Tail(Queued) \in Seq(Words) /\ Queued = <<Head(Queued)>> \o Tail(Queued)
      BY <1>2, <3>1
    <3>3. taken' \in Seq(Words) /\ taken' \o Queued' = taken \o Queued
      <4> DEFINE x == Head(Queued)
                 q == Tail(Queued)
      <4>1. x \in Words /\ q \in Seq(Words) /\ <<x>> \in Seq(Words) /\ Queued = <<x>> \o q
        BY <3>2
      <4>2. taken' = Append(taken, x) /\ Queued' = q
        BY <3>1
      <4> HIDE DEF x, q
      <4>3. taken' = taken \o <<x>> /\ taken' \in Seq(Words)
        BY <1>2, <4>1, <4>2, AppendIsConcat, AppendProperties
      <4>4. QED
        BY <1>2, <4>1, <4>2, <4>3, WordsAssociate
    <3>4. QED
      BY <1>2, <1>4, <3>1, <3>3 DEF SentInv
  <2>2. CASE \E k \in {Typed} : Promise!Type(k)
    <3>1. Queued' = Append(Queued, Typed) /\ UNCHANGED <<pend, taken>>
      BY <2>2 DEF Promise!Type
    <3>2. taken \o Append(Queued, Typed) = Append(taken \o Queued, Typed)
      <4>1. <<Typed>> \in Seq(Words) /\ Typed \in Words
        BY DEF Words
      <4>2. taken \o (Queued \o <<Typed>>) = (taken \o Queued) \o <<Typed>>
        BY <1>2, <4>1, WordsAssociate
      <4>3. QED
        BY <1>2, <4>1, <4>2, AppendIsConcat
    <3>3. Sent(Append(taken \o Queued, Typed)) = Sent(taken \o Queued)
      BY <1>2, SentAppend DEF Words
    <3>4. QED
      BY <1>2, <1>4, <3>1, <3>2, <3>3 DEF SentInv
  <2>3. CASE \E n \in 1 .. Len(pend) : Promise!Put(n)
    <3>1. PICK n \in 1 .. Len(pend) : Promise!Put(n)
      BY <2>3
    <3> DEFINE first == SubSeq(pend, 1, n)
               rest  == SubSeq(pend, n + 1, Len(pend))
               s     == taken \o Queued
    <3>2. Queued' = Queued \o first /\ pend' = rest /\ taken' = taken
      BY <3>1 DEF Promise!Put
    <3>3. n \in Nat /\ n <= Len(pend) /\ n \in 0 .. Len(pend) /\ 1 \in 1 .. Len(pend) + 1
      BY <1>2
    <3>4. first \in Seq(Words) /\ rest \in Seq(Words) /\ first \o rest = pend
      <4>1. pend = SubSeq(pend, 1, Len(pend))
        BY <1>2, SubSeqFull
      <4>2. n \in 1 - 1 .. Len(pend) /\ Len(pend) \in n .. Len(pend)
        BY <1>2, <3>3
      <4>3. first \o rest = SubSeq(pend, 1, Len(pend))
        BY <1>2, <3>3, <4>2, ConcatAdjacentSubSeq
      <4>4. first \in Seq(Words)
        <5>1. \A i \in 1 .. n : pend[i] \in Words
          BY <1>2, <3>3, ElementOfSeq
        <5>2. QED
          BY <1>2, <3>3, <5>1, SubSeqProperties
      <4>5. rest \in Seq(Words)
        <5>1. \A i \in n + 1 .. Len(pend) : pend[i] \in Words
          BY <1>2, <3>3, ElementOfSeq
        <5>2. QED
          BY <1>2, <3>3, <5>1, SubSeqProperties
      <4>6. QED
        BY <4>1, <4>3, <4>4, <4>5
    <3>5. Sent(s \o first) = Sent(s) \o first
      BY <1>2, <3>3, SentKeys
    <3>6. taken \o (Queued \o first) = s \o first
      <4> HIDE DEF first
      <4>1. taken \in Seq(Words) /\ Queued \in Seq(Words) /\ first \in Seq(Words)
        BY <1>2, <3>4
      <4>2. (taken \o Queued) \o first = taken \o (Queued \o first)
        BY <4>1, WordsAssociate
      <4>3. QED
        BY <4>2
    <3>7. (Sent(s) \o first) \o rest = Sent(s) \o pend
      <4> HIDE DEF first, rest
      <4>1. Sent(s) \in Seq(Words) /\ first \in Seq(Words) /\ rest \in Seq(Words)
        BY <1>2, <3>4
      <4>2. (Sent(s) \o first) \o rest = Sent(s) \o (first \o rest)
        BY <4>1, WordsAssociate
      <4>3. QED
        BY <3>4, <4>2
    <3>8. QED
      BY <1>2, <1>4, <3>2, <3>5, <3>6, <3>7 DEF SentInv
  <2>4. CASE UNCHANGED <<pend, Queued, taken>>
    BY <1>2, <1>4, <2>4 DEF SentInv
  <2>5. QED
    BY <1>1, <1>4, <2>1, <2>2, <2>3, <2>4 DEF Promised, Promise!Next, Promise!Press
<1>5. QED
  BY <1>1, <1>3, <1>4, NextEntered

(* README 534-538, the reliable path that retries pending input: every key *)
(* that has left a tool's queue has reached the guest's program or waits   *)
(* in the ring, in the order in which the user gave them.                  *)
THEOREM SentKeysReachGuest ==
  ASSUME Undisturbed
  PROVE  Spec => []SentKeysArrive
<1>1. Init => QueueInv /\ SentInv
  BY InitQueue, InitSent
<1>2. QueueInv /\ SentInv /\ [Next]_vars => QueueInv' /\ SentInv'
  BY NextQueue, NextSent
<1>3. QueueInv /\ SentInv => SentKeysArrive
  BY DEF SentInv, SentKeysArrive
<1>4. QED
  BY <1>1, <1>2, <1>3, PTL DEF Spec
=============================================================================
