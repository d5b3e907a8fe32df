------------------------ MODULE GraphicsCaptureProofs ------------------------
(***************************************************************************)
(* Theorems about the capture of GraphicsCapture: what it puts together is *)
(* the guest's picture, after one fault the guest has its registers back,  *)
(* and every variable keeps its type.  They rest on RspSessionProofs,      *)
(* which says what is in flight.                                           *)
(***************************************************************************)
EXTENDS RspSessionProofs, FiniteSetTheorems

(* What the commands in flight will have done to the adapter.              *)
Effect(v, r) ==
  CASE r.op = "ib" -> AfterRead(v, r.arg[1])
    [] r.op = "ob" -> AfterWrite(v, r.arg[1], r.arg[2])
    [] OTHER       -> v

Done(v, n) == IF n \in 1 .. Len(requests) THEN Effect(v, requests[n]) ELSE v
Due == Done(Done(vga, 1), 2)

(* A command of the capture. *)
Reprograms(r) == r.op \in {"ib", "ob"} \/ (r.op = "m" /\ r.arg # None)

(* Phases of the capture. *)
Fresh    == planes = <<>> /\ palette = <<>> /\ saved = Unread /\ ~failing
Selected == {"select", "plane"}
Planar   == {"readMode", "toPlanes"} \union Selected
Picked   == {"pick", "register"}
Attributes == {"flip"} \union Picked
Coloured == {"colour", "component"}
Colour(c) == DacIndex(before.registers[Register(c)], before.registers[ModeControl],
                      before.registers[ColourSelect])

(* How far the loops are, and what they have read.                         *)
RoundInv ==
  pc \in CaptureSteps =>
    /\ failing => pc \in Puts
    /\ pc \in Selected => round \in 0 .. Planes - 1
    /\ pc \in Attributes => round \in 0 .. Colours + 1
    /\ pc \in Coloured => round \in 0 .. Colours - 1
    /\ pc \notin Selected \union Attributes \union Coloured => round = 0

Sofar(from, now, most) == IF pc \in from THEN round ELSE IF pc \in now THEN most ELSE 0
PlanesRead    == Sofar(Selected, CaptureSteps \ ({"index", "toMap", "map", "toMode", "mode"} \union Planar), Planes)
RegistersRead == Sofar(Attributes, {"putFlip", "putAttribute", "dacState", "dac", "putDac"} \union Coloured,
                       Colours + 2)
ColoursRead   == Sofar(Coloured, {"putDac"}, Colours)

PictureInv ==
  pc \in CaptureSteps /\ ~failing =>
    /\ planes = [p \in 1 .. PlanesRead |-> <<p - 1, 0>>]
    /\ saved.registers = [r \in 1 .. RegistersRead |-> before.registers[Register(r - 1)]]
    /\ palette = [c \in 1 .. ColoursRead |-> Colour(c - 1)]

Names == {"index", "map", "mode", "attribute", "flip", "registers", "dacState", "dac"}
Addressing == {0, 1} \X Nat
SavedOK(s) == /\ DOMAIN s = Names \ {"flip"} /\ s.map \in 0 .. 3 /\ s.mode \in Nat
              /\ s.attribute \in Addressing /\ s.dac \in 0 .. 255
SavedInv ==
  /\ SavedOK(saved)
  /\ pc \in CaptureSteps \ {"index"} => saved.index = before.index
  /\ pc \in {"toMode", "mode", "putModeAt", "putMode", "putMapAt", "putMap"} \union Planar =>
       saved.map = before.map
  /\ pc \in {"putModeAt", "putMode"} \union Planar => saved.mode = before.mode
  /\ pc \in {"putFlip", "putAttribute"} \union Attributes => saved.attribute = before.attribute
  /\ pc \in {"dac", "putDac"} \union Coloured => saved.dacState = before.dacState
  /\ pc \in {"putDac"} \union Coloured => saved.dac = before.dac

FreshInv ==
  /\ pc \in {"mode12"} \union CaptureSteps => tool = "screen"
  /\ pc # "idle" /\ (tool # "screen" \/ pc \notin {"detaching"} \union CaptureSteps) => Fresh

(* The adapter when everything in flight is done, as the code means it.    *)
ExactAt(at, k, d) ==
  /\ d.index = IF at \in {"toMap", "map", "toPlanes", "putMapAt", "putMap"} \union Selected THEN 4
               ELSE IF at \in {"toMode", "mode", "readMode", "putModeAt", "putMode"} THEN 5
               ELSE before.index
  /\ at \in Selected => d.map = k
  /\ at \notin Selected \union {"putModeAt", "putMode", "putMapAt"} => d.map = before.map
  /\ at \in Planar => d.mode = before.mode - (before.mode % 2)
  /\ at \notin Planar \union {"putModeAt"} => d.mode = before.mode
  /\ d.registers = before.registers /\ d.attribute[1] = before.attribute[1]
  /\ at \in Picked => d.attribute[2] = Register(k)
  /\ at \notin Attributes \union {"putFlip"} => d.attribute = before.attribute
  /\ at \in {"flip", "putFlip"} => d.flip = "index"
  /\ at = "colour" => d.dac = Colour(k)
  /\ at \notin Coloured => d.dac = before.dac /\ d.dacState = before.dacState

Exact(d) == ExactAt(pc, round, d)

(* And as the step may have left it that has failed.                       *)
RoughAt(at, d) ==
  /\ at \notin {"toMap", "map", "toMode", "mode"} \union Planar => d.index = before.index
  /\ at \notin Planar => d.map = before.map /\ d.mode = before.mode
  /\ d.registers = before.registers /\ d.attribute[1] = before.attribute[1]
  /\ at \notin Attributes => d.attribute = before.attribute
  /\ at \notin Coloured => d.dac = before.dac /\ d.dacState = before.dacState

Rough(d) == RoughAt(pc, d)

Value ==
  CASE pc = "index"     -> before.index
    [] pc = "map"       -> before.map
    [] pc = "mode"      -> before.mode
    [] pc = "plane"     -> <<round, 0>>
    [] pc = "attribute" -> before.attribute
    [] pc = "register"  -> before.registers[Register(round)]
    [] pc = "dacState"  -> before.dacState
    [] pc = "dac"       -> before.dac
    [] pc = "component" -> Colour(round)
    [] OTHER            -> Reply.val

(* No step has failed yet, or the news of it is still to be read.          *)
FlowInv ==
  pc \in CaptureSteps /\ ~failing /\ ~gone =>
    /\ vga.registers = before.registers /\ vga.attribute[1] = before.attribute[1]
    /\ IF struck = {}
       THEN /\ Exact(Due)
            /\ replies # <<>> => Reply.kind \in Good(Asked(pc)) /\ Reply.val = Value /\ "kind" \in DOMAIN Reply
            /\ replies = <<>> /\ pc = "component" => vga.dac = Colour(round)
            /\ replies = <<>> /\ pc \in {"pick", "putAttribute"} => vga.flip = "index"
       ELSE /\ struck = {<<pc, "rejected">>} /\ requests = <<>> /\ Reply.kind = "err"
            /\ pc \notin Puts => Rough(vga)

(* The fields of the adapter. *)
StateOK(v) == /\ DOMAIN v = Names /\ v.map \in 0 .. 3 /\ v.mode \in Nat
              /\ v.attribute \in Addressing /\ v.registers \in [Registers -> Nat]
              /\ v.flip \in {"index", "data"} /\ v.dacState \in {"read", "write"}
              /\ v.dac \in 0 .. 255
VgaInv == StateOK(vga) /\ StateOK(before)

Sessions == (Waiting \ {"detaching"}) \union {"pausing"}
QuietInv ==
  pc \in Sessions =>
    /\ vga = before /\ struck = {}
    /\ \A n \in 1 .. Len(requests) : ~Reprograms(requests[n])

(* Every request has the fields that it is handled by. *)
Shaped(r) == /\ DOMAIN r = {"op", "arg", "late"}
             /\ r.op = "ob" => r.arg[1] \in {"graphicsIndex", "graphicsData", "attribute", "dacState", "dacIndex"}
             /\ r.op = "ob" /\ r.arg[1] = "graphicsData" => r.arg[2] \in Nat
             /\ r.op = "ob" /\ r.arg[1] = "attribute" => r.arg[2] \in Addressing
             /\ r.op = "ob" /\ r.arg[1] \in {"dacState", "dacIndex"} => r.arg[2] \in 0 .. 255
             /\ r.op = "Z1" => r.arg \in Addresses
ShapeInv == \A n \in 1 .. Len(requests) : Shaped(requests[n])

CInv == ShapeInv /\ VgaInv /\ QuietInv /\ FreshInv /\ RoundInv /\ SavedInv /\ PictureInv /\ FlowInv

(* One fault. *)
Harmless(v, r) == r.op = "ob" /\ r.arg[1] = "attribute" =>
                    v.flip = "index" /\ r.arg[2][1] = before.attribute[1]
SafeInv ==
  /\ vga.registers = before.registers /\ vga.attribute[1] = before.attribute[1]
  /\ requests # <<>> => Harmless(vga, requests[1])
  /\ Len(requests) > 1 => Harmless(Done(vga, 1), requests[2])

Back(d) ==
  OffGuard = {} =>
    /\ \A f \in DOMAIN before \ {"attribute", "flip"} : d[f] = before[f]
    /\ d.attribute = before.attribute \/ <<"pick", "late">> \in struck

BackInv ==
  pc \notin CaptureSteps /\ ~gone =>
    /\ \A n \in 2 .. Len(requests) : ~Reprograms(requests[n])
    /\ struck = {} => \A n \in 1 .. Len(requests) : ~Reprograms(requests[n])
    /\ Back(Due)

FinallyInv ==
  pc \in CaptureSteps /\ failing /\ ~gone =>
    /\ Still /\ struck # {} /\ OffGuard = {}
    /\ Len(requests) + Len(replies) \in {1, 2}
    /\ \A n \in 1 .. Len(requests) : \/ requests[n].op \in {"ib", "ob"}
                                     \/ requests[n].op = "m" /\ requests[n].arg = "plane"
    /\ \A n \in 1 .. Len(replies) : replies[n].kind \in {"ok", "out", "hex"}
    /\ pc = "putFlip" => \/ <<"pick", "late">> \in struck
                         \/ IF replies # <<>> THEN Reply.kind = "out" ELSE requests[1].op = "ib"
    /\ Exact(Due)

OneFault == struck = {} \/ \E fault : struck = {fault}

RInv == SafeInv /\ BackInv /\ FinallyInv /\ OneFault

-----------------------------------------------------------------------------
(* What the commands of the capture do to the adapter. *)
Data(at, k, s) == CASE at = "readMode" -> s.mode - (s.mode % 2)
                    [] at = "select"   -> k
                    [] at = "putMode"  -> s.mode
                    [] at = "putMap"   -> s.map
Stores == {"readMode", "select", "putMode", "putMap"}

(* What a command writes fits the register. *)
Fitting(at, k, s) ==
  /\ at \in Stores => Data(at, k, s) \in Nat
  /\ at = "pick" => <<s.attribute[1], Register(k)>> \in Addressing
  /\ at = "putAttribute" => s.attribute \in Addressing
  /\ at = "colour" => DacIndex(s.registers[k + 1], s.registers[Colours + 1], s.registers[Colours + 2])
                         \in 0 .. 255
  /\ at = "putDac" => s.dac \in 0 .. 255

LEMMA PutFits ==
  ASSUME NEW at, at \notin {"readMode", "select", "pick", "colour"}, NEW k, NEW s, SavedOK(s)
  PROVE  Fitting(at, k, s)
<1>1. /\ s.map \in Nat /\ s.mode \in Nat
      /\ s.attribute \in Addressing /\ s.dac \in 0 .. 255
  BY DEF SavedOK
<1>2. at \in Stores => Data(at, k, s) \in Nat
  BY <1>1 DEF Stores, Data
<1> QED
  BY <1>1, <1>2 DEF Fitting

LEMMA UnreadOK == SavedOK(Unread)
<1>1. <<0, 0>> \in Addressing
  BY DEF Addressing
<1> QED
  BY <1>1 DEF SavedOK, Unread, Names

(* The DAC's table has 256 colours. *)
LEMMA DacRange ==
  ASSUME NEW value \in Nat, NEW control \in Nat, NEW select \in Nat
  PROVE  DacIndex(value, control, select) \in 0 .. 255
<1> DEFINE middle == IF (control \div 128) % 2 = 1 THEN select % 4 ELSE (value \div 16) % 4
<1>1. middle \in 0 .. 3
  OBVIOUS
<1> HIDE DEF middle
<1>2. (select \div 4) % 4 \in 0 .. 3 /\ value % 16 \in 0 .. 15
  OBVIOUS
<1>3. \A a \in 0 .. 3, b \in 0 .. 3, c \in 0 .. 15 : 64 * a + 16 * b + c \in 0 .. 255
  OBVIOUS
<1>4. DacIndex(value, control, select) = 64 * ((select \div 4) % 4) + 16 * middle + (value % 16)
  BY DEF DacIndex, middle
<1> QED
  BY <1>1, <1>2, <1>3, <1>4

LEMMA ColourRange ==
  ASSUME VgaInv, NEW k \in 0 .. Colours - 1
  PROVE  Colour(k) \in 0 .. 255
<1>1. k \in Registers /\ Register(k) = k /\ ModeControl \in Registers /\ ColourSelect \in Registers
  BY CaptureBounds DEF Registers, Register, ModeControl, ColourSelect
<1>2. /\ before.registers[Register(k)] \in Nat /\ before.registers[ModeControl] \in Nat
      /\ before.registers[ColourSelect] \in Nat
  BY <1>1 DEF VgaInv, StateOK
<1> QED
  BY <1>2, DacRange DEF Colour

(* A request that takes the place of another is as well formed. *)
LEMMA SameShape ==
  ASSUME NEW a, NEW b, Shaped(a), DOMAIN b = DOMAIN a, b.op = a.op, b.arg = a.arg
  PROVE  Shaped(b)
BY DEF Shaped

LEMMA Programs ==
  ASSUME NEW at \in CaptureSteps, NEW k, NEW s, NEW v, DOMAIN v = Names,
         at \in {"pick", "putAttribute"} => v.flip = "index",
         NEW r, r = Command(at, k, s)[1], NEW e, e = Effect(v, r)
  PROVE  /\ DOMAIN e = Names
         /\ e.index = IF at \in {"toMap", "toPlanes", "putMapAt"} THEN 4
                      ELSE IF at \in {"toMode", "putModeAt"} THEN 5
                      ELSE IF at = "putIndex" THEN s.index ELSE v.index
         /\ e.map = IF at \in Stores /\ v.index = 4 THEN Data(at, k, s) % 4 ELSE v.map
         /\ e.mode = IF at \in Stores /\ v.index # 4 THEN Data(at, k, s) ELSE v.mode
         /\ e.attribute = IF at = "pick" THEN <<s.attribute[1], Register(k)>>
                          ELSE IF at = "putAttribute" THEN s.attribute ELSE v.attribute
         /\ e.flip = IF at \in {"flip", "putFlip"} THEN "index"
                     ELSE IF at \in {"pick", "putAttribute"} THEN "data" ELSE v.flip
         /\ e.registers = v.registers
         /\ at = "colour" => e.dac = DacIndex(s.registers[k + 1], s.registers[Colours + 1],
                                              s.registers[Colours + 2])
         /\ at = "putDac" =>
              e.dac = s.dac /\ e.dacState = IF s.dacState = "read" THEN "read" ELSE "write"
         /\ at \notin Coloured \union {"putDac"} => e.dac = v.dac /\ e.dacState = v.dacState
<1> USE DEF Names
<1>1. CASE at \in {"toMap", "toPlanes", "putMapAt", "toMode", "putModeAt", "putIndex"}
  <2>1. r.op = "ob" /\ r.arg[1] = "graphicsIndex"
        /\ r.arg[2] = IF at \in {"toMap", "toPlanes", "putMapAt"} THEN 4
                      ELSE IF at \in {"toMode", "putModeAt"} THEN 5 ELSE s.index
    BY <1>1 DEF Command, Ob, Request
  <2>2. e = [v EXCEPT !.index = r.arg[2]]
    BY <2>1 DEF Effect, AfterWrite
  <2> QED
    BY <1>1, <2>1, <2>2 DEF Stores, Coloured
<1>2. CASE at \in Stores
  <2>1. r.op = "ob" /\ r.arg[1] = "graphicsData" /\ r.arg[2] = Data(at, k, s)
    BY <1>2 DEF Command, Ob, Request, Data, Stores
  <2>2. e = IF v.index = 4 THEN [v EXCEPT !.map = r.arg[2] % 4] ELSE [v EXCEPT !.mode = r.arg[2]]
    BY <2>1 DEF Effect, AfterWrite
  <2> QED
    BY <1>2, <2>1, <2>2 DEF Stores, Coloured
<1>3. CASE at \in {"index", "map", "mode", "plane", "attribute", "register", "dacState", "dac"}
  <2>1. CASE at = "plane"
    <3>1. r.op = "m"
      BY <2>1 DEF Command, Request
    <3>2. e = v
      BY <3>1 DEF Effect
    <3> QED
      BY <2>1, <3>2 DEF Stores, Coloured
  <2>2. CASE at # "plane"
    <3>1. r.op = "ib" /\ r.arg[1] \in {"graphicsIndex", "graphicsData", "attribute",
                                       "attributeData", "dacState", "dacIndex"}
      BY <1>3, <2>2 DEF Command, Ib, Request
    <3>2. e = v
      BY <3>1 DEF Effect, AfterRead
    <3> QED
      BY <1>3, <2>2, <3>2 DEF Stores, Coloured
  <2> QED
    BY <2>1, <2>2
<1>4. CASE at \in {"flip", "putFlip"}
  <2>1. r.op = "ib" /\ r.arg[1] = "inputStatus"
    BY <1>4 DEF Command, Ib, Request
  <2>2. e = [v EXCEPT !.flip = "index"]
    BY <2>1 DEF Effect, AfterRead
  <2> QED
    BY <1>4, <2>2 DEF Stores, Coloured
<1>5. CASE at \in {"pick", "putAttribute"}
  <2>1. r.op = "ob" /\ r.arg[1] = "attribute"
        /\ r.arg[2] = IF at = "pick" THEN <<s.attribute[1], Register(k)>> ELSE s.attribute
    BY <1>5 DEF Command, Ob, Request
  <2>2. e = [v EXCEPT !.attribute = r.arg[2], !.flip = "data"]
    BY <1>5, <2>1 DEF Effect, AfterWrite
  <2> QED
    BY <1>5, <2>1, <2>2 DEF Stores, Coloured
<1>6. CASE at = "colour"
  <2>1. r.op = "ob" /\ r.arg[1] = "dacState"
        /\ r.arg[2] = DacIndex(s.registers[k + 1], s.registers[Colours + 1], s.registers[Colours + 2])
    BY <1>6 DEF Command, Ob, Request
  <2>2. e = [v EXCEPT !.dac = r.arg[2], !.dacState = "read"]
    BY <2>1 DEF Effect, AfterWrite
  <2> QED
    BY <1>6, <2>1, <2>2 DEF Stores, Coloured
<1>7. CASE at = "putDac"
  <2>1. r.op = "ob" /\ r.arg[2] = s.dac
        /\ r.arg[1] = IF s.dacState = "read" THEN "dacState" ELSE "dacIndex"
    BY <1>7 DEF Command, Ob, Request
  <2>2. e = [v EXCEPT !.dac = r.arg[2], !.dacState = IF s.dacState = "read" THEN "read" ELSE "write"]
    BY <2>1 DEF Effect, AfterWrite
  <2> QED
    BY <1>7, <2>1, <2>2 DEF Stores, Coloured
<1>8. CASE at = "component"
  <2>1. r.op = "ib" /\ r.arg[1] = "dacData"
    BY <1>8 DEF Command, Ib, Request
  <2>2. e = [v EXCEPT !.dac = (v.dac + 1) % 256]
    BY <2>1 DEF Effect, AfterRead
  <2> QED
    BY <1>8, <2>2 DEF Stores, Coloured
<1> QED
  BY <1>1, <1>2, <1>3, <1>4, <1>5, <1>6, <1>7, <1>8, Places DEF Stores

-----------------------------------------------------------------------------
(* The queue. *)
Quiet(q) == \A n \in 1 .. Len(q) : ~Reprograms(q[n])

LEMMA NotEmpty == \A s : Len(s) \in Nat \ {0} => s # <<>>
<1> SUFFICES ASSUME NEW s, Len(s) \in Nat \ {0} PROVE s # <<>>
  OBVIOUS
<1>1. Len(<<>>) = 0
  OBVIOUS
<1>2. s = <<>> => Len(s) = Len(<<>>)
  BY Zenon
<1> QED
  BY <1>1, <1>2

LEMMA Quietly ==
  ASSUME NEW n, n \in 1 .. Len(requests) => ~Reprograms(requests[n]), NEW v
  PROVE  Done(v, n) = v
BY DEF Done, Effect, Reprograms

LEMMA SameCommand ==
  ASSUME NEW r, DOMAIN r = {"op", "arg", "late"}, NEW v
  PROVE  LET l == [r EXCEPT !.late = TRUE]
         IN  /\ l.op = r.op /\ l.arg = r.arg /\ DOMAIN l = DOMAIN r
             /\ Effect(v, l) = Effect(v, r)
<1> DEFINE l == [r EXCEPT !.late = TRUE]
<1>1. l.op = r.op /\ l.arg = r.arg /\ DOMAIN l = DOMAIN r
  OBVIOUS
<1> HIDE DEF l
<1>2. Effect(v, l) = Effect(v, r)
  BY <1>1 DEF Effect
<1> QED
  BY <1>1, <1>2 DEF l

(* Requests are added, and those before them may have become late. *)
LEMMA Added ==
  ASSUME WellFormed(requests), WellFormed(replies), ShapeInv, NEW q, WellFormed(q),
         requests' \in {requests \o q, Overdue \o q}
  PROVE  /\ WellFormed(requests') /\ Len(requests') = Len(requests) + Len(q)
         /\ \A n \in 1 .. Len(requests) :
              /\ requests'[n].op = requests[n].op /\ requests'[n].arg = requests[n].arg
              /\ DOMAIN requests'[n] = DOMAIN requests[n]
              /\ \A v : Effect(v, requests'[n]) = Effect(v, requests[n])
         /\ \A n \in 1 .. Len(q) : requests'[Len(requests) + n] = q[n]
<1>1. CASE requests' = requests \o q
  BY <1>1, ConcatFormed
<1>2. CASE requests' = Overdue \o q
  <2>1. PICK base : base = Overdue
    OBVIOUS
  <2>2. /\ WellFormed(base) /\ Len(base) = Len(requests)
        /\ \A i \in 1 .. Len(requests) : base[i] = [requests[i] EXCEPT !.late = TRUE]
    BY <2>1, OverdueFormed
  <2>3. requests' = base \o q
    BY <1>2, <2>1
  <2>4. /\ WellFormed(requests') /\ Len(requests') = Len(base) + Len(q)
        /\ \A i \in 1 .. Len(base) : requests'[i] = base[i]
        /\ \A i \in 1 .. Len(q) : requests'[Len(base) + i] = q[i]
    BY <2>2, <2>3, ConcatFormed
  <2>5. ASSUME NEW n \in 1 .. Len(requests)
        PROVE  /\ requests'[n].op = requests[n].op /\ requests'[n].arg = requests[n].arg
               /\ DOMAIN requests'[n] = DOMAIN requests[n]
               /\ \A v : Effect(v, requests'[n]) = Effect(v, requests[n])
    <3>1. requests'[n] = [requests[n] EXCEPT !.late = TRUE]
      BY <2>2, <2>4
    <3>2. DOMAIN requests[n] = {"op", "arg", "late"}
      BY DEF ShapeInv, Shaped
    <3> QED
      BY <3>1, <3>2, SameCommand
  <2> QED
    BY <2>2, <2>4, <2>5
<1> QED
  BY <1>1, <1>2

LEMMA AddedQuietly ==
  ASSUME WellFormed(requests), WellFormed(replies), ShapeInv, NEW q, WellFormed(q), Quiet(q),
         \A n \in 1 .. Len(q) : Shaped(q[n]),
         requests' \in {requests \o q, Overdue \o q}
  PROVE  /\ WellFormed(requests') /\ ShapeInv'
         /\ Quiet(requests) => Quiet(requests')
         /\ (\A n \in 2 .. Len(requests) : ~Reprograms(requests[n])) =>
              /\ \A n \in 2 .. Len(requests') : ~Reprograms(requests'[n])
              /\ vga' = vga => Due' = Due
              /\ UNCHANGED <<vga, before>> /\ SafeInv => SafeInv'
<1>1. /\ WellFormed(requests') /\ Len(requests') = Len(requests) + Len(q)
      /\ Len(requests) \in Nat /\ Len(q) \in Nat
      /\ \A n \in 1 .. Len(requests) :
           /\ requests'[n].op = requests[n].op /\ requests'[n].arg = requests[n].arg
           /\ DOMAIN requests'[n] = DOMAIN requests[n]
           /\ \A v : Effect(v, requests'[n]) = Effect(v, requests[n])
      /\ \A n \in 1 .. Len(q) : requests'[Len(requests) + n] = q[n]
  BY Added DEF WellFormed
<1>2. ASSUME NEW n \in 1 .. Len(requests')
      PROVE  \/ n > Len(requests) /\ ~Reprograms(requests'[n]) /\ Shaped(requests'[n])
             \/ /\ n \in 1 .. Len(requests)
                /\ requests'[n].op = requests[n].op /\ requests'[n].arg = requests[n].arg
                /\ Shaped(requests'[n])
                /\ \A v : Effect(v, requests'[n]) = Effect(v, requests[n])
  <2>1. CASE n <= Len(requests)
    <3>1. /\ n \in 1 .. Len(requests)
          /\ requests'[n].op = requests[n].op /\ requests'[n].arg = requests[n].arg
          /\ DOMAIN requests'[n] = DOMAIN requests[n] /\ Shaped(requests[n])
      BY <1>1, <2>1 DEF ShapeInv
    <3>2. Shaped(requests'[n])
      BY <3>1 DEF Shaped
    <3>3. DOMAIN requests'[n] = {"op", "arg", "late"}
      BY <3>2 DEF Shaped
    <3> QED
      BY <1>1, <3>1, <3>2, <3>3
  <2>2. CASE n > Len(requests)
    <3> DEFINE i == n - Len(requests)
    <3>1. i \in 1 .. Len(q) /\ n = Len(requests) + i
      BY <1>1, <2>2
    <3>2. requests'[n] = q[i]
      BY <1>1, <3>1
    <3> QED
      BY <2>2, <3>1, <3>2 DEF Quiet
  <2> QED
    BY <1>1, <2>1, <2>2
<1>3. ShapeInv'
  BY <1>1, <1>2 DEF ShapeInv
<1>4. Quiet(requests) => Quiet(requests')
  BY <1>1, <1>2 DEF Quiet, Reprograms
<1>5. ASSUME \A n \in 2 .. Len(requests) : ~Reprograms(requests[n])
      PROVE  /\ \A n \in 2 .. Len(requests') : ~Reprograms(requests'[n])
             /\ vga' = vga => Due' = Due
             /\ UNCHANGED <<vga, before>> /\ SafeInv => SafeInv'
  <2>1. \A n \in 2 .. Len(requests') : ~Reprograms(requests'[n])
    BY <1>1, <1>2, <1>5 DEF Reprograms
  <2>2. 2 \in 1 .. Len(requests') => ~Reprograms(requests'[2])
    BY <1>1, <2>1
  <2>3. 2 \in 1 .. Len(requests) => ~Reprograms(requests[2])
    BY <1>1, <1>5
  <2>4. Due = Done(vga, 1)
    BY <2>3, Quietly DEF Due
  <2>5. Due' = (Done(vga, 1))'
    BY <2>2 DEF Due, Done, Effect, Reprograms
  <2>6. ASSUME vga' = vga PROVE (Done(vga, 1))' = Done(vga, 1)
    <3>1. CASE 1 \in 1 .. Len(requests)
      BY <1>1, <1>2, <2>6, <3>1 DEF Done
    <3>2. CASE 1 \notin 1 .. Len(requests) /\ 1 \in 1 .. Len(requests')
      <4>1. ~Reprograms(requests'[1])
        BY <1>1, <1>2, <3>2
      <4> QED
        BY <2>6, <3>2, <4>1 DEF Done, Effect, Reprograms
    <3>3. CASE 1 \notin 1 .. Len(requests')
      BY <1>1, <2>6, <3>3 DEF Done
    <3> QED
      BY <3>1, <3>2, <3>3
  <2>7. ASSUME UNCHANGED <<vga, before>>, SafeInv PROVE SafeInv'
    <3>1. Len(requests') > 1 => 2 \in 1 .. Len(requests')
      BY <1>1
    <3>2. requests' # <<>> => 1 \in 1 .. Len(requests')
      BY <1>1, TailFormed
    <3>3. ~Reprograms(requests'[2]) => (Harmless(Done(vga, 1), requests[2]))'
      BY DEF Harmless, Reprograms
    <3>4. requests' # <<>> => (Harmless(vga, requests[1]))'
      <4>1. 1 \in 1 .. Len(requests) => requests # <<>>
        OBVIOUS
      <4> QED
        BY <1>2, <2>7, <3>2, <4>1 DEF Harmless, SafeInv, Reprograms
    <3> QED
      BY <2>2, <2>7, <3>1, <3>3, <3>4 DEF SafeInv
  <2> QED
    BY <2>1, <2>4, <2>5, <2>6, <2>7
<1> QED
  BY <1>1, <1>3, <1>4, <1>5

(* One more command of the capture. *)
LEMMA AddedCommand ==
  ASSUME WellFormed(requests), WellFormed(replies), ShapeInv, UNCHANGED <<vga, before>>,
         Len(requests) <= 1, NEW r, Shaped(r),
         requests' \in {requests \o <<r>>, Overdue \o <<r>>}
  PROVE  /\ WellFormed(requests') /\ Len(requests') = Len(requests) + 1
         /\ Due' = Effect(Due, r)
         /\ SafeInv /\ Harmless(Due, r) => SafeInv'
         /\ ShapeInv'
         /\ \A n \in 1 .. Len(requests') : \/ requests'[n] = r
                                           \/ /\ n = 1 /\ n \in 1 .. Len(requests)
                                              /\ requests'[n].op = requests[n].op
                                              /\ requests'[n].arg = requests[n].arg
<1> DEFINE q == <<r>>
<1>1. WellFormed(q) /\ Len(q) = 1 /\ q[1] = r
  BY Tuples
<1> HIDE DEF q
<1>2. /\ WellFormed(requests') /\ Len(requests') = Len(requests) + 1 /\ Len(requests) \in {0, 1}
      /\ \A n \in 1 .. Len(requests) :
           /\ requests'[n].op = requests[n].op /\ requests'[n].arg = requests[n].arg
           /\ DOMAIN requests'[n] = DOMAIN requests[n]
           /\ \A v : Effect(v, requests'[n]) = Effect(v, requests[n])
      /\ requests'[Len(requests) + 1] = r
  <2>1. requests' \in {requests \o q, Overdue \o q}
    BY DEF q
  <2>2. /\ WellFormed(requests') /\ Len(requests') = Len(requests) + Len(q)
        /\ \A n \in 1 .. Len(requests) :
             /\ requests'[n].op = requests[n].op /\ requests'[n].arg = requests[n].arg
             /\ DOMAIN requests'[n] = DOMAIN requests[n]
             /\ \A v : Effect(v, requests'[n]) = Effect(v, requests[n])
        /\ \A n \in 1 .. Len(q) : requests'[Len(requests) + n] = q[n]
    BY <1>1, <2>1, Added
  <2> QED
    BY <1>1, <2>2 DEF WellFormed
<1>3. CASE Len(requests) = 0
  <2>1. Due = vga /\ Due' = Effect(Due, r) /\ requests'[1] = r /\ Len(requests') = 1
    BY <1>2, <1>3 DEF Due, Done
  <2>2. SafeInv /\ Harmless(Due, r) => SafeInv'
    BY <2>1 DEF SafeInv, Harmless
  <2>3. ShapeInv'
    BY <2>1 DEF ShapeInv
  <2>4. \A n \in 1 .. Len(requests') : requests'[n] = r
    BY <2>1
  <2>5. WellFormed(requests') /\ Len(requests') = Len(requests) + 1
    BY <1>2
  <2> QED
    BY <2>1, <2>2, <2>3, <2>4, <2>5
<1>4. CASE Len(requests) = 1
  <2>1. /\ 1 \in 1 .. Len(requests) /\ 2 \notin 1 .. Len(requests) /\ requests # <<>>
        /\ 1 \in 1 .. Len(requests') /\ 2 \in 1 .. Len(requests') /\ requests'[2] = r /\ Len(requests') = 2
    <3>1. Len(requests') = 2 /\ requests'[2] = r
      BY <1>2, <1>4
    <3>2. requests # <<>>
      <4>1. Len(requests) \in Nat \ {0}
        BY <1>4
      <4> QED
        BY <4>1, NotEmpty, Zenon
    <3> QED
      BY <1>4, <3>1, <3>2
  <2>2. requests'[1].op = requests[1].op /\ requests'[1].arg = requests[1].arg
        /\ \A v : Effect(v, requests'[1]) = Effect(v, requests[1])
        /\ Shaped(requests'[1])
    <3>1. Shaped(requests[1])
      BY <2>1 DEF ShapeInv
    <3> QED
      BY <1>2, <2>1, <3>1, SameShape
  <2>3. Due = Effect(vga, requests[1]) /\ (Done(vga, 1))' = Due /\ Due' = Effect(Due, r)
    BY <2>1, <2>2 DEF Due, Done
  <2>4. SafeInv /\ Harmless(Due, r) => SafeInv'
    BY <2>1, <2>2, <2>3 DEF SafeInv, Harmless
  <2>5. ShapeInv'
    <3>1. \A n \in 1 .. Len(requests') : n = 1 \/ n = 2
      BY <2>1
    <3> QED
      BY <2>1, <2>2, <3>1 DEF ShapeInv
  <2>6. \A n \in 1 .. Len(requests') : n = 1 \/ n = 2
    BY <2>1
  <2> QED
    BY <1>2, <1>4, <2>1, <2>2, <2>3, <2>4, <2>5, <2>6
<1> QED
  BY <1>2, <1>3, <1>4

(* The first request is done. *)
LEMMA DoneFirst ==
  ASSUME WellFormed(requests), ShapeInv, requests # <<>>, requests' = Tail(requests),
         vga' = Effect(vga, requests[1]), before' = before
  PROVE  /\ WellFormed(requests') /\ ShapeInv' /\ Len(requests') = Len(requests) - 1
         /\ Len(requests) \in Nat \ {0}
         /\ \A n \in 1 .. Len(requests') : requests'[n] = requests[n + 1]
         /\ (3 \in 1 .. Len(requests) => ~Reprograms(requests[3])) => Due' = Due
         /\ SafeInv /\ (3 \in 1 .. Len(requests) => ~Reprograms(requests[3])) /\ DOMAIN vga = Names =>
              SafeInv'
<1>1. /\ WellFormed(requests') /\ Len(requests') = Len(requests) - 1 /\ Len(requests) \in Nat \ {0}
      /\ \A i \in 1 .. Len(requests) - 1 : requests'[i] = requests[i + 1]
  BY Taken
<1>2. ShapeInv' /\ \A n \in 1 .. Len(requests') : requests'[n] = requests[n + 1]
  <2>1. \A n \in 1 .. Len(requests') : requests'[n] = requests[n + 1] /\ n + 1 \in 1 .. Len(requests)
    BY <1>1
  <2> QED
    BY <2>1 DEF ShapeInv
<1>3. vga' = Done(vga, 1)
  BY <1>1 DEF Done
<1>4. \A v : 2 \in 1 .. Len(requests) => Done(v, 2) = Effect(v, requests'[1]) /\ 1 \in 1 .. Len(requests')
  BY <1>1 DEF Done
<1>5. (Done(vga, 1))' = Due
  <2>1. CASE 2 \in 1 .. Len(requests)
    BY <1>3, <1>4, <2>1 DEF Due, Done
  <2>2. CASE 2 \notin 1 .. Len(requests)
    <3>1. 1 \notin 1 .. Len(requests')
      BY <1>1, <2>2
    <3> QED
      BY <1>3, <2>2, <3>1 DEF Due, Done
  <2> QED
    BY <2>1, <2>2
<1>6. ASSUME 3 \in 1 .. Len(requests) => ~Reprograms(requests[3])
      PROVE  Due' = Due /\ (2 \in 1 .. Len(requests') => ~Reprograms(requests'[2]))
  <2>1. 2 \in 1 .. Len(requests') => ~Reprograms(requests'[2])
    BY <1>1, <1>6
  <2>2. Due' = (Done(vga, 1))'
    BY <2>1 DEF Due, Done, Effect, Reprograms
  <2> QED
    BY <1>5, <2>1, <2>2
<1>7. ASSUME SafeInv, 3 \in 1 .. Len(requests) => ~Reprograms(requests[3]), DOMAIN vga = Names PROVE SafeInv'
  <2>1. Len(requests') > 1 => (Harmless(Done(vga, 1), requests[2]))'
    <3>1. Len(requests') > 1 => 2 \in 1 .. Len(requests')
      BY <1>1
    <3> QED
      BY <1>6, <1>7, <3>1 DEF Harmless, Reprograms
  <2>2. requests' # <<>> => (Harmless(vga, requests[1]))'
    <3>1. requests' # <<>> => Len(requests) > 1 /\ requests'[1] = requests[2]
      <4>1. requests' # <<>> => Len(requests') > 0
        BY <1>1, TailFormed
      <4> QED
        BY <1>1, <4>1
    <3> QED
      BY <1>3, <1>7, <3>1 DEF SafeInv, Harmless
  <2>3. vga'.registers = before'.registers /\ vga'.attribute[1] = before'.attribute[1]
    <3> DEFINE r == requests[1]
    <3>1. vga' = Effect(vga, r) /\ Harmless(vga, r) /\ DOMAIN vga = Names
      BY <1>7 DEF SafeInv
    <3> HIDE DEF r
    <3>2. vga.registers = before.registers /\ vga.attribute[1] = before.attribute[1]
      BY <1>7 DEF SafeInv
    <3> DEFINE port == r.arg[1]
               val  == r.arg[2]
    <3>3. CASE r.op = "ib"
      BY <3>1, <3>2, <3>3 DEF Effect, AfterRead, Names
    <3>4. CASE r.op = "ob"
      <4>1. vga' = AfterWrite(vga, port, val)
        BY <3>1, <3>4 DEF Effect
      <4>2. port \in {"graphicsIndex", "graphicsData", "attribute", "dacState", "dacIndex"}
            /\ (port = "attribute" => vga.flip = "index" /\ val[1] = before.attribute[1])
        BY <1>1, <3>1, <3>4 DEF ShapeInv, Shaped, Harmless, r
      <4> HIDE DEF port, val
      <4>3. CASE port = "graphicsIndex"
        BY <3>1, <3>2, <4>1, <4>3 DEF AfterWrite, Names
      <4>4. CASE port = "graphicsData"
        <5>1. vga' = [vga EXCEPT !.map = val % 4] \/ vga' = [vga EXCEPT !.mode = val]
          BY <4>1, <4>4 DEF AfterWrite
        <5> QED
          BY <3>1, <3>2, <5>1 DEF Names
      <4>5. CASE port = "attribute"
        <5>1. vga' = [vga EXCEPT !.attribute = val, !.flip = "data"]
          BY <4>1, <4>2, <4>5 DEF AfterWrite
        <5> QED
          BY <3>1, <3>2, <4>2, <4>5, <5>1 DEF Names
      <4>6. CASE port \in {"dacState", "dacIndex"}
        <5>1. \E st : vga' = [vga EXCEPT !.dac = val, !.dacState = st]
          BY <4>1, <4>6 DEF AfterWrite
        <5> QED
          BY <3>1, <3>2, <5>1 DEF Names
      <4> QED
        BY <4>2, <4>3, <4>4, <4>5, <4>6
    <3>5. CASE r.op \notin {"ib", "ob"}
      BY <3>1, <3>2, <3>5 DEF Effect
    <3> QED
      BY <3>3, <3>4, <3>5
  <2> QED
    BY <2>1, <2>2, <2>3 DEF SafeInv
<1> QED
  BY <1>1, <1>2, <1>6, <1>7

-----------------------------------------------------------------------------
(* The session around the capture: none of its requests is for the         *)
(* adapter, and the capture is not entered by it.                          *)
Ops == {"03", "?", "m", "M", "Z1", "z1", "c", "D"}
Serves(op, arg) == (op = "m" => arg = None) /\ (op = "Z1" => arg \in Addresses)
Asks(q)  == q = <<>> \/ \E op \in Ops : \E arg : Serves(op, arg) /\ q = <<Request(op, arg)>>
Sends(q) == requests' \in {requests \o q, Overdue \o q}

Moves ==
  /\ UNCHANGED <<tool, gone>>
  /\ pc \notin CaptureSteps \union {"idle"}
  /\ pc' \in (Apart \union Waiting \union {"pausing"}) \ {"mode12"}
  /\ pc' = "connect" => pc = "checked"
  /\ pc' = "checked" => tool = "wait-screen"
  /\ pc' \in Sessions => pc \in Sessions
  /\ pc' = "detaching" => pc \in Sessions
  /\ \E q : Asks(q) /\ Sends(q)

LEMMA AsksQuietly ==
  ASSUME NEW q, Asks(q)
  PROVE  WellFormed(q) /\ Quiet(q) /\ (\A n \in 1 .. Len(q) : Shaped(q[n])) /\ Len(q) \in {0, 1}
<1>1. CASE q = <<>>
  <2>1. Len(q) = 0
    BY <1>1
  <2> QED
    <3>1. WellFormed(q)
      BY <1>1, Tuples
    <3>2. \A n \in 1 .. Len(q) : FALSE
      BY <2>1
    <3> QED
      BY <2>1, <3>1, <3>2 DEF Quiet
<1>2. ASSUME NEW op \in Ops, NEW arg, Serves(op, arg), q = <<Request(op, arg)>>
      PROVE  WellFormed(q) /\ Quiet(q) /\ (\A n \in 1 .. Len(q) : Shaped(q[n])) /\ Len(q) \in {0, 1}
  <2> DEFINE r == Request(op, arg)
  <2>1. Shaped(r) /\ ~Reprograms(r)
    BY <1>2 DEF Shaped, Reprograms, Request, Ops, Serves
  <2> HIDE DEF r
  <2>2. Len(q) = 1 /\ q[1] = r
    BY <1>2 DEF r
  <2>3. \A n \in 1 .. Len(q) : q[n] = r
    BY <2>2
  <2> QED
    BY <1>2, <2>1, <2>2, <2>3, Tuples DEF Quiet
<1> QED
  BY <1>1, <1>2 DEF Asks

LEMMA Within ==
  /\ CaptureSteps \cap (Apart \union Waiting \union {"pausing"}) = {}
  /\ Sessions \cap Apart = {} /\ "detaching" \notin Sessions
  /\ Waiting \subseteq Sessions \union {"detaching"}
  /\ Leaving \in {"leaving", "detaching"}
BY Places DEF Sessions, Waiting, Apart, Leaving

(* A step that asks something, or leaves. *)
LEMMA MovesOn ==
  ASSUME UNCHANGED <<tool, stub>>, pc \in Sessions, NEW op \in Ops, NEW arg, Serves(op, arg),
         requests' \in {requests \o <<Request(op, arg)>>, Overdue \o <<Request(op, arg)>>},
         pc' \in (Sessions \union {"detaching"}) \ {"mode12"}
  PROVE  Moves
<1>1. Asks(<<Request(op, arg)>>)
  BY DEF Asks
<1>2. Sends(<<Request(op, arg)>>)
  BY DEF Sends
<1>3. pc' \in (Apart \union Waiting \union {"pausing"}) \ {"mode12"}
  BY DEF Sessions, Waiting
<1> QED
  BY <1>1, <1>2, <1>3, Within DEF Moves, stub, Sessions, Apart

LEMMA Gone ==
  ASSUME UNCHANGED <<tool, gone>>, pc \in {"checked", "connect", "detaching", "leaving"} \union Sessions,
         WellFormed(requests), requests' \in {requests, Overdue}, WellFormed(replies),
         pc' \in Apart,
         pc' = "checked" => tool = "wait-screen", pc' = "connect" => pc = "checked"
  PROVE  Moves
<1>1. requests' \in {requests \o <<>>, Overdue \o <<>>}
  <2>1. \A s : WellFormed(s) => s \o <<>> = s
    <3> SUFFICES ASSUME NEW s, WellFormed(s) PROVE s \o <<>> = s
      OBVIOUS
    <3>1. s \in Seq(Elements(s))
      BY FormedIsSeq
    <3> QED
      BY <3>1, ConcatEmptySeq
  <2>2. PICK base : base = Overdue
    OBVIOUS
  <2>3. WellFormed(base)
    BY <2>2, OverdueFormed
  <2> QED
    BY <2>1, <2>2, <2>3
<1>2. Asks(<<>>) /\ Sends(<<>>)
  BY <1>1 DEF Asks, Sends
<1> QED
  BY <1>2, Within DEF Moves, Sessions, Apart, Waiting

(* The next breakpoint that trace sets is one of its addresses. *)
LEMMA ArmsNext ==
  ASSUME trace.at \in Traces, NEW n \in Nat
  PROVE  \E op \in Ops : \E arg : Serves(op, arg) /\ ArmNext(n) = <<Request(op, arg)>>
<1>1. CASE n < Len(trace.at)
  <2>1. trace.at \in Seq(Addresses)
    BY TraceAssumption
  <2>2. trace.at[n + 1] \in Addresses
    BY <1>1, <2>1, ElementOfSeq, LenProperties
  <2> QED
    BY <1>1, <2>2 DEF ArmNext, Serves, Ops
<1>2. CASE ~(n < Len(trace.at))
  BY <1>2 DEF ArmNext, Ask, Serves, Ops
<1> QED
  BY <1>1, <1>2

LEMMA SnapshotMoves == IInv /\ Snapshot => Moves
<1> SUFFICES ASSUME IInv, Snapshot PROVE Moves
  OBVIOUS
<1>1. /\ UNCHANGED <<tool, stub>> /\ pc \in Sessions
      /\ pc' \in (Sessions \union {"detaching"}) \ {"mode12"}
  BY Within DEF Snapshot, Broken, Probed, ModeRead, NoText, CellsRead, At, EndPc, FailPc, Sessions, Waiting
<1>2. \E op \in Ops : \E arg : Serves(op, arg) /\ requests' = requests \o <<Request(op, arg)>>
  <2>1. CASE tool = "trace" /\ Broken
    <3>1. requests' = requests \o ArmNext(0) /\ pc = "breaking"
      BY <2>1 DEF Broken, Read, At
    <3>2. trace.at \in Traces
      BY <2>1, <3>1 DEF IInv, ToolInv
    <3> QED
      BY <3>1, <3>2, ArmsNext
  <2>2. CASE ~(tool = "trace" /\ Broken)
    BY <2>2 DEF Snapshot, Broken, Probed, ModeRead, NoText, CellsRead, Read, Ask, Ops, Serves
  <2> QED
    BY <2>1, <2>2
<1> QED
  BY <1>1, <1>2, MovesOn

LEMMA TracingMoves == IInv /\ Tracing => Moves
<1> SUFFICES ASSUME IInv, Tracing PROVE Moves
  OBVIOUS
<1>1. /\ UNCHANGED <<tool, stub>> /\ pc \in Sessions
      /\ pc' \in (Sessions \union {"detaching"}) \ {"mode12"}
  BY Within DEF Tracing, Arm, Stale, Clear, Traced, StackRead, TraceTimeout, StackTimeout, At, Silence,
                EndPc, FailPc, ArmedPc, Sessions, Waiting
<1>2. \E op \in Ops : \E arg :
        /\ Serves(op, arg)
        /\ requests' \in {requests \o <<Request(op, arg)>>, Overdue \o <<Request(op, arg)>>}
  <2>1. CASE Arm \/ Clear
    <3>1. /\ \E n \in {armed, armed + 1} : requests' = requests \o ArmNext(n)
          /\ pc \in {"arming", "clearing", "rearming"}
      BY <2>1 DEF Arm, Clear, Read, At
    <3>2. trace.at \in Traces /\ armed \in Nat
      BY <3>1 DEF IInv, ToolInv
    <3>3. PICK n \in Nat : requests' = requests \o ArmNext(n)
      BY <3>1, <3>2
    <3> QED
      BY <3>2, <3>3, ArmsNext
  <2>2. CASE Stale \/ Traced \/ StackRead \/ TraceTimeout \/ StackTimeout
    BY <2>2 DEF Stale, Traced, StackRead, TraceTimeout, StackTimeout, Read, Ask, Ops, Serves
  <2> QED
    BY <2>1, <2>2 DEF Tracing
<1> QED
  BY <1>1, <1>2, MovesOn

LEMMA TypingMoves == IInv /\ Typing => Moves
<1> SUFFICES ASSUME IInv, Typing PROVE Moves
  OBVIOUS
<1>1. /\ UNCHANGED <<tool, stub>> /\ pc \in Sessions
      /\ pc' \in (Sessions \union {"detaching"}) \ {"mode12"}
  BY Within DEF Typing, Injected, Stored, Deadline, Pause, Interrupted, At, EndPc, FailPc, Sessions, Waiting
<1>2. \E op \in Ops : \E arg : Serves(op, arg) /\ requests' = requests \o <<Request(op, arg)>>
  BY DEF Serves, Typing, Injected, Stored, Deadline, Pause, Interrupted, Read, Ask, Ops
<1> QED
  BY <1>1, <1>2, MovesOn

LEMMA ConsoleMoves == IInv /\ Console => Moves
<1> SUFFICES ASSUME IInv, Console PROVE Moves
  OBVIOUS
<1>1. /\ UNCHANGED <<tool, stub>> /\ pc \in Sessions
      /\ pc' \in (Sessions \union {"detaching"}) \ {"mode12"}
  BY Within DEF Console, FrameRead, FrameCellsRead, Fed, Left, At, EndPc, FailPc, Sessions, Waiting
<1>2. \E op \in Ops : \E arg : Serves(op, arg) /\ requests' = requests \o <<Request(op, arg)>>
  BY DEF Serves, Console, FrameRead, FrameCellsRead, Fed, Left, Read, Ask, Ops
<1> QED
  BY <1>1, <1>2, MovesOn

LEMMA CloseMoves == IInv /\ (Close \/ CtrlC) => Moves
<1> SUFFICES ASSUME IInv, Close \/ CtrlC PROVE Moves
  OBVIOUS
<1>0. WellFormed(requests) /\ WellFormed(replies)
  BY DEF IInv
<1>1. CASE Misfits \/ Timeout \/ CtrlC
  <2>1. /\ UNCHANGED <<tool, stub>> /\ pc \in Sessions
        /\ pc' \in (Sessions \union {"detaching"}) \ {"mode12"}
    BY <1>1, Within DEF Misfits, Misfit, Fits, Timeout, Silence, Raises, CtrlC, FailPc, Sessions, Waiting
  <2>2. \E op \in Ops : \E arg :
          /\ Serves(op, arg)
          /\ requests' \in {requests \o <<Request(op, arg)>>, Overdue \o <<Request(op, arg)>>}
    BY <1>1 DEF Serves, Misfits, Misfit, Timeout, CtrlC, Read, Ask, Finally, Ops
  <2> QED
    BY <2>1, <2>2, MovesOn
<1>2. CASE LeaveTimeout /\ pc = "leaving"
  <2>1. /\ UNCHANGED <<tool, stub>> /\ pc \in Sessions /\ pc' = "detaching"
        /\ requests' = Overdue \o <<Request("D", None)>>
    BY <1>2 DEF LeaveTimeout, Ask, Sessions, Waiting
  <2> QED
    <3>1. "D" \in Ops /\ Serves("D", None)
      BY DEF Ops, Serves
    <3> QED
      BY <2>1, <3>1, MovesOn
<1>3. CASE (LeaveTimeout /\ pc # "leaving") \/ Detached \/ Refused
  <2>1. /\ UNCHANGED <<tool, stub>> /\ requests' \in {requests, Overdue}
        /\ pc \in {"connect", "detaching"} \union Sessions /\ pc' \in {"idle", "checked"}
        /\ pc' = "checked" => tool = "wait-screen"
    BY <1>3 DEF LeaveTimeout, Detached, Refused, At, Silence, AfterDetach, channel, Sessions, Waiting
  <2> QED
    BY <1>0, <2>1, Gone DEF stub, Apart
<1> QED
  BY <1>1, <1>2, <1>3 DEF Close

LEMMA WaitMoves == IInv /\ Wait => Moves
<1> SUFFICES ASSUME IInv, Wait PROVE Moves
  OBVIOUS
<1>1. WellFormed(requests) /\ WellFormed(replies)
  BY DEF IInv
<1>2. /\ UNCHANGED <<tool, stub, requests>> /\ pc = "checked" /\ pc' \in {"idle", "connect"}
  BY DEF Wait, Found, Again, WaitDeadline, channel
<1> QED
  BY <1>1, <1>2, Gone DEF stub, Apart

LEMMA CutMoves == IInv /\ CtrlCAgain => Moves
<1> SUFFICES ASSUME IInv, CtrlCAgain PROVE Moves
  OBVIOUS
<1>1. /\ UNCHANGED <<tool, gone, requests>> /\ pc \in Sessions \union {"detaching"} /\ pc' = "idle"
  BY Within DEF CtrlCAgain, Sessions, Waiting
<1> QED
  BY <1>1, Gone DEF IInv, Apart

LEMMA ClientMoves == IInv /\ (Client \/ CtrlC \/ CtrlCAgain) => Moves
BY SnapshotMoves, TracingMoves, TypingMoves, ConsoleMoves, CloseMoves, WaitMoves, CutMoves DEF Client

-----------------------------------------------------------------------------
(* From one step of the capture to the next. *)
Follows(at, k, next, n) ==
  /\ next \in CaptureSteps
  /\ \/ next = Then[at]
     \/ at = "plane" /\ next = "select"
     \/ at = "register" /\ next = "flip"
     \/ at = "component" /\ next = "colour"
  /\ next \in {"plane", "pick", "register", "component"} => n = k

(* The registers that a command puts back have been read. *)
Known(at, k, s) ==
  /\ at = "putIndex" => s.index = before.index
  /\ at \in {"readMode", "putMode"} => s.mode = before.mode
  /\ at = "putMap" => s.map = before.map
  /\ at = "select" => k \in 0 .. 3
  /\ at \in {"pick", "putAttribute"} => s.attribute = before.attribute
  /\ at = "colour" => DacIndex(s.registers[k + 1], s.registers[Colours + 1], s.registers[Colours + 2])
                        = Colour(k)
  /\ at = "putDac" => s.dac = before.dac /\ s.dacState = before.dacState

LEMMA Onward ==
  ASSUME NEW at \in CaptureSteps, NEW k, NEW d, DOMAIN d = Names, ExactAt(at, k, d), VgaInv,
         NEW next, NEW n, Follows(at, k, next, n), NEW s, Known(next, n, s)
  PROVE  /\ ExactAt(next, n, Effect(d, Command(next, n, s)[1]))
         /\ next \in {"pick", "putAttribute"} => d.flip = "index"
<1> DEFINE r == Command(next, n, s)[1]
           e == Effect(d, r)
<1>1. next \in {"pick", "putAttribute"} => d.flip = "index"
  BY Places DEF Follows, Then, ExactAt
<1>2. PICK x, y : x = r /\ y = e
  OBVIOUS
<1> HIDE DEF r, e
<1>3. next \in CaptureSteps
  BY DEF Follows
<1>4. /\ y.index = IF next \in {"toMap", "toPlanes", "putMapAt"} THEN 4
                   ELSE IF next \in {"toMode", "putModeAt"} THEN 5
                   ELSE IF next = "putIndex" THEN s.index ELSE d.index
      /\ y.map = IF next \in Stores /\ d.index = 4 THEN Data(next, n, s) % 4 ELSE d.map
      /\ y.mode = IF next \in Stores /\ d.index # 4 THEN Data(next, n, s) ELSE d.mode
      /\ y.attribute = IF next = "pick" THEN <<s.attribute[1], Register(n)>>
                       ELSE IF next = "putAttribute" THEN s.attribute ELSE d.attribute
      /\ y.flip = IF next \in {"flip", "putFlip"} THEN "index"
                  ELSE IF next \in {"pick", "putAttribute"} THEN "data" ELSE d.flip
      /\ y.registers = d.registers
      /\ next = "colour" => y.dac = DacIndex(s.registers[n + 1], s.registers[Colours + 1],
                                             s.registers[Colours + 2])
      /\ next = "putDac" => y.dac = s.dac /\ y.dacState = IF s.dacState = "read" THEN "read" ELSE "write"
      /\ next \notin Coloured \union {"putDac"} => y.dac = d.dac /\ y.dacState = d.dacState
  BY <1>1, <1>2, <1>3, Programs DEF r, e
<1>5. ExactAt(next, n, y)
  <2>1. CASE next \in {"index", "toMap", "map", "toMode", "mode"}
    BY <1>4, <2>1, Places DEF Follows, Then, Known, ExactAt, Stores, Data, Selected, Planar, Picked, Attributes,
                              Coloured
  <2>2. CASE next \in {"readMode", "toPlanes", "select", "plane"}
    BY <1>4, <2>2, Places DEF Follows, Then, Known, ExactAt, Stores, Data, Selected, Planar, Picked, Attributes,
                              Coloured
  <2>3. CASE next \in {"putModeAt", "putMode", "putMapAt", "putMap", "putIndex"}
    <3>1. next = "putMap" => s.map % 4 = before.map
      BY DEF Known, VgaInv, StateOK
    <3> QED
      BY <1>4, <2>3, <3>1, Places DEF Follows, Then, Known, ExactAt, Stores, Data, Selected, Planar, Picked,
                                      Attributes, Coloured
  <2>4. CASE next \in {"attribute", "flip", "pick", "register"}
    BY <1>4, <2>4, Places DEF Follows, Then, Known, ExactAt, Stores, Data, Selected, Planar, Picked, Attributes,
                              Coloured
  <2>5. CASE next \in {"putFlip", "putAttribute", "dacState", "dac"}
    BY <1>4, <2>5, Places DEF Follows, Then, Known, ExactAt, Stores, Data, Selected, Planar, Picked, Attributes,
                              Coloured
  <2>6. CASE next \in {"colour", "component", "putDac"}
    BY <1>4, <2>6, Places DEF Follows, Then, Known, ExactAt, Stores, Data, Selected, Planar, Picked, Attributes,
                              Coloured, VgaInv, StateOK
  <2> QED
    BY <1>3, <2>1, <2>2, <2>3, <2>4, <2>5, <2>6, Places
<1> QED
  BY <1>1, <1>2, <1>5 DEF e, r

-----------------------------------------------------------------------------
LEMMA Roughly ==
  ASSUME NEW at \in CaptureSteps \ Puts, NEW k, NEW d, ExactAt(at, k, d)
  PROVE  RoughAt(at, d)
BY Places DEF ExactAt, RoughAt, Selected, Planar, Picked, Attributes, Coloured, Puts

LEMMA IntoFinally ==
  ASSUME NEW at \in DOMAIN OnRaise, NEW d, DOMAIN d = Names, RoughAt(at, d), VgaInv,
         NEW next, next = OnRaise[at], NEW s, Known(next, 0, s)
  PROVE  ExactAt(next, 0, Effect(d, Command(next, 0, s)[1]))
<1> DEFINE r == Command(next, 0, s)[1]
           e == Effect(d, r)
<1>1. /\ next \in {"putModeAt", "putMapAt", "putIndex", "putFlip", "putDac"} /\ next \in CaptureSteps
      /\ next = "putIndex" => at \in {"toMap", "map"}
      /\ next = "putMapAt" => at \in {"toMode", "mode"}
      /\ next = "putModeAt" => at \in Planar
      /\ next = "putFlip" => at \in Attributes
      /\ next = "putDac" => at \in Coloured
  BY Places DEF OnRaise, Planar, Selected, Attributes, Picked, Coloured
<1>2. PICK x, y : x = r /\ y = e
  OBVIOUS
<1> HIDE DEF r, e
<1>3. /\ y.index = IF next = "putMapAt" THEN 4 ELSE IF next = "putModeAt" THEN 5
                   ELSE IF next = "putIndex" THEN s.index ELSE d.index
      /\ y.map = d.map /\ y.mode = d.mode
      /\ y.attribute = d.attribute /\ y.registers = d.registers
      /\ next = "putFlip" => y.flip = "index"
      /\ next = "putDac" => y.dac = s.dac /\ y.dacState = IF s.dacState = "read" THEN "read" ELSE "write"
      /\ next # "putDac" => y.dac = d.dac /\ y.dacState = d.dacState
  <2>1. next \notin Stores /\ next \notin {"pick", "putAttribute", "colour"}
    BY <1>1 DEF Stores
  <2>2. /\ y.index = IF next \in {"toMap", "toPlanes", "putMapAt"} THEN 4
                     ELSE IF next \in {"toMode", "putModeAt"} THEN 5
                     ELSE IF next = "putIndex" THEN s.index ELSE d.index
        /\ y.map = IF next \in Stores /\ d.index = 4 THEN Data(next, 0, s) % 4 ELSE d.map
        /\ y.mode = IF next \in Stores /\ d.index # 4 THEN Data(next, 0, s) ELSE d.mode
        /\ y.attribute = IF next = "pick" THEN <<s.attribute[1], Register(0)>>
                         ELSE IF next = "putAttribute" THEN s.attribute ELSE d.attribute
        /\ y.flip = IF next \in {"flip", "putFlip"} THEN "index"
                    ELSE IF next \in {"pick", "putAttribute"} THEN "data" ELSE d.flip
        /\ y.registers = d.registers
        /\ next = "putDac" => y.dac = s.dac /\ y.dacState = IF s.dacState = "read" THEN "read" ELSE "write"
        /\ next \notin Coloured \union {"putDac"} => y.dac = d.dac /\ y.dacState = d.dacState
    BY <1>1, <1>2, <2>1, Programs DEF r, e
  <2> QED
    BY <1>1, <2>1, <2>2 DEF Coloured
<1>4. ExactAt(next, 0, y)
  BY <1>1, <1>3 DEF RoughAt, ExactAt, Known, Selected, Planar, Picked, Attributes, Coloured, VgaInv, StateOK
<1> QED
  BY <1>2, <1>4 DEF e, r

LEMMA StaysOK ==
  ASSUME NEW v, StateOK(v), NEW r, Shaped(r) PROVE StateOK(Effect(v, r))
<1> PICK e : e = Effect(v, r)
  OBVIOUS
<1>1. CASE r.op = "ib"
  <2>1. PICK port : port = r.arg[1]
    OBVIOUS
  <2>2. e = AfterRead(v, port)
    BY <1>1, <2>1 DEF Effect
  <2>3. \/ e = v
        \/ e = [v EXCEPT !.flip = "index"]
        \/ e = [v EXCEPT !.dac = (v.dac + 1) % 256]
    BY <2>2 DEF AfterRead
  <2>4. (v.dac + 1) % 256 \in 0 .. 255
    BY DEF StateOK
  <2> QED
    BY <2>3, <2>4 DEF StateOK, Names
<1>2. CASE r.op = "ob"
  <2>1. PICK port, val : port = r.arg[1] /\ val = r.arg[2]
    OBVIOUS
  <2>2. e = AfterWrite(v, port, val)
    BY <1>2, <2>1 DEF Effect
  <2>3. /\ port \in {"graphicsIndex", "graphicsData", "attribute", "dacState", "dacIndex"}
        /\ port = "graphicsData" => val \in Nat
        /\ port = "attribute" => val \in Addressing
        /\ port \in {"dacState", "dacIndex"} => val \in 0 .. 255
    BY <1>2, <2>1 DEF Shaped
  <2>4. CASE port = "graphicsIndex"
    BY <2>2, <2>4 DEF AfterWrite, StateOK, Names
  <2>5. CASE port = "graphicsData"
    <3>1. val \in Nat /\ (e = [v EXCEPT !.map = val % 4] \/ e = [v EXCEPT !.mode = val])
      BY <2>2, <2>3, <2>5 DEF AfterWrite
    <3>2. val % 4 \in 0 .. 3
      BY <3>1
    <3> QED
      BY <3>1, <3>2 DEF StateOK, Names
  <2>6. CASE port = "attribute"
    <3>1. PICK regs : regs = [v.registers EXCEPT ![v.attribute[2]] = 32 * val[1] + val[2]]
      OBVIOUS
    <3>2. val[1] \in Nat /\ val[2] \in Nat
      BY <2>3, <2>6 DEF Addressing
    <3>3. regs \in [Registers -> Nat]
      <4>1. 32 * val[1] + val[2] \in Nat
        BY <3>2
      <4>2. v.registers \in [Registers -> Nat]
        BY DEF StateOK
      <4> QED
        BY <3>1, <4>1, <4>2
    <3>4. \/ e = [v EXCEPT !.attribute = val, !.flip = "data"]
          \/ e = [v EXCEPT !.registers = regs, !.flip = "index"]
      BY <2>2, <2>6, <3>1 DEF AfterWrite, StateOK
    <3>5. CASE e = [v EXCEPT !.attribute = val, !.flip = "data"]
      BY <2>3, <2>6, <3>5 DEF StateOK, Names
    <3>6. CASE e = [v EXCEPT !.registers = regs, !.flip = "index"]
      BY <3>3, <3>6 DEF StateOK, Names
    <3> QED
      BY <3>4, <3>5, <3>6
  <2>7. CASE port \in {"dacState", "dacIndex"}
    <3>1. \/ e = [v EXCEPT !.dac = val, !.dacState = "read"]
          \/ e = [v EXCEPT !.dac = val, !.dacState = "write"]
      BY <2>2, <2>7 DEF AfterWrite
    <3>2. val \in 0 .. 255
      BY <2>3, <2>7
    <3>3. CASE e = [v EXCEPT !.dac = val, !.dacState = "read"]
      BY <3>2, <3>3 DEF StateOK, Names
    <3>4. CASE e = [v EXCEPT !.dac = val, !.dacState = "write"]
      BY <3>2, <3>4 DEF StateOK, Names
    <3> QED
      BY <3>1, <3>3, <3>4
  <2> QED
    BY <2>3, <2>4, <2>5, <2>6, <2>7
<1>3. CASE r.op \notin {"ib", "ob"}
  BY <1>3 DEF Effect
<1> QED
  BY <1>1, <1>2, <1>3

(* A command of the capture is a request that the adapter can take.        *)
LEMMA CommandShaped ==
  ASSUME NEW at \in CaptureSteps, NEW k, NEW s, Fitting(at, k, s),
         NEW r, r = Command(at, k, s)[1]
  PROVE  /\ Shaped(r) /\ Command(at, k, s) = <<r>> /\ r.op \in {"ib", "ob", "m"} /\ ~r.late
         /\ r.op = "m" => r.arg = "plane"
<1> DEFINE Takes(port, val) == /\ port = "attribute" => val \in Addressing
                               /\ port \in {"dacState", "dacIndex"} => val \in 0 .. 255
<1> HIDE DEF Takes
<1>1. PICK op, arg : op \in {"ib", "ob", "m"} /\ Command(at, k, s) = <<Request(op, arg)>>
  BY CommandShape
<1>2. r = Request(op, arg) /\ DOMAIN r = {"op", "arg", "late"} /\ r.op = op /\ r.arg = arg /\ r.late = FALSE
  BY <1>1 DEF Request
<1>3. /\ op = "m" => arg = "plane"
      /\ op = "ob" => arg[1] \in {"graphicsIndex", "graphicsData", "attribute", "dacState", "dacIndex"}
      /\ op = "ob" /\ arg[1] = "graphicsData" => at \in Stores /\ arg[2] = Data(at, k, s)
      /\ op = "ob" /\ arg[1] = "attribute" => arg[2] \in Addressing
      /\ op = "ob" /\ arg[1] \in {"dacState", "dacIndex"} => arg[2] \in 0 .. 255
  <2>1. CASE at \in Stores
    <3>1. Command(at, k, s) = Ob("graphicsData", Data(at, k, s))
      BY <2>1 DEF Command, Data, Stores
    <3>2. Request(op, arg) = Request("ob", <<"graphicsData", Data(at, k, s)>>)
      BY <1>1, <3>1 DEF Ob
    <3> QED
      BY <2>1, <3>2, FieldsOf
  <2>2. CASE at = "plane"
    <3>1. Request(op, arg) = Request("m", "plane")
      BY <1>1, <2>2 DEF Command
    <3> QED
      BY <3>1, FieldsOf
  <2>3. CASE at \notin Stores \union {"plane"}
    <3>1. \/ \E port \in {"graphicsIndex", "attribute", "dacState", "dacIndex"} : \E val :
               Command(at, k, s) = Ob(port, val) /\ Takes(port, val)
          \/ \E port : Command(at, k, s) = Ib(port)
      <4>1. CASE at \in {"index", "map", "mode", "attribute", "flip", "register", "putFlip", "dacState", "dac",
                         "component"}
        BY <4>1 DEF Command
      <4>2. CASE at \in {"toMap", "toPlanes", "putMapAt", "toMode", "putModeAt", "putIndex"}
        BY <4>2 DEF Command, Takes
      <4>3. CASE at \in {"pick", "putAttribute"}
        BY <4>3 DEF Command, Fitting, Takes
      <4>4. CASE at \in {"colour", "putDac"}
        BY <4>4 DEF Command, Fitting, Takes
      <4> QED
        BY <2>3, <4>1, <4>2, <4>3, <4>4, Places DEF Stores
    <3>2. ASSUME NEW port \in {"graphicsIndex", "attribute", "dacState", "dacIndex"}, NEW val,
                 Command(at, k, s) = Ob(port, val), Takes(port, val)
          PROVE  op = "ob" /\ arg[1] = port /\ arg[1] # "graphicsData" /\ Takes(arg[1], arg[2])
      <4>1. Request(op, arg) = Request("ob", <<port, val>>)
        BY <1>1, <3>2 DEF Ob
      <4>2. op = "ob" /\ arg = <<port, val>>
        BY <4>1, FieldsOf
      <4>3. arg[1] = port /\ arg[2] = val
        BY <4>2
      <4> QED
        BY <3>2, <4>2, <4>3
    <3>3. ASSUME NEW port, Command(at, k, s) = Ib(port)
          PROVE  op = "ib"
      <4>1. Request(op, arg) = Request("ib", <<port, 0>>)
        BY <1>1, <3>3 DEF Ib
      <4> QED
        BY <4>1, FieldsOf
    <3> QED
      BY <1>1, <3>1, <3>2, <3>3 DEF Takes
  <2> QED
    BY <2>1, <2>2, <2>3
<1>4. at \in Stores => Data(at, k, s) \in Nat
  BY DEF Fitting
<1> QED
  BY <1>1, <1>2, <1>3, <1>4 DEF Shaped

(* A function on 1 .. n is continued. *)
LEMMA Continued ==
  ASSUME NEW g, NEW n \in Nat
  PROVE  Append([i \in 1 .. n |-> g[i]], g[n + 1]) = [i \in 1 .. n + 1 |-> g[i]]
<1> DEFINE S == {g[i] : i \in 1 .. n + 1}
           f == [i \in 1 .. n |-> g[i]]
           h == [i \in 1 .. n + 1 |-> g[i]]
<1>1. f \in [1 .. n -> S] /\ h \in [1 .. n + 1 -> S] /\ g[n + 1] \in S
  OBVIOUS
<1> HIDE DEF S
<1>2. f \in Seq(S) /\ h \in Seq(S) /\ Len(f) = n /\ Len(h) = n + 1
  <2>1. f \in Seq(S) /\ h \in Seq(S)
    BY <1>1, SeqDef
  <2>2. DOMAIN f = 1 .. n /\ DOMAIN h = 1 .. n + 1
    OBVIOUS
  <2> QED
    BY <2>1, <2>2, LenProperties
<1>3. /\ Append(f, g[n + 1]) \in Seq(S) /\ Len(Append(f, g[n + 1])) = n + 1
      /\ \A i \in 1 .. n : Append(f, g[n + 1])[i] = f[i]
      /\ Append(f, g[n + 1])[n + 1] = g[n + 1]
  BY <1>1, <1>2, AppendProperties
<1>4. \A i \in 1 .. n + 1 : Append(f, g[n + 1])[i] = h[i]
  BY <1>3
<1> QED
  BY <1>2, <1>3, <1>4, SeqEqual

-----------------------------------------------------------------------------
(* What every step does to CInv, to begin with those outside the capture.  *)
LEMMA MoveKeeps ==
  ASSUME IInv, CInv, Moves, UNCHANGED <<vga, capture>>
  PROVE  CInv'
<1>1. PICK q : Asks(q) /\ Sends(q)
  BY DEF Moves
<1>2. ShapeInv' /\ (Quiet(requests) => Quiet(requests'))
  BY <1>1, AsksQuietly, AddedQuietly DEF IInv, CInv, Sends
<1>3. UNCHANGED <<vga, round, saved, failing, planes, palette, before, struck>>
  BY DEF capture
<1>4. pc' \notin CaptureSteps
  BY Within DEF Moves
<1>5. VgaInv'
  BY <1>3 DEF CInv, VgaInv, StateOK
<1>6. QuietInv'
  BY <1>2, <1>3 DEF CInv, Moves, QuietInv, Quiet
<1>7. FreshInv'
  <2>1. ASSUME pc' # "idle", tool' # "screen" \/ pc' \notin {"detaching"} \union CaptureSteps
        PROVE  Fresh
    <3>1. pc # "idle" /\ pc \notin CaptureSteps
      BY DEF Moves
    <3>2. CASE tool # "screen"
      BY <3>1, <3>2 DEF CInv, FreshInv
    <3>3. CASE tool = "screen"
      <4>1. pc' \notin {"detaching", "checked", "idle"}
        BY <2>1, <3>3 DEF Moves
      <4>2. pc' \in Sessions \union {"connect"}
        BY <4>1 DEF Moves, Sessions, Apart
      <4>3. pc # "detaching"
        BY <4>2, Within DEF Moves
      <4> QED
        BY <3>1, <4>3 DEF CInv, FreshInv
    <3> QED
      BY <3>2, <3>3
  <2>2. Fresh => Fresh'
    BY <1>3 DEF Fresh
  <2> QED
    BY <1>4, <2>1, <2>2 DEF FreshInv, Moves
<1>8. RoundInv' /\ PictureInv' /\ FlowInv'
  BY <1>4 DEF RoundInv, PictureInv, FlowInv
<1>9. SavedInv'
  BY <1>3, <1>4, Places DEF CInv, SavedInv, SavedOK, Planar, Selected, Attributes, Picked, Coloured
<1> QED
  BY <1>2, <1>5, <1>6, <1>7, <1>8, <1>9 DEF CInv

LEMMA StartKeeps ==
  ASSUME IInv, CInv, CommandStart
  PROVE  CInv'
<1>1. /\ pc' = "connect" /\ UNCHANGED <<requests, vga, before>> /\ Fresh' /\ saved' = Unread
  BY DEF CommandStart, Start, channel, Fresh
<1>2. pc' \notin CaptureSteps \union Sessions \union {"mode12"}
  BY <1>1, Within DEF Apart
<1>3. ShapeInv' /\ VgaInv' /\ QuietInv' /\ FreshInv'
  BY <1>1, <1>2 DEF CInv, ShapeInv, VgaInv, StateOK, QuietInv, FreshInv
<1>4. RoundInv' /\ PictureInv' /\ FlowInv'
  BY <1>2 DEF RoundInv, PictureInv, FlowInv
<1>5. SavedInv'
  <2>1. SavedOK(saved')
    BY <1>1, UnreadOK
  <2> QED
    BY <1>2, <2>1, Places DEF SavedInv, SavedOK, Planar, Selected, Attributes, Picked, Coloured
<1> QED
  BY <1>3, <1>4, <1>5 DEF CInv

LEMMA OpenKeeps ==
  ASSUME IInv, CInv, Open
  PROVE  CInv'
<1>1. /\ pc = "connect" /\ ~gone /\ requests = <<>> /\ UNCHANGED <<gone, tool, vga, saved, failing, planes, palette>>
      /\ before' = vga /\ struck' = {} /\ pc' \in {"frame", "breaking"}
      /\ requests' \in {Ask("c") \o Ask("m"), Ask("03") \o Ask("?")}
  BY DEF Open, Connect, stub
<1>2. pc' \notin CaptureSteps \union {"mode12", "detaching"} /\ pc' \in Sessions
  BY <1>1, Within DEF Waiting, Sessions
<1>3. ShapeInv' /\ Quiet(requests')
  <2>1. ASSUME NEW a, NEW b, Shaped(a), Shaped(b), ~Reprograms(a), ~Reprograms(b), requests' = <<a>> \o <<b>>
        PROVE  ShapeInv' /\ Quiet(requests')
    <3>1. requests' = <<a, b>>
      BY <2>1, Tuples
    <3>2. Len(requests') = 2 /\ requests'[1] = a /\ requests'[2] = b
      BY <3>1
    <3>3. \A n \in 1 .. Len(requests') : requests'[n] \in {a, b}
      BY <3>2
    <3> QED
      BY <2>1, <3>3 DEF ShapeInv, Quiet
  <2>2. \A op \in Ops \ {"Z1"} : Shaped(Request(op, None)) /\ ~Reprograms(Request(op, None))
    BY DEF Shaped, Reprograms, Request, Ops
  <2>3. \/ requests' = <<Request("c", None)>> \o <<Request("m", None)>>
        \/ requests' = <<Request("03", None)>> \o <<Request("?", None)>>
    BY <1>1 DEF Ask
  <2>4. {"c", "m", "03", "?"} \subseteq Ops \ {"Z1"}
    BY DEF Ops
  <2> QED
    BY <2>1, <2>2, <2>3, <2>4
<1>4. Fresh'
  <2>1. pc # "idle" /\ pc \notin {"detaching"} \union CaptureSteps
    BY <1>1, Within DEF Apart
  <2> QED
    BY <1>1, <2>1 DEF CInv, FreshInv, Fresh
<1>5. VgaInv' /\ QuietInv' /\ FreshInv'
  BY <1>1, <1>2, <1>3, <1>4 DEF CInv, VgaInv, StateOK, QuietInv, FreshInv, Quiet
<1>6. RoundInv' /\ PictureInv' /\ FlowInv'
  BY <1>2 DEF RoundInv, PictureInv, FlowInv
<1>7. SavedInv'
  <2>1. SavedOK(saved')
    BY <1>1 DEF CInv, SavedInv, SavedOK
  <2> QED
    BY <1>2, <2>1, Places DEF SavedInv, SavedOK, Planar, Selected, Attributes, Picked, Coloured
<1> QED
  BY <1>3, <1>5, <1>6, <1>7 DEF CInv

(* screen goes on to capture: the text mode is read once more. *)
LEMMA GraphicsModeKeeps ==
  ASSUME IInv, CInv, GraphicsMode
  PROVE  CInv'
<1>1. /\ pc = "state" /\ pc' = "mode12" /\ tool' = "screen" /\ UNCHANGED <<gone, tool, vga, capture>>
      /\ requests' = requests \o <<Request("m", None)>>
  BY DEF GraphicsMode, At, Read, Ask, stub
<1>2. pc \in Sessions /\ pc' \in Sessions /\ pc' \notin CaptureSteps /\ pc \notin CaptureSteps \union {"idle", "detaching"}
  BY <1>1, Within DEF Waiting, Sessions, Apart
<1>3. ShapeInv' /\ (Quiet(requests) => Quiet(requests'))
  <2> DEFINE q == <<Request("m", None)>>
  <2>1. Asks(q)
    BY DEF Asks, Ops, Serves
  <2> HIDE DEF q
  <2>2. requests' \in {requests \o q, Overdue \o q}
    BY <1>1 DEF q
  <2> QED
    BY <2>1, <2>2, AsksQuietly, AddedQuietly DEF IInv, CInv
<1>4. UNCHANGED <<vga, round, saved, failing, planes, palette, before, struck>> /\ Fresh'
  BY <1>1, <1>2 DEF capture, CInv, FreshInv, Fresh
<1>5. VgaInv' /\ QuietInv' /\ FreshInv'
  BY <1>1, <1>2, <1>3, <1>4 DEF CInv, VgaInv, StateOK, QuietInv, FreshInv, Quiet
<1>6. RoundInv' /\ PictureInv' /\ FlowInv'
  BY <1>2 DEF RoundInv, PictureInv, FlowInv
<1>7. SavedInv'
  <2>1. SavedOK(saved')
    BY <1>4 DEF CInv, SavedInv, SavedOK
  <2> QED
    BY <1>2, <2>1, Places DEF SavedInv, SavedOK, Planar, Selected, Attributes, Picked, Coloured
<1> QED
  BY <1>3, <1>5, <1>6, <1>7 DEF CInv

LEMMA RefusedKeeps ==
  ASSUME IInv, CInv, CaptureRefused
  PROVE  CInv'
<1>1. pc' = "idle" /\ UNCHANGED <<requests, vga, capture>>
  BY DEF CaptureRefused, channel
<1>2. pc' \notin CaptureSteps \union Sessions \union {"mode12"}
  BY <1>1, Within DEF Apart
<1>3. UNCHANGED <<vga, round, saved, failing, planes, palette, before, struck>>
  BY <1>1 DEF capture
<1>4. ShapeInv' /\ VgaInv' /\ QuietInv' /\ FreshInv'
  BY <1>1, <1>2, <1>3 DEF CInv, ShapeInv, VgaInv, StateOK, QuietInv, FreshInv
<1>5. RoundInv' /\ PictureInv' /\ FlowInv'
  BY <1>2 DEF RoundInv, PictureInv, FlowInv
<1>6. SavedInv'
  <2>1. SavedOK(saved')
    BY <1>3 DEF CInv, SavedInv, SavedOK
  <2> QED
    BY <1>2, <2>1, Places DEF SavedInv, SavedOK, Planar, Selected, Attributes, Picked, Coloured
<1> QED
  BY <1>4, <1>5, <1>6 DEF CInv

-----------------------------------------------------------------------------
(* The stub and the adapter. *)
LEMMA InFlight ==
  ASSUME IInv, pc \in CaptureSteps, ~failing, requests # <<>>
  PROVE  /\ ~gone /\ replies = <<>> /\ Len(requests) = 1 /\ requests = Command(pc, round, saved)
         /\ requests = <<requests[1]>> /\ Head(requests) = requests[1]
         /\ requests[1] = Command(pc, round, saved)[1] /\ requests[1].op = Asked(pc)
         /\ requests[1].op \in {"ib", "ob", "m"} /\ ~requests[1].late
<1>1. ~gone /\ replies = <<>> /\ requests = Command(pc, round, saved)
  BY DEF IInv, EndedInv, ChannelInv, Captures
<1>2. PICK op, arg : op \in {"ib", "ob", "m"} /\ Command(pc, round, saved) = <<Request(op, arg)>>
  BY CommandShape
<1>3. requests = <<Request(op, arg)>> /\ requests[1] = Request(op, arg) /\ Len(requests) = 1
      /\ Head(requests) = Request(op, arg)
  BY <1>1, <1>2
<1> QED
  BY <1>1, <1>2, <1>3, FieldsOf DEF Asked

(* A request is taken, and done or rejected. *)
LEMMA TakingKeeps ==
  ASSUME IInv, CInv, requests # <<>>, requests' = Tail(requests), vga' \in {vga, Effect(vga, requests[1])},
         UNCHANGED <<pc, tool, gone, round, saved, failing, planes, palette, before>>,
         struck' = struck \/ pc \notin Sessions, FlowInv'
  PROVE  CInv'
<1>1. Shaped(requests[1]) /\ ShapeInv' /\ (Quiet(requests) => Quiet(requests'))
  <2>1. /\ WellFormed(requests') /\ Len(requests') = Len(requests) - 1 /\ Len(requests) \in Nat \ {0}
        /\ \A n \in 1 .. Len(requests) - 1 : requests'[n] = requests[n + 1]
    BY Taken DEF IInv
  <2>2. \A n \in 1 .. Len(requests') : requests'[n] = requests[n + 1] /\ n + 1 \in 1 .. Len(requests)
    BY <2>1
  <2>3. Quiet(requests) => Quiet(requests')
    BY <2>2 DEF Quiet
  <2> QED
    BY <2>1, <2>2, <2>3 DEF CInv, ShapeInv
<1>2. VgaInv'
  <2>1. StateOK(vga')
    BY <1>1, StaysOK DEF CInv, VgaInv
  <2> QED
    BY <2>1 DEF CInv, VgaInv, StateOK
<1>3. QuietInv'
  <2> SUFFICES ASSUME pc \in Sessions PROVE vga' = before /\ struck' = {} /\ Quiet(requests')
    BY DEF QuietInv, Quiet
  <2>1. vga = before /\ struck = {} /\ Quiet(requests)
    BY DEF CInv, QuietInv, Quiet
  <2>2. ~Reprograms(requests[1])
    <3>1. 1 \in 1 .. Len(requests)
      BY TailFormed DEF IInv, WellFormed
    <3> QED
      BY <2>1, <3>1 DEF Quiet
  <2> QED
    BY <1>1, <2>1, <2>2 DEF Effect, Reprograms
<1>4. FreshInv' /\ RoundInv' /\ SavedInv' /\ PictureInv'
  BY DEF CInv, FreshInv, Fresh, RoundInv, SavedInv, SavedOK, PictureInv, PlanesRead, RegistersRead, ColoursRead, Sofar,
         Colour
<1> QED
  BY <1>1, <1>2, <1>3, <1>4 DEF CInv

LEMMA StubKeepsCapture ==
  ASSUME IInv, CInv, Stub, UNCHANGED <<vga, capture>>
  PROVE  CInv'
<1>1. /\ requests # <<>> /\ requests' = Tail(requests) /\ UNCHANGED <<pc, tool, gone>>
      /\ Head(requests).op \in Ops /\ (Head(requests).op = "m" => Head(requests).arg = None)
  BY DEF Stub, Process, BreakIn, TellStop, ReadMemory, WriteMemory, SetBreakpoint, ClearBreakpoint, Continue,
         LetGo, Ops, clientSide, stub
<1>2. UNCHANGED <<vga, round, saved, failing, planes, palette, before, struck>>
  BY DEF capture
<1>3. Head(requests) = requests[1] /\ 1 \in 1 .. Len(requests)
  BY <1>1, TailFormed DEF IInv, WellFormed
<1>4. ~Reprograms(requests[1]) /\ vga' = Effect(vga, requests[1])
  BY <1>1, <1>2, <1>3 DEF Reprograms, Ops, Effect
<1>5. ~(pc \in CaptureSteps /\ ~failing)
  <2> SUFFICES ASSUME pc \in CaptureSteps, ~failing PROVE FALSE
    OBVIOUS
  <2>1. requests[1] = Command(pc, round, saved)[1] /\ requests[1].op \in {"ib", "ob", "m"}
    BY <1>1, InFlight
  <2>2. requests[1].op = "m" => requests[1].arg = "plane"
    <3>1. Command(pc, round, saved) = <<requests[1]>>
      BY <1>1, InFlight
    <3>2. PICK op, arg : Command(pc, round, saved) = <<Request(op, arg)>>
      BY CommandShape
    <3>3. CASE pc = "plane"
      <4>1. requests[1] = Request("m", "plane")
        BY <3>1, <3>3 DEF Command
      <4> QED
        BY <4>1, FieldsOf
    <3>4. CASE pc # "plane"
      <4>1. requests[1].op # "m"
        BY <2>1, <3>4, Places DEF Command, Ib, Ob, Request
      <4> QED
        BY <4>1
    <3> QED
      BY <3>3, <3>4
  <2> QED
    BY <1>1, <1>3, <2>1, <2>2, NoneAssumption DEF Ops
<1>6. FlowInv'
  BY <1>1, <1>2, <1>5 DEF FlowInv
<1> QED
  BY <1>1, <1>2, <1>4, <1>6, TakingKeeps

-----------------------------------------------------------------------------
LEMMA AdapterTakes ==
  ASSUME IInv, CInv, Adapter
  PROVE  /\ requests # <<>> /\ requests' = Tail(requests) /\ Head(requests) = requests[1]
         /\ UNCHANGED <<pc, tool, gone, round, saved, failing, planes, palette, before, running, owed>>
         /\ Reprograms(requests[1]) /\ pc \notin Sessions
         /\ vga' \in {vga, Effect(vga, requests[1])}
         /\ PortRead \/ PortWrite \/ PlaneRead => vga' = Effect(vga, requests[1]) /\ UNCHANGED struck
<1>1. /\ requests # <<>> /\ requests' = Tail(requests)
      /\ UNCHANGED <<pc, tool, gone, round, saved, failing, planes, palette, before, running, owed>>
  BY DEF Adapter, PortRead, PortWrite, PlaneRead, Rejects, Process, Answer, clientSide, stub
<1>2. Head(requests) = requests[1] /\ 1 \in 1 .. Len(requests)
  BY <1>1, TailFormed DEF IInv, WellFormed
<1>3. Reprograms(requests[1])
  BY <1>2, NoneAssumption DEF Adapter, PortRead, PortWrite, PlaneRead, Rejects, Process, Reprograms
<1>4. pc \notin Sessions
  BY <1>2, <1>3 DEF CInv, QuietInv
<1>5. PortRead \/ PortWrite \/ PlaneRead => vga' = Effect(vga, requests[1]) /\ UNCHANGED struck
  BY <1>2 DEF PortRead, PortWrite, PlaneRead, Process, Effect
<1>6. Rejects => vga' = vga
  BY DEF Rejects
<1> QED
  BY <1>1, <1>2, <1>3, <1>4, <1>5, <1>6 DEF Adapter

LEMMA PortsFlow ==
  ASSUME IInv, CInv, PortRead \/ PortWrite \/ PlaneRead
  PROVE  FlowInv'
<1>1. /\ requests # <<>> /\ requests' = Tail(requests) /\ Head(requests) = requests[1]
      /\ UNCHANGED <<pc, gone, round, saved, failing, before, struck>> /\ vga' = Effect(vga, requests[1])
  BY AdapterTakes DEF Adapter
<1> SUFFICES ASSUME pc \in CaptureSteps, ~failing, ~gone PROVE FlowInv'
  BY <1>1 DEF FlowInv
<1>2. PICK r : r = requests[1]
  OBVIOUS
<1>3. /\ replies = <<>> /\ Len(requests) = 1 /\ requests = <<r>> /\ r = Command(pc, round, saved)[1]
      /\ Command(pc, round, saved) = <<r>> /\ r.op = Asked(pc) /\ r.op \in {"ib", "ob", "m"} /\ Head(requests) = r
  BY <1>1, <1>2, InFlight
<1>4. struck = {} /\ Exact(Due)
      /\ (pc = "component" => vga.dac = Colour(round))
      /\ (pc \in {"pick", "putAttribute"} => vga.flip = "index")
  BY <1>1, <1>3 DEF CInv, FlowInv
<1>5. Due' = Due /\ requests' = <<>> /\ Due' = vga'
  <2>1. Due' = Due /\ Len(requests') = 0
    BY <1>1, <1>3, DoneFirst DEF IInv, CInv
  <2>2. requests' = <<>>
    BY <1>1, <1>3, Tuples
  <2> QED
    BY <2>1, <2>2 DEF Due, Done
<1>6. Exact(Due)'
  BY <1>1, <1>4, <1>5 DEF Exact, ExactAt, Colour
<1>7. vga'.registers = before'.registers /\ vga'.attribute[1] = before'.attribute[1]
  BY <1>5, <1>6 DEF Exact, ExactAt
<1>8. PICK kind, val :
        /\ Answer(kind, val)
        /\ \/ PortRead /\ kind = "out" /\ val = PortValue(r.arg[1]) /\ r.op = "ib"
           \/ PortWrite /\ kind = "ok" /\ r.op = "ob"
           \/ PlaneRead /\ kind = "hex" /\ val = <<vga.map, vga.mode % 2>> /\ r.op = "m"
  BY <1>3 DEF PortRead, PortWrite, PlaneRead, Process
<1>9. replies' = <<Packet(kind, r, val)>> /\ Reply' = Packet(kind, r, val)
      /\ Reply'.kind = kind /\ Reply'.val = val /\ "kind" \in DOMAIN Reply'
  <2>1. replies' = replies \o <<Packet(kind, r, val)>>
    BY <1>3, <1>8, Within DEF Answer, Send
  <2>2. replies' = <<Packet(kind, r, val)>> /\ Reply' = Packet(kind, r, val)
    BY <1>3, <2>1, Tuples DEF Reply
  <2> QED
    BY <2>2 DEF Packet
<1>10. Reply'.kind \in Good(Asked(pc))' /\ replies' # <<>>
  <2>1. Good(Asked(pc))' = Good(r.op)
    BY <1>1, <1>3 DEF Asked, Good
  <2>2. Reply'.kind \in Good(r.op)
    BY <1>8, <1>9 DEF Good
  <2>3. replies' # <<>>
    BY <1>9, Tuples
  <2> QED
    BY <2>1, <2>2, <2>3
<1>11. Reply'.val = Value'
  <2>1. CASE pc \in {"index", "map", "mode", "attribute", "register", "dacState", "dac", "component"}
    <3>1. /\ r.op = "ib"
          /\ r.arg[1] = CASE pc = "index" -> "graphicsIndex"
                          [] pc \in {"map", "mode"} -> "graphicsData"
                          [] pc = "attribute" -> "attribute"
                          [] pc = "register" -> "attributeData"
                          [] pc = "dacState" -> "dacState"
                          [] pc = "dac" -> "dacIndex"
                          [] pc = "component" -> "dacData"
      BY <1>3, <2>1 DEF Command, Ib, Request
    <3>2. pc # "component" => vga = Due
      BY <1>1, <1>2, <1>5, <2>1, <3>1 DEF Effect, AfterRead
    <3>3. val = PortValue(r.arg[1])
      BY <1>8, <3>1
    <3>4. CASE pc = "index"
      <4>1. vga.index = before.index
        BY <1>4, <3>2, <3>4 DEF Exact, ExactAt, Planar, Selected
      <4>2. val = vga.index
        BY <3>1, <3>3, <3>4 DEF PortValue
      <4> QED
        BY <1>1, <1>9, <3>4, <4>1, <4>2 DEF Value
    <3>5. CASE pc \in {"map", "mode"}
      <4>1. /\ vga.index = IF pc = "map" THEN 4 ELSE 5
            /\ vga.map = before.map /\ vga.mode = before.mode
        BY <1>4, <3>2, <3>5 DEF Exact, ExactAt, Planar, Selected
      <4>2. val = IF vga.index = 4 THEN vga.map ELSE vga.mode
        BY <3>1, <3>3, <3>5 DEF PortValue
      <4> QED
        BY <1>1, <1>9, <3>5, <4>1, <4>2 DEF Value
    <3>6. CASE pc \in {"attribute", "register"}
      BY <1>1, <1>4, <1>9, <3>1, <3>2, <3>3, <3>6
      DEF PortValue, Value, Exact, ExactAt, Planar, Selected, Picked, Attributes, Coloured
    <3>7. CASE pc \in {"dacState", "dac", "component"}
      BY <1>1, <1>4, <1>9, <3>1, <3>2, <3>3, <3>7
      DEF PortValue, Value, Exact, ExactAt, Planar, Selected, Picked, Attributes, Coloured, Colour
    <3> QED
      BY <2>1, <3>4, <3>5, <3>6, <3>7
  <2>2. CASE pc = "plane"
    <3>1. r.op = "m"
      BY <1>3, <2>2 DEF Command, Request
    <3>2. vga = Due
      BY <1>1, <1>2, <1>5, <3>1 DEF Effect
    <3>3. vga.map = round /\ vga.mode = before.mode - (before.mode % 2)
      BY <1>4, <2>2, <3>2 DEF Exact, ExactAt, Selected, Planar
    <3>4. vga.mode % 2 = 0
      <4>1. \A m \in Nat : (m - (m % 2)) % 2 = 0
        OBVIOUS
      <4> QED
        BY <3>3, <4>1 DEF CInv, VgaInv, StateOK
    <3> QED
      BY <1>1, <1>8, <1>9, <2>2, <3>1, <3>3, <3>4 DEF Value
  <2>3. CASE pc \notin {"index", "map", "mode", "attribute", "register", "dacState", "dac", "component", "plane"}
    BY <1>1, <2>3 DEF Value
  <2> QED
    BY <2>1, <2>2, <2>3
<1> QED
  BY <1>1, <1>4, <1>6, <1>7, <1>9, <1>10, <1>11 DEF FlowInv

-----------------------------------------------------------------------------
LEMMA RejectsFlow ==
  ASSUME IInv, CInv, Rejects
  PROVE  FlowInv'
<1>1. /\ requests # <<>> /\ requests' = Tail(requests) /\ Head(requests) = requests[1]
      /\ UNCHANGED <<pc, gone, round, saved, failing, before, vga>>
      /\ struck' = struck \union {<<pc, "rejected">>} /\ Answer("err", None)
  BY AdapterTakes DEF Adapter, Rejects
<1> SUFFICES ASSUME pc \in CaptureSteps, ~failing, ~gone PROVE FlowInv'
  BY <1>1 DEF FlowInv
<1>2. PICK r : r = requests[1]
  OBVIOUS
<1>3. /\ replies = <<>> /\ Len(requests) = 1 /\ requests = <<r>> /\ r = Command(pc, round, saved)[1]
      /\ Head(requests) = r
  BY <1>1, <1>2, InFlight
<1>4. /\ struck = {} /\ Exact(Due) /\ (pc \in {"pick", "putAttribute"} => vga.flip = "index")
      /\ vga.registers = before.registers /\ vga.attribute[1] = before.attribute[1]
  BY <1>1, <1>3 DEF CInv, FlowInv
<1>5. requests' = <<>> /\ Reply'.kind = "err"
  <2>1. replies' = replies \o <<Packet("err", r, None)>>
    BY <1>1, <1>3, Within DEF Answer, Send
  <2>2. requests' = <<>> /\ Reply' = Packet("err", r, None)
    BY <1>1, <1>3, <2>1, Tuples DEF Reply
  <2> QED
    BY <2>2 DEF Packet
<1>6. PICK e : e = Effect(vga, r)
  OBVIOUS
<1>7. e = Due
  BY <1>2, <1>3, <1>6 DEF Due, Done
<1>8. pc \notin Puts => Rough(vga)
  <2> SUFFICES ASSUME pc \notin Puts PROVE RoughAt(pc, vga)
    BY DEF Rough
  <2>1. ExactAt(pc, round, e)
    BY <1>4, <1>7 DEF Exact
  <2>2. /\ e.index = IF pc \in {"toMap", "toPlanes", "putMapAt"} THEN 4
                     ELSE IF pc \in {"toMode", "putModeAt"} THEN 5
                     ELSE IF pc = "putIndex" THEN saved.index ELSE vga.index
        /\ e.map = IF pc \in Stores /\ vga.index = 4 THEN Data(pc, round, saved) % 4 ELSE vga.map
        /\ e.mode = IF pc \in Stores /\ vga.index # 4 THEN Data(pc, round, saved) ELSE vga.mode
        /\ e.attribute = IF pc = "pick" THEN <<saved.attribute[1], Register(round)>>
                         ELSE IF pc = "putAttribute" THEN saved.attribute ELSE vga.attribute
        /\ pc \notin Coloured \union {"putDac"} => e.dac = vga.dac /\ e.dacState = vga.dacState
    BY <1>3, <1>4, <1>6, Programs DEF CInv, VgaInv, StateOK
  <2>3. pc \notin Planar => e.map = vga.map /\ e.mode = vga.mode
    BY <2>2, Places DEF Stores, Planar, Selected, Puts
  <2>4. pc \notin {"toMap", "map", "toMode", "mode"} \union Planar => vga.index = before.index
    BY <2>1, <2>2, Places DEF ExactAt, Planar, Selected, Puts
  <2>5. pc \notin Attributes => vga.attribute = before.attribute
    BY <2>1, <2>2, Places DEF ExactAt, Attributes, Picked, Puts
  <2>6. pc \notin Planar => vga.map = before.map /\ vga.mode = before.mode
    BY <2>1, <2>3, Places DEF ExactAt, Planar, Selected, Puts
  <2>7. pc \notin Coloured => vga.dac = before.dac /\ vga.dacState = before.dacState
    BY <2>1, <2>2, Places DEF ExactAt, Coloured, Puts
  <2> QED
    BY <1>4, <2>4, <2>5, <2>6, <2>7 DEF RoughAt
<1>9. pc \notin Puts => Rough(vga)'
  BY <1>1, <1>8 DEF Rough, RoughAt
<1>10. struck' = {<<pc, "rejected">>}
  BY <1>1, <1>4
<1> QED
  BY <1>1, <1>4, <1>5, <1>9, <1>10 DEF FlowInv

LEMMA AdapterKeeps ==
  ASSUME IInv, CInv, Adapter
  PROVE  CInv'
<1>1. FlowInv'
  BY PortsFlow, RejectsFlow DEF Adapter
<1> QED
  BY <1>1, AdapterTakes, TakingKeeps

-----------------------------------------------------------------------------
(* The guest and 86Box. *)
LEMMA OutsideKeeps ==
  ASSUME CInv, UNCHANGED <<pc, tool, vga, capture>>, requests' \in {requests, <<>>}, FlowInv'
  PROVE  CInv'
<1>1. UNCHANGED <<round, saved, failing, planes, palette, before, struck>>
  BY DEF capture
<1>2. ShapeInv' /\ (Quiet(requests) => Quiet(requests'))
  <2>1. CASE requests' = requests
    BY <2>1 DEF CInv, ShapeInv
  <2>2. CASE requests' = <<>>
    <3>1. Len(requests') = 0
      BY <2>2
    <3> QED
      BY <3>1 DEF ShapeInv, Quiet
  <2> QED
    BY <2>1, <2>2
<1>3. VgaInv' /\ QuietInv' /\ FreshInv'
  BY <1>1, <1>2 DEF CInv, VgaInv, StateOK, QuietInv, FreshInv, Fresh, Quiet
<1>4. RoundInv' /\ SavedInv' /\ PictureInv'
  BY <1>1 DEF CInv, RoundInv, SavedInv, SavedOK, PictureInv, PlanesRead, RegistersRead, ColoursRead, Sofar, Colour
<1> QED
  BY <1>2, <1>3, <1>4 DEF CInv

LEMMA GuestKeeps ==
  ASSUME IInv, CInv, (Hit \/ Draw \/ VmEnds) /\ UNCHANGED <<vga, capture>>
  PROVE  CInv'
<1>1. UNCHANGED <<pc, tool>> /\ requests' \in {requests, <<>>}
  BY DEF Hit, Draw, VmEnds, clientSide, channel
<1>2. UNCHANGED failing /\ (Hit \/ Draw => UNCHANGED gone) /\ (VmEnds => gone')
  BY DEF capture, Hit, Draw, VmEnds
<1>3. pc \in CaptureSteps /\ ~failing /\ ~gone => ~running
  BY DEF IInv, ChannelInv, Captures, Still
<1>4. FlowInv'
  BY <1>1, <1>2, <1>3 DEF FlowInv, Hit, Draw
<1> QED
  BY <1>1, <1>4, OutsideKeeps

LEMMA StutterKeeps ==
  ASSUME CInv, UNCHANGED vars
  PROVE  CInv'
<1>1. UNCHANGED <<pc, tool, vga, capture, requests, replies, gone, round, saved, failing, before, struck>>
  BY DEF vars, sessionVars, capture
<1>2. Due' = Due /\ Reply' = Reply /\ Asked(pc)' = Asked(pc) /\ Value' = Value /\ Colour(round)' = Colour(round)
  BY <1>1 DEF Due, Done, Reply, Asked, Value, Colour
<1>3. Exact(Due)' = Exact(Due) /\ Rough(vga)' = Rough(vga)
  BY <1>1, <1>2 DEF Exact, ExactAt, Rough, RoughAt, Colour
<1>4. FlowInv'
  BY <1>1, <1>2, <1>3 DEF CInv, FlowInv
<1> QED
  BY <1>1, <1>4, OutsideKeeps

-----------------------------------------------------------------------------
(* A step of the capture sends its command, whatever is under way.         *)
LEMMA AddedShape ==
  ASSUME WellFormed(requests), WellFormed(replies), ShapeInv, NEW r, Shaped(r),
         requests' \in {requests \o <<r>>, Overdue \o <<r>>}
  PROVE  ShapeInv'
<1> DEFINE q == <<r>>
<1>1. WellFormed(q) /\ Len(q) = 1 /\ q[1] = r
  BY Tuples
<1>2. requests' \in {requests \o q, Overdue \o q}
  OBVIOUS
<1> HIDE DEF q
<1>3. /\ Len(requests') = Len(requests) + 1 /\ requests'[Len(requests) + 1] = r
      /\ \A n \in 1 .. Len(requests) :
           /\ requests'[n].op = requests[n].op /\ requests'[n].arg = requests[n].arg
           /\ DOMAIN requests'[n] = DOMAIN requests[n]
  <2>1. /\ Len(requests') = Len(requests) + Len(q)
        /\ \A n \in 1 .. Len(q) : requests'[Len(requests) + n] = q[n]
        /\ \A n \in 1 .. Len(requests) :
             /\ requests'[n].op = requests[n].op /\ requests'[n].arg = requests[n].arg
             /\ DOMAIN requests'[n] = DOMAIN requests[n]
    BY <1>1, <1>2, Added
  <2> QED
    BY <1>1, <2>1 DEF WellFormed
<1>4. ASSUME NEW n \in 1 .. Len(requests') PROVE Shaped(requests'[n])
  <2>1. n = Len(requests) + 1 \/ n \in 1 .. Len(requests)
    BY <1>3 DEF WellFormed
  <2>2. CASE n \in 1 .. Len(requests)
    <3>1. Shaped(requests[n])
      BY <2>2 DEF ShapeInv
    <3> QED
      BY <1>3, <2>2, <3>1, SameShape
  <2> QED
    BY <1>3, <2>1, <2>2
<1> QED
  BY <1>4 DEF ShapeInv

LEMMA AsksShaped == \A op \in Ops \ {"Z1"} : Shaped(Request(op, None)) /\ ~Reprograms(Request(op, None))
BY DEF Shaped, Reprograms, Request, Ops

(* The capture ends, or is given up. *)
LEMMA LeavesCapture ==
  ASSUME IInv, CInv, pc \in CaptureSteps, pc' = Leaving, UNCHANGED <<tool, vga, before>>,
         SavedOK(saved'),
         requests' \in {requests \o Ask("D"), Overdue \o Ask("D")}
  PROVE  CInv'
<1>1. tool = "screen" /\ pc' = "detaching"
  BY DEF CInv, FreshInv, Leaving
<1>2. pc' \notin CaptureSteps \union Sessions \union {"mode12"}
  BY <1>1, Within, Places DEF Waiting
<1>3. ShapeInv'
  <2>1. Shaped(Request("D", None))
    BY AsksShaped DEF Ops
  <2>2. requests' \in {requests \o <<Request("D", None)>>, Overdue \o <<Request("D", None)>>}
    BY DEF Ask
  <2> QED
    BY <2>1, <2>2, AddedShape DEF IInv, CInv
<1>4. VgaInv' /\ QuietInv' /\ FreshInv'
  BY <1>1, <1>2 DEF CInv, VgaInv, StateOK, QuietInv, FreshInv
<1>5. RoundInv' /\ PictureInv' /\ FlowInv'
  BY <1>2 DEF RoundInv, PictureInv, FlowInv
<1>6. SavedInv'
  BY <1>2, Places DEF SavedInv, SavedOK, Planar, Selected, Attributes, Picked, Coloured
<1> QED
  BY <1>3, <1>4, <1>5, <1>6 DEF CInv

LEMMA RaiseKeeps ==
  ASSUME IInv, CInv, CaptureMisfit \/ CaptureLate
  PROVE  CInv'
<1>1. /\ pc \in CaptureSteps /\ round' = 0 /\ UNCHANGED <<tool, vga, saved, before>>
      /\ requests' \in {requests \o RaiseReqs, Overdue \o RaiseReqs}
      /\ IF pc \in DOMAIN OnRaise THEN pc' = OnRaise[pc] /\ failing' ELSE pc' = Leaving
  BY DEF CaptureMisfit, CaptureLate, Raise, Read, FailPc
<1>2. CASE pc \notin DOMAIN OnRaise
  <2>1. RaiseReqs = Ask("D")
    BY <1>2 DEF RaiseReqs
  <2>2. SavedOK(saved')
    BY <1>1 DEF CInv, SavedInv, SavedOK
  <2> QED
    BY <1>1, <1>2, <2>1, <2>2, LeavesCapture
<1>3. CASE pc \in DOMAIN OnRaise
  <2>1. /\ pc' \in CaptureSteps \cap Puts /\ pc' \notin Stores
        /\ pc' \in {"putModeAt", "putMapAt", "putIndex", "putFlip", "putDac"}
        /\ pc' = "putIndex" => pc \in {"toMap", "map"}
        /\ pc' = "putMapAt" => pc \in {"toMode", "mode"}
        /\ pc' = "putModeAt" => pc \in Planar
        /\ pc' = "putFlip" => pc \in Attributes
        /\ pc' = "putDac" => pc \in Coloured
    BY <1>1, <1>3, Places DEF OnRaise, Planar, Selected, Attributes, Picked, Coloured, Puts, Stores
  <2>2. ShapeInv'
    <3>1. PICK r : r = Command(pc', 0, saved)[1]
      OBVIOUS
    <3>2. Shaped(r) /\ Command(pc', 0, saved) = <<r>>
      <4>1. Fitting(pc', 0, saved)
        BY <2>1, PutFits DEF CInv, SavedInv
      <4> QED
        BY <2>1, <3>1, <4>1, CommandShaped
    <3>3. requests' \in {requests \o <<r>>, Overdue \o <<r>>}
      BY <1>1, <1>3, <3>2 DEF RaiseReqs
    <3> QED
      BY <3>2, <3>3, AddedShape DEF IInv, CInv
  <2>3. tool = "screen" /\ VgaInv' /\ pc' \notin Sessions \union {"mode12"}
    BY <1>1, <2>1, Within, Places DEF CInv, FreshInv, VgaInv, StateOK, Sessions, Waiting, Puts
  <2>4. QuietInv' /\ FreshInv'
    BY <1>1, <2>1, <2>3, Places DEF QuietInv, FreshInv
  <2>5. RoundInv'
    BY <1>1, <1>3, <2>1 DEF RoundInv, Selected, Attributes, Picked, Coloured
  <2>6. SavedInv'
    BY <1>1, <2>1, Places DEF CInv, SavedInv, SavedOK, Planar, Selected, Attributes, Picked, Coloured
  <2>7. PictureInv' /\ FlowInv'
    BY <1>1, <1>3 DEF PictureInv, FlowInv
  <2> QED
    BY <2>2, <2>3, <2>4, <2>5, <2>6, <2>7 DEF CInv
<1> QED
  BY <1>2, <1>3

-----------------------------------------------------------------------------
LEMMA Proceeds ==
  ASSUME IInv, CInv, ~gone, requests = <<>>, replies # <<>>, replies = <<Reply>>,
         UNCHANGED <<gone, vga, before, struck>>, struck = {},
         NEW next \in CaptureSteps, NEW n, NEW s, Fitting(next, n, s),
         pc' = next, round' = n, saved' = s, Read(Command(next, n, s)),
         vga.registers = before.registers, vga.attribute[1] = before.attribute[1],
         ExactAt(next, n, Effect(vga, Command(next, n, s)[1])),
         next = "component" => vga.dac = Colour(n),
         next \in {"pick", "putAttribute"} => vga.flip = "index"
  PROVE  ShapeInv' /\ FlowInv'
<1>1. PICK r : r = Command(next, n, s)[1]
  OBVIOUS
<1>2. Shaped(r) /\ Command(next, n, s) = <<r>>
  BY <1>1, CommandShaped
<1>3. requests' = <<r>> /\ replies' = <<>>
  BY <1>2, TakesOne
<1>4. Due' = Effect(vga, r) /\ ShapeInv'
  <2>1. requests' \in {requests \o <<r>>, Overdue \o <<r>>} /\ Len(requests) = 0
    BY <1>2 DEF Read
  <2>2. Due = vga
    BY <2>1 DEF Due, Done
  <2> QED
    BY <1>2, <2>1, <2>2, AddedCommand DEF IInv, CInv
<1>5. Exact(Due)'
  <2>1. ExactAt(next, n, Effect(vga, r))
    BY <1>1
  <2>2. PICK e : e = Effect(vga, r)
    OBVIOUS
  <2>3. ExactAt(next, n, e) /\ Due' = e
    BY <1>4, <2>1, <2>2
  <2> QED
    BY <2>3 DEF Exact, ExactAt, Colour
<1>6. FlowInv'
  BY <1>3, <1>5 DEF FlowInv, Colour
<1> QED
  BY <1>4, <1>6

LEMMA BeginsKeeps ==
  ASSUME IInv, CInv, CaptureBegins
  PROVE  CInv'
<1>1. /\ pc = "mode12" /\ pc' = "index" /\ round' = 0 /\ Read(Command("index", 0, Unread)) /\ replies # <<>>
      /\ UNCHANGED <<tool, gone, vga, saved, failing, planes, palette, before, struck>>
  BY DEF CaptureBegins, At, Proceed, stub
<1>2. /\ ~gone /\ requests = <<>> /\ replies = <<Reply>>
  BY <1>1, Answered, Places DEF Apart, Single
<1>3. pc \in Sessions /\ tool = "screen" /\ Fresh
  BY <1>1, Places, Within DEF CInv, FreshInv, Sessions, Waiting
<1>4. vga = before /\ struck = {}
  BY <1>3 DEF CInv, QuietInv
<1>5. ShapeInv' /\ FlowInv'
  <2>1. "index" \in CaptureSteps \ Stores /\ saved' = Unread
    BY <1>1, <1>3, Places DEF Stores, Fresh
  <2>2. PICK r : r = Command("index", 0, Unread)[1]
    OBVIOUS
  <2>3. PICK e : e = Effect(vga, r)
    OBVIOUS
  <2>4. e = vga
    <3>1. r = Request("ib", <<"graphicsIndex", 0>>)
      BY <2>2 DEF Command, Ib
    <3>2. r.op = "ib" /\ r.arg[1] = "graphicsIndex"
      BY <3>1, FieldsOf
    <3> QED
      BY <2>3, <3>2 DEF Effect, AfterRead
  <2>5. ExactAt("index", 0, e)
    BY <1>4, <2>4 DEF ExactAt, Planar, Selected, Picked, Attributes, Coloured
  <2>6. ExactAt("index", 0, Effect(vga, Command("index", 0, Unread)[1]))
    BY <2>2, <2>3, <2>5
  <2>7. Fitting("index", 0, Unread)
    BY PutFits, UnreadOK
  <2> QED
    BY <1>1, <1>2, <1>4, <2>1, <2>6, <2>7, Proceeds
<1>6. VgaInv' /\ QuietInv' /\ FreshInv'
  BY <1>1, <1>3, Within, Places DEF CInv, VgaInv, StateOK, QuietInv, FreshInv, Sessions, Waiting
<1>7. RoundInv' /\ SavedInv'
  BY <1>1, <1>3 DEF RoundInv, SavedInv, SavedOK, CInv, Fresh, Selected, Planar, Picked, Attributes, Coloured
<1>8. PictureInv'
  <2>1. planes' = <<>> /\ palette' = <<>> /\ saved'.registers = <<>>
    BY <1>1, <1>3 DEF Fresh, Unread
  <2>2. (PlanesRead = 0 /\ RegistersRead = 0 /\ ColoursRead = 0)'
    BY <1>1 DEF PlanesRead, RegistersRead, ColoursRead, Sofar, Selected, Planar, Picked, Attributes, Coloured
  <2>3. 1 .. 0 = {}
    OBVIOUS
  <2> QED
    BY <2>1, <2>2, <2>3 DEF PictureInv
<1> QED
  BY <1>5, <1>6, <1>7, <1>8 DEF CInv

-----------------------------------------------------------------------------
(* What a good reply is, and where the capture goes from it. *)
LEMMA StepOf ==
  ASSUME IInv, CInv, CaptureStep, ~failing
  PROVE  /\ ~gone /\ requests = <<>> /\ replies # <<>> /\ replies = <<Reply>> /\ struck = {}
         /\ pc \in CaptureSteps /\ Exact(vga) /\ Reply.val = Value /\ saved' = Saved(pc, Value)
         /\ UNCHANGED <<tool, gone, vga, failing, before, struck>>
         /\ planes' = IF pc = "plane" THEN Append(planes, Value) ELSE planes
         /\ palette' = IF pc = "component" THEN Append(palette, Value) ELSE palette
         /\ \/ pc = "putDac" /\ pc' = Leaving /\ requests' = requests \o Ask("D")
            \/ /\ Proceed(pc', round', saved') /\ Follows(pc, round, pc', round')
               /\ IF LoopsOn(pc) THEN pc' = Loops[pc] /\ round' = round + 1
                  ELSE pc' = Then[pc] /\ round' = IF pc \in DOMAIN Loops THEN 0 ELSE round
<1>1. /\ pc \in CaptureSteps /\ replies # <<>> /\ Reply.kind \in Good(Asked(pc)) /\ saved' = Saved(pc, Reply.val)
      /\ planes' = IF pc = "plane" THEN Append(planes, Reply.val) ELSE planes
      /\ palette' = IF pc = "component" THEN Append(palette, Reply.val) ELSE palette
      /\ UNCHANGED <<tool, gone, vga, failing, before, struck>>
  BY DEF CaptureStep, stub
<1>2. ~gone
  BY <1>1 DEF IInv, EndedInv
<1>3. requests = <<>> /\ replies = <<Reply>>
  BY <1>1, <1>2 DEF IInv, ChannelInv, Captures
<1>4. Reply.kind # "err"
  <2>1. PICK op, arg : op \in {"ib", "ob", "m"} /\ Command(pc, round, saved) = <<Request(op, arg)>>
    BY <1>1, CommandShape
  <2>2. Asked(pc) = op
    BY <2>1, FieldsOf DEF Asked
  <2> QED
    BY <1>1, <2>1, <2>2 DEF Good
<1>5. struck = {} /\ Exact(Due) /\ Reply.val = Value
  BY <1>1, <1>2, <1>4 DEF CInv, FlowInv
<1>6. Due = vga
  <2>1. Len(requests) = 0
    BY <1>3
  <2> QED
    BY <2>1 DEF Due, Done
<1>7. CASE Then[pc] = "end"
  <2>1. pc = "putDac"
    BY <1>1, <1>7, Places DEF Then
  <2>2. pc' = Leaving /\ requests' = requests \o Ask("D")
    BY <1>7 DEF CaptureStep, EndPc, Read
  <2> QED
    BY <1>1, <1>2, <1>3, <1>5, <1>6, <2>1, <2>2
<1>8. CASE Then[pc] # "end"
  <2>1. /\ Then[pc] \in CaptureSteps
        /\ Then[pc] \in {"plane", "pick", "register", "component"} => pc \notin DOMAIN Loops
    BY <1>1, <1>8, Places DEF Then, Loops
  <2>2. CASE LoopsOn(pc)
    <3>1. pc' = Loops[pc] /\ round' = round + 1 /\ Proceed(pc', round', saved') /\ pc \in DOMAIN Loops
      BY <1>8, <2>2 DEF CaptureStep, Proceed, LoopsOn
    <3>2. Follows(pc, round, pc', round')
      BY <3>1, Places DEF Follows, Loops
    <3> QED
      BY <1>1, <1>2, <1>3, <1>5, <1>6, <2>2, <3>1, <3>2
  <2>3. CASE ~LoopsOn(pc)
    <3>1. pc' = Then[pc] /\ round' = (IF pc \in DOMAIN Loops THEN 0 ELSE round) /\ Proceed(pc', round', saved')
      BY <1>8, <2>3 DEF CaptureStep, Proceed
    <3>2. Follows(pc, round, pc', round')
      BY <2>1, <3>1 DEF Follows
    <3> QED
      BY <1>1, <1>2, <1>3, <1>5, <1>6, <2>3, <3>1, <3>2
  <2> QED
    BY <2>2, <2>3
<1> QED
  BY <1>7, <1>8

(* The loops. *)
LEMMA RoundStep ==
  ASSUME CInv, pc \in CaptureSteps, ~failing, pc' \in CaptureSteps, ~failing',
         IF LoopsOn(pc) THEN pc' = Loops[pc] /\ round' = round + 1
         ELSE pc' = Then[pc] /\ round' = IF pc \in DOMAIN Loops THEN 0 ELSE round
  PROVE  /\ RoundInv' /\ round \in Nat
         /\ pc = "plane" => PlanesRead = round
         /\ PlanesRead' = IF pc = "plane" THEN round + 1 ELSE PlanesRead
         /\ pc = "register" => RegistersRead = round
         /\ RegistersRead' = IF pc = "register" THEN round + 1 ELSE RegistersRead
         /\ pc = "component" => ColoursRead = round
         /\ ColoursRead' = IF pc = "component" THEN round + 1 ELSE ColoursRead
<1>1. Planes \in Nat \ {0} /\ Colours \in Nat \ {0}
  BY CaptureBounds
<1>2. /\ pc \in Selected => round \in 0 .. Planes - 1
      /\ pc \in Attributes => round \in 0 .. Colours + 1
      /\ pc \in Coloured => round \in 0 .. Colours - 1
      /\ pc \notin Selected \union Attributes \union Coloured => round = 0
  BY DEF CInv, RoundInv
<1>3. CASE pc \in Selected
  <2>1. \/ pc = "select" /\ pc' = "plane" /\ round' = round
        \/ pc = "plane" /\ round + 1 < Planes /\ pc' = "select" /\ round' = round + 1
        \/ pc = "plane" /\ ~(round + 1 < Planes) /\ pc' = "putModeAt" /\ round' = 0
    BY <1>3 DEF Selected, LoopsOn, Loops, Times, Then
  <2> QED
    BY <1>1, <1>2, <1>3, <2>1, Places DEF RoundInv, PlanesRead, RegistersRead, ColoursRead, Sofar, Selected, Planar,
                                  Picked, Attributes, Coloured
<1>4. CASE pc \in Attributes
  <2>1. \/ pc = "flip" /\ pc' = "pick" /\ round' = round
        \/ pc = "pick" /\ pc' = "register" /\ round' = round
        \/ pc = "register" /\ round + 1 < Colours + 2 /\ pc' = "flip" /\ round' = round + 1
        \/ pc = "register" /\ ~(round + 1 < Colours + 2) /\ pc' = "putFlip" /\ round' = 0
    BY <1>4 DEF Attributes, Picked, LoopsOn, Loops, Times, Then
  <2> QED
    BY <1>1, <1>2, <1>4, <2>1, Places DEF RoundInv, PlanesRead, RegistersRead, ColoursRead, Sofar, Selected, Planar,
                                  Picked, Attributes, Coloured
<1>5. CASE pc \in Coloured
  <2>1. \/ pc = "colour" /\ pc' = "component" /\ round' = round
        \/ pc = "component" /\ round + 1 < Colours /\ pc' = "colour" /\ round' = round + 1
        \/ pc = "component" /\ ~(round + 1 < Colours) /\ pc' = "putDac" /\ round' = 0
    BY <1>5 DEF Coloured, LoopsOn, Loops, Times, Then
  <2> QED
    BY <1>1, <1>2, <1>5, <2>1, Places DEF RoundInv, PlanesRead, RegistersRead, ColoursRead, Sofar, Selected, Planar,
                                  Picked, Attributes, Coloured
<1>6. CASE pc \notin Selected \union Attributes \union Coloured
  <2>1. pc \notin DOMAIN Loops /\ round = 0 /\ round' = 0 /\ pc' = Then[pc]
    BY <1>2, <1>6 DEF LoopsOn, Loops, Selected, Attributes, Picked, Coloured
  <2>2. CASE pc \in {"index", "toMap", "map", "toMode", "mode", "readMode", "toPlanes"}
    BY <1>1, <2>1, <2>2, Places DEF Then, RoundInv, PlanesRead, RegistersRead, ColoursRead, Sofar, Selected, Planar,
                                  Picked, Attributes, Coloured
  <2>3. CASE pc \in {"putModeAt", "putMode", "putMapAt", "putMap", "putIndex", "attribute"}
    BY <1>1, <2>1, <2>3, Places DEF Then, RoundInv, PlanesRead, RegistersRead, ColoursRead, Sofar, Selected, Planar,
                                  Picked, Attributes, Coloured
  <2>4. CASE pc \in {"putFlip", "putAttribute", "dacState", "dac", "putDac"}
    BY <1>1, <2>1, <2>4, Places DEF Then, RoundInv, PlanesRead, RegistersRead, ColoursRead, Sofar, Selected, Planar,
                                  Picked, Attributes, Coloured
  <2> QED
    BY <1>6, <2>2, <2>3, <2>4, Places DEF Selected, Attributes, Picked, Coloured
<1> QED
  BY <1>3, <1>4, <1>5, <1>6

-----------------------------------------------------------------------------
(* The registers that have been read, in a step and in the one after it.   *)
LEMMA SavedStep ==
  ASSUME CInv, pc \in CaptureSteps, ~failing, UNCHANGED before, saved' = Saved(pc, Value),
         Follows(pc, round, pc', round')
  PROVE  /\ SavedInv'
         /\ saved'.registers = IF pc = "register" THEN Append(saved.registers, Value) ELSE saved.registers
<1>1. /\ SavedOK(saved) /\ DOMAIN saved = Names \ {"flip"}
      /\ before.map \in 0 .. 3 /\ before.mode \in Nat
      /\ before.attribute \in Addressing /\ before.dac \in 0 .. 255
  BY DEF CInv, SavedInv, SavedOK, VgaInv, StateOK
<1>2. PICK val : val = Value
  OBVIOUS
<1>3. saved' = Saved(pc, val)
  BY <1>2
<1>4. CASE pc \in {"index", "map", "mode"}
  <2>1. val = before[pc] /\ saved' = [saved EXCEPT ![pc] = val]
    BY <1>2, <1>3, <1>4 DEF Value, Saved
  <2>2. pc' = Then[pc]
    BY <1>4 DEF Follows
  <2>3. SavedOK(saved')
    BY <1>1, <1>4, <2>1 DEF SavedOK, Names
  <2> QED
    BY <1>1, <1>4, <2>1, <2>2, <2>3 DEF Then, Names, CInv, SavedInv, Planar, Selected, Attributes, Picked, Coloured
<1>5. CASE pc \in {"attribute", "dacState", "dac"}
  <2>1. val = before[pc] /\ saved' = [saved EXCEPT ![pc] = val]
    BY <1>2, <1>3, <1>5 DEF Value, Saved
  <2>2. pc' = Then[pc]
    BY <1>5 DEF Follows
  <2>3. SavedOK(saved')
    BY <1>1, <1>5, <2>1 DEF SavedOK, Names
  <2> QED
    BY <1>1, <1>5, <2>1, <2>2, <2>3, Places
    DEF Then, Names, CInv, SavedInv, Planar, Selected, Attributes, Picked, Coloured
<1>6. CASE pc = "register"
  <2>1. saved' = [saved EXCEPT !.registers = Append(saved.registers, val)]
    BY <1>3, <1>6 DEF Saved
  <2>2. pc' \in {"flip", "putFlip"}
    BY <1>6 DEF Follows, Then
  <2>3. SavedOK(saved')
    BY <1>1, <2>1 DEF SavedOK, Names
  <2> QED
    BY <1>1, <1>2, <1>6, <2>1, <2>2, <2>3, Places
    DEF Names, CInv, SavedInv, Planar, Selected, Attributes, Picked, Coloured
<1>7. CASE pc \notin {"index", "map", "mode", "attribute", "dacState", "dac", "register"}
  <2>1. saved' = saved
    BY <1>3, <1>7 DEF Saved
  <2>2. CASE pc \in {"toMap", "toMode"} \union Planar
    <3>1. \/ pc = "toMap" /\ pc' = "map"
          \/ pc = "toMode" /\ pc' = "mode"
          \/ pc \in Planar /\ pc' \in {"toPlanes", "select", "plane", "putModeAt"}
      BY <2>2 DEF Follows, Then, Planar, Selected
    <3> QED
      BY <1>1, <2>1, <2>2, <3>1, Places DEF CInv, SavedInv, SavedOK, Planar, Selected, Attributes, Picked, Coloured
  <2>3. CASE pc \in {"putModeAt", "putMode", "putMapAt", "putMap", "putIndex"}
    <3>1. pc' = Then[pc]
      BY <2>3 DEF Follows
    <3> QED
      BY <1>1, <2>1, <2>3, <3>1, Places DEF Then, CInv, SavedInv, SavedOK, Planar, Selected, Attributes, Picked, Coloured
  <2>4. CASE pc \in {"flip", "pick", "putFlip", "putAttribute"}
    <3>1. pc' = Then[pc]
      BY <2>4 DEF Follows
    <3> QED
      BY <1>1, <2>1, <2>4, <3>1, Places DEF Then, CInv, SavedInv, SavedOK, Planar, Selected, Attributes, Picked, Coloured
  <2>5. CASE pc \in Coloured \union {"putDac"}
    <3>1. pc' \in {"component", "colour", "putDac"} /\ pc # "putDac"
      BY <2>5, Places DEF Follows, Then, Coloured
    <3> QED
      BY <1>1, <2>1, <2>5, <3>1, Places DEF CInv, SavedInv, SavedOK, Planar, Selected, Attributes, Picked, Coloured
  <2> QED
    BY <1>7, <2>1, <2>2, <2>3, <2>4, <2>5, Places DEF Planar, Selected, Coloured
<1> QED
  BY <1>4, <1>5, <1>6, <1>7

(* The sequences that make the picture. *)
LEMMA PictureStep ==
  ASSUME CInv, pc \in CaptureSteps, ~failing, pc' \in CaptureSteps, ~failing', UNCHANGED before,
         IF LoopsOn(pc) THEN pc' = Loops[pc] /\ round' = round + 1
         ELSE pc' = Then[pc] /\ round' = IF pc \in DOMAIN Loops THEN 0 ELSE round,
         planes' = IF pc = "plane" THEN Append(planes, Value) ELSE planes,
         palette' = IF pc = "component" THEN Append(palette, Value) ELSE palette,
         saved'.registers = IF pc = "register" THEN Append(saved.registers, Value) ELSE saved.registers
  PROVE  PictureInv'
<1>1. /\ round \in Nat
      /\ pc = "plane" => PlanesRead = round
      /\ PlanesRead' = IF pc = "plane" THEN round + 1 ELSE PlanesRead
      /\ pc = "register" => RegistersRead = round
      /\ RegistersRead' = IF pc = "register" THEN round + 1 ELSE RegistersRead
      /\ pc = "component" => ColoursRead = round
      /\ ColoursRead' = IF pc = "component" THEN round + 1 ELSE ColoursRead
  BY RoundStep
<1>2. /\ planes = [p \in 1 .. PlanesRead |-> <<p - 1, 0>>]
      /\ saved.registers = [r \in 1 .. RegistersRead |-> before.registers[Register(r - 1)]]
      /\ palette = [c \in 1 .. ColoursRead |-> Colour(c - 1)]
  BY DEF CInv, PictureInv
<1>3. planes' = [p \in 1 .. PlanesRead' |-> <<p - 1, 0>>]
  <2>1. CASE pc = "plane"
    <3> DEFINE g == [p \in Nat |-> <<p - 1, 0>>]
    <3>1. planes = [p \in 1 .. round |-> g[p]] /\ Value = g[round + 1]
      BY <1>1, <1>2, <2>1 DEF Value
    <3>2. [p \in 1 .. round + 1 |-> g[p]] = [p \in 1 .. round + 1 |-> <<p - 1, 0>>]
      BY <1>1
    <3> HIDE DEF g
    <3>3. Append(planes, Value) = [p \in 1 .. round + 1 |-> g[p]]
      BY <1>1, <3>1, Continued
    <3> QED
      BY <1>1, <2>1, <3>2, <3>3
  <2> QED
    BY <1>1, <1>2, <2>1
<1>4. saved'.registers = [r \in 1 .. RegistersRead' |-> before.registers[Register(r - 1)]]
  <2>1. CASE pc = "register"
    <3> DEFINE g == [r \in Nat |-> before.registers[Register(r - 1)]]
    <3>1. saved.registers = [r \in 1 .. round |-> g[r]] /\ Value = g[round + 1]
      BY <1>1, <1>2, <2>1 DEF Value
    <3>2. [r \in 1 .. round + 1 |-> g[r]] = [r \in 1 .. round + 1 |-> before.registers[Register(r - 1)]]
      BY <1>1
    <3> HIDE DEF g
    <3>3. Append(saved.registers, Value) = [r \in 1 .. round + 1 |-> g[r]]
      BY <1>1, <3>1, Continued
    <3> QED
      BY <1>1, <2>1, <3>2, <3>3
  <2> QED
    BY <1>1, <1>2, <2>1
<1>5. palette' = [c \in 1 .. ColoursRead' |-> Colour(c - 1)]
  <2>1. CASE pc = "component"
    <3> DEFINE g == [c \in Nat |-> Colour(c - 1)]
    <3>1. palette = [c \in 1 .. round |-> g[c]] /\ Value = g[round + 1]
      BY <1>1, <1>2, <2>1 DEF Value
    <3>2. [c \in 1 .. round + 1 |-> g[c]] = [c \in 1 .. round + 1 |-> Colour(c - 1)]
      BY <1>1
    <3> HIDE DEF g
    <3>3. Append(palette, Value) = [c \in 1 .. round + 1 |-> g[c]]
      BY <1>1, <3>1, Continued
    <3> QED
      BY <1>1, <2>1, <3>2, <3>3
  <2> QED
    BY <1>1, <1>2, <2>1
<1> QED
  BY <1>3, <1>4, <1>5 DEF PictureInv, Colour

-----------------------------------------------------------------------------
LEMMA KnownNext ==
  ASSUME CInv, pc \in CaptureSteps, ~failing, pc' \in CaptureSteps, ~failing', UNCHANGED before,
         RoundInv', SavedInv', PictureInv'
  PROVE  Known(pc', round', saved') /\ Fitting(pc', round', saved')
<1>1. /\ pc' = "putIndex" => saved'.index = before.index
      /\ pc' \in {"readMode", "putMode"} => saved'.mode = before.mode
      /\ pc' = "putMap" => saved'.map = before.map
      /\ pc' \in {"pick", "putAttribute"} => saved'.attribute = before.attribute
      /\ pc' = "putDac" => saved'.dac = before.dac /\ saved'.dacState = before.dacState
      /\ SavedOK(saved')
  BY Places DEF SavedInv, Planar, Selected, Attributes, Picked, Coloured
<1>2. ASSUME pc' = "colour"
      PROVE  DacIndex(saved'.registers[round' + 1], saved'.registers[Colours + 1], saved'.registers[Colours + 2])
               = Colour(round')
  <2>1. saved'.registers = [r \in 1 .. Colours + 2 |-> before.registers[Register(r - 1)]]
    <3>1. RegistersRead' = Colours + 2
      BY <1>2 DEF RegistersRead, Sofar, Attributes, Picked, Coloured
    <3> QED
      BY <1>2, <3>1 DEF PictureInv
  <2>2. round' \in 0 .. Colours - 1 /\ Colours \in Nat \ {0}
    BY <1>2, CaptureBounds, Places DEF RoundInv, Coloured
  <2>3. \A r \in 1 .. Colours + 2 : saved'.registers[r] = before.registers[Register(r - 1)]
    BY <2>1
  <2>4. PICK k : k = round'
    OBVIOUS
  <2>5. k \in 0 .. Colours - 1 /\ Colours \in Nat \ {0}
    BY <2>2, <2>4
  <2>6. /\ saved'.registers[k + 1] = before.registers[Register(k)]
        /\ saved'.registers[Colours + 1] = before.registers[Register(Colours)]
        /\ saved'.registers[Colours + 2] = before.registers[Register(Colours + 1)]
    <3>1. /\ Colours + 1 \in 1 .. Colours + 2 /\ (Colours + 1) - 1 = Colours
          /\ Colours + 2 \in 1 .. Colours + 2 /\ (Colours + 2) - 1 = Colours + 1
          /\ k + 1 \in 1 .. Colours + 2 /\ (k + 1) - 1 = k
      BY <2>5
    <3> QED
      BY <2>3, <3>1
  <2>7. Register(Colours) = ModeControl /\ Register(Colours + 1) = ColourSelect
    BY <2>2 DEF Register
  <2> QED
    BY <2>4, <2>7, <2>6 DEF Colour
<1>3. pc' = "select" => round' \in 0 .. 3
  BY CaptureBounds, Places DEF RoundInv, Selected
<1>4. PICK at, k, s : at = pc' /\ k = round' /\ s = saved'
  OBVIOUS
<1>5. Fitting(at, k, s)
  <2>1. CASE at = "readMode"
    <3>1. s.mode \in Nat
      BY <1>1, <1>4 DEF SavedOK
    <3>2. s.mode - (s.mode % 2) \in Nat
      BY <3>1
    <3> QED
      BY <2>1, <3>2 DEF Fitting, Stores, Data
  <2>2. CASE at = "select"
    BY <1>3, <1>4, <2>2 DEF Fitting, Stores, Data
  <2>3. CASE at = "pick"
    <3>1. s.attribute[1] \in {0, 1}
      BY <1>1, <1>4 DEF SavedOK, Addressing
    <3>2. Register(k) \in Nat
      BY <1>4, <2>3, CaptureBounds, Places DEF RoundInv, Attributes, Picked, Register, ModeControl, ColourSelect
    <3> QED
      BY <2>3, <3>1, <3>2 DEF Fitting, Stores, Addressing
  <2>4. CASE at = "colour"
    <3>1. k \in 0 .. Colours - 1
      BY <1>4, <2>4, Places DEF RoundInv, Coloured
    <3>2. DacIndex(s.registers[k + 1], s.registers[Colours + 1], s.registers[Colours + 2]) = Colour(k)
      <4>1. DacIndex(s.registers[k + 1], s.registers[Colours + 1], s.registers[Colours + 2]) = Colour(round')
        BY <1>2, <1>4, <2>4
      <4> QED
        BY <1>4, <4>1
    <3>3. Colour(k) \in 0 .. 255
      BY <3>1, ColourRange DEF CInv
    <3> QED
      BY <2>4, <3>2, <3>3 DEF Fitting, Stores
  <2> QED
    BY <1>1, <1>4, <2>1, <2>2, <2>3, <2>4, PutFits
<1> QED
  BY <1>1, <1>2, <1>3, <1>4, <1>5 DEF Known

LEMMA StepKeeps ==
  ASSUME IInv, CInv, CaptureStep, ~failing
  PROVE  CInv'
<1>1. /\ ~gone /\ requests = <<>> /\ replies # <<>> /\ replies = <<Reply>> /\ struck = {}
      /\ pc \in CaptureSteps /\ Exact(vga) /\ Reply.val = Value /\ saved' = Saved(pc, Value)
      /\ UNCHANGED <<tool, gone, vga, failing, before, struck>>
      /\ planes' = IF pc = "plane" THEN Append(planes, Value) ELSE planes
      /\ palette' = IF pc = "component" THEN Append(palette, Value) ELSE palette
  BY StepOf
<1>2. CASE pc = "putDac" /\ pc' = Leaving /\ requests' = requests \o Ask("D")
  <2>1. SavedOK(saved')
    BY <1>1, <1>2 DEF Saved, CInv, SavedInv, SavedOK
  <2> QED
    BY <1>1, <1>2, <2>1, LeavesCapture
<1>3. CASE /\ Proceed(pc', round', saved') /\ Follows(pc, round, pc', round')
           /\ IF LoopsOn(pc) THEN pc' = Loops[pc] /\ round' = round + 1
              ELSE pc' = Then[pc] /\ round' = IF pc \in DOMAIN Loops THEN 0 ELSE round
  <2>1. pc' \in CaptureSteps /\ ~failing'
    BY <1>1, <1>3 DEF Follows
  <2>2. RoundInv'
    BY <1>1, <1>3, <2>1, RoundStep
  <2>3. SavedInv' /\ saved'.registers = IF pc = "register" THEN Append(saved.registers, Value) ELSE saved.registers
    BY <1>1, <1>3, SavedStep
  <2>4. PictureInv'
    BY <1>1, <1>3, <2>1, <2>3, PictureStep
  <2>5. Known(pc', round', saved') /\ Fitting(pc', round', saved')
    BY <1>1, <2>1, <2>2, <2>3, <2>4, KnownNext
  <2>6. DOMAIN vga = Names /\ ExactAt(pc, round, vga)
    BY <1>1 DEF CInv, VgaInv, StateOK, Exact
  <2>7. /\ ExactAt(pc', round', Effect(vga, Command(pc', round', saved')[1]))
        /\ pc' \in {"pick", "putAttribute"} => vga.flip = "index"
    BY <1>1, <1>3, <2>5, <2>6, Onward DEF CInv
  <2>8. pc' = "component" => vga.dac = Colour(round')
    <3>1. pc' = "component" => pc = "colour" /\ round' = round
      BY <1>1, <1>3, Places DEF Follows, Then
    <3> QED
      BY <2>6, <3>1 DEF ExactAt
  <2>9. vga.registers = before.registers /\ vga.attribute[1] = before.attribute[1]
    BY <2>6 DEF ExactAt
  <2>10. Read(Command(pc', round', saved'))
    BY <1>3 DEF Proceed
  <2>11. ShapeInv' /\ FlowInv'
    <3>1. PICK next, n, s : next = pc' /\ n = round' /\ s = saved'
      OBVIOUS
    <3>2. /\ next \in CaptureSteps /\ Fitting(next, n, s)
          /\ Read(Command(next, n, s)) /\ ExactAt(next, n, Effect(vga, Command(next, n, s)[1]))
          /\ (next = "component" => vga.dac = Colour(n)) /\ (next \in {"pick", "putAttribute"} => vga.flip = "index")
      BY <2>1, <2>5, <2>7, <2>8, <2>10, <3>1
    <3>3. pc' = next /\ round' = n /\ saved' = s
      BY <3>1
    <3> QED
      BY <1>1, <2>9, <3>2, <3>3, Proceeds
  <2>12. VgaInv' /\ tool = "screen" /\ pc' \notin Sessions \union {"mode12"}
    BY <1>1, <2>1, Within, Places DEF CInv, FreshInv, VgaInv, StateOK, Sessions, Waiting
  <2>13. QuietInv' /\ FreshInv'
    BY <1>1, <2>1, <2>12 DEF QuietInv, FreshInv
  <2> QED
    BY <2>2, <2>3, <2>4, <2>11, <2>12, <2>13 DEF CInv
<1> QED
  BY <1>2, <1>3, StepOf

(* A finally clause goes on after a fault. *)
LEMMA FinallyKeeps ==
  ASSUME IInv, CInv, CaptureStep, failing
  PROVE  CInv'
<1>1. /\ pc \in CaptureSteps \cap Puts /\ round = 0 /\ tool = "screen"
      /\ UNCHANGED <<tool, vga, failing, before>> /\ saved' = Saved(pc, Reply.val)
  BY DEF CaptureStep, CInv, RoundInv, FreshInv, Puts, Selected, Attributes, Picked, Coloured
<1>2. saved' = saved
  BY <1>1 DEF Saved, Puts
<1>3. CASE pc \in Ends
  <2>1. pc' = Leaving /\ requests' = requests \o Ask("D")
    BY <1>3 DEF CaptureStep, FailPc, Read
  <2>2. SavedOK(saved')
    BY <1>2 DEF CInv, SavedInv, SavedOK
  <2> QED
    BY <1>1, <2>1, <2>2, LeavesCapture
<1>4. CASE pc \notin Ends
  <2>1. /\ pc' = Then[pc] /\ pc' \in CaptureSteps \cap Puts /\ pc' # "putDac"
        /\ pc' = "putFlip" => FALSE
    BY <1>1, <1>4, Places DEF CaptureStep, Proceed, Puts, Ends, Then, LoopsOn, Loops
  <2>2. round' = 0 /\ Read(Command(pc', 0, saved))
    BY <1>1, <1>2, <1>4, Places DEF CaptureStep, Proceed, Puts, Ends, Then, LoopsOn, Loops
  <2>3. ShapeInv'
    <3>1. PICK r : r = Command(pc', 0, saved)[1]
      OBVIOUS
    <3>3. Fitting(pc', 0, saved)
      BY <2>1, PutFits DEF CInv, SavedInv, Puts
    <3>4. Shaped(r) /\ Command(pc', 0, saved) = <<r>>
      BY <2>1, <3>1, <3>3, CommandShaped
    <3>5. requests' = requests \o <<r>>
      BY <2>2, <3>4 DEF Read
    <3> QED
      BY <3>4, <3>5, AddedShape DEF IInv, CInv
  <2>4. VgaInv' /\ pc' \notin Sessions \union {"mode12"}
    BY <1>1, <2>1, Within, Places DEF CInv, VgaInv, StateOK, Sessions, Waiting
  <2>5. QuietInv' /\ FreshInv'
    BY <1>1, <2>1, <2>4 DEF QuietInv, FreshInv
  <2>6. RoundInv'
    BY <1>1, <2>1, <2>2 DEF RoundInv, Puts, Selected, Attributes, Picked, Coloured
  <2>7. SavedInv'
    BY <1>1, <1>2, <1>4, <2>1 DEF Then, Puts, Ends, CInv, SavedInv, SavedOK, Planar, Selected, Attributes, Picked, Coloured
  <2>8. PictureInv' /\ FlowInv'
    BY <1>1 DEF PictureInv, FlowInv
  <2> QED
    BY <2>3, <2>4, <2>5, <2>6, <2>7, <2>8 DEF CInv
<1> QED
  BY <1>3, <1>4

-----------------------------------------------------------------------------
LEMMA CInvInit == Init => CInv
<1> SUFFICES ASSUME Init PROVE CInv
  OBVIOUS
<1>1. /\ pc = "idle" /\ requests = <<>> /\ saved = Unread /\ vga \in Adapters /\ before = vga
      /\ ~failing
  BY DEF Init, SessionInit
<1>2. pc \notin CaptureSteps \union Sessions \union {"mode12"}
  BY <1>1, Within DEF Apart
<1>3. ShapeInv
  <2>1. Len(requests) = 0
    BY <1>1
  <2> QED
    BY <2>1 DEF ShapeInv
<1>4. VgaInv
  <2>1. vga \in [index : Nat, map : 0 .. 3, mode : Nat, attribute : {0, 1} \X Nat, flip : {"index", "data"},
                 registers : [Registers -> Nat], dacState : {"read", "write"}, dac : 0 .. 255]
    BY <1>1, AdapterAssumption
  <2>2. StateOK(vga)
    BY <2>1 DEF StateOK, Names, Addressing
  <2> QED
    BY <1>1, <2>2 DEF VgaInv
<1>5. QuietInv /\ FreshInv /\ RoundInv /\ PictureInv /\ FlowInv
  BY <1>1, <1>2 DEF QuietInv, FreshInv, RoundInv, PictureInv, FlowInv
<1>6. SavedInv
  <2>1. SavedOK(saved)
    BY <1>1, UnreadOK
  <2> QED
    BY <1>2, <2>1, Places DEF SavedInv, SavedOK, Planar, Selected, Attributes, Picked, Coloured
<1> QED
  BY <1>3, <1>4, <1>5, <1>6 DEF CInv

LEMMA CInvStep == IInv /\ CInv /\ [Next]_vars => CInv'
<1> SUFFICES ASSUME IInv, CInv, [Next]_vars PROVE CInv'
  OBVIOUS
<1>1. CASE CommandStart
  BY <1>1, StartKeeps
<1>2. CASE AllClient
  <2>1. CASE Open
    BY <2>1, OpenKeeps
  <2>2. CASE Client /\ UNCHANGED <<vga, capture>>
    BY <2>2, ClientMoves, MoveKeeps
  <2>3. CASE GraphicsMode
    BY <2>3, GraphicsModeKeeps
  <2>4. CASE CaptureBegins
    BY <2>4, BeginsKeeps
  <2>5. CASE Capturing
    BY <2>5, StepKeeps, FinallyKeeps, RaiseKeeps, RefusedKeeps DEF Capturing
  <2> QED
    BY <1>2, <2>1, <2>2, <2>3, <2>4, <2>5 DEF AllClient
<1>3. CASE AllStub
  BY <1>3, StubKeepsCapture, AdapterKeeps DEF AllStub
<1>4. CASE Others
  BY <1>4, ClientMoves, MoveKeeps, GuestKeeps DEF Others
<1>5. CASE UNCHANGED vars
  BY <1>5, StutterKeeps
<1> QED
  BY <1>1, <1>2, <1>3, <1>4, <1>5 DEF Next

-----------------------------------------------------------------------------
(* A picture that is handed on is the guest's: every plane in its place,   *)
(* read in read mode 0, and the colours of the palette that the guest had  *)
(* set when the connection was made, whatever happened to the commands.    *)
THEOREM TakesGuestsPicture == Spec => []CaptureFaithful
<1>1. CInv => CaptureFaithful
  <2> SUFFICES ASSUME CInv, pc = "putDac", ~failing
               PROVE  /\ planes = [p \in 1 .. Planes |-> <<p - 1, 0>>]
                      /\ palette = [c \in 1 .. Colours |-> DacIndex(before.registers[c - 1],
                                      before.registers[ModeControl], before.registers[ColourSelect])]
    BY DEF CaptureFaithful
  <2>1. PlanesRead = Planes /\ ColoursRead = Colours /\ pc \in CaptureSteps
    BY Places DEF PlanesRead, ColoursRead, Sofar, Selected, Planar, Coloured
  <2>2. /\ planes = [p \in 1 .. Planes |-> <<p - 1, 0>>]
        /\ palette = [c \in 1 .. Colours |-> Colour(c - 1)]
    BY <2>1 DEF CInv, PictureInv
  <2>3. \A c \in 1 .. Colours : Register(c - 1) = c - 1
    <3>1. \A c \in 1 .. Colours : c - 1 < Colours
      BY CaptureBounds
    <3> QED
      BY <3>1 DEF Register
  <2> QED
    BY <2>2, <2>3 DEF Colour
<1>2. Init => IInv /\ CInv
  BY IInvInit, CInvInit
<1>3. IInv /\ CInv /\ [Next]_vars => IInv' /\ CInv'
  BY IInvStep, CInvStep
<1> QED
  BY <1>1, <1>2, <1>3, PTL DEF Spec

-----------------------------------------------------------------------------
(* One fault: what is in flight outside the capture. *)
LEMMA Ahead ==
  ASSUME IInv, BackInv, pc \notin CaptureSteps
  PROVE  \A n \in 2 .. Len(requests) : ~Reprograms(requests[n])
<1>1. CASE gone
  <2>1. requests = <<>>
    BY <1>1 DEF IInv, EndedInv
  <2>2. Len(requests) = 0
    BY <2>1
  <2> QED
    BY <2>2
<1>2. CASE ~gone
  BY <1>2 DEF BackInv
<1> QED
  BY <1>1, <1>2

LEMMA Outwards ==
  ASSUME IInv, CInv, SafeInv, NEW q, Asks(q), Sends(q), UNCHANGED <<vga, before>>,
         \A n \in 2 .. Len(requests) : ~Reprograms(requests[n]),
         pc' \notin CaptureSteps, OneFault', ~gone' /\ struck' = {} => Quiet(requests),
         NEW d, d = Due, ~gone' => Back(d)'
  PROVE  RInv'
<1>1. /\ WellFormed(requests') /\ Due' = d /\ SafeInv' /\ (Quiet(requests) => Quiet(requests'))
      /\ \A n \in 2 .. Len(requests') : ~Reprograms(requests'[n])
  BY AsksQuietly, AddedQuietly DEF Sends, IInv, CInv
<1>2. BackInv'
  BY <1>1 DEF BackInv, Quiet, Back, OffGuard
<1>3. FinallyInv'
  BY DEF FinallyInv
<1> QED
  BY <1>1, <1>2, <1>3 DEF RInv

LEMMA MoveReturns ==
  ASSUME IInv, CInv, RInv, Moves, UNCHANGED <<vga, capture>>
  PROVE  RInv'
<1>1. PICK q : Asks(q) /\ Sends(q)
  BY DEF Moves
<1>2. UNCHANGED <<vga, before, struck, gone>>
  BY DEF capture, Moves
<1>3. pc \notin CaptureSteps /\ pc' \notin CaptureSteps
  BY Within DEF Moves
<1>4. PICK d : d = Due
  OBVIOUS
<1>5. ~gone => Back(d) /\ (struck = {} => Quiet(requests))
  BY <1>3, <1>4 DEF RInv, BackInv, Quiet
<1>6. ~gone' => Back(d)'
  BY <1>2, <1>5 DEF Back, OffGuard
<1>7. OneFault' /\ SafeInv
  BY <1>2 DEF RInv, OneFault
<1>8. \A n \in 2 .. Len(requests) : ~Reprograms(requests[n])
  BY <1>3, Ahead DEF RInv
<1> QED
  BY <1>1, <1>2, <1>3, <1>4, <1>5, <1>6, <1>7, <1>8, Outwards

LEMMA GraphicsModeReturns ==
  ASSUME IInv, CInv, RInv, GraphicsMode
  PROVE  RInv'
<1>1. /\ pc = "state" /\ pc' = "mode12" /\ UNCHANGED <<gone, vga, capture>>
      /\ requests' = requests \o <<Request("m", None)>>
  BY DEF GraphicsMode, At, Read, Ask, stub
<1>2. pc' \notin CaptureSteps /\ pc \notin CaptureSteps
  BY <1>1, Places
<1>3. UNCHANGED <<vga, before, struck, gone>>
  BY <1>1 DEF capture
<1>4. PICK q : q = <<Request("m", None)>>
  OBVIOUS
<1>5. Asks(q) /\ Sends(q)
  BY <1>1, <1>4 DEF Asks, Ops, Sends, Serves
<1>6. PICK d : d = Due
  OBVIOUS
<1>7. ~gone => Back(d) /\ (struck = {} => Quiet(requests))
  BY <1>2, <1>6 DEF RInv, BackInv, Quiet
<1>8. ~gone' => Back(d)'
  BY <1>3, <1>7 DEF Back, OffGuard
<1>9. OneFault' /\ SafeInv
  BY <1>3 DEF RInv, OneFault
<1>10. \A n \in 2 .. Len(requests) : ~Reprograms(requests[n])
  BY <1>2, Ahead DEF RInv
<1> QED
  BY <1>2, <1>3, <1>5, <1>6, <1>7, <1>8, <1>9, <1>10, Outwards

LEMMA StartReturns ==
  ASSUME RInv, CommandStart
  PROVE  RInv'
<1>1. /\ pc = "idle" /\ pc' = "connect" /\ UNCHANGED <<requests, vga, before, struck, gone>>
  BY DEF CommandStart, Start, channel, stub
<1>2. pc \notin CaptureSteps /\ pc' \notin CaptureSteps
  BY <1>1, Places
<1>3. Due' = Due /\ (Done(vga, 1))' = Done(vga, 1)
  BY <1>1 DEF Due, Done
<1>4. SafeInv' /\ OneFault' /\ FinallyInv'
  BY <1>1, <1>2, <1>3 DEF RInv, SafeInv, Harmless, OneFault, FinallyInv
<1>5. PICK d : d = Due /\ d = Due'
  BY <1>3
<1>6. BackInv'
  BY <1>1, <1>2, <1>5 DEF RInv, BackInv, Back, OffGuard
<1> QED
  BY <1>4, <1>6 DEF RInv

LEMMA OpenReturns ==
  ASSUME IInv, CInv, RInv, Open
  PROVE  RInv'
<1>1. /\ before' = vga /\ struck' = {} /\ UNCHANGED vga /\ pc' \in {"frame", "breaking"}
      /\ requests' \in {Ask("c") \o Ask("m"), Ask("03") \o Ask("?")}
  BY DEF Open, Connect
<1>2. PICK a, b : requests' = <<a, b>> /\ ~Reprograms(a) /\ ~Reprograms(b)
  <2>1. \A op \in Ops \ {"Z1"} : ~Reprograms(Request(op, None))
    BY AsksShaped
  <2>2. \/ requests' = <<Request("c", None), Request("m", None)>>
        \/ requests' = <<Request("03", None), Request("?", None)>>
    BY <1>1, Tuples DEF Ask
  <2>3. {"c", "m", "03", "?"} \subseteq Ops \ {"Z1"}
    BY DEF Ops
  <2> QED
    BY <2>1, <2>2, <2>3
<1>3. Len(requests') = 2 /\ requests'[1] = a /\ requests'[2] = b
  BY <1>2
<1>4. pc' \notin CaptureSteps
  BY <1>1, Places
<1>5. Due' = vga
  BY <1>1, <1>2, <1>3 DEF Due, Done, Effect, Reprograms
<1>6. SafeInv'
  BY <1>1, <1>2, <1>3 DEF SafeInv, Harmless, Reprograms
<1>7. BackInv'
  <2>1. \A n \in 1 .. Len(requests') : requests'[n] \in {a, b}
    BY <1>3
  <2>2. \A n \in 2 .. Len(requests') : n \in 1 .. Len(requests')
    BY <1>3
  <2> QED
    BY <1>1, <1>2, <1>5, <2>1, <2>2 DEF BackInv, Back
<1>8. FinallyInv' /\ OneFault'
  BY <1>1, <1>4 DEF FinallyInv, OneFault
<1> QED
  BY <1>6, <1>7, <1>8 DEF RInv

LEMMA RefusedReturns ==
  ASSUME RInv, CaptureRefused
  PROVE  RInv'
<1>1. pc' = "idle" /\ gone' /\ UNCHANGED <<requests, vga, before, struck>>
  BY DEF CaptureRefused, channel, capture, stub
<1>2. pc' \notin CaptureSteps
  BY <1>1, Places
<1>3. SafeInv' /\ OneFault' /\ FinallyInv' /\ BackInv'
  BY <1>1, <1>2 DEF RInv, SafeInv, Done, Harmless, OneFault, FinallyInv, BackInv
<1> QED
  BY <1>3 DEF RInv

-----------------------------------------------------------------------------
(* The guest and 86Box. *)
LEMMA OutsideReturns ==
  ASSUME RInv, UNCHANGED <<pc, vga, capture>>, requests' \in {requests, <<>>},
         pc \in CaptureSteps /\ failing /\ ~gone' => UNCHANGED <<requests, replies, running, owed, gone>>,
         gone' \/ UNCHANGED <<requests, gone>>
  PROVE  RInv'
<1>1. UNCHANGED <<round, failing, before, struck>>
  BY DEF capture
<1>2. CASE requests' = requests
  <2>1. Due' = Due /\ (Done(vga, 1))' = Done(vga, 1)
    BY <1>2 DEF Due, Done
  <2>2. PICK d : d = Due /\ d = Due'
    BY <2>1
  <2>3. SafeInv' /\ OneFault'
    BY <1>1, <1>2, <2>1 DEF RInv, SafeInv, Harmless, OneFault
  <2>4. BackInv'
    BY <1>1, <1>2, <2>2 DEF RInv, BackInv, Back, OffGuard
  <2>5. FinallyInv'
    <3>1. CASE gone' \/ ~(pc \in CaptureSteps /\ failing)
      BY <1>1, <3>1 DEF FinallyInv
    <3>2. CASE ~gone' /\ pc \in CaptureSteps /\ failing
      <4>1. Exact(d) => Exact(d)'
        BY <1>1 DEF Exact, ExactAt, Colour
      <4> QED
        BY <1>1, <2>2, <3>2, <4>1 DEF RInv, FinallyInv, Still, OffGuard, Reply
    <3> QED
      BY <3>1, <3>2
  <2> QED
    BY <2>3, <2>4, <2>5 DEF RInv
<1>3. CASE requests' # requests
  <2>1. requests' = <<>> /\ gone'
    BY <1>3
  <2>2. Len(requests') = 0
    BY <2>1
  <2>3. SafeInv'
    BY <1>1, <2>1, <2>2 DEF RInv, SafeInv
  <2>4. OneFault' /\ BackInv' /\ FinallyInv'
    BY <1>1, <2>1 DEF RInv, OneFault, BackInv, FinallyInv
  <2> QED
    BY <2>3, <2>4 DEF RInv
<1> QED
  BY <1>2, <1>3

LEMMA GuestReturns ==
  ASSUME IInv, CInv, RInv, (Hit \/ Draw \/ VmEnds) /\ UNCHANGED <<vga, capture>>
  PROVE  RInv'
<1>1. UNCHANGED <<pc, tool>> /\ requests' \in {requests, <<>>}
  BY DEF Hit, Draw, VmEnds, clientSide, channel
<1>2. Hit \/ Draw => running /\ UNCHANGED <<requests, gone>>
  BY DEF Hit, Draw, channel
<1>3. VmEnds => gone'
  BY DEF VmEnds
<1>4. pc \in CaptureSteps /\ failing /\ ~gone => ~running
  BY DEF RInv, FinallyInv, Still
<1> QED
  BY <1>1, <1>2, <1>3, <1>4, OutsideReturns

LEMMA StutterReturns ==
  ASSUME RInv, UNCHANGED vars
  PROVE  RInv'
<1>1. UNCHANGED <<pc, vga, capture, requests, replies, running, owed, gone>>
  BY DEF vars, sessionVars, capture
<1> QED
  BY <1>1, OutsideReturns

-----------------------------------------------------------------------------
(* The stub and the adapter. *)
LEMMA AtMostTwo ==
  ASSUME IInv, BackInv, FinallyInv
  PROVE  3 \in 1 .. Len(requests) => ~Reprograms(requests[3])
<1>1. CASE gone
  <2>1. requests = <<>>
    BY <1>1 DEF IInv, EndedInv
  <2>2. Len(requests) = 0
    BY <2>1
  <2> QED
    BY <2>2
<1>2. CASE pc \notin CaptureSteps
  <2>1. 3 \in 1 .. Len(requests) => 3 \in 2 .. Len(requests)
    BY DEF IInv, WellFormed
  <2> QED
    BY <1>2, <2>1, Ahead
<1>3. CASE ~gone /\ pc \in CaptureSteps /\ ~failing
  <2>1. requests = Command(pc, round, saved) \/ requests = <<>>
    BY <1>3 DEF IInv, ChannelInv, Captures
  <2>2. PICK op, arg : Command(pc, round, saved) = <<Request(op, arg)>>
    BY <1>3, CommandShape
  <2>3. Len(requests) \in {0, 1}
    BY <2>1, <2>2
  <2> QED
    BY <2>3
<1>4. CASE ~gone /\ pc \in CaptureSteps /\ failing
  <2>1. Len(requests) <= 2
    BY <1>4 DEF FinallyInv, IInv, WellFormed
  <2> QED
    BY <2>1 DEF IInv, WellFormed
<1> QED
  BY <1>1, <1>2, <1>3, <1>4

(* The first request has been done. *)
LEMMA DoneReturns ==
  ASSUME IInv, CInv, RInv, requests # <<>>, requests' = Tail(requests), vga' = Effect(vga, requests[1]),
         UNCHANGED <<pc, gone, round, saved, failing, before, struck>>, FinallyInv'
  PROVE  RInv'
<1>1. WellFormed(requests) /\ ShapeInv /\ DOMAIN vga = Names /\ SafeInv
  BY DEF IInv, CInv, VgaInv, StateOK, RInv
<1>2. 3 \in 1 .. Len(requests) => ~Reprograms(requests[3])
  BY AtMostTwo DEF RInv
<1>3. /\ Len(requests') = Len(requests) - 1 /\ Len(requests) \in Nat \ {0}
      /\ \A n \in 1 .. Len(requests') : requests'[n] = requests[n + 1]
      /\ Due' = Due /\ SafeInv'
  BY <1>1, <1>2, DoneFirst
<1>4. BackInv'
  <2> SUFFICES ASSUME pc \notin CaptureSteps, ~gone PROVE BackInv'
    BY DEF BackInv
  <2>1. PICK d : d = Due /\ d = Due'
    BY <1>3
  <2>2. \A n \in 1 .. Len(requests') : requests'[n] = requests[n + 1] /\ n + 1 \in 2 .. Len(requests)
    BY <1>3
  <2>3. \A n \in 1 .. Len(requests') : ~Reprograms(requests'[n])
    BY <2>2 DEF RInv, BackInv
  <2>4. \A n \in 2 .. Len(requests') : n \in 1 .. Len(requests')
    BY <1>3
  <2> QED
    BY <2>1, <2>3, <2>4 DEF RInv, BackInv, Back, OffGuard
<1>5. OneFault'
  BY DEF RInv, OneFault
<1> QED
  BY <1>3, <1>4, <1>5 DEF RInv

LEMMA StubReturns ==
  ASSUME IInv, CInv, RInv, Stub, UNCHANGED <<vga, capture>>
  PROVE  RInv'
<1>1. /\ requests # <<>> /\ requests' = Tail(requests) /\ UNCHANGED <<pc, gone>>
      /\ Head(requests).op \in Ops /\ (Head(requests).op = "m" => Head(requests).arg = None)
  BY DEF Stub, Process, BreakIn, TellStop, ReadMemory, WriteMemory, SetBreakpoint, ClearBreakpoint, Continue,
         LetGo, Ops, clientSide, stub
<1>2. UNCHANGED <<vga, round, saved, failing, before, struck>>
  BY DEF capture
<1>3. Head(requests) = requests[1] /\ 1 \in 1 .. Len(requests)
  BY <1>1, TailFormed DEF IInv, WellFormed
<1>4. vga' = Effect(vga, requests[1])
  BY <1>1, <1>2, <1>3 DEF Ops, Effect
<1>5. ~(pc \in CaptureSteps /\ failing /\ ~gone)
  BY <1>1, <1>3, NoneAssumption DEF RInv, FinallyInv, Ops
<1>6. FinallyInv'
  BY <1>1, <1>2, <1>5 DEF FinallyInv
<1> QED
  BY <1>1, <1>2, <1>4, <1>6, DoneReturns

LEMMA OneMore ==
  ASSUME NEW s, WellFormed(s), NEW p
  PROVE  /\ WellFormed(s \o <<p>>) /\ s \o <<p>> # <<>>
         /\ Len(s \o <<p>>) = Len(s) + 1 /\ Len(s) \in Nat
         /\ \A n \in 1 .. Len(s) : (s \o <<p>>)[n] = s[n]
         /\ (s \o <<p>>)[Len(s) + 1] = p
<1>1. PICK one : one = <<p>>
  OBVIOUS
<1>2. WellFormed(one) /\ Len(one) = 1 /\ one[1] = p
  BY <1>1, Tuples
<1>3. PICK all : all = s \o one
  OBVIOUS
<1>4. WellFormed(all) /\ Len(all) = Len(s) + Len(one)
  BY <1>2, <1>3, ConcatFormed
<1>5. /\ \A i \in 1 .. Len(s) : (s \o one)[i] = s[i]
      /\ \A i \in 1 .. Len(one) : (s \o one)[Len(s) + i] = one[i]
  BY <1>2, ConcatFormed
<1>6. Len(s) \in Nat
  BY DEF WellFormed
<1>7. Len(all) \in Nat \ {0}
  BY <1>2, <1>4, <1>6
<1>8. all # <<>>
  BY <1>7, NotEmpty, Zenon
<1> QED
  BY <1>1, <1>2, <1>3, <1>4, <1>5, <1>6, <1>8

LEMMA PortsReturn ==
  ASSUME IInv, CInv, RInv, PortRead \/ PortWrite \/ PlaneRead
  PROVE  RInv'
<1>1. /\ requests # <<>> /\ requests' = Tail(requests) /\ Head(requests) = requests[1]
      /\ UNCHANGED <<pc, gone, round, saved, failing, before, struck, running, owed>> /\ vga' = Effect(vga, requests[1])
  BY AdapterTakes DEF Adapter
<1>2. FinallyInv'
  <2> SUFFICES ASSUME pc \in CaptureSteps, failing, ~gone PROVE FinallyInv'
    BY <1>1 DEF FinallyInv
  <2>1. WellFormed(requests) /\ WellFormed(replies) /\ ShapeInv
    BY DEF IInv, CInv
  <2>2. 3 \in 1 .. Len(requests) => ~Reprograms(requests[3])
    BY AtMostTwo DEF RInv
  <2>3. /\ Len(requests') = Len(requests) - 1 /\ Len(requests) \in Nat \ {0}
        /\ \A n \in 1 .. Len(requests') : requests'[n] = requests[n + 1]
        /\ Due' = Due
    BY <1>1, <2>1, <2>2, DoneFirst
  <2>4. PICK d : d = Due /\ d = Due'
    BY <2>3
  <2>5. Exact(Due)'
    BY <1>1, <2>4 DEF RInv, FinallyInv, Exact, ExactAt, Colour
  <2>6. PICK kind, val :
          /\ Answer(kind, val) /\ kind \in {"out", "ok", "hex"}
          /\ requests[1].op = "ib" => kind = "out"
    BY <1>1 DEF PortRead, PortWrite, PlaneRead, Process
  <2>7. PICK p : p = Packet(kind, requests[1], val)
    OBVIOUS
  <2>8. p.kind = kind
    BY <2>7 DEF Packet
  <2>9. replies' = replies \o <<p>>
    BY <1>1, <2>6, <2>7, Within DEF Answer, Send
  <2>10. /\ Len(replies') = Len(replies) + 1 /\ Len(replies) \in Nat
         /\ \A n \in 1 .. Len(replies) : replies'[n] = replies[n]
         /\ replies'[Len(replies) + 1] = p
    BY <2>1, <2>9, OneMore
  <2>11. \A n \in 1 .. Len(replies') : replies'[n].kind \in {"ok", "out", "hex"}
    <3>1. \A n \in 1 .. Len(replies') : n \in 1 .. Len(replies) \/ n = Len(replies) + 1
      BY <2>10
    <3> QED
      BY <2>6, <2>8, <2>10, <3>1 DEF RInv, FinallyInv
  <2>12. \A n \in 1 .. Len(requests') : \/ requests'[n].op \in {"ib", "ob"}
                                        \/ requests'[n].op = "m" /\ requests'[n].arg = "plane"
    <3>1. \A n \in 1 .. Len(requests') : n + 1 \in 1 .. Len(requests)
      BY <2>3
    <3> QED
      BY <2>3, <3>1 DEF RInv, FinallyInv
  <2>13. pc = "putFlip" => <<"pick", "late">> \in struck \/ (replies' # <<>> /\ Reply'.kind = "out")
    <3> SUFFICES ASSUME pc = "putFlip", <<"pick", "late">> \notin struck PROVE replies' # <<>> /\ Reply'.kind = "out"
      OBVIOUS
    <3>1. WellFormed(replies') /\ replies' # <<>>
      BY <2>1, <2>9, OneMore
    <3>2. Reply' = replies'[1]
      BY <3>1, TailFormed DEF Reply
    <3>3. CASE replies = <<>>
      <4>1. requests[1].op = "ib"
        BY <3>3 DEF RInv, FinallyInv
      <4>2. Len(replies) = 0
        BY <3>3
      <4> QED
        BY <2>6, <2>8, <2>10, <3>1, <3>2, <4>1, <4>2
    <3>4. CASE replies # <<>>
      <4>1. Reply.kind = "out" /\ Reply = replies[1] /\ 1 \in 1 .. Len(replies)
        BY <2>1, <2>10, <3>4, TailFormed DEF RInv, FinallyInv, Reply
      <4> QED
        BY <2>10, <3>1, <3>2, <4>1
    <3> QED
      BY <3>3, <3>4
  <2>14. Len(requests') + Len(replies') \in {1, 2}
    <3>1. Len(requests) + Len(replies) \in {1, 2}
      BY DEF RInv, FinallyInv
    <3> QED
      BY <2>3, <2>10, <3>1
  <2>15. Still' /\ struck' # {} /\ OffGuard' = {}
    BY <1>1 DEF RInv, FinallyInv, Still, OffGuard
  <2> QED
    BY <1>1, <2>5, <2>11, <2>12, <2>13, <2>14, <2>15 DEF FinallyInv
<1> QED
  BY <1>1, <1>2, DoneReturns

-----------------------------------------------------------------------------
(* No second fault. *)
LEMMA FirstFault ==
  ASSUME MaxFaults <= 1, OneFault, Cardinality(struck) < MaxFaults
  PROVE  struck = {}
<1>1. MaxFaults \in Nat
  BY CaptureBounds
<1>2. ASSUME NEW fault, struck = {fault} PROVE FALSE
  <2>1. Cardinality({fault}) = 1
    BY FS_Singleton
  <2> QED
    BY <1>1, <1>2, <2>1
<1> QED
  BY <1>2 DEF OneFault

LEMMA RejectsReturns ==
  ASSUME MaxFaults <= 1, IInv, CInv, RInv, Rejects
  PROVE  RInv'
<1>1. /\ requests # <<>> /\ requests' = Tail(requests) /\ Head(requests) = requests[1]
      /\ UNCHANGED <<pc, gone, failing, before, vga>> /\ Reprograms(requests[1])
      /\ struck' = struck \union {<<pc, "rejected">>}
  BY AdapterTakes DEF Adapter, Rejects
<1>2. struck = {}
  BY FirstFault DEF RInv, Rejects
<1>3. ~gone /\ 1 \in 1 .. Len(requests)
  BY <1>1, TailFormed DEF IInv, EndedInv, WellFormed
<1>4. pc \in CaptureSteps /\ ~failing
  BY <1>1, <1>2, <1>3 DEF RInv, BackInv, FinallyInv
<1>5. requests' = <<>>
  BY <1>1, <1>4, InFlight, Tuples
<1>6. SafeInv'
  <2>1. Len(requests') = 0
    BY <1>5
  <2> QED
    BY <1>1, <1>5, <2>1 DEF RInv, SafeInv
<1>7. OneFault'
  BY <1>1, <1>2 DEF OneFault
<1>8. BackInv' /\ FinallyInv'
  BY <1>1, <1>4 DEF BackInv, FinallyInv
<1> QED
  BY <1>6, <1>7, <1>8 DEF RInv

-----------------------------------------------------------------------------
(* The capture: what it sends does no harm. *)
LEMMA HarmlessCommand ==
  ASSUME NEW next \in CaptureSteps, NEW n, NEW s, Known(next, n, s), NEW v,
         next \in {"pick", "putAttribute"} => v.flip = "index",
         NEW r, r = Command(next, n, s)[1]
  PROVE  Harmless(v, r)
<1> SUFFICES ASSUME r.op = "ob", r.arg[1] = "attribute"
             PROVE  v.flip = "index" /\ r.arg[2][1] = before.attribute[1]
  BY DEF Harmless
<1>1. CASE next \in {"pick", "putAttribute"}
  <2>1. r.arg[2] = IF next = "pick" THEN <<s.attribute[1], Register(n)>> ELSE s.attribute
    BY <1>1 DEF Command, Ob, Request
  <2> QED
    BY <1>1, <2>1 DEF Known
<1>2. CASE next \in Stores
  <2>1. r = Request("ob", <<"graphicsData", Data(next, n, s)>>)
    BY <1>2 DEF Command, Ob, Data, Stores
  <2> QED
    BY <2>1 DEF Request
<1>3. CASE next \in {"index", "map", "mode", "attribute", "flip", "register", "putFlip", "dacState", "dac",
                     "component", "plane"}
  <2>1. r.op \in {"ib", "m"}
    BY <1>3 DEF Command, Ib, Request
  <2> QED
    BY <2>1
<1>4. CASE next \in {"toMap", "toPlanes", "putMapAt", "toMode", "putModeAt", "putIndex", "colour", "putDac"}
  <2>1. r.arg[1] \in {"graphicsIndex", "dacState", "dacIndex"}
    BY <1>4 DEF Command, Ob, Request
  <2> QED
    BY <2>1
<1> QED
  BY <1>1, <1>2, <1>3, <1>4, Places DEF Stores

LEMMA DueOK ==
  ASSUME IInv, CInv PROVE StateOK(Due)
<1>1. \A v, n : StateOK(v) => StateOK(Done(v, n))
  <2> SUFFICES ASSUME NEW v, NEW n, StateOK(v), n \in 1 .. Len(requests) PROVE StateOK(Effect(v, requests[n]))
    BY DEF Done
  <2>1. Shaped(requests[n])
    BY DEF CInv, ShapeInv
  <2> QED
    BY <2>1, StaysOK
<1> QED
  BY <1>1 DEF Due, CInv, VgaInv

(* Nothing is left to put back. *)
LEMMA NothingLeft ==
  ASSUME VgaInv, NEW at \in {"index", "attribute", "dacState", "dac"} \union Ends, NEW d,
         \/ RoughAt(at, d) /\ at \notin Ends
         \/ \E k : ExactAt(at, k, d)
  PROVE  /\ \A f \in DOMAIN before \ {"attribute", "flip"} : d[f] = before[f]
         /\ d.attribute = before.attribute
<1>1. /\ d.index = before.index /\ d.map = before.map /\ d.mode = before.mode /\ d.attribute = before.attribute
      /\ d.registers = before.registers /\ d.dac = before.dac /\ d.dacState = before.dacState
  <2>1. CASE RoughAt(at, d) /\ at \notin Ends
    BY <2>1 DEF RoughAt, Planar, Selected, Attributes, Picked, Coloured, Ends
  <2>2. ASSUME NEW k, ExactAt(at, k, d)
        PROVE  /\ d.index = before.index /\ d.map = before.map /\ d.mode = before.mode
               /\ d.attribute = before.attribute
               /\ d.registers = before.registers /\ d.dac = before.dac /\ d.dacState = before.dacState
    BY <2>2 DEF ExactAt, Planar, Selected, Attributes, Picked, Coloured, Ends
  <2> QED
    BY <2>1, <2>2
<1> QED
  BY <1>1 DEF VgaInv, StateOK, Names

(* The capture asks for D and leaves. *)
LEMMA LeavesReturns ==
  ASSUME IInv, CInv, RInv, pc \in CaptureSteps, pc' = Leaving, UNCHANGED <<vga, before, gone>>,
         requests' \in {requests \o Ask("D"), Overdue \o Ask("D")}, Len(requests) <= 1, OneFault',
         ~gone' /\ struck' = {} => Quiet(requests),
         NEW d, d = Due, ~gone' => Back(d)'
  PROVE  RInv'
<1>1. PICK q : q = Ask("D")
  OBVIOUS
<1>2. Asks(q) /\ Sends(q)
  BY <1>1 DEF Asks, Ask, Sends, Ops, Serves
<1>3. pc' \notin CaptureSteps
  BY Within, Places DEF Waiting
<1>4. SafeInv /\ \A n \in 2 .. Len(requests) : ~Reprograms(requests[n])
  BY DEF RInv, IInv, WellFormed
<1> QED
  BY <1>2, <1>3, <1>4, Outwards

-----------------------------------------------------------------------------
(* One more command, with nothing or one command under way. *)
LEMMA SendsReturns ==
  ASSUME IInv, CInv, RInv, UNCHANGED <<vga, before>>, Len(requests) <= 1, pc' \in CaptureSteps,
         NEW next \in CaptureSteps, NEW n, NEW s, Known(next, n, s),
         Fitting(next, n, s),
         next \in {"pick", "putAttribute"} => Due.flip = "index",
         requests' \in {requests \o Command(next, n, s), Overdue \o Command(next, n, s)},
         OneFault', FinallyInv'
  PROVE  RInv'
<1>1. PICK r : r = Command(next, n, s)[1]
  OBVIOUS
<1>2. Shaped(r) /\ Command(next, n, s) = <<r>>
  BY <1>1, CommandShaped
<1>3. Harmless(Due, r)
  BY <1>1, HarmlessCommand
<1>4. SafeInv'
  <2>1. requests' \in {requests \o <<r>>, Overdue \o <<r>>}
    BY <1>2
  <2> QED
    BY <1>2, <1>3, <2>1, AddedCommand DEF IInv, CInv, RInv
<1>5. BackInv'
  BY DEF BackInv
<1> QED
  BY <1>4, <1>5 DEF RInv

LEMMA BeginsReturns ==
  ASSUME IInv, CInv, RInv, CaptureBegins
  PROVE  RInv'
<1>1. /\ pc = "mode12" /\ pc' = "index" /\ Read(Command("index", 0, Unread)) /\ replies # <<>>
      /\ UNCHANGED <<vga, failing, before, struck>> /\ tool = "screen"
  BY DEF CaptureBegins, At, Proceed, CInv, FreshInv
<1>2. requests = <<>>
  BY <1>1, Answered, Places DEF Apart
<1>3. ~failing
  <2>1. pc \notin {"idle", "detaching"} \union CaptureSteps
    BY <1>1, Places
  <2> QED
    BY <2>1 DEF CInv, FreshInv, Fresh
<1>4. FinallyInv' /\ OneFault'
  BY <1>1, <1>3 DEF FinallyInv, OneFault, RInv
<1>5. Known("index", 0, Unread) /\ "index" \in CaptureSteps \ Stores
  BY Places DEF Known, Stores
<1>6. Fitting("index", 0, Unread)
  BY PutFits, UnreadOK
<1>7. Len(requests) <= 1 /\ requests' = requests \o Command("index", 0, Unread) /\ pc' \in CaptureSteps
  <2>1. Len(requests) = 0
    BY <1>2
  <2> QED
    BY <1>1, <1>5, <2>1 DEF Read
<1> QED
  BY <1>1, <1>4, <1>5, <1>6, <1>7, SendsReturns

LEMMA StepReturns ==
  ASSUME IInv, CInv, RInv, CaptureStep, ~failing
  PROVE  RInv'
<1>1. /\ ~gone /\ requests = <<>> /\ replies # <<>> /\ replies = <<Reply>> /\ struck = {}
      /\ pc \in CaptureSteps /\ Exact(vga)
      /\ UNCHANGED <<tool, gone, vga, failing, before, struck>>
  BY StepOf
<1>2. Len(requests) = 0 /\ OneFault' /\ Due = vga
  <2>1. Len(requests) = 0
    BY <1>1
  <2> QED
    BY <1>1, <2>1 DEF OneFault, Due, Done
<1>3. CASE pc = "putDac" /\ pc' = Leaving /\ requests' = requests \o Ask("D")
  <2>1. PICK d : d = Due
    OBVIOUS
  <2>2. ExactAt(pc, round, d)
    BY <1>1, <1>2, <2>1 DEF Exact
  <2>3. Back(d)
    BY <1>3, <2>2, NothingLeft DEF CInv, Back, Ends
  <2>4. Back(d)'
    BY <1>1, <2>3 DEF Back, OffGuard
  <2>5. Quiet(requests)
    BY <1>2 DEF Quiet
  <2> QED
    BY <1>1, <1>2, <1>3, <2>1, <2>4, <2>5, LeavesReturns
<1>4. CASE Proceed(pc', round', saved') /\ Follows(pc, round, pc', round')
  <2>1. CInv' /\ pc' \in CaptureSteps /\ ~failing' /\ FinallyInv'
    BY <1>1, <1>4, StepKeeps DEF Follows, FinallyInv
  <2>2. Known(pc', round', saved') /\ Fitting(pc', round', saved')
    BY <1>1, <2>1, KnownNext DEF CInv
  <2>3. PICK next, n, s : next = pc' /\ n = round' /\ s = saved'
    OBVIOUS
  <2>4. next \in {"pick", "putAttribute"} => Due.flip = "index"
    BY <1>1, <1>2, <1>4, <2>3, Places DEF Exact, ExactAt, Follows, Then
  <2>5. requests' = requests \o Command(next, n, s)
    BY <1>4, <2>3 DEF Proceed, Read
  <2> QED
    BY <1>1, <1>2, <2>1, <2>2, <2>3, <2>4, <2>5, SendsReturns
<1> QED
  BY <1>3, <1>4, StepOf

(* A finally clause that takes a reply. *)
LEMMA FinallyReturns ==
  ASSUME IInv, CInv, RInv, CaptureStep, failing
  PROVE  RInv'
<1>1. /\ pc \in CaptureSteps \cap Puts /\ round = 0 /\ replies # <<>> /\ ~gone /\ saved' = Saved(pc, Reply.val)
      /\ UNCHANGED <<gone, vga, failing, before, struck, running, owed>> /\ replies' = Tail(replies)
  <2>1. pc \in CaptureSteps \cap Puts /\ round = 0 /\ replies # <<>> /\ saved' = Saved(pc, Reply.val)
        /\ UNCHANGED <<gone, vga, failing, before, struck, running, owed>>
    BY DEF CaptureStep, CInv, RoundInv, stub, Puts, Selected, Attributes, Picked, Coloured
  <2>2. replies' = Tail(replies)
    BY DEF CaptureStep, Proceed, Read
  <2> QED
    BY <2>1, <2>2 DEF IInv, EndedInv
<1>2. saved' = saved
  BY <1>1 DEF Saved, Puts
<1>3. /\ Still /\ struck # {} /\ OffGuard = {} /\ Exact(Due) /\ Len(requests) + Len(replies) \in {1, 2}
      /\ \A n \in 1 .. Len(requests) : \/ requests[n].op \in {"ib", "ob"}
                                       \/ requests[n].op = "m" /\ requests[n].arg = "plane"
      /\ \A n \in 1 .. Len(replies) : replies[n].kind \in {"ok", "out", "hex"}
  BY <1>1 DEF RInv, FinallyInv
<1>4. /\ WellFormed(requests) /\ Len(requests) \in {0, 1} /\ Len(replies) > 0 /\ Len(replies') = Len(replies) - 1
      /\ WellFormed(replies) /\ Len(replies) \in Nat
      /\ \A n \in 1 .. Len(replies) - 1 : replies'[n] = replies[n + 1]
  <2>1. WellFormed(requests) /\ WellFormed(replies)
    BY DEF IInv
  <2>2. Len(requests) \in Nat /\ Len(replies) \in Nat
    BY <2>1 DEF WellFormed
  <2>3. /\ Len(replies) > 0 /\ Len(replies') = Len(replies) - 1
        /\ \A n \in 1 .. Len(replies) - 1 : replies'[n] = replies[n + 1]
    BY <1>1, <2>1, TailFormed
  <2>4. \A a, b \in Nat : a + b \in {1, 2} /\ b > 0 => a \in {0, 1}
    OBVIOUS
  <2>5. Len(requests) \in {0, 1}
    BY <1>3, <2>2, <2>3, <2>4
  <2> QED
    BY <2>1, <2>2, <2>3, <2>5
<1>5. OneFault'
  BY <1>1 DEF RInv, OneFault
<1>6. PICK d : d = Due
  OBVIOUS
<1>7. ExactAt(pc, 0, d) /\ DOMAIN d = Names
  BY <1>1, <1>3, <1>6, DueOK DEF Exact, StateOK
<1>8. CASE pc \in Ends
  <2>1. pc' = Leaving /\ requests' = requests \o Ask("D")
    BY <1>8 DEF CaptureStep, FailPc, Read
  <2>2. Back(d)
    BY <1>7, <1>8, NothingLeft DEF CInv, Back
  <2>3. Back(d)'
    BY <1>1, <2>2 DEF Back, OffGuard
  <2> QED
    BY <1>1, <1>3, <1>4, <1>5, <1>6, <2>1, <2>3, LeavesReturns
<1>9. CASE pc \notin Ends
  <2>1. /\ pc' = Then[pc] /\ pc' \in CaptureSteps \cap Puts /\ pc' \notin {"putDac", "putFlip"}
        /\ pc' = "putAttribute" => pc = "putFlip"
    BY <1>1, <1>9, Places DEF CaptureStep, Proceed, Puts, Ends, Then, LoopsOn, Loops
  <2>2. round' = 0 /\ Read(Command(pc', 0, saved))
    BY <1>1, <1>2, <1>9, Places DEF CaptureStep, Proceed, Puts, Ends, Then, LoopsOn, Loops
  <2>3. PICK next : next = pc'
    OBVIOUS
  <2>4. SavedInv'
    BY FinallyKeeps DEF CInv
  <2>5. Known(next, 0, saved)
    BY <1>1, <1>2, <2>1, <2>3, <2>4 DEF SavedInv, SavedOK, Known, Puts
  <2>6. Fitting(next, 0, saved)
    BY <2>1, <2>3, PutFits DEF CInv, SavedInv, Puts
  <2>7. Follows(pc, 0, next, 0)
    BY <2>1, <2>3 DEF Follows
  <2>8. /\ ExactAt(next, 0, Effect(d, Command(next, 0, saved)[1]))
        /\ next \in {"pick", "putAttribute"} => d.flip = "index"
    BY <1>1, <1>7, <2>5, <2>7, Onward DEF CInv
  <2>9. PICK r : r = Command(next, 0, saved)[1]
    OBVIOUS
  <2>10. Shaped(r) /\ Command(next, 0, saved) = <<r>> /\ r.op \in {"ib", "ob", "m"} /\ (r.op = "m" => r.arg = "plane")
    BY <2>1, <2>3, <2>6, <2>9, CommandShaped
  <2>11. requests' = requests \o <<r>> /\ Len(requests) <= 1
    <3>1. requests' = requests \o Command(pc', 0, saved)
      BY <2>2 DEF Read
    <3>2. Command(pc', 0, saved) = <<r>>
      BY <2>3, <2>10
    <3>3. \A n \in {0, 1} : n <= 1
      OBVIOUS
    <3>4. Len(requests) <= 1
      BY <1>4, <3>3
    <3> QED
      BY <3>1, <3>2, <3>4
  <2>12. /\ Due' = Effect(d, r) /\ Len(requests') = Len(requests) + 1
         /\ \A n \in 1 .. Len(requests') : \/ requests'[n] = r
                                           \/ /\ n \in 1 .. Len(requests)
                                              /\ requests'[n].op = requests[n].op
                                              /\ requests'[n].arg = requests[n].arg
    BY <1>1, <1>6, <2>10, <2>11, AddedCommand DEF IInv, CInv
  <2>13. FinallyInv'
    <3>1. Still' /\ struck' # {} /\ OffGuard' = {}
      BY <1>1, <1>3 DEF Still, OffGuard
    <3>2. Len(requests') + Len(replies') \in {1, 2}
      BY <1>3, <1>4, <2>12
    <3>3. \A n \in 1 .. Len(requests') : \/ requests'[n].op \in {"ib", "ob"}
                                         \/ requests'[n].op = "m" /\ requests'[n].arg = "plane"
      BY <1>3, <2>10, <2>12
    <3>4. \A n \in 1 .. Len(replies') : replies'[n].kind \in {"ok", "out", "hex"}
      <4>1. \A n \in 1 .. Len(replies') : n \in 1 .. Len(replies) - 1 /\ n + 1 \in 1 .. Len(replies)
        BY <1>4
      <4> QED
        BY <1>3, <1>4, <4>1
    <3>5. PICK e : e = Effect(d, r)
      OBVIOUS
    <3>6. ExactAt(next, 0, e) /\ e = Due'
      BY <2>8, <2>9, <2>12, <3>5
    <3>7. Exact(Due)'
      BY <1>1, <2>2, <2>3, <3>6 DEF Exact, ExactAt, Colour
    <3> QED
      BY <2>1, <3>1, <3>2, <3>3, <3>4, <3>7 DEF FinallyInv
  <2>14. requests' = requests \o Command(next, 0, saved) /\ pc' \in CaptureSteps /\ next \in CaptureSteps
    BY <2>1, <2>3, <2>10, <2>11
  <2>15. next \in {"pick", "putAttribute"} => Due.flip = "index"
    BY <1>6, <2>8
  <2> QED
    BY <1>1, <1>5, <2>5, <2>6, <2>11, <2>13, <2>14, <2>15, SendsReturns
<1> QED
  BY <1>8, <1>9

-----------------------------------------------------------------------------
(* A step that raises: its finally clause is entered. *)
LEMMA EntersFinally ==
  ASSUME IInv, CInv, RInv, ~gone, ~failing, pc \in DOMAIN OnRaise, UNCHANGED <<vga, before, gone, saved, running, owed>>,
         Still, pc' = OnRaise[pc], round' = 0, OneFault', struck' # {}, OffGuard' = {},
         NEW d, d = Due, RoughAt(pc, d), Len(requests) <= 1,
         requests' \in {requests \o Command(OnRaise[pc], 0, saved), Overdue \o Command(OnRaise[pc], 0, saved)},
         Len(requests) + Len(replies') \in {0, 1},
         \A n \in 1 .. Len(replies') : replies'[n].kind \in {"ok", "out", "hex"},
         \A n \in 1 .. Len(requests) : \/ requests[n].op \in {"ib", "ob"}
                                       \/ requests[n].op = "m" /\ requests[n].arg = "plane",
         pc' = "putFlip" => \/ <<"pick", "late">> \in struck'
                            \/ /\ replies' # <<>> => Reply'.kind = "out"
                               /\ requests # <<>> => requests[1].op = "ib"
  PROVE  RInv'
<1>1. PICK next : next = OnRaise[pc]
  OBVIOUS
<1>2. /\ next \in {"putModeAt", "putMapAt", "putIndex", "putFlip", "putDac"} /\ next \in CaptureSteps \ Stores
      /\ next = "putIndex" => pc \in {"toMap", "map"}
      /\ next = "putDac" => pc \in Coloured
  BY <1>1, Places DEF OnRaise, Planar, Selected, Attributes, Picked, Coloured, Stores
<1>3. Known(next, 0, saved)
  BY <1>2, Places DEF Known, CInv, SavedInv, Coloured
<1>13. Fitting(next, 0, saved)
  BY <1>2, PutFits DEF CInv, SavedInv
<1>4. DOMAIN d = Names
  BY DueOK DEF StateOK
<1>5. PICK r : r = Command(next, 0, saved)[1]
  OBVIOUS
<1>6. PICK e : e = Effect(d, r)
  OBVIOUS
<1>7. ExactAt(next, 0, e)
  <2>1. ExactAt(next, 0, Effect(d, Command(next, 0, saved)[1]))
    BY <1>1, <1>3, <1>4, IntoFinally DEF CInv
  <2> QED
    BY <1>5, <1>6, <2>1
<1>8. Shaped(r) /\ Command(next, 0, saved) = <<r>> /\ r.op \in {"ib", "ob", "m"} /\ (r.op = "m" => r.arg = "plane")
  BY <1>2, <1>5, <1>13, CommandShaped
<1>9. requests' \in {requests \o <<r>>, Overdue \o <<r>>}
  BY <1>1, <1>8
<1>10. /\ Due' = e /\ Len(requests') = Len(requests) + 1 /\ WellFormed(requests')
       /\ \A n \in 1 .. Len(requests') : \/ requests'[n] = r
                                         \/ /\ n = 1 /\ n \in 1 .. Len(requests)
                                            /\ requests'[n].op = requests[n].op
                                            /\ requests'[n].arg = requests[n].arg
  BY <1>6, <1>8, <1>9, AddedCommand DEF IInv, CInv
<1>11. FinallyInv'
  <2>1. pc' \in Puts /\ Still'
    BY <1>1, <1>2 DEF Still, Puts
  <2>2. Len(requests') + Len(replies') \in {1, 2}
    <3>1. WellFormed(requests)
      BY DEF IInv
    <3>2. Len(requests) \in Nat
      BY <3>1 DEF WellFormed
    <3> QED
      BY <1>10, <3>2
  <2>3. \A n \in 1 .. Len(requests') : \/ requests'[n].op \in {"ib", "ob"}
                                       \/ requests'[n].op = "m" /\ requests'[n].arg = "plane"
    BY <1>8, <1>10
  <2>4. pc' = "putFlip" => \/ <<"pick", "late">> \in struck'
                           \/ IF replies' # <<>> THEN Reply'.kind = "out" ELSE requests'[1].op = "ib"
    <3> SUFFICES ASSUME pc' = "putFlip", <<"pick", "late">> \notin struck' PROVE requests'[1].op = "ib"
                                                                                \/ replies' # <<>>
      OBVIOUS
    <3>1. r.op = "ib"
      BY <1>1, <1>5 DEF Command, Ib, Request
    <3>2. 1 \in 1 .. Len(requests')
      <4>1. WellFormed(requests)
        BY DEF IInv
      <4> QED
        BY <1>10, <4>1 DEF WellFormed
    <3>3. 1 \in 1 .. Len(requests) => requests # <<>>
      OBVIOUS
    <3> QED
      BY <1>10, <3>1, <3>2, <3>3
  <2>5. Exact(Due)'
    BY <1>1, <1>7, <1>10 DEF Exact, ExactAt, Colour
  <2> QED
    BY <2>1, <2>2, <2>3, <2>4, <2>5 DEF FinallyInv
<1>12. /\ requests' \in {requests \o Command(next, 0, saved), Overdue \o Command(next, 0, saved)}
       /\ pc' \in CaptureSteps /\ next \notin {"pick", "putAttribute"} /\ next \notin Stores /\ next \in CaptureSteps
  BY <1>1, <1>2
<1> QED
  BY <1>3, <1>11, <1>12, <1>13, SendsReturns

LEMMA MisfitReturns ==
  ASSUME IInv, CInv, RInv, CaptureMisfit
  PROVE  RInv'
<1>1. /\ pc \in CaptureSteps /\ replies # <<>> /\ Reply.kind \notin Good(Asked(pc)) /\ round' = 0
      /\ requests' = requests \o RaiseReqs /\ replies' = Tail(replies)
      /\ UNCHANGED <<vga, saved, before, struck, gone, running, owed>>
      /\ IF pc \in DOMAIN OnRaise THEN pc' = OnRaise[pc] /\ failing' ELSE pc' = Leaving
  BY DEF CaptureMisfit, Raise, Read, FailPc, stub
<1>2. ~gone
  BY <1>1 DEF IInv, EndedInv
<1>3. OneFault'
  BY <1>1 DEF RInv, OneFault
<1>4. PICK d : d = Due
  OBVIOUS
<1>5. CASE failing
  <2>1. pc \in Puts /\ pc \notin DOMAIN OnRaise /\ round = 0
    BY <1>1, <1>5 DEF CInv, RoundInv, Puts, OnRaise, Selected, Attributes, Picked, Coloured
  <2>2. /\ struck # {} /\ Exact(Due) /\ Len(requests) + Len(replies) \in {1, 2}
        /\ \A n \in 1 .. Len(replies) : replies[n].kind \in {"ok", "out", "hex"}
        /\ pc = "putFlip" => <<"pick", "late">> \in struck \/ Reply.kind = "out"
    BY <1>1, <1>2, <1>5 DEF RInv, FinallyInv
  <2>3. WellFormed(requests) /\ WellFormed(replies)
    BY DEF IInv
  <2>4. Len(requests) \in Nat /\ Len(replies) \in Nat /\ Len(replies) > 0 /\ Reply = replies[1]
    BY <1>1, <2>3, TailFormed DEF WellFormed, Reply
  <2>5. Len(requests) <= 1
    <3>1. \A a, b \in Nat : a + b \in {1, 2} /\ b > 0 => a <= 1
      OBVIOUS
    <3> QED
      BY <2>2, <2>4, <3>1
  <2>6. Reply.kind \in {"ok", "out", "hex"}
    BY <2>2, <2>4
  <2>7. pc = "putFlip" /\ <<"pick", "late">> \in struck
    <3>1. pc # "putFlip" => Asked(pc) = "ob"
      BY <1>1, <2>1 DEF Puts, Asked, Command, Ob, Request
    <3>2. pc = "putFlip" => Asked(pc) = "ib"
      BY DEF Asked, Command, Ib, Request
    <3> QED
      BY <1>1, <2>2, <2>6, <3>1, <3>2 DEF Good
  <2>8. ExactAt("putFlip", 0, d)
    BY <1>4, <2>1, <2>2, <2>7 DEF Exact
  <2>9. Back(d)
    BY <2>7, <2>8 DEF Back, ExactAt, Planar, Selected, Picked, Attributes, Coloured, CInv, VgaInv, StateOK, Names
  <2>10. Back(d)' /\ struck' # {}
    BY <1>1, <2>2, <2>9 DEF Back, OffGuard
  <2>11. RaiseReqs = Ask("D") /\ pc' = Leaving
    BY <1>1, <2>1 DEF RaiseReqs
  <2> QED
    BY <1>1, <1>3, <1>4, <2>5, <2>10, <2>11, LeavesReturns
<1>6. CASE ~failing
  <2>1. /\ requests = <<>> /\ replies = <<Reply>> /\ Still /\ struck = {<<pc, "rejected">>} /\ (pc \notin Puts => Rough(vga))
    <3>1. requests = <<>> /\ replies = <<Reply>> /\ Still
      BY <1>1, <1>2, <1>6 DEF IInv, ChannelInv, Captures
    <3> QED
      BY <1>1, <1>2, <1>6, <3>1 DEF CInv, FlowInv
  <2>2. replies' = <<>> /\ Len(requests) = 0 /\ Len(replies') = 0 /\ Due = vga
    <3>1. replies' = <<>> /\ Len(requests) = 0
      BY <1>1, <2>1, Tuples
    <3> QED
      BY <3>1 DEF Due, Done
  <2>3. pc \notin Puts => OffGuard' = {}
    <3>1. \A f \in {<<pc, "rejected">>} : f[1] = pc
      OBVIOUS
    <3> QED
      BY <1>1, <2>1, <3>1 DEF OffGuard
  <2>4. pc \in Puts => OffGuard' # {}
    <3>1. <<pc, "rejected">>[1] = pc
      OBVIOUS
    <3> QED
      BY <1>1, <2>1, <3>1 DEF OffGuard
  <2>5. CASE pc \in DOMAIN OnRaise
    <3>1. pc \notin Puts
      BY <2>5 DEF OnRaise, Puts
    <3>2. RoughAt(pc, d)
      BY <1>4, <2>1, <2>2, <3>1 DEF Rough
    <3>3. requests' = requests \o Command(OnRaise[pc], 0, saved)
      BY <1>1, <2>5 DEF RaiseReqs
    <3> QED
      BY <1>1, <1>2, <1>3, <1>4, <1>6, <2>1, <2>2, <2>3, <2>5, <3>1, <3>2, <3>3, EntersFinally
  <2>6. CASE pc \notin DOMAIN OnRaise
    <3>1. RaiseReqs = Ask("D") /\ pc' = Leaving
      BY <1>1, <2>6 DEF RaiseReqs
    <3>2. Back(d)'
      <4>1. CASE pc \in Puts
        BY <2>4, <4>1 DEF Back
      <4>2. CASE pc \notin Puts
        <5>1. pc \in {"index", "attribute", "dacState", "dac"}
          BY <1>1, <2>6, <4>2, Places DEF OnRaise, Puts
        <5>2. RoughAt(pc, d) /\ pc \notin Ends
          BY <1>4, <2>1, <2>2, <4>2, <5>1 DEF Rough, Ends
        <5> QED
          BY <1>1, <5>1, <5>2, NothingLeft DEF CInv, Back
      <4> QED
        BY <4>1, <4>2
    <3>3. Quiet(requests)
      BY <2>2 DEF Quiet
    <3> QED
      BY <1>1, <1>3, <1>4, <2>2, <3>1, <3>2, <3>3, LeavesReturns
  <2> QED
    BY <2>5, <2>6
<1> QED
  BY <1>5, <1>6

-----------------------------------------------------------------------------
(* The reply that is awaited is late. *)
LEMMA BelatedOne ==
  ASSUME WellFormed(replies), replies # <<>>, replies = <<Reply>>, "kind" \in DOMAIN Reply
  PROVE  Len(Belated) = 1 /\ Belated # <<>> /\ Belated[1].kind = Reply.kind /\ Head(Belated) = Belated[1]
<1>1. PICK p : p = Reply
  OBVIOUS
<1>2. replies = <<p>> /\ "kind" \in DOMAIN p
  BY <1>1
<1>3. PICK l : l = [p EXCEPT !.late = TRUE]
  OBVIOUS
<1>4. l.kind = p.kind
  BY <1>2, <1>3
<1>5. Belated = <<l>>
  <2>1. DOMAIN replies = {1} /\ replies[1] = p
    BY <1>2
  <2>2. Belated = [i \in {1} |-> l]
    BY <1>3, <2>1 DEF Belated
  <2>3. <<l>> = [i \in {1} |-> l]
    OBVIOUS
  <2> QED
    BY <2>2, <2>3
<1> QED
  BY <1>1, <1>4, <1>5

LEMMA LateReturns ==
  ASSUME MaxFaults <= 1, IInv, CInv, RInv, CaptureLate
  PROVE  RInv'
<1>1. /\ pc \in CaptureSteps /\ ~gone /\ round' = 0 /\ requests' = Overdue \o RaiseReqs /\ replies' = Belated
      /\ struck' = struck \union {<<pc, "late">>}
      /\ UNCHANGED <<vga, saved, before, gone, running, owed>>
      /\ IF pc \in DOMAIN OnRaise THEN pc' = OnRaise[pc] /\ failing' ELSE pc' = Leaving
  BY DEF CaptureLate, Raise, FailPc, stub
<1>2. struck = {} /\ struck' = {<<pc, "late">>}
  BY <1>1, FirstFault DEF RInv, CaptureLate
<1>3. OneFault' /\ ~failing
  BY <1>1, <1>2 DEF OneFault, RInv, FinallyInv
<1>4. PICK d : d = Due
  OBVIOUS
<1>5. /\ Still /\ Exact(Due) /\ (replies # <<>> => Reply.kind \in Good(Asked(pc)) /\ "kind" \in DOMAIN Reply)
      /\ \/ requests = Command(pc, round, saved) /\ replies = <<>>
         \/ requests = <<>> /\ replies # <<>> /\ replies = <<Reply>>
  <2>1. /\ Still
        /\ \/ requests = Command(pc, round, saved) /\ replies = <<>>
           \/ requests = <<>> /\ replies # <<>> /\ replies = <<Reply>>
    BY <1>1, <1>3 DEF IInv, ChannelInv, Captures
  <2> QED
    BY <1>1, <1>2, <1>3, <2>1 DEF CInv, FlowInv
<1>6. PICK op, arg : /\ op \in {"ib", "ob", "m"} /\ Command(pc, round, saved) = <<Request(op, arg)>>
                     /\ Asked(pc) = op /\ (op = "m" => arg = "plane")
  <2>1. PICK op, arg : op \in {"ib", "ob", "m"} /\ Command(pc, round, saved) = <<Request(op, arg)>>
    BY <1>1, CommandShape
  <2>2. Asked(pc) = op
    BY <2>1, FieldsOf DEF Asked
  <2>3. op = "m" => arg = "plane"
    <3> SUFFICES ASSUME op = "m" PROVE arg = "plane"
      OBVIOUS
    <3>1. pc = "plane"
      BY <1>1, <2>2, Places DEF Asked, Command, Ob, Ib, Request
    <3>2. Request(op, arg) = Request("m", "plane")
      BY <2>1, <3>1 DEF Command
    <3> QED
      BY <3>2, FieldsOf
  <2> QED
    BY <2>1, <2>2, <2>3
<1>7. /\ Len(requests) <= 1
      /\ \A n \in 1 .. Len(requests) : requests[n].op = Asked(pc) /\ requests[n].op \in {"ib", "ob", "m"}
                                       /\ (requests[n].op = "m" => requests[n].arg = "plane")
      /\ Len(requests) + Len(replies') \in {0, 1}
      /\ \A n \in 1 .. Len(replies') : replies'[n].kind \in Good(Asked(pc))
      /\ replies' # <<>> => Reply'.kind \in Good(Asked(pc))
  <2>1. CASE requests = Command(pc, round, saved) /\ replies = <<>>
    <3>1. Len(requests) = 1 /\ requests[1] = Request(op, arg)
      BY <1>6, <2>1
    <3>2. replies' = <<>>
      <4>1. DOMAIN replies = {}
        BY <2>1
      <4>2. Belated = [i \in {} |-> [replies[i] EXCEPT !.late = TRUE]]
        BY <4>1 DEF Belated
      <4> QED
        BY <1>1, <4>2
    <3>3. Len(replies') = 0
      BY <3>2
    <3>4. \A n \in 1 .. Len(requests) : requests[n] = Request(op, arg)
      BY <3>1
    <3> QED
      BY <1>6, <3>1, <3>2, <3>3, <3>4, FieldsOf
  <2>2. CASE requests = <<>> /\ replies # <<>> /\ replies = <<Reply>>
    <3>1. Len(requests) = 0 /\ WellFormed(replies)
      BY <2>2 DEF IInv
    <3>2. Len(replies') = 1 /\ replies'[1].kind = Reply.kind /\ Reply' = replies'[1]
      BY <1>1, <1>5, <2>2, <3>1, BelatedOne DEF Reply
    <3>3. \A n \in 1 .. Len(replies') : n = 1
      BY <3>2
    <3> QED
      BY <1>5, <2>2, <3>1, <3>2, <3>3
  <2> QED
    BY <1>5, <2>1, <2>2
<1>8. Good(Asked(pc)) \subseteq {"ok", "out", "hex"} /\ (Asked(pc) = "ib" => Good(Asked(pc)) = {"out"})
  BY <1>6 DEF Good
<1>9. ExactAt(pc, round, d)
  BY <1>4, <1>5 DEF Exact
<1>10. CASE pc \in DOMAIN OnRaise
  <2>1. pc \in CaptureSteps \ Puts
    BY <1>1, <1>10 DEF OnRaise, Puts
  <2>2. RoughAt(pc, d)
    BY <1>9, <2>1, Roughly
  <2>3. OffGuard' = {} /\ struck' # {}
    <3>1. \A f \in {<<pc, "late">>} : f[1] = pc
      OBVIOUS
    <3> QED
      BY <1>2, <2>1, <3>1 DEF OffGuard
  <2>4. pc' = "putFlip" => \/ <<"pick", "late">> \in struck'
                           \/ /\ replies' # <<>> => Reply'.kind = "out"
                              /\ requests # <<>> => requests[1].op = "ib"
    <3> SUFFICES ASSUME pc' = "putFlip", pc # "pick"
                 PROVE  (replies' # <<>> => Reply'.kind = "out") /\ (requests # <<>> => requests[1].op = "ib")
      BY <1>2
    <3>1. pc \in {"flip", "register"}
      BY <1>1, <1>10 DEF OnRaise
    <3>2. Asked(pc) = "ib"
      BY <3>1 DEF Asked, Command, Ib, Request
    <3>3. requests # <<>> => 1 \in 1 .. Len(requests)
      BY TailFormed DEF IInv, WellFormed
    <3> QED
      BY <1>7, <1>8, <3>2, <3>3
  <2>5. requests' \in {requests \o Command(OnRaise[pc], 0, saved), Overdue \o Command(OnRaise[pc], 0, saved)}
    BY <1>1, <1>10 DEF RaiseReqs
  <2>6. \A n \in 1 .. Len(replies') : replies'[n].kind \in {"ok", "out", "hex"}
    BY <1>7, <1>8
  <2>7. \A n \in 1 .. Len(requests) : \/ requests[n].op \in {"ib", "ob"}
                                      \/ requests[n].op = "m" /\ requests[n].arg = "plane"
    BY <1>7
  <2> QED
    BY <1>1, <1>3, <1>4, <1>5, <1>7, <1>10, <2>2, <2>3, <2>4, <2>5, <2>6, <2>7, EntersFinally
<1>11. CASE pc \notin DOMAIN OnRaise
  <2>1. pc' = Leaving /\ requests' = Overdue \o Ask("D")
    BY <1>1, <1>11 DEF RaiseReqs
  <2>2. Back(d)'
    <3>1. CASE pc \in Puts
      <4>1. <<pc, "late">>[1] = pc
        OBVIOUS
      <4>2. OffGuard' # {}
        BY <1>2, <3>1, <4>1 DEF OffGuard
      <4> QED
        BY <4>2 DEF Back
    <3>2. CASE pc \notin Puts
      <4>1. pc \in {"index", "attribute", "dacState", "dac"}
        BY <1>1, <1>11, <3>2, Places DEF OnRaise, Puts
      <4> QED
        BY <1>1, <1>9, <4>1, NothingLeft DEF CInv, Back
    <3> QED
      BY <3>1, <3>2
  <2>3. struck' # {}
    BY <1>2
  <2> QED
    BY <1>1, <1>3, <1>4, <1>7, <2>1, <2>2, <2>3, LeavesReturns
<1> QED
  BY <1>10, <1>11

-----------------------------------------------------------------------------
LEMMA RInvInit == Init => RInv
<1> SUFFICES ASSUME Init PROVE RInv
  OBVIOUS
<1>1. pc = "idle" /\ requests = <<>> /\ before = vga /\ struck = {}
  BY DEF Init, SessionInit
<1>2. pc \notin CaptureSteps /\ Len(requests) = 0
  BY <1>1, Places
<1>3. Due = vga
  BY <1>2 DEF Due, Done
<1>4. SafeInv
  BY <1>1, <1>2 DEF SafeInv
<1>5. BackInv
  BY <1>1, <1>2, <1>3 DEF BackInv, Back
<1>6. FinallyInv /\ OneFault
  BY <1>1, <1>2 DEF FinallyInv, OneFault
<1> QED
  BY <1>4, <1>5, <1>6 DEF RInv

LEMMA RInvStep ==
  ASSUME MaxFaults <= 1
  PROVE  IInv /\ CInv /\ RInv /\ [Next]_vars => RInv'
<1> SUFFICES ASSUME IInv, CInv, RInv, [Next]_vars PROVE RInv'
  OBVIOUS
<1>1. CASE CommandStart
  BY <1>1, StartReturns
<1>2. CASE AllClient
  <2>1. CASE Open
    BY <2>1, OpenReturns
  <2>2. CASE Client /\ UNCHANGED <<vga, capture>>
    BY <2>2, ClientMoves, MoveReturns
  <2>3. CASE GraphicsMode
    BY <2>3, GraphicsModeReturns
  <2>4. CASE CaptureBegins
    BY <2>4, BeginsReturns
  <2>5. CASE Capturing
    BY <2>5, StepReturns, FinallyReturns, MisfitReturns, LateReturns, RefusedReturns DEF Capturing
  <2> QED
    BY <1>2, <2>1, <2>2, <2>3, <2>4, <2>5 DEF AllClient
<1>3. CASE AllStub
  BY <1>3, StubReturns, PortsReturn, RejectsReturns DEF AllStub, Adapter
<1>4. CASE Others
  BY <1>4, ClientMoves, MoveReturns, GuestReturns DEF Others
<1>5. CASE UNCHANGED vars
  BY <1>5, StutterReturns
<1> QED
  BY <1>1, <1>2, <1>3, <1>4, <1>5 DEF Next

(* After one error, time-out or interrupt outside the finally clauses of   *)
(* the capture the guest has its registers back when the connection has    *)
(* ended, and no palette register and no display was touched before that.  *)
(* A second fault may leave the adapter as the capture had set it.         *)
THEOREM RestoresAfterOneFault == ASSUME MaxFaults <= 1 PROVE Spec => []CaptureRestores
<1>1. IInv /\ CInv /\ RInv => CaptureRestores
  <2> SUFFICES ASSUME CInv, RInv PROVE CaptureRestores
    OBVIOUS
  <2>1. vga.registers = before.registers /\ vga.attribute[1] = before.attribute[1]
    BY DEF RInv, SafeInv
  <2>2. ASSUME Settled, OffGuard = {}
        PROVE  /\ [vga EXCEPT !.attribute = <<0, 0>>, !.flip = "index"]
                    = [before EXCEPT !.attribute = <<0, 0>>, !.flip = "index"]
               /\ vga.attribute = before.attribute \/ <<"pick", "late">> \in struck
    <3>1. pc \notin CaptureSteps /\ ~gone /\ Len(requests) = 0
      BY <2>2, Places DEF Settled
    <3>2. Due = vga
      BY <3>1 DEF Due, Done
    <3>3. /\ \A f \in DOMAIN before \ {"attribute", "flip"} : vga[f] = before[f]
          /\ vga.attribute = before.attribute \/ <<"pick", "late">> \in struck
      BY <2>2, <3>1, <3>2 DEF RInv, BackInv, Back
    <3>4. DOMAIN vga = Names /\ DOMAIN before = Names
      BY DEF CInv, VgaInv, StateOK
    <3> QED
      BY <3>3, <3>4 DEF Names
  <2> QED
    BY <2>1, <2>2 DEF CaptureRestores
<1>2. Init => IInv /\ CInv /\ RInv
  BY IInvInit, CInvInit, RInvInit
<1>3. IInv /\ CInv /\ RInv /\ [Next]_vars => IInv' /\ CInv' /\ RInv'
  BY IInvStep, CInvStep, RInvStep
<1> QED
  BY <1>1, <1>2, <1>3, PTL DEF Spec

-----------------------------------------------------------------------------

-----------------------------------------------------------------------------
(* The types.  What a value is taken from has the type of the value: the   *)
(* screens come from the replies, the breakpoints from the requests; and a *)
(* hit is counted after its stop.                                          *)
ReplyOK(r) == /\ DOMAIN r = {"kind", "for", "late", "val"}
              /\ r.kind \in {"stop", "hex", "ok", "err", "out"}
              /\ pc \in Sessions /\ r.kind = "hex" => r.val \in Screens
RepliesOK == \A n \in 1 .. Len(replies) : ReplyOK(replies[n])

GuestOK == /\ running \in BOOLEAN /\ owed \in BOOLEAN /\ gone \in BOOLEAN
           /\ screen \in Screens /\ bps \subseteq Addresses /\ stops \in 0 .. MaxStops
ToolOK  == /\ tool \in Tools /\ trace.at \in Traces \union {<<>>} /\ armed \in 0 .. Len(trace.at)
           /\ latest \in Screens \union {None} /\ {foreign, cut} \subseteq BOOLEAN /\ sessions \in 0 .. MaxSessions
HitsOK  == /\ hits \in Nat /\ hits <= stops
           /\ pc = "stack" => hits < stops
           /\ pc = "tracing" /\ replies # <<>> /\ Reply.kind = "stop" => hits < stops
CaptureOK == /\ round \in 0 .. Colours + 2 /\ failing \in BOOLEAN
             /\ Len(planes) <= Planes /\ Len(palette) <= Colours

TInv == RepliesOK /\ GuestOK /\ ToolOK /\ HitsOK /\ CaptureOK

(* What a step of the client does to them. *)
Takes == \/ UNCHANGED replies \/ replies' = <<>> \/ replies' = Belated
         \/ replies # <<>> /\ replies' = Tail(replies)
Steps ==
  /\ UNCHANGED <<running, screen, bps, stops, gone, tool, trace, sessions>> /\ owed' \in {owed, FALSE} /\ Takes
  /\ {foreign, cut} \subseteq BOOLEAN => {foreign', cut'} \subseteq BOOLEAN
  /\ armed' = armed \/ Arm
  /\ \/ latest' = latest
     \/ pc \in {"cells", "frameCells"} /\ replies # <<>> /\ Is("hex") /\ latest' = Reply.val
  /\ \/ hits' = hits
     \/ pc = "stack" /\ hits' = hits + 1
  /\ pc' = "stack" => Traced /\ hits' = hits
  /\ pc' = "tracing" => Arm \/ Clear \/ Traced \/ StackRead \/ StackTimeout

LEMMA ClientSteps == Client \/ CtrlC \/ CtrlCAgain => Steps
<1> SUFFICES ASSUME Client \/ CtrlC \/ CtrlCAgain PROVE Steps
  OBVIOUS
<1> USE DEF stub
<1>1. CASE Snapshot
  BY <1>1 DEF Snapshot, Broken, Probed, ModeRead, NoText, CellsRead, At, Is, Use, Read, EndPc, FailPc, Leaving,
              locals, history, Steps, Takes
<1>2. CASE Arm \/ Stale \/ Clear \/ Traced
  BY <1>2 DEF Arm, Stale, Clear, Traced, At, Is, Use, Read, ArmedPc, locals, history, Steps, Takes
<1>3. CASE StackRead \/ TraceTimeout \/ StackTimeout
  BY <1>3 DEF StackRead, TraceTimeout, StackTimeout, At, Is, Use, Read, EndPc, Leaving, Counted, Silence,
              locals, history, Steps, Takes
<1>4. CASE Typing
  BY <1>4 DEF Typing, Injected, Stored, Deadline, Pause, Interrupted, At, Is, Use, Read, EndPc, FailPc, Leaving,
              locals, history, Steps, Takes
<1>5. CASE Console
  BY <1>5 DEF Console, FrameRead, FrameCellsRead, Fed, Left, At, Is, Use, Read, EndPc, FailPc, Leaving,
              locals, history, Steps, Takes
<1>6. CASE Close \/ CtrlC
  BY <1>6 DEF Close, Misfits, Misfit, Timeout, LeaveTimeout, Detached, Refused, CtrlC, At, Read, FailPc, Leaving,
              AfterDetach, channel, locals, history, Steps, Takes
<1>7. CASE Wait
  BY <1>7 DEF Wait, Found, Again, WaitDeadline, channel, locals, history, Steps, Takes
<1>8. CASE CtrlCAgain
  BY <1>8 DEF CtrlCAgain, locals, Steps, Takes
<1> QED
  BY <1>1, <1>2, <1>3, <1>4, <1>5, <1>6, <1>7, <1>8 DEF Client, Tracing

LEMMA OtherSteps == Open \/ GraphicsMode \/ CaptureBegins \/ Capturing => Steps
<1> SUFFICES ASSUME Open \/ GraphicsMode \/ CaptureBegins \/ Capturing PROVE Steps
  OBVIOUS
<1> USE DEF stub
<1>0. "stack" \notin CaptureSteps /\ "tracing" \notin CaptureSteps
  BY Places
<1>1. CASE Open
  BY <1>1 DEF Open, Connect, locals, history, Steps, Takes
<1>2. CASE GraphicsMode \/ CaptureBegins
  BY <1>2 DEF GraphicsMode, CaptureBegins, Proceed, At, Use, Read, locals, history, Steps, Takes
<1>3. CASE CaptureStep
  <2>1. pc' \notin {"stack", "tracing"}
    <3>1. \A at \in CaptureSteps : Then[at] \in CaptureSteps \union {"end"}
      BY DEF CaptureSteps, Then
    <3>2. \A at \in DOMAIN Loops : Loops[at] \in CaptureSteps
      BY Places DEF Loops
    <3> QED
      BY <1>0, <1>3, <3>1, <3>2 DEF CaptureStep, Proceed, FailPc, EndPc, Leaving, LoopsOn
  <2>2. replies # <<>> /\ replies' = Tail(replies)
    BY <1>3 DEF CaptureStep, Proceed, Read
  <2> QED
    BY <1>3, <2>1, <2>2 DEF CaptureStep, Use, locals, Steps, Takes
<1>4. CASE CaptureMisfit \/ CaptureLate
  <2>1. pc' \notin {"stack", "tracing"}
    <3>1. \A at \in DOMAIN OnRaise : OnRaise[at] \in CaptureSteps
      BY Places DEF OnRaise
    <3> QED
      BY <1>0, <1>4, <3>1 DEF CaptureMisfit, CaptureLate, Raise, FailPc, Leaving
  <2> QED
    BY <1>4, <2>1 DEF CaptureMisfit, CaptureLate, Raise, Read, locals, history, Steps, Takes
<1>5. CASE CaptureRefused
  BY <1>5 DEF CaptureRefused, channel, locals, history, Steps, Takes
<1> QED
  BY <1>1, <1>2, <1>3, <1>4, <1>5 DEF Capturing

LEMMA BelatedLength ==
  ASSUME WellFormed(replies) PROVE Len(Belated) = Len(replies)
<1>1. DOMAIN replies = 1 .. Len(replies) /\ Len(replies) \in Nat
  BY FormedIsSeq DEF WellFormed
<1>2. DOMAIN Belated = 1 .. Len(replies)
  BY <1>1 DEF Belated
<1>3. WellFormed(requests) => WellFormed(Belated)
  BY OverdueFormed
<1> QED
  BY <1>1, <1>2, <1>3

(* What is in flight keeps its type. *)
LEMMA RepliesTaken ==
  ASSUME IInv, RepliesOK, Takes, pc' \in Sessions => (pc \in Sessions \/ replies = <<>>)
  PROVE  RepliesOK'
<1>1. WellFormed(replies)
  BY DEF IInv
<1>2. ASSUME NEW r, ReplyOK(r), pc' \in Sessions => pc \in Sessions
      PROVE  /\ DOMAIN r = {"kind", "for", "late", "val"} /\ r.kind \in {"stop", "hex", "ok", "err", "out"}
             /\ pc' \in Sessions /\ r.kind = "hex" => r.val \in Screens
  BY <1>2 DEF ReplyOK
<1>3. ASSUME replies' = <<>> PROVE RepliesOK'
  <2>1. Len(replies') = 0
    BY <1>3
  <2> QED
    BY <2>1 DEF RepliesOK
<1>4. CASE replies = <<>>
  <2>1. replies' = <<>>
    <3>1. Belated = <<>>
      <4>1. DOMAIN replies = {}
        BY <1>4
      <4> QED
        BY <4>1, EmptySeq DEF Belated
    <3> QED
      BY <1>4, <3>1 DEF Takes
  <2> QED
    BY <1>3, <2>1
<1>5. CASE replies # <<>>
  <2> USE <1>5
  <2>1. CASE UNCHANGED replies
    <3>1. ASSUME NEW n \in 1 .. Len(replies') PROVE ReplyOK(replies[n])'
      <4>1. ReplyOK(replies[n])
        BY <2>1, <3>1 DEF RepliesOK
      <4> QED
        BY <2>1, <4>1, <1>2 DEF ReplyOK
    <3> QED
      BY <3>1 DEF RepliesOK
  <2>2. CASE replies' = Tail(replies)
    <3>1. /\ Len(replies') = Len(replies) - 1 /\ Len(replies) \in Nat
          /\ \A n \in 1 .. Len(replies) - 1 : replies'[n] = replies[n + 1]
      BY <1>1, <2>2, TailFormed DEF WellFormed
    <3>2. ASSUME NEW n \in 1 .. Len(replies') PROVE ReplyOK(replies[n])'
      <4>1. n + 1 \in 1 .. Len(replies) /\ replies'[n] = replies[n + 1]
        BY <3>1
      <4>2. ReplyOK(replies[n + 1])
        BY <4>1 DEF RepliesOK
      <4> QED
        BY <4>1, <4>2, <1>2 DEF ReplyOK
    <3> QED
      BY <3>2 DEF RepliesOK
  <2>3. CASE replies' = Belated
    <3>1. DOMAIN replies = 1 .. Len(replies) /\ Len(replies) \in Nat
      BY <1>1, FormedIsSeq DEF WellFormed
    <3>2. Len(replies') = Len(replies)
      BY <1>1, <2>3, BelatedLength
    <3>3. ASSUME NEW n \in 1 .. Len(replies') PROVE ReplyOK(replies[n])'
      <4>1. n \in 1 .. Len(replies) /\ replies'[n] = [replies[n] EXCEPT !.late = TRUE]
        BY <2>3, <3>1, <3>2 DEF Belated
      <4>2. ReplyOK(replies[n])
        BY <4>1 DEF RepliesOK
      <4>3. /\ DOMAIN replies'[n] = DOMAIN replies[n]
            /\ replies'[n].kind = replies[n].kind /\ replies'[n].val = replies[n].val
        BY <4>1, <4>2 DEF ReplyOK
      <4> QED
        BY <4>2, <4>3, <1>2 DEF ReplyOK
    <3> QED
      BY <3>3 DEF RepliesOK
  <2> QED
    BY <1>3, <2>1, <2>2, <2>3 DEF Takes
<1> QED
  BY <1>4, <1>5

(* The stub adds a packet at most; a stop is news of the guest, or it was  *)
(* asked for.                                                              *)
Given(p) == /\ DOMAIN p = {"kind", "for", "late", "val"}
            /\ p.kind \in {"stop", "hex", "ok", "err", "out"}
            /\ p.kind = "hex" => p.val \in Screens \/ (requests # <<>> /\ Reprograms(Head(requests)))
            /\ p.kind = "stop" => Hit \/ (requests # <<>> /\ Head(requests).op \in {"03", "?"})
Gives == \/ replies' \in {replies, <<>>}
         \/ \E p : Given(p) /\ replies' = replies \o <<p>>

LEMMA PacketGiven ==
  ASSUME WellFormed(replies), requests # <<>>, NEW kind \in {"hex", "ok", "err", "out", "stop"}, NEW val,
         kind = "hex" => val \in Screens \/ Reprograms(Head(requests)),
         kind = "stop" => Head(requests).op = "?",
         Send(<<Packet(kind, Head(requests), val)>>)
  PROVE  Gives
<1> DEFINE p == Packet(kind, Head(requests), val)
<1>1. Given(p)
  BY DEF Given, Packet
<1>2. replies' = replies \/ replies' = replies \o <<p>>
  BY DEF Send
<1> HIDE DEF p
<1> QED
  BY <1>1, <1>2 DEF Gives

LEMMA HaltGives ==
  ASSUME WellFormed(replies), NEW a, Halt(a), Hit \/ (requests # <<>> /\ Head(requests).op = "03")
  PROVE  Gives
<1> DEFINE p == StopFor(a)
<1>1. Given(p)
  BY DEF Given, StopFor
<1>2. \/ replies' = replies
      \/ replies' = replies \o <<p>>
      \/ replies' = replies \o <<>>
  BY DEF Halt, Send
<1>3. replies \o <<>> = replies
  BY SendFormed
<1> HIDE DEF p
<1> QED
  BY <1>1, <1>2, <1>3 DEF Gives

LEMMA StubGives ==
  ASSUME IInv, CInv, TInv, AllStub \/ Hit \/ Draw \/ VmEnds
  PROVE  Gives
<1>1. WellFormed(replies) /\ screen \in Screens
  BY DEF IInv, TInv, GuestOK
<1>2. CASE BreakIn \/ Hit
  BY <1>1, <1>2, HaltGives DEF BreakIn, Hit, Process
<1>3. CASE TellStop
  BY <1>1, <1>3, PacketGiven DEF TellStop, Process
<1>4. CASE ReadMemory
  BY <1>1, <1>4, PacketGiven DEF ReadMemory, Process
<1>5. CASE WriteMemory
  BY <1>1, <1>5, PacketGiven DEF WriteMemory, Process
<1>6. CASE SetBreakpoint
  <2>1. PICK kind \in {"ok", "err"} : Send(<<Packet(kind, Head(requests), None)>>) /\ requests # <<>>
    BY <1>6 DEF SetBreakpoint, Process
  <2> QED
    BY <1>1, <2>1, PacketGiven
<1>7. CASE ClearBreakpoint \/ LetGo
  BY <1>1, <1>7, PacketGiven DEF ClearBreakpoint, LetGo, Process
<1>8. CASE Continue \/ Draw \/ VmEnds
  BY <1>8 DEF Continue, Draw, VmEnds, channel, Gives
<1>9. CASE PortRead \/ PortWrite \/ Rejects
  <2>1. PICK kind, val : kind \in {"out", "ok", "err"} /\ Send(<<Packet(kind, Head(requests), val)>>) /\ requests # <<>>
    BY <1>9 DEF PortRead, PortWrite, Rejects, Answer, Process
  <2> QED
    BY <1>1, <2>1, PacketGiven
<1>10. CASE PlaneRead
  <2>1. Reprograms(Head(requests))
    BY <1>10, NoneAssumption DEF PlaneRead, Process, Reprograms
  <2> QED
    BY <1>1, <1>10, <2>1, PacketGiven DEF PlaneRead, Answer, Process
<1> QED
  BY <1>2, <1>3, <1>4, <1>5, <1>6, <1>7, <1>8, <1>9, <1>10 DEF AllStub, Stub, Adapter

LEMMA StubTypes ==
  ASSUME IInv, CInv, TInv, AllStub \/ ((Hit \/ Draw \/ VmEnds) /\ UNCHANGED <<vga, capture>>)
  PROVE  UNCHANGED <<tool, pc, armed, trace, hits, latest, foreign, cut, sessions, round, failing, planes, palette>>
<1>1. CASE Stub /\ UNCHANGED <<vga, capture>>
  BY <1>1 DEF Stub, BreakIn, TellStop, ReadMemory, WriteMemory, SetBreakpoint, ClearBreakpoint, Continue, LetGo,
              clientSide, locals, history, capture
<1>2. CASE Adapter
  BY <1>2 DEF Adapter, PortRead, PortWrite, PlaneRead, Rejects, Answer, clientSide, locals, history
<1>3. CASE (Hit \/ Draw \/ VmEnds) /\ UNCHANGED <<vga, capture>>
  BY <1>3 DEF Hit, Draw, VmEnds, clientSide, locals, history, capture
<1> QED
  BY <1>1, <1>2, <1>3 DEF AllStub

(* The packets stay well typed. *)
LEMMA RepliesGiven ==
  ASSUME IInv, CInv, TInv, UNCHANGED pc, Gives
  PROVE  RepliesOK'
<1>1. WellFormed(replies) /\ RepliesOK /\ Len(replies) \in Nat
  BY DEF IInv, TInv, WellFormed
<1>2. CASE replies' = replies
  BY <1>1, <1>2 DEF RepliesOK, ReplyOK
<1>3. CASE replies' = <<>>
  <2>1. Len(replies') = 0
    BY <1>3
  <2> QED
    BY <2>1 DEF RepliesOK
<1>4. ASSUME NEW p, Given(p), replies' = replies \o <<p>>
      PROVE  RepliesOK'
  <2>1. /\ Len(replies') = Len(replies) + 1 /\ replies'[Len(replies) + 1] = p
        /\ \A i \in 1 .. Len(replies) : replies'[i] = replies[i]
    BY <1>1, <1>4, SendFormed
  <2>2. ReplyOK(p)
    <3>1. pc \in Sessions /\ p.kind = "hex" => p.val \in Screens
      <4> SUFFICES ASSUME pc \in Sessions, requests # <<>>, Reprograms(Head(requests)) PROVE FALSE
        BY <1>4 DEF Given
      <4>1. WellFormed(requests)
        BY DEF IInv
      <4>2. Head(requests) = requests[1] /\ 1 \in 1 .. Len(requests)
        BY <4>1, TailFormed DEF WellFormed
      <4> QED
        BY <4>2 DEF CInv, QuietInv
    <3> QED
      BY <1>4, <3>1 DEF Given, ReplyOK
  <2>3. ASSUME NEW n \in 1 .. Len(replies') PROVE ReplyOK(replies'[n])
    <3>1. n \in 1 .. Len(replies) \/ n = Len(replies) + 1
      BY <1>1, <2>1
    <3> QED
      BY <1>1, <2>1, <2>2, <3>1 DEF RepliesOK
  <2> QED
    BY <2>3 DEF RepliesOK, ReplyOK
<1> QED
  BY <1>2, <1>3, <1>4 DEF Gives

(* The guest. *)
LEMMA GuestTypes ==
  ASSUME IInv, CInv, TInv, Stub \/ Hit \/ Draw \/ VmEnds
  PROVE  GuestOK'
<1>1. /\ running \in BOOLEAN /\ owed \in BOOLEAN /\ gone \in BOOLEAN /\ screen \in Screens
      /\ bps \subseteq Addresses /\ stops \in 0 .. MaxStops /\ MaxStops \in Nat
  BY SessionBounds DEF TInv, GuestOK
<1>2. CASE BreakIn \/ TellStop \/ ReadMemory \/ WriteMemory \/ Continue \/ LetGo
  BY <1>1, <1>2 DEF BreakIn, TellStop, ReadMemory, WriteMemory, Continue, LetGo, Halt, stub, GuestOK
<1>3. CASE SetBreakpoint
  <2>1. /\ requests # <<>> /\ Head(requests).op = "Z1" /\ bps' = bps \union {Head(requests).arg}
        /\ UNCHANGED <<running, screen, stops, owed, gone>>
    BY <1>3 DEF SetBreakpoint, Process
  <2>2. WellFormed(requests)
    BY DEF IInv
  <2>3. Head(requests) = requests[1] /\ 1 \in 1 .. Len(requests)
    BY <2>1, <2>2, TailFormed DEF WellFormed
  <2>4. Shaped(Head(requests))
    BY <2>3 DEF CInv, ShapeInv
  <2> QED
    BY <1>1, <2>1, <2>4 DEF Shaped, GuestOK
<1>4. CASE ClearBreakpoint
  BY <1>1, <1>4 DEF ClearBreakpoint, GuestOK
<1>5. CASE Hit
  <2>1. /\ running' = FALSE /\ owed' = FALSE /\ stops' = stops + 1 /\ stops < MaxStops
        /\ UNCHANGED <<screen, bps, gone>>
    BY <1>5 DEF Hit, Halt
  <2>2. stops' \in 0 .. MaxStops
    BY <1>1, <2>1
  <2> QED
    BY <1>1, <2>1, <2>2 DEF GuestOK
<1>6. CASE Draw \/ VmEnds
  BY <1>1, <1>6 DEF Draw, VmEnds, GuestOK
<1> QED
  BY <1>2, <1>3, <1>4, <1>5, <1>6 DEF Stub

(* The command. *)
LEMMA ToolTypes ==
  ASSUME IInv, CInv, TInv, Steps
  PROVE  ToolOK'
<1>1. armed' \in 0 .. Len(trace.at)
  <2>1. CASE armed' = armed
    BY <2>1 DEF TInv, ToolOK
  <2>2. CASE Arm
    <3>1. armed' = armed + 1 /\ armed \in Nat /\ armed + 1 \in DOMAIN trace.at /\ trace.at \in Traces
      BY <2>2 DEF Arm, IInv, ToolInv
    <3>2. trace.at \in Seq(Addresses)
      BY <3>1, TraceAssumption
    <3> QED
      BY <3>1, <3>2, LenProperties
  <2> QED
    BY <2>1, <2>2 DEF Steps
<1>2. latest' \in Screens \union {None}
  <2>1. CASE latest' = latest
    BY <2>1 DEF TInv, ToolOK
  <2>2. CASE pc \in {"cells", "frameCells"} /\ replies # <<>> /\ Is("hex") /\ latest' = Reply.val
    <3>1. WellFormed(replies)
      BY DEF IInv
    <3>2. Reply = replies[1] /\ 1 \in 1 .. Len(replies)
      BY <2>2, <3>1, TailFormed DEF WellFormed, Reply
    <3>3. ReplyOK(Reply)
      BY <3>2 DEF TInv, RepliesOK
    <3>4. pc \in Sessions
      BY <2>2 DEF Sessions, Waiting
    <3> QED
      BY <2>2, <3>3, <3>4 DEF ReplyOK, Is
  <2> QED
    BY <2>1, <2>2 DEF Steps
<1> QED
  BY <1>1, <1>2 DEF Steps, TInv, ToolOK

LEMMA StartTypes ==
  ASSUME TInv, Start
  PROVE  ToolOK' /\ HitsOK' /\ UNCHANGED <<stub, replies>> /\ pc' = "connect"
<1>1. /\ tool' \in Tools /\ trace'.at \in Traces \union {<<>>} /\ armed' = 0 /\ latest' = None /\ foreign' = FALSE
      /\ sessions' = sessions + 1 /\ sessions < MaxSessions /\ hits' = 0 /\ pc' = "connect"
      /\ UNCHANGED <<stub, replies, cut>>
  BY DEF Start, channel
<1>2. Len(trace'.at) \in Nat
  <2>1. Traces \subseteq Seq(Addresses) /\ <<>> \in Seq(Addresses)
    BY TraceAssumption
  <2> QED
    BY <1>1, <2>1, LenProperties
<1>3. ToolOK'
  <2>1. sessions' \in 0 .. MaxSessions
    BY <1>1, SessionBounds DEF TInv, ToolOK
  <2>2. armed' \in 0 .. Len(trace'.at)
    BY <1>1, <1>2
  <2>3. {foreign', cut'} \subseteq BOOLEAN
    BY <1>1 DEF TInv, ToolOK
  <2> QED
    BY <1>1, <2>1, <2>2, <2>3 DEF ToolOK
<1>4. HitsOK'
  BY <1>1, SessionBounds DEF TInv, GuestOK, HitsOK, stub
<1> QED
  BY <1>1, <1>3, <1>4

(* A hit is counted for a stop. *)
LEMMA HitsCounted ==
  ASSUME IInv, TInv, Steps
  PROVE  HitsOK'
<1>1. /\ hits \in Nat /\ hits <= stops /\ stops' = stops /\ stops \in Nat
      /\ pc = "stack" => hits < stops
      /\ pc = "tracing" /\ replies # <<>> /\ Reply.kind = "stop" => hits < stops
  BY SessionBounds DEF TInv, HitsOK, GuestOK, Steps, stub
<1>2. hits' \in Nat /\ hits' <= stops'
  BY <1>1 DEF Steps
<1>3. pc' = "stack" => hits' < stops'
  BY <1>1 DEF Steps, Traced, At, Is
<1>4. pc' = "tracing" => replies' = <<>>
  <2>1. ASSUME replies = <<Reply>>, replies' = Tail(replies) PROVE replies' = <<>>
    BY <2>1, Tuples
  <2>2. CASE Arm \/ Clear \/ StackRead
    <3>1. /\ replies # <<>> /\ replies' = Tail(replies)
          /\ pc \in {"arming", "rearming", "clearing", "stack"}
      BY <2>2 DEF Arm, Clear, StackRead, Read, At
    <3>2. ~gone
      BY <3>1 DEF IInv, EndedInv
    <3>3. replies = <<Reply>>
      BY <3>1, <3>2 DEF IInv, ChannelInv, Awaits, Single
    <3> QED
      BY <2>1, <3>1, <3>3
  <2>3. CASE Traced
    <3>1. /\ replies # <<>> /\ replies' = Tail(replies) /\ pc = "tracing" /\ Reply.kind = "stop"
      BY <2>3 DEF Traced, Read, At, Is
    <3>2. ~gone
      BY <3>1 DEF IInv, EndedInv
    <3>3. replies = <<Reply>>
      BY <3>1, <3>2 DEF IInv, ChannelInv, TraceRuns, Unfit, Single
    <3> QED
      BY <2>1, <3>1, <3>3
  <2>4. CASE StackTimeout
    BY <2>4 DEF StackTimeout, Silence
  <2> QED
    BY <2>2, <2>3, <2>4 DEF Steps
<1> QED
  BY <1>2, <1>3, <1>4 DEF HitsOK

LEMMA HitsKept ==
  ASSUME IInv, CInv, TInv, UNCHANGED <<pc, hits>>, Gives, stops' = stops \/ (Hit /\ stops' = stops + 1)
  PROVE  HitsOK'
<1>1. /\ hits \in Nat /\ hits <= stops /\ stops \in Nat
      /\ pc = "stack" => hits < stops
      /\ pc = "tracing" /\ replies # <<>> /\ Reply.kind = "stop" => hits < stops
  BY SessionBounds DEF TInv, HitsOK, GuestOK
<1>2. stops' = stops \/ stops' = stops + 1
  OBVIOUS
<1>3. ASSUME pc = "tracing", replies' # <<>>, Reply'.kind = "stop" PROVE hits < stops'
  <2>1. CASE replies' = replies
    BY <1>1, <1>2, <1>3, <2>1 DEF Reply
  <2>2. ASSUME NEW p, Given(p), replies' = replies \o <<p>> PROVE hits < stops'
    <3>1. WellFormed(replies)
      BY DEF IInv
    <3>2. CASE replies # <<>>
      <4>1. Reply' = Reply
        BY <2>2, <3>1, <3>2, SendFormed DEF Reply
      <4> QED
        BY <1>1, <1>2, <1>3, <3>2, <4>1
    <3>3. CASE replies = <<>>
      <4>1. Reply' = p
        BY <2>2, <3>1, <3>3, SendFormed, Tuples DEF Reply
      <4>2. CASE Hit
        BY <1>1, <4>2 DEF Hit
      <4>3. CASE requests # <<>> /\ Head(requests).op \in {"03", "?"}
        BY <1>3, <4>3, HeadOps
      <4> QED
        BY <1>3, <2>2, <4>1, <4>2, <4>3 DEF Given
    <3> QED
      BY <3>2, <3>3
  <2> QED
    BY <1>3, <2>1, <2>2 DEF Gives
<1> QED
  BY <1>1, <1>2, <1>3 DEF HitsOK

(* The capture takes no more than there is. *)
LEMMA CaptureTypes ==
  ASSUME IInv, CInv, CInv', TInv, CaptureStep
  PROVE  CaptureOK'
<1>1. /\ round \in 0 .. Colours + 2 /\ failing \in BOOLEAN /\ Len(planes) <= Planes /\ Len(palette) <= Colours
      /\ failing' = failing /\ pc \in CaptureSteps
      /\ Planes \in 1 .. 4 /\ Colours \in Nat \ {0}
  BY CaptureBounds DEF TInv, CaptureOK, CaptureStep
<1>2. pc' \in CaptureSteps \/ (round' = round /\ (failing \/ pc = "putDac"))
  <2>1. Then[pc] = "end" => pc = "putDac"
    BY <1>1, Places DEF Then
  <2>2. Then[pc] \in CaptureSteps \union {"end"}
    BY <1>1, Places DEF Then
  <2>3. \A at \in DOMAIN Loops : Loops[at] \in CaptureSteps
    BY Places DEF Loops
  <2> QED
    BY <2>1, <2>2, <2>3 DEF CaptureStep, Proceed, LoopsOn
<1>3. round' \in 0 .. Colours + 2
  <2>1. CASE pc' \in CaptureSteps
    BY <1>1, <2>1 DEF CInv, RoundInv
  <2> QED
    BY <1>1, <1>2, <2>1
<1>4. Len(planes') <= Planes /\ Len(palette') <= Colours
  <2>1. CASE failing \/ pc = "putDac"
    <3>1. pc \in Puts
      BY <1>1, <2>1 DEF CInv, RoundInv, Puts
    <3>2. UNCHANGED <<planes, palette>>
      BY <3>1 DEF CaptureStep, Puts
    <3> QED
      BY <1>1, <3>2
  <2>2. CASE pc' \in CaptureSteps /\ ~failing
    <3>1. /\ planes' = [p \in 1 .. PlanesRead' |-> <<p - 1, 0>>]
          /\ palette' = [c \in 1 .. ColoursRead' |-> Colour(c - 1)']
      BY <1>1, <2>2 DEF CInv, PictureInv
    <3>2. PlanesRead' \in 0 .. Planes /\ ColoursRead' \in 0 .. Colours
      <4>1. /\ pc' \in Selected => round' \in 0 .. Planes - 1
            /\ pc' \in Coloured => round' \in 0 .. Colours - 1
        BY <2>2 DEF CInv, RoundInv
      <4> QED
        BY <1>1, <4>1 DEF PlanesRead, ColoursRead, Sofar
    <3>3. ASSUME NEW n \in Nat, NEW s, DOMAIN s = 1 .. n, s = [i \in 1 .. n |-> s[i]]
          PROVE  Len(s) = n
      <4>1. s \in [1 .. n -> {s[i] : i \in 1 .. n}]
        BY <3>3
      <4>2. s \in Seq({s[i] : i \in 1 .. n})
        BY <4>1, SeqDef
      <4> QED
        BY <3>3, <4>2, LenProperties
    <3>4. /\ DOMAIN planes' = 1 .. PlanesRead' /\ planes' = [i \in 1 .. PlanesRead' |-> planes'[i]]
          /\ DOMAIN palette' = 1 .. ColoursRead' /\ palette' = [i \in 1 .. ColoursRead' |-> palette'[i]]
      BY <3>1
    <3>5. Len(planes') = PlanesRead'
      BY <3>2, <3>3, <3>4
    <3>6. Len(palette') = ColoursRead'
      BY <3>2, <3>3, <3>4
    <3> QED
      BY <1>1, <3>2, <3>5, <3>6
  <2> QED
    BY <1>1, <1>2, <2>1, <2>2
<1> QED
  BY <1>1, <1>3, <1>4 DEF CaptureOK

LEMMA CaptureKept ==
  ASSUME TInv, \/ UNCHANGED <<round, failing, planes, palette>>
               \/ Open \/ GraphicsMode \/ CommandStart \/ CaptureBegins
               \/ CaptureMisfit \/ CaptureLate \/ CaptureRefused
  PROVE  CaptureOK'
<1>1. /\ round \in 0 .. Colours + 2 /\ 0 \in 0 .. Colours + 2 /\ failing \in BOOLEAN
      /\ Len(planes) <= Planes /\ Len(palette) <= Colours
  BY CaptureBounds DEF TInv, CaptureOK
<1>2. CASE CommandStart
  <2>1. round' = 0 /\ failing' = FALSE /\ planes' = <<>> /\ palette' = <<>>
    BY <1>2 DEF CommandStart
  <2>2. Len(planes') = 0 /\ Len(palette') = 0
    BY <2>1
  <2>3. 0 <= Planes /\ 0 <= Colours
    BY CaptureBounds
  <2> QED
    BY <1>1, <2>1, <2>2, <2>3 DEF CaptureOK
<1>3. CASE CaptureMisfit \/ CaptureLate
  <2>1. round' = 0 /\ failing' \in {failing, TRUE} /\ UNCHANGED <<planes, palette>>
    BY <1>3 DEF CaptureMisfit, CaptureLate, Raise
  <2> QED
    BY <1>1, <2>1 DEF CaptureOK
<1>4. CASE Open \/ GraphicsMode \/ CaptureRefused \/ UNCHANGED <<round, failing, planes, palette>>
  BY <1>1, <1>4 DEF Open, GraphicsMode, CaptureRefused, capture, CaptureOK
<1>5. CASE CaptureBegins
  BY <1>1, <1>5 DEF CaptureBegins, Proceed, CaptureOK
<1> QED
  BY <1>2, <1>3, <1>4, <1>5

-----------------------------------------------------------------------------
LEMMA TInvInit == Init => TInv
<1> SUFFICES ASSUME Init PROVE TInv
  OBVIOUS
<1>1. RepliesOK
  <2>1. Len(replies) = 0
    BY DEF Init, SessionInit
  <2> QED
    BY <2>1 DEF RepliesOK
<1>2. GuestOK /\ HitsOK
  <2>1. /\ running \in BOOLEAN /\ owed = FALSE /\ gone = FALSE /\ screen = "other" /\ bps = {} /\ stops = 0
        /\ hits = 0 /\ pc = "idle"
    BY DEF Init, SessionInit
  <2>2. stops \in 0 .. MaxStops /\ hits \in Nat /\ hits <= stops
    BY <2>1, SessionBounds
  <2> QED
    BY <2>1, <2>2 DEF GuestOK, HitsOK, Screens
<1>3. ToolOK
  <2>1. trace.at = <<>> /\ armed = 0 /\ latest = None /\ foreign = FALSE /\ cut = FALSE /\ sessions = 0
    BY DEF Init, SessionInit
  <2>2. tool \in Tools
    BY ToolAssumption DEF Init, SessionInit
  <2>3. Len(trace.at) = 0
    BY <2>1
  <2>4. armed \in 0 .. Len(trace.at) /\ sessions \in 0 .. MaxSessions
    BY <2>1, <2>3, SessionBounds
  <2> QED
    BY <2>1, <2>2, <2>4 DEF ToolOK
<1>4. CaptureOK
  <2>1. round = 0 /\ failing = FALSE /\ Len(planes) = 0 /\ Len(palette) = 0
    BY DEF Init
  <2>2. round \in 0 .. Colours + 2 /\ Len(planes) <= Planes /\ Len(palette) <= Colours
    BY <2>1, CaptureBounds
  <2> QED
    BY <2>1, <2>2 DEF CaptureOK
<1> QED
  BY <1>1, <1>2, <1>3, <1>4 DEF TInv

(* A step of the command, and a step of the stub or the guest. *)
LEMMA CommandTypes ==
  ASSUME IInv, TInv, Steps, CaptureOK', CInv, pc' \in Sessions => (pc \in Sessions \/ replies = <<>>)
  PROVE  TInv'
<1>1. RepliesOK'
  BY RepliesTaken DEF TInv, Steps
<1>2. GuestOK'
  BY DEF Steps, TInv, GuestOK
<1>3. ToolOK'
  BY ToolTypes
<1>4. HitsOK'
  BY HitsCounted
<1> QED
  BY <1>1, <1>2, <1>3, <1>4 DEF TInv

LEMMA WorldTypes ==
  ASSUME IInv, CInv, TInv, AllStub \/ ((Hit \/ Draw \/ VmEnds) /\ UNCHANGED <<vga, capture>>)
  PROVE  TInv'
<1>1. /\ UNCHANGED <<tool, pc, armed, trace, hits, latest, foreign, cut, sessions>>
      /\ UNCHANGED <<round, failing, planes, palette>>
  BY StubTypes
<1>2. Gives
  BY StubGives
<1>3. RepliesOK'
  BY <1>1, <1>2, RepliesGiven
<1>4. CaptureOK'
  BY <1>1, CaptureKept
<1>5. ToolOK'
  BY <1>1 DEF TInv, ToolOK
<1>6. GuestOK' /\ (stops' = stops \/ (Hit /\ stops' = stops + 1))
  <2>1. CASE Adapter
    <3>1. UNCHANGED stub
      BY <2>1 DEF Adapter, PortRead, PortWrite, PlaneRead, Rejects, Answer
    <3> QED
      BY <3>1 DEF stub, TInv, GuestOK
  <2>2. CASE Stub
    <3>1. UNCHANGED stops
      BY <2>2 DEF Stub, BreakIn, TellStop, ReadMemory, WriteMemory, SetBreakpoint, ClearBreakpoint, Continue, LetGo,
                  stub
    <3> QED
      BY <2>2, <3>1, GuestTypes
  <2>3. CASE Hit \/ Draw \/ VmEnds
    <3>1. GuestOK'
      BY <2>3, GuestTypes
    <3>2. stops' = stops \/ (Hit /\ stops' = stops + 1)
      BY <2>3 DEF Hit, Draw, VmEnds
    <3> QED
      BY <3>1, <3>2
  <2> QED
    BY <2>1, <2>2, <2>3 DEF AllStub
<1>7. HitsOK'
  BY <1>1, <1>2, <1>6, HitsKept
<1> QED
  BY <1>3, <1>4, <1>5, <1>6, <1>7 DEF TInv

LEMMA TInvStep == IInv /\ CInv /\ TInv /\ [Next]_vars => TInv'
<1> SUFFICES ASSUME IInv, CInv, TInv, [Next]_vars PROVE TInv'
  OBVIOUS
<1>1. CInv'
  BY CInvStep
<1>2. CASE CommandStart
  <2>1. ToolOK' /\ HitsOK' /\ UNCHANGED <<stub, replies>> /\ pc' = "connect"
    BY <1>2, StartTypes DEF CommandStart
  <2>2. CaptureOK'
    BY <1>2, CaptureKept
  <2>3. RepliesOK'
    <3>1. pc' \notin Sessions
      BY <2>1, Within DEF Apart
    <3> QED
      BY <2>1, <3>1, RepliesTaken DEF Takes, TInv
  <2>4. GuestOK'
    BY <2>1 DEF stub, TInv, GuestOK
  <2> QED
    BY <2>1, <2>2, <2>3, <2>4 DEF TInv
<1>3. CASE (Client \/ CtrlC \/ CtrlCAgain) /\ UNCHANGED <<vga, capture>>
  <2>1. pc' \in Sessions => pc \in Sessions
    BY <1>3, ClientMoves DEF Moves
  <2>2. CaptureOK'
    BY <1>3, CaptureKept DEF capture
  <2> QED
    BY <1>3, <2>1, <2>2, ClientSteps, CommandTypes
<1>4. CASE Open
  <2>1. replies = <<>>
    BY <1>4 DEF Open, Connect, IInv, ChannelInv, Apart
  <2>2. CaptureOK'
    BY <1>4, CaptureKept
  <2> QED
    BY <1>4, <2>1, <2>2, OtherSteps, CommandTypes
<1>5. CASE GraphicsMode \/ CaptureBegins
  <2>1. pc \in Sessions
    BY <1>5 DEF GraphicsMode, CaptureBegins, At, Sessions, Waiting
  <2>2. CaptureOK'
    BY <1>5, CaptureKept
  <2> QED
    BY <1>5, <2>1, <2>2, OtherSteps, CommandTypes
<1>6. CASE Capturing
  <2>1. pc' \notin Sessions
    <3>1. pc \in CaptureSteps
      BY <1>6 DEF Capturing, CaptureStep, CaptureMisfit, CaptureLate, CaptureRefused
    <3>2. Leaving = "detaching"
      BY <3>1 DEF CInv, FreshInv, Leaving
    <3>3. pc' \in CaptureSteps \union {"detaching", "idle"}
      <4>1. \A at \in CaptureSteps : Then[at] \in CaptureSteps \union {"end"}
        BY Places DEF Then
      <4>2. \A at \in DOMAIN Loops : Loops[at] \in CaptureSteps
        BY Places DEF Loops
      <4>3. \A at \in DOMAIN OnRaise : OnRaise[at] \in CaptureSteps
        BY Places DEF OnRaise
      <4> QED
        BY <1>6, <3>1, <3>2, <4>1, <4>2, <4>3
        DEF Capturing, CaptureStep, CaptureMisfit, CaptureLate, CaptureRefused, Raise, Proceed, FailPc, EndPc, LoopsOn
    <3> QED
      BY <3>3, Within DEF Waiting, Apart, Sessions
  <2>2. CaptureOK'
    BY <1>1, <1>6, CaptureTypes, CaptureKept DEF Capturing
  <2> QED
    BY <1>6, <2>1, <2>2, OtherSteps, CommandTypes
<1>7. CASE AllStub \/ ((Hit \/ Draw \/ VmEnds) /\ UNCHANGED <<vga, capture>>)
  BY <1>7, WorldTypes
<1>8. CASE UNCHANGED vars
  BY <1>8 DEF vars, sessionVars, capture, TInv, RepliesOK, ReplyOK, GuestOK, ToolOK, HitsOK, CaptureOK, Reply
<1> QED
  BY <1>2, <1>3, <1>4, <1>5, <1>6, <1>7, <1>8 DEF Next, AllClient, Others

(* Every variable of the sessions, of the adapter and of the capture keeps *)
(* its type, and no loop of the capture reads more planes or colours than  *)
(* there are, however many faults there are.                               *)
THEOREM TypeCorrect == Spec => []TypeOK
<1>1. IInv /\ CInv /\ TInv => TypeOK
  <2> SUFFICES ASSUME IInv, CInv, TInv PROVE TypeOK
    OBVIOUS
  <2>1. /\ DOMAIN requests = 1 .. Len(requests) /\ DOMAIN replies = 1 .. Len(replies)
    BY FormedIsSeq DEF IInv
  <2>2. \A n \in DOMAIN requests : DOMAIN requests[n] = {"op", "arg", "late"}
    BY <2>1 DEF CInv, ShapeInv, Shaped
  <2>3. \A n \in DOMAIN replies : replies[n].kind \in {"stop", "hex", "ok", "err", "out"}
    BY <2>1 DEF TInv, RepliesOK, ReplyOK
  <2>4. hits \in 0 .. MaxStops
    BY SessionBounds DEF TInv, HitsOK, GuestOK
  <2>5. SessionTypeOK
    BY <2>2, <2>3, <2>4 DEF TInv, GuestOK, ToolOK, IInv, ResultInv, SessionTypeOK
  <2>6. vga.map \in 0 .. 3 /\ vga.mode \in Nat /\ vga.dac \in 0 .. 255
        /\ vga.flip \in {"index", "data"} /\ vga.dacState \in {"read", "write"}
    BY DEF CInv, VgaInv, StateOK
  <2> QED
    BY <2>5, <2>6 DEF TypeOK, IInv, TInv, CaptureOK
<1>2. Init => IInv /\ CInv /\ TInv
  BY IInvInit, CInvInit, TInvInit
<1>3. IInv /\ CInv /\ TInv /\ [Next]_vars => IInv' /\ CInv' /\ TInv'
  BY IInvStep, CInvStep, TInvStep
<1> QED
  BY <1>1, <1>2, <1>3, PTL DEF Spec

=============================================================================
