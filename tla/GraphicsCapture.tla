--------------------------- MODULE GraphicsCapture ---------------------------
(***************************************************************************)
(* RspSession together with what "rsp.py screen" does in VGA mode 12h: it  *)
(* reprograms the adapter to read its planes and palette and puts every    *)
(* register back in finally clauses.  The adapter is external.             *)
(***************************************************************************)
EXTENDS RspSession

CONSTANTS
  Planes,      \* number of planes; the code's is 4
  Colours,     \* number of palette registers; the code's is 16
  Adapters,    \* states in which a guest may have left the adapter
  MaxFaults    \* bound: errors, time-outs and interrupts during a capture

ASSUME CaptureBounds == Planes \in 1 .. 4 /\ Colours \in Nat \ {0} /\ MaxFaults \in Nat

VARIABLES
  vga,       \* the adapter's registers
  round,     \* loop counter of the capture
  saved,     \* the registers that the capture has read
  failing,   \* an exception is on its way through a finally clause
  planes,    \* the planes it has read, in order
  palette,   \* the colours it has read, in order
  before,    \* history: vga when the connection was made
  struck     \* history: <<step, fault>> of the faults so far

capture == <<round, saved, failing, planes, palette, before, struck>>
vars    == <<sessionVars, vga, capture>>

(* An attribute address is <<bit 5, index>>.  Bit 3 of the Mode register,  *)
(* which selects the read mode, stands in the lowest bit of vga.mode.      *)
ModeControl  == 16
ColourSelect == 20
Registers    == 0 .. Colours - 1 \union {ModeControl, ColourSelect}
Register(k)  == IF k < Colours THEN k ELSE IF k = Colours THEN ModeControl ELSE ColourSelect

(* What the adapter holds when nothing is known but the size of its fields. *)
ASSUME AdapterAssumption ==
  Adapters \subseteq
    [index : Nat, map : 0 .. 3, mode : Nat, attribute : {0, 1} \X Nat, flip : {"index", "data"},
     registers : [Registers -> Nat], dacState : {"read", "write"}, dac : 0 .. 255]

ASSUME NoneAssumption == None # "plane"

Unread == [index |-> 0, map |-> 0, mode |-> 0, attribute |-> <<0, 0>>, registers |-> <<>>,
           dacState |-> "write", dac |-> 0]

(* Where a palette register leads in the DAC's table. *)
DacIndex(value, control, select) ==
  LET middle == IF (control \div 128) % 2 = 1 THEN select % 4 ELSE (value \div 16) % 4
  IN  64 * ((select \div 4) % 4) + 16 * middle + (value % 16)

-----------------------------------------------------------------------------
(* The capture as a program.  Every step is a command to the stub and the  *)
(* wait for its reply; k is the loop counter and s the registers read.     *)
Ob(port, val) == <<Request("ob", <<port, val>>)>>
Ib(port)      == <<Request("ib", <<port, 0>>)>>

Command(at, k, s) ==
  CASE at \in {"toMap", "toPlanes", "putMapAt"} -> Ob("graphicsIndex", 4)
    [] at \in {"toMode", "putModeAt"} -> Ob("graphicsIndex", 5)
    [] at = "index"        -> Ib("graphicsIndex")
    [] at \in {"map", "mode"} -> Ib("graphicsData")
    [] at = "readMode"     -> Ob("graphicsData", s.mode - (s.mode % 2))
    [] at = "select"       -> Ob("graphicsData", k)
    [] at = "plane"        -> <<Request("m", "plane")>>
    [] at = "putMode"      -> Ob("graphicsData", s.mode)
    [] at = "putMap"       -> Ob("graphicsData", s.map)
    [] at = "putIndex"     -> Ob("graphicsIndex", s.index)
    [] at = "attribute"    -> Ib("attribute")
    [] at \in {"flip", "putFlip"} -> Ib("inputStatus")
    [] at = "pick"         -> Ob("attribute", <<s.attribute[1], Register(k)>>)
    [] at = "register"     -> Ib("attributeData")
    [] at = "putAttribute" -> Ob("attribute", s.attribute)
    [] at = "dacState"     -> Ib("dacState")
    [] at = "dac"          -> Ib("dacIndex")
    [] at = "colour"       -> Ob("dacState", DacIndex(s.registers[k + 1], s.registers[Colours + 1],
                                                      s.registers[Colours + 2]))
    [] at = "component"    -> Ib("dacData")
    [] at = "putDac"       -> Ob(IF s.dacState = "read" THEN "dacState" ELSE "dacIndex", s.dac)

(* The next step when the reply is good.  A loop goes back before that.    *)
(* Mutant: Read Map is not selected again after the Mode register.         *)
ThenNoIndex ==
  [index |-> "toMap", toMap |-> "map", map |-> "toMode", toMode |-> "mode",
   mode |-> "readMode", readMode |-> "select", toPlanes |-> "select", select |-> "plane",
   plane |-> "putModeAt", putModeAt |-> "putMode", putMode |-> "putMapAt",
   putMapAt |-> "putMap", putMap |-> "putIndex", putIndex |-> "attribute",
   attribute |-> "flip", flip |-> "pick", pick |-> "register", register |-> "putFlip",
   putFlip |-> "putAttribute", putAttribute |-> "dacState", dacState |-> "dac",
   dac |-> "colour", colour |-> "component", component |-> "putDac", putDac |-> "end"]

Then ==
  [index |-> "toMap", toMap |-> "map", map |-> "toMode", toMode |-> "mode",
   mode |-> "readMode", readMode |-> "toPlanes", toPlanes |-> "select", select |-> "plane",
   plane |-> "putModeAt", putModeAt |-> "putMode", putMode |-> "putMapAt",
   putMapAt |-> "putMap", putMap |-> "putIndex", putIndex |-> "attribute",
   attribute |-> "flip", flip |-> "pick", pick |-> "register", register |-> "putFlip",
   putFlip |-> "putAttribute", putAttribute |-> "dacState", dacState |-> "dac",
   dac |-> "colour", colour |-> "component", component |-> "putDac", putDac |-> "end"]

CaptureSteps == DOMAIN Then
Loops == [plane |-> "select", register |-> "flip", component |-> "colour"]

(* Mutant: one plane too many. *)
TimesOver == [plane |-> Planes + 1, register |-> Colours + 2, component |-> Colours]

Times == [plane |-> Planes, register |-> Colours + 2, component |-> Colours]
LoopsOn(at) == at \in DOMAIN Loops /\ round + 1 < Times[at]

(* The finally clause that is entered when a step raises. *)
(* Mutant: the Mode register is not put back. *)
OnRaiseKeepsMode ==
  [toMap |-> "putIndex", map |-> "putIndex", toMode |-> "putMapAt", mode |-> "putMapAt",
   readMode |-> "putMapAt", toPlanes |-> "putMapAt", select |-> "putMapAt",
   plane |-> "putMapAt", flip |-> "putFlip", pick |-> "putFlip", register |-> "putFlip",
   colour |-> "putDac", component |-> "putDac"]

OnRaise ==
  [toMap |-> "putIndex", map |-> "putIndex", toMode |-> "putMapAt", mode |-> "putMapAt",
   readMode |-> "putModeAt", toPlanes |-> "putModeAt", select |-> "putModeAt",
   plane |-> "putModeAt", flip |-> "putFlip", pick |-> "putFlip", register |-> "putFlip",
   colour |-> "putDac", component |-> "putDac"]

Puts == {"putModeAt", "putMode", "putMapAt", "putMap", "putIndex", "putFlip",
         "putAttribute", "putDac"}

(* The last step of each finally clause: an exception goes on from there.  *)
Ends == {"putIndex", "putAttribute", "putDac"}

-----------------------------------------------------------------------------
Saved(at, val) ==
  CASE at = "index"     -> [saved EXCEPT !.index = val]
    [] at = "map"       -> [saved EXCEPT !.map = val]
    [] at = "mode"      -> [saved EXCEPT !.mode = val]
    [] at = "attribute" -> [saved EXCEPT !.attribute = val]
    [] at = "register"  -> [saved EXCEPT !.registers = Append(@, val)]
    [] at = "dacState"  -> [saved EXCEPT !.dacState = val]
    [] at = "dac"       -> [saved EXCEPT !.dac = val]
    [] OTHER            -> saved

Asked(at) == Command(at, round, saved)[1].op
Good(op)  == CASE op = "ib" -> {"out"} [] op = "ob" -> {"ok", "out", "hex"} [] op = "m" -> {"hex"}

Proceed(at, k, s) ==
  /\ pc' = at /\ round' = k
  /\ Read(Command(at, k, s))
  /\ UNCHANGED result

(* A new command is a new process. *)
CommandStart ==
  /\ Start
  /\ round' = 0 /\ saved' = Unread /\ failing' = FALSE
  /\ planes' = <<>> /\ palette' = <<>>
  /\ UNCHANGED <<vga, before, struck>>

Open == /\ Connect
        /\ before' = vga /\ struck' = {}
        /\ UNCHANGED <<vga, round, saved, failing, planes, palette>>

(* screen finds mode 12h, and reads the mode once more. *)
GraphicsMode ==
  /\ At("state") /\ Is("hex") /\ Reply.val = "graphics" /\ tool = "screen"
  /\ Use("m") /\ Read(Ask("m")) /\ pc' = "mode12"
  /\ UNCHANGED <<stub, tool, locals, result, vga, capture>>

CaptureBegins ==
  /\ At("mode12") /\ Is("hex") /\ Use("m")
  /\ Proceed("index", 0, Unread)
  /\ UNCHANGED <<stub, tool, locals, vga, saved, failing, planes, palette, before, struck>>

CaptureStep ==
  /\ pc \in CaptureSteps /\ replies # <<>> /\ Reply.kind \in Good(Asked(pc))
  /\ Use(Asked(pc))
  /\ saved' = Saved(pc, Reply.val)
  /\ planes' = IF pc = "plane" THEN Append(planes, Reply.val) ELSE planes
  /\ palette' = IF pc = "component" THEN Append(palette, Reply.val) ELSE palette
  /\ IF failing /\ pc \in Ends THEN Read(Ask("D")) /\ FailPc /\ UNCHANGED round
     ELSE IF Then[pc] = "end" THEN Read(Ask("D")) /\ EndPc /\ UNCHANGED round
     ELSE IF LoopsOn(pc) THEN Proceed(Loops[pc], round + 1, saved')
     ELSE Proceed(Then[pc], IF pc \in DOMAIN Loops THEN 0 ELSE round, saved')
  /\ UNCHANGED <<stub, tool, locals, vga, failing, before, struck>>

(* A step raises: the finally clause around it is entered, or the          *)
(* exception leaves the capture and the connection is given up.            *)
RaiseReqs == IF pc \in DOMAIN OnRaise THEN Command(OnRaise[pc], 0, saved) ELSE Ask("D")

Raise ==
  /\ IF pc \in DOMAIN OnRaise THEN pc' = OnRaise[pc] /\ failing' = TRUE /\ UNCHANGED result
                               ELSE FailPc /\ UNCHANGED failing
  /\ round' = 0
  /\ UNCHANGED <<stub, tool, locals, history, vga, saved, planes, palette, before>>

CaptureMisfit ==
  /\ pc \in CaptureSteps /\ replies # <<>> /\ Reply.kind \notin Good(Asked(pc))
  /\ Read(RaiseReqs) /\ Raise
  /\ UNCHANGED struck

(* A time-out or Ctrl-C: the reply comes, but later. *)
CaptureLate ==
  /\ pc \in CaptureSteps /\ ~gone /\ Cardinality(struck) < MaxFaults
  /\ requests' = Overdue \o RaiseReqs
  /\ replies' = Belated
  /\ Raise
  /\ struck' = struck \union {<<pc, "late">>}

CaptureRefused ==
  /\ pc \in CaptureSteps /\ gone
  /\ pc' = "idle" /\ result' = "error"
  /\ UNCHANGED <<stub, channel, tool, locals, history, vga, capture>>

-----------------------------------------------------------------------------
(* The adapter (external), as the monitor commands ib and ob reach it.     *)
PortValue(port) ==
  CASE port = "graphicsIndex" -> vga.index
    [] port = "graphicsData"  -> IF vga.index = 4 THEN vga.map ELSE vga.mode
    [] port = "attribute"     -> vga.attribute
    [] port = "attributeData" -> vga.registers[vga.attribute[2]]
    [] port = "inputStatus"   -> 0
    [] port = "dacState"      -> vga.dacState
    [] port \in {"dacIndex", "dacData"} -> vga.dac

(* Reading the input status resets the attribute port's flip-flop; the     *)
(* three components of a colour are one read, and the index moves on.      *)
AfterRead(v, port) ==
  CASE port = "inputStatus" -> [v EXCEPT !.flip = "index"]
    [] port = "dacData"     -> [v EXCEPT !.dac = (@ + 1) % 256]
    [] OTHER                -> v

(* Read Map Select has two bits; the attribute port takes addresses and    *)
(* data in turns.                                                          *)
AfterWrite(v, port, val) ==
  CASE port = "graphicsIndex" -> [v EXCEPT !.index = val]
    [] port = "graphicsData" /\ v.index = 4 -> [v EXCEPT !.map = val % 4]
    [] port = "graphicsData" /\ v.index # 4 -> [v EXCEPT !.mode = val]
    [] port = "attribute" /\ v.flip = "index" ->
         [v EXCEPT !.attribute = val, !.flip = "data"]
    [] port = "attribute" /\ v.flip = "data" ->
         [v EXCEPT !.registers[v.attribute[2]] = 32 * val[1] + val[2], !.flip = "index"]
    [] port = "dacState" -> [v EXCEPT !.dac = val, !.dacState = "read"]
    [] port = "dacIndex" -> [v EXCEPT !.dac = val, !.dacState = "write"]

Answer(kind, val) ==
  /\ Send(<<Packet(kind, Head(requests), val)>>)
  /\ UNCHANGED <<stub, clientSide, round, saved, failing, planes, palette, before>>

PortRead ==
  /\ Process("ib")
  /\ LET port == Head(requests).arg[1]
     IN  Answer("out", PortValue(port)) /\ vga' = AfterRead(vga, port)
  /\ UNCHANGED struck

PortWrite ==
  /\ Process("ob")
  /\ LET arg == Head(requests).arg IN vga' = AfterWrite(vga, arg[1], arg[2])
  /\ Answer("ok", None)
  /\ UNCHANGED struck

PlaneRead ==
  /\ Process("m") /\ Head(requests).arg = "plane"
  /\ Answer("hex", <<vga.map, vga.mode % 2>>)
  /\ UNCHANGED <<vga, struck>>

(* The stub rejects a command of the capture. *)
Rejects ==
  /\ requests # <<>> /\ Head(requests).op \in {"ib", "ob", "m"}
  /\ Head(requests).arg # None /\ ~Head(requests).late
  /\ Cardinality(struck) < MaxFaults
  /\ requests' = Tail(requests)
  /\ Answer("err", None)
  /\ struck' = struck \union {<<pc, "rejected">>}
  /\ UNCHANGED vga

-----------------------------------------------------------------------------
Init ==
  /\ SessionInit /\ vga \in Adapters
  /\ round = 0 /\ saved = Unread /\ failing = FALSE
  /\ planes = <<>> /\ palette = <<>> /\ before = vga /\ struck = {}

Capturing  == CaptureStep \/ CaptureMisfit \/ CaptureLate \/ CaptureRefused
Adapter    == PortRead \/ PortWrite \/ PlaneRead \/ Rejects
AllClient  == Open \/ (Client /\ UNCHANGED <<vga, capture>>) \/ GraphicsMode \/ CaptureBegins \/ Capturing
AllStub    == (Stub /\ UNCHANGED <<vga, capture>>) \/ Adapter

Others     == (CtrlC \/ CtrlCAgain \/ Hit \/ Draw \/ VmEnds) /\ UNCHANGED <<vga, capture>>

Next == CommandStart \/ AllClient \/ AllStub \/ Others

Spec == Init /\ [][Next]_vars

(* A client goes on, by a packet or by a time-out; the stub takes what it  *)
(* is sent; of the deadlines that are looked at again and again, one has   *)
(* passed.                                                                 *)
FairSpec == /\ Spec /\ WF_vars(AllClient) /\ WF_vars(AllStub)
            /\ SF_vars(Deadline /\ UNCHANGED <<vga, capture>>)
            /\ SF_vars(WaitDeadline /\ UNCHANGED <<vga, capture>>)

-----------------------------------------------------------------------------
TypeOK ==
  /\ SessionTypeOK
  /\ pc \in Apart \union Waiting \union CaptureSteps \union {"pausing"}
  /\ vga.map \in 0 .. 3 /\ vga.mode \in Nat /\ vga.dac \in 0 .. 255
  /\ vga.flip \in {"index", "data"} /\ vga.dacState \in {"read", "write"}
  /\ round \in 0 .. Colours + 2 /\ failing \in BOOLEAN
  /\ Len(planes) <= Planes /\ Len(palette) <= Colours

(* A picture is made of every plane, in order and in read mode 0, and of   *)
(* the colours that the guest sees.                                        *)
CaptureFaithful ==
  pc = "putDac" /\ ~failing =>
    /\ planes = [p \in 1 .. Planes |-> <<p - 1, 0>>]
    /\ palette = [c \in 1 .. Colours |-> DacIndex(before.registers[c - 1],
                     before.registers[ModeControl], before.registers[ColourSelect])]

(* Whatever one fault does to the capture outside its finally clauses, the *)
(* guest gets its registers back; the attribute address is an exception    *)
(* when the reply to a write of it is late, since putFlip then takes that  *)
(* reply for its own and raises.  At no time are palette registers written *)
(* or the display switched off.                                            *)
OffGuard == {fault \in struck : fault[1] \in Puts}
Settled  == pc \in Apart /\ requests = <<>> /\ ~gone
CaptureRestores ==
  /\ vga.registers = before.registers /\ vga.attribute[1] = before.attribute[1]
  /\ Settled /\ OffGuard = {} =>
       /\ [vga EXCEPT !.attribute = <<0, 0>>, !.flip = "index"]
             = [before EXCEPT !.attribute = <<0, 0>>, !.flip = "index"]
       /\ vga.attribute = before.attribute \/ <<"pick", "late">> \in struck

(* Every command ends, by a reply or by a time-out.  trace without --count *)
(* ends when breakpoints are no longer hit, which MaxStops provides; the   *)
(* console ends when its user wants it to.                                 *)
CommandEnds == pc # "idle" /\ tool # "console" ~> pc = "idle"
=============================================================================
