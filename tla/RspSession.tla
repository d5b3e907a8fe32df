----------------------------- MODULE RspSession -----------------------------
(***************************************************************************)
(* rsp.py and the connection of guest_console.py: the commands a client    *)
(* sends to 86Box's GDB stub, the packets that come back, and the guest    *)
(* that stops and runs.  A client takes the next packet for the reply to   *)
(* its last command; a reply may be late, and a breakpoint may send a stop *)
(* packet at any time.  One session follows another, and breakpoints stay. *)
(* The stub is external: what README 488-516 observes of it.               *)
(***************************************************************************)
EXTENDS Naturals, Sequences, FiniteSets

CONSTANTS
  Addresses,      \* where hardware breakpoints may be
  Traces,         \* sequences of addresses given to trace
  Counts,         \* values of trace --count; 0 is no limit
  Tools,          \* the commands in use
  None,           \* no address
  MaxSessions,    \* bound: sessions, one after another
  MaxStops        \* bound: breakpoints the guest runs into

AllTools == {"probe", "screen", "wait-screen", "type", "trace", "console"}

ASSUME ToolAssumption == Tools # {} /\ Tools \subseteq AllTools
ASSUME TraceAssumption ==
  /\ Traces \subseteq Seq(Addresses) /\ <<>> \notin Traces
  /\ Counts \subseteq Nat /\ None \notin Addresses
ASSUME SessionBounds == MaxSessions \in Nat /\ MaxStops \in Nat

Screens == {"text", "other", "graphics"}   \* the awaited text, other text, mode 12h

VARIABLES
  running,   \* the guest's CPU runs
  screen,    \* what the guest shows
  bps,       \* hardware breakpoints that are set
  stops,     \* number of breakpoints run into
  owed,      \* a "c" has not been answered by a stop packet yet
  requests,  \* sent by the client, not yet processed
  replies,   \* sent by the stub, not yet read
  gone,      \* 86Box has ended
  tool, pc,  \* the command, and where it is in it
  armed,     \* trace: how many of its addresses it has set
  trace,     \* trace: its addresses and --count
  hits,      \* trace: hits recorded
  latest,    \* the screen that was read last
  result,    \* of the try block: "none", "ok", "error"
  foreign,   \* history: a value was taken from the reply to another command
  cut,       \* history: the last connection was closed without D
  sessions   \* number of commands begun

stub    == <<running, screen, bps, stops, owed, gone>>
channel == <<requests, replies>>
locals  == <<armed, trace, hits, latest>>
history == <<foreign, cut, sessions>>
sessionVars == <<running, screen, bps, stops, owed, requests, replies, gone, tool,
                 pc, armed, trace, hits, latest, result, foreign, cut, sessions>>

Waiting == {"breaking", "state", "cells", "mode12", "arming", "clearing", "rearming",
            "tracing", "stack", "inject", "store", "interrupting", "frame", "frameCells", "feed",
            "leaving", "detaching"}
Apart   == {"idle", "connect", "checked"}        \* without a connection

-----------------------------------------------------------------------------
(* What the client does with the channel. *)
Request(op, arg) == [op |-> op, arg |-> arg, late |-> FALSE]
Ask(op)          == <<Request(op, None)>>

Reply == Head(replies)
Is(kind) == Reply.kind = kind

(* The packet is read and reqs are sent. *)
Read(reqs) == replies' = Tail(replies) /\ requests' = requests \o reqs

(* A value is taken from the packet; the client believes that it answers op. *)
Use(op) == foreign' = (foreign \/ Reply.late \/ Reply.for # op) /\ UNCHANGED <<cut, sessions>>

At(from) == pc = from /\ replies # <<>>

(* Every exception ends in the finally clause, and that in D; the console  *)
(* first stops the guest.                                                  *)
Finally == IF tool = "console" /\ pc # "leaving" THEN "03" ELSE "D"
Leaving == IF tool = "console" /\ pc # "leaving" THEN "leaving" ELSE "detaching"
FailPc  == pc' = Leaving /\ result' = "error"
EndPc   == pc' = Leaving /\ result' = "ok"

(* A packet that does not fit raises OSError or ValueError. *)
Misfit(kinds) ==
  /\ Reply.kind \notin kinds
  /\ Read(Ask(Finally)) /\ FailPc
  /\ UNCHANGED <<stub, tool, locals, history>>

-----------------------------------------------------------------------------
SessionInit ==
  /\ running \in BOOLEAN /\ screen = "other"
  /\ bps = {} /\ stops = 0 /\ owed = FALSE /\ gone = FALSE
  /\ requests = <<>> /\ replies = <<>>
  /\ tool = (CHOOSE t \in Tools : TRUE) /\ pc = "idle"
  /\ armed = 0 /\ trace = [at |-> <<>>, count |-> 0] /\ hits = 0 /\ latest = None
  /\ result = "none"
  /\ foreign = FALSE /\ cut = FALSE /\ sessions = 0

Start ==
  /\ pc = "idle" /\ sessions < MaxSessions /\ pc' = "connect"
  /\ \E t \in Tools :
       /\ tool' = t
       /\ IF t = "trace" THEN \E a \in Traces, n \in Counts : trace' = [at |-> a, count |-> n]
                         ELSE trace' = [at |-> <<>>, count |-> 0]
  /\ armed' = 0 /\ hits' = 0 /\ latest' = None
  /\ result' = "none" /\ foreign' = FALSE
  /\ sessions' = sessions + 1
  /\ UNCHANGED <<stub, channel, cut>>

(* break_cpu on a new connection, or resume in the console.  The stub is   *)
(* single-client: it first finishes with the client before.                *)
Connect ==
  /\ pc = "connect" /\ ~gone /\ requests = <<>>
  /\ pc' = IF tool = "console" THEN "frame" ELSE "breaking"
  /\ requests' = IF tool = "console" THEN Ask("c") \o Ask("m") ELSE Ask("03") \o Ask("?")
  /\ cut' = FALSE
  /\ UNCHANGED <<stub, replies, tool, locals, result, foreign, sessions>>

Refused ==
  /\ pc \in Waiting \union {"connect", "pausing"} /\ gone
  /\ pc' = "idle" /\ result' = "error"
  /\ UNCHANGED <<stub, channel, tool, locals, history>>

-----------------------------------------------------------------------------
(* Only probe looks at the stop packet of break_cpu. *)
ArmNext(n) == IF n < Len(trace.at) THEN <<Request("Z1", trace.at[n + 1])>> ELSE Ask("c")
ArmedPc(n) == IF n < Len(trace.at) THEN "arming" ELSE "tracing"

Broken ==
  /\ At("breaking") /\ tool # "probe"
  /\ CASE tool = "trace" -> Read(ArmNext(0)) /\ pc' = "arming"
       [] tool = "type"  -> Read(Ask("m")) /\ pc' = "inject"
       [] OTHER          -> Read(Ask("m")) /\ pc' = "state"
  /\ UNCHANGED <<stub, tool, locals, result, history>>

Probed ==
  /\ At("breaking") /\ tool = "probe" /\ Is("stop")
  /\ Use("?") /\ Read(Ask("D")) /\ EndPc
  /\ UNCHANGED <<stub, tool, locals>>

(* read_video_text_mode: a mode without text raises ValueError, which ends *)
(* wait-screen as well; screen goes on to capture it.                      *)
ModeRead ==
  /\ At("state") /\ Is("hex") /\ Reply.val # "graphics"
  /\ Use("m") /\ Read(Ask("m")) /\ pc' = "cells"
  /\ UNCHANGED <<stub, tool, locals, result>>

NoText ==
  /\ At("state") /\ Is("hex") /\ Reply.val = "graphics" /\ tool = "wait-screen"
  /\ Use("m") /\ Read(Ask("D")) /\ FailPc
  /\ UNCHANGED <<stub, tool, locals>>

CellsRead ==
  /\ At("cells") /\ Is("hex")
  /\ Use("m") /\ Read(Ask("D")) /\ EndPc
  /\ latest' = Reply.val
  /\ UNCHANGED <<stub, tool, armed, trace, hits>>

-----------------------------------------------------------------------------
(* trace: set_hw_bp takes away a breakpoint that is there already and sets *)
(* it again.                                                               *)
Arm ==
  /\ pc \in {"arming", "rearming"} /\ replies # <<>> /\ Is("ok")
  /\ Use("Z1") /\ Read(ArmNext(armed + 1)) /\ pc' = ArmedPc(armed + 1)
  /\ armed' = armed + 1
  /\ UNCHANGED <<stub, tool, trace, hits, latest, result>>

Stale ==
  /\ At("arming") /\ ~Is("ok")
  /\ Read(<<Request("z1", trace.at[armed + 1])>>) /\ pc' = "clearing"
  /\ UNCHANGED <<stub, tool, locals, result, history>>

(* Mutant: the stale breakpoint is removed and not set again. *)
ClearOnly ==
  /\ At("clearing")
  /\ Read(ArmNext(armed + 1)) /\ pc' = ArmedPc(armed + 1)
  /\ armed' = armed + 1
  /\ UNCHANGED <<stub, tool, trace, hits, latest, result, history>>

Clear ==
  /\ At("clearing")
  /\ Read(ArmNext(armed)) /\ pc' = "rearming"
  /\ UNCHANGED <<stub, tool, locals, result, history>>

InTrace(a) == \E i \in DOMAIN trace.at : trace.at[i] = a

Traced ==
  /\ At("tracing") /\ Is("stop")
  /\ Use("c")
  /\ IF InTrace(Reply.val) THEN Read(Ask("m")) /\ pc' = "stack"
                           ELSE Read(Ask("c")) /\ pc' = "tracing"
  /\ UNCHANGED <<stub, tool, locals, result>>

(* The hit counts whatever comes of reading the caller off the stack.      *)
Counted == hits' = hits + 1
Enough  == trace.count # 0 /\ hits + 1 >= trace.count

StackRead ==
  /\ At("stack")
  /\ IF Is("hex") THEN Use("m") ELSE UNCHANGED history
  /\ Counted
  /\ IF Enough THEN Read(Ask("D")) /\ EndPc
               ELSE Read(Ask("c")) /\ pc' = "tracing" /\ UNCHANGED result
  /\ UNCHANGED <<stub, tool, armed, trace, latest>>

-----------------------------------------------------------------------------
(* type: a read and a write stand for the commands of one injection; then  *)
(* the guest runs for a while and is interrupted.                          *)
Injected ==
  /\ At("inject") /\ Is("hex")
  /\ Use("m") /\ Read(Ask("M")) /\ pc' = "store"
  /\ UNCHANGED <<stub, tool, locals, result>>

Stored ==
  /\ At("store") /\ Is("ok") /\ Use("M")
  /\ \/ Read(Ask("D")) /\ EndPc
     \/ Read(Ask("c")) /\ pc' = "pausing" /\ UNCHANGED result
  /\ UNCHANGED <<stub, tool, locals>>

Deadline ==
  /\ At("store") /\ Is("ok")
  /\ Use("M") /\ Read(Ask("D")) /\ FailPc
  /\ UNCHANGED <<stub, tool, locals>>

Pause ==
  /\ pc = "pausing" /\ ~gone /\ pc' = "interrupting"
  /\ requests' = requests \o Ask("03")
  /\ UNCHANGED <<stub, replies, tool, locals, result, history>>

Interrupted ==
  /\ At("interrupting")
  /\ Read(Ask("m")) /\ pc' = "inject"
  /\ UNCHANGED <<stub, tool, locals, result, history>>

-----------------------------------------------------------------------------
(* The console: frames and keys while the guest runs. *)
FrameRead ==
  /\ At("frame") /\ Is("hex")
  /\ Use("m")
  /\ IF Reply.val = "graphics" THEN Read(Ask("03")) /\ FailPc
     ELSE Read(Ask("m")) /\ pc' = "frameCells" /\ UNCHANGED result
  /\ UNCHANGED <<stub, tool, locals>>

FrameCellsRead ==
  /\ At("frameCells") /\ Is("hex")
  /\ Use("m") /\ latest' = Reply.val
  /\ \/ Read(Ask("M")) /\ pc' = "feed" /\ UNCHANGED result        \* a key
     \/ Read(Ask("m")) /\ pc' = "frame" /\ UNCHANGED result       \* the next frame
     \/ Read(Ask("03")) /\ EndPc
  /\ UNCHANGED <<stub, tool, armed, trace, hits>>

Fed ==
  /\ At("feed") /\ Is("ok")
  /\ Use("M") /\ Read(Ask("m")) /\ pc' = "frame"
  /\ UNCHANGED <<stub, tool, locals, result>>

Left ==
  /\ At("leaving")
  /\ Read(Ask("D")) /\ pc' = "detaching"
  /\ UNCHANGED <<stub, tool, locals, result, history>>

-----------------------------------------------------------------------------
(* detach reads one packet, whatever it is, and closes the connection.     *)
AfterDetach == IF tool = "wait-screen" /\ result = "ok" THEN "checked" ELSE "idle"

Detached ==
  /\ At("detaching")
  /\ pc' = AfterDetach
  /\ replies' = <<>>
  /\ UNCHANGED <<stub, requests, tool, locals, result, history>>

(* wait-screen connects anew for every look at the screen. *)
Found == /\ pc = "checked" /\ latest = "text" /\ pc' = "idle"
         /\ UNCHANGED <<stub, channel, tool, locals, result, history>>

Again ==
  /\ pc = "checked" /\ latest # "text" /\ pc' = "connect"
  /\ result' = "none"
  /\ UNCHANGED <<stub, channel, tool, locals, history>>

WaitDeadline ==
  /\ pc = "checked" /\ latest # "text" /\ pc' = "idle" /\ result' = "error"
  /\ UNCHANGED <<stub, channel, tool, locals, history>>

-----------------------------------------------------------------------------
(* Nothing came for the time of the socket's timeout.  What was asked may  *)
(* still be answered.                                                      *)
Overdue == [i \in DOMAIN requests |-> [requests[i] EXCEPT !.late = TRUE]]
Belated == [i \in DOMAIN replies |-> [replies[i] EXCEPT !.late = TRUE]]
Silence(from) == pc \in from /\ replies = <<>> /\ ~gone

Raises == {"breaking", "state", "cells", "mode12", "arming", "clearing", "rearming", "inject",
           "store", "interrupting", "frame", "frameCells", "feed"}

(* Mutant: a memory read that times out is tried once more. *)
TimeoutRetried ==
  /\ Silence(Raises)
  /\ IF pc = "cells" THEN requests' = Overdue \o Ask("m") /\ UNCHANGED <<pc, result>>
                     ELSE requests' = Overdue \o Ask(Finally) /\ FailPc
  /\ UNCHANGED <<stub, replies, tool, locals, history>>

(* Mutant: the connection is closed without D. *)
TimeoutCloses ==
  /\ Silence(Raises)
  /\ requests' = Overdue /\ pc' = "idle" /\ result' = "error"
  /\ UNCHANGED <<stub, replies, tool, locals, history>>

Timeout ==
  /\ Silence(Raises)
  /\ requests' = Overdue \o Ask(Finally) /\ FailPc
  /\ UNCHANGED <<stub, replies, tool, locals, history>>

(* Mutant: trace goes on waiting. *)
TraceTimeoutWaits ==
  /\ Silence({"tracing"}) /\ pc' = "tracing"
  /\ requests' = Overdue
  /\ UNCHANGED <<stub, replies, tool, locals, result, history>>

(* Ctrl-C: KeyboardInterrupt is caught nowhere before the finally clause. *)
CtrlC ==
  /\ pc \in (Waiting \union {"pausing"}) \ {"leaving", "detaching"} /\ ~gone
  /\ requests' = Overdue \o Ask(Finally) /\ FailPc
  /\ replies' = Belated
  /\ UNCHANGED <<stub, tool, locals, history>>

(* Ctrl-C in the finally clause, be it a second one: detach closes the     *)
(* connection, and the console does not get to detach when it interrupts   *)
(* the guest (guest_console.py 699-703), nor does any command that has not *)
(* sent D by then.  What a closed connection is owed is never sent.        *)
CtrlCAgain ==
  /\ pc \in Waiting \union {"pausing"} /\ ~gone
  /\ pc' = "idle" /\ result' = "error" /\ replies' = <<>>
  /\ cut' = (pc # "detaching")
  /\ owed' = FALSE
  /\ UNCHANGED <<running, screen, bps, stops, gone, requests, tool, locals, foreign, sessions>>

(* For trace the silence is the end of the hits; on the stack read it is   *)
(* an OSError like any other, and the loop goes on.                        *)
TraceTimeout ==
  /\ Silence({"tracing"})
  /\ requests' = Overdue \o Ask("D") /\ EndPc
  /\ UNCHANGED <<stub, replies, tool, locals, history>>

StackTimeout ==
  /\ Silence({"stack"}) /\ Counted
  /\ IF Enough THEN requests' = Overdue \o Ask("D") /\ EndPc
               ELSE requests' = Overdue \o Ask("c") /\ pc' = "tracing" /\ UNCHANGED result
  /\ UNCHANGED <<stub, replies, tool, armed, trace, latest, history>>

LeaveTimeout ==
  /\ Silence({"leaving", "detaching"})
  /\ requests' = IF pc = "leaving" THEN Overdue \o Ask("D") ELSE Overdue
  /\ pc' = IF pc = "leaving" THEN "detaching" ELSE AfterDetach
  /\ UNCHANGED <<stub, replies, tool, locals, result, history>>

Fits == [breaking |-> {"stop"}, state |-> {"hex"}, cells |-> {"hex"}, mode12 |-> {"hex"}, rearming |-> {"ok"},
         tracing |-> {"stop"}, inject |-> {"hex"}, store |-> {"ok"}, frame |-> {"hex"},
         frameCells |-> {"hex"}, feed |-> {"ok"}]

Misfits == /\ pc \in DOMAIN Fits /\ replies # <<>> /\ (pc = "breaking" => tool = "probe")
           /\ Misfit(Fits[pc])

-----------------------------------------------------------------------------
(* The stub (external) takes the packets in order, between instructions of *)
(* the guest; a closed connection gets no reply.                           *)
clientSide == <<tool, pc, locals, result, history>>

Packet(kind, req, val) == [kind |-> kind, for |-> req.op, late |-> req.late, val |-> val]
Send(packets) == replies' = IF pc \in Apart THEN replies ELSE replies \o packets

StopFor(address) == [kind |-> "stop", for |-> "c", late |-> FALSE, val |-> address]
Halt(address) == /\ running' = FALSE /\ owed' = FALSE
                 /\ Send(IF owed THEN <<StopFor(address)>> ELSE <<>>)

Process(op) == /\ requests # <<>> /\ Head(requests).op = op
               /\ requests' = Tail(requests)

BreakIn == /\ Process("03") /\ Halt(None)
           /\ UNCHANGED <<screen, bps, stops, gone, clientSide>>

TellStop == /\ Process("?") /\ Send(<<Packet("stop", Head(requests), None)>>)
            /\ UNCHANGED <<stub, clientSide>>

ReadMemory ==
  /\ Process("m") /\ Head(requests).arg = None
  /\ \E kind \in {"hex", "err"} : Send(<<Packet(kind, Head(requests), screen)>>)
  /\ UNCHANGED <<stub, clientSide>>

WriteMemory ==
  /\ Process("M")
  /\ \E kind \in {"ok", "err"} : Send(<<Packet(kind, Head(requests), None)>>)
  /\ UNCHANGED <<stub, clientSide>>

SetBreakpoint ==
  /\ Process("Z1")
  /\ LET a == Head(requests).arg
     IN  /\ Send(<<Packet(IF a \in bps THEN "err" ELSE "ok", Head(requests), None)>>)
         /\ bps' = bps \union {a}
  /\ UNCHANGED <<running, screen, stops, owed, gone, clientSide>>

ClearBreakpoint ==
  /\ Process("z1")
  /\ bps' = bps \ {Head(requests).arg}
  /\ Send(<<Packet("ok", Head(requests), None)>>)
  /\ UNCHANGED <<running, screen, stops, owed, gone, clientSide>>

Continue ==
  /\ Process("c")
  /\ running' = TRUE /\ owed' = (pc \notin Apart)
  /\ UNCHANGED <<screen, bps, stops, gone, replies, clientSide>>

LetGo ==
  /\ Process("D")
  /\ running' = TRUE /\ owed' = FALSE
  /\ Send(<<Packet("ok", Head(requests), None)>>)
  /\ UNCHANGED <<screen, bps, stops, gone, clientSide>>

(* The guest runs into a breakpoint that some session has set, be there a  *)
(* client or not.                                                          *)
Hit ==
  /\ running /\ stops < MaxStops
  /\ stops' = stops + 1
  /\ \E a \in bps : Halt(a)
  /\ UNCHANGED <<screen, bps, gone, requests, clientSide>>

Draw ==
  /\ running
  /\ \E s \in Screens \ {screen} : screen' = s
  /\ UNCHANGED <<running, bps, stops, owed, gone, channel, clientSide>>

VmEnds ==
  /\ ~gone /\ gone' = TRUE
  /\ running' = FALSE /\ requests' = <<>> /\ replies' = <<>>
  /\ UNCHANGED <<screen, bps, stops, owed, clientSide>>

-----------------------------------------------------------------------------
Snapshot == Broken \/ Probed \/ ModeRead \/ NoText \/ CellsRead
Tracing  == Arm \/ Stale \/ Clear \/ Traced \/ StackRead \/ TraceTimeout \/ StackTimeout
Typing   == Injected \/ Stored \/ Deadline \/ Pause \/ Interrupted
Console  == FrameRead \/ FrameCellsRead \/ Fed \/ Left
Close    == Misfits \/ Timeout \/ LeaveTimeout \/ Detached \/ Refused
Wait     == Found \/ Again \/ WaitDeadline

Client == Snapshot \/ Tracing \/ Typing \/ Console \/ Close \/ Wait

Stub == BreakIn \/ TellStop \/ ReadMemory \/ WriteMemory \/ SetBreakpoint \/ ClearBreakpoint
        \/ Continue \/ LetGo

-----------------------------------------------------------------------------
SessionTypeOK ==
  /\ {running, owed, gone, foreign, cut} \subseteq BOOLEAN
  /\ screen \in Screens /\ latest \in Screens \union {None}
  /\ bps \subseteq Addresses /\ stops \in 0 .. MaxStops
  /\ \A n \in DOMAIN requests : DOMAIN requests[n] = {"op", "arg", "late"}
  /\ \A n \in DOMAIN replies : replies[n].kind \in {"stop", "hex", "ok", "err", "out"}
  /\ tool \in Tools
  /\ trace.at \in Traces \union {<<>>} /\ armed \in 0 .. Len(trace.at)
  /\ hits \in 0 .. MaxStops
  /\ result \in {"none", "ok", "error"}
  /\ sessions \in 0 .. MaxSessions

(* What a command reports comes from the replies to its own commands: no   *)
(* late reply and no stop packet of a breakpoint is taken for the answer   *)
(* to something else.                                                      *)
OwnReplies == result = "ok" => ~foreign

(* Between two reads of one snapshot the guest stands still (the console   *)
(* is another matter, guest_console.py 605-609).                           *)
HaltedWhileReading ==
  pc \in {"state", "cells", "mode12", "stack", "inject", "store"} => ~running

(* Together: what a command reports is one moment of the guest, read by    *)
(* that command itself.                                                    *)
SoundReading == OwnReplies /\ HaltedWhileReading

(* README 596: the stub "pauses guest while connected".  Afterwards the    *)
(* guest runs, be the command done, late, refused or interrupted, unless   *)
(* it has run into a breakpoint that was left, or a Ctrl-C in the finally  *)
(* clause has kept the D from being sent: then only the next command lets  *)
(* it go.                                                                  *)
PausedOnlyWhileConnected ==
  (pc \in {"idle", "checked"} /\ sessions > 0 /\ requests = <<>> /\ ~gone /\ ~cut)
    => running \/ (bps # {} /\ stops > 0)

(* README 499-500: breakpoints that an earlier connection has left are no  *)
(* obstacle, and trace only waits when all of its own are set.             *)
TraceArmed ==
  /\ pc = "tracing" => \A n \in DOMAIN trace.at : trace.at[n] \in bps
  /\ pc = "rearming" /\ replies # <<>> => Is("ok")
=============================================================================
