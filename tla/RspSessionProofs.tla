-------------------------- MODULE RspSessionProofs --------------------------
(***************************************************************************)
(* Theorems about the sessions of rsp.py and of the console, with the      *)
(* capture of GraphicsCapture among them: for every set of addresses,      *)
(* traces and tools, whatever is late, is hit, is interrupted or fails.    *)
(***************************************************************************)
EXTENDS GraphicsCapture, SequenceTheorems, TLAPS

WellFormed(s) == Len(s) \in Nat /\ s = [i \in 1 .. Len(s) |-> s[i]]

(* What is in flight.  Awaits: one command, or its answer, is under way.   *)
Still == ~running /\ ~owed

Single(kinds, op) == /\ replies # <<>> /\ replies = <<Reply>>
                     /\ Reply.kind \in kinds /\ Reply.for = op /\ ~Reply.late

Awaits(op, arg, kinds) ==
  \/ requests = <<Request(op, arg)>> /\ replies = <<>>
  \/ requests = <<>> /\ Single(kinds, op)

Breaking == /\ ~owed
            /\ \/ requests = Ask("03") \o Ask("?") /\ replies = <<>>
               \/ Awaits("?", None, {"stop"}) /\ ~running

Injecting == /\ Still
             /\ \/ Awaits("m", None, {"hex", "err"})
                \/ requests = Ask("03") \o Ask("m") /\ replies = <<>>

(* The guest runs, or will, until it is stopped once. *)
Pausing == \/ requests = Ask("c") /\ replies = <<>> /\ Still
           \/ requests = <<>> /\ replies = <<>> /\ owed
           \/ requests = <<>> /\ replies # <<>> /\ replies = <<Reply>> /\ Still

Interrupting ==
  \/ requests = Ask("c") \o Ask("03") /\ replies = <<>> /\ Still
  \/ requests = Ask("03") /\ replies = <<>> /\ owed
  \/ requests \in {<<>>, Ask("03")} /\ replies # <<>> /\ replies = <<Reply>> /\ Still

(* The answer to a stack read that was late may come first; it ends the    *)
(* trace.                                                                  *)
Unfit == replies # <<>> /\ Reply.kind \in {"hex", "err"}
LateRead == <<[Request("m", None) EXCEPT !.late = TRUE]>>
TraceRuns ==
  \/ requests = LateRead \o Ask("c") /\ replies = <<>> /\ ~owed
  \/ requests = Ask("c") /\ ~owed /\ (replies = <<>> \/ Unfit)
  \/ requests = <<>> /\ owed /\ (replies = <<>> \/ Unfit)
  \/ requests = <<>> /\ Still /\ (Unfit \/ Single({"stop"}, "c"))

(* The console's guest may be hit at any time. *)
Consoles ==
  /\ \A n \in DOMAIN requests : requests[n].op \in {"c", "m", "M"} /\ ~requests[n].late
  /\ \A n \in DOMAIN replies :
       /\ ~replies[n].late
       /\ replies[n].kind = "hex" => replies[n].for = "m"
       /\ replies[n].kind = "ok" => replies[n].for = "M"

Captures ==
  /\ Still
  /\ \/ requests = Command(pc, round, saved) /\ replies = <<>>
     \/ /\ requests = <<>> /\ replies # <<>> /\ replies = <<Reply>>
        /\ Reply.for = Asked(pc) /\ ~Reply.late

ChannelInv == ~gone =>
  /\ pc = "breaking" => Breaking
  /\ pc \in {"state", "cells", "mode12", "stack"} => Still /\ Awaits("m", None, {"hex", "err"})
  /\ pc = "inject" => Injecting
  /\ pc = "store" => Still /\ Awaits("M", None, {"ok", "err"})
  /\ pc \in {"arming", "rearming"} => Still /\ Awaits("Z1", trace.at[armed + 1], {"ok", "err"})
  /\ pc = "clearing" => Still /\ Awaits("z1", trace.at[armed + 1], {"ok"})
  /\ pc = "pausing" => Pausing
  /\ pc = "interrupting" => Interrupting
  /\ pc = "tracing" => TraceRuns
  /\ pc \in {"frame", "frameCells", "feed"} => Consoles
  /\ pc \in CaptureSteps /\ ~failing => Captures
  /\ pc \in Apart => replies = <<>>

(* 86Box has ended. *)
EndedInv == gone => requests = <<>> /\ replies = <<>> /\ ~running

(* A session that is over has sent D, and D lets the guest go, or else it  *)
(* was cut short and is owed nothing.                                      *)
Released == requests = <<>> /\ ~owed /\ (sessions = 0 \/ pc = "connect" \/ running \/ (bps # {} /\ stops > 0))
ReleaseInv ==
  pc \in Apart \union {"detaching"} /\ ~gone =>
    \/ requests # <<>> /\ requests[Len(requests)].op = "D"
    \/ Released
    \/ cut /\ ~owed /\ pc \in Apart

ToolInv ==
  /\ sessions \in Nat /\ stops \in Nat /\ armed \in Nat
  /\ pc # "idle" => sessions > 0
  /\ pc # "idle" /\ tool = "trace" => trace.at \in Traces
  /\ pc = "checked" => tool = "wait-screen"
  /\ pc \in {"connect", "breaking"} /\ tool = "trace" => armed = 0
  /\ pc \in {"arming", "clearing", "rearming"} => armed + 1 \in DOMAIN trace.at /\ tool = "trace"
  /\ pc \in {"tracing", "stack"} => tool = "trace"
  /\ pc \in {"frame", "frameCells", "feed"} => tool = "console"

(* A value from another command's answer never becomes a result.           *)
Over == {"leaving", "detaching", "idle", "checked"}
ResultInv ==
  /\ result \in {"none", "ok", "error"}
  /\ pc \notin Over => result # "ok"
  /\ pc = "checked" => result = "ok"
  /\ foreign => IF pc \in Over THEN result = "error" ELSE pc \in CaptureSteps /\ failing

(* The breakpoints of a trace that are set, but for the one in hand.       *)
Current == trace.at[armed + 1]
BreakpointInv ==
  /\ pc = "arming" => \A n \in 1 .. armed : trace.at[n] \in bps
  /\ pc \in {"clearing", "rearming"} => \A n \in 1 .. armed : trace.at[n] \in bps \union {Current}
  /\ pc \in {"arming", "rearming"} /\ replies # <<>> => Current \in bps
  /\ pc = "clearing" /\ replies # <<>> => Current \notin bps
  /\ pc = "rearming" => IF replies = <<>> THEN gone \/ Current \notin bps ELSE Is("ok")
  /\ pc \in {"tracing", "stack"} => \A n \in DOMAIN trace.at : trace.at[n] \in bps

IInv == /\ WellFormed(requests) /\ WellFormed(replies)
        /\ pc \in Apart \union Waiting \union CaptureSteps \union {"pausing"}
        /\ ChannelInv /\ EndedInv /\ ReleaseInv /\ ToolInv /\ ResultInv /\ BreakpointInv

-----------------------------------------------------------------------------
(* Sequences of packets. *)
Elements(s) == {s[i] : i \in 1 .. Len(s)}

LEMMA FormedIsSeq ==
  ASSUME NEW s, WellFormed(s), NEW S, Elements(s) \subseteq S
  PROVE  s \in Seq(S) /\ DOMAIN s = 1 .. Len(s)
<1>1. \A i \in 1 .. Len(s) : s[i] \in S
  BY DEF Elements
<1>2. s \in [1 .. Len(s) -> S]
  BY <1>1 DEF WellFormed
<1> QED
  BY <1>2, SeqDef DEF WellFormed

LEMMA SeqIsFormed ==
  ASSUME NEW S, NEW s \in Seq(S) PROVE WellFormed(s)
BY LenProperties DEF WellFormed

LEMMA ConcatFormed ==
  ASSUME NEW s, WellFormed(s), NEW t, WellFormed(t)
  PROVE  /\ WellFormed(s \o t) /\ Len(s \o t) = Len(s) + Len(t)
         /\ \A i \in 1 .. Len(s) : (s \o t)[i] = s[i]
         /\ \A i \in 1 .. Len(t) : (s \o t)[Len(s) + i] = t[i]
<1> DEFINE S == Elements(s) \union Elements(t)
<1>1. s \in Seq(S) /\ t \in Seq(S)
  BY FormedIsSeq
<1> HIDE DEF S
<1>2. s \o t \in Seq(S)
  BY <1>1, ConcatProperties
<1>3. WellFormed(s \o t)
  BY <1>2, SeqIsFormed
<1> QED
  BY <1>1, <1>3, ConcatProperties DEF WellFormed

LEMMA TailFormed ==
  ASSUME NEW s, WellFormed(s), s # <<>>
  PROVE  /\ WellFormed(Tail(s)) /\ Len(Tail(s)) = Len(s) - 1 /\ Len(s) > 0
         /\ Head(s) = s[1] /\ \A i \in 1 .. Len(s) - 1 : Tail(s)[i] = s[i + 1]
<1> DEFINE S == Elements(s)
<1>1. s \in Seq(S)
  BY FormedIsSeq
<1> HIDE DEF S
<1>2. Tail(s) \in Seq(S)
  BY <1>1, HeadTailProperties
<1>3. WellFormed(Tail(s))
  BY <1>2, SeqIsFormed
<1> QED
  BY <1>1, <1>3, HeadTailProperties, EmptySeq DEF WellFormed

LEMMA Tuples ==
  \A a, b : /\ WellFormed(<<>>) /\ WellFormed(<<a>>) /\ WellFormed(<<a, b>>)
            /\ <<>> \o <<a>> = <<a>> /\ <<>> \o <<a, b>> = <<a, b>> /\ <<a>> \o <<b>> = <<a, b>>
            /\ Head(<<a>>) = a /\ Head(<<a, b>>) = a
            /\ Tail(<<a>>) = <<>> /\ Tail(<<a, b>>) = <<b>>
            /\ <<a>> # <<>> /\ <<a, b>> # <<>> /\ <<a>> \o <<>> = <<a>> /\ <<>> \o <<>> = <<>>
<1> TAKE a, b
<1>1. <<>> \in Seq({a, b}) /\ <<a>> \in Seq({a, b}) /\ <<a, b>> \in Seq({a, b})
  OBVIOUS
<1>2. WellFormed(<<>>) /\ WellFormed(<<a>>) /\ WellFormed(<<a, b>>)
  BY <1>1, SeqIsFormed
<1>3. <<>> \o <<a>> = <<a>> /\ <<>> \o <<a, b>> = <<a, b>> /\ <<>> \o <<>> = <<>>
  OBVIOUS
<1>4. <<a>> \o <<b>> = <<a, b>> /\ <<a>> \o <<>> = <<a>>
  <2> DEFINE S == {a, b}
             ab == <<a>> \o <<b>>
  <2>1. <<a>> \in Seq(S) /\ <<b>> \in Seq(S) /\ <<a, b>> \in Seq(S)
    OBVIOUS
  <2>2. Len(<<a>>) = 1 /\ Len(<<b>>) = 1 /\ Len(<<a, b>>) = 2
    OBVIOUS
  <2>3. ab \in Seq(S) /\ Len(ab) = 2 /\ ab[1] = <<a>>[1] /\ ab[2] = <<b>>[1]
    BY <2>1, <2>2, ConcatProperties
  <2>4. \A i \in 1 .. 2 : ab[i] = <<a, b>>[i]
    BY <2>3
  <2>5. ab = <<a, b>>
    <3> HIDE DEF ab
    <3> QED
      BY <2>1, <2>2, <2>3, <2>4, SeqEqual
  <2> QED
    BY <2>1, <2>5, ConcatEmptySeq
<1>5. Head(<<a>>) = a /\ Head(<<a, b>>) = a /\ Tail(<<a>>) = <<>> /\ Tail(<<a, b>>) = <<b>>
  OBVIOUS
<1> QED
  BY <1>2, <1>3, <1>4, <1>5

(* A request is appended and is the last one.                              *)
LEMMA Asked1 ==
  ASSUME NEW s, WellFormed(s), NEW op
  PROVE  /\ WellFormed(s \o Ask(op)) /\ s \o Ask(op) # <<>>
         /\ (s \o Ask(op))[Len(s \o Ask(op))] = Request(op, None)
<1> DEFINE S == Elements(s) \union {Request(op, None)}
           one == Ask(op)
           all == s \o one
<1>1. s \in Seq(S) /\ Len(s) \in Nat
  BY FormedIsSeq DEF WellFormed
<1>2. one \in Seq(S) /\ Len(one) = 1 /\ one[1] = Request(op, None)
  BY DEF Ask
<1> HIDE DEF S, one
<1>3. all \in Seq(S) /\ Len(all) = Len(s) + 1 /\ all[Len(s) + 1] = one[1]
  <2>1. all \in Seq(S) /\ Len(all) = Len(s) + Len(one)
    BY <1>1, <1>2, ConcatProperties
  <2>2. \A i \in 1 .. Len(s) + Len(one) : all[i] = IF i <= Len(s) THEN s[i] ELSE one[i - Len(s)]
    BY <1>1, <1>2, ConcatProperties
  <2> HIDE DEF all
  <2> QED
    BY <1>1, <1>2, <2>1, <2>2
<1> HIDE DEF all
<1>4. WellFormed(all) /\ all # <<>> /\ all[Len(all)] = Request(op, None)
  BY <1>1, <1>2, <1>3, SeqIsFormed
<1> QED
  BY <1>4 DEF all, one

LEMMA OverdueFormed ==
  ASSUME WellFormed(requests), WellFormed(replies)
  PROVE  /\ WellFormed(Overdue) /\ Len(Overdue) = Len(requests)
         /\ \A i \in 1 .. Len(requests) : Overdue[i] = [requests[i] EXCEPT !.late = TRUE]
         /\ WellFormed(Belated)
<1>1. DOMAIN requests = 1 .. Len(requests) /\ DOMAIN replies = 1 .. Len(replies)
  BY FormedIsSeq
<1> DEFINE late(s) == [i \in 1 .. Len(s) |-> [s[i] EXCEPT !.late = TRUE]]
<1>2. ASSUME NEW s, WellFormed(s) PROVE WellFormed(late(s)) /\ Len(late(s)) = Len(s)
  <2> DEFINE S == {[s[i] EXCEPT !.late = TRUE] : i \in 1 .. Len(s)}
  <2>1. late(s) \in [1 .. Len(s) -> S]
    OBVIOUS
  <2>2. late(s) \in Seq(S)
    <3> HIDE DEF S
    <3>1. \A n \in Nat : [1 .. n -> S] \subseteq Seq(S)
      BY SeqDef
    <3>2. Len(s) \in Nat
      BY <1>2 DEF WellFormed
    <3> QED
      BY <2>1, <3>1, <3>2
  <2>3. DOMAIN late(s) = 1 .. Len(s) /\ Len(s) \in Nat
    BY <1>2 DEF WellFormed
  <2>4. Len(late(s)) = Len(s)
    BY <2>2, <2>3, LenProperties
  <2> QED
    BY <2>2, <2>4, SeqIsFormed
<1>3. Overdue = late(requests) /\ Belated = late(replies)
  BY <1>1 DEF Overdue, Belated
<1> QED
  BY <1>2, <1>3

-----------------------------------------------------------------------------
(* The steps of a capture, and what they ask.                              *)
LEMMA Places ==
  /\ CaptureSteps = {"index", "toMap", "map", "toMode", "mode", "readMode", "toPlanes", "select",
                     "plane", "putModeAt", "putMode", "putMapAt", "putMap", "putIndex",
                     "attribute", "flip", "pick", "register", "putFlip", "putAttribute",
                     "dacState", "dac", "colour", "component", "putDac"}
  /\ CaptureSteps \cap (Apart \union Waiting \union {"pausing"}) = {}
BY DEF CaptureSteps, Then, Apart, Waiting

LEMMA CommandShape ==
  ASSUME NEW at \in CaptureSteps, NEW k, NEW s
  PROVE  \E op, arg : op \in {"ib", "ob", "m"} /\ Command(at, k, s) = <<Request(op, arg)>>
BY Places DEF Command, Ib, Ob

(* The client gives up, or is done: nothing is asked of what it leaves     *)
(* behind but that D is the last request, and that no foreign value is a   *)
(* result.                                                                 *)
LEMMA Leaves ==
  ASSUME IInv, ~gone, pc \notin Apart, UNCHANGED <<stub, tool, armed, trace, sessions>>,
         WellFormed(requests'), WellFormed(replies'),
         pc' \in {"leaving", "detaching"},
         pc' = "detaching" => requests' # <<>> /\ requests[Len(requests)]'.op = "D",
         result' \in {"none", "ok", "error"}, foreign' => result' = "error"
  PROVE  IInv'
<1>1. pc' \in Waiting /\ pc' \notin CaptureSteps /\ ~gone'
  BY Places DEF Waiting, stub
<1>2. ChannelInv' /\ EndedInv' /\ ReleaseInv'
  BY <1>1 DEF ChannelInv, EndedInv, ReleaseInv, Apart
<1>3. ToolInv'
  BY DEF IInv, ToolInv, stub, Apart
<1>4. ResultInv' /\ BreakpointInv'
  BY DEF ResultInv, BreakpointInv, Over
<1> QED
  BY <1>1, <1>2, <1>3, <1>4 DEF IInv

(* The command before it was answered, or was given up. *)
LEMMA GivesUp ==
  ASSUME IInv, pc \notin Apart, replies # <<>>, NEW op, Read(Ask(op)),
         pc' = Leaving, Leaving = "detaching" => op = "D",
         UNCHANGED <<stub, tool, armed, trace, sessions>>,
         result' \in {"none", "ok", "error"}, foreign' => result' = "error"
  PROVE  IInv'
<1>1. ~gone /\ WellFormed(requests) /\ WellFormed(replies)
  BY DEF IInv, EndedInv
<1>2. WellFormed(requests') /\ requests' # <<>> /\ requests[Len(requests)]' = Request(op, None)
  BY <1>1, Asked1 DEF Read
<1>3. WellFormed(replies')
  BY <1>1, TailFormed DEF Read
<1>4. pc' \in {"leaving", "detaching"} /\ (pc' = "detaching" => op = "D")
  BY DEF Leaving
<1> QED
  BY <1>1, <1>2, <1>3, <1>4, Leaves DEF Request

LEMMA GivesUpLate ==
  ASSUME IInv, pc \notin Apart, ~gone, NEW op, requests' = Overdue \o Ask(op),
         pc' = Leaving, Leaving = "detaching" => op = "D",
         replies' \in {replies, Belated},
         UNCHANGED <<stub, tool, armed, trace, sessions>>,
         result' \in {"none", "ok", "error"}, foreign' => result' = "error"
  PROVE  IInv'
<1>1. WellFormed(replies) /\ WellFormed(Overdue) /\ WellFormed(Belated)
  BY OverdueFormed DEF IInv
<1>2. WellFormed(requests') /\ requests' # <<>> /\ requests[Len(requests)]' = Request(op, None)
  BY <1>1, Asked1
<1>3. WellFormed(replies')
  BY <1>1
<1>4. pc' \in {"leaving", "detaching"} /\ (pc' = "detaching" => op = "D")
  BY DEF Leaving
<1> QED
  BY <1>2, <1>3, <1>4, Leaves DEF Request

(* The one reply that is there is read, and one request sent. *)
LEMMA TakesOne ==
  ASSUME requests = <<>>, replies = <<Reply>>, NEW a, Read(<<a>>)
  PROVE  requests' = <<a>> /\ replies' = <<>>
<1>1. Tail(replies) = <<>>
  BY Tuples
<1> QED
  BY <1>1, Tuples DEF Read

LEMMA FieldsOf ==
  \A op, arg : /\ Request(op, arg).op = op /\ Request(op, arg).arg = arg
               /\ Request(op, arg).late = FALSE
BY DEF Request

LEMMA LateFirst ==
  Head(LateRead \o Ask("c")).op = "m" /\ Tail(LateRead \o Ask("c")) = Ask("c")
<1> DEFINE late == [Request("m", None) EXCEPT !.late = TRUE]
           next == Request("c", None)
<1>1. late.op = "m"
  BY DEF Request
<1>2. LateRead = <<late>> /\ Ask("c") = <<next>>
  BY DEF LateRead, Ask
<1> HIDE DEF late, next
<1>3. LateRead \o Ask("c") = <<late, next>>
  <2>1. <<late>> \o <<next>> = <<late, next>>
    BY Tuples
  <2> QED
    BY <1>2, <2>1
<1>4. Head(<<late, next>>) = late /\ Tail(<<late, next>>) = <<next>>
  BY Tuples
<1> QED
  BY <1>1, <1>2, <1>3, <1>4

(* What the client reads at a step of a session is the answer to it.       *)
LEMMA Answered ==
  ASSUME IInv, replies # <<>>, pc \notin {"frame", "frameCells", "feed", "leaving", "detaching"},
         pc \notin CaptureSteps, pc \notin Apart
  PROVE  /\ ~gone /\ ~foreign
         /\ pc \in {"state", "cells", "mode12", "stack", "inject"} =>
              Still /\ requests = <<>> /\ Single({"hex", "err"}, "m")
         /\ pc = "breaking" => Still /\ requests = <<>> /\ Single({"stop"}, "?")
         /\ pc = "store" => Still /\ requests = <<>> /\ Single({"ok", "err"}, "M")
         /\ pc \in {"arming", "rearming"} =>
              Still /\ requests = <<>> /\ Single({"ok", "err"}, "Z1")
         /\ pc = "clearing" => Still /\ requests = <<>> /\ Single({"ok"}, "z1")
         /\ pc = "tracing" /\ Is("stop") =>
              Still /\ requests = <<>> /\ Single({"stop"}, "c")
         /\ pc = "interrupting" => requests \in {<<>>, Ask("03")} /\ replies = <<Reply>> /\ Still
<1>1. ~gone
  BY DEF IInv, EndedInv
<1>2. ~foreign
  BY DEF IInv, ResultInv, Over, Apart
<1>3. ChannelInv
  BY DEF IInv
<1>4. \A op, arg, kinds : Awaits(op, arg, kinds) => requests = <<>> /\ Single(kinds, op)
  BY DEF Awaits
<1>5. pc = "breaking" => Still /\ requests = <<>> /\ Single({"stop"}, "?")
  BY <1>1, <1>3, <1>4 DEF ChannelInv, Breaking, Still
<1>6. pc = "inject" => Still /\ requests = <<>> /\ Single({"hex", "err"}, "m")
  BY <1>1, <1>3, <1>4 DEF ChannelInv, Injecting
<1>7. pc = "tracing" /\ Is("stop") => Still /\ requests = <<>> /\ Single({"stop"}, "c")
  BY <1>1, <1>3 DEF ChannelInv, TraceRuns, Unfit, Is
<1>8. pc = "interrupting" => requests \in {<<>>, Ask("03")} /\ replies = <<Reply>> /\ Still
  BY <1>1, <1>3 DEF ChannelInv, Interrupting
<1> QED
  BY <1>1, <1>2, <1>3, <1>4, <1>5, <1>6, <1>7, <1>8 DEF ChannelInv

-----------------------------------------------------------------------------
(* The client goes on within a session: what is common to those steps. *)
Rest == <<vga, capture>>

LEMMA Continues ==
  ASSUME IInv, ~gone, pc \notin Apart \union {"leaving", "detaching"},
         UNCHANGED <<stub, tool, sessions, result>>,
         foreign' => pc' \in CaptureSteps /\ failing',
         WellFormed(requests'), WellFormed(replies'),
         pc' \in (Waiting \union CaptureSteps \union {"pausing"}) \ {"leaving", "detaching"},
         ChannelInv', ToolInv', BreakpointInv'
  PROVE  IInv'
<1>1. pc' \notin Apart \union {"detaching"} /\ pc' \notin Over /\ pc \notin Over
  BY Places DEF Apart, Waiting, Over
<1>2. EndedInv' /\ ReleaseInv'
  BY <1>1 DEF EndedInv, ReleaseInv, stub
<1>3. ResultInv'
  BY <1>1 DEF IInv, ResultInv, Over
<1> QED
  BY <1>2, <1>3 DEF IInv

(* One command was answered and the next is sent. *)
LEMMA NextCommand ==
  ASSUME IInv, replies # <<>>, Still, requests = <<>>, replies = <<Reply>>, ~gone,
         NEW op, NEW arg, Read(<<Request(op, arg)>>), UNCHANGED stub
  PROVE  /\ requests' = <<Request(op, arg)>> /\ replies' = <<>>
         /\ WellFormed(requests') /\ WellFormed(replies')
         /\ Still' /\ \A kinds : Awaits(op, arg, kinds)'
<1>1. requests' = <<Request(op, arg)>> /\ replies' = <<>>
  BY TakesOne
<1>2. WellFormed(requests') /\ WellFormed(replies')
  BY <1>1, Tuples
<1>3. Still'
  BY DEF Still, stub
<1> QED
  BY <1>1, <1>2, <1>3 DEF Awaits

(* From one step of a session to the next, within screen, wait-screen and type. *)
LEMMA NextStep ==
  ASSUME IInv, replies # <<>>, Still, requests = <<>>, replies = <<Reply>>, ~gone,
         pc \notin Apart \union {"leaving", "detaching"}, ~foreign',
         UNCHANGED <<stub, tool, sessions, result, armed, trace>>,
         NEW op, Read(Ask(op)),
         \/ op = "m" /\ pc' \in {"state", "cells", "mode12", "inject"}
         \/ op = "M" /\ pc' = "store"
         \/ op = "c" /\ pc' = "pausing"
  PROVE  IInv'
<1>1. /\ requests' = Ask(op) /\ replies' = <<>> /\ Still'
      /\ WellFormed(requests') /\ WellFormed(replies')
      /\ \A kinds : Awaits(op, None, kinds)'
  BY NextCommand DEF Ask
<1>2. pc' \in {"state", "cells", "mode12", "inject", "store", "pausing"}
  OBVIOUS
<1>3. pc' \notin CaptureSteps /\ pc' \notin Apart
  BY <1>2, Places DEF Waiting, Apart
<1>4. ChannelInv'
  BY <1>1, <1>2, <1>3 DEF ChannelInv, Injecting, Pausing
<1>5. ToolInv'
  BY <1>2 DEF IInv, ToolInv, stub, Apart
<1>6. BreakpointInv'
  BY <1>2 DEF BreakpointInv
<1> QED
  BY <1>1, <1>2, <1>4, <1>5, <1>6, Continues DEF Waiting

LEMMA SnapshotStep ==
  ASSUME IInv, Snapshot, UNCHANGED Rest
  PROVE  IInv'
<1> USE DEF locals, history
<1>1. CASE Broken
  <2>1. /\ ~gone /\ ~foreign /\ Still /\ requests = <<>> /\ replies # <<>> /\ replies = <<Reply>>
        /\ pc = "breaking"
    BY <1>1, Answered, Places DEF Broken, At, Single, Apart, Waiting
  <2>2. CASE tool # "trace"
    <3>1. \/ Read(Ask("m")) /\ pc' = "inject"
          \/ Read(Ask("m")) /\ pc' = "state"
      BY <1>1, <2>2 DEF Broken
    <3> QED
      BY <1>1, <2>1, <3>1, NextStep DEF Broken, Apart
  <2>3. CASE tool = "trace"
    <3>1. Read(ArmNext(0)) /\ pc' = "arming"
      BY <1>1, <2>3 DEF Broken
    <3>2. trace.at \in Seq(Addresses) /\ trace.at # <<>> /\ armed = 0
      BY <2>1, <2>3, TraceAssumption DEF IInv, ToolInv
    <3>3. 1 \in DOMAIN trace.at /\ ArmNext(0) = <<Request("Z1", trace.at[1])>>
      BY <3>2, EmptySeq DEF ArmNext
    <3>4. /\ replies' = <<>> /\ WellFormed(requests') /\ WellFormed(replies')
          /\ Still' /\ \A kinds : Awaits("Z1", trace.at[1], kinds)'
      BY <2>1, <3>1, <3>3, <1>1, NextCommand DEF Broken
    <3>5. ChannelInv'
      BY <1>1, <3>1, <3>2, <3>4, Places DEF Broken, ChannelInv, Waiting, Apart
    <3>6. ToolInv'
      BY <1>1, <2>3, <3>1, <3>2, <3>3 DEF Broken, IInv, ToolInv, stub, At, Apart
    <3>7. BreakpointInv'
      BY <1>1, <3>1, <3>2, <3>4 DEF Broken, BreakpointInv
    <3> QED
      BY <1>1, <2>1, <3>1, <3>4, <3>5, <3>6, <3>7, Continues DEF Broken, Apart, Waiting
  <2> QED
    BY <2>2, <2>3
<1>2. CASE Probed
  <2>1. ~gone /\ ~foreign /\ Single({"stop"}, "?")
    BY <1>2, Answered, Places DEF Probed, At, Apart, Waiting
  <2>2. ~foreign'
    BY <1>2, <2>1 DEF Probed, Use, Single
  <2> QED
    BY <1>2, <2>1, <2>2, GivesUp DEF Probed, EndPc, At, Apart, Use
<1>3. CASE ModeRead
  <2>1. ~gone /\ ~foreign /\ Still /\ requests = <<>> /\ Single({"hex", "err"}, "m")
    BY <1>3, Answered, Places DEF ModeRead, At, Apart, Waiting
  <2>2. ~foreign'
    BY <1>3, <2>1 DEF ModeRead, Use, Single
  <2> QED
    BY <1>3, <2>1, <2>2, NextStep DEF ModeRead, At, Apart, Single, Use
<1>4. CASE NoText
  <2> QED
    BY <1>4, GivesUp DEF NoText, FailPc, At, Apart, Use
<1>5. CASE CellsRead
  <2>1. ~gone /\ ~foreign /\ Single({"hex", "err"}, "m")
    BY <1>5, Answered, Places DEF CellsRead, At, Apart, Waiting
  <2>2. ~foreign'
    BY <1>5, <2>1 DEF CellsRead, Use, Single
  <2> QED
    BY <1>5, <2>1, <2>2, GivesUp DEF CellsRead, EndPc, At, Apart, Use
<1> QED
  BY <1>1, <1>2, <1>3, <1>4, <1>5 DEF Snapshot

-----------------------------------------------------------------------------
(* trace goes on arming: its first n breakpoints are set.                  *)
LEMMA ArmsOn ==
  ASSUME IInv, pc \in {"arming", "rearming", "clearing"}, replies # <<>>, ~gone, ~foreign',
         Still, requests = <<>>, replies = <<Reply>>,
         UNCHANGED <<stub, tool, sessions, trace, result>>,
         Read(ArmNext(armed + 1)), pc' = ArmedPc(armed + 1), armed' = armed + 1,
         \A n \in 1 .. armed + 1 : trace.at[n] \in bps
  PROVE  IInv'
<1>1. tool = "trace" /\ trace.at \in Seq(Addresses) /\ armed \in Nat /\ armed + 1 \in DOMAIN trace.at
  BY TraceAssumption DEF IInv, ToolInv
<1>2. DOMAIN trace.at = 1 .. Len(trace.at) /\ Len(trace.at) \in Nat
  BY <1>1, LenProperties
<1>3. pc \notin Apart \union {"leaving", "detaching"} /\ pc' \in {"arming", "tracing"}
  BY DEF ArmedPc, Apart
<1>4. pc' \in Waiting \ {"leaving", "detaching"} /\ pc' \notin CaptureSteps \union Apart
  BY <1>3, Places DEF Waiting, Apart
<1>5. CASE armed + 1 < Len(trace.at)
  <2> DEFINE next == trace.at[(armed + 1) + 1]
  <2>1. ArmNext(armed + 1) = <<Request("Z1", next)>> /\ pc' = "arming" /\ next = Current'
    BY <1>5 DEF ArmNext, ArmedPc, Current
  <2> HIDE DEF next
  <2>2. /\ requests' = <<Request("Z1", next)>> /\ replies' = <<>>
        /\ WellFormed(requests') /\ WellFormed(replies') /\ Still'
    BY <2>1, NextCommand
  <2>3. ChannelInv'
    BY <1>4, <2>1, <2>2 DEF ChannelInv, Awaits, Current
  <2>4. ToolInv'
    BY <1>1, <1>2, <1>5, <2>1 DEF IInv, ToolInv, stub, Apart
  <2>5. BreakpointInv'
    BY <2>1, <2>2 DEF BreakpointInv, stub
  <2> QED
    BY <1>3, <1>4, <2>2, <2>3, <2>4, <2>5, Continues
<1>6. CASE ~(armed + 1 < Len(trace.at))
  <2>1. ArmNext(armed + 1) = <<Request("c", None)>> /\ pc' = "tracing" /\ armed + 1 = Len(trace.at)
    BY <1>1, <1>2, <1>6 DEF ArmNext, ArmedPc, Ask
  <2>2. /\ requests' = Ask("c") /\ replies' = <<>> /\ WellFormed(requests') /\ WellFormed(replies')
        /\ Still'
    BY <2>1, NextCommand DEF Ask
  <2>3. ChannelInv'
    BY <1>4, <2>1, <2>2 DEF ChannelInv, TraceRuns, Still
  <2>4. ToolInv'
    BY <1>1, <2>1 DEF IInv, ToolInv, stub, Apart
  <2>5. BreakpointInv'
    BY <1>2, <2>1, <2>2 DEF BreakpointInv, stub
  <2> QED
    BY <1>3, <1>4, <2>2, <2>3, <2>4, <2>5, Continues
<1> QED
  BY <1>5, <1>6

(* trace lets the guest run to the next hit. *)
LEMMA TraceGoesOn ==
  ASSUME IInv, ~gone, ~foreign', pc \in {"tracing", "stack"}, pc' \in {"tracing", "stack"},
         UNCHANGED <<stub, tool, sessions, trace, armed, result>>,
         WellFormed(requests'), WellFormed(replies'),
         pc' = "tracing" => TraceRuns',
         pc' = "stack" => Still' /\ Awaits("m", None, {"hex", "err"})'
  PROVE  IInv'
<1>1. pc' \notin CaptureSteps \union Apart /\ pc \notin Apart /\ pc' \in Waiting
  BY Places DEF Waiting, Apart
<1>2. ChannelInv'
  BY <1>1 DEF ChannelInv
<1>3. ToolInv'
  BY <1>1 DEF IInv, ToolInv, stub, Apart
<1>4. BreakpointInv'
  BY DEF IInv, BreakpointInv, stub
<1> QED
  BY <1>1, <1>2, <1>3, <1>4, Continues

LEMMA TracingStep ==
  ASSUME IInv, Tracing, UNCHANGED Rest
  PROVE  IInv'
<1> USE DEF locals, history
<1>1. CASE Arm
  <2>1. /\ ~gone /\ ~foreign /\ Still /\ requests = <<>> /\ Single({"ok", "err"}, "Z1")
    BY <1>1, Answered, Places DEF Arm, Apart, Waiting
  <2>2. ~foreign'
    BY <1>1, <2>1 DEF Arm, Use, Single
  <2>3. armed \in Nat /\ BreakpointInv /\ trace.at[armed + 1] \in bps
    BY <1>1 DEF Arm, IInv, ToolInv, BreakpointInv, Current
  <2>4. \A n \in 1 .. armed + 1 : trace.at[n] \in bps
    <3>1. \A n \in 1 .. armed : trace.at[n] \in bps
      BY <1>1, <2>3 DEF Arm, BreakpointInv, Current
    <3>2. \A n \in 1 .. armed + 1 : n \in 1 .. armed \/ n = armed + 1
      BY <2>3
    <3> QED
      BY <2>3, <3>1, <3>2
  <2> QED
    BY <1>1, <2>1, <2>2, <2>4, ArmsOn DEF Arm, Single, Use
<1>2. CASE Stale
  <2>1. /\ ~gone /\ ~foreign /\ Still /\ requests = <<>> /\ Single({"ok", "err"}, "Z1")
    BY <1>2, Answered, Places DEF Stale, At, Apart, Waiting
  <2>2. /\ replies' = <<>> /\ WellFormed(requests') /\ WellFormed(replies')
        /\ Still' /\ \A kinds : Awaits("z1", trace.at[armed + 1], kinds)'
    BY <1>2, <2>1, NextCommand DEF Stale, Single
  <2>3. pc = "arming" /\ pc' = "clearing" /\ UNCHANGED <<stub, tool, trace, armed, sessions, result, foreign>>
    BY <1>2 DEF Stale, At
  <2>4. pc' \in Waiting /\ pc' \notin CaptureSteps \union Apart
    BY <2>3, Places DEF Waiting, Apart
  <2>5. ChannelInv'
    BY <2>2, <2>3, <2>4 DEF ChannelInv
  <2>6. ToolInv' /\ BreakpointInv'
    BY <2>2, <2>3 DEF IInv, ToolInv, BreakpointInv, stub, Apart, Current
  <2> QED
    BY <2>1, <2>2, <2>3, <2>4, <2>5, <2>6, Continues DEF Apart
<1>3. CASE Clear
  <2>1. /\ ~gone /\ ~foreign /\ Still /\ requests = <<>> /\ Single({"ok"}, "z1")
    BY <1>3, Answered, Places DEF Clear, At, Apart, Waiting
  <2>2. pc = "clearing" /\ pc' = "rearming" /\ UNCHANGED <<stub, tool, trace, armed, sessions, result, foreign>>
    BY <1>3 DEF Clear, At
  <2>3. /\ trace.at \in Seq(Addresses) /\ armed \in Nat /\ armed + 1 \in DOMAIN trace.at
        /\ BreakpointInv
    BY <2>2, TraceAssumption DEF IInv, ToolInv
  <2>4. ArmNext(armed) = <<Request("Z1", trace.at[armed + 1])>>
    BY <2>3, LenProperties DEF ArmNext
  <2>5. /\ replies' = <<>> /\ WellFormed(requests') /\ WellFormed(replies')
        /\ Still' /\ \A kinds : Awaits("Z1", trace.at[armed + 1], kinds)'
    BY <1>3, <2>1, <2>4, NextCommand DEF Clear, Single
  <2>6. pc' \in Waiting /\ pc' \notin CaptureSteps \union Apart
    BY <2>2, Places DEF Waiting, Apart
  <2>7. ChannelInv'
    BY <2>2, <2>5, <2>6 DEF ChannelInv
  <2>8. ToolInv'
    BY <2>2 DEF IInv, ToolInv, stub, Apart
  <2>9. BreakpointInv'
    BY <1>3, <2>2, <2>3, <2>5 DEF Clear, At, BreakpointInv, stub, Current
  <2> QED
    BY <2>1, <2>2, <2>5, <2>6, <2>7, <2>8, <2>9, Continues DEF Apart
<1>4. CASE Traced
  <2>1. /\ ~gone /\ ~foreign /\ Still /\ requests = <<>> /\ Single({"stop"}, "c")
    BY <1>4, Answered, Places DEF Traced, At, Apart, Waiting
  <2>2. ~foreign'
    BY <1>4, <2>1 DEF Traced, Use, Single
  <2>3. pc = "tracing" /\ UNCHANGED <<stub, tool, trace, armed, sessions, result>>
    BY <1>4 DEF Traced, At, Use
  <2>4. \/ Read(<<Request("m", None)>>) /\ pc' = "stack"
        \/ Read(<<Request("c", None)>>) /\ pc' = "tracing"
    BY <1>4 DEF Traced, Ask
  <2>5. /\ replies' = <<>> /\ WellFormed(requests') /\ WellFormed(replies') /\ Still'
        /\ pc' = "tracing" => requests' = Ask("c")
        /\ pc' = "stack" => Awaits("m", None, {"hex", "err"})'
    BY <1>4, <2>1, <2>3, <2>4, NextCommand DEF Traced, Single, Ask
  <2> QED
    BY <2>1, <2>2, <2>3, <2>4, <2>5, TraceGoesOn DEF TraceRuns, Still
<1>5. CASE StackRead
  <2>1. /\ ~gone /\ ~foreign /\ Still /\ requests = <<>> /\ Single({"hex", "err"}, "m")
    BY <1>5, Answered, Places DEF StackRead, At, Apart, Waiting
  <2>2. ~foreign'
    BY <1>5, <2>1 DEF StackRead, Use, Single
  <2>3. pc = "stack" /\ UNCHANGED <<stub, tool, trace, armed, sessions>>
    BY <1>5 DEF StackRead, At, Use
  <2>4. CASE Enough
    BY <1>5, <2>1, <2>2, <2>3, <2>4, GivesUp DEF StackRead, EndPc, Apart, Single
  <2>5. CASE ~Enough
    <3>1. Read(<<Request("c", None)>>) /\ pc' = "tracing" /\ UNCHANGED result
      BY <1>5, <2>5 DEF StackRead, Ask
    <3>2. /\ replies' = <<>> /\ WellFormed(requests') /\ WellFormed(replies') /\ Still'
          /\ requests' = Ask("c")
      BY <2>1, <2>3, <3>1, NextCommand DEF Single, Ask
    <3> QED
      BY <2>1, <2>2, <2>3, <3>1, <3>2, TraceGoesOn DEF TraceRuns, Still
  <2> QED
    BY <2>4, <2>5
<1>6. CASE TraceTimeout
  <2>1. pc = "tracing" /\ ~gone /\ UNCHANGED <<stub, replies, tool, armed, trace, sessions, foreign>>
    BY <1>6 DEF TraceTimeout, Silence
  <2>2. ~foreign
    BY <2>1, Places DEF IInv, ResultInv, Over, Waiting
  <2> QED
    BY <1>6, <2>1, <2>2, GivesUpLate DEF TraceTimeout, EndPc, Apart
<1>7. CASE StackTimeout
  <2>1. /\ pc = "stack" /\ ~gone /\ replies = <<>>
        /\ UNCHANGED <<stub, replies, tool, armed, trace, sessions, foreign>>
    BY <1>7 DEF StackTimeout, Silence
  <2>2. ~foreign
    BY <2>1, Places DEF IInv, ResultInv, Over, Waiting
  <2>3. requests = <<Request("m", None)>> /\ Still /\ WellFormed(replies)
    BY <2>1 DEF IInv, ChannelInv, Awaits, Single
  <2>4. CASE Enough
    BY <1>7, <2>1, <2>2, <2>4, GivesUpLate DEF StackTimeout, EndPc, Apart
  <2>5. CASE ~Enough
    <3>1. requests' = Overdue \o Ask("c") /\ pc' = "tracing" /\ UNCHANGED result
      BY <1>7, <2>5 DEF StackTimeout
    <3>2. Overdue = LateRead
      <4> DEFINE late == [Request("m", None) EXCEPT !.late = TRUE]
                 T    == Elements(Overdue) \union {late}
      <4>1. requests[1] = Request("m", None) /\ Len(requests) = 1
        BY <2>3
      <4>2. WellFormed(Overdue) /\ Len(Overdue) = 1 /\ Overdue[1] = late
        BY <4>1, OverdueFormed DEF IInv
      <4> HIDE DEF late
      <4>3. Overdue \in Seq(T) /\ <<late>> \in Seq(T)
        BY <4>2, FormedIsSeq
      <4> HIDE DEF T
      <4>4. Overdue = <<late>>
        BY <4>2, <4>3, SeqEqual
      <4> QED
        BY <4>4 DEF late, LateRead
    <3>3. WellFormed(requests')
      BY <3>1, Asked1, OverdueFormed DEF IInv
    <3> QED
      BY <2>1, <2>2, <2>3, <3>1, <3>2, <3>3, TraceGoesOn DEF TraceRuns, Still, stub
  <2> QED
    BY <2>4, <2>5
<1> QED
  BY <1>1, <1>2, <1>3, <1>4, <1>5, <1>6, <1>7 DEF Tracing

-----------------------------------------------------------------------------
(* type, and the console. *)
LEMMA TypingStep ==
  ASSUME IInv, Typing, UNCHANGED Rest
  PROVE  IInv'
<1> USE DEF locals, history
<1>1. CASE Injected
  <2>1. ~gone /\ ~foreign /\ Still /\ requests = <<>> /\ Single({"hex", "err"}, "m")
    BY <1>1, Answered, Places DEF Injected, At, Apart, Waiting
  <2>2. ~foreign'
    BY <1>1, <2>1 DEF Injected, Use, Single
  <2> QED
    BY <1>1, <2>1, <2>2, NextStep DEF Injected, At, Apart, Single, Use
<1>2. CASE Stored
  <2>1. ~gone /\ ~foreign /\ Still /\ requests = <<>> /\ Single({"ok", "err"}, "M")
    BY <1>2, Answered, Places DEF Stored, At, Apart, Waiting
  <2>2. ~foreign' /\ pc = "store" /\ UNCHANGED <<stub, tool, armed, trace, sessions>>
    BY <1>2, <2>1 DEF Stored, Use, Single, At
  <2>3. CASE Read(Ask("D")) /\ EndPc
    BY <2>1, <2>2, <2>3, GivesUp DEF EndPc, Apart, Single
  <2>4. CASE Read(Ask("c")) /\ pc' = "pausing" /\ UNCHANGED result
    BY <2>1, <2>2, <2>4, NextStep DEF Apart, Single
  <2> QED
    BY <1>2, <2>3, <2>4 DEF Stored
<1>3. CASE Deadline
  BY <1>3, GivesUp DEF Deadline, FailPc, At, Apart, Use
<1>4. CASE Pause
  <2>1. /\ pc = "pausing" /\ pc' = "interrupting" /\ ~gone
        /\ UNCHANGED <<stub, replies, tool, armed, trace, sessions, result, foreign>>
        /\ requests' = requests \o Ask("03")
    BY <1>4 DEF Pause
  <2>2. WellFormed(requests') /\ WellFormed(replies') /\ ~foreign
    BY <2>1, Asked1, Places DEF IInv, ResultInv, Over, Waiting
  <2>3. Pausing
    BY <2>1 DEF IInv, ChannelInv
  <2>4. <<>> \o Ask("03") = Ask("03")
    BY Tuples DEF Ask
  <2>5. Interrupting'
    BY <2>1, <2>3, <2>4 DEF Pausing, Interrupting, Still, stub, Reply
  <2>6. pc' \in Waiting /\ pc' \notin CaptureSteps \union Apart
    BY <2>1, Places DEF Waiting, Apart
  <2>7. ChannelInv'
    BY <2>1, <2>5, <2>6 DEF ChannelInv
  <2>8. ToolInv' /\ BreakpointInv'
    BY <2>1 DEF IInv, ToolInv, BreakpointInv, stub, Apart
  <2> QED
    BY <2>1, <2>2, <2>6, <2>7, <2>8, Continues DEF Apart
<1>5. CASE Interrupted
  <2>1. /\ ~gone /\ ~foreign /\ Still /\ replies # <<>>
        /\ requests \in {<<>>, Ask("03")} /\ replies = <<Reply>>
    BY <1>5, Answered, Places DEF Interrupted, At, Apart, Waiting
  <2>2. /\ pc = "interrupting" /\ pc' = "inject"
        /\ UNCHANGED <<stub, tool, armed, trace, sessions, result, foreign>>
        /\ requests' = requests \o Ask("m") /\ replies' = Tail(replies)
    BY <1>5 DEF Interrupted, At, Read
  <2>3. replies' = <<>> /\ WellFormed(requests') /\ WellFormed(replies')
    BY <2>1, <2>2, Asked1, Tuples DEF IInv
  <2>4. requests' = Ask("m") \/ requests' = Ask("03") \o Ask("m")
    BY <2>1, <2>2, Tuples DEF Ask
  <2>5. Injecting'
    BY <2>1, <2>2, <2>3, <2>4 DEF Injecting, Awaits, Ask, Still, stub
  <2>6. pc' \in Waiting /\ pc' \notin CaptureSteps \union Apart
    BY <2>2, Places DEF Waiting, Apart
  <2>7. ChannelInv'
    BY <2>2, <2>5, <2>6 DEF ChannelInv
  <2>8. ToolInv' /\ BreakpointInv'
    BY <2>2 DEF IInv, ToolInv, BreakpointInv, stub, Apart
  <2> QED
    BY <2>1, <2>2, <2>3, <2>6, <2>7, <2>8, Continues DEF Apart
<1> QED
  BY <1>1, <1>2, <1>3, <1>4, <1>5 DEF Typing

LEMMA ConsoleReads ==
  ASSUME Consoles, WellFormed(requests), WellFormed(replies), replies # <<>>,
         NEW op \in {"c", "m", "M"}, Read(Ask(op))
  PROVE  Consoles' /\ WellFormed(requests') /\ WellFormed(replies')
<1>1. requests' = requests \o Ask(op) /\ replies' = Tail(replies)
  BY DEF Read
<1>2. WellFormed(requests') /\ WellFormed(replies')
  BY <1>1, Asked1, TailFormed
<1>3. ASSUME NEW n \in DOMAIN requests'
      PROVE  requests'[n].op \in {"c", "m", "M"} /\ ~requests'[n].late
  <2>1. DOMAIN requests' = 1 .. Len(requests') /\ DOMAIN requests = 1 .. Len(requests)
    BY <1>2, FormedIsSeq
  <2>2. /\ requests'[Len(requests')] = Request(op, None) /\ Len(requests') = Len(requests) + 1
        /\ \A m \in 1 .. Len(requests) : requests'[m] = requests[m]
        /\ Len(requests) \in Nat
    BY <1>1, Asked1, Tuples, ConcatFormed DEF Ask, WellFormed
  <2>3. CASE n = Len(requests) + 1
    BY <2>2, <2>3 DEF Request
  <2>4. CASE n \in 1 .. Len(requests)
    BY <2>1, <2>2, <2>4 DEF Consoles
  <2> QED
    BY <1>3, <2>1, <2>2, <2>3, <2>4
<1>4. ASSUME NEW n \in DOMAIN replies'
      PROVE  /\ ~replies'[n].late
             /\ replies'[n].kind = "hex" => replies'[n].for = "m"
             /\ replies'[n].kind = "ok" => replies'[n].for = "M"
  <2>1. DOMAIN replies' = 1 .. Len(replies') /\ DOMAIN replies = 1 .. Len(replies)
    BY <1>2, FormedIsSeq
  <2>2. /\ Len(replies') = Len(replies) - 1 /\ Len(replies) \in Nat
        /\ \A m \in 1 .. Len(replies) - 1 : replies'[m] = replies[m + 1]
    BY <1>1, TailFormed DEF WellFormed
  <2>3. replies'[n] = replies[n + 1] /\ n + 1 \in DOMAIN replies
    BY <1>4, <2>1, <2>2
  <2> QED
    BY <2>3 DEF Consoles
<1> QED
  BY <1>2, <1>3, <1>4 DEF Consoles

LEMMA ConsoleStep ==
  ASSUME IInv, Console, UNCHANGED Rest
  PROVE  IInv'
<1> USE DEF locals, history
<1>1. ASSUME pc \in {"frame", "frameCells", "feed"}, replies # <<>>
      PROVE  /\ ~gone /\ ~foreign /\ Consoles /\ WellFormed(requests) /\ WellFormed(replies)
             /\ ~Reply.late /\ (Is("hex") => Reply.for = "m") /\ (Is("ok") => Reply.for = "M")
  <2>1. ~gone /\ ~foreign /\ WellFormed(requests) /\ WellFormed(replies)
    BY <1>1, Places DEF IInv, EndedInv, ResultInv, Over, Waiting
  <2>2. Consoles
    BY <1>1, <2>1 DEF IInv, ChannelInv
  <2>3. Reply = replies[1] /\ 1 \in DOMAIN replies
    BY <1>1, <2>1, TailFormed, FormedIsSeq DEF Reply, WellFormed
  <2> QED
    BY <2>1, <2>2, <2>3 DEF Consoles, Is
<1>2. ASSUME pc \in {"frame", "frameCells", "feed"}, replies # <<>>, ~foreign',
             UNCHANGED <<stub, tool, sessions, armed, trace, result>>,
             pc' \in {"frame", "frameCells", "feed"},
             Read(Ask("m")) \/ Read(Ask("M"))
      PROVE  IInv'
  <2>1. Consoles' /\ WellFormed(requests') /\ WellFormed(replies')
    BY <1>1, <1>2, ConsoleReads
  <2>2. pc' \in Waiting /\ pc' \notin CaptureSteps \union Apart
    BY <1>2, Places DEF Waiting, Apart
  <2>3. ChannelInv'
    BY <1>2, <2>1, <2>2 DEF ChannelInv
  <2>4. ToolInv' /\ BreakpointInv'
    BY <1>2 DEF IInv, ToolInv, BreakpointInv, stub, Apart
  <2> QED
    BY <1>1, <1>2, <2>1, <2>2, <2>3, <2>4, Continues DEF Apart
<1>3. CASE FrameRead
  <2>1. pc = "frame" /\ replies # <<>> /\ ~foreign' /\ UNCHANGED <<stub, tool, sessions, armed, trace>>
    BY <1>1, <1>3 DEF FrameRead, At, Use
  <2>2. CASE Read(Ask("03")) /\ FailPc
    <3>1. Leaving = "leaving"
      BY <2>1 DEF IInv, ToolInv, Leaving
    <3> QED
      BY <2>1, <2>2, <3>1, GivesUp DEF FailPc, Apart
  <2>3. CASE Read(Ask("m")) /\ pc' = "frameCells" /\ UNCHANGED result
    BY <1>2, <2>1, <2>3
  <2> QED
    BY <1>3, <2>2, <2>3 DEF FrameRead
<1>4. CASE FrameCellsRead
  <2>1. pc = "frameCells" /\ replies # <<>> /\ ~foreign' /\ UNCHANGED <<stub, tool, sessions, armed, trace>>
    BY <1>1, <1>4 DEF FrameCellsRead, At, Use
  <2>2. CASE Read(Ask("03")) /\ EndPc
    <3>1. Leaving = "leaving"
      BY <2>1 DEF IInv, ToolInv, Leaving
    <3> QED
      BY <2>1, <2>2, <3>1, GivesUp DEF EndPc, Apart
  <2>3. CASE pc' \in {"feed", "frame"} /\ UNCHANGED result /\ (Read(Ask("m")) \/ Read(Ask("M")))
    BY <1>2, <2>1, <2>3
  <2> QED
    BY <1>4, <2>2, <2>3 DEF FrameCellsRead
<1>5. CASE Fed
  <2>1. pc = "feed" /\ replies # <<>> /\ ~foreign' /\ UNCHANGED <<stub, tool, sessions, armed, trace, result>>
    BY <1>1, <1>5 DEF Fed, At, Use
  <2> QED
    BY <1>2, <1>5, <2>1 DEF Fed
<1>6. CASE Left
  <2>1. pc = "leaving" /\ replies # <<>> /\ UNCHANGED <<stub, tool, sessions, armed, trace, result, foreign>>
    BY <1>6 DEF Left, At
  <2>2. Leaving = "detaching" /\ pc' = Leaving /\ Read(Ask("D"))
    BY <1>6, <2>1 DEF Left, Leaving
  <2>3. result \in {"none", "ok", "error"} /\ (foreign => result = "error")
    BY <2>1 DEF IInv, ResultInv, Over
  <2> QED
    BY <2>1, <2>2, <2>3, GivesUp DEF Apart
<1> QED
  BY <1>3, <1>4, <1>5, <1>6 DEF Console

-----------------------------------------------------------------------------
(* Sessions end, and begin. *)

(* The client has let the connection go: D is the last request, or it has  *)
(* been answered.                                                          *)
LEMMA Apartness ==
  ASSUME IInv, ~gone, pc \in {"checked", "detaching"}, pc' \in Apart,
         UNCHANGED <<stub, tool, trace, armed, cut, sessions>>, replies' = <<>>,
         requests' \in {requests, Overdue},
         pc' = "checked" => tool = "wait-screen" /\ result' = "ok",
         pc' = "connect" => tool = "wait-screen" /\ result' # "ok" /\ ~foreign',
         result' \in {"none", "ok", "error"}, foreign' => result' = "error" /\ pc' \in Over
  PROVE  IInv'
<1>1. WellFormed(requests) /\ WellFormed(replies)
  BY DEF IInv
<1>2. /\ WellFormed(Overdue) /\ Len(Overdue) = Len(requests)
      /\ \A i \in 1 .. Len(requests) : Overdue[i].op = requests[i].op
  <2>1. \A r : [r EXCEPT !.late = TRUE].op = r.op
    OBVIOUS
  <2> QED
    BY <1>1, <2>1, OverdueFormed
<1>3. requests = <<>> => Overdue = <<>>
  <2> SUFFICES ASSUME requests = <<>> PROVE Overdue = <<>>
    OBVIOUS
  <2> DEFINE T == Elements(Overdue)
  <2>1. Overdue \in Seq(T) /\ Len(Overdue) = 0
    BY <1>2, FormedIsSeq
  <2> HIDE DEF T
  <2> QED
    BY <2>1, EmptySeq
<1>4. requests # <<>> => Overdue # <<>> /\ Overdue[Len(Overdue)].op = requests[Len(requests)].op
  <2> SUFFICES ASSUME requests # <<>>
               PROVE  Overdue # <<>> /\ Overdue[Len(Overdue)].op = requests[Len(requests)].op
    OBVIOUS
  <2>1. Len(requests) > 0 /\ Len(requests) \in Nat /\ Len(<<>>) = 0
    BY <1>1, TailFormed DEF WellFormed
  <2> QED
    BY <1>2, <2>1
<1>5. pc' \notin Waiting \union CaptureSteps \union {"pausing"} /\ WellFormed(<<>>)
  BY Places, Tuples DEF Apart, Waiting
<1>6. WellFormed(requests') /\ WellFormed(replies')
  BY <1>1, <1>2, <1>5
<1>7. ChannelInv'
  BY <1>5 DEF ChannelInv, Apart, Waiting
<1>8. EndedInv' /\ ReleaseInv'
  <2>1. \/ requests # <<>> /\ requests[Len(requests)].op = "D"
        \/ Released
        \/ cut /\ ~owed
    BY DEF IInv, ReleaseInv, Apart
  <2>2. CASE requests # <<>> /\ requests[Len(requests)].op = "D"
    BY <1>4, <2>2 DEF EndedInv, ReleaseInv, stub
  <2>3. CASE Released
    BY <1>3, <2>3 DEF EndedInv, ReleaseInv, Released, stub, IInv, ToolInv, Apart
  <2>4. CASE cut /\ ~owed
    BY <2>4 DEF EndedInv, ReleaseInv, stub
  <2> QED
    BY <2>1, <2>2, <2>3, <2>4
<1>9. ToolInv'
  BY <1>5 DEF IInv, ToolInv, stub, Apart, Waiting
<1>10. ResultInv' /\ BreakpointInv'
  BY <1>5 DEF IInv, ResultInv, BreakpointInv, Over, Apart, Waiting
<1> QED
  BY <1>5, <1>6, <1>7, <1>8, <1>9, <1>10 DEF IInv

LEMMA CloseStep ==
  ASSUME IInv, Close, UNCHANGED Rest
  PROVE  IInv'
<1> USE DEF locals, history
<1>1. CASE Misfits
  <2>1. pc \in DOMAIN Fits /\ replies # <<>> /\ Misfit(Fits[pc])
    BY <1>1 DEF Misfits
  <2>2. pc \notin Apart /\ pc # "leaving"
    BY <2>1 DEF Fits, Apart
  <2>3. Leaving = "detaching" => Finally = "D"
    BY DEF Leaving, Finally
  <2>4. /\ Read(Ask(Finally)) /\ pc' = Leaving /\ result' = "error"
        /\ UNCHANGED <<stub, tool, locals, history>>
    BY <2>1 DEF Misfit, FailPc
  <2> QED
    BY <2>1, <2>2, <2>3, <2>4, GivesUp
<1>2. CASE Timeout
  <2>1. Leaving = "detaching" => Finally = "D"
    BY DEF Leaving, Finally
  <2> QED
    BY <1>2, <2>1, GivesUpLate DEF Timeout, Silence, Raises, FailPc, Apart
<1>3. CASE LeaveTimeout
  <2>1. /\ ~gone /\ replies = <<>> /\ replies' = <<>> /\ pc \in {"leaving", "detaching"}
        /\ UNCHANGED <<stub, tool, armed, trace, cut, sessions, result, foreign>>
    BY <1>3 DEF LeaveTimeout, Silence
  <2>2. result \in {"none", "ok", "error"} /\ (foreign => result = "error")
    BY <2>1 DEF IInv, ResultInv, Over
  <2>3. CASE pc = "leaving"
    <3>1. Leaving = "detaching" /\ pc' = Leaving /\ requests' = Overdue \o Ask("D")
      BY <1>3, <2>3 DEF LeaveTimeout, Leaving
    <3>2. WellFormed(requests') /\ requests' # <<>> /\ requests[Len(requests)]' = Request("D", None)
      BY <3>1, Asked1, OverdueFormed DEF IInv
    <3> QED
      BY <2>1, <2>2, <2>3, <3>1, <3>2, Leaves DEF IInv, Apart, Request
  <2>4. CASE pc = "detaching"
    <3>1. pc' = AfterDetach /\ requests' = Overdue
      BY <1>3, <2>4 DEF LeaveTimeout
    <3> QED
      BY <2>1, <2>2, <2>4, <3>1, Apartness DEF AfterDetach, Apart, Over
  <2> QED
    BY <2>1, <2>3, <2>4
<1>4. CASE Detached
  <2>1. /\ ~gone /\ pc = "detaching" /\ replies' = <<>> /\ pc' = AfterDetach
        /\ UNCHANGED <<stub, requests, tool, armed, trace, cut, sessions, result, foreign>>
    BY <1>4 DEF Detached, At, IInv, EndedInv
  <2>2. result \in {"none", "ok", "error"} /\ (foreign => result = "error")
    BY <2>1 DEF IInv, ResultInv, Over
  <2> QED
    BY <2>1, <2>2, Apartness DEF AfterDetach, Apart, Over
<1>5. CASE Refused
  <2>1. /\ gone /\ pc' = "idle" /\ result' = "error" /\ gone'
        /\ UNCHANGED <<stub, channel, tool, armed, trace, sessions, foreign>>
    BY <1>5 DEF Refused, stub
  <2>2. WellFormed(requests)' /\ WellFormed(replies)' /\ EndedInv' /\ ChannelInv' /\ ReleaseInv'
    BY <2>1 DEF IInv, EndedInv, ChannelInv, ReleaseInv, stub, channel
  <2>3. ToolInv' /\ ResultInv' /\ BreakpointInv'
    BY <2>1 DEF IInv, ToolInv, ResultInv, BreakpointInv, Over, stub
  <2> QED
    BY <2>1, <2>2, <2>3 DEF IInv, Apart
<1> QED
  BY <1>1, <1>2, <1>3, <1>4, <1>5 DEF Close

(* wait-screen, between two looks at the screen. *)
LEMMA WaitStep ==
  ASSUME IInv, Wait, UNCHANGED Rest
  PROVE  IInv'
<1>1. /\ pc = "checked" /\ pc' \in {"idle", "connect"}
      /\ UNCHANGED <<stub, channel, tool, trace, armed, cut, sessions, foreign>>
      /\ result' \in {result, "none", "error"} /\ (pc' = "connect" => result' = "none")
  BY DEF Wait, Found, Again, WaitDeadline, locals, history
<1>2. result = "ok" /\ ~foreign /\ tool = "wait-screen"
  BY <1>1 DEF IInv, ResultInv, ToolInv, Over
<1>3. CASE ~gone
  <2>1. replies = <<>>
    BY <1>1, <1>3 DEF IInv, ChannelInv, Apart
  <2> QED
    BY <1>1, <1>2, <1>3, <2>1, Apartness DEF Apart, channel
<1>4. CASE gone
  <2>1. WellFormed(requests)' /\ WellFormed(replies)' /\ EndedInv' /\ ChannelInv' /\ ReleaseInv'
    BY <1>1, <1>4 DEF IInv, EndedInv, ChannelInv, ReleaseInv, stub, channel
  <2>2. ToolInv' /\ ResultInv' /\ BreakpointInv'
    BY <1>1, <1>2 DEF IInv, ToolInv, ResultInv, BreakpointInv, Over, stub
  <2> QED
    BY <1>1, <2>1, <2>2 DEF IInv, Apart
<1> QED
  BY <1>3, <1>4

LEMMA CtrlCStep ==
  ASSUME IInv, CtrlC, UNCHANGED Rest
  PROVE  IInv'
<1>1. Leaving = "detaching" => Finally = "D"
  BY DEF Leaving, Finally
<1> QED
  BY <1>1, GivesUpLate DEF CtrlC, FailPc, Waiting, Apart, locals, history

(* The connection is closed in the finally clause. *)
LEMMA CtrlCAgainStep ==
  ASSUME IInv, CtrlCAgain, UNCHANGED Rest
  PROVE  IInv'
<1>1. /\ pc \in Waiting \union {"pausing"} /\ pc' = "idle" /\ ~gone /\ result' = "error" /\ replies' = <<>>
      /\ cut' = (pc # "detaching") /\ owed' = FALSE
      /\ UNCHANGED <<running, bps, stops, gone, requests, tool, armed, trace, sessions, foreign>>
  BY DEF CtrlCAgain, locals
<1>2. WellFormed(requests)' /\ WellFormed(replies)' /\ EndedInv'
  BY <1>1, Tuples DEF IInv, EndedInv
<1>3. ChannelInv'
  BY <1>1, Places DEF ChannelInv, Apart, Waiting
<1>4. ReleaseInv'
  BY <1>1 DEF IInv, ReleaseInv, Released, Apart, ToolInv
<1>5. ToolInv' /\ ResultInv' /\ BreakpointInv'
  BY <1>1 DEF IInv, ToolInv, ResultInv, BreakpointInv, Over
<1> QED
  BY <1>1, <1>2, <1>3, <1>4, <1>5 DEF IInv, Apart

LEMMA StartStep ==
  ASSUME IInv, CommandStart
  PROVE  IInv'
<1>1. /\ pc = "idle" /\ pc' = "connect" /\ armed' = 0 /\ result' = "none" /\ foreign' = FALSE
      /\ sessions' = sessions + 1 /\ UNCHANGED <<stub, channel, cut>>
      /\ tool' = "trace" => trace'.at \in Traces
  <2>1. /\ pc = "idle" /\ pc' = "connect" /\ armed' = 0 /\ result' = "none" /\ foreign' = FALSE
        /\ sessions' = sessions + 1 /\ UNCHANGED <<stub, channel, cut>>
    BY DEF CommandStart, Start
  <2>2. PICK t \in Tools :
           /\ tool' = t
           /\ IF t = "trace" THEN \E a \in Traces, n \in Counts : trace' = [at |-> a, count |-> n]
                             ELSE trace' = [at |-> <<>>, count |-> 0]
    BY DEF CommandStart, Start
  <2> QED
    BY <2>1, <2>2
<1>2. WellFormed(requests)' /\ WellFormed(replies)' /\ EndedInv'
  BY <1>1 DEF IInv, EndedInv, stub, channel
<1>3. ChannelInv'
  BY <1>1, Places DEF IInv, ChannelInv, stub, channel, Apart, Waiting
<1>4. ReleaseInv'
  BY <1>1 DEF IInv, ReleaseInv, Released, stub, channel, Apart
<1>5. ToolInv' /\ ResultInv' /\ BreakpointInv'
  BY <1>1 DEF IInv, ToolInv, ResultInv, BreakpointInv, Over, stub
<1> QED
  BY <1>1, <1>2, <1>3, <1>4, <1>5 DEF IInv, Apart

LEMMA OpenStep ==
  ASSUME IInv, Open
  PROVE  IInv'
<1>1. /\ pc = "connect" /\ ~gone /\ requests = <<>>
      /\ UNCHANGED <<stub, replies, tool, trace, armed, sessions, result, foreign>>
      /\ \/ tool # "console" /\ pc' = "breaking" /\ requests' = Ask("03") \o Ask("?")
         \/ tool = "console" /\ pc' = "frame" /\ requests' = Ask("c") \o Ask("m")
  BY DEF Open, Connect, locals, history
<1>2. replies = <<>> /\ ~owed /\ ~foreign /\ result # "ok" /\ sessions > 0
  BY <1>1, Places DEF IInv, ChannelInv, ReleaseInv, Released, ResultInv, ToolInv, Over, Apart, Waiting
<1>3. pc' \in Waiting /\ pc' \notin CaptureSteps \union Apart \union {"detaching"}
  BY <1>1, Places DEF Waiting, Apart
<1>4. WellFormed(requests') /\ WellFormed(replies')
  BY <1>1, <1>2, Tuples DEF Ask
<1>5. ChannelInv'
  <2>1. CASE tool # "console"
    BY <1>1, <1>2, <1>3, <2>1 DEF ChannelInv, Breaking, stub
  <2>2. CASE tool = "console"
    <3>1. requests' = <<Request("c", None), Request("m", None)>>
      BY <1>1, <2>2, Tuples DEF Ask
    <3>2. Consoles'
      BY <1>1, <1>2, <3>1 DEF Consoles, Request
    <3> QED
      BY <1>1, <1>3, <2>2, <3>2 DEF ChannelInv
  <2> QED
    BY <2>1, <2>2
<1>6. EndedInv' /\ ReleaseInv'
  BY <1>1, <1>3 DEF EndedInv, ReleaseInv, stub
<1>7. ToolInv' /\ ResultInv' /\ BreakpointInv'
  BY <1>1, <1>2 DEF IInv, ToolInv, ResultInv, BreakpointInv, Over, Apart, stub
<1> QED
  BY <1>3, <1>4, <1>5, <1>6, <1>7 DEF IInv

-----------------------------------------------------------------------------
(* The capture. *)

(* The next command of the capture is sent: any other than after a good    *)
(* reply, or a fault, only in a finally clause.                            *)
LEMMA CaptureGoesOn ==
  ASSUME IInv, ~gone, pc \in CaptureSteps \union {"mode12"}, pc' \in CaptureSteps,
         UNCHANGED <<stub, tool, sessions, armed, trace, result>>,
         WellFormed(requests'), WellFormed(replies'), foreign' => failing',
         ~failing' => Captures'
  PROVE  IInv'
<1>1. /\ pc \notin Apart \union {"leaving", "detaching"}
      /\ pc' \notin Apart \union Waiting \union {"pausing"}
  BY Places DEF Apart, Waiting
<1>2. ChannelInv'
  BY <1>1 DEF ChannelInv, Waiting, Apart
<1>3. ToolInv' /\ BreakpointInv'
  BY <1>1, Places DEF IInv, ToolInv, BreakpointInv, stub, Apart, Waiting
<1> QED
  BY <1>1, <1>2, <1>3, Continues DEF Waiting

LEMMA CommandFormed ==
  ASSUME NEW s, WellFormed(s), NEW at \in CaptureSteps, NEW k, NEW t
  PROVE  WellFormed(s \o Command(at, k, t))
<1>1. PICK op, arg : op \in {"ib", "ob", "m"} /\ Command(at, k, t) = <<Request(op, arg)>>
  BY CommandShape
<1> QED
  BY <1>1, Tuples, ConcatFormed

LEMMA CaptureStepStep ==
  ASSUME IInv, CaptureStep
  PROVE  IInv'
<1>1. /\ pc \in CaptureSteps /\ replies # <<>> /\ ~gone /\ result \in {"none", "ok", "error"}
      /\ WellFormed(requests) /\ WellFormed(replies) /\ pc \notin Over
  BY Places DEF CaptureStep, IInv, EndedInv, ResultInv, Over, Apart, Waiting
<1>2. /\ UNCHANGED <<stub, tool, armed, trace, sessions, failing>>
      /\ foreign' = (foreign \/ Reply.late \/ Reply.for # Asked(pc))
  BY DEF CaptureStep, locals, Use
<1>3. ~failing => Still /\ requests = <<>> /\ replies = <<Reply>> /\ ~foreign'
  BY <1>1, <1>2 DEF IInv, ChannelInv, Captures, ResultInv
<1>4. ASSUME Read(Ask("D")), \/ FailPc
                             \/ EndPc /\ ~failing
      PROVE  IInv'
  BY <1>1, <1>2, <1>3, <1>4, GivesUp, Places DEF FailPc, EndPc, Apart
<1>5. ASSUME NEW at \in CaptureSteps, NEW k, NEW s, Proceed(at, k, s), s = saved'
      PROVE  IInv'
  <2>1. PICK op, arg : op \in {"ib", "ob", "m"} /\ Command(at, k, s) = <<Request(op, arg)>>
    BY CommandShape
  <2>2. pc' = at /\ round' = k /\ Read(Command(at, k, s)) /\ UNCHANGED result
    BY <1>5 DEF Proceed
  <2>3. WellFormed(requests') /\ WellFormed(replies')
    BY <1>1, <2>2, CommandFormed, TailFormed DEF Read
  <2>4. ~failing => requests' = Command(at, k, s) /\ replies' = <<>>
    BY <1>3, <2>1, <2>2, TakesOne
  <2>5. ~failing => Captures'
    BY <1>2, <1>3, <1>5, <2>2, <2>4 DEF Captures, Still, stub
  <2> QED
    BY <1>1, <1>2, <1>3, <2>2, <2>3, <2>5, CaptureGoesOn
<1>6. CASE failing /\ pc \in Ends
  BY <1>4, <1>6 DEF CaptureStep
<1>7. CASE ~(failing /\ pc \in Ends) /\ Then[pc] = "end"
  <2>1. pc = "putDac"
    BY <1>1, <1>7, Places DEF Then
  <2> QED
    BY <1>4, <1>7, <2>1 DEF CaptureStep, Ends
<1>8. CASE ~(failing /\ pc \in Ends) /\ Then[pc] # "end"
  <2>1. Then[pc] \in CaptureSteps
    BY <1>1, <1>8, Places DEF Then
  <2>2. LoopsOn(pc) => Loops[pc] \in CaptureSteps
    BY Places DEF LoopsOn, Loops
  <2>3. CASE LoopsOn(pc)
    <3>1. Proceed(Loops[pc], round + 1, saved')
      BY <1>8, <2>3 DEF CaptureStep
    <3> QED
      BY <1>5, <2>2, <2>3, <3>1
  <2>4. CASE ~LoopsOn(pc)
    <3>1. Proceed(Then[pc], IF pc \in DOMAIN Loops THEN 0 ELSE round, saved')
      BY <1>8, <2>4 DEF CaptureStep
    <3> QED
      BY <1>5, <2>1, <3>1
  <2> QED
    BY <2>3, <2>4
<1> QED
  BY <1>6, <1>7, <1>8

(* An exception enters a finally clause, or leaves the capture. *)
LEMMA RaiseStep ==
  ASSUME IInv, CaptureMisfit \/ CaptureLate
  PROVE  IInv'
<1>1. /\ pc \in CaptureSteps /\ ~gone /\ Raise
      /\ WellFormed(requests) /\ WellFormed(replies)
  BY DEF CaptureMisfit, CaptureLate, IInv, EndedInv
<1>2. WellFormed(Overdue) /\ WellFormed(Belated)
  BY <1>1, OverdueFormed
<1>3. WellFormed(replies')
  BY <1>1, <1>2, TailFormed DEF CaptureMisfit, CaptureLate, Read
<1>4. UNCHANGED <<stub, tool, armed, trace, sessions, foreign>>
  BY <1>1 DEF Raise, locals, history
<1>5. CASE pc \in DOMAIN OnRaise
  <2>1. OnRaise[pc] \in CaptureSteps
    BY <1>5, Places DEF OnRaise
  <2>2. pc' = OnRaise[pc] /\ failing' /\ UNCHANGED result
    BY <1>1, <1>5 DEF Raise
  <2>3. \/ requests' = requests \o Command(OnRaise[pc], 0, saved)
        \/ requests' = Overdue \o Command(OnRaise[pc], 0, saved)
    BY <1>5 DEF CaptureMisfit, CaptureLate, Read, RaiseReqs
  <2>4. WellFormed(requests')
    BY <1>1, <1>2, <2>1, <2>3, CommandFormed
  <2> QED
    BY <1>1, <1>3, <1>4, <2>1, <2>2, <2>4, CaptureGoesOn
<1>6. CASE pc \notin DOMAIN OnRaise
  <2>1. FailPc /\ RaiseReqs = Ask("D")
    BY <1>1, <1>6 DEF Raise, RaiseReqs
  <2>2. pc \notin Apart
    BY <1>1, Places
  <2>3. CASE CaptureMisfit
    BY <1>1, <1>4, <2>1, <2>2, <2>3, GivesUp DEF CaptureMisfit, FailPc
  <2>4. CASE CaptureLate
    BY <1>1, <1>4, <2>1, <2>2, <2>4, GivesUpLate DEF CaptureLate, FailPc
  <2> QED
    BY <2>3, <2>4
<1> QED
  BY <1>5, <1>6

LEMMA CaptureClientStep ==
  ASSUME IInv, GraphicsMode \/ CaptureBegins \/ CaptureRefused
  PROVE  IInv'
<1>1. CASE GraphicsMode
  <2>1. ~gone /\ ~foreign /\ Still /\ requests = <<>> /\ Single({"hex", "err"}, "m")
    BY <1>1, Answered, Places DEF GraphicsMode, At, Apart, Waiting
  <2>2. ~foreign'
    BY <1>1, <2>1 DEF GraphicsMode, Use, Single
  <2> QED
    BY <1>1, <2>1, <2>2, NextStep DEF GraphicsMode, At, Apart, Single, Use, locals
<1>2. CASE CaptureBegins
  <2>1. ~gone /\ ~foreign /\ Still /\ requests = <<>> /\ Single({"hex", "err"}, "m")
    BY <1>2, Answered, Places DEF CaptureBegins, At, Apart, Waiting
  <2>2. ~foreign' /\ pc = "mode12" /\ UNCHANGED <<stub, tool, sessions, armed, trace, failing, saved, result>>
    BY <1>2, <2>1 DEF CaptureBegins, Use, Single, At, locals, Proceed
  <2>3. pc' = "index" /\ Read(Command("index", 0, Unread)) /\ round' = 0
    BY <1>2 DEF CaptureBegins, Proceed
  <2>4. Command("index", 0, Unread) = <<Request("ib", <<"graphicsIndex", 0>>)>>
    BY DEF Command, Ib
  <2>5. Command("index", 0, saved) = <<Request("ib", <<"graphicsIndex", 0>>)>>
    BY DEF Command, Ib
  <2>6. requests' = Command("index", 0, saved) /\ replies' = <<>>
    BY <2>1, <2>3, <2>4, <2>5, TakesOne DEF Single
  <2>7. WellFormed(requests') /\ WellFormed(replies')
    BY <2>5, <2>6, Tuples
  <2>8. Captures'
    BY <2>1, <2>2, <2>3, <2>6 DEF Captures, Still, stub
  <2> QED
    BY <2>1, <2>2, <2>3, <2>7, <2>8, CaptureGoesOn, Places
<1>3. CASE CaptureRefused
  <2>1. /\ gone /\ pc' = "idle" /\ result' = "error" /\ gone' /\ pc \in CaptureSteps
        /\ UNCHANGED <<stub, channel, tool, armed, trace, sessions, foreign>>
    BY <1>3 DEF CaptureRefused, stub, locals, history
  <2>2. WellFormed(requests)' /\ WellFormed(replies)' /\ EndedInv' /\ ChannelInv' /\ ReleaseInv'
    BY <2>1 DEF IInv, EndedInv, ChannelInv, ReleaseInv, stub, channel
  <2>3. ToolInv' /\ ResultInv' /\ BreakpointInv'
    BY <2>1, Places DEF IInv, ToolInv, ResultInv, BreakpointInv, Over, stub, Apart
  <2> QED
    BY <2>1, <2>2, <2>3 DEF IInv, Apart
<1> QED
  BY <1>1, <1>2, <1>3

-----------------------------------------------------------------------------
(* The stub. *)
ClientSame == UNCHANGED <<clientSide, round, saved, failing>>

LEMMA SendFormed ==
  ASSUME WellFormed(replies), NEW p
  PROVE  /\ WellFormed(replies \o <<p>>) /\ replies \o <<p>> # <<>> /\ replies \o <<>> = replies
         /\ replies = <<>> => replies \o <<p>> = <<p>>
         /\ replies # <<>> => Head(replies \o <<p>>) = Reply
         /\ Len(replies \o <<p>>) = Len(replies) + 1
         /\ (replies \o <<p>>)[Len(replies) + 1] = p
         /\ \A i \in 1 .. Len(replies) : (replies \o <<p>>)[i] = replies[i]
<1> DEFINE S   == Elements(replies) \union {p}
           all == replies \o <<p>>
<1>1. replies \in Seq(S) /\ <<p>> \in Seq(S) /\ Len(<<p>>) = 1 /\ <<p>>[1] = p /\ Len(replies) \in Nat
  BY FormedIsSeq DEF WellFormed
<1>2. replies \o <<>> = replies
  BY <1>1, ConcatEmptySeq
<1>3. WellFormed(all) /\ \A i \in 1 .. Len(replies) : all[i] = replies[i]
  BY Tuples, ConcatFormed
<1>4. Len(all) = Len(replies) + 1 /\ all[Len(replies) + 1] = p
  <2> DEFINE one == <<p>>
  <2>1. one \in Seq(S) /\ Len(one) = 1 /\ one[1] = p
    BY <1>1
  <2> HIDE DEF one
  <2>2. Len(replies \o one) = Len(replies) + Len(one)
    BY <1>1, <2>1, ConcatProperties
  <2>3. \A i \in 1 .. Len(replies) + Len(one) :
           (replies \o one)[i] = IF i <= Len(replies) THEN replies[i] ELSE one[i - Len(replies)]
    BY <1>1, <2>1, ConcatProperties
  <2>4. Len(replies \o one) = Len(replies) + 1 /\ (replies \o one)[Len(replies) + 1] = p
    BY <1>1, <2>1, <2>2, <2>3
  <2> QED
    BY <2>4 DEF one
<1> HIDE DEF all
<1>5. all # <<>> /\ Head(all) = all[1]
  <2>1. Len(<<>>) = 0
    OBVIOUS
  <2>2. all # <<>>
    BY <1>1, <1>4, <2>1
  <2> QED
    BY <1>3, <2>2, TailFormed
<1>6. replies # <<>> => Head(all) = Reply
  BY <1>1, <1>3, <1>5, TailFormed DEF Reply
<1>7. replies = <<>> => replies \o <<p>> = <<p>>
  BY Tuples
<1> QED
  BY <1>2, <1>3, <1>4, <1>5, <1>6, <1>7 DEF all

(* A request is taken: the last one stays the last, D or no D. *)
LEMMA Taken ==
  ASSUME WellFormed(requests), requests # <<>>, requests' = Tail(requests)
  PROVE  /\ WellFormed(requests') /\ Head(requests) = requests[1]
         /\ requests' = <<>> => requests[Len(requests)] = Head(requests)
         /\ requests' # <<>> => requests[Len(requests)]' = requests[Len(requests)]
         /\ \A i \in 1 .. Len(requests) - 1 : requests'[i] = requests[i + 1]
         /\ Len(requests') = Len(requests) - 1 /\ Len(requests) \in Nat \ {0}
<1> DEFINE rest == Tail(requests)
<1>1. /\ WellFormed(rest) /\ Head(requests) = requests[1] /\ Len(requests) \in Nat \ {0}
      /\ Len(rest) = Len(requests) - 1
      /\ \A i \in 1 .. Len(requests) - 1 : rest[i] = requests[i + 1]
  BY TailFormed DEF WellFormed
<1>2. requests' = rest
  OBVIOUS
<1> HIDE DEF rest
<1>3. rest = <<>> => Len(requests) = 1
  BY <1>1
<1>4. rest # <<>> => rest[Len(rest)] = requests[Len(requests)]
  <2> SUFFICES ASSUME rest # <<>> PROVE rest[Len(rest)] = requests[Len(requests)]
    OBVIOUS
  <2>1. Len(rest) > 0
    BY <1>1, TailFormed
  <2> QED
    BY <1>1, <2>1
<1> QED
  BY <1>1, <1>2, <1>3, <1>4

LEMMA StubKeeps ==
  ASSUME IInv, requests # <<>>, requests' = Tail(requests), ClientSame, UNCHANGED gone,
         WellFormed(replies'), stops' = stops,
         Head(requests).op = "D" => running' /\ ~owed',
         pc \in Apart => owed' \in {owed, FALSE},
         ChannelInv', BreakpointInv'
  PROVE  IInv'
<1>1. ~gone /\ WellFormed(requests)
  BY DEF IInv, EndedInv
<1>2. WellFormed(requests')
  BY <1>1, Taken
<1>3. ReleaseInv'
  <2> SUFFICES ASSUME pc \in Apart \union {"detaching"}, ~gone
               PROVE  \/ requests' # <<>> /\ requests[Len(requests)]'.op = "D"
                      \/ Released'
                      \/ cut' /\ ~owed' /\ pc' \in Apart
    BY DEF ReleaseInv, ClientSame, clientSide
  <2>1. UNCHANGED <<pc, cut>>
    BY DEF ClientSame, clientSide, history
  <2>2. requests[Len(requests)].op = "D" \/ (cut /\ ~owed /\ pc \in Apart)
    BY DEF IInv, ReleaseInv, Released
  <2>3. CASE requests[Len(requests)].op = "D"
    BY <1>1, <2>3, Taken DEF Released
  <2>4. CASE cut /\ ~owed /\ pc \in Apart
    BY <2>1, <2>4
  <2> QED
    BY <2>2, <2>3, <2>4
<1>4. ToolInv' /\ ResultInv' /\ UNCHANGED pc
  <2>1. UNCHANGED <<pc, tool, armed, trace, sessions, result, foreign, failing>>
    BY DEF ClientSame, clientSide, locals, history
  <2>2. ToolInv'
    BY <2>1 DEF IInv, ToolInv
  <2>3. foreign => IF pc \in Over THEN result = "error" ELSE pc \in CaptureSteps /\ failing
    BY DEF IInv, ResultInv
  <2> QED
    BY <2>1, <2>2, <2>3 DEF IInv, ResultInv
<1> QED
  BY <1>1, <1>2, <1>3, <1>4 DEF IInv, EndedInv

LEMMA AwaitsAnswered ==
  ASSUME NEW op, NEW arg, NEW kinds, Awaits(op, arg, kinds), requests # <<>>,
         requests' = Tail(requests)
  PROVE  /\ replies = <<>> /\ requests' = <<>> /\ Head(requests) = Request(op, arg)
         /\ Head(requests).op = op /\ ~Head(requests).late
BY Tuples, FieldsOf DEF Awaits

(* A command is answered; what the answer may be. *)
Answers(p) ==
  /\ p.for = Head(requests).op /\ p.late = Head(requests).late
  /\ p.for \in {"?", "m", "M", "ib", "ob"}
  /\ p.for = "?" => p.kind = "stop"
  /\ p.for = "m" => p.kind \in {"hex", "err"}
  /\ p.for = "M" => p.kind \in {"ok", "err"}

LEMMA ConsoleAnswers ==
  ASSUME Consoles, WellFormed(requests), WellFormed(replies), requests # <<>>,
         requests' = Tail(requests), NEW p, Answers(p) \/ p = StopFor(p.val),
         replies' \in {replies, replies \o <<p>>}
  PROVE  Consoles'
<1>1. /\ WellFormed(requests') /\ Len(requests') = Len(requests) - 1 /\ Len(requests) \in Nat \ {0}
      /\ \A i \in 1 .. Len(requests) - 1 : requests'[i] = requests[i + 1]
      /\ Head(requests) = requests[1]
  BY Taken
<1>2. DOMAIN requests = 1 .. Len(requests) /\ DOMAIN requests' = 1 .. Len(requests')
  BY <1>1, FormedIsSeq
<1>3. ASSUME NEW n \in DOMAIN requests'
      PROVE  requests'[n].op \in {"c", "m", "M"} /\ ~requests'[n].late
  <2>1. n + 1 \in DOMAIN requests /\ requests'[n] = requests[n + 1]
    BY <1>1, <1>2, <1>3
  <2> QED
    BY <2>1 DEF Consoles
<1>4. requests[1].op \in {"c", "m", "M"} /\ ~requests[1].late
  BY <1>1, <1>2 DEF Consoles
<1>5. ~p.late /\ (p.kind = "hex" => p.for = "m") /\ (p.kind = "ok" => p.for = "M")
  BY <1>1, <1>4 DEF Answers, StopFor
<1>6. ASSUME NEW n \in DOMAIN replies'
      PROVE  /\ ~replies'[n].late
             /\ replies'[n].kind = "hex" => replies'[n].for = "m"
             /\ replies'[n].kind = "ok" => replies'[n].for = "M"
  <2>1. DOMAIN replies = 1 .. Len(replies) /\ Len(replies) \in Nat
    BY FormedIsSeq DEF WellFormed
  <2>2. CASE replies' = replies
    BY <1>6, <2>2 DEF Consoles
  <2>3. CASE replies' = replies \o <<p>>
    <3>1. DOMAIN replies' = 1 .. Len(replies) + 1
      BY <2>3, SendFormed, FormedIsSeq
    <3>2. n \in DOMAIN replies \/ n = Len(replies) + 1
      BY <1>6, <2>1, <3>1
    <3>3. replies'[n] = p \/ (n \in DOMAIN replies /\ replies'[n] = replies[n])
      BY <2>1, <2>3, <3>2, SendFormed
    <3> QED
      BY <1>5, <3>3 DEF Consoles
  <2> QED
    BY <2>2, <2>3
<1> QED
  BY <1>3, <1>6 DEF Consoles

LEMMA AnswerStep ==
  ASSUME IInv, requests # <<>>, requests' = Tail(requests), NEW p, Answers(p), Send(<<p>>),
         UNCHANGED stub, ClientSame
  PROVE  IInv'
<1>1. ~gone /\ WellFormed(requests) /\ WellFormed(replies)
  BY DEF IInv, EndedInv
<1>2. /\ UNCHANGED <<running, owed, bps, stops, gone, pc, tool, armed, trace, round, saved, failing>>
      /\ ~gone'
  BY <1>1 DEF stub, ClientSame, clientSide, locals
<1>3. replies' = IF pc \in Apart THEN replies ELSE replies \o <<p>>
  BY DEF Send
<1>4. WellFormed(replies')
  BY <1>1, <1>3, SendFormed
<1>5. ASSUME NEW op, NEW arg, NEW kinds, Awaits(op, arg, kinds), pc \notin Apart
      PROVE  requests' = <<>> /\ replies' = <<p>> /\ replies' # <<>> /\ p = Reply' /\ p.for = op /\ ~p.late
  <2>1. replies = <<>> /\ requests' = <<>> /\ p.for = op /\ ~p.late
    BY <1>5, AwaitsAnswered DEF Answers
  <2> QED
    BY <1>1, <1>3, <1>5, <2>1, SendFormed, Tuples DEF Reply
<1>6. ChannelInv /\ pc \in Apart \union Waiting \union CaptureSteps \union {"pausing"}
  BY DEF IInv
<1>7. pc = "breaking" => Breaking'
  <2> SUFFICES ASSUME pc = "breaking" PROVE Breaking'
    OBVIOUS
  <2>1. ~owed /\ Awaits("?", None, {"stop"}) /\ ~running
    BY <1>1, <1>6, Tuples, FieldsOf DEF ChannelInv, Breaking, Answers, Ask
  <2> QED
    BY <1>2, <1>5, <2>1 DEF Breaking, Awaits, Single, Answers, Apart
<1>8. pc \in {"state", "cells", "mode12", "stack"} => Still' /\ Awaits("m", None, {"hex", "err"})'
  BY <1>1, <1>2, <1>5, <1>6 DEF ChannelInv, Still, Awaits, Single, Answers, Apart
<1>9. pc = "inject" => Injecting'
  <2> SUFFICES ASSUME pc = "inject" PROVE Injecting'
    OBVIOUS
  <2>1. Still /\ Awaits("m", None, {"hex", "err"})
    BY <1>1, <1>6, Tuples, FieldsOf DEF ChannelInv, Injecting, Answers, Ask
  <2> QED
    BY <1>2, <1>5, <2>1 DEF Injecting, Still, Awaits, Single, Answers, Apart
<1>10. pc = "store" => Still' /\ Awaits("M", None, {"ok", "err"})'
  BY <1>1, <1>2, <1>5, <1>6 DEF ChannelInv, Still, Awaits, Single, Answers, Apart
<1>11. pc \notin {"arming", "rearming", "clearing"}
  BY <1>1, <1>5, <1>6 DEF ChannelInv, Answers, Apart
<1>12. pc \notin {"pausing", "interrupting"}
  BY <1>1, <1>6, Tuples, FieldsOf DEF ChannelInv, Pausing, Interrupting, Answers, Ask
<1>13. pc = "tracing" => TraceRuns'
  <2> SUFFICES ASSUME pc = "tracing" PROVE TraceRuns'
    OBVIOUS
  <2>1. requests = LateRead \o Ask("c") /\ replies = <<>> /\ ~owed
    BY <1>1, <1>6, Tuples, FieldsOf DEF ChannelInv, TraceRuns, Answers, Ask
  <2>2. Head(requests).op = "m" /\ requests' = Ask("c")
    BY <2>1, LateFirst
  <2>3. replies' = <<p>> /\ replies' # <<>> /\ Reply' = p
    BY <1>1, <1>3, <2>1, SendFormed, Tuples DEF Reply, Apart
  <2> QED
    BY <1>2, <2>1, <2>2, <2>3 DEF TraceRuns, Unfit, Answers
<1>14. pc \in {"frame", "frameCells", "feed"} => Consoles'
  BY <1>1, <1>3, <1>6, ConsoleAnswers DEF ChannelInv, Apart
<1>15. pc \in CaptureSteps /\ ~failing => Captures'
  <2> SUFFICES ASSUME pc \in CaptureSteps, ~failing PROVE Captures'
    OBVIOUS
  <2>1. Still /\ requests = Command(pc, round, saved) /\ replies = <<>> /\ pc \notin Apart
    BY <1>1, <1>6, Places DEF ChannelInv, Captures
  <2>2. PICK op, arg : op \in {"ib", "ob", "m"} /\ Command(pc, round, saved) = <<Request(op, arg)>>
    BY CommandShape
  <2>3. Head(requests) = Request(op, arg) /\ requests' = <<>> /\ Asked(pc) = op
    BY <2>1, <2>2, Tuples, FieldsOf DEF Asked
  <2>4. replies' = <<p>> /\ replies' # <<>> /\ Reply' = p
    BY <1>1, <1>3, <2>1, SendFormed, Tuples DEF Reply
  <2>5. p.for = op /\ ~p.late
    BY <2>3, FieldsOf DEF Answers
  <2>6. Asked(pc)' = Asked(pc)
    BY <1>2 DEF Asked
  <2> QED
    BY <1>2, <2>1, <2>3, <2>4, <2>5, <2>6 DEF Captures, Still
<1>16. pc \in Apart => replies' = <<>>
  BY <1>1, <1>3, <1>6 DEF ChannelInv
<1>17. ChannelInv'
  BY <1>2, <1>7, <1>8, <1>9, <1>10, <1>11, <1>12, <1>13, <1>14, <1>15, <1>16 DEF ChannelInv
<1>18. BreakpointInv'
  BY <1>2, <1>11 DEF IInv, BreakpointInv
<1> QED
  BY <1>1, <1>2, <1>4, <1>17, <1>18, StubKeeps DEF Answers, ClientSame

(* Which request may be next at each place. *)
LEMMA HeadOps ==
  ASSUME IInv, requests # <<>>, NEW op, Head(requests).op = op
  PROVE  /\ ~gone
         /\ pc = "breaking" => op \in {"03", "?"}
         /\ pc \in {"state", "cells", "mode12", "stack"} => op = "m"
         /\ pc = "inject" => op \in {"03", "m"}
         /\ pc = "store" => op = "M"
         /\ pc \in {"arming", "rearming"} => op = "Z1"
         /\ pc = "clearing" => op = "z1"
         /\ pc = "pausing" => op = "c"
         /\ pc = "interrupting" => op \in {"c", "03"}
         /\ pc = "tracing" => op \in {"m", "c"}
         /\ pc \in {"frame", "frameCells", "feed"} => op \in {"c", "m", "M"}
         /\ pc \in CaptureSteps /\ ~failing => op \in {"ib", "ob", "m"}
<1>1. ~gone /\ ChannelInv /\ WellFormed(requests)
  BY DEF IInv, EndedInv
<1>2. \A n, arg, kinds : Awaits(n, arg, kinds) => op = n
  BY Tuples, FieldsOf DEF Awaits
<1>3. \A n, rest : (requests = Ask(n) \/ requests = Ask(n) \o Ask(rest)) => op = n
  BY Tuples, FieldsOf DEF Ask
<1>4. requests = LateRead \o Ask("c") => op = "m"
  BY LateFirst
<1>5. pc = "breaking" => op \in {"03", "?"}
  BY <1>1, <1>2, <1>3 DEF ChannelInv, Breaking
<1>6. pc = "inject" => op \in {"03", "m"}
  BY <1>1, <1>2, <1>3 DEF ChannelInv, Injecting
<1>7. (pc = "pausing" => op = "c") /\ (pc = "interrupting" => op \in {"c", "03"})
  BY <1>1, <1>3 DEF ChannelInv, Pausing, Interrupting
<1>8. pc = "tracing" => op \in {"m", "c"}
  BY <1>1, <1>3, <1>4 DEF ChannelInv, TraceRuns
<1>9. pc \in {"frame", "frameCells", "feed"} => op \in {"c", "m", "M"}
  BY <1>1, TailFormed, FormedIsSeq DEF ChannelInv, Consoles, WellFormed
<1>10. pc \in CaptureSteps /\ ~failing => op \in {"ib", "ob", "m"}
  BY <1>1, CommandShape, Tuples, FieldsOf DEF ChannelInv, Captures
<1> QED
  BY <1>1, <1>2, <1>5, <1>6, <1>7, <1>8, <1>9, <1>10 DEF ChannelInv

LEMMA AnsweringStep ==
  ASSUME IInv, ClientSame,
         TellStop \/ ReadMemory \/ WriteMemory \/ PortRead \/ PortWrite \/ PlaneRead \/ Rejects
  PROVE  IInv'
<1>1. ASSUME requests # <<>>, requests' = Tail(requests), NEW kind, NEW val, UNCHANGED stub,
             Send(<<Packet(kind, Head(requests), val)>>),
             Head(requests).op \in {"?", "m", "M", "ib", "ob"},
             Head(requests).op = "?" => kind = "stop",
             Head(requests).op = "m" => kind \in {"hex", "err"},
             Head(requests).op = "M" => kind \in {"ok", "err"}
      PROVE  IInv'
  <2> DEFINE p == Packet(kind, Head(requests), val)
  <2>1. Answers(p)
    BY <1>1 DEF Answers, Packet
  <2> HIDE DEF p
  <2> QED
    BY <1>1, <2>1, AnswerStep DEF p
<1>2. CASE TellStop
  BY <1>1, <1>2 DEF TellStop, Process
<1>3. CASE ReadMemory
  BY <1>1, <1>3 DEF ReadMemory, Process
<1>4. CASE WriteMemory
  BY <1>1, <1>4 DEF WriteMemory, Process
<1>5. CASE PortRead
  BY <1>1, <1>5 DEF PortRead, Process, Answer
<1>6. CASE PortWrite
  BY <1>1, <1>6 DEF PortWrite, Process, Answer
<1>7. CASE PlaneRead
  BY <1>1, <1>7 DEF PlaneRead, Process, Answer
<1>8. CASE Rejects
  BY <1>1, <1>8 DEF Rejects, Answer
<1> QED
  BY <1>2, <1>3, <1>4, <1>5, <1>6, <1>7, <1>8

(* A step of the stub that no invariant but these speaks about. *)
LEMMA NothingToSay ==
  ASSUME IInv, pc \notin {"breaking", "state", "cells", "mode12", "stack", "inject", "store", "arming",
                         "rearming", "clearing", "pausing", "interrupting", "tracing", "frame",
                         "frameCells", "feed"},
         pc \in CaptureSteps => failing,
         ~gone, ClientSame, pc \in Apart => replies' = replies
  PROVE  ChannelInv' /\ BreakpointInv'
<1>1. UNCHANGED <<pc, failing, armed, trace>>
  BY DEF ClientSame, clientSide, locals
<1> QED
  BY <1>1 DEF IInv, ChannelInv, BreakpointInv

LEMMA LetGoStep ==
  ASSUME IInv, LetGo, ClientSame
  PROVE  IInv'
<1>1. /\ requests # <<>> /\ Head(requests).op = "D" /\ requests' = Tail(requests)
      /\ running' = TRUE /\ owed' = FALSE /\ UNCHANGED <<gone, stops>>
  BY DEF LetGo, Process
<1>2. replies' = replies \/ \E p : replies' = replies \o <<p>>
  BY DEF LetGo, Send
<1>3. WellFormed(replies')
  BY <1>2, SendFormed DEF IInv
<1>4. ChannelInv' /\ BreakpointInv'
  BY <1>1, HeadOps, NothingToSay DEF LetGo, Send
<1> QED
  BY <1>1, <1>3, <1>4, StubKeeps

LEMMA BreakInStep ==
  ASSUME IInv, BreakIn, ClientSame
  PROVE  IInv'
<1>1. /\ requests # <<>> /\ Head(requests).op = "03" /\ requests' = Tail(requests)
      /\ running' = FALSE /\ owed' = FALSE /\ UNCHANGED <<gone, stops, bps>>
  BY DEF BreakIn, Process, Halt
<1>2. UNCHANGED <<pc, failing, armed, trace, round, saved>> /\ ~gone /\ ~gone'
  BY <1>1 DEF ClientSame, clientSide, locals, IInv, EndedInv
<1>3. replies' = IF pc \in Apart THEN replies
                 ELSE IF owed THEN replies \o <<StopFor(None)>> ELSE replies
  <2>1. WellFormed(replies)
    BY DEF IInv
  <2>2. replies \o <<>> = replies
    BY <2>1, SendFormed
  <2> QED
    BY <2>2 DEF BreakIn, Halt, Send
<1>4. WellFormed(replies')
  BY <1>3, SendFormed DEF IInv
<1>5. ChannelInv' /\ BreakpointInv'
  <2>1. CASE pc = "breaking"
    <3>1. ~owed /\ requests = <<Request("03", None), Request("?", None)>> /\ replies = <<>>
      BY <1>1, <1>2, <2>1, Tuples, FieldsOf DEF IInv, ChannelInv, Breaking, Awaits, Ask
    <3>2. requests' = <<Request("?", None)>> /\ replies' = <<>>
      BY <1>1, <1>3, <3>1, Tuples
    <3>3. Breaking'
      BY <1>1, <3>2 DEF Breaking, Awaits
    <3> QED
      BY <1>2, <2>1, <3>3, Places DEF ChannelInv, BreakpointInv, Apart, Waiting
  <2>2. CASE pc = "inject"
    <3>1. Still /\ requests = <<Request("03", None), Request("m", None)>> /\ replies = <<>>
      BY <1>1, <1>2, <2>2, Tuples, FieldsOf DEF IInv, ChannelInv, Injecting, Awaits, Ask
    <3>2. requests' = <<Request("m", None)>> /\ replies' = <<>>
      BY <1>1, <1>3, <3>1, Tuples DEF Still
    <3>3. Injecting'
      BY <1>1, <3>2 DEF Injecting, Awaits, Still
    <3> QED
      BY <1>2, <2>2, <3>3, Places DEF ChannelInv, BreakpointInv, Apart, Waiting
  <2>3. CASE pc = "interrupting"
    <3>1. /\ requests = <<Request("03", None)>>
          /\ \/ replies = <<>> /\ owed
             \/ replies # <<>> /\ replies = <<Reply>> /\ Still
      BY <1>1, <1>2, <2>3, Tuples, FieldsOf DEF IInv, ChannelInv, Interrupting, Ask
    <3>2. requests' = <<>>
      BY <1>1, <3>1, Tuples
    <3>3. replies' # <<>> /\ replies' = <<Reply>>'
      <4>1. CASE replies = <<>> /\ owed
        <5>1. replies' = <<StopFor(None)>>
          BY <1>3, <2>3, <4>1, Tuples DEF Apart
        <5> QED
          BY <5>1, Tuples DEF Reply
      <4>2. CASE replies # <<>> /\ replies = <<Reply>> /\ Still
        BY <1>3, <4>2 DEF Still, Reply
      <4> QED
        BY <3>1, <4>1, <4>2
    <3>4. Interrupting'
      BY <1>1, <3>2, <3>3 DEF Interrupting, Still
    <3> QED
      BY <1>2, <2>3, <3>4, Places DEF ChannelInv, BreakpointInv, Apart, Waiting
  <2>4. CASE pc \notin {"breaking", "inject", "interrupting"}
    BY <1>1, <1>2, <1>3, <2>4, HeadOps, NothingToSay
  <2> QED
    BY <2>1, <2>2, <2>3, <2>4
<1> QED
  BY <1>1, <1>4, <1>5, StubKeeps

LEMMA ContinueStep ==
  ASSUME IInv, Continue, ClientSame
  PROVE  IInv'
<1>1. /\ requests # <<>> /\ Head(requests).op = "c" /\ requests' = Tail(requests)
      /\ running' = TRUE /\ owed' = (pc \notin Apart) /\ UNCHANGED <<gone, stops, bps, replies>>
  BY DEF Continue, Process
<1>2. UNCHANGED <<pc, failing, armed, trace, round, saved>> /\ ~gone /\ ~gone'
  BY <1>1 DEF ClientSame, clientSide, locals, IInv, EndedInv
<1>3. WellFormed(replies') /\ WellFormed(requests) /\ WellFormed(replies)
  BY <1>1 DEF IInv
<1>4. ChannelInv' /\ BreakpointInv'
  <2>1. CASE pc = "pausing"
    <3>1. requests = <<Request("c", None)>> /\ replies = <<>>
      BY <1>1, <1>2, <2>1 DEF IInv, ChannelInv, Pausing, Ask
    <3>2. requests' = <<>>
      BY <1>1, <3>1, Tuples
    <3>3. Pausing'
      BY <1>1, <2>1, <3>1, <3>2 DEF Pausing, Apart
    <3> QED
      BY <1>2, <2>1, <3>3, Places DEF ChannelInv, BreakpointInv, Apart, Waiting
  <2>2. CASE pc = "interrupting"
    <3>1. requests = <<Request("c", None), Request("03", None)>> /\ replies = <<>>
      BY <1>1, <1>2, <2>2, Tuples, FieldsOf DEF IInv, ChannelInv, Interrupting, Ask
    <3>2. requests' = <<Request("03", None)>>
      BY <1>1, <3>1, Tuples
    <3>3. Interrupting'
      BY <1>1, <2>2, <3>1, <3>2 DEF Interrupting, Ask, Apart
    <3> QED
      BY <1>2, <2>2, <3>3, Places DEF ChannelInv, BreakpointInv, Apart, Waiting
  <2>3. CASE pc = "tracing"
    <3>1. requests = <<Request("c", None)>> /\ (replies = <<>> \/ Unfit)
      <4>1. requests # LateRead \o Ask("c")
        BY <1>1, LateFirst
      <4> QED
        BY <1>1, <1>2, <2>3, <4>1 DEF IInv, ChannelInv, TraceRuns, Ask
    <3>2. requests' = <<>>
      BY <1>1, <3>1, Tuples
    <3>3. TraceRuns'
      BY <1>1, <2>3, <3>1, <3>2 DEF TraceRuns, Unfit, Reply, Apart
    <3>4. BreakpointInv'
      BY <1>1, <1>2, <2>3 DEF IInv, BreakpointInv
    <3> QED
      BY <1>2, <2>3, <3>3, <3>4, Places DEF ChannelInv, Apart, Waiting
  <2>4. CASE pc \in {"frame", "frameCells", "feed"}
    <3>1. Consoles
      BY <1>2, <2>4 DEF IInv, ChannelInv
    <3>2. PICK p : p = StopFor(None)
      OBVIOUS
    <3>3. p = StopFor(p.val)
      BY <3>2 DEF StopFor
    <3>4. Consoles'
      BY <1>1, <1>3, <3>1, <3>3, ConsoleAnswers
    <3> QED
      BY <1>2, <2>4, <3>4, Places DEF ChannelInv, BreakpointInv, Apart, Waiting
  <2>5. CASE pc \notin {"pausing", "interrupting", "tracing", "frame", "frameCells", "feed"}
    BY <1>1, <1>2, <2>5, HeadOps, NothingToSay
  <2> QED
    BY <2>1, <2>2, <2>3, <2>4, <2>5
<1> QED
  BY <1>1, <1>3, <1>4, StubKeeps

LEMMA SetBreakpointStep ==
  ASSUME IInv, SetBreakpoint, ClientSame
  PROVE  IInv'
<1> DEFINE a == Head(requests).arg
           p == Packet(IF a \in bps THEN "err" ELSE "ok", Head(requests), None)
<1>1. /\ requests # <<>> /\ Head(requests).op = "Z1" /\ requests' = Tail(requests)
      /\ bps' = bps \union {a} /\ UNCHANGED <<gone, stops, running, owed>>
  BY DEF SetBreakpoint, Process
<1>2. UNCHANGED <<pc, failing, armed, trace, round, saved>> /\ ~gone /\ ~gone'
  BY <1>1 DEF ClientSame, clientSide, locals, IInv, EndedInv
<1>3. replies' = IF pc \in Apart THEN replies ELSE replies \o <<p>>
  BY DEF SetBreakpoint, Send
<1>4. p.for = Head(requests).op /\ p.late = Head(requests).late /\ p.kind = IF a \in bps THEN "err" ELSE "ok"
  BY DEF Packet
<1> HIDE DEF p
<1>5. WellFormed(replies')
  BY <1>3, SendFormed DEF IInv
<1>6. ChannelInv' /\ BreakpointInv'
  <2>1. CASE pc \in {"arming", "rearming"}
    <3>1. Still /\ Awaits("Z1", Current, {"ok", "err"}) /\ BreakpointInv
      BY <1>2, <2>1 DEF IInv, ChannelInv, Current
    <3>2. replies = <<>> /\ requests' = <<>> /\ a = Current /\ p.for = "Z1" /\ ~p.late
      BY <1>1, <1>4, <3>1, AwaitsAnswered, FieldsOf
    <3>3. replies' = <<p>> /\ replies' # <<>> /\ Reply' = p
      BY <1>3, <2>1, <3>2, Tuples DEF Reply, Apart
    <3>4. Current' = Current
      BY <1>2 DEF Current
    <3>5. Single({"ok", "err"}, "Z1")'
      BY <1>4, <3>2, <3>3 DEF Single
    <3>6. ChannelInv'
      BY <1>1, <1>2, <2>1, <3>1, <3>2, <3>5, Places DEF ChannelInv, Still, Awaits, Apart, Waiting
    <3>7. pc = "rearming" => p.kind = "ok"
      BY <1>2, <1>4, <3>1, <3>2 DEF BreakpointInv
    <3>8. Current \in bps' /\ bps \subseteq bps'
      BY <1>1, <3>2
    <3>9. BreakpointInv'
      BY <1>2, <2>1, <3>1, <3>3, <3>4, <3>7, <3>8 DEF BreakpointInv, Is
    <3> QED
      BY <3>6, <3>9
  <2>2. CASE pc \notin {"arming", "rearming"}
    BY <1>1, <1>2, <1>3, <2>2, HeadOps, NothingToSay
  <2> QED
    BY <2>1, <2>2
<1> QED
  BY <1>1, <1>5, <1>6, StubKeeps

LEMMA ClearBreakpointStep ==
  ASSUME IInv, ClearBreakpoint, ClientSame
  PROVE  IInv'
<1> DEFINE a == Head(requests).arg
           p == Packet("ok", Head(requests), None)
<1>1. /\ requests # <<>> /\ Head(requests).op = "z1" /\ requests' = Tail(requests)
      /\ bps' = bps \ {a} /\ UNCHANGED <<gone, stops, running, owed>>
  BY DEF ClearBreakpoint, Process
<1>2. UNCHANGED <<pc, failing, armed, trace, round, saved>> /\ ~gone /\ ~gone'
  BY <1>1 DEF ClientSame, clientSide, locals, IInv, EndedInv
<1>3. replies' = IF pc \in Apart THEN replies ELSE replies \o <<p>>
  BY DEF ClearBreakpoint, Send
<1>4. p.for = Head(requests).op /\ p.late = Head(requests).late /\ p.kind = "ok"
  BY DEF Packet
<1> HIDE DEF p
<1>5. WellFormed(replies')
  BY <1>3, SendFormed DEF IInv
<1>6. ChannelInv' /\ BreakpointInv'
  <2>1. CASE pc = "clearing"
    <3>1. Still /\ Awaits("z1", Current, {"ok"}) /\ BreakpointInv
      BY <1>2, <2>1 DEF IInv, ChannelInv, Current
    <3>2. replies = <<>> /\ requests' = <<>> /\ a = Current /\ p.for = "z1" /\ ~p.late
      BY <1>1, <1>4, <3>1, AwaitsAnswered, FieldsOf
    <3>3. replies' = <<p>> /\ replies' # <<>> /\ Reply' = p
      BY <1>3, <2>1, <3>2, Tuples DEF Reply, Apart
    <3>4. Current' = Current
      BY <1>2 DEF Current
    <3>5. Single({"ok"}, "z1")'
      BY <1>4, <3>2, <3>3 DEF Single
    <3>6. ChannelInv'
      BY <1>1, <1>2, <2>1, <3>1, <3>2, <3>5, Places DEF ChannelInv, Still, Awaits, Apart, Waiting
    <3>7. BreakpointInv'
      BY <1>1, <1>2, <2>1, <3>1, <3>2, <3>4 DEF BreakpointInv
    <3> QED
      BY <3>6, <3>7
  <2>2. CASE pc # "clearing"
    BY <1>1, <1>2, <1>3, <2>2, HeadOps, NothingToSay
  <2> QED
    BY <2>1, <2>2
<1> QED
  BY <1>1, <1>5, <1>6, StubKeeps

(* The guest runs into a breakpoint. *)
LEMMA HitStep ==
  ASSUME IInv, Hit, ClientSame
  PROVE  IInv'
<1>1. PICK a \in bps : Halt(a)
  BY DEF Hit
<1>2. /\ running /\ running' = FALSE /\ owed' = FALSE /\ stops' = stops + 1
      /\ UNCHANGED <<bps, gone, requests>>
  BY <1>1 DEF Hit, Halt
<1>3. UNCHANGED <<pc, tool, failing, armed, trace, round, saved, cut, sessions, result, foreign>>
  BY DEF ClientSame, clientSide, locals, history
<1>4. ~gone /\ ~gone' /\ WellFormed(requests) /\ WellFormed(replies)
  BY <1>2 DEF IInv, EndedInv
<1>5. replies' = IF pc \in Apart THEN replies
                 ELSE IF owed THEN replies \o <<StopFor(a)>> ELSE replies
  BY <1>1, <1>4, SendFormed DEF Halt, Send
<1> DEFINE p == StopFor(a)
<1>6. p.kind = "stop" /\ p.for = "c" /\ ~p.late /\ p = StopFor(p.val)
  BY DEF StopFor
<1> HIDE DEF p
<1>7. WellFormed(replies')
  BY <1>4, <1>5, SendFormed
<1>8. ReleaseInv'
  BY <1>1, <1>2, <1>3 DEF IInv, ReleaseInv, Released, ToolInv
<1>9. ToolInv' /\ ResultInv'
  BY <1>2, <1>3 DEF IInv, ToolInv, ResultInv
<1>10. ChannelInv' /\ BreakpointInv'
  <2>1. CASE pc = "breaking"
    <3>1. Breaking /\ ~owed /\ requests = Ask("03") \o Ask("?") /\ replies = <<>>
      BY <1>2, <1>4, <2>1 DEF IInv, ChannelInv, Breaking
    <3>2. Breaking'
      BY <1>2, <1>5, <3>1 DEF Breaking
    <3> QED
      BY <1>3, <1>4, <2>1, <3>2, Places DEF ChannelInv, BreakpointInv, Apart, Waiting
  <2>2. CASE pc = "pausing"
    <3>1. requests = <<>> /\ replies = <<>> /\ owed
      BY <1>2, <1>4, <2>2 DEF IInv, ChannelInv, Pausing, Still
    <3>2. replies' = <<p>> /\ replies' # <<>> /\ Reply' = p
      BY <1>5, <2>2, <3>1, Tuples DEF p, Apart, Reply
    <3>3. Pausing'
      BY <1>2, <3>1, <3>2 DEF Pausing, Still
    <3> QED
      BY <1>3, <1>4, <2>2, <3>3, Places DEF ChannelInv, BreakpointInv, Apart, Waiting
  <2>3. CASE pc = "interrupting"
    <3>1. requests = Ask("03") /\ replies = <<>> /\ owed
      BY <1>2, <1>4, <2>3 DEF IInv, ChannelInv, Interrupting, Still
    <3>2. replies' = <<p>> /\ replies' # <<>> /\ Reply' = p
      BY <1>5, <2>3, <3>1, Tuples DEF p, Apart, Reply
    <3>3. Interrupting'
      BY <1>2, <3>1, <3>2 DEF Interrupting, Still
    <3> QED
      BY <1>3, <1>4, <2>3, <3>3, Places DEF ChannelInv, BreakpointInv, Apart, Waiting
  <2>4. CASE pc = "tracing"
    <3>1. TraceRuns /\ BreakpointInv
      BY <1>4, <2>4 DEF IInv, ChannelInv
    <3>2. ASSUME owed PROVE TraceRuns'
      <4>1. requests = <<>> /\ (replies = <<>> \/ Unfit)
        BY <1>2, <3>1, <3>2 DEF TraceRuns, Still
      <4>2. replies' = replies \o <<p>>
        BY <1>5, <2>4, <3>2 DEF p, Apart
      <4>3. CASE replies = <<>>
        <5>1. Single({"stop"}, "c")'
          BY <1>6, <4>2, <4>3, Tuples DEF Single, Reply
        <5> QED
          BY <1>2, <4>1, <5>1 DEF TraceRuns, Still
      <4>4. CASE Unfit
        <5>1. replies' # <<>> /\ Reply' = Reply
          BY <1>4, <4>2, <4>4, SendFormed DEF Unfit, Reply
        <5> QED
          BY <1>2, <4>1, <4>4, <5>1 DEF TraceRuns, Still, Unfit
      <4> QED
        BY <4>1, <4>3, <4>4
    <3>3. ASSUME ~owed PROVE TraceRuns'
      BY <1>2, <1>5, <3>1, <3>3 DEF TraceRuns, Still, Unfit, Single, Reply
    <3>4. TraceRuns'
      BY <3>2, <3>3
    <3>5. BreakpointInv'
      BY <1>2, <1>3, <2>4, <3>1 DEF BreakpointInv
    <3> QED
      BY <1>3, <1>4, <2>4, <3>4, <3>5, Places DEF ChannelInv, Apart, Waiting
  <2>5. CASE pc \in {"frame", "frameCells", "feed"}
    <3>1. Consoles
      BY <1>4, <2>5 DEF IInv, ChannelInv
    <3>2. ASSUME replies' = replies PROVE Consoles'
      BY <1>2, <3>1, <3>2 DEF Consoles
    <3>3. ASSUME replies' = replies \o <<p>> PROVE Consoles'
      <4>1. DOMAIN replies' = 1 .. Len(replies) + 1 /\ DOMAIN replies = 1 .. Len(replies)
        BY <1>4, <3>3, SendFormed, FormedIsSeq
      <4>2. Len(replies) \in Nat
        BY <1>4 DEF WellFormed
      <4>3. ASSUME NEW n \in DOMAIN replies'
            PROVE  replies'[n] = p \/ (n \in DOMAIN replies /\ replies'[n] = replies[n])
        <5>1. n \in DOMAIN replies \/ n = Len(replies) + 1
          BY <4>1, <4>2, <4>3
        <5> QED
          BY <1>4, <3>3, <4>1, <5>1, SendFormed
      <4> QED
        BY <1>2, <1>6, <3>1, <4>3 DEF Consoles
    <3>4. Consoles'
      BY <1>5, <3>2, <3>3 DEF p
    <3> QED
      BY <1>3, <1>4, <2>5, <3>4, Places DEF ChannelInv, BreakpointInv, Apart, Waiting
  <2>6. CASE pc \notin {"breaking", "pausing", "interrupting", "tracing", "frame", "frameCells", "feed"}
    <3>1. pc \notin {"state", "cells", "mode12", "stack", "inject", "store", "arming", "rearming", "clearing"}
      BY <1>2, <1>4 DEF IInv, ChannelInv, Injecting, Still
    <3>2. pc \in CaptureSteps => failing
      BY <1>2, <1>4 DEF IInv, ChannelInv, Captures, Still
    <3>3. pc \in Apart => replies' = replies
      BY <1>5
    <3> QED
      BY <1>4, <2>6, <3>1, <3>2, <3>3, NothingToSay
  <2> QED
    BY <2>1, <2>2, <2>3, <2>4, <2>5, <2>6
<1> QED
  BY <1>2, <1>3, <1>4, <1>7, <1>8, <1>9, <1>10 DEF IInv, EndedInv

(* Nothing of the sessions changes, or 86Box ends. *)
LEMMA NoStep ==
  ASSUME IInv,
         UNCHANGED <<running, bps, stops, owed, gone, requests, replies, pc, tool, failing, armed, trace,
                     round, saved, cut, sessions, result, foreign>>
  PROVE  IInv'
<1>1. UNCHANGED <<running, bps, stops, owed, gone, requests, replies, pc, tool, failing, armed, trace,
                  round, saved, cut, sessions, result, foreign>>
  OBVIOUS
<1>2. WellFormed(requests)' /\ WellFormed(replies)' /\ EndedInv' /\ ReleaseInv' /\ ToolInv' /\ ResultInv'
  BY <1>1 DEF IInv, EndedInv, ReleaseInv, Released, ToolInv, ResultInv
<1>3. BreakpointInv'
  BY <1>1 DEF IInv, BreakpointInv, Current, Is, Reply
<1>4. ChannelInv'
  BY <1>1 DEF IInv, ChannelInv, Breaking, Injecting, Pausing, Interrupting, TraceRuns, Consoles, Captures,
              Still, Awaits, Single, Unfit, Reply, Asked
<1> QED
  BY <1>1, <1>2, <1>3, <1>4 DEF IInv

LEMMA DrawStep ==
  ASSUME IInv, Draw, ClientSame
  PROVE  IInv'
BY NoStep DEF Draw, ClientSame, clientSide, locals, history, channel

LEMMA VmEndsStep ==
  ASSUME IInv, VmEnds, ClientSame
  PROVE  IInv'
<1>1. /\ gone' = TRUE /\ running' = FALSE /\ requests' = <<>> /\ replies' = <<>>
      /\ UNCHANGED <<bps, stops, pc, tool, failing, armed, trace, sessions, result, foreign>>
  BY DEF VmEnds, ClientSame, clientSide, locals, history
<1>2. WellFormed(requests)' /\ WellFormed(replies)'
  BY <1>1, Tuples
<1>3. EndedInv' /\ ChannelInv' /\ ReleaseInv'
  BY <1>1 DEF EndedInv, ChannelInv, ReleaseInv
<1>4. ToolInv' /\ ResultInv'
  BY <1>1 DEF IInv, ToolInv, ResultInv
<1>5. BreakpointInv'
  BY <1>1 DEF IInv, BreakpointInv, Current
<1> QED
  BY <1>1, <1>2, <1>3, <1>4, <1>5 DEF IInv

LEMMA IInvInit == Init => IInv
<1> SUFFICES ASSUME Init PROVE IInv
  OBVIOUS
<1>1. /\ requests = <<>> /\ replies = <<>> /\ pc = "idle" /\ sessions = 0 /\ stops = 0 /\ armed = 0
      /\ ~gone /\ ~owed /\ result = "none" /\ foreign = FALSE
      /\ trace = [at |-> <<>>, count |-> 0] /\ tool = (CHOOSE t \in Tools : TRUE)
  BY DEF Init, SessionInit
<1>2. WellFormed(requests) /\ WellFormed(replies)
  BY <1>1, Tuples
<1>3. ChannelInv /\ EndedInv /\ ReleaseInv
  BY <1>1, Places DEF ChannelInv, EndedInv, ReleaseInv, Released, Waiting, Apart
<1>4. ToolInv /\ ResultInv /\ BreakpointInv
  BY <1>1 DEF ToolInv, ResultInv, BreakpointInv, Over
<1> QED
  BY <1>1, <1>2, <1>3, <1>4 DEF IInv, Apart

-----------------------------------------------------------------------------
LEMMA IInvStep == IInv /\ [Next]_vars => IInv'
<1> SUFFICES ASSUME IInv, [Next]_vars PROVE IInv'
  OBVIOUS
<1> USE DEF Rest
<1>1. ASSUME UNCHANGED Rest, UNCHANGED clientSide PROVE ClientSame
  BY <1>1 DEF capture, ClientSame
<1>2. CASE CommandStart
  BY <1>2, StartStep
<1>3. CASE AllClient
  <2>1. CASE Open
    BY <2>1, OpenStep
  <2>2. CASE Client /\ UNCHANGED <<vga, capture>>
    BY <2>2, SnapshotStep, TracingStep, TypingStep, ConsoleStep, CloseStep, WaitStep DEF Client
  <2>3. CASE GraphicsMode \/ CaptureBegins
    BY <2>3, CaptureClientStep
  <2>4. CASE Capturing
    BY <2>4, CaptureStepStep, RaiseStep, CaptureClientStep DEF Capturing
  <2> QED
    BY <1>3, <2>1, <2>2, <2>3, <2>4 DEF AllClient
<1>4. CASE AllStub
  <2>1. CASE Stub /\ UNCHANGED <<vga, capture>>
    <3>1. ClientSame
      BY <1>1, <2>1 DEF Stub, BreakIn, TellStop, ReadMemory, WriteMemory, SetBreakpoint, ClearBreakpoint,
                        Continue, LetGo
    <3> QED
      BY <2>1, <3>1, BreakInStep, AnsweringStep, SetBreakpointStep, ClearBreakpointStep, ContinueStep,
         LetGoStep DEF Stub
  <2>2. CASE Adapter
    <3>1. ClientSame
      BY <2>2 DEF Adapter, PortRead, PortWrite, PlaneRead, Rejects, Answer, ClientSame
    <3> QED
      BY <2>2, <3>1, AnsweringStep DEF Adapter
  <2> QED
    BY <1>4, <2>1, <2>2 DEF AllStub
<1>5. CASE Others
  <2>1. CASE CtrlC /\ UNCHANGED <<vga, capture>>
    BY <2>1, CtrlCStep
  <2>3. CASE CtrlCAgain /\ UNCHANGED <<vga, capture>>
    BY <2>3, CtrlCAgainStep
  <2>2. CASE (Hit \/ Draw \/ VmEnds) /\ UNCHANGED <<vga, capture>>
    <3>1. ClientSame
      BY <1>1, <2>2 DEF Hit, Draw, VmEnds
    <3> QED
      BY <2>2, <3>1, HitStep, DrawStep, VmEndsStep
  <2> QED
    BY <1>5, <2>1, <2>2, <2>3 DEF Others
<1>6. CASE UNCHANGED vars
  <2>1. UNCHANGED <<running, bps, stops, owed, gone, requests, replies, pc, tool, failing, armed, trace,
                    round, saved, cut, sessions, result, foreign>>
    BY <1>6 DEF vars, sessionVars, capture
  <2> QED
    BY <2>1, NoStep
<1> QED
  BY <1>2, <1>3, <1>4, <1>5, <1>6 DEF Next

(* Whatever the screen shows, for every tool and every trace: what a       *)
(* command reports as its result was read by that command while the guest  *)
(* stood still.  RSP.cmd (rsp.py 161-164) takes the next packet for the    *)
(* answer to its command; this is why it may.                              *)
THEOREM ReportsOwnReading == Spec => []SoundReading
<1>1. IInv => SoundReading
  <2> SUFFICES ASSUME IInv PROVE SoundReading
    OBVIOUS
  <2>1. OwnReplies
    BY DEF IInv, ResultInv, OwnReplies, Over
  <2>2. HaltedWhileReading
    BY DEF IInv, ChannelInv, EndedInv, HaltedWhileReading, Still, Injecting
  <2> QED
    BY <2>1, <2>2 DEF SoundReading
<1> QED
  BY <1>1, IInvInit, IInvStep, PTL DEF Spec

(* README 596: the stub "pauses guest while connected".  Every way out of  *)
(* a session ends in D, and D is never overtaken: the guest runs again, or *)
(* stands at a breakpoint.  The one exception is an interrupt that strikes *)
(* in the finally clause before D is sent (cut).                           *)
THEOREM RunsAfterwards == Spec => []PausedOnlyWhileConnected
<1>1. IInv => PausedOnlyWhileConnected
  BY DEF IInv, ReleaseInv, Released, PausedOnlyWhileConnected, Apart
<1> QED
  BY <1>1, IInvInit, IInvStep, PTL DEF Spec

(* README 499-500: trace waits only when every breakpoint of its own is    *)
(* set, whatever breakpoints other sessions have left, and whatever        *)
(* addresses it is given, one twice included.                              *)
THEOREM ArmsAll == Spec => []TraceArmed
<1>1. IInv => TraceArmed
  BY DEF IInv, BreakpointInv, TraceArmed
<1> QED
  BY <1>1, IInvInit, IInvStep, PTL DEF Spec

=============================================================================
