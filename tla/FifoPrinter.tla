----------------------------- MODULE FifoPrinter -----------------------------
(***************************************************************************)
(* fifo_printer.py: a process that reads the bytes a guest prints from one *)
(* FIFO, files them as pages, shows them on a terminal, and acknowledges   *)
(* each byte over a second FIFO.  86Box's end of the two FIFOs is modelled *)
(* from the handshake the printer and lpt-8bit-strobe-mode.md describe.    *)
(***************************************************************************)
EXTENDS Naturals, Sequences, FiniteSets

CONSTANTS
  Letters,        \* the printable bytes
  Absent,         \* what the directory has for a page that does not exist
  Foreign,        \* a page file that some other program made
  RowsPerPage,    \* ROWS_PER_PAGE
  MaxPage,        \* bound: highest page number a file may get
  MaxOpens,       \* bound: times the VM opens its port
  StatusRoom,     \* bound: what the status FIFO holds before a writer blocks
  Eager,          \* TRUE: the guest strobes without waiting for READY
  Setups          \* bounds: see Setup

(* How much disturbance a behaviour may contain: the bytes the guest       *)
(* prints, whether Ctrl-C or a failing write may stop the printer, and the *)
(* page numbers that other programs may take.                              *)
Setup == [bytes : Nat, interrupts : BOOLEAN, others : SUBSET (1 .. MaxPage)]

ASSUME RowsAssumption == RowsPerPage \in Nat \ {0}
ASSUME BoundAssumption ==
  /\ MaxPage \in Nat \ {0} /\ MaxOpens \in Nat /\ StatusRoom \in Nat \ {0}
  /\ Setups \subseteq Setup
  /\ \A s \in Setups, n \in 0 .. MaxPage :         \* page numbers never run out
       n \in s.others \union {0} => n + s.bytes <= MaxPage
ASSUME FileAssumption ==
  Absent # Foreign /\ {Absent, Foreign} \cap Seq(Letters \union {"CR", "LF", "FF"}) = {}
ASSUME ModeAssumption == Eager \in BOOLEAN
ASSUME LettersAssumption == Letters \cap {"CR", "LF", "FF", "EOF", "STOP", "nothing"} = {}

Bytes   == Letters \union {"CR", "LF", "FF"}
PageNo  == 1 .. MaxPage
Nothing == "nothing"

VARIABLES
  setup,      \* the bounds of this behaviour, chosen once
  files,      \* page number -> its bytes, Absent, or Foreign
  current,    \* PageWriter.current_path: the open page, 0 when none is
  nextNumber, \* PageWriter.next_number
  para,       \* the fields of Paginator
  pc,         \* where receive() is
  chunk,      \* the byte that read() returned
  toShow,     \* the "data" event that emit_events has not shown yet
  data,       \* bytes in the data FIFO
  status,     \* bytes in the status FIFO
  port,       \* 86Box's end: closed, or where the guest is in its handshake
  opens,      \* number of times the VM has opened it
  sent,       \* history: number of bytes strobed
  confirmed,  \* history: number of bytes whose ACK pulse the guest has seen
  log,        \* history: bytes consumed, with "EOF" and "STOP" marks
  mine,       \* history: the numbers of the pages this printer wrote, in order
  blank,      \* history: the pages it created and was stopped before it wrote to
  shown       \* history: bytes shown on the terminal since the printer started

writer  == <<files, current, nextNumber, mine, blank>>
channel == <<data, status, port, opens, sent, confirmed>>
vars    == <<setup, files, current, nextNumber, para, pc, chunk, toShow, data, status, port, opens,
             sent, confirmed, log, mine, blank, shown>>

Fresh == [rows |-> 0, auto |-> FALSE, suppress |-> FALSE, cr |-> FALSE, lf |-> FALSE]

TypeOK ==
  /\ files \in [PageNo -> Seq(Bytes) \union {Absent, Foreign}]
  /\ current \in PageNo \union {0}
  /\ nextNumber \in 1 .. MaxPage + 1
  /\ para \in [rows : 0 .. RowsPerPage - 1, auto : BOOLEAN, suppress : BOOLEAN,
               cr : BOOLEAN, lf : BOOLEAN]
  /\ pc \in {"stopped", "openData", "openStatus", "greet", "read", "consume",
             "display", "ackLow", "ackReady"}
  /\ chunk \in Bytes \union {Nothing}
  /\ toShow \in Bytes \union {Nothing}
  /\ data \in Seq(Bytes)
  /\ status \in Seq({"ACK_LOW", "READY"})
  /\ port \in {"closed", "offline", "idle", "awaitLow", "awaitReady"}
  /\ opens \in 0 .. MaxOpens
  /\ setup \in Setups
  /\ sent \in 0 .. setup.bytes /\ confirmed \in 0 .. setup.bytes
  /\ log \in Seq(Bytes \union {"EOF", "STOP"})
  /\ mine \in Seq(PageNo) /\ blank \subseteq PageNo
  /\ shown \in Seq(Bytes)

-----------------------------------------------------------------------------
(* PageWriter *)

(* _find_next_number looks at the whole directory, foreign files included. *)
Unused(n) == \A m \in PageNo : m >= n => files[m] = Absent
FindNextNumber == CHOOSE n \in 1 .. MaxPage + 1 :
                    Unused(n) /\ \A m \in 1 .. n - 1 : ~Unused(m)

(* _ensure_page creates with mode "xb" the first number that is free, so   *)
(* that it never opens a file somebody else has made.                      *)
(* Mutant: mode "wb" instead of "xb". *)
CreatableBlind(n) == n = nextNumber
Creatable(n) == /\ n \in PageNo /\ n >= nextNumber /\ files[n] = Absent
                /\ \A m \in nextNumber .. n - 1 : files[m] # Absent

Create(n, content) == /\ Creatable(n)
                      /\ files' = [files EXCEPT ![n] = content]
                      /\ nextNumber' = n + 1

(* The open page gets content; without one, the next page is created.      *)
PutOn(content) ==
  IF current # 0
  THEN /\ files' = [files EXCEPT ![current] = @ \o content]
       /\ UNCHANGED <<nextNumber, mine>>
  ELSE \E n \in PageNo : Create(n, content) /\ mine' = Append(mine, n)

WrittenPage == IF current # 0 THEN current ELSE nextNumber' - 1

-----------------------------------------------------------------------------
(* Paginator.  READ_SIZE is 1, so consume sees one byte at a time and      *)
(* flushes at its end: the disk first, then the display event.             *)

(* Is the byte kept off the terminal, as the CR or LF after a page's end? *)
(* Mutant: every CR and LF at the top of a page is kept off. *)
SuppressedAll(b) == para.suppress /\ b \in {"CR", "LF"}
Suppressed(b) == /\ para.suppress
                 /\ \/ b = "CR" /\ ~para.cr
                    \/ b = "LF" /\ ~para.lf

AfterBreak == [Fresh EXCEPT !.suppress = TRUE]

FormFeed ==
  /\ PutOn(<<>>)
  /\ current' = 0
  /\ para' = AfterBreak
  /\ toShow' = Nothing

SuppressedByte ==
  /\ Suppressed(chunk)
  /\ PutOn(<<chunk>>)
  /\ current' = WrittenPage
  /\ para' = IF chunk = "CR" THEN [para EXCEPT !.cr = TRUE] ELSE [para EXCEPT !.lf = TRUE]
  /\ toShow' = Nothing

(* Mutant: the page is full one row too late. *)
ShownByteLate ==
  /\ ~Suppressed(chunk)
  /\ PutOn(<<chunk>>)
  /\ current' = WrittenPage
  /\ LET full == chunk = "LF" /\ para.rows = RowsPerPage
     IN  para' = [para EXCEPT !.suppress = FALSE, !.auto = full,
                              !.rows = IF full THEN 0
                                       ELSE IF chunk = "LF" THEN @ + 1 ELSE @]
  /\ toShow' = chunk

ShownByte ==
  /\ ~Suppressed(chunk)
  /\ PutOn(<<chunk>>)
  /\ current' = WrittenPage
  /\ LET full == chunk = "LF" /\ para.rows + 1 = RowsPerPage
     IN  para' = [para EXCEPT !.suppress = FALSE, !.auto = full,
                              !.rows = IF full THEN 0
                                       ELSE IF chunk = "LF" THEN @ + 1 ELSE @]
  /\ toShow' = chunk

Consume ==
  /\ pc = "consume" /\ pc' = "display"
  /\ IF chunk = "FF" THEN FormFeed ELSE SuppressedByte \/ ShownByte
  /\ log' = Append(log, chunk)
  /\ UNCHANGED <<channel, chunk, blank, shown>>

-----------------------------------------------------------------------------
(* receive() *)

(* Opening a FIFO waits for the other end; 86Box opens both together. *)
OpenData ==
  /\ pc = "openData" /\ port # "closed"
  /\ pc' = "openStatus"
  /\ UNCHANGED <<writer, para, chunk, toShow, channel, log, shown>>

OpenStatus ==
  /\ pc = "openStatus" /\ port # "closed"
  /\ pc' = "greet"
  /\ UNCHANGED <<writer, para, chunk, toShow, channel, log, shown>>

WriteStatus(from, byte, to) ==
  /\ pc = from /\ port # "closed" /\ Len(status) < StatusRoom
  /\ pc' = to
  /\ status' = Append(status, byte)
  /\ UNCHANGED <<writer, para, toShow, data, port, opens, sent, confirmed, log, shown>>

Greet   == WriteStatus("greet", "READY", "read") /\ UNCHANGED chunk
AckLow  == WriteStatus("ackLow", "ACK_LOW", "ackReady") /\ UNCHANGED chunk

(* Mutant: the pulse has no end. *)
AckReadyMissing ==
  /\ pc = "ackReady" /\ port # "closed"
  /\ pc' = "read" /\ chunk' = Nothing
  /\ UNCHANGED <<writer, para, toShow, channel, log, shown>>

AckReady == WriteStatus("ackReady", "READY", "read") /\ chunk' = Nothing

(* Mutant: the byte is acknowledged before it is processed. *)
ReadAckEarly ==
  /\ pc = "read" /\ data # <<>>
  /\ pc' = "consume"
  /\ chunk' = Head(data)
  /\ data' = Tail(data)
  /\ status' = status \o <<"ACK_LOW", "READY">>
  /\ UNCHANGED <<writer, para, toShow, port, opens, sent, confirmed, log, shown>>

Read ==
  /\ pc = "read" /\ data # <<>>
  /\ pc' = "consume"
  /\ chunk' = Head(data)
  /\ data' = Tail(data)
  /\ UNCHANGED <<writer, para, toShow, status, port, opens, sent, confirmed, log, shown>>

Display ==
  /\ pc = "display" /\ pc' = "ackLow"
  /\ shown' = IF toShow = Nothing THEN shown ELSE Append(shown, toShow)
  /\ toShow' = Nothing
  /\ UNCHANGED <<writer, para, chunk, channel, log>>

(* The history needs an end-of-file mark only after something else, and a  *)
(* stop mark hides an end-of-file mark it follows.                         *)
EndsWith(l, mark) == l # <<>> /\ l[Len(l)] = mark
WithEof  == IF EndsWith(log, "EOF") THEN log ELSE Append(log, "EOF")
WithStop == LET l == IF EndsWith(log, "EOF") THEN SubSeq(log, 1, Len(log) - 1) ELSE log
            IN  IF l = <<>> \/ EndsWith(l, "STOP") THEN l ELSE Append(l, "STOP")

(* read() returns b"": the writer has gone.  port_closed closes the page;  *)
(* with both ends of the status FIFO closed, its contents are dropped.     *)
(* Mutant: end of file leaves the page open. *)
PortClosedKeepsPage ==
  /\ pc = "read" /\ data = <<>> /\ port = "closed"
  /\ pc' = "openData"
  /\ para' = AfterBreak
  /\ status' = <<>>
  /\ log' = WithEof
  /\ UNCHANGED <<writer, chunk, toShow, data, port, opens, sent, confirmed, shown>>

PortClosed ==
  /\ pc = "read" /\ data = <<>> /\ port = "closed"
  /\ pc' = "openData"
  /\ current' = 0
  /\ para' = AfterBreak
  /\ status' = <<>>
  /\ log' = WithEof
  /\ UNCHANGED <<files, nextNumber, mine, blank, chunk, toShow, data, port, opens, sent, confirmed,
                 shown>>

(* The process ends: main closes the page in its finally clause, and what  *)
(* was read or about to be shown is gone with it.  A FIFO that nobody has  *)
(* open any more is empty.                                                 *)
Stops ==
  /\ pc' = "stopped"
  /\ current' = 0
  /\ chunk' = Nothing /\ toShow' = Nothing
  /\ data' = IF port = "closed" THEN <<>> ELSE data
  /\ status' = IF port = "closed" THEN <<>> ELSE status
  /\ log' = WithStop
  /\ UNCHANGED <<mine, para, port, opens, sent, confirmed, shown>>

Ends == Stops /\ UNCHANGED <<files, nextNumber, blank>>

(* Writing to a FIFO that 86Box has closed raises BrokenPipeError. *)
BrokenPipe == pc \in {"greet", "ackLow", "ackReady"} /\ port = "closed" /\ Ends

Interrupt == setup.interrupts /\ pc # "stopped" /\ Ends /\ UNCHANGED setup

(* It ends, by Ctrl-C or a full disk, after _ensure_page has created the   *)
(* page and before write has put its first byte on disk.  (A form feed     *)
(* writes nothing: there this is the Interrupt after it.)                  *)
CutBeforeWrite ==
  /\ setup.interrupts /\ pc = "consume" /\ current = 0 /\ chunk # "FF"
  /\ \E n \in PageNo : Create(n, <<>>) /\ blank' = blank \union {n}
  /\ Stops /\ UNCHANGED setup

Start ==
  /\ pc = "stopped" /\ pc' = "openData"
  /\ nextNumber' = FindNextNumber
  /\ para' = Fresh
  /\ shown' = <<>>
  /\ UNCHANGED <<setup, files, current, mine, blank, chunk, toShow, channel, log>>

Printer ==
  /\ UNCHANGED setup
  /\ \/ OpenData \/ OpenStatus \/ Greet \/ Read \/ Consume \/ Display
     \/ AckLow \/ AckReady \/ PortClosed \/ BrokenPipe

-----------------------------------------------------------------------------
(* 86Box and its guest (external): a byte is strobed when the printer is   *)
(* ready, and the next one after an nAck pulse.                            *)
printerSide == <<setup, writer, para, pc, chunk, toShow, log, shown>>

(* A VM takes seconds to come back: by then the printer has seen EOF. *)
VmOpens ==
  /\ port = "closed" /\ pc \in {"openData", "openStatus", "stopped"}
  /\ opens < MaxOpens
  /\ port' = "offline" /\ opens' = opens + 1
  /\ UNCHANGED <<printerSide, data, status, sent, confirmed>>

VmCloses ==
  /\ port # "closed"
  /\ port' = "closed"
  /\ data' = IF pc \in {"stopped", "openData"} THEN <<>> ELSE data
  /\ status' = IF pc \in {"stopped", "openData", "openStatus"} THEN <<>> ELSE status
  /\ UNCHANGED <<printerSide, opens, sent, confirmed>>

Strobe ==
  /\ port = "idle" \/ (Eager /\ port = "offline")
  /\ sent < setup.bytes
  /\ \E b \in Bytes : data' = Append(data, b)
  /\ port' = "awaitLow"
  /\ sent' = sent + 1
  /\ UNCHANGED <<printerSide, opens, status, confirmed>>

NewPortState(byte) ==
  CASE byte = "READY" /\ port \in {"offline", "awaitReady"} -> "idle"
    [] byte = "ACK_LOW" /\ port = "awaitLow" -> "awaitReady"
    [] OTHER -> port

PollStatus ==
  /\ port # "closed" /\ status # <<>>
  /\ port' = NewPortState(Head(status))
  /\ status' = Tail(status)
  /\ confirmed' = IF port = "awaitReady" /\ port' = "idle" THEN confirmed + 1 ELSE confirmed
  /\ UNCHANGED <<printerSide, opens, data, sent>>

(* Another program, or a second printer, makes a file in the directory. *)
ForeignFile ==
  /\ \E n \in setup.others : files[n] = Absent /\ files' = [files EXCEPT ![n] = Foreign]
  /\ UNCHANGED <<setup, current, nextNumber, mine, blank, para, pc, chunk, toShow, channel, log,
                 shown>>

-----------------------------------------------------------------------------
Init ==
  /\ setup \in Setups
  /\ files = [n \in PageNo |-> Absent]
  /\ current = 0 /\ nextNumber = 1
  /\ para = Fresh
  /\ pc = "stopped"
  /\ chunk = Nothing /\ toShow = Nothing
  /\ data = <<>> /\ status = <<>>
  /\ port = "closed" /\ opens = 0
  /\ sent = 0 /\ confirmed = 0
  /\ log = <<>> /\ mine = <<>> /\ blank = {} /\ shown = <<>>

Next == Printer \/ Interrupt \/ CutBeforeWrite \/ Start \/ VmOpens \/ VmCloses \/ Strobe
        \/ PollStatus \/ ForeignFile

Spec == Init /\ [][Next]_vars

(* The printer never puts off a step it can take, and 86Box polls. *)
FairSpec == Spec /\ WF_vars(Printer) /\ WF_vars(PollStatus)

-----------------------------------------------------------------------------
(* What the printed pages and the terminal show, from the history alone.   *)
Mark(i)     == i \in DOMAIN log /\ log[i] \in {"FF", "EOF", "STOP"}
LastMark(i) == CHOOSE m \in 0 .. i - 1 :
                 (m = 0 \/ Mark(m)) /\ \A j \in m + 1 .. i - 1 : ~Mark(j)

(* A form feed ends a page, even an empty one; end of file and the end of  *)
(* the process end one that has bytes, and the last page may be open.      *)
EndsPage(i) == \/ Mark(i) /\ log[i] = "FF"
               \/ (Mark(i) \/ i = Len(log) + 1) /\ LastMark(i) < i - 1
PagesEnded(i) == Cardinality({j \in 1 .. i : EndsPage(j)})

(* One CR and one LF, in either order, right after a page ended.           *)
Suffix(i) == LET m == LastMark(i) IN
  /\ m # 0 /\ log[m] # "STOP" /\ i <= m + 2
  /\ \A j \in m + 1 .. i : log[j] \in {"CR", "LF"} /\ (j < i => log[j] # log[i])
Visible(i) == i \in DOMAIN log /\ ~Mark(i) /\ ~Suffix(i)
ThisRun(i) == Visible(i) /\ \A j \in i .. Len(log) : log[j] # "STOP"
RowsShown  == Cardinality({i \in LastMark(Len(log) + 1) + 1 .. Len(log) :
                             Visible(i) /\ log[i] = "LF"})

(* The files this printer made hold exactly the bytes printed, cut into    *)
(* pages at form feeds, at end of file and where the printer stopped; one  *)
(* that it was stopped before it wrote to stays empty, and stands for no   *)
(* page of the job (fifo_printer.py 139-160).                              *)
PagesMatch ==
  /\ \A n \in blank : files[n] = <<>> /\ \A i \in DOMAIN mine : mine[i] # n
  /\ Len(mine) = PagesEnded(Len(log) + 1)
  /\ \A i \in 1 .. Len(log) + 1 :
       EndsPage(i) => files[mine[PagesEnded(i)]] = SubSeq(log, LastMark(i) + 1, i - 1)

BytesDue(i) == Cardinality({j \in 1 .. i : ThisRun(j)})
Due         == IF toShow = Nothing THEN shown ELSE Append(shown, toShow)

(* The terminal has shown every byte of this run but the form feeds and    *)
(* the CR and LF that follow a page's end, in order.  The row counter      *)
(* counts the rows shown on the page, and an automatic break is pending    *)
(* exactly when the last byte completed RowsPerPage rows.                  *)
ShownMatch ==
  pc # "stopped" =>
    /\ Len(Due) = BytesDue(Len(log))
    /\ \A i \in DOMAIN log : ThisRun(i) => Due[BytesDue(i)] = log[i]
    /\ para.rows = RowsShown % RowsPerPage
    /\ para.auto <=> /\ EndsWith(log, "LF") /\ Visible(Len(log))
                    /\ RowsShown % RowsPerPage = 0

(* A guest that has seen the ACK pulse of a byte finds it in a page.       *)
AckedOnDisk == confirmed <= Cardinality({i \in DOMAIN log : log[i] \notin {"EOF", "STOP"}})

(* A page that is not the open one never changes, whoever made it, and the *)
(* open page only grows.                                                   *)
PagesKept ==
  [][\A n \in PageNo : files[n] # Absent /\ files'[n] # files[n] =>
       /\ n = current /\ files[n] # Foreign
       /\ \E b \in Bytes : files'[n] = Append(files[n], b)]_vars

(* A byte in the FIFO of a running printer is acknowledged, unless the VM  *)
(* closes its port or the printer stops.                                   *)
ByteAnswered ==
  (data # <<>> /\ pc # "stopped") ~> (port \in {"idle", "closed"} \/ pc = "stopped")

(* test_lpt_strobe.py, as 86Box's end: what follows a byte is ACK_LOW.     *)
FirstStatusIsAck == port = "awaitLow" /\ status # <<>> => Head(status) = "ACK_LOW"
=============================================================================
