------------------------- MODULE FifoPrinterProofs -------------------------
(***************************************************************************)
(* Theorems about the FIFO printer: its types, that it never changes a     *)
(* page that is not its open one, that an acknowledged byte is on disk,    *)
(* that its files are the printed pages, and that the terminal shows them, *)
(* whatever the guest sends and whoever stops or disturbs it.              *)
(***************************************************************************)
EXTENDS FifoPrinter, FunctionTheorems, FiniteSetTheorems, SequenceTheorems,
        WellFoundedInduction, TLAPS

(* The open page holds bytes, and what consume gets is a byte.             *)
Open == /\ current # 0 => files[current] \in Seq(Bytes)
        /\ pc = "consume" => chunk \in Bytes

(* An unanswered byte has been sent and not been confirmed.                *)
Waiting  == port \in {"awaitLow", "awaitReady"}
SentMore == confirmed + (IF Waiting THEN 1 ELSE 0) <= sent

TypeInv == TypeOK /\ Open /\ SentMore

-----------------------------------------------------------------------------
(* Page numbers.  The least number from which on all are unused exists,    *)
(* since the one after the last page is one.                               *)
LEMMA FindNextNumberType == FindNextNumber \in 1 .. MaxPage + 1
<1>1. MaxPage \in Nat
  BY BoundAssumption
<1> DEFINE T == {n \in 1 .. MaxPage + 1 : Unused(n)}
<1>2. T \subseteq Nat /\ T # {}
  <2>1. MaxPage + 1 \in T
    BY <1>1 DEF Unused, PageNo
  <2>2. QED
    BY <1>1, <2>1
<1>3. \E n \in T : \A m \in T : ~(<<m, n>> \in OpToRel(<, Nat))
  <2> HIDE DEF T
  <2>1. QED
    BY <1>2, WFMin, NatLessThanWellFounded
<1>4. PICK n \in T : \A m \in T : ~(m < n)
  BY <1>2, <1>3 DEF OpToRel
<1>5. \A m \in 1 .. n - 1 : ~Unused(m)
  BY <1>1, <1>4
<1>6. QED
  BY <1>5 DEF FindNextNumber

(* The bytes of a page, and what is in the place of one. *)
LEMMA NoBytes == Absent # Foreign /\ Absent \notin Seq(Bytes) /\ Foreign \notin Seq(Bytes)
BY FileAssumption DEF Bytes

LEMMA AfterBreakType ==
  AfterBreak \in [rows : 0 .. RowsPerPage - 1, auto : BOOLEAN, suppress : BOOLEAN,
                  cr : BOOLEAN, lf : BOOLEAN]
<1>1. 0 \in 0 .. RowsPerPage - 1
  BY RowsAssumption
<1>2. Fresh \in [rows : 0 .. RowsPerPage - 1, auto : BOOLEAN, suppress : BOOLEAN,
                 cr : BOOLEAN, lf : BOOLEAN]
  BY <1>1 DEF Fresh
<1>3. QED
  BY <1>2 DEF AfterBreak

(* Sequences of bytes stay so when a byte, or nothing, is put after them.  *)
LEMMA ConcatByte ==
  ASSUME NEW s \in Seq(Bytes), NEW b \in Bytes
  PROVE  s \o <<b>> = Append(s, b) /\ Append(s, b) \in Seq(Bytes) /\ s \o <<>> = s
BY AppendIsConcat, AppendProperties, ConcatEmptySeq

(* What putting content on a page does to the directory. *)
LEMMA PutOnType ==
  ASSUME TypeInv, NEW content, PutOn(content),
         content = <<>> \/ \E b \in Bytes : content = <<b>>
  PROVE  /\ files' \in [PageNo -> Seq(Bytes) \union {Absent, Foreign}]
         /\ nextNumber' \in 1 .. MaxPage + 1
         /\ mine' \in Seq(PageNo)
         /\ WrittenPage \in PageNo
         /\ files'[WrittenPage] \in Seq(Bytes)
         /\ \A n \in PageNo : files[n] # Absent /\ files'[n] # files[n] =>
               /\ n = current /\ files[n] # Foreign
               /\ \E b \in Bytes : files'[n] = Append(files[n], b)
<1>1. content \in Seq(Bytes)
  <2>1. CASE content = <<>>
    BY <2>1, EmptySeq
  <2>2. CASE \E b \in Bytes : content = <<b>>
    BY <2>2
  <2>3. QED
    BY <2>1, <2>2
<1>2. CASE current # 0
  <2>1. files[current] \in Seq(Bytes) /\ current \in PageNo
    BY <1>2 DEF TypeInv, TypeOK, Open
  <2>2. files' = [files EXCEPT ![current] = files[current] \o content]
        /\ UNCHANGED <<nextNumber, mine>>
    BY <1>2 DEF PutOn
  <2>3. files[current] \o content \in Seq(Bytes)
    BY <2>1, <1>1
  <2>4. files[current] # Foreign
    BY <2>1, NoBytes
  <2>5. files[current] \o content = files[current]
        \/ \E b \in Bytes : files[current] \o content = Append(files[current], b)
    <3>1. CASE content = <<>>
      BY <2>1, <3>1, ConcatEmptySeq
    <3>2. CASE \E b \in Bytes : content = <<b>>
      BY <2>1, <3>2, ConcatByte
    <3>3. QED
      BY <3>1, <3>2
  <2>6. QED
    BY <1>2, <2>1, <2>2, <2>3, <2>4, <2>5 DEF TypeInv, TypeOK, WrittenPage
<1>3. CASE current = 0
  <2>1. PICK n \in PageNo : /\ Creatable(n)
                            /\ files' = [files EXCEPT ![n] = content]
                            /\ nextNumber' = n + 1
                            /\ mine' = Append(mine, n)
    BY <1>3 DEF PutOn, Create
  <2>2. files[n] = Absent
    BY <2>1 DEF Creatable
  <2>3. WrittenPage = n
    BY <1>3, <2>1, BoundAssumption DEF WrittenPage, PageNo
  <2>4. mine' \in Seq(PageNo) /\ nextNumber' \in 1 .. MaxPage + 1
    BY <2>1, BoundAssumption DEF TypeInv, TypeOK, PageNo
  <2>5. QED
    BY <1>1, <2>1, <2>2, <2>3, <2>4 DEF TypeInv, TypeOK
<1>4. QED
  BY <1>2, <1>3

Kept == \A n \in PageNo : files[n] # Absent /\ files'[n] # files[n] =>
          /\ n = current /\ files[n] # Foreign
          /\ \E b \in Bytes : files'[n] = Append(files[n], b)

LEMMA ConsumeType ==
  ASSUME TypeInv, Consume, UNCHANGED setup PROVE TypeInv' /\ Kept
<1>1. chunk \in Bytes
  BY DEF TypeInv, Open, Consume
<1>2. /\ files' \in [PageNo -> Seq(Bytes) \union {Absent, Foreign}]
      /\ nextNumber' \in 1 .. MaxPage + 1
      /\ mine' \in Seq(PageNo)
      /\ WrittenPage \in PageNo /\ files'[WrittenPage] \in Seq(Bytes)
      /\ Kept
  <2>1. CASE chunk = "FF"
    BY <2>1, PutOnType DEF Consume, FormFeed, Kept
  <2>2. CASE chunk # "FF"
    <3>1. PutOn(<<chunk>>)
      BY <2>2 DEF Consume, SuppressedByte, ShownByte
    <3>2. QED
      BY <1>1, <3>1, PutOnType DEF Kept
  <2>3. QED
    BY <2>1, <2>2
<1>3. /\ current' \in {0, WrittenPage}
      /\ toShow' \in {Nothing, chunk}
  BY DEF Consume, FormFeed, SuppressedByte, ShownByte
<1>4. para' \in [rows : 0 .. RowsPerPage - 1, auto : BOOLEAN, suppress : BOOLEAN,
                 cr : BOOLEAN, lf : BOOLEAN]
  <2>1. para \in [rows : 0 .. RowsPerPage - 1, auto : BOOLEAN, suppress : BOOLEAN,
                  cr : BOOLEAN, lf : BOOLEAN]
    BY DEF TypeInv, TypeOK
  <2>2. CASE FormFeed
    BY <2>2, AfterBreakType DEF FormFeed
  <2>3. CASE SuppressedByte
    BY <2>1, <2>3 DEF SuppressedByte
  <2>4. CASE ShownByte
    <3> DEFINE full == chunk = "LF" /\ para.rows + 1 = RowsPerPage
               rows == IF full THEN 0 ELSE IF chunk = "LF" THEN para.rows + 1 ELSE para.rows
    <3>1. rows \in 0 .. RowsPerPage - 1 /\ full \in BOOLEAN
      BY <2>1, RowsAssumption
    <3>2. para' = [para EXCEPT !.suppress = FALSE, !.auto = full, !.rows = rows]
      BY <2>4 DEF ShownByte
    <3> HIDE DEF full, rows
    <3>3. QED
      BY <2>1, <3>1, <3>2
  <2>5. QED
    BY <2>2, <2>3, <2>4 DEF Consume
<1>5. log' \in Seq(Bytes \union {"EOF", "STOP"})
  BY <1>1 DEF TypeInv, TypeOK, Consume
<1>6. UNCHANGED <<setup, data, status, port, opens, sent, confirmed, chunk, blank, shown>>
      /\ pc' = "display"
  BY DEF Consume, channel
<1>7. TypeOK'
  BY <1>1, <1>2, <1>3, <1>4, <1>5, <1>6 DEF TypeInv, TypeOK
<1>8. Open' /\ SentMore'
  BY <1>2, <1>3, <1>6 DEF TypeInv, Open, SentMore, Waiting
<1>9. QED
  BY <1>2, <1>7, <1>8 DEF TypeInv
-----------------------------------------------------------------------------
(* The history of bytes and marks.                                         *)
Entries == Bytes \union {"EOF", "STOP"}
OnDisk(l) == {i \in DOMAIN l : l[i] \notin {"EOF", "STOP"}}

LEMMA OnDiskFinite ==
  ASSUME NEW l \in Seq(Entries)
  PROVE  IsFiniteSet(OnDisk(l)) /\ Cardinality(OnDisk(l)) \in Nat
<1>1. Len(l) \in Nat /\ DOMAIN l = 1 .. Len(l)
  BY LenProperties
<1>2. IsFiniteSet(1 .. Len(l)) /\ OnDisk(l) \in SUBSET (1 .. Len(l))
  BY <1>1, FS_Interval DEF OnDisk
<1>3. QED
  BY <1>2, FS_Subset, FS_CardinalityType

(* A byte is one entry more on disk, a mark is none. *)
LEMMA OnDiskAppend ==
  ASSUME NEW l \in Seq(Entries), NEW e \in Entries
  PROVE  /\ Append(l, e) \in Seq(Entries)
         /\ OnDisk(Append(l, e)) = IF e \in {"EOF", "STOP"} THEN OnDisk(l)
                                   ELSE OnDisk(l) \union {Len(l) + 1}
         /\ Len(l) + 1 \notin OnDisk(l)
<1>1. /\ Len(l) \in Nat /\ DOMAIN l = 1 .. Len(l)
      /\ Append(l, e) \in Seq(Entries) /\ DOMAIN Append(l, e) = 1 .. Len(l) + 1
      /\ \A i \in 1 .. Len(l) : Append(l, e)[i] = l[i]
      /\ Append(l, e)[Len(l) + 1] = e
  BY LenProperties, AppendProperties
<1>2. QED
  BY <1>1 DEF OnDisk

LEMMA WithoutLast ==
  ASSUME NEW l \in Seq(Entries), EndsWith(l, "EOF")
  PROVE  /\ SubSeq(l, 1, Len(l) - 1) \in Seq(Entries)
         /\ OnDisk(SubSeq(l, 1, Len(l) - 1)) = OnDisk(l)
<1>1. Len(l) \in Nat \ {0} /\ DOMAIN l = 1 .. Len(l) /\ l[Len(l)] = "EOF"
  BY EmptySeq, LenProperties DEF EndsWith
<1>2. \A i \in 1 .. Len(l) - 1 : l[i] \in Entries
  BY <1>1, ElementOfSeq
<1> DEFINE k == SubSeq(l, 1, Len(l) - 1)
<1>3. /\ k \in Seq(Entries) /\ Len(k) = Len(l) - 1
      /\ \A i \in 1 .. Len(l) - 1 : k[i] = l[i]
  BY <1>1, <1>2, SubSeqProperties
<1>4. DOMAIN k = 1 .. Len(l) - 1
  BY <1>3, LenProperties
<1> HIDE DEF k
<1>5. OnDisk(k) = OnDisk(l)
  BY <1>1, <1>3, <1>4 DEF OnDisk
<1>6. QED
  BY <1>3, <1>5 DEF k

LEMMA MarksAddNothing ==
  ASSUME log \in Seq(Entries)
  PROVE  /\ WithEof \in Seq(Entries) /\ OnDisk(WithEof) = OnDisk(log)
         /\ WithStop \in Seq(Entries) /\ OnDisk(WithStop) = OnDisk(log)
<1>1. WithEof \in Seq(Entries) /\ OnDisk(WithEof) = OnDisk(log)
  BY OnDiskAppend DEF WithEof, Entries
<1> DEFINE l == IF EndsWith(log, "EOF") THEN SubSeq(log, 1, Len(log) - 1) ELSE log
<1>2. l \in Seq(Entries) /\ OnDisk(l) = OnDisk(log)
  BY WithoutLast
<1>3. WithStop = IF l = <<>> \/ EndsWith(l, "STOP") THEN l ELSE Append(l, "STOP")
  BY DEF WithStop
<1> HIDE DEF l
<1>4. WithStop \in Seq(Entries) /\ OnDisk(WithStop) = OnDisk(log)
  BY <1>2, <1>3, OnDiskAppend DEF Entries
<1>5. QED
  BY <1>1, <1>4

-----------------------------------------------------------------------------
(* The status FIFO. *)
StatusBytes == {"ACK_LOW", "READY"}
Acks(s) == {i \in DOMAIN s : s[i] = "ACK_LOW"}
AckOf(b) == IF b = "ACK_LOW" THEN 1 ELSE 0

LEMMA AcksFinite ==
  ASSUME NEW s \in Seq(StatusBytes)
  PROVE  IsFiniteSet(Acks(s)) /\ Cardinality(Acks(s)) \in Nat
<1>1. Len(s) \in Nat /\ DOMAIN s = 1 .. Len(s)
  BY LenProperties
<1>2. IsFiniteSet(1 .. Len(s)) /\ Acks(s) \in SUBSET (1 .. Len(s))
  BY <1>1, FS_Interval DEF Acks
<1>3. QED
  BY <1>2, FS_Subset, FS_CardinalityType

LEMMA AcksEmpty == <<>> \in Seq(StatusBytes) /\ Cardinality(Acks(<<>>)) = 0
<1>1. <<>> \in Seq(StatusBytes) /\ Len(<<>>) = 0
  BY EmptySeq
<1>2. Acks(<<>>) = {}
  BY <1>1, LenProperties DEF Acks
<1>3. QED
  BY <1>1, <1>2, FS_EmptySet

LEMMA AcksAppend ==
  ASSUME NEW s \in Seq(StatusBytes), NEW b \in StatusBytes
  PROVE  /\ Append(s, b) \in Seq(StatusBytes)
         /\ Cardinality(Acks(Append(s, b))) =
              Cardinality(Acks(s)) + AckOf(b)
<1>1. /\ Len(s) \in Nat /\ DOMAIN s = 1 .. Len(s)
      /\ Append(s, b) \in Seq(StatusBytes) /\ DOMAIN Append(s, b) = 1 .. Len(s) + 1
      /\ \A i \in 1 .. Len(s) : Append(s, b)[i] = s[i]
      /\ Append(s, b)[Len(s) + 1] = b
  BY LenProperties, AppendProperties
<1>2. CASE b = "ACK_LOW"
  <2>1. Acks(Append(s, b)) = Acks(s) \union {Len(s) + 1} /\ Len(s) + 1 \notin Acks(s)
    BY <1>1, <1>2 DEF Acks
  <2>2. QED
    BY <1>1, <1>2, <2>1, AcksFinite, FS_AddElement DEF AckOf
<1>3. CASE b # "ACK_LOW"
  <2>1. Acks(Append(s, b)) = Acks(s)
    BY <1>1, <1>3 DEF Acks
  <2>2. QED
    BY <1>1, <1>3, <2>1, AcksFinite DEF AckOf
<1>4. QED
  BY <1>2, <1>3

(* Taking the head moves the others forward by one.                        *)
LEMMA AcksTail ==
  ASSUME NEW s \in Seq(StatusBytes), s # <<>>
  PROVE  /\ Head(s) \in StatusBytes /\ Tail(s) \in Seq(StatusBytes)
         /\ Cardinality(Acks(Tail(s))) + AckOf(Head(s)) <= Cardinality(Acks(s))
<1>1. /\ Len(s) \in Nat \ {0} /\ DOMAIN s = 1 .. Len(s)
      /\ Head(s) \in StatusBytes /\ Head(s) = s[1]
      /\ Tail(s) \in Seq(StatusBytes) /\ DOMAIN Tail(s) = 1 .. Len(s) - 1
      /\ \A i \in 1 .. Len(s) - 1 : Tail(s)[i] = s[i + 1]
  BY EmptySeq, LenProperties, HeadTailProperties
<1> DEFINE A == Acks(Tail(s))
           B == Acks(s) \ {1}
           f == [i \in A |-> i + 1]
<1>2. f \in Injection(A, B)
  <2>1. \A i \in A : i \in Nat /\ i + 1 \in B
    BY <1>1 DEF Acks
  <2>2. f \in [A -> B] /\ \A i, j \in A : f[i] = f[j] => i = j
    BY <2>1
  <2> HIDE DEF f, A, B
  <2>3. QED
    BY <2>2, Fun_IsInj
<1>3. IsFiniteSet(B) /\ Cardinality(B) = Cardinality(Acks(s)) - IF 1 \in Acks(s) THEN 1 ELSE 0
  BY AcksFinite, FS_RemoveElement
<1>4. Cardinality(A) <= Cardinality(B)
  <2> HIDE DEF f, A, B
  <2>1. QED
    BY <1>2, <1>3, FS_Injection
<1>5. 1 \in Acks(s) <=> Head(s) = "ACK_LOW"
  BY <1>1 DEF Acks
<1>6. Cardinality(A) \in Nat /\ Cardinality(Acks(s)) \in Nat
  BY <1>1, AcksFinite
<1> HIDE DEF A, B
<1>7. Cardinality(A) + AckOf(Head(s)) <= Cardinality(Acks(s))
  BY <1>3, <1>4, <1>5, <1>6 DEF AckOf
<1>8. QED
  BY <1>1, <1>7 DEF A
-----------------------------------------------------------------------------
(* Every step keeps the types and the pages. *)
LEMMA SetupType ==
  ASSUME setup \in Setups PROVE setup.bytes \in Nat /\ setup.others \subseteq PageNo
BY BoundAssumption DEF Setup, PageNo

LEMMA StopsType ==
  ASSUME TypeInv, Stops, UNCHANGED setup, nextNumber' \in 1 .. MaxPage + 1, blank' \subseteq PageNo,
         files' \in [PageNo -> Seq(Bytes) \union {Absent, Foreign}]
  PROVE  TypeInv'
<1>1. <<>> \in Seq(Bytes) /\ <<>> \in Seq({"ACK_LOW", "READY"})
  BY EmptySeq
<1>2. WithStop \in Seq(Bytes \union {"EOF", "STOP"})
  BY MarksAddNothing DEF TypeInv, TypeOK, Entries
<1>3. data' \in Seq(Bytes) /\ status' \in Seq({"ACK_LOW", "READY"})
  BY <1>1 DEF TypeInv, TypeOK, Stops
<1>4. QED
  BY <1>2, <1>3 DEF TypeInv, TypeOK, Open, SentMore, Waiting, Stops

LEMMA EndsType ==
  ASSUME TypeInv, Ends, UNCHANGED setup PROVE TypeInv'
BY StopsType DEF Ends, TypeInv, TypeOK

LEMMA CutType ==
  ASSUME TypeInv, CutBeforeWrite PROVE TypeInv' /\ Kept
<1>1. PICK n \in PageNo : Create(n, <<>>) /\ blank' = blank \union {n}
  BY DEF CutBeforeWrite
<1>2. /\ files[n] = Absent /\ files' = [files EXCEPT ![n] = <<>>] /\ nextNumber' = n + 1
      /\ <<>> \in Seq(Bytes)
  BY <1>1, EmptySeq DEF Create, Creatable
<1>3. /\ files' \in [PageNo -> Seq(Bytes) \union {Absent, Foreign}] /\ blank' \subseteq PageNo
      /\ nextNumber' \in 1 .. MaxPage + 1
  <2>1. files' \in [PageNo -> Seq(Bytes) \union {Absent, Foreign}]
    BY <1>2 DEF TypeInv, TypeOK
  <2>2. blank' \subseteq PageNo
    BY <1>1 DEF TypeInv, TypeOK
  <2>3. nextNumber' \in 1 .. MaxPage + 1
    BY <1>2, BoundAssumption DEF PageNo
  <2>4. QED
    BY <2>1, <2>2, <2>3
<1>4. Kept
  BY <1>2 DEF Kept, TypeInv, TypeOK
<1>5. QED
  BY <1>3, <1>4, StopsType DEF CutBeforeWrite

LEMMA WriteStatusType ==
  ASSUME TypeInv, UNCHANGED setup, chunk' \in {chunk, Nothing},
         NEW from, NEW byte \in StatusBytes, NEW to \in {"read", "ackReady"},
         WriteStatus(from, byte, to)
  PROVE  TypeInv'
<1>1. status' \in Seq({"ACK_LOW", "READY"})
  BY AcksAppend DEF WriteStatus, TypeInv, TypeOK, StatusBytes
<1>2. QED
  BY <1>1 DEF WriteStatus, writer, TypeInv, TypeOK, Open, SentMore, Waiting

LEMMA PrinterType ==
  ASSUME TypeInv, Printer PROVE TypeInv' /\ Kept
<1> USE DEF TypeInv
<1>1. CASE OpenData \/ OpenStatus
  BY <1>1 DEF Printer, OpenData, OpenStatus, writer, channel, TypeOK, Open, SentMore, Waiting, Kept
<1>2. CASE Greet
  BY <1>2, WriteStatusType DEF Printer, Greet, WriteStatus, writer, StatusBytes, Kept
<1>3. CASE AckLow
  BY <1>3, WriteStatusType DEF Printer, AckLow, WriteStatus, writer, StatusBytes, Kept
<1>4. CASE AckReady
  BY <1>4, WriteStatusType DEF Printer, AckReady, WriteStatus, writer, StatusBytes, Kept
<1>5. CASE Read
  <2>1. Head(data) \in Bytes /\ Tail(data) \in Seq(Bytes)
    BY <1>5, HeadTailProperties DEF Read, TypeOK
  <2>2. QED
    BY <1>5, <2>1 DEF Printer, Read, writer, TypeOK, Open, SentMore, Waiting, Kept
<1>6. CASE Consume
  BY <1>6, ConsumeType DEF Printer
<1>7. CASE Display
  <2>1. shown' \in Seq(Bytes)
    BY <1>7, AppendProperties DEF Display, TypeOK
  <2>2. QED
    BY <1>7, <2>1 DEF Printer, Display, writer, channel, TypeOK, Open, SentMore, Waiting, Kept
<1>8. CASE PortClosed
  <2>1. WithEof \in Seq(Bytes \union {"EOF", "STOP"})
    BY MarksAddNothing DEF TypeOK, Entries
  <2>2. <<>> \in Seq({"ACK_LOW", "READY"})
    BY EmptySeq
  <2>3. QED
    BY <1>8, <2>1, <2>2, AfterBreakType
    DEF Printer, PortClosed, TypeOK, Open, SentMore, Waiting, Kept
<1>9. CASE BrokenPipe
  BY <1>9, EndsType DEF Printer, BrokenPipe, Ends, Kept
<1>10. QED
  BY <1>1, <1>2, <1>3, <1>4, <1>5, <1>6, <1>7, <1>8, <1>9 DEF Printer

LEMMA GuestType ==
  ASSUME TypeInv, VmOpens \/ VmCloses \/ Strobe \/ PollStatus PROVE TypeInv' /\ Kept
<1> USE DEF TypeInv
<1>1. <<>> \in Seq(Bytes) /\ <<>> \in Seq({"ACK_LOW", "READY"}) /\ setup.bytes \in Nat
  BY EmptySeq, SetupType DEF TypeOK
<1>2. CASE VmOpens
  BY <1>1, <1>2, BoundAssumption
  DEF VmOpens, printerSide, writer, TypeOK, Open, SentMore, Waiting, Kept
<1>3. CASE VmCloses
  BY <1>1, <1>3 DEF VmCloses, printerSide, writer, TypeOK, Open, SentMore, Waiting, Kept
<1>4. CASE Strobe
  <2>1. data' \in Seq(Bytes)
    BY <1>4, AppendProperties DEF Strobe, TypeOK
  <2>2. TypeOK'
    BY <1>1, <1>4, <2>1 DEF Strobe, printerSide, writer, TypeOK
  <2>3. QED
    BY <1>1, <1>4, <2>2 DEF Strobe, printerSide, writer, TypeOK, Open, SentMore, Waiting, Kept
<1>5. CASE PollStatus
  <2>1. status' \in Seq({"ACK_LOW", "READY"})
    BY <1>5, HeadTailProperties DEF PollStatus, TypeOK
  <2>2. /\ port' \in {port, "idle", "awaitReady"}
        /\ port' = "awaitReady" => Waiting
    BY <1>5 DEF PollStatus, NewPortState, Waiting
  <2>3. confirmed' \in 0 .. setup.bytes
    <3>1. port = "awaitReady" => confirmed + 1 <= sent
      BY DEF SentMore, Waiting, TypeOK
    <3>2. confirmed' \in {confirmed, confirmed + 1} /\ (confirmed' # confirmed => port = "awaitReady")
      BY <1>5 DEF PollStatus
    <3>3. confirmed \in 0 .. setup.bytes /\ sent \in 0 .. setup.bytes
      BY DEF TypeOK
    <3>4. QED
      BY <1>1, <3>1, <3>2, <3>3
  <2>4. TypeOK'
    BY <1>5, <2>1, <2>2, <2>3 DEF PollStatus, printerSide, writer, TypeOK
  <2>5. QED
    BY <1>1, <1>5, <2>2, <2>3, <2>4
    DEF PollStatus, printerSide, writer, TypeOK, Open, SentMore, Waiting, Kept
<1>6. QED
  BY <1>2, <1>3, <1>4, <1>5

LEMMA NextType ==
  ASSUME TypeInv, [Next]_vars PROVE TypeInv' /\ Kept
<1>1. CASE Printer
  BY <1>1, PrinterType
<1>2. CASE Interrupt \/ CutBeforeWrite
  BY <1>2, EndsType, CutType DEF Interrupt, Ends, Kept
<1>3. CASE Start
  <2>1. 0 \in 0 .. RowsPerPage - 1 /\ <<>> \in Seq(Bytes)
    BY EmptySeq, RowsAssumption
  <2>2. QED
    BY <1>3, <2>1, FindNextNumberType
    DEF Start, Fresh, channel, TypeInv, TypeOK, Open, SentMore, Waiting, Kept
<1>4. CASE VmOpens \/ VmCloses \/ Strobe \/ PollStatus
  BY <1>4, GuestType
<1>5. CASE ForeignFile
  <2>1. PICK n \in PageNo : files[n] = Absent /\ files' = [files EXCEPT ![n] = Foreign]
    BY <1>5, SetupType DEF ForeignFile, TypeInv, TypeOK
  <2>2. current # n
    BY <2>1, NoBytes DEF TypeInv, Open, PageNo
  <2>3. files' \in [PageNo -> Seq(Bytes) \union {Absent, Foreign}]
    BY <2>1 DEF TypeInv, TypeOK
  <2>4. Kept
    BY <2>1 DEF TypeInv, TypeOK, Kept
  <2>5. QED
    BY <1>5, <2>1, <2>2, <2>3, <2>4
    DEF ForeignFile, channel, TypeInv, TypeOK, Open, SentMore, Waiting
<1>6. CASE UNCHANGED vars
  BY <1>6 DEF vars, TypeInv, TypeOK, Open, SentMore, Waiting, Kept
<1>7. QED
  BY <1>1, <1>2, <1>3, <1>4, <1>5, <1>6 DEF Next

LEMMA InitType == Init => TypeInv
<1> SUFFICES ASSUME Init PROVE TypeInv
  OBVIOUS
<1>1. /\ 0 \in 0 .. RowsPerPage - 1 /\ 1 \in 1 .. MaxPage + 1
      /\ 0 \in 0 .. MaxOpens /\ 0 \in 0 .. setup.bytes
  BY RowsAssumption, BoundAssumption, SetupType DEF Init
<1>2. \A S : <<>> \in Seq(S)
  BY EmptySeq
<1>3. QED
  BY <1>1, <1>2 DEF Init, Fresh, TypeInv, TypeOK, Open, SentMore, Waiting

(* Every variable has its type, and the printer finds a number for a page. *)
THEOREM TypeCorrect == Spec => []TypeOK
<1>1. Init => TypeInv
  BY InitType
<1>2. TypeInv /\ [Next]_vars => TypeInv'
  BY NextType
<1>3. TypeInv => TypeOK
  BY DEF TypeInv
<1>4. QED
  BY <1>1, <1>2, <1>3, PTL DEF Spec

(* PageWriter._ensure_page and _write: no step changes a page that is not  *)
(* the open one, whoever made it, and the open one only grows by a byte.   *)
THEOREM PagesOnlyGrow == Spec => PagesKept
<1>1. Init => TypeInv
  BY InitType
<1>2. TypeInv /\ [Next]_vars => TypeInv'
  BY NextType
<1>3. TypeInv /\ [Next]_vars =>
        [\A n \in PageNo : files[n] # Absent /\ files'[n] # files[n] =>
           /\ n = current /\ files[n] # Foreign
           /\ \E b \in Bytes : files'[n] = Append(files[n], b)]_vars
  BY NextType DEF Kept
<1>4. QED
  BY <1>1, <1>2, <1>3, PTL DEF Spec, PagesKept

-----------------------------------------------------------------------------
(* An ACK pulse on its way: a byte on disk that the printer is about to    *)
(* acknowledge, an ACK_LOW in the FIFO, or one that the guest has seen and *)
(* whose end it waits for.                                                 *)
AboutToAck == IF pc \in {"display", "ackLow"} THEN 1 ELSE 0
PulseSeen  == IF port = "awaitReady" THEN 1 ELSE 0
AckInv ==
  confirmed + PulseSeen + Cardinality(Acks(status)) + AboutToAck <= Cardinality(OnDisk(log))

LEMMA Counts ==
  ASSUME TypeOK
  PROVE  /\ log \in Seq(Entries) /\ status \in Seq(StatusBytes) /\ confirmed \in Nat
         /\ Cardinality(Acks(status)) \in Nat /\ Cardinality(OnDisk(log)) \in Nat
<1>1. log \in Seq(Entries) /\ status \in Seq(StatusBytes) /\ confirmed \in Nat
  BY SetupType DEF TypeOK, Entries, StatusBytes
<1>2. QED
  BY <1>1, AcksFinite, OnDiskFinite

(* Steps that take the printer, the pulses and the pages only back. *)
LEMMA AckKept ==
  ASSUME TypeOK, AckInv, confirmed' = confirmed, PulseSeen' \in {PulseSeen, 0},
         AboutToAck' \in {AboutToAck, 0}, status' \in {status, <<>>},
         OnDisk(log)' = OnDisk(log)
  PROVE  AckInv'
<1>1. Cardinality(Acks(status')) <= Cardinality(Acks(status))
      /\ Cardinality(Acks(status')) \in Nat
  BY Counts, AcksEmpty
<1>2. /\ PulseSeen \in {0, 1} /\ PulseSeen' \in {0, 1} /\ PulseSeen' <= PulseSeen
      /\ AboutToAck \in {0, 1} /\ AboutToAck' \in {0, 1} /\ AboutToAck' <= AboutToAck
  BY DEF PulseSeen, AboutToAck
<1>3. Cardinality(OnDisk(log')) = Cardinality(OnDisk(log))
  OBVIOUS
<1>4. /\ confirmed \in Nat /\ Cardinality(Acks(status)) \in Nat
      /\ Cardinality(OnDisk(log)) \in Nat
  BY Counts
<1>5. QED
  BY <1>1, <1>2, <1>3, <1>4 DEF AckInv

LEMMA StopsAck == ASSUME TypeOK, AckInv, Stops PROVE AckInv'
<1>1. OnDisk(log)' = OnDisk(log)
  BY Counts, MarksAddNothing DEF Stops
<1>2. QED
  BY <1>1, AckKept DEF Stops, PulseSeen, AboutToAck

LEMMA WriteStatusAck ==
  ASSUME TypeOK, AckInv, NEW byte \in StatusBytes, status' = Append(status, byte),
         AboutToAck' + AckOf(byte) = AboutToAck,
         UNCHANGED <<port, confirmed, log>>
  PROVE  AckInv'
<1>1. Cardinality(Acks(status')) = Cardinality(Acks(status)) + AckOf(byte)
  BY Counts, AcksAppend
<1>2. /\ PulseSeen' = PulseSeen /\ PulseSeen \in {0, 1}
      /\ AboutToAck \in {0, 1} /\ AboutToAck' \in {0, 1} /\ AckOf(byte) \in {0, 1}
  BY DEF PulseSeen, AboutToAck, AckOf
<1>3. /\ confirmed \in Nat /\ Cardinality(Acks(status)) \in Nat
      /\ Cardinality(OnDisk(log)) \in Nat
  BY Counts
<1>4. Cardinality(OnDisk(log')) = Cardinality(OnDisk(log)) /\ confirmed' = confirmed
  OBVIOUS
<1>5. QED
  BY <1>1, <1>2, <1>3, <1>4 DEF AckInv

LEMMA ConsumeAck ==
  ASSUME TypeInv, AckInv, Consume PROVE AckInv'
<1>1. chunk \in Entries \ {"EOF", "STOP"}
  BY LettersAssumption DEF Consume, TypeInv, Open, Entries, Bytes
<1>2. log \in Seq(Entries) /\ log' = Append(log, chunk)
  BY Counts DEF TypeInv, Consume
<1>3. OnDisk(log') = OnDisk(log) \union {Len(log) + 1} /\ Len(log) + 1 \notin OnDisk(log)
  BY <1>1, <1>2, OnDiskAppend
<1>4. Cardinality(OnDisk(log')) = Cardinality(OnDisk(log)) + 1
  BY <1>2, <1>3, OnDiskFinite, FS_AddElement
<1>5. AboutToAck = 0 /\ AboutToAck' = 1 /\ PulseSeen' = PulseSeen /\ PulseSeen \in {0, 1}
      /\ UNCHANGED <<status, confirmed>>
  BY DEF Consume, channel, AboutToAck, PulseSeen
<1>6. QED
  BY <1>4, <1>5, Counts DEF AckInv, TypeInv

LEMMA PollAck ==
  ASSUME TypeOK, AckInv, PollStatus PROVE AckInv'
<1>1. /\ Cardinality(Acks(status')) + AckOf(Head(status)) <= Cardinality(Acks(status))
      /\ Cardinality(Acks(status')) \in Nat
  BY Counts, AcksTail, AcksFinite DEF PollStatus
<1>2. /\ AboutToAck' = AboutToAck /\ AboutToAck \in {0, 1}
      /\ Cardinality(OnDisk(log')) = Cardinality(OnDisk(log))
  BY DEF PollStatus, printerSide, AboutToAck
<1>3. /\ PulseSeen \in {0, 1} /\ PulseSeen' \in {0, 1} /\ AckOf(Head(status)) \in {0, 1}
      /\ confirmed' \in {confirmed, confirmed + 1}
      /\ confirmed' = confirmed => PulseSeen' <= PulseSeen + AckOf(Head(status))
      /\ confirmed' # confirmed => PulseSeen' = 0 /\ PulseSeen = 1
  BY Counts DEF PollStatus, NewPortState, PulseSeen, AckOf
<1>4. /\ confirmed \in Nat /\ Cardinality(Acks(status)) \in Nat
      /\ Cardinality(OnDisk(log)) \in Nat
  BY Counts
<1>5. QED
  BY <1>1, <1>2, <1>3, <1>4 DEF AckInv

LEMMA NextAck ==
  ASSUME TypeInv, AckInv, [Next]_vars PROVE AckInv'
<1> USE DEF TypeInv
<1>1. CASE OpenData \/ OpenStatus \/ Read \/ Display \/ VmOpens \/ VmCloses \/ Strobe
           \/ Start \/ ForeignFile \/ UNCHANGED vars
  BY <1>1, AckKept
  DEF OpenData, OpenStatus, Read, Display, VmOpens, VmCloses, Strobe, Start, ForeignFile,
      vars, printerSide, channel, writer, PulseSeen, AboutToAck
<1>2. CASE Greet
  BY <1>2, WriteStatusAck DEF Greet, WriteStatus, StatusBytes, AboutToAck, AckOf
<1>3. CASE AckLow
  BY <1>3, WriteStatusAck DEF AckLow, WriteStatus, StatusBytes, AboutToAck, AckOf
<1>4. CASE AckReady
  BY <1>4, WriteStatusAck DEF AckReady, WriteStatus, StatusBytes, AboutToAck, AckOf
<1>5. CASE Consume
  BY <1>5, ConsumeAck
<1>6. CASE PortClosed
  <2>1. OnDisk(log)' = OnDisk(log)
    BY <1>6, Counts, MarksAddNothing DEF PortClosed
  <2>2. QED
    BY <1>6, <2>1, AckKept DEF PortClosed, PulseSeen, AboutToAck
<1>7. CASE BrokenPipe \/ Interrupt \/ CutBeforeWrite
  BY <1>7, StopsAck DEF BrokenPipe, Interrupt, CutBeforeWrite, Ends
<1>8. CASE PollStatus
  BY <1>8, PollAck
<1>9. QED
  BY <1>1, <1>2, <1>3, <1>4, <1>5, <1>6, <1>7, <1>8 DEF Next, Printer

(* receive() writes the ACK pulse of a byte only after consume has flushed *)
(* it to its page: a guest that has seen the pulse finds it on disk, also  *)
(* when it strobes early, and when either side goes away in between.       *)
THEOREM AcknowledgedIsOnDisk == Spec => []AckedOnDisk
<1>1. Init => TypeInv /\ AckInv
  <2> SUFFICES ASSUME Init PROVE TypeInv /\ AckInv
    OBVIOUS
  <2>1. TypeInv
    BY InitType
  <2>2. Cardinality(OnDisk(log)) \in Nat
    BY <2>1, Counts DEF TypeInv
  <2>3. QED
    BY <2>1, <2>2, AcksEmpty DEF Init, AckInv, PulseSeen, AboutToAck
<1>2. TypeInv /\ AckInv /\ [Next]_vars => (TypeInv /\ AckInv)'
  BY NextType, NextAck
<1>3. TypeInv /\ AckInv => AckedOnDisk
  <2> SUFFICES ASSUME TypeInv, AckInv PROVE AckedOnDisk
    OBVIOUS
  <2>1. PulseSeen \in {0, 1} /\ AboutToAck \in {0, 1}
    BY DEF PulseSeen, AboutToAck
  <2>2. confirmed <= Cardinality(OnDisk(log))
    BY <2>1, Counts DEF TypeInv, AckInv
  <2>3. QED
    BY <2>2 DEF AckedOnDisk, OnDisk
<1>4. QED
  BY <1>1, <1>2, <1>3, PTL DEF Spec

-----------------------------------------------------------------------------
(* What the history says, for any history l.                               *)
MarkIn(l, i) == i \in DOMAIN l /\ l[i] \in {"FF", "EOF", "STOP"}
IsLast(l, i, m) == /\ m \in 0 .. i - 1
                   /\ m = 0 \/ MarkIn(l, m)
                   /\ \A j \in m + 1 .. i - 1 : ~MarkIn(l, j)
LastIn(l, i) == CHOOSE m \in 0 .. i - 1 :
                  (m = 0 \/ MarkIn(l, m)) /\ \A j \in m + 1 .. i - 1 : ~MarkIn(l, j)
EndsIn(l, i) == \/ MarkIn(l, i) /\ l[i] = "FF"
                \/ (MarkIn(l, i) \/ i = Len(l) + 1) /\ LastIn(l, i) < i - 1
Page(l, i)   == SubSeq(l, LastIn(l, i) + 1, i - 1)

LEMMA LastUnique ==
  ASSUME NEW l, NEW i \in Nat, NEW m, NEW n, IsLast(l, i, m), IsLast(l, i, n)
  PROVE  m = n
<1>1. /\ m \in Nat /\ n \in Nat /\ m <= i - 1 /\ n <= i - 1
  BY DEF IsLast
<1>2. ~(m < n)
  <2>1. m < n => n \in m + 1 .. i - 1 /\ n # 0
    BY <1>1
  <2>2. QED
    BY <2>1 DEF IsLast
<1>3. ~(n < m)
  <2>1. n < m => m \in n + 1 .. i - 1 /\ m # 0
    BY <1>1
  <2>2. QED
    BY <2>1 DEF IsLast
<1>4. QED
  BY <1>1, <1>2, <1>3

LEMMA LastIs ==
  ASSUME NEW l, NEW i \in Nat \ {0}
  PROVE  /\ IsLast(l, i, LastIn(l, i))
         /\ \A m : IsLast(l, i, m) => LastIn(l, i) = m
<1> DEFINE T == {m \in 0 .. i - 1 : \A j \in m + 1 .. i - 1 : ~MarkIn(l, j)}
<1>1. T \subseteq Nat /\ T # {}
  <2>1. i - 1 \in T
    OBVIOUS
  <2>2. QED
    BY <2>1
<1>2. \E n \in T : \A m \in T : ~(<<m, n>> \in OpToRel(<, Nat))
  <2> HIDE DEF T
  <2>1. QED
    BY <1>1, WFMin, NatLessThanWellFounded
<1>3. PICK n \in T : \A m \in T : ~(m < n)
  BY <1>1, <1>2 DEF OpToRel
<1>4. n # 0 => MarkIn(l, n)
  <2> SUFFICES ASSUME n # 0, ~MarkIn(l, n) PROVE FALSE
    OBVIOUS
  <2>1. n - 1 \in 0 .. i - 1 /\ n - 1 < n
    OBVIOUS
  <2>2. \A j \in (n - 1) + 1 .. i - 1 : j = n \/ j \in n + 1 .. i - 1
    OBVIOUS
  <2>3. n - 1 \in T
    BY <2>1, <2>2
  <2>4. QED
    BY <1>3, <2>1, <2>3
<1>5. IsLast(l, i, n)
  BY <1>4 DEF IsLast
<1>6. IsLast(l, i, LastIn(l, i))
  BY <1>5 DEF IsLast, LastIn
<1>7. QED
  BY <1>6, LastUnique

(* One entry more leaves all before it as it was. *)
LEMMA HistoryAppend ==
  ASSUME NEW l \in Seq(Entries), NEW x \in Entries, NEW t, t = Append(l, x)
  PROVE  /\ t \in Seq(Entries) /\ Len(l) \in Nat /\ Len(t) = Len(l) + 1 /\ t[Len(l) + 1] = x
         /\ DOMAIN l = 1 .. Len(l) /\ DOMAIN t = 1 .. Len(l) + 1
         /\ \A i \in 1 .. Len(l) : t[i] = l[i] /\ (MarkIn(t, i) <=> MarkIn(l, i))
         /\ MarkIn(t, Len(l) + 1) <=> x \in {"FF", "EOF", "STOP"}
BY AppendProperties, LenProperties DEF MarkIn

LEMMA LastAppend ==
  ASSUME NEW l \in Seq(Entries), NEW x \in Entries
  PROVE  /\ \A i \in 1 .. Len(l) + 1 : LastIn(Append(l, x), i) = LastIn(l, i)
         /\ LastIn(Append(l, x), Len(l) + 2) = IF x \in {"FF", "EOF", "STOP"} THEN Len(l) + 1
                                    ELSE LastIn(l, Len(l) + 1)
<1> DEFINE n == Len(l)
           t == Append(l, x)
<1>1. n \in Nat /\ \A i \in 1 .. n : MarkIn(t, i) <=> MarkIn(l, i)
  BY HistoryAppend
<1>2. MarkIn(t, n + 1) <=> x \in {"FF", "EOF", "STOP"}
  BY HistoryAppend
<1> HIDE DEF n, t
<1>3. ASSUME NEW i \in 1 .. n + 1 PROVE LastIn(t, i) = LastIn(l, i)
  <2>1. IsLast(l, i, LastIn(l, i))
    BY <1>1, LastIs
  <2>2. IsLast(t, i, LastIn(l, i))
    BY <1>1, <2>1 DEF IsLast
  <2>3. QED
    BY <1>1, <2>2, LastIs
<1>4. ASSUME x \in {"FF", "EOF", "STOP"} PROVE LastIn(t, n + 2) = n + 1
  <2>1. IsLast(t, n + 2, n + 1)
    BY <1>1, <1>2, <1>4 DEF IsLast
  <2>2. QED
    BY <1>1, <2>1, LastIs
<1>5. ASSUME x \notin {"FF", "EOF", "STOP"} PROVE LastIn(t, n + 2) = LastIn(l, n + 1)
  <2>1. IsLast(l, n + 1, LastIn(l, n + 1))
    BY <1>1, LastIs
  <2>2. \A j : j \in LastIn(l, n + 1) + 1 .. (n + 2) - 1
                 => j = n + 1 \/ j \in LastIn(l, n + 1) + 1 .. (n + 1) - 1
    BY <1>1, <2>1 DEF IsLast
  <2>3. \A j \in LastIn(l, n + 1) + 1 .. (n + 1) - 1 : j \in 1 .. n
    BY <1>1, <2>1 DEF IsLast
  <2>4. IsLast(t, n + 2, LastIn(l, n + 1))
    BY <1>1, <1>2, <1>5, <2>1, <2>2, <2>3 DEF IsLast
  <2>5. QED
    BY <1>1, <1>5, <2>4, LastIs
<1>6. LastIn(t, n + 2) = IF x \in {"FF", "EOF", "STOP"} THEN n + 1 ELSE LastIn(l, n + 1)
  BY <1>4, <1>5
<1>7. QED
  BY <1>3, <1>6 DEF n, t

LEMMA PageAppend ==
  ASSUME NEW l \in Seq(Entries), NEW x \in Entries, NEW t, t = Append(l, x)
  PROVE  /\ \A i \in 1 .. Len(l) + 1 : Page(t, i) = Page(l, i)
         /\ \A i \in 1 .. Len(l) : EndsIn(t, i) <=> EndsIn(l, i)
         /\ EndsIn(l, Len(l) + 1) <=> LastIn(l, Len(l) + 1) < Len(l)
         /\ EndsIn(t, Len(l) + 1) <=> \/ x = "FF"
                                      \/ x \in {"EOF", "STOP"} /\ LastIn(l, Len(l) + 1) < Len(l)
         /\ EndsIn(t, Len(l) + 2) <=> x \notin {"FF", "EOF", "STOP"}
         /\ x \notin {"FF", "EOF", "STOP"} => Page(t, Len(l) + 2) = Append(Page(l, Len(l) + 1), x)
<1> DEFINE n == Len(l)
           m == LastIn(l, n + 1)
<1>1. /\ n \in Nat /\ DOMAIN l = 1 .. n /\ DOMAIN t = 1 .. n + 1 /\ Len(t) = n + 1
      /\ t \in Seq(Entries) /\ t[n + 1] = x
      /\ \A i \in 1 .. n : t[i] = l[i] /\ (MarkIn(t, i) <=> MarkIn(l, i))
      /\ MarkIn(t, n + 1) <=> x \in {"FF", "EOF", "STOP"}
  BY HistoryAppend
<1>2. /\ \A i \in 1 .. n + 1 : LastIn(t, i) = LastIn(l, i)
      /\ LastIn(t, n + 2) = IF x \in {"FF", "EOF", "STOP"} THEN n + 1 ELSE m
  BY LastAppend
<1>3. \A i \in 1 .. n + 1 : LastIn(l, i) \in 0 .. i - 1
  BY <1>1, LastIs DEF IsLast
<1>4. ~MarkIn(l, n + 1) /\ ~MarkIn(t, n + 2)
  BY <1>1 DEF MarkIn
<1> HIDE DEF n
<1>5. ASSUME NEW i \in 1 .. n + 1 PROVE Page(t, i) = Page(l, i)
  <2> DEFINE a == LastIn(l, i) + 1
             b == i - 1
  <2>1. a \in 1 .. n + 1 /\ b \in 0 .. n /\ \A j \in a .. b : j \in 1 .. n
    BY <1>1, <1>3
  <2>2. \A j \in a .. b : l[j] \in Entries /\ t[j] \in Entries /\ t[j] = l[j]
    BY <1>1, <2>1, ElementOfSeq DEF n
  <2> HIDE DEF a, b
  <2>3. SubSeq(t, a, b) = SubSeq(l, a, b)
    <3>1. /\ SubSeq(t, a, b) \in Seq(Entries) /\ SubSeq(l, a, b) \in Seq(Entries)
          /\ Len(SubSeq(t, a, b)) = (IF a <= b THEN b - a + 1 ELSE 0)
          /\ Len(SubSeq(l, a, b)) = (IF a <= b THEN b - a + 1 ELSE 0)
          /\ \A k \in 1 .. b - a + 1 : SubSeq(t, a, b)[k] = t[a + k - 1]
                                       /\ SubSeq(l, a, b)[k] = l[a + k - 1]
      BY <1>1, <2>1, <2>2, SubSeqProperties
    <3>2. \A k \in 1 .. Len(SubSeq(t, a, b)) : SubSeq(t, a, b)[k] = SubSeq(l, a, b)[k]
      <4>1. ASSUME NEW k \in 1 .. Len(SubSeq(t, a, b))
            PROVE  k \in 1 .. b - a + 1 /\ a + k - 1 \in a .. b
        BY <2>1, <3>1
      <4>2. QED
        BY <2>2, <3>1, <4>1
    <3>3. QED
      BY <3>1, <3>2, SeqEqual
  <2>4. QED
    BY <1>2, <2>3 DEF Page, a, b
<1>6. ASSUME NEW i \in 1 .. n PROVE EndsIn(t, i) <=> EndsIn(l, i)
  <2>1. i # n + 1 /\ i # (n + 1) + 1 /\ i \in 1 .. n + 1
    BY <1>1
  <2>2. QED
    BY <1>1, <1>2, <2>1 DEF EndsIn, n
<1>7. EndsIn(l, n + 1) <=> m < n
  BY <1>1, <1>4 DEF EndsIn, n
<1>8. EndsIn(t, n + 1) <=> x = "FF" \/ (x \in {"EOF", "STOP"} /\ m < n)
  <2>1. LastIn(t, n + 1) = m /\ n + 1 # Len(t) + 1 /\ (n + 1) - 1 = n
    BY <1>1, <1>2
  <2>2. QED
    BY <1>1, <2>1 DEF EndsIn
<1>9. EndsIn(t, n + 2) <=> x \notin {"FF", "EOF", "STOP"}
  <2>1. n + 2 = Len(t) + 1 /\ (n + 2) - 1 = n + 1 /\ m \in 0 .. n
    BY <1>1, <1>3
  <2>2. QED
    BY <1>1, <1>2, <1>4, <2>1 DEF EndsIn
<1>10. ASSUME x \notin {"FF", "EOF", "STOP"} PROVE Page(t, n + 2) = Append(Page(l, n + 1), x)
  <2>1. m \in 0 .. n /\ LastIn(t, n + 2) = m /\ LastIn(t, n + 1) = m
    BY <1>1, <1>2, <1>3, <1>10
  <2> DEFINE a == m + 1
  <2>2. a \in 1 .. n + 1 /\ a \in 1 .. Len(t) /\ n + 1 \in a .. Len(t) /\ (n + 1) - 1 = n
        /\ (n + 2) - 1 = n + 1
    BY <1>1, <2>1
  <2> HIDE DEF m, a
  <2>3. SubSeq(t, a, n + 1) = SubSeq(t, a, (n + 1) - 1) \o <<t[n + 1]>>
    BY <1>1, <2>2, SubSeqRecursiveSecond
  <2>4. SubSeq(t, a, n) \in Seq(Entries)
    <3>1. \A j \in a .. n : t[j] \in Entries
      BY <1>1, <2>2, ElementOfSeq
    <3>2. QED
      BY <1>1, <2>2, <3>1, SubSeqProperties
  <2>5. SubSeq(t, a, n + 1) = Append(SubSeq(t, a, n), x)
    BY <1>1, <2>2, <2>3, <2>4, AppendIsConcat
  <2>6. Page(t, n + 1) = SubSeq(t, a, n) /\ Page(t, n + 2) = SubSeq(t, a, n + 1)
    BY <2>1, <2>2 DEF Page, a
  <2>7. Page(t, n + 1) = Page(l, n + 1)
    BY <1>1, <1>5
  <2>8. QED
    BY <2>5, <2>6, <2>7
<1>11. QED
  BY <1>5, <1>6, <1>7, <1>8, <1>9, <1>10 DEF n

-----------------------------------------------------------------------------
(* How many members P has up to a number.                                  *)
UpTo(P, i) == Cardinality({j \in 1 .. i : j \in P})

LEMMA UpToCounts ==
  ASSUME NEW P, NEW i \in Nat
  PROVE  /\ UpTo(P, i) \in Nat
         /\ UpTo(P, i + 1) = IF i + 1 \in P THEN UpTo(P, i) + 1 ELSE UpTo(P, i)
         /\ \A j \in 0 .. i : UpTo(P, j) <= UpTo(P, i)
         /\ i # 0 /\ i \in P => UpTo(P, i) >= 1
<1> DEFINE S(k) == {j \in 1 .. k : j \in P}
<1>1. ASSUME NEW k \in Nat PROVE IsFiniteSet(S(k)) /\ Cardinality(S(k)) \in Nat
  <2>1. IsFiniteSet(1 .. k) /\ S(k) \in SUBSET (1 .. k)
    BY FS_Interval
  <2>2. QED
    BY <2>1, FS_Subset, FS_CardinalityType
<1>2. UpTo(P, i + 1) = IF i + 1 \in P THEN UpTo(P, i) + 1 ELSE UpTo(P, i)
  <2>1. S(i + 1) = IF i + 1 \in P THEN S(i) \union {i + 1} ELSE S(i)
    OBVIOUS
  <2>2. i + 1 \notin S(i)
    OBVIOUS
  <2>3. IsFiniteSet(S(i))
    BY <1>1
  <2>4. Cardinality(S(i) \union {i + 1}) = Cardinality(S(i)) + 1
    <3> HIDE DEF S
    <3>1. QED
      BY <2>2, <2>3, FS_AddElement
  <2>5. QED
    BY <2>1, <2>4 DEF UpTo
<1>3. ASSUME NEW j \in 0 .. i PROVE UpTo(P, j) <= UpTo(P, i)
  <2>1. S(j) \in SUBSET S(i) /\ IsFiniteSet(S(i))
    BY <1>1
  <2>2. Cardinality(S(j)) <= Cardinality(S(i))
    <3> HIDE DEF S
    <3>1. QED
      BY <2>1, FS_Subset
  <2>3. QED
    BY <2>2 DEF UpTo
<1>4. ASSUME i # 0, i \in P PROVE UpTo(P, i) >= 1
  <2>1. i \in S(i) /\ IsFiniteSet(S(i)) /\ Cardinality(S(i)) \in Nat
    BY <1>1, <1>4
  <2>2. Cardinality(S(i)) # 0
    <3> HIDE DEF S
    <3>1. QED
      BY <2>1, FS_EmptySet
  <2>3. QED
    BY <2>1, <2>2 DEF UpTo
<1>5. UpTo(P, i) \in Nat
  BY <1>1 DEF UpTo
<1>6. QED
  BY <1>2, <1>3, <1>4, <1>5

EndedIn(l, i) == Cardinality({j \in 1 .. i : EndsIn(l, j)})

LEMMA EndedCounts ==
  ASSUME NEW l, NEW i \in Nat
  PROVE  /\ EndedIn(l, i) \in Nat
         /\ EndedIn(l, i + 1) = IF EndsIn(l, i + 1) THEN EndedIn(l, i) + 1 ELSE EndedIn(l, i)
         /\ \A j \in 0 .. i : EndedIn(l, j) <= EndedIn(l, i)
         /\ i # 0 /\ EndsIn(l, i) => EndedIn(l, i) >= 1
<1> DEFINE P == {j \in Nat : EndsIn(l, j)}
<1>1. \A j \in Nat : j \in P <=> EndsIn(l, j)
  OBVIOUS
<1>2. \A k : EndedIn(l, k) = UpTo(P, k)
  BY DEF EndedIn, UpTo
<1> HIDE DEF P
<1>3. /\ UpTo(P, i) \in Nat
      /\ UpTo(P, i + 1) = IF i + 1 \in P THEN UpTo(P, i) + 1 ELSE UpTo(P, i)
      /\ \A j \in 0 .. i : UpTo(P, j) <= UpTo(P, i)
      /\ i # 0 /\ i \in P => UpTo(P, i) >= 1
  BY UpToCounts
<1>4. (i + 1 \in P <=> EndsIn(l, i + 1)) /\ (i \in P <=> EndsIn(l, i))
  BY <1>1
<1>5. QED
  BY <1>2, <1>3, <1>4

LEMMA EndedAppend ==
  ASSUME NEW l \in Seq(Entries), NEW x \in Entries
  PROVE  LET n == Len(l)
             t == Append(l, x)
             open == LastIn(l, n + 1) < n
         IN  /\ \A i \in 0 .. n : EndedIn(t, i) = EndedIn(l, i)
             /\ EndedIn(l, n + 1) = EndedIn(l, n) + (IF open THEN 1 ELSE 0)
             /\ EndedIn(t, n + 1) = EndedIn(l, n) + (IF \/ x = "FF"
                                                        \/ x \in {"EOF", "STOP"} /\ open
                                                     THEN 1 ELSE 0)
             /\ EndedIn(t, n + 2) = EndedIn(t, n + 1)
                                    + (IF x \notin {"FF", "EOF", "STOP"} THEN 1 ELSE 0)
<1> DEFINE n == Len(l)
           t == Append(l, x)
           open == LastIn(l, n + 1) < n
<1>1. n \in Nat
  BY LenProperties
<1>2. /\ \A i \in 1 .. n : EndsIn(t, i) <=> EndsIn(l, i)
      /\ EndsIn(l, n + 1) <=> open
      /\ EndsIn(t, n + 1) <=> x = "FF" \/ (x \in {"EOF", "STOP"} /\ open)
      /\ EndsIn(t, n + 2) <=> x \notin {"FF", "EOF", "STOP"}
  BY PageAppend
<1> HIDE DEF n, t, open
<1>3. ASSUME NEW i \in 0 .. n PROVE EndedIn(t, i) = EndedIn(l, i)
  <2>1. {j \in 1 .. i : EndsIn(t, j)} = {j \in 1 .. i : EndsIn(l, j)}
    BY <1>1, <1>2
  <2>2. QED
    BY <2>1 DEF EndedIn
<1>4. EndedIn(l, n + 1) = EndedIn(l, n) + (IF open THEN 1 ELSE 0)
  <2>1. EndedIn(l, n) \in Nat
        /\ EndedIn(l, n + 1) = IF EndsIn(l, n + 1) THEN EndedIn(l, n) + 1 ELSE EndedIn(l, n)
    BY <1>1, EndedCounts
  <2>2. QED
    BY <1>2, <2>1
<1>5. EndedIn(t, n + 1) = EndedIn(l, n) + (IF x = "FF" \/ (x \in {"EOF", "STOP"} /\ open)
                                           THEN 1 ELSE 0)
  <2>1. EndedIn(t, n) = EndedIn(l, n) /\ EndedIn(t, n) \in Nat
    BY <1>1, <1>3, EndedCounts
  <2>2. EndedIn(t, n + 1) = IF EndsIn(t, n + 1) THEN EndedIn(t, n) + 1 ELSE EndedIn(t, n)
    BY <1>1, EndedCounts
  <2>3. QED
    BY <1>2, <2>1, <2>2
<1>6. EndedIn(t, n + 2) = EndedIn(t, n + 1) + (IF x \notin {"FF", "EOF", "STOP"} THEN 1 ELSE 0)
  <2>1. n + 1 \in Nat /\ (n + 1) + 1 = n + 2
    BY <1>1
  <2>2. EndedIn(t, n + 1) \in Nat
        /\ EndedIn(t, n + 2) = IF EndsIn(t, n + 2) THEN EndedIn(t, n + 1) + 1
                               ELSE EndedIn(t, n + 1)
    BY <2>1, EndedCounts
  <2>3. QED
    BY <1>2, <2>2
<1>7. QED
  BY <1>3, <1>4, <1>5, <1>6 DEF n, t, open

(* The files f, numbered m, hold the pages of the history l.               *)
Holds(l, f, m) ==
  /\ Len(m) = EndedIn(l, Len(l) + 1)
  /\ \A i \in 1 .. Len(l) + 1 : EndsIn(l, i) => f[m[EndedIn(l, i)]] = Page(l, i)

BlankInv == \A n \in blank : files[n] = <<>> /\ \A i \in DOMAIN mine : mine[i] # n

LEMMA PagesHeld == PagesMatch <=> BlankInv /\ Holds(log, files, mine)
BY DEF BlankInv, PagesMatch, Holds, PagesEnded, EndedIn, EndsPage, EndsIn, LastMark, LastIn, Mark,
       MarkIn, Page

(* An end of file and a stop of the printer end the open page, no more.    *)
LEMMA MarkHolds ==
  ASSUME NEW l \in Seq(Entries), NEW x \in {"EOF", "STOP"}, NEW f, NEW m
  PROVE  Holds(Append(l, x), f, m) <=> Holds(l, f, m)
<1> DEFINE n == Len(l)
           t == Append(l, x)
           open == LastIn(l, n + 1) < n
<1>1. n \in Nat /\ Len(t) = n + 1 /\ x \in Entries
  BY LenProperties, AppendProperties DEF Entries
<1>2. /\ \A i \in 1 .. n + 1 : Page(t, i) = Page(l, i)
      /\ \A i \in 1 .. n : EndsIn(t, i) <=> EndsIn(l, i)
      /\ EndsIn(l, n + 1) <=> open
      /\ EndsIn(t, n + 1) <=> open
      /\ ~EndsIn(t, n + 2)
  BY <1>1, PageAppend
<1>3. /\ \A i \in 0 .. n : EndedIn(t, i) = EndedIn(l, i)
      /\ EndedIn(l, n + 1) = EndedIn(l, n) + (IF open THEN 1 ELSE 0)
      /\ EndedIn(t, n + 1) = EndedIn(l, n) + (IF open THEN 1 ELSE 0)
      /\ EndedIn(t, n + 2) = EndedIn(t, n + 1) + 0 /\ EndedIn(l, n) \in Nat
  BY <1>1, EndedAppend, EndedCounts
<1> HIDE DEF n, t, open
<1>4. \A i \in 1 .. n + 1 : EndedIn(t, i) = EndedIn(l, i) /\ (EndsIn(t, i) <=> EndsIn(l, i))
  <2>1. \A i \in 1 .. n + 1 : i \in 1 .. n \/ i = n + 1
    BY <1>1
  <2>2. QED
    BY <1>1, <1>2, <1>3, <2>1
<1>5. /\ EndedIn(t, Len(t) + 1) = EndedIn(l, n + 1)
      /\ \A i : i \in 1 .. Len(t) + 1 <=> i \in 1 .. n + 1 \/ i = n + 2
  BY <1>1, <1>3
<1>6. QED
  BY <1>2, <1>4, <1>5 DEF Holds, n, t

(* The open page is the last that the printer has made, and it is open     *)
(* while the history has bytes after its last mark.                        *)
PageInv ==
  /\ current # 0 <=> LastIn(log, Len(log) + 1) < Len(log)
  /\ current # 0 => mine # <<>> /\ current = mine[Len(mine)]
  /\ \A k \in DOMAIN mine : files[mine[k]] \in Seq(Bytes)
  /\ \A k, j \in DOMAIN mine : k # j => mine[k] # mine[j]
  /\ Holds(log, files, mine)

(* What a byte does to the files: the page written is the one after those  *)
(* that have ended, and these are left alone.                              *)
LEMMA PutOnPages ==
  ASSUME TypeInv, PageInv, NEW content, PutOn(content),
         content = <<>> \/ \E b \in Bytes : content = <<b>>
  PROVE  LET ended == EndedIn(log, Len(log))
         IN  /\ ended \in Nat /\ mine' \in Seq(PageNo) /\ Len(mine') = ended + 1
             /\ mine'[ended + 1] = WrittenPage
             /\ \A k \in 1 .. ended : k \in DOMAIN mine /\ mine'[k] = mine[k]
                                      /\ files'[mine[k]] = files[mine[k]]
             /\ files'[WrittenPage] = Page(log, Len(log) + 1) \o content
             /\ files'[WrittenPage] \in Seq(Bytes)
             /\ \A k, j \in DOMAIN mine' : k # j => mine'[k] # mine'[j]
<1> DEFINE n == Len(log)
           ended == EndedIn(log, n)
           open == LastIn(log, n + 1) < n
<1>1. /\ log \in Seq(Entries) /\ mine \in Seq(PageNo) /\ DOMAIN mine = 1 .. Len(mine)
      /\ n \in Nat /\ Len(mine) \in Nat
      /\ files \in [PageNo -> Seq(Bytes) \union {Absent, Foreign}]
  BY LenProperties DEF TypeInv, TypeOK, Entries
<1>2. /\ Len(mine) = EndedIn(log, n + 1)
      /\ \A i \in 1 .. n + 1 : EndsIn(log, i) => files[mine[EndedIn(log, i)]] = Page(log, i)
      /\ current # 0 <=> open
      /\ current # 0 => mine # <<>> /\ current = mine[Len(mine)]
      /\ \A k \in DOMAIN mine : files[mine[k]] \in Seq(Bytes)
      /\ \A k, j \in DOMAIN mine : k # j => mine[k] # mine[j]
  BY DEF PageInv, Holds
<1>3. /\ ended \in Nat
      /\ EndsIn(log, n + 1) <=> open
      /\ EndedIn(log, n + 1) = ended + (IF open THEN 1 ELSE 0)
  <2>1. ended \in Nat
        /\ EndedIn(log, n + 1) = IF EndsIn(log, n + 1) THEN ended + 1 ELSE ended
    BY <1>1, EndedCounts
  <2>2. EndsIn(log, n + 1) <=> open
    BY <1>1, PageAppend DEF Entries
  <2>3. QED
    BY <2>1, <2>2
<1>4. /\ WrittenPage \in PageNo /\ files'[WrittenPage] \in Seq(Bytes) /\ mine' \in Seq(PageNo)
  BY PutOnType
<1> HIDE DEF n, ended, open
<1>5. CASE current # 0
  <2>1. /\ files' = [files EXCEPT ![current] = files[current] \o content]
        /\ mine' = mine /\ WrittenPage = current
    BY <1>5 DEF PutOn, WrittenPage
  <2>2. /\ open /\ Len(mine) = ended + 1 /\ current = mine[ended + 1]
        /\ EndedIn(log, n + 1) = ended + 1
    BY <1>1, <1>2, <1>3, <1>5
  <2>3. files[current] = Page(log, n + 1)
    BY <1>1, <1>2, <1>3, <2>2
  <2>4. \A k \in 1 .. ended : k \in DOMAIN mine /\ k # ended + 1 /\ ended + 1 \in DOMAIN mine
    BY <1>1, <1>3, <2>2
  <2>5. \A k \in 1 .. ended : mine[k] # current /\ mine[k] \in PageNo
    BY <1>1, <1>2, <2>2, <2>4, ElementOfSeq
  <2>6. \A k \in 1 .. ended : files'[mine[k]] = files[mine[k]]
    BY <1>1, <2>1, <2>5
  <2>7. files'[current] = Page(log, n + 1) \o content
    BY <1>1, <1>4, <2>1, <2>3
  <2>8. QED
    BY <1>1, <1>2, <1>3, <1>4, <2>1, <2>2, <2>4, <2>6, <2>7 DEF n, ended
<1>6. CASE current = 0
  <2>1. PICK p \in PageNo : /\ Creatable(p)
                            /\ files' = [files EXCEPT ![p] = content]
                            /\ nextNumber' = p + 1
                            /\ mine' = Append(mine, p)
    BY <1>6 DEF PutOn, Create
  <2>2. files[p] = Absent /\ WrittenPage = p
    BY <1>6, <2>1, BoundAssumption DEF Creatable, WrittenPage, PageNo
  <2>3. ~open /\ Len(mine) = ended
    <3>1. ~open
      BY <1>2, <1>6
    <3>2. EndedIn(log, n + 1) = ended
      BY <1>3, <3>1
    <3>3. QED
      BY <1>2, <3>1, <3>2
  <2>4. /\ Len(mine') = ended + 1 /\ mine'[ended + 1] = p /\ DOMAIN mine' = 1 .. ended + 1
        /\ \A k \in 1 .. ended : k \in DOMAIN mine /\ mine'[k] = mine[k]
    BY <1>1, <1>4, <2>1, <2>3, AppendProperties, LenProperties
  <2>5. \A k \in 1 .. ended : mine[k] # p /\ mine[k] \in PageNo
    <3>1. \A k \in 1 .. ended : mine[k] \in PageNo
      BY <1>1, <2>3, ElementOfSeq
    <3>2. \A k \in 1 .. ended : files[mine[k]] # Absent
      BY <1>2, <2>4, NoBytes
    <3>3. QED
      BY <2>2, <3>1, <3>2
  <2>6. \A k \in 1 .. ended : files'[mine[k]] = files[mine[k]]
    BY <1>1, <2>1, <2>5
  <2>7. files'[p] = Page(log, n + 1) \o content
    <3>1. LastIn(log, n + 1) = n
      <4>1. IsLast(log, n + 1, LastIn(log, n + 1))
        BY <1>1, LastIs
      <4>2. QED
        BY <1>1, <2>3, <4>1 DEF IsLast, open
    <3>2. Page(log, n + 1) = <<>>
      <4>1. SubSeq(log, n + 1, n) = <<>>
        BY <1>1, SubSeqEmpty
      <4>2. QED
        BY <1>1, <3>1, <4>1 DEF Page
    <3>3. content \in Seq(Bytes)
      BY <1>1, <1>4, <2>1, <2>2
    <3>4. QED
      BY <1>1, <2>1, <3>2, <3>3, ConcatEmptySeq
  <2>8. \A k, j \in 1 .. ended + 1 : k # j => mine'[k] # mine'[j]
    <3>1. \A k \in 1 .. ended + 1 : k \in 1 .. ended \/ k = ended + 1
      <4>1. ended \in Nat
        BY <1>3
      <4>2. QED
        BY <4>1
    <3>2. \A k, j \in 1 .. ended : k # j => mine'[k] # mine'[j]
      BY <1>2, <2>4
    <3>3. \A k \in 1 .. ended : mine'[k] # mine'[ended + 1]
      BY <2>4, <2>5
    <3>4. QED
      BY <3>1, <3>2, <3>3
  <2>9. /\ ended \in Nat /\ mine'[ended + 1] = WrittenPage
        /\ files'[WrittenPage] = Page(log, n + 1) \o content
        /\ \A k \in 1 .. ended : k \in DOMAIN mine /\ mine'[k] = mine[k]
                                 /\ files'[mine[k]] = files[mine[k]]
        /\ \A k, j \in DOMAIN mine' : k # j => mine'[k] # mine'[j]
    BY <1>3, <2>2, <2>4, <2>6, <2>7, <2>8
  <2>10. QED
    BY <1>4, <2>4, <2>9 DEF n, ended
<1>7. QED
  BY <1>5, <1>6

LEMMA ConsumePages ==
  ASSUME TypeInv, PageInv, Consume PROVE PageInv'
<1> DEFINE n == Len(log)
           x == chunk
           ended == EndedIn(log, n)
           content == IF x = "FF" THEN <<>> ELSE <<x>>
<1>1. /\ x \in Bytes /\ x \in Entries /\ x \notin {"EOF", "STOP"} /\ log \in Seq(Entries)
      /\ log' = Append(log, x) /\ n \in Nat
  BY LettersAssumption, LenProperties DEF Consume, TypeInv, TypeOK, Open, Entries, Bytes
<1>2. /\ PutOn(content) /\ (content = <<>> \/ \E b \in Bytes : content = <<b>>)
      /\ current' = IF x = "FF" THEN 0 ELSE WrittenPage
  BY <1>1 DEF Consume, FormFeed, SuppressedByte, ShownByte
<1>3. /\ ended \in Nat /\ mine' \in Seq(PageNo) /\ Len(mine') = ended + 1
      /\ mine'[ended + 1] = WrittenPage
      /\ \A k \in 1 .. ended : k \in DOMAIN mine /\ mine'[k] = mine[k]
                               /\ files'[mine[k]] = files[mine[k]]
      /\ files'[WrittenPage] = Page(log, n + 1) \o content
      /\ files'[WrittenPage] \in Seq(Bytes)
      /\ \A k, j \in DOMAIN mine' : k # j => mine'[k] # mine'[j]
  <2> HIDE DEF content
  <2>1. QED
    BY <1>2, PutOnPages
<1>4. /\ Len(log') = n + 1
      /\ LastIn(log', n + 2) = IF x = "FF" THEN n + 1 ELSE LastIn(log, n + 1)
      /\ LastIn(log, n + 1) \in 0 .. n
  <2>1. IsLast(log, n + 1, LastIn(log, n + 1))
    BY <1>1, LastIs
  <2>2. QED
    BY <1>1, <2>1, LastAppend, AppendProperties DEF IsLast
<1>5. /\ \A i \in 1 .. n + 1 : Page(log', i) = Page(log, i)
      /\ \A i \in 1 .. n : EndsIn(log', i) <=> EndsIn(log, i)
      /\ EndsIn(log', n + 1) <=> x = "FF"
      /\ EndsIn(log', n + 2) <=> x # "FF"
      /\ x # "FF" => Page(log', n + 2) = Append(Page(log, n + 1), x)
  BY <1>1, PageAppend
<1>6. /\ \A i \in 0 .. n : EndedIn(log', i) = EndedIn(log, i)
      /\ EndedIn(log', n + 1) = ended + (IF x = "FF" THEN 1 ELSE 0)
      /\ EndedIn(log', n + 2) = ended + 1
  <2>1. /\ \A i \in 0 .. n : EndedIn(log', i) = EndedIn(log, i)
        /\ EndedIn(log', n + 1) = ended + (IF x = "FF" THEN 1 ELSE 0)
        /\ EndedIn(log', n + 2) = EndedIn(log', n + 1) + (IF x # "FF" THEN 1 ELSE 0)
    BY <1>1, EndedAppend
  <2>2. QED
    BY <1>3, <2>1
<1>7. ASSUME NEW i \in 1 .. n, EndsIn(log, i)
      PROVE  EndedIn(log, i) \in 1 .. ended /\ files[mine[EndedIn(log, i)]] = Page(log, i)
  <2>1. EndedIn(log, i) \in Nat /\ EndedIn(log, i) >= 1
    BY <1>7, EndedCounts
  <2>2. EndedIn(log, i) <= ended
    BY <1>1, EndedCounts
  <2>3. i \in 1 .. n + 1
    BY <1>1
  <2>4. QED
    BY <1>3, <1>7, <2>1, <2>2, <2>3 DEF PageInv, Holds
<1> HIDE DEF n, ended
<1>8. Holds(log', files', mine')
  <2>1. ASSUME NEW i \in 1 .. n + 2, EndsIn(log', i)
        PROVE  files'[mine'[EndedIn(log', i)]] = Page(log', i)
    <3>1. CASE i \in 1 .. n
      <4>1. EndsIn(log, i) /\ EndedIn(log', i) = EndedIn(log, i) /\ i \in 1 .. n + 1
        BY <1>1, <1>5, <1>6, <2>1, <3>1
      <4>2. EndedIn(log, i) \in 1 .. ended /\ files[mine[EndedIn(log, i)]] = Page(log, i)
        BY <1>7, <3>1, <4>1
      <4>3. QED
        BY <1>3, <1>5, <4>1, <4>2
    <3>2. CASE i = n + 1
      <4>1. x = "FF" /\ EndedIn(log', i) = ended + 1 /\ i \in 1 .. n + 1
        BY <1>1, <1>5, <1>6, <2>1, <3>2
      <4>2. Page(log, n + 1) \in Seq(Entries)
        <5>1. \A j \in LastIn(log, n + 1) + 1 .. n : log[j] \in Entries
          BY <1>1, <1>4, ElementOfSeq DEF n
        <5>2. (n + 1) - 1 = n /\ LastIn(log, n + 1) + 1 \in Nat
          BY <1>1, <1>4
        <5>3. QED
          BY <1>1, <5>1, <5>2, SubSeqProperties DEF Page
      <4>3. QED
        BY <1>3, <1>5, <3>2, <4>1, <4>2, ConcatEmptySeq
    <3>3. CASE i = n + 2
      <4>1. x # "FF" /\ EndedIn(log', i) = ended + 1
        BY <1>5, <1>6, <2>1, <3>3
      <4>2. Page(log, n + 1) \in Seq(Entries)
        <5>1. \A j \in LastIn(log, n + 1) + 1 .. n : log[j] \in Entries
          BY <1>1, <1>4, ElementOfSeq DEF n
        <5>2. (n + 1) - 1 = n /\ LastIn(log, n + 1) + 1 \in Nat
          BY <1>1, <1>4
        <5>3. QED
          BY <1>1, <5>1, <5>2, SubSeqProperties DEF Page
      <4>3. Append(Page(log, n + 1), x) = Page(log, n + 1) \o <<x>>
        BY <1>1, <4>2, AppendIsConcat
      <4>4. QED
        BY <1>3, <1>5, <3>3, <4>1, <4>3
    <3>4. QED
      BY <1>1, <3>1, <3>2, <3>3
  <2>2. Len(log') + 1 = n + 2
    BY <1>1, <1>4
  <2>3. QED
    BY <1>3, <1>6, <2>1, <2>2 DEF Holds
<1>9. \A k \in DOMAIN mine' : files'[mine'[k]] \in Seq(Bytes)
  <2>1. DOMAIN mine' = 1 .. ended + 1
    BY <1>3, LenProperties
  <2>2. \A k \in 1 .. ended + 1 : k \in 1 .. ended \/ k = ended + 1
    BY <1>3
  <2>3. QED
    BY <1>3, <2>1, <2>2 DEF PageInv
<1>10. /\ current' # 0 <=> LastIn(log', Len(log') + 1) < Len(log')
       /\ current' # 0 => mine' # <<>> /\ current' = mine'[Len(mine')]
  <2>1. WrittenPage # 0 /\ mine' # <<>>
    <3>1. WrittenPage \in PageNo
      BY <1>2, PutOnType
    <3>2. QED
      BY <1>3, <3>1, EmptySeq DEF PageNo
  <2>2. Len(log') + 1 = n + 2
    BY <1>1, <1>4
  <2>3. QED
    BY <1>1, <1>2, <1>3, <1>4, <2>1, <2>2
<1>11. QED
  BY <1>3, <1>8, <1>9, <1>10 DEF PageInv

(* Where the last entry is a mark, no page is open. *)
LEMMA EndsInMark ==
  ASSUME NEW l \in Seq(Entries), l = <<>> \/ EndsWith(l, "EOF") \/ EndsWith(l, "STOP")
  PROVE  LastIn(l, Len(l) + 1) = Len(l)
<1>1. Len(l) \in Nat /\ DOMAIN l = 1 .. Len(l)
  BY LenProperties
<1>2. Len(l) = 0 \/ MarkIn(l, Len(l))
  BY <1>1, EmptySeq DEF EndsWith, MarkIn
<1>3. IsLast(l, Len(l) + 1, Len(l))
  BY <1>1, <1>2 DEF IsLast
<1>4. QED
  BY <1>1, <1>3, LastIs

LEMMA WithoutEof ==
  ASSUME NEW l \in Seq(Entries), EndsWith(l, "EOF")
  PROVE  l = Append(SubSeq(l, 1, Len(l) - 1), "EOF") /\ SubSeq(l, 1, Len(l) - 1) \in Seq(Entries)
<1>1. Len(l) \in Nat \ {0} /\ l[Len(l)] = "EOF"
  BY EmptySeq, LenProperties DEF EndsWith
<1>2. 1 \in 1 .. Len(l) /\ Len(l) \in 1 .. Len(l)
  BY <1>1
<1>3. SubSeq(l, 1, Len(l)) = SubSeq(l, 1, Len(l) - 1) \o <<l[Len(l)]>>
  BY <1>2, SubSeqRecursiveSecond
<1>4. SubSeq(l, 1, Len(l) - 1) \in Seq(Entries)
  BY WithoutLast
<1>5. QED
  BY <1>1, <1>3, <1>4, SubSeqFull, AppendIsConcat DEF Entries

LEMMA MarksHold ==
  ASSUME log \in Seq(Entries), NEW f, NEW m, Holds(log, f, m)
  PROVE  /\ WithEof \in Seq(Entries) /\ WithStop \in Seq(Entries)
         /\ Holds(WithEof, f, m) /\ Holds(WithStop, f, m)
         /\ LastIn(WithEof, Len(WithEof) + 1) = Len(WithEof)
         /\ LastIn(WithStop, Len(WithStop) + 1) = Len(WithStop)
         /\ EndsWith(WithEof, "EOF")
         /\ WithStop = <<>> \/ EndsWith(WithStop, "STOP")
<1> DEFINE l == IF EndsWith(log, "EOF") THEN SubSeq(log, 1, Len(log) - 1) ELSE log
<1>1. l \in Seq(Entries) /\ Holds(l, f, m)
  <2>1. CASE EndsWith(log, "EOF")
    <3> DEFINE k == SubSeq(log, 1, Len(log) - 1)
    <3>1. k \in Seq(Entries) /\ log = Append(k, "EOF")
      BY <2>1, WithoutEof
    <3> HIDE DEF k
    <3>2. Holds(Append(k, "EOF"), f, m) <=> Holds(k, f, m)
      BY <3>1, MarkHolds
    <3>3. Holds(k, f, m)
      BY <3>1, <3>2
    <3>4. QED
      BY <2>1, <3>1, <3>3 DEF k
  <2>2. CASE ~EndsWith(log, "EOF")
    BY <2>2
  <2>3. QED
    BY <2>1, <2>2
<1>2. WithStop = IF l = <<>> \/ EndsWith(l, "STOP") THEN l ELSE Append(l, "STOP")
  BY DEF WithStop
<1> HIDE DEF l
<1>3. ASSUME NEW k \in Seq(Entries), NEW e \in {"EOF", "STOP"}
      PROVE  Append(k, e) \in Seq(Entries) /\ EndsWith(Append(k, e), e)
  BY AppendProperties, LenProperties DEF EndsWith, Entries
<1>4. /\ WithEof \in Seq(Entries) /\ Holds(WithEof, f, m) /\ EndsWith(WithEof, "EOF")
  BY <1>3, MarkHolds DEF WithEof
<1>5. /\ WithStop \in Seq(Entries) /\ Holds(WithStop, f, m)
      /\ WithStop = <<>> \/ EndsWith(WithStop, "STOP")
  BY <1>1, <1>2, <1>3, MarkHolds
<1>6. QED
  BY <1>4, <1>5, EndsInMark

(* No page changes and none is open: what end of file, the end of the      *)
(* process and a foreign file leave.                                       *)
LEMMA EndedPages ==
  ASSUME TypeInv, PageInv, log' \in {WithEof, WithStop}, current' = 0, UNCHANGED <<files, mine>>
  PROVE  PageInv'
<1>1. log \in Seq(Entries)
  BY DEF TypeInv, TypeOK, Entries
<1>2. Holds(log', files, mine) /\ LastIn(log', Len(log') + 1) = Len(log') /\ log' \in Seq(Entries)
  BY <1>1, MarksHold DEF PageInv
<1>3. Len(log') \in Nat
  BY <1>2, LenProperties
<1>4. QED
  BY <1>2, <1>3 DEF PageInv

LEMMA EndedInMine ==
  ASSUME TypeInv, PageInv, NEW i \in 1 .. Len(log) + 1, EndsIn(log, i)
  PROVE  EndedIn(log, i) \in DOMAIN mine
<1>1. /\ log \in Seq(Entries) /\ Len(log) \in Nat
      /\ DOMAIN mine = 1 .. Len(mine) /\ Len(mine) \in Nat
  BY LenProperties DEF TypeInv, TypeOK, Entries
<1>2. EndedIn(log, i) \in Nat /\ EndedIn(log, i) >= 1
  BY <1>1, EndedCounts
<1>3. EndedIn(log, i) <= EndedIn(log, Len(log) + 1)
  BY <1>1, EndedCounts
<1>4. QED
  BY <1>1, <1>2, <1>3 DEF PageInv, Holds

LEMMA ForeignPages ==
  ASSUME TypeInv, PageInv, ForeignFile PROVE PageInv'
<1>1. PICK n \in PageNo : files[n] = Absent /\ files' = [files EXCEPT ![n] = Foreign]
  BY SetupType DEF ForeignFile, TypeInv, TypeOK
<1>2. UNCHANGED <<log, mine, current>>
  BY DEF ForeignFile
<1>3. /\ mine \in Seq(PageNo) /\ DOMAIN mine = 1 .. Len(mine) /\ Len(mine) \in Nat
      /\ files \in [PageNo -> Seq(Bytes) \union {Absent, Foreign}] /\ Len(log) \in Nat
  BY LenProperties DEF TypeInv, TypeOK
<1>4. \A k \in DOMAIN mine : files'[mine[k]] = files[mine[k]]
  <2>1. \A k \in DOMAIN mine : mine[k] # n /\ mine[k] \in PageNo
    BY <1>1, <1>3, NoBytes, ElementOfSeq DEF PageInv
  <2>2. QED
    BY <1>1, <1>3, <2>1
<1>5. \A i \in 1 .. Len(log) + 1 : EndsIn(log, i) => EndedIn(log, i) \in DOMAIN mine
  BY <1>3, EndedInMine
<1>6. Holds(log', files', mine')
  BY <1>2, <1>4, <1>5 DEF PageInv, Holds
<1>7. QED
  BY <1>2, <1>4, <1>6 DEF PageInv

(* A page that was created and not written to is none of the pages.        *)
LEMMA CutPages ==
  ASSUME TypeInv, PageInv, CutBeforeWrite PROVE PageInv'
<1>1. PICK n \in PageNo : files[n] = Absent /\ files' = [files EXCEPT ![n] = <<>>]
  BY DEF CutBeforeWrite, Create, Creatable
<1>2. UNCHANGED mine /\ log' = WithStop /\ current' = 0
  BY DEF CutBeforeWrite, Stops
<1>3. /\ mine \in Seq(PageNo) /\ DOMAIN mine = 1 .. Len(mine) /\ Len(mine) \in Nat
      /\ files \in [PageNo -> Seq(Bytes) \union {Absent, Foreign}] /\ Len(log) \in Nat
      /\ log \in Seq(Entries)
  BY LenProperties DEF TypeInv, TypeOK, Entries
<1>4. \A k \in DOMAIN mine : files'[mine[k]] = files[mine[k]]
  <2>1. \A k \in DOMAIN mine : mine[k] # n /\ mine[k] \in PageNo
    BY <1>1, <1>3, NoBytes, ElementOfSeq DEF PageInv
  <2>2. QED
    BY <1>1, <1>3, <2>1
<1>5. \A i \in 1 .. Len(log) + 1 : EndsIn(log, i) => EndedIn(log, i) \in DOMAIN mine
  BY <1>3, EndedInMine
<1>6. Holds(log, files', mine)
  BY <1>4, <1>5 DEF PageInv, Holds
<1>7. Holds(log', files', mine) /\ LastIn(log', Len(log') + 1) = Len(log') /\ log' \in Seq(Entries)
  BY <1>2, <1>3, <1>6, MarksHold
<1>8. Len(log') \in Nat
  BY <1>7, LenProperties
<1>9. QED
  BY <1>2, <1>4, <1>7, <1>8 DEF PageInv

LEMMA NextPages ==
  ASSUME TypeInv, PageInv, [Next]_vars PROVE PageInv'
<1>1. CASE UNCHANGED <<log, files, mine, current>>
  BY <1>1 DEF PageInv
<1>2. CASE Printer
  <2>1. CASE OpenData \/ OpenStatus \/ Greet \/ Read \/ Display \/ AckLow \/ AckReady
    BY <1>1, <2>1 DEF OpenData, OpenStatus, Greet, Read, Display, AckLow, AckReady, WriteStatus, writer
  <2>2. CASE Consume
    BY <2>2, ConsumePages
  <2>3. CASE PortClosed
    BY <2>3, EndedPages DEF PortClosed
  <2>4. CASE BrokenPipe
    BY <2>4, EndedPages DEF BrokenPipe, Ends, Stops
  <2>5. QED
    BY <1>2, <2>1, <2>2, <2>3, <2>4 DEF Printer
<1>3. CASE Interrupt \/ CutBeforeWrite
  BY <1>3, EndedPages, CutPages DEF Interrupt, Ends, Stops
<1>4. CASE Start \/ VmOpens \/ VmCloses \/ Strobe \/ PollStatus \/ UNCHANGED vars
  BY <1>1, <1>4 DEF Start, VmOpens, VmCloses, Strobe, PollStatus, printerSide, writer, vars
<1>5. CASE ForeignFile
  BY <1>5, ForeignPages
<1>6. QED
  BY <1>2, <1>3, <1>4, <1>5 DEF Next

(* The blank pages: nothing is put on one, and none is a page of the job.  *)
LEMMA NextBlank ==
  ASSUME TypeInv, PageInv, BlankInv, [Next]_vars PROVE BlankInv'
<1>1. CASE UNCHANGED <<files, mine, blank>>
  BY <1>1 DEF BlankInv
<1>2. /\ \A n \in blank : n \in PageNo /\ files[n] # Absent
      /\ DOMAIN mine = 1 .. Len(mine) /\ Len(mine) \in Nat /\ mine \in Seq(PageNo)
      /\ files \in [PageNo -> Seq(Bytes) \union {Absent, Foreign}]
  <2>1. <<>> \in Seq(Bytes)
    BY EmptySeq
  <2>2. QED
    BY <2>1, NoBytes, LenProperties DEF BlankInv, TypeInv, TypeOK
<1>3. CASE Consume
  <2>1. PICK content : PutOn(content)
    BY <1>3 DEF Consume, FormFeed, SuppressedByte, ShownByte
  <2>2. blank' = blank
    BY <1>3 DEF Consume
  <2>3. CASE current # 0
    <3>1. \A n \in blank : n # current
      BY <1>2, <2>3 DEF BlankInv, PageInv
    <3>2. files' = [files EXCEPT ![current] = files[current] \o content] /\ mine' = mine
      BY <2>1, <2>3 DEF PutOn
    <3>3. QED
      BY <1>2, <2>2, <3>1, <3>2 DEF BlankInv
  <2>4. CASE current = 0
    <3>1. PICK p \in PageNo : /\ files[p] = Absent /\ files' = [files EXCEPT ![p] = content]
                              /\ mine' = Append(mine, p)
      BY <2>1, <2>4 DEF PutOn, Create, Creatable
    <3>2. \A n \in blank : n # p /\ files'[n] = <<>>
      BY <1>2, <3>1 DEF BlankInv
    <3>3. \A i \in DOMAIN mine' : mine'[i] = p \/ (i \in DOMAIN mine /\ mine'[i] = mine[i])
      <4>1. /\ DOMAIN mine' = 1 .. Len(mine) + 1 /\ mine'[Len(mine) + 1] = p
            /\ \A i \in 1 .. Len(mine) : mine'[i] = mine[i]
        BY <1>2, <3>1, AppendProperties, LenProperties
      <4>2. \A i \in 1 .. Len(mine) + 1 : i \in 1 .. Len(mine) \/ i = Len(mine) + 1
        BY <1>2
      <4>3. QED
        BY <1>2, <4>1, <4>2
    <3>4. QED
      BY <2>2, <3>2, <3>3 DEF BlankInv
  <2>5. QED
    BY <2>3, <2>4
<1>4. CASE CutBeforeWrite
  <2>1. PICK n \in PageNo : /\ files[n] = Absent /\ files' = [files EXCEPT ![n] = <<>>]
                            /\ blank' = blank \union {n} /\ mine' = mine
    BY <1>4 DEF CutBeforeWrite, Create, Creatable, Stops
  <2>2. \A i \in DOMAIN mine : mine[i] # n
    BY <2>1, NoBytes DEF PageInv
  <2>3. QED
    BY <1>2, <2>1, <2>2 DEF BlankInv
<1>5. CASE ForeignFile
  <2>1. PICK n \in PageNo : files[n] = Absent /\ files' = [files EXCEPT ![n] = Foreign]
    BY <1>5, SetupType DEF ForeignFile, TypeInv, TypeOK
  <2>2. UNCHANGED <<mine, blank>>
    BY <1>5 DEF ForeignFile
  <2>3. QED
    BY <1>2, <2>1, <2>2 DEF BlankInv
<1>6. CASE ~(Consume \/ CutBeforeWrite \/ ForeignFile)
  BY <1>1, <1>6
  DEF Next, Printer, OpenData, OpenStatus, Greet, Read, Display, AckLow, AckReady, WriteStatus,
      PortClosed, BrokenPipe, Interrupt, Ends, Stops, Start, VmOpens, VmCloses, Strobe, PollStatus,
      printerSide, writer, vars
<1>7. QED
  BY <1>3, <1>4, <1>5, <1>6

LEMMA InitPages == Init => PageInv
<1> SUFFICES ASSUME Init PROVE PageInv
  OBVIOUS
<1>1. log = <<>> /\ mine = <<>> /\ current = 0 /\ Len(<<>>) = 0 /\ <<>> \in Seq(Entries)
  BY DEF Init
<1>2. LastIn(<<>>, 1) = 0
  <2>1. LastIn(<<>>, Len(<<>>) + 1) = Len(<<>>)
    BY <1>1, EndsInMark
  <2>2. Len(<<>>) + 1 = 1
    BY <1>1
  <2>3. QED
    BY <1>1, <2>1, <2>2
<1>3. ~EndsIn(<<>>, 1) /\ EndedIn(<<>>, 1) = 0
  <2>1. ~EndsIn(<<>>, 1)
    BY <1>1, <1>2 DEF EndsIn, MarkIn
  <2>2. {j \in 1 .. 1 : EndsIn(<<>>, j)} = {}
    BY <2>1
  <2>3. QED
    BY <2>1, <2>2, FS_EmptySet DEF EndedIn
<1>4. QED
  BY <1>1, <1>2, <1>3 DEF PageInv, Holds

(* The files of the printer are the printed pages: form feed, end of file  *)
(* and the end of the process cut what consume writes where the history    *)
(* says, also when files of others appear and the printer is restarted;    *)
(* and a page that the printer was stopped before it wrote to stays empty. *)
THEOREM FilesArePages == Spec => []PagesMatch
<1>1. Init => TypeInv /\ PageInv /\ BlankInv
  BY InitType, InitPages DEF Init, BlankInv
<1>2. TypeInv /\ PageInv /\ BlankInv /\ [Next]_vars => (TypeInv /\ PageInv /\ BlankInv)'
  BY NextType, NextPages, NextBlank
<1>3. PageInv /\ BlankInv => PagesMatch
  BY PagesHeld DEF PageInv
<1>4. QED
  BY <1>1, <1>2, <1>3, PTL DEF Spec

-----------------------------------------------------------------------------
(* Rows are counted modulo the rows of a page.                             *)
LEMMA ModIs ==
  ASSUME NEW R \in Nat \ {0}, NEW q \in Nat, NEW r \in 0 .. R - 1
  PROVE  (R * q + r) % R = r
OBVIOUS
LEMMA DivMod ==
  ASSUME NEW R \in Nat \ {0}, NEW x \in Nat
  PROVE  \E q \in Nat, r \in 0 .. R - 1 : x = R * q + r
<1> DEFINE Divided(y) == \E q \in Nat, r \in 0 .. R - 1 : y = R * q + r
           T == {y \in Nat : ~Divided(y)}
<1> SUFFICES ASSUME T # {} PROVE FALSE
  OBVIOUS
<1>1. T \subseteq Nat
  OBVIOUS
<1>2. \E n \in T : \A m \in T : ~(<<m, n>> \in OpToRel(<, Nat))
  <2> HIDE DEF T
  <2>1. QED
    BY <1>1, WFMin, NatLessThanWellFounded
<1>3. PICK n \in T : \A m \in T : ~(m < n)
  BY <1>1, <1>2 DEF OpToRel
<1>4. n \in Nat /\ ~Divided(n) /\ \A m \in Nat : m < n => Divided(m)
  BY <1>3
<1>5. n # 0
  <2>1. 0 = R * 0 + 0 /\ 0 \in 0 .. R - 1
    OBVIOUS
  <2>2. QED
    BY <1>4, <2>1
<1>6. PICK q \in Nat, r \in 0 .. R - 1 : n - 1 = R * q + r
  <2>1. n - 1 \in Nat /\ n - 1 < n
    BY <1>4, <1>5
  <2>2. Divided(n - 1)
    <3> HIDE DEF Divided
    <3>1. QED
      BY <1>4, <2>1
  <2>3. QED
    BY <2>2
<1>7. r + 1 # R => n = R * q + (r + 1) /\ r + 1 \in 0 .. R - 1
  BY <1>4, <1>6
<1>8. r + 1 = R => n = R * (q + 1) + 0 /\ q + 1 \in Nat /\ 0 \in 0 .. R - 1
  <2>1. R * (q + 1) = R * q + R
    OBVIOUS
  <2>2. QED
    BY <1>4, <1>6, <2>1
<1>9. QED
  BY <1>4, <1>7, <1>8

LEMMA ModNext ==
  ASSUME NEW R \in Nat \ {0}, NEW x \in Nat
  PROVE  (x + 1) % R = IF (x % R) + 1 = R THEN 0 ELSE (x % R) + 1
<1>1. PICK q \in Nat, r \in 0 .. R - 1 : x = R * q + r
  BY DivMod
<1>2. x % R = r
  BY <1>1, ModIs
<1>3. CASE r + 1 = R
  <2>1. x + 1 = R * (q + 1) + 0
    <3>1. R * (q + 1) = R * q + R
      BY <1>1
    <3>2. QED
      BY <1>1, <1>3, <3>1
  <2>2. (R * (q + 1) + 0) % R = 0
    BY <1>1, ModIs
  <2>3. QED
    BY <1>3, <1>2, <2>1, <2>2
<1>4. CASE r + 1 # R
  <2>1. x + 1 = R * q + (r + 1)
    BY <1>1
  <2>2. (R * q + (r + 1)) % R = r + 1
    BY <1>1, <1>4, ModIs
  <2>3. QED
    BY <1>4, <1>2, <2>1, <2>2
<1>5. QED
  BY <1>3, <1>4

-----------------------------------------------------------------------------
(* What the terminal must have shown of a history l.                       *)
SuffixIn(l, i) ==
  LET m == LastIn(l, i) IN
  /\ m # 0 /\ l[m] # "STOP" /\ i <= m + 2
  /\ \A j \in m + 1 .. i : l[j] \in {"CR", "LF"} /\ (j < i => l[j] # l[i])
VisibleIn(l, i) == i \in DOMAIN l /\ ~MarkIn(l, i) /\ ~SuffixIn(l, i)
RunIn(l, i)  == VisibleIn(l, i) /\ \A j \in i .. Len(l) : l[j] # "STOP"
DueIn(l, i)  == Cardinality({j \in 1 .. i : RunIn(l, j)})
Rows(l)      == {i \in LastIn(l, Len(l) + 1) + 1 .. Len(l) : VisibleIn(l, i) /\ l[i] = "LF"}
RowsIn(l)    == Cardinality(Rows(l))

(* Whether a CR or LF may still belong to the page's end, and which came.  *)
Ending(l) == LET n == Len(l)
                 m == LastIn(l, n + 1)
             IN  m # 0 /\ l[m] # "STOP" /\ (n = m \/ SuffixIn(l, n))
Came(l, b) == \E j \in LastIn(l, Len(l) + 1) + 1 .. Len(l) : l[j] = b

LEMMA ShownParts ==
  /\ \A i : ThisRun(i) <=> RunIn(log, i)
  /\ \A i : BytesDue(i) = DueIn(log, i)
  /\ \A i : Visible(i) <=> VisibleIn(log, i)
  /\ RowsShown = RowsIn(log)
BY DEF ThisRun, RunIn, BytesDue, DueIn, RowsShown, RowsIn, Rows, Visible, VisibleIn, Suffix,
       SuffixIn, LastMark, LastIn, Mark, MarkIn

LEMMA SuffixAppend ==
  ASSUME NEW l \in Seq(Entries), NEW x \in Entries
  PROVE  \A i \in 1 .. Len(l) : /\ SuffixIn(Append(l, x), i) <=> SuffixIn(l, i)
                                /\ VisibleIn(Append(l, x), i) <=> VisibleIn(l, i)
<1> DEFINE n == Len(l)
           t == Append(l, x)
<1>1. /\ n \in Nat /\ DOMAIN l = 1 .. n /\ DOMAIN t = 1 .. n + 1
      /\ \A i \in 1 .. n : t[i] = l[i] /\ (MarkIn(t, i) <=> MarkIn(l, i))
  BY HistoryAppend
<1>2. \A i \in 1 .. n + 1 : LastIn(t, i) = LastIn(l, i)
  BY LastAppend
<1>3. \A i \in 1 .. n : LastIn(l, i) \in 0 .. i - 1
  BY <1>1, LastIs DEF IsLast
<1> HIDE DEF n, t
<1>4. ASSUME NEW i \in 1 .. n
      PROVE  /\ SuffixIn(t, i) <=> SuffixIn(l, i)
             /\ VisibleIn(t, i) <=> VisibleIn(l, i)
  <2> DEFINE m == LastIn(l, i)
  <2>1. m \in 0 .. i - 1 /\ LastIn(t, i) = m /\ i \in 1 .. n
    BY <1>1, <1>2, <1>3
  <2>2. /\ m # 0 => t[m] = l[m]
        /\ \A j \in m + 1 .. i : t[j] = l[j]
        /\ t[i] = l[i]
    BY <1>1, <2>1
  <2> HIDE DEF m
  <2>3. SuffixIn(t, i) <=> SuffixIn(l, i)
    BY <2>1, <2>2 DEF SuffixIn, m
  <2>4. QED
    BY <1>1, <2>3 DEF VisibleIn
<1>5. QED
  BY <1>4 DEF n, t

(* The rule of consume for the byte after l. *)
LEMMA SuffixStep ==
  ASSUME NEW l \in Seq(Entries), NEW x \in Entries, x \notin {"FF", "EOF", "STOP"}
  PROVE  /\ SuffixIn(Append(l, x), Len(l) + 1) <=>
              Ending(l) /\ x \in {"CR", "LF"} /\ ~Came(l, x)
         /\ Ending(Append(l, x)) <=> SuffixIn(Append(l, x), Len(l) + 1)
         /\ \A b : Came(Append(l, x), b) <=> Came(l, b) \/ b = x
<1> DEFINE n == Len(l)
           t == Append(l, x)
           m == LastIn(l, n + 1)
<1>1. /\ n \in Nat /\ Len(t) = n + 1 /\ t[n + 1] = x
      /\ \A i \in 1 .. n : t[i] = l[i]
  BY HistoryAppend
<1>2. /\ LastIn(t, n + 1) = m /\ LastIn(t, n + 2) = m
      /\ IsLast(l, n + 1, m)
  BY <1>1, LastAppend, LastIs
<1>3. m \in 0 .. n
  BY <1>1, <1>2 DEF IsLast
<1>4. n # m => LastIn(l, n) = m
  <2>1. n # m => n # 0 /\ IsLast(l, n, m)
    BY <1>1, <1>2, <1>3 DEF IsLast
  <2>2. QED
    BY <1>1, <2>1, LastIs
<1>5. Ending(l) <=> m # 0 /\ l[m] # "STOP" /\ (n = m \/ SuffixIn(l, n))
  BY DEF Ending
<1>6. \A b : Came(l, b) <=> \E j \in m + 1 .. n : l[j] = b
  BY DEF Came
<1> HIDE DEF n, t, m
<1>7. SuffixIn(t, n + 1) <=>
        /\ m # 0 /\ l[m] # "STOP" /\ n + 1 <= m + 2
        /\ x \in {"CR", "LF"}
        /\ \A j \in m + 1 .. n : l[j] \in {"CR", "LF"} /\ l[j] # x
  <2>1. m # 0 => t[m] = l[m]
    BY <1>1, <1>3
  <2>2. (\A j \in m + 1 .. n + 1 : t[j] \in {"CR", "LF"} /\ (j < n + 1 => t[j] # t[n + 1]))
        <=> x \in {"CR", "LF"} /\ \A j \in m + 1 .. n : l[j] \in {"CR", "LF"} /\ l[j] # x
    <3>1. \A j : j \in m + 1 .. n + 1 <=> j \in m + 1 .. n \/ j = n + 1
      BY <1>1, <1>3
    <3>2. \A j \in m + 1 .. n : j < n + 1 /\ t[j] = l[j]
      BY <1>1, <1>3
    <3>3. ~(n + 1 < n + 1)
      BY <1>1
    <3>4. QED
      BY <1>1, <3>1, <3>2, <3>3
  <2>3. QED
    BY <1>2, <2>1, <2>2 DEF SuffixIn
<1>8. SuffixIn(t, n + 1) => Ending(l) /\ x \in {"CR", "LF"} /\ ~Came(l, x)
  <2> SUFFICES ASSUME SuffixIn(t, n + 1) PROVE Ending(l) /\ x \in {"CR", "LF"} /\ ~Came(l, x)
    OBVIOUS
  <2>1. n = m \/ n = m + 1
    BY <1>1, <1>3, <1>7
  <2>2. n = m + 1 => SuffixIn(l, n)
    <3>1. n = m + 1 => \A j \in m + 1 .. n : j = n
      BY <1>1, <1>3
    <3>2. n = m + 1 => n <= m + 2 /\ n \in m + 1 .. n /\ n # m
      BY <1>1, <1>3
    <3>3. QED
      BY <1>1, <1>4, <1>7, <3>1, <3>2 DEF SuffixIn
  <2>3. QED
    BY <1>5, <1>6, <1>7, <2>1, <2>2
<1>9. Ending(l) /\ x \in {"CR", "LF"} /\ ~Came(l, x) => SuffixIn(t, n + 1)
  <2> SUFFICES ASSUME Ending(l), x \in {"CR", "LF"}, ~Came(l, x) PROVE SuffixIn(t, n + 1)
    OBVIOUS
  <2>1. CASE n = m
    <3>1. n + 1 <= m + 2 /\ ~(\E j : j \in m + 1 .. n)
      BY <1>1, <1>3, <2>1
    <3>2. QED
      BY <1>5, <1>7, <3>1
  <2>2. CASE n # m
    <3>1. /\ n <= m + 2
          /\ \A j \in m + 1 .. n : l[j] \in {"CR", "LF"} /\ (j < n => l[j] # l[n])
      BY <1>4, <1>5, <2>2 DEF SuffixIn
    <3>2. \A j \in m + 1 .. n : l[j] # x
      BY <1>6
    <3>3. n # m + 2
      <4> SUFFICES ASSUME n = m + 2 PROVE FALSE
        OBVIOUS
      <4>1. m + 1 \in m + 1 .. n /\ m + 2 \in m + 1 .. n /\ m + 1 < n
        BY <1>1, <1>3
      <4>2. l[m + 1] # l[m + 2] /\ l[m + 1] # x /\ l[m + 2] # x
            /\ l[m + 1] \in {"CR", "LF"} /\ l[m + 2] \in {"CR", "LF"}
        BY <3>1, <3>2, <4>1
      <4>3. QED
        BY <4>2
    <3>4. n + 1 <= m + 2
      BY <1>1, <1>3, <3>1, <3>3
    <3>5. QED
      BY <1>5, <1>7, <3>1, <3>2, <3>4
  <2>3. QED
    BY <2>1, <2>2
<1>10. Ending(t) <=> SuffixIn(t, n + 1)
  <2>1. Len(t) = n + 1 /\ (n + 1) + 1 = n + 2 /\ n + 1 # m
    BY <1>1, <1>3
  <2>2. Ending(t) <=> m # 0 /\ t[m] # "STOP" /\ SuffixIn(t, n + 1)
    BY <1>2, <2>1 DEF Ending
  <2>3. m # 0 => t[m] = l[m]
    BY <1>1, <1>3
  <2>4. QED
    BY <1>7, <2>2, <2>3
<1>11. ASSUME NEW b PROVE Came(t, b) <=> Came(l, b) \/ b = x
  <2>1. Len(t) = n + 1 /\ (n + 1) + 1 = n + 2
    BY <1>1
  <2>2. Came(t, b) <=> \E j \in m + 1 .. n + 1 : t[j] = b
    BY <1>2, <2>1 DEF Came
  <2>3. \A j : j \in m + 1 .. n + 1 <=> j \in m + 1 .. n \/ j = n + 1
    BY <1>1, <1>3
  <2>4. \A j \in m + 1 .. n : t[j] = l[j]
    BY <1>1, <1>3
  <2>5. QED
    BY <1>1, <1>6, <2>2, <2>3, <2>4
<1>12. QED
  BY <1>8, <1>9, <1>10, <1>11 DEF n, t

LEMMA DueCounts ==
  ASSUME NEW l, NEW i \in Nat
  PROVE  /\ DueIn(l, i) \in Nat
         /\ DueIn(l, i + 1) = IF RunIn(l, i + 1) THEN DueIn(l, i) + 1 ELSE DueIn(l, i)
         /\ \A j \in 0 .. i : DueIn(l, j) <= DueIn(l, i)
         /\ i # 0 /\ RunIn(l, i) => DueIn(l, i) >= 1
<1> DEFINE P == {j \in Nat : RunIn(l, j)}
<1>1. \A j \in Nat : j \in P <=> RunIn(l, j)
  OBVIOUS
<1>2. \A k : DueIn(l, k) = UpTo(P, k)
  BY DEF DueIn, UpTo
<1> HIDE DEF P
<1>3. /\ UpTo(P, i) \in Nat
      /\ UpTo(P, i + 1) = IF i + 1 \in P THEN UpTo(P, i) + 1 ELSE UpTo(P, i)
      /\ \A j \in 0 .. i : UpTo(P, j) <= UpTo(P, i)
      /\ i # 0 /\ i \in P => UpTo(P, i) >= 1
  BY UpToCounts
<1>4. (i + 1 \in P <=> RunIn(l, i + 1)) /\ (i \in P <=> RunIn(l, i))
  BY <1>1
<1>5. QED
  BY <1>2, <1>3, <1>4

(* What s shows is what l calls for.                                       *)
Shows(s, l) ==
  /\ Len(s) = DueIn(l, Len(l))
  /\ \A i \in DOMAIN l : RunIn(l, i) => s[DueIn(l, i)] = l[i]

LEMMA ShowsAppend ==
  ASSUME NEW l \in Seq(Entries), NEW x \in Entries, x # "STOP", NEW s \in Seq(Bytes), Shows(s, l)
  PROVE  /\ ~VisibleIn(Append(l, x), Len(l) + 1) => Shows(s, Append(l, x))
         /\ VisibleIn(Append(l, x), Len(l) + 1) /\ x \in Bytes => Shows(Append(s, x), Append(l, x))
<1> DEFINE n == Len(l)
           t == Append(l, x)
<1>1. /\ n \in Nat /\ DOMAIN l = 1 .. n /\ DOMAIN t = 1 .. n + 1 /\ Len(t) = n + 1
      /\ t[n + 1] = x
      /\ \A i \in 1 .. n : t[i] = l[i]
  BY HistoryAppend
<1>2. \A i \in 1 .. n : VisibleIn(t, i) <=> VisibleIn(l, i)
  BY SuffixAppend
<1>3. Len(s) = DueIn(l, n) /\ \A i \in 1 .. n : RunIn(l, i) => s[DueIn(l, i)] = l[i]
  BY <1>1 DEF Shows
<1> HIDE DEF n, t
<1>4. ASSUME NEW i \in 1 .. n PROVE RunIn(t, i) <=> RunIn(l, i)
  <2>1. \A j : j \in i .. n + 1 <=> j \in i .. n \/ j = n + 1
    BY <1>1
  <2>2. \A j \in i .. n : t[j] = l[j]
    BY <1>1
  <2>3. (\A j \in i .. n + 1 : t[j] # "STOP") <=> (\A j \in i .. n : l[j] # "STOP")
    BY <1>1, <2>1, <2>2
  <2>4. QED
    BY <1>1, <1>2, <2>3 DEF RunIn, n
<1>5. RunIn(t, n + 1) <=> VisibleIn(t, n + 1)
  <2>1. \A j \in n + 1 .. n + 1 : j = n + 1
    BY <1>1
  <2>2. QED
    BY <1>1, <2>1 DEF RunIn
<1>6. \A i \in 0 .. n : DueIn(t, i) = DueIn(l, i)
  <2>1. ASSUME NEW i \in 0 .. n PROVE {j \in 1 .. i : RunIn(t, j)} = {j \in 1 .. i : RunIn(l, j)}
    BY <1>1, <1>4
  <2>2. QED
    BY <2>1 DEF DueIn
<1>7. /\ DueIn(l, n) \in Nat /\ DueIn(t, n) = DueIn(l, n)
      /\ DueIn(t, n + 1) = IF VisibleIn(t, n + 1) THEN DueIn(l, n) + 1 ELSE DueIn(l, n)
  <2>1. DueIn(l, n) \in Nat
    BY <1>1, DueCounts
  <2>2. DueIn(t, n) = DueIn(l, n)
    BY <1>1, <1>6
  <2>3. DueIn(t, n + 1) = IF RunIn(t, n + 1) THEN DueIn(t, n) + 1 ELSE DueIn(t, n)
    BY <1>1, DueCounts
  <2>4. QED
    BY <1>5, <2>1, <2>2, <2>3
<1>8. ASSUME NEW i \in 1 .. n, RunIn(t, i)
      PROVE  /\ DueIn(t, i) = DueIn(l, i) /\ DueIn(l, i) \in 1 .. DueIn(l, n)
             /\ s[DueIn(l, i)] = t[i]
  <2>1. i \in Nat /\ i \in 0 .. n /\ i # 0 /\ RunIn(l, i)
    BY <1>1, <1>4, <1>8
  <2>2. DueIn(l, i) \in Nat /\ DueIn(l, i) >= 1
    BY <2>1, DueCounts
  <2>3. DueIn(l, i) <= DueIn(l, n)
    BY <1>1, <2>1, DueCounts
  <2>4. QED
    BY <1>1, <1>3, <1>6, <1>7, <2>1, <2>2, <2>3
<1>9. ASSUME ~VisibleIn(t, n + 1) PROVE Shows(s, t)
  <2>1. ASSUME NEW i \in 1 .. n + 1, RunIn(t, i) PROVE s[DueIn(t, i)] = t[i]
    <3>1. i # n + 1
      BY <1>5, <1>9, <2>1
    <3>2. i \in 1 .. n
      BY <1>1, <3>1
    <3>3. QED
      BY <1>8, <2>1, <3>2
  <2>2. QED
    BY <1>1, <1>3, <1>7, <1>9, <2>1 DEF Shows
<1>10. ASSUME VisibleIn(t, n + 1), x \in Bytes PROVE Shows(Append(s, x), t)
  <2>1. /\ Len(Append(s, x)) = Len(s) + 1 /\ Append(s, x)[Len(s) + 1] = x
        /\ \A k \in 1 .. Len(s) : Append(s, x)[k] = s[k]
    BY <1>10, AppendProperties
  <2>2. ASSUME NEW i \in 1 .. n + 1, RunIn(t, i) PROVE Append(s, x)[DueIn(t, i)] = t[i]
    <3>1. CASE i = n + 1
      BY <1>1, <1>3, <1>7, <1>10, <2>1, <3>1
    <3>2. CASE i # n + 1
      <4>1. i \in 1 .. n
        BY <1>1, <3>2
      <4>2. /\ DueIn(t, i) = DueIn(l, i) /\ DueIn(l, i) \in 1 .. Len(s)
            /\ s[DueIn(l, i)] = t[i]
        BY <1>3, <1>8, <2>2, <4>1
      <4>3. QED
        BY <2>1, <4>2
    <3>3. QED
      BY <3>1, <3>2
  <2>3. QED
    BY <1>1, <1>3, <1>7, <1>10, <2>1, <2>2 DEF Shows
<1>11. QED
  BY <1>9, <1>10 DEF n, t

LEMMA RowsAppend ==
  ASSUME NEW l \in Seq(Entries), NEW x \in Entries
  PROVE  /\ RowsIn(l) \in Nat
         /\ x \in {"FF", "EOF", "STOP"} => RowsIn(Append(l, x)) = 0
         /\ x \notin {"FF", "EOF", "STOP"} =>
              RowsIn(Append(l, x)) = IF VisibleIn(Append(l, x), Len(l) + 1) /\ x = "LF"
                                     THEN RowsIn(l) + 1 ELSE RowsIn(l)
<1> DEFINE n == Len(l)
           t == Append(l, x)
           m == LastIn(l, n + 1)
<1>1. /\ n \in Nat /\ Len(t) = n + 1 /\ t[n + 1] = x
      /\ \A i \in 1 .. n : t[i] = l[i]
  BY HistoryAppend
<1>2. /\ LastIn(t, n + 2) = IF x \in {"FF", "EOF", "STOP"} THEN n + 1 ELSE m
      /\ IsLast(l, n + 1, m)
  BY <1>1, LastAppend, LastIs
<1>3. m \in 0 .. n
  BY <1>1, <1>2 DEF IsLast
<1>4. \A i \in 1 .. n : VisibleIn(t, i) <=> VisibleIn(l, i)
  BY SuffixAppend
<1>5. Rows(l) = {i \in m + 1 .. n : VisibleIn(l, i) /\ l[i] = "LF"}
  BY DEF Rows
<1> HIDE DEF n, t, m
<1>6. IsFiniteSet(Rows(l)) /\ RowsIn(l) \in Nat
  <2>1. IsFiniteSet(m + 1 .. n) /\ Rows(l) \in SUBSET (m + 1 .. n)
    BY <1>1, <1>3, <1>5, FS_Interval
  <2>2. QED
    BY <2>1, FS_Subset, FS_CardinalityType DEF RowsIn
<1>7. Rows(t) = {i \in LastIn(t, n + 2) + 1 .. n + 1 : VisibleIn(t, i) /\ t[i] = "LF"}
  <2>1. Len(t) = n + 1 /\ (n + 1) + 1 = n + 2
    BY <1>1
  <2>2. QED
    BY <2>1 DEF Rows
<1>8. ASSUME x \in {"FF", "EOF", "STOP"} PROVE RowsIn(t) = 0
  <2>1. Rows(t) = {}
    BY <1>1, <1>2, <1>7, <1>8
  <2>2. QED
    BY <2>1, FS_EmptySet DEF RowsIn
<1>9. ASSUME x \notin {"FF", "EOF", "STOP"}
      PROVE  RowsIn(t) = IF VisibleIn(t, n + 1) /\ x = "LF" THEN RowsIn(l) + 1 ELSE RowsIn(l)
  <2>1. \A i : i \in m + 1 .. n + 1 <=> i \in m + 1 .. n \/ i = n + 1
    BY <1>1, <1>3
  <2>2. \A i \in m + 1 .. n : t[i] = l[i] /\ (VisibleIn(t, i) <=> VisibleIn(l, i))
    BY <1>1, <1>3, <1>4
  <2>3. Rows(t) = IF VisibleIn(t, n + 1) /\ x = "LF" THEN Rows(l) \union {n + 1} ELSE Rows(l)
    BY <1>1, <1>2, <1>5, <1>7, <1>9, <2>1, <2>2
  <2>4. n + 1 \notin Rows(l)
    BY <1>1, <1>3, <1>5
  <2>5. Cardinality(Rows(l) \union {n + 1}) = Cardinality(Rows(l)) + 1
    BY <1>6, <2>4, FS_AddElement
  <2>6. QED
    BY <2>3, <2>5 DEF RowsIn
<1>10. QED
  BY <1>6, <1>8, <1>9 DEF n, t

-----------------------------------------------------------------------------
(* While the printer runs, the fields of Paginator say of the history what *)
(* the next byte needs; a printer that has stopped leaves its mark.        *)
RunningInv ==
  /\ Shows(Due, log)
  /\ para.rows = RowsIn(log) % RowsPerPage
  /\ para.auto <=> /\ EndsWith(log, "LF") /\ VisibleIn(log, Len(log))
                   /\ RowsIn(log) % RowsPerPage = 0
  /\ para.suppress <=> Ending(log)
  /\ para.suppress => /\ ~para.auto
                      /\ para.cr <=> Came(log, "CR")
                      /\ para.lf <=> Came(log, "LF")

ShownInv ==
  /\ pc = "stopped" => log = <<>> \/ EndsWith(log, "STOP")
  /\ toShow # Nothing => pc = "display"
  /\ pc # "stopped" => RunningInv

LEMMA ParaType ==
  ASSUME TypeInv
  PROVE  /\ para \in [rows : 0 .. RowsPerPage - 1, auto : BOOLEAN, suppress : BOOLEAN,
                      cr : BOOLEAN, lf : BOOLEAN]
         /\ shown \in Seq(Bytes) /\ log \in Seq(Entries) /\ RowsPerPage \in Nat \ {0}
         /\ Len(log) \in Nat
BY RowsAssumption, LenProperties DEF TypeInv, TypeOK, Entries

(* A byte that is not a form feed. *)
LEMMA ByteShown ==
  ASSUME TypeInv, ShownInv, Consume, chunk # "FF"
  PROVE  RunningInv'
<1> DEFINE n == Len(log)
           x == chunk
           now == VisibleIn(log', n + 1)
<1>1. /\ x \in Bytes /\ x \in Entries /\ x \notin {"FF", "EOF", "STOP"} /\ x # Nothing
      /\ log' = Append(log, x) /\ shown' = shown
  BY LettersAssumption DEF Consume, TypeInv, Open, Entries, Bytes, Nothing
<1>2. pc = "consume" /\ toShow = Nothing /\ RunningInv
  BY DEF Consume, ShownInv
<1>3. Due = shown
  BY <1>2 DEF Due
<1>4. /\ para.auto \in BOOLEAN /\ para.suppress \in BOOLEAN /\ para.cr \in BOOLEAN
      /\ para.lf \in BOOLEAN /\ para.rows \in 0 .. RowsPerPage - 1
      /\ shown \in Seq(Bytes) /\ log \in Seq(Entries) /\ RowsPerPage \in Nat \ {0} /\ n \in Nat
  BY ParaType
<1>5. /\ Len(log') = n + 1 /\ log'[n + 1] = x /\ DOMAIN log' = 1 .. n + 1
      /\ ~MarkIn(log', n + 1)
  BY <1>1, <1>4, HistoryAppend
<1>6. /\ SuffixIn(log', n + 1) <=> Ending(log) /\ x \in {"CR", "LF"} /\ ~Came(log, x)
      /\ Ending(log') <=> SuffixIn(log', n + 1)
      /\ \A b : Came(log', b) <=> Came(log, b) \/ b = x
  BY <1>1, <1>4, SuffixStep
<1>7. now <=> ~SuffixIn(log', n + 1)
  <2>1. n + 1 \in DOMAIN log'
    BY <1>4, <1>5
  <2>2. QED
    BY <1>5, <2>1 DEF VisibleIn
<1>8. SuffixIn(log', n + 1) <=> Suppressed(x)
  BY <1>2, <1>4, <1>6 DEF RunningInv, Suppressed
<1>9. /\ ~now => Shows(shown, log')
      /\ now => Shows(Append(shown, x), log')
  BY <1>1, <1>2, <1>3, <1>4, ShowsAppend DEF RunningInv
<1>10. /\ RowsIn(log) \in Nat
       /\ RowsIn(log') = IF now /\ x = "LF" THEN RowsIn(log) + 1 ELSE RowsIn(log)
  BY <1>1, <1>4, RowsAppend
<1>11. EndsWith(log', "LF") <=> x = "LF"
  <2>1. log' # <<>>
    BY <1>1, <1>4, AppendProperties
  <2>2. QED
    BY <1>5, <2>1 DEF EndsWith
<1> HIDE DEF n, x, now
<1>12. CASE SuppressedByte
  <2>1. /\ Suppressed(x) /\ toShow' = Nothing
        /\ para' = IF x = "CR" THEN [para EXCEPT !.cr = TRUE] ELSE [para EXCEPT !.lf = TRUE]
    BY <1>12 DEF SuppressedByte, x
  <2>2. /\ para.suppress /\ x \in {"CR", "LF"} /\ ~para.auto
    BY <1>2, <2>1 DEF Suppressed, RunningInv
  <2>3. ~now /\ RowsIn(log') = RowsIn(log)
    BY <1>7, <1>8, <1>10, <2>1
  <2>4. /\ para'.rows = para.rows /\ para'.auto = para.auto /\ para'.suppress = para.suppress
        /\ para'.cr = (IF x = "CR" THEN TRUE ELSE para.cr)
        /\ para'.lf = (IF x = "CR" THEN para.lf ELSE TRUE)
    BY <2>1, ParaType
  <2>5. Due' = shown
    BY <1>1, <2>1 DEF Due
  <2>6. Shows(Due', log')
    BY <1>9, <2>3, <2>5
  <2>7. /\ Ending(log') /\ para'.suppress
        /\ para'.cr <=> Came(log', "CR")
        /\ para'.lf <=> Came(log', "LF")
    BY <1>2, <1>6, <1>8, <2>1, <2>2, <2>4 DEF RunningInv
  <2>8. ~VisibleIn(log', Len(log'))
    BY <1>5, <2>3 DEF now
  <2>9. QED
    BY <1>2, <2>2, <2>3, <2>4, <2>6, <2>7, <2>8 DEF RunningInv
<1>13. CASE ShownByte
  <2> DEFINE full == x = "LF" /\ para.rows + 1 = RowsPerPage
  <2>1. /\ ~Suppressed(x) /\ toShow' = x
        /\ para' = [para EXCEPT !.suppress = FALSE, !.auto = full,
                                !.rows = IF full THEN 0
                                         ELSE IF x = "LF" THEN para.rows + 1 ELSE para.rows]
    BY <1>13 DEF ShownByte, x
  <2>2. now /\ ~Ending(log')
    BY <1>6, <1>7, <1>8, <2>1
  <2>3. /\ ~para'.suppress
        /\ para'.auto <=> full
        /\ para'.rows = IF full THEN 0 ELSE IF x = "LF" THEN para.rows + 1 ELSE para.rows
    BY <2>1, ParaType
  <2>4. Due' = Append(shown, x)
    BY <1>1, <2>1 DEF Due, x
  <2>5. Shows(Due', log')
    BY <1>9, <2>2, <2>4
  <2>6. RowsIn(log) % RowsPerPage = para.rows
    BY <1>2 DEF RunningInv
  <2>7. RowsIn(log') % RowsPerPage =
          IF x = "LF" THEN (IF para.rows + 1 = RowsPerPage THEN 0 ELSE para.rows + 1) ELSE para.rows
    BY <1>4, <1>10, <2>2, <2>6, ModNext
  <2>8. para'.rows = RowsIn(log') % RowsPerPage
    BY <2>3, <2>7
  <2>9. VisibleIn(log', Len(log'))
    BY <1>5, <2>2 DEF now
  <2>10. para'.auto <=> x = "LF" /\ RowsIn(log') % RowsPerPage = 0
    BY <1>4, <2>3, <2>7
  <2>11. QED
    BY <1>11, <2>2, <2>3, <2>5, <2>8, <2>9, <2>10 DEF RunningInv
<1>14. QED
  BY <1>12, <1>13 DEF Consume

(* A form feed or an end of file ends a page.                              *)
(* A history that ends in a page end: no row yet, and its suffix begins.   *)
LEMMA BreakEnds ==
  ASSUME NEW l \in Seq(Entries), l # <<>>, NEW x \in {"FF", "EOF"}, l[Len(l)] = x
  PROVE  /\ RowsIn(l) = 0
         /\ Ending(l)
         /\ \A b : ~Came(l, b)
         /\ ~EndsWith(l, "LF")
<1> DEFINE n == Len(l)
<1>1. n \in Nat /\ n # 0 /\ l[n] = x
  BY LenProperties, EmptySeq
<1>2. MarkIn(l, n)
  BY <1>1 DEF MarkIn
<1>3. ~EndsWith(l, "LF")
  BY DEF EndsWith
<1> HIDE DEF n
<1>4. IsLast(l, n + 1, n)
  BY <1>1, <1>2 DEF IsLast
<1>5. LastIn(l, n + 1) = n
  BY <1>1, <1>4, LastIs
<1>6. Rows(l) = {}
  BY <1>1, <1>5 DEF Rows, n
<1>7. RowsIn(l) = 0
  BY <1>6, FS_EmptySet DEF RowsIn
<1>8. Ending(l)
  BY <1>1, <1>5 DEF Ending, n
<1>9. \A b : ~Came(l, b)
  BY <1>1, <1>5 DEF Came, n
<1>10. QED
  BY <1>3, <1>7, <1>8, <1>9

LEMMA BreakShown ==
  ASSUME TypeInv, Shows(Due, log), toShow = Nothing, NEW x \in {"FF", "EOF"},
         log' = Append(log, x) \/ (log' = log /\ x = "EOF" /\ EndsWith(log, "EOF")),
         shown' = shown, toShow' = Nothing, para' = AfterBreak
  PROVE  RunningInv'
<1>1. /\ log \in Seq(Entries) /\ Len(log) \in Nat /\ shown \in Seq(Bytes) /\ x \in Entries
      /\ RowsPerPage \in Nat \ {0}
  BY ParaType DEF Entries, Bytes
<1>2. Due = shown /\ Due' = shown
  BY DEF Due
<1>3. Shows(shown, log')
  <2>1. CASE log' = Append(log, x)
    <3>1. ~VisibleIn(log', Len(log) + 1)
      BY <1>1, <2>1, HistoryAppend DEF VisibleIn
    <3>2. QED
      BY <1>1, <1>2, <2>1, <3>1, ShowsAppend
  <2>2. CASE log' = log
    BY <1>2, <2>2
  <2>3. QED
    BY <2>1, <2>2
<1>4. /\ log' \in Seq(Entries) /\ log' # <<>> /\ log'[Len(log')] = x
  <2>1. CASE log' = Append(log, x)
    <3>1. Append(log, x) \in Seq(Entries) /\ Len(Append(log, x)) = Len(log) + 1
          /\ Append(log, x)[Len(log) + 1] = x
      BY <1>1, HistoryAppend, AppendProperties
    <3>2. Append(log, x) # <<>>
      BY <1>1, <3>1, EmptySeq
    <3>3. QED
      BY <2>1, <3>1, <3>2
  <2>2. CASE log' = log /\ x = "EOF" /\ EndsWith(log, "EOF")
    BY <1>1, <2>2 DEF EndsWith
  <2>3. QED
    BY <2>1, <2>2
<1>5. /\ RowsIn(log') = 0 /\ Ending(log') /\ ~EndsWith(log', "LF")
      /\ \A b : ~Came(log', b)
  BY <1>4, BreakEnds
<1>6. 0 % RowsPerPage = 0
  BY <1>1
<1>7. para' = [rows |-> 0, auto |-> FALSE, suppress |-> TRUE, cr |-> FALSE, lf |-> FALSE]
  BY DEF AfterBreak, Fresh
<1>8. QED
  BY <1>2, <1>3, <1>5, <1>6, <1>7 DEF RunningInv

LEMMA StartShown ==
  ASSUME TypeInv, ShownInv, Start PROVE ShownInv'
<1>1. /\ pc' = "openData" /\ log' = log /\ toShow' = Nothing /\ shown' = <<>> /\ para' = Fresh
      /\ log = <<>> \/ EndsWith(log, "STOP")
  BY DEF Start, ShownInv
<1>2. log \in Seq(Entries) /\ Len(log) \in Nat /\ DOMAIN log = 1 .. Len(log)
      /\ RowsPerPage \in Nat \ {0}
  BY ParaType, LenProperties
<1>3. LastIn(log, Len(log) + 1) = Len(log)
  BY <1>1, <1>2, EndsInMark
<1>4. log # <<>> => Len(log) # 0 /\ log[Len(log)] = "STOP"
  BY <1>1, <1>2, EmptySeq DEF EndsWith
<1>5. \A i \in 1 .. Len(log) : ~RunIn(log, i)
  <2>1. \A i \in 1 .. Len(log) : Len(log) \in i .. Len(log)
    BY <1>2
  <2>2. log = <<>> => Len(log) = 0
    OBVIOUS
  <2>3. QED
    BY <1>2, <1>4, <2>1, <2>2 DEF RunIn
<1>6. DueIn(log, Len(log)) = 0 /\ RowsIn(log) = 0
  <2>1. {j \in 1 .. Len(log) : RunIn(log, j)} = {}
    BY <1>5
  <2>2. Rows(log) = {}
    BY <1>2, <1>3 DEF Rows
  <2>3. QED
    BY <2>1, <2>2, FS_EmptySet DEF DueIn, RowsIn
<1>7. ~Ending(log)
  <2>1. log = <<>> => Len(log) = 0
    OBVIOUS
  <2>2. QED
    BY <1>3, <1>4, <2>1 DEF Ending
<1>8. ~EndsWith(log, "LF")
  BY <1>4 DEF EndsWith
<1>9. Due' = <<>> /\ Len(<<>>) = 0 /\ 0 % RowsPerPage = 0
  BY <1>1, <1>2 DEF Due
<1>10. RunningInv'
  <2>1. /\ para'.rows = 0 /\ ~para'.auto /\ ~para'.suppress
    BY <1>1 DEF Fresh
  <2>2. Shows(Due', log')
    BY <1>1, <1>2, <1>5, <1>6, <1>9 DEF Shows
  <2>3. QED
    BY <1>1, <1>6, <1>7, <1>8, <1>9, <2>1, <2>2 DEF RunningInv
<1>11. QED
  BY <1>1, <1>10 DEF ShownInv

LEMMA StopsShown == ASSUME TypeInv, Stops PROVE ShownInv'
<1>1. log \in Seq(Entries)
  BY ParaType
<1>2. WithStop = <<>> \/ EndsWith(WithStop, "STOP")
  <2> DEFINE l == IF EndsWith(log, "EOF") THEN SubSeq(log, 1, Len(log) - 1) ELSE log
  <2>1. l \in Seq(Entries)
    BY <1>1, WithoutLast
  <2>2. WithStop = IF l = <<>> \/ EndsWith(l, "STOP") THEN l ELSE Append(l, "STOP")
    BY DEF WithStop
  <2> HIDE DEF l
  <2>3. EndsWith(Append(l, "STOP"), "STOP")
    BY <2>1, AppendProperties, LenProperties DEF EndsWith, Entries
  <2>4. QED
    BY <2>2, <2>3
<1>3. QED
  BY <1>2 DEF Stops, ShownInv, Nothing

LEMMA NextShown ==
  ASSUME TypeInv, ShownInv, [Next]_vars PROVE ShownInv'
<1>1. ASSUME UNCHANGED <<log, para, toShow, shown>>, pc # "stopped", pc # "display", pc' # "stopped"
      PROVE  ShownInv'
  BY <1>1 DEF ShownInv, RunningInv, Due
<1>2. ASSUME UNCHANGED <<log, para, toShow, shown, pc>> PROVE ShownInv'
  BY <1>2 DEF ShownInv, RunningInv, Due
<1>3. CASE Printer
  <2>1. CASE OpenData \/ OpenStatus \/ Greet \/ Read \/ AckLow \/ AckReady
    BY <1>1, <2>1 DEF OpenData, OpenStatus, Greet, Read, AckLow, AckReady, WriteStatus
  <2>2. CASE Display
    <3>1. /\ pc = "display" /\ pc' = "ackLow" /\ toShow' = Nothing /\ shown' = Due
          /\ UNCHANGED <<log, para>>
      BY <2>2 DEF Display, Due
    <3>2. Due' = Due
      BY <3>1 DEF Due
    <3>3. QED
      BY <3>1, <3>2 DEF ShownInv, RunningInv
  <2>3. CASE Consume
    <3>1. CASE chunk = "FF"
      <4>1. /\ pc = "consume" /\ pc' = "display" /\ log' = Append(log, "FF") /\ shown' = shown
            /\ toShow' = Nothing /\ para' = AfterBreak
        BY <2>3, <3>1 DEF Consume, FormFeed
      <4>2. toShow = Nothing /\ Shows(Due, log)
        BY <4>1 DEF ShownInv, RunningInv
      <4>3. RunningInv'
        BY <4>1, <4>2, BreakShown
      <4>4. QED
        BY <4>1, <4>3 DEF ShownInv
    <3>2. CASE chunk # "FF"
      BY <2>3, <3>2, ByteShown DEF ShownInv, Consume
    <3>3. QED
      BY <3>1, <3>2
  <2>4. CASE PortClosed
    <3>1. /\ pc = "read" /\ pc' = "openData" /\ log' = WithEof /\ para' = AfterBreak
          /\ UNCHANGED <<shown, toShow>>
      BY <2>4 DEF PortClosed
    <3>2. toShow = Nothing /\ Shows(Due, log)
      BY <3>1 DEF ShownInv, RunningInv
    <3>3. log' = Append(log, "EOF") \/ (log' = log /\ EndsWith(log, "EOF"))
      BY <3>1 DEF WithEof
    <3>4. RunningInv'
      BY <3>1, <3>2, <3>3, BreakShown
    <3>5. QED
      BY <3>1, <3>2, <3>4 DEF ShownInv
  <2>5. CASE BrokenPipe
    BY <2>5, StopsShown DEF BrokenPipe, Ends
  <2>6. QED
    BY <1>3, <2>1, <2>2, <2>3, <2>4, <2>5 DEF Printer
<1>4. CASE Interrupt \/ CutBeforeWrite
  BY <1>4, StopsShown DEF Interrupt, CutBeforeWrite, Ends
<1>5. CASE Start
  BY <1>5, StartShown
<1>6. CASE VmOpens \/ VmCloses \/ Strobe \/ PollStatus \/ ForeignFile \/ UNCHANGED vars
  BY <1>2, <1>6 DEF VmOpens, VmCloses, Strobe, PollStatus, ForeignFile, printerSide, vars
<1>7. QED
  BY <1>3, <1>4, <1>5, <1>6 DEF Next

(* The terminal has shown, in order, what the history calls for, and the   *)
(* rows of Paginator.consume are those that a reader counts on the page:   *)
(* whatever is printed, also when the printer is stopped between a page    *)
(* written and the display event.                                          *)
THEOREM TerminalShowsPages == Spec => []ShownMatch
<1>1. Init => TypeInv /\ ShownInv
  BY InitType DEF Init, ShownInv
<1>2. TypeInv /\ ShownInv /\ [Next]_vars => (TypeInv /\ ShownInv)'
  BY NextType, NextShown
<1>3. ShownInv => ShownMatch
  BY ShownParts DEF ShownInv, RunningInv, ShownMatch, Shows
<1>4. QED
  BY <1>1, <1>2, <1>3, PTL DEF Spec
=============================================================================
