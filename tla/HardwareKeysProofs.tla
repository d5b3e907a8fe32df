-------------------------- MODULE HardwareKeysProofs --------------------------
(***************************************************************************)
(* Theorems about HardwareKeys, for every set of keys, any number of them  *)
(* and of screens: the keys queued are pressed one by one in their turn,   *)
(* an extended one as its twin on the keypad.                              *)
(***************************************************************************)
EXTENDS HardwareKeys, FiniteSetTheorems, SequenceTheorems, WellFoundedInduction, TLAPS

Bytes == {Make(c) : c \in Codes} \union {Break(c) : c \in Codes \union {E0}}

-----------------------------------------------------------------------------
(* Facts about every number follow from a least counterexample.            *)
LEMMA EveryNumber ==
  ASSUME NEW T, 0 \in T, \A n \in Nat : n \in T => n + 1 \in T
  PROVE  \A n \in Nat : n \in T
<1> DEFINE U == {n \in Nat : n \notin T}
<1> SUFFICES ASSUME U # {} PROVE FALSE
  OBVIOUS
<1>1. PICK R : R = OpToRel(<, Nat)
  OBVIOUS
<1>2. IsWellFoundedOn(R, Nat)
  BY <1>1, NatLessThanWellFounded
<1>3. PICK x \in U : \A y \in U : ~(<<y, x>> \in R)
  <2>1. U \subseteq Nat
    OBVIOUS
  <2> HIDE DEF U
  <2>2. QED
    BY <1>2, <2>1, WFMin
<1>4. x \in Nat /\ x \notin T /\ x # 0
  OBVIOUS
<1>5. x - 1 \in Nat /\ (x - 1) + 1 = x
  BY <1>4
<1>6. x - 1 \in U
  BY <1>4, <1>5
<1>7. <<x - 1, x>> \in R
  <2>1. R = {p \in Nat \X Nat : p[1] < p[2]}
    BY <1>1 DEF OpToRel
  <2>2. x - 1 < x
    BY <1>4
  <2>3. QED
    BY <1>4, <1>5, <2>1, <2>2
<1>8. QED
  BY <1>3, <1>6, <1>7

-----------------------------------------------------------------------------
(* The bytes of one key. *)
LEMMA KeyCodes ==
  ASSUME NEW k \in Keys
  PROVE  /\ k.scan \in Codes /\ k.scan \notin Mods /\ k.scan # E0 /\ k.scan # None
         /\ k.mod # None => k.mod \in Codes /\ k.mod \in Mods
         /\ k.mod # E0 /\ k.ext \in BOOLEAN /\ (k.ext => k.mod = None)
<1>1. /\ k.scan \notin {E0, None} /\ (\A l \in Keys : k.scan # l.mod)
      /\ k.mod # E0 /\ k.ext \in BOOLEAN /\ (k.ext => k.mod = None)
  BY KeysAssumption
<1>2. {k.scan, k.mod} \in {{l.scan, l.mod} : l \in Keys} /\ k.mod \in {l.mod : l \in Keys}
  OBVIOUS
<1>3. k.scan \notin {l.mod : l \in Keys}
  BY <1>1
<1>4. k.scan \in Codes /\ (k.mod # None => k.mod \in Codes /\ k.mod \in Mods) /\ k.scan \notin Mods
  <2>1. k.scan \in Codes
    <3> DEFINE W == {{l.scan, l.mod} : l \in Keys}
    <3>1. k.scan \in {k.scan, k.mod} /\ {k.scan, k.mod} \in W /\ k.scan # None
      BY <1>1
    <3>2. Codes = (UNION W) \ {None}
      BY DEF Codes
    <3> HIDE DEF W
    <3>3. QED
      BY <3>1, <3>2
  <2>2. k.mod # None => k.mod \in Codes /\ k.mod \in Mods
    <3> DEFINE W == {{l.scan, l.mod} : l \in Keys}
    <3>1. k.mod \in {k.scan, k.mod} /\ {k.scan, k.mod} \in W
      OBVIOUS
    <3>2. Codes = (UNION W) \ {None}
      BY DEF Codes
    <3>3. k.mod # None => k.mod \in Mods
      BY <1>2 DEF Mods
    <3> HIDE DEF W
    <3>4. QED
      BY <3>1, <3>2, <3>3
  <2>3. k.scan \notin Mods
    BY <1>3 DEF Mods
  <2>4. QED
    BY <2>1, <2>2, <2>3
<1>5. QED
  BY <1>1, <1>4

LEMMA PrefixCode == E0 \notin Codes
BY KeysAssumption DEF Codes

LEMMA ByteTypes ==
  /\ Prefix \in Bytes /\ ~IsMake(Prefix) /\ Prefix.code = E0
  /\ \A c \in Codes : Make(c) \in Bytes /\ IsMake(Make(c)) /\ Make(c).code = c
  /\ \A c \in Codes : Break(c) \in Bytes /\ ~IsMake(Break(c)) /\ Break(c).code = c
  /\ \A b \in Bytes : ~IsMake(b) => b \in {Break(c) : c \in Codes \union {E0}}
<1>1. Prefix = Break(E0)
  BY DEF Prefix
<1>2. \A c : Make(c).code = c /\ ~Make(c).release /\ Break(c).code = c /\ Break(c).release
  BY DEF Make, Break
<1>3. QED
  BY <1>1, <1>2 DEF Bytes, IsMake

LEMMA Joined ==
  /\ \A a, b \in Bytes : <<a>> \o <<b>> = <<a, b>>
  /\ \A a, b, c \in Bytes : <<a, b>> \o <<c>> = <<a, b, c>>
  /\ \A a, b, c, d \in Bytes : <<a, b, c>> \o <<d>> = <<a, b, c, d>>
  /\ \A a, b \in Bytes : /\ <<>> \o <<a>> = <<a>> /\ <<a>> \o <<>> = <<a>>
                         /\ <<a, b>> \o <<>> = <<a, b>>
  /\ \A a, b, c, d \in Bytes : <<a, b, c, d>> \o <<>> = <<a, b, c, d>>
  /\ <<>> \o <<>> = <<>>
<1>1. ASSUME NEW a \in Bytes, NEW b \in Bytes PROVE <<a>> \o <<b>> = <<a, b>>
  <2> DEFINE s == <<a>>
             t == <<a, b>>
             u == <<b>>
  <2>1. /\ s \in Seq(Bytes) /\ Len(s) = 1 /\ s[1] = a
        /\ u \in Seq(Bytes) /\ Len(u) = 1 /\ u[1] = b
        /\ t \in Seq(Bytes) /\ Len(t) = 2 /\ t[1] = a /\ t[2] = b
    OBVIOUS
  <2> HIDE DEF s, t, u
  <2>2. /\ s \o u \in Seq(Bytes) /\ Len(s \o u) = Len(s) + Len(u)
        /\ \A i \in 1 .. Len(s) + Len(u) : (s \o u)[i] = IF i <= Len(s) THEN s[i] ELSE u[i - Len(s)]
    BY <2>1, ConcatProperties
  <2>3. Len(s \o u) = 2 /\ \A i \in 1 .. 2 : (s \o u)[i] = IF i <= 1 THEN s[i] ELSE u[i - 1]
    BY <2>1, <2>2
  <2>4. \A i \in 1 .. 2 : (s \o u)[i] = t[i]
    BY <2>1, <2>3
  <2>5. QED
    BY <2>1, <2>2, <2>3, <2>4, SeqEqual DEF s, t, u
<1>2. ASSUME NEW a \in Bytes, NEW b \in Bytes, NEW c \in Bytes PROVE <<a, b>> \o <<c>> = <<a, b, c>>
  <2> DEFINE s == <<a, b>>
             t == <<a, b, c>>
             u == <<c>>
  <2>1. /\ s \in Seq(Bytes) /\ Len(s) = 2 /\ s[1] = a /\ s[2] = b
        /\ u \in Seq(Bytes) /\ Len(u) = 1 /\ u[1] = c
        /\ t \in Seq(Bytes) /\ Len(t) = 3 /\ t[1] = a /\ t[2] = b /\ t[3] = c
    OBVIOUS
  <2> HIDE DEF s, t, u
  <2>2. /\ s \o u \in Seq(Bytes) /\ Len(s \o u) = Len(s) + Len(u)
        /\ \A i \in 1 .. Len(s) + Len(u) : (s \o u)[i] = IF i <= Len(s) THEN s[i] ELSE u[i - Len(s)]
    BY <2>1, ConcatProperties
  <2>3. Len(s \o u) = 3 /\ \A i \in 1 .. 3 : (s \o u)[i] = IF i <= 2 THEN s[i] ELSE u[i - 2]
    BY <2>1, <2>2
  <2>4. \A i \in 1 .. 3 : (s \o u)[i] = t[i]
    BY <2>1, <2>3
  <2>5. QED
    BY <2>1, <2>2, <2>3, <2>4, SeqEqual DEF s, t, u
<1>3. ASSUME NEW a \in Bytes, NEW b \in Bytes, NEW c \in Bytes, NEW d \in Bytes PROVE <<a, b, c>> \o <<d>> = <<a, b, c, d>>
  <2> DEFINE s == <<a, b, c>>
             t == <<a, b, c, d>>
             u == <<d>>
  <2>1. /\ s \in Seq(Bytes) /\ Len(s) = 3 /\ s[1] = a /\ s[2] = b /\ s[3] = c
        /\ u \in Seq(Bytes) /\ Len(u) = 1 /\ u[1] = d
        /\ t \in Seq(Bytes) /\ Len(t) = 4 /\ t[1] = a /\ t[2] = b /\ t[3] = c /\ t[4] = d
    OBVIOUS
  <2> HIDE DEF s, t, u
  <2>2. /\ s \o u \in Seq(Bytes) /\ Len(s \o u) = Len(s) + Len(u)
        /\ \A i \in 1 .. Len(s) + Len(u) : (s \o u)[i] = IF i <= Len(s) THEN s[i] ELSE u[i - Len(s)]
    BY <2>1, ConcatProperties
  <2>3. Len(s \o u) = 4 /\ \A i \in 1 .. 4 : (s \o u)[i] = IF i <= 3 THEN s[i] ELSE u[i - 3]
    BY <2>1, <2>2
  <2>4. \A i \in 1 .. 4 : (s \o u)[i] = t[i]
    BY <2>1, <2>3
  <2>5. QED
    BY <2>1, <2>2, <2>3, <2>4, SeqEqual DEF s, t, u
<1>4. \A a, b \in Bytes : <<a>> \in Seq(Bytes) /\ <<a, b>> \in Seq(Bytes) /\ <<>> \in Seq(Bytes)
  OBVIOUS
<1>5. \A a, b, c, d \in Bytes : <<a, b, c, d>> \in Seq(Bytes)
  OBVIOUS
<1>6. \A s \in Seq(Bytes) : s \o <<>> = s /\ <<>> \o s = s
  BY ConcatEmptySeq
<1>7. <<>> \o <<>> = <<>>
  BY <1>6, EmptySeq
<1>8. QED
  BY <1>1, <1>2, <1>3, <1>4, <1>5, <1>6, <1>7

LEMMA ScanBytesAre ==
  ASSUME NEW k \in Keys
  PROVE  /\ ~k.ext /\ k.mod = None => ScanBytes(k) = <<Make(k.scan), Break(k.scan)>>
         /\ k.mod # None => ScanBytes(k) = <<Make(k.mod), Make(k.scan), Break(k.scan), Break(k.mod)>>
         /\ k.ext => ScanBytes(k) = <<Prefix, Make(k.scan), Prefix, Break(k.scan)>>
<1>1. k.ext \in BOOLEAN /\ (k.ext => k.mod = None)
  BY KeyCodes
<1> DEFINE m == Make(k.mod)
           x == Make(k.scan)
           y == Break(k.scan)
           z == Break(k.mod)
<1>2. CASE ~k.ext /\ k.mod = None
  <2>1. ScanBytes(k) = <<>> \o <<>> \o <<x>> \o <<>> \o <<y>> \o <<>>
    BY <1>2 DEF ScanBytes, When
  <2>2. x \in Bytes /\ y \in Bytes
    BY KeyCodes, ByteTypes
  <2> HIDE DEF x, y
  <2>3. <<>> \o <<>> \o <<x>> \o <<>> \o <<y>> \o <<>> = <<x, y>>
    <3>1. <<>> \o <<>> = <<>> /\ <<>> \o <<x>> = <<x>> /\ <<x>> \o <<>> = <<x>>
      BY <2>2, Joined
    <3>2. <<x>> \o <<y>> = <<x, y>> /\ <<x, y>> \o <<>> = <<x, y>>
      BY <2>2, Joined
    <3>3. QED
      BY <3>1, <3>2
  <2>4. QED
    BY <1>2, <2>1, <2>3 DEF x, y
<1>3. CASE k.mod # None
  <2>1. ScanBytes(k) = <<m>> \o <<>> \o <<x>> \o <<>> \o <<y>> \o <<z>>
    BY <1>1, <1>3 DEF ScanBytes, When
  <2>2. m \in Bytes /\ x \in Bytes /\ y \in Bytes /\ z \in Bytes
    BY <1>3, KeyCodes, ByteTypes
  <2> HIDE DEF m, x, y, z
  <2>3. <<m>> \o <<>> \o <<x>> \o <<>> \o <<y>> \o <<z>> = <<m, x, y, z>>
    <3>1. <<m>> \o <<>> = <<m>> /\ <<m>> \o <<x>> = <<m, x>>
      BY <2>2, Joined
    <3>2. <<m, x>> \o <<>> = <<m, x>> /\ <<m, x>> \o <<y>> = <<m, x, y>>
      BY <2>2, Joined
    <3>3. <<m, x, y>> \o <<z>> = <<m, x, y, z>>
      BY <2>2, Joined
    <3>4. QED
      BY <3>1, <3>2, <3>3
  <2>4. QED
    BY <1>1, <1>3, <2>1, <2>3 DEF m, x, y, z
<1>4. CASE k.ext
  <2>1. ScanBytes(k) = <<>> \o <<Prefix>> \o <<x>> \o <<Prefix>> \o <<y>> \o <<>>
    BY <1>1, <1>4 DEF ScanBytes, When
  <2>2. x \in Bytes /\ y \in Bytes /\ Prefix \in Bytes
    BY KeyCodes, ByteTypes
  <2> HIDE DEF x, y
  <2>3. <<>> \o <<Prefix>> \o <<x>> \o <<Prefix>> \o <<y>> \o <<>> = <<Prefix, x, Prefix, y>>
    <3>1. <<>> \o <<Prefix>> = <<Prefix>> /\ <<Prefix>> \o <<x>> = <<Prefix, x>>
      BY <2>2, Joined
    <3>2. <<Prefix, x>> \o <<Prefix>> = <<Prefix, x, Prefix>>
      BY <2>2, Joined
    <3>3. /\ <<Prefix, x, Prefix>> \o <<y>> = <<Prefix, x, Prefix, y>>
          /\ <<Prefix, x, Prefix, y>> \o <<>> = <<Prefix, x, Prefix, y>>
      BY <2>2, Joined
    <3>4. QED
      BY <3>1, <3>2, <3>3
  <2>4. QED
    BY <1>1, <1>4, <2>1, <2>3 DEF x, y
<1>5. QED
  BY <1>1, <1>2, <1>3, <1>4

LEMMA Associative ==
  \A s, t, u \in Seq(Bytes) : (s \o t) \o u = s \o (t \o u)
BY ConcatAssociative, SMT

LEMMA SamePrefix ==
  ASSUME NEW s \in Seq(Bytes), NEW t \in Seq(Bytes), <<Prefix>> \o s = <<Prefix>> \o t
  PROVE  s = t
<1>1. <<Prefix>> \in Seq(Bytes)
  BY ByteTypes
<1>2. QED
  BY <1>1, ConcatSimplifications

LEMMA ScanBytesType == ASSUME NEW k \in Keys PROVE ScanBytes(k) \in Seq(Bytes)
<1>1. \A a, b, c, d \in Bytes : <<a, b>> \in Seq(Bytes) /\ <<a, b, c, d>> \in Seq(Bytes)
  OBVIOUS
<1>2. QED
  <2>1. /\ k.scan \in Codes /\ (k.mod # None => k.mod \in Codes)
        /\ k.ext \in BOOLEAN /\ (k.ext => k.mod = None)
    BY KeyCodes
  <2>2. /\ Prefix \in Bytes /\ Make(k.scan) \in Bytes /\ Break(k.scan) \in Bytes
        /\ k.mod # None => Make(k.mod) \in Bytes /\ Break(k.mod) \in Bytes
    BY <2>1, ByteTypes
  <2>3. CASE k.mod # None
    BY <1>1, <2>2, <2>3, ScanBytesAre
  <2>4. CASE k.ext
    BY <1>1, <2>2, <2>4, ScanBytesAre
  <2>5. CASE ~k.ext /\ k.mod = None
    BY <1>1, <2>2, <2>5, ScanBytesAre
  <2>6. QED
    BY <2>1, <2>3, <2>4, <2>5

-----------------------------------------------------------------------------
(* The bytes of a sequence of keys: key by key, from either end.           *)
Rule(f, s, n) == IF n = 0 THEN <<>> ELSE f[n - 1] \o ScanBytes(s[n])
BytesBy(s, m) ==
  CHOOSE f : f = [n \in 0 .. m |-> IF n = 0 THEN <<>> ELSE f[n - 1] \o ScanBytes(s[n])]

LEMMA BytesAre == ASSUME NEW s PROVE HardwareScanBytes(s) = BytesBy(s, Len(s))[Len(s)]
BY DEF HardwareScanBytes, BytesBy

LEMMA BytesUnfold ==
  ASSUME NEW s, NEW m \in Nat, NEW n \in 0 .. m
  PROVE  BytesBy(s, m)[n] = Rule(BytesBy(s, m), s, n)
<1> DEFINE Solves(f, k) == f = [i \in 0 .. k |-> IF i = 0 THEN <<>> ELSE f[i - 1] \o ScanBytes(s[i])]
           T == {k \in Nat : \E f : Solves(f, k)}
<1>1. 0 \in T
  <2>1. Solves([i \in 0 .. 0 |-> <<>>], 0)
    OBVIOUS
  <2>2. QED
    BY <2>1
<1>2. ASSUME NEW k \in Nat, k \in T PROVE k + 1 \in T
  <2>1. PICK f : Solves(f, k)
    BY <1>2
  <2> DEFINE g == [i \in 0 .. k + 1 |-> IF i = k + 1 THEN f[k] \o ScanBytes(s[i]) ELSE f[i]]
  <2>2. \A i \in 0 .. k : f[i] = Rule(f, s, i)
    BY <2>1 DEF Rule
  <2>3. /\ \A i \in 0 .. k : g[i] = f[i]
        /\ g[k + 1] = f[k] \o ScanBytes(s[k + 1])
        /\ g = [i \in 0 .. k + 1 |-> g[i]]
    <3>1. \A i \in 0 .. k : i \in 0 .. k + 1 /\ i # k + 1
      OBVIOUS
    <3>2. k + 1 \in 0 .. k + 1
      OBVIOUS
    <3>3. \A i \in 0 .. k : g[i] = f[i]
      BY <3>1
    <3>4. g[k + 1] = f[k] \o ScanBytes(s[k + 1])
      BY <3>2
    <3>5. g = [i \in 0 .. k + 1 |-> g[i]]
      OBVIOUS
    <3>6. QED
      BY <3>3, <3>4, <3>5
  <2> HIDE DEF g
  <2>4. ASSUME NEW i \in 0 .. k + 1 PROVE g[i] = Rule(g, s, i)
    <3>1. CASE i = k + 1
      <4>1. i # 0 /\ i - 1 = k /\ k \in 0 .. k
        BY <3>1
      <4>2. QED
        BY <2>3, <3>1, <4>1 DEF Rule
    <3>2. CASE i # k + 1
      <4>1. i \in 0 .. k /\ (i # 0 => i - 1 \in 0 .. k)
        BY <3>2
      <4>2. QED
        BY <2>2, <2>3, <4>1 DEF Rule
    <3>3. QED
      BY <3>1, <3>2
  <2>5. Solves(g, k + 1)
    BY <2>3, <2>4 DEF Rule
  <2>6. \E e : Solves(e, k + 1)
    BY <2>5
  <2>7. QED
    BY <2>6
<1>3. \E f : Solves(f, m)
  <2>1. m \in T
    <3> HIDE DEF T
    <3>1. QED
      BY <1>1, <1>2, EveryNumber
  <2>2. QED
    BY <2>1
<1>4. BytesBy(s, m) = [i \in 0 .. m |-> IF i = 0 THEN <<>> ELSE BytesBy(s, m)[i - 1] \o ScanBytes(s[i])]
  BY <1>3 DEF BytesBy
<1>5. QED
  BY <1>4 DEF Rule

LEMMA BytesOfAppend ==
  /\ HardwareScanBytes(<<>>) = <<>>
  /\ \A s \in Seq(Keys), k \in Keys :
       HardwareScanBytes(Append(s, k)) = HardwareScanBytes(s) \o ScanBytes(k)
<1>1. HardwareScanBytes(<<>>) = <<>>
  <2>1. Len(<<>>) = 0 /\ 0 \in 0 .. 0
    OBVIOUS
  <2>2. QED
    BY <2>1, BytesAre, BytesUnfold DEF Rule
<1>2. ASSUME NEW s \in Seq(Keys), NEW k \in Keys
      PROVE  HardwareScanBytes(Append(s, k)) = HardwareScanBytes(s) \o ScanBytes(k)
  <2> DEFINE t == Append(s, k)
             l == Len(s)
             T == {n \in Nat : n <= l => BytesBy(t, l + 1)[n] = BytesBy(s, l)[n]}
  <2>1. /\ l \in Nat /\ Len(t) = l + 1 /\ t[l + 1] = k
        /\ \A i \in 1 .. l : t[i] = s[i]
    BY AppendProperties, LenProperties
  <2> HIDE DEF t, l
  <2>2. 0 \in T
    <3>1. 0 \in 0 .. l /\ 0 \in 0 .. l + 1 /\ l + 1 \in Nat
      BY <2>1
    <3>2. BytesBy(t, l + 1)[0] = <<>> /\ BytesBy(s, l)[0] = <<>>
      BY <2>1, <3>1, BytesUnfold DEF Rule
    <3>3. QED
      BY <3>2
  <2>3. ASSUME NEW n \in Nat, n \in T PROVE n + 1 \in T
    <3>1. CASE n + 1 <= l
      <4>1. /\ n + 1 \in 0 .. l /\ n + 1 \in 0 .. l + 1 /\ l + 1 \in Nat /\ n + 1 \in 1 .. l
            /\ n + 1 # 0 /\ (n + 1) - 1 = n /\ n <= l
        BY <2>1, <3>1
      <4>2. /\ BytesBy(t, l + 1)[n + 1] = BytesBy(t, l + 1)[n] \o ScanBytes(t[n + 1])
            /\ BytesBy(s, l)[n + 1] = BytesBy(s, l)[n] \o ScanBytes(s[n + 1])
        BY <2>1, <4>1, BytesUnfold DEF Rule
      <4>3. BytesBy(t, l + 1)[n] = BytesBy(s, l)[n]
        BY <2>3, <4>1
      <4>4. t[n + 1] = s[n + 1]
        BY <2>1, <4>1
      <4>5. BytesBy(t, l + 1)[n + 1] = BytesBy(s, l)[n + 1]
        BY <4>2, <4>3, <4>4
      <4>6. QED
        BY <4>5
    <3>2. CASE ~(n + 1 <= l)
      BY <3>2
    <3>3. QED
      BY <3>1, <3>2
  <2>4. BytesBy(t, l + 1)[l] = BytesBy(s, l)[l]
    <3>1. l \in T
      <4> HIDE DEF T
      <4>1. QED
        BY <2>1, <2>2, <2>3, EveryNumber
    <3>2. QED
      BY <2>1, <3>1
  <2>5. BytesBy(t, l + 1)[l + 1] = BytesBy(t, l + 1)[l] \o ScanBytes(k)
    <3>1. l + 1 \in Nat /\ l + 1 \in 0 .. l + 1 /\ l + 1 # 0 /\ (l + 1) - 1 = l
      BY <2>1
    <3>2. QED
      BY <2>1, <3>1, BytesUnfold DEF Rule
  <2>6. QED
    BY <2>1, <2>4, <2>5, BytesAre DEF t, l
<1>3. QED
  BY <1>1, <1>2

LEMMA BytesType == \A s \in Seq(Keys) : HardwareScanBytes(s) \in Seq(Bytes)
<1> DEFINE T == {n \in Nat : \A s \in Seq(Keys) : Len(s) = n => HardwareScanBytes(s) \in Seq(Bytes)}
<1>1. 0 \in T
  BY BytesOfAppend, EmptySeq
<1>2. ASSUME NEW n \in Nat, n \in T PROVE n + 1 \in T
  <2>1. ASSUME NEW s \in Seq(Keys), Len(s) = n + 1 PROVE HardwareScanBytes(s) \in Seq(Bytes)
    <3>1. s # <<>>
      BY <2>1, EmptySeq
    <3>2. PICK u \in Seq(Keys), k \in Keys : s = Append(u, k)
      BY <3>1, SequenceEmptyOrAppend
    <3>3. Len(u) = n
      BY <2>1, <3>2, AppendProperties, LenProperties
    <3>4. HardwareScanBytes(u) \in Seq(Bytes)
      BY <1>2, <3>3
    <3>5. QED
      BY <3>2, <3>4, BytesOfAppend, ScanBytesType, ConcatProperties
  <2>2. QED
    BY <2>1
<1>3. \A n \in Nat : n \in T
  <2> HIDE DEF T
  <2>1. QED
    BY <1>1, <1>2, EveryNumber
<1>4. QED
  BY <1>3, LenProperties

LEMMA BytesOfConcat ==
  ASSUME NEW s \in Seq(Keys)
  PROVE  \A t \in Seq(Keys) : HardwareScanBytes(s \o t) = HardwareScanBytes(s) \o HardwareScanBytes(t)
<1> DEFINE T == {n \in Nat : \A t \in Seq(Keys) : Len(t) = n =>
                   HardwareScanBytes(s \o t) = HardwareScanBytes(s) \o HardwareScanBytes(t)}
<1>1. 0 \in T
  <2>1. ASSUME NEW t \in Seq(Keys), Len(t) = 0
        PROVE  HardwareScanBytes(s \o t) = HardwareScanBytes(s) \o HardwareScanBytes(t)
    <3>1. t = <<>>
      BY <2>1, EmptySeq
    <3>2. s \o t = s
      BY <3>1, ConcatEmptySeq
    <3>3. HardwareScanBytes(s) \o <<>> = HardwareScanBytes(s)
      BY BytesType, ConcatEmptySeq
    <3>4. QED
      BY <3>1, <3>2, <3>3, BytesOfAppend
  <2>2. QED
    BY <2>1
<1>2. ASSUME NEW n \in Nat, n \in T PROVE n + 1 \in T
  <2>1. ASSUME NEW t \in Seq(Keys), Len(t) = n + 1
        PROVE  HardwareScanBytes(s \o t) = HardwareScanBytes(s) \o HardwareScanBytes(t)
    <3>1. t # <<>>
      BY <2>1, EmptySeq
    <3>2. PICK u \in Seq(Keys), k \in Keys : t = Append(u, k)
      BY <3>1, SequenceEmptyOrAppend
    <3>3. Len(u) = n
      BY <2>1, <3>2, AppendProperties, LenProperties
    <3>4. HardwareScanBytes(s \o u) = HardwareScanBytes(s) \o HardwareScanBytes(u)
      BY <1>2, <3>3
    <3>5. s \o t = Append(s \o u, k) /\ s \o u \in Seq(Keys)
      <4>1. s \o u \in Seq(Keys) /\ <<k>> \in Seq(Keys)
        BY ConcatProperties
      <4>2. t = u \o <<k>> /\ Append(s \o u, k) = (s \o u) \o <<k>>
        BY <3>2, <4>1, AppendIsConcat
      <4>3. QED
        BY <4>1, <4>2, ConcatAssociative
    <3>6. /\ HardwareScanBytes(s \o t) = HardwareScanBytes(s \o u) \o ScanBytes(k)
          /\ HardwareScanBytes(t) = HardwareScanBytes(u) \o ScanBytes(k)
      BY <3>2, <3>5, BytesOfAppend
    <3>7. /\ HardwareScanBytes(s) \in Seq(Bytes) /\ HardwareScanBytes(u) \in Seq(Bytes)
          /\ ScanBytes(k) \in Seq(Bytes)
      BY BytesType, ScanBytesType
    <3>8. (HardwareScanBytes(s) \o HardwareScanBytes(u)) \o ScanBytes(k)
          = HardwareScanBytes(s) \o (HardwareScanBytes(u) \o ScanBytes(k))
      BY <3>7, Associative
    <3>9. QED
      BY <3>4, <3>6, <3>8
  <2>2. QED
    BY <2>1
<1>3. \A n \in Nat : n \in T
  <2> HIDE DEF T
  <2>1. QED
    BY <1>1, <1>2, EveryNumber
<1>4. QED
  BY <1>3, LenProperties

LEMMA BytesOfFirst ==
  ASSUME NEW s \in Seq(Keys), s # <<>>
  PROVE  /\ s[1] \in Keys /\ Tail(s) \in Seq(Keys)
         /\ HardwareScanBytes(s) = ScanBytes(s[1]) \o HardwareScanBytes(Tail(s))
<1>1. s[1] \in Keys /\ Tail(s) \in Seq(Keys) /\ Len(s) \in Nat /\ Len(s) # 0
  BY HeadTailProperties, EmptySeq, LenProperties
<1>2. <<s[1]>> \in Seq(Keys) /\ <<>> \in Seq(Keys) /\ <<s[1]>> = Append(<<>>, s[1])
  BY <1>1
<1>3. s = <<s[1]>> \o Tail(s)
  <2>1. SubSeq(s, 1, Len(s)) = <<s[1]>> \o SubSeq(s, 2, Len(s))
    BY <1>1, SubSeqRecursiveFirst
  <2>2. QED
    BY <2>1, SubSeqFull, TailIsSubSeq
<1>4. HardwareScanBytes(<<s[1]>>) = ScanBytes(s[1])
  <2>1. HardwareScanBytes(<<s[1]>>) = <<>> \o ScanBytes(s[1])
    BY <1>1, <1>2, BytesOfAppend
  <2>2. QED
    BY <1>1, <2>1, ScanBytesType, ConcatEmptySeq
<1>5. QED
  BY <1>1, <1>2, <1>3, <1>4, BytesOfConcat

-----------------------------------------------------------------------------
(* The key makes of a sequence of bytes: one for each key.                 *)
KeyMakesAt(s) == {i \in 1 .. Len(s) : IsKeyMake(s[i])}
KeyMakes(s)   == Cardinality(KeyMakesAt(s))

LEMMA KeyMakesType ==
  ASSUME NEW s \in Seq(Bytes) PROVE IsFiniteSet(KeyMakesAt(s)) /\ KeyMakes(s) \in Nat
<1>1. Len(s) \in Nat /\ KeyMakesAt(s) \in SUBSET (1 .. Len(s))
  BY LenProperties DEF KeyMakesAt
<1>2. IsFiniteSet(1 .. Len(s))
  BY <1>1, FS_Interval
<1>3. QED
  BY <1>1, <1>2, FS_Subset, FS_CardinalityType DEF KeyMakes

LEMMA KeyMakesOfConcat ==
  ASSUME NEW s \in Seq(Bytes), NEW t \in Seq(Bytes)
  PROVE  KeyMakes(s \o t) = KeyMakes(s) + KeyMakes(t)
<1> DEFINE l == Len(s)
           A == KeyMakesAt(s)
           J == KeyMakesAt(t)
           f == [j \in J |-> l + j]
           B == {l + j : j \in J}
<1>1. /\ l \in Nat /\ Len(t) \in Nat /\ Len(s \o t) = l + Len(t)
      /\ \A i \in 1 .. l + Len(t) : (s \o t)[i] = IF i <= l THEN s[i] ELSE t[i - l]
  BY ConcatProperties, LenProperties
<1>2. A \subseteq 1 .. l /\ J \subseteq 1 .. Len(t)
  BY DEF KeyMakesAt
<1>3. KeyMakesAt(s \o t) = A \union B
  <2>1. ASSUME NEW i \in 1 .. l + Len(t) PROVE i \in KeyMakesAt(s \o t) <=> i \in A \/ i \in B
    <3>1. CASE i <= l
      <4>1. i \notin B /\ i \in 1 .. l
        BY <1>1, <1>2, <3>1
      <4>2. QED
        BY <1>1, <3>1, <4>1 DEF KeyMakesAt
    <3>2. CASE ~(i <= l)
      <4>1. i \notin A /\ i - l \in 1 .. Len(t) /\ l + (i - l) = i
        BY <1>1, <1>2, <3>2
      <4>2. i \in B <=> i - l \in J
        <5>1. \A j \in J : l + j = i => j = i - l
          BY <1>1, <1>2
        <5>2. QED
          BY <4>1, <5>1
      <4>3. (i \in KeyMakesAt(s \o t)) <=> IsKeyMake(t[i - l])
        BY <1>1, <3>2 DEF KeyMakesAt
      <4>4. (i - l \in J) <=> IsKeyMake(t[i - l])
        BY <4>1 DEF KeyMakesAt
      <4>5. QED
        BY <4>1, <4>2, <4>3, <4>4
    <3>3. QED
      BY <3>1, <3>2
  <2>2. KeyMakesAt(s \o t) \subseteq 1 .. l + Len(t)
    BY <1>1 DEF KeyMakesAt
  <2>3. A \subseteq 1 .. l + Len(t) /\ B \subseteq 1 .. l + Len(t)
    BY <1>1, <1>2
  <2>4. QED
    BY <2>1, <2>2, <2>3
<1>4. IsFiniteSet(A) /\ IsFiniteSet(J) /\ Cardinality(A) \in Nat /\ Cardinality(J) \in Nat
  BY KeyMakesType DEF KeyMakes
<1>5. A \cap B = {}
  BY <1>1, <1>2
<1>6. f \in Surjection(J, B) /\ f \in Injection(J, B)
  <2>1. f \in [J -> B] /\ \A b \in B : \E j \in J : f[j] = b
    OBVIOUS
  <2>2. \A i, j \in J : f[i] = f[j] => i = j
    BY <1>1, <1>2
  <2>3. QED
    BY <2>1, <2>2 DEF Surjection, Injection, IsInjective
<1> HIDE DEF A, B, J, f
<1>7. IsFiniteSet(B) /\ Cardinality(B) = Cardinality(J)
  BY <1>4, <1>6, FS_Surjection
<1>8. Cardinality(A \union B) = Cardinality(A) + Cardinality(B)
  <2>1. Cardinality(A \union B) = Cardinality(A) + Cardinality(B) - Cardinality(A \cap B)
    BY <1>4, <1>7, FS_Union
  <2>2. Cardinality(A \cap B) = 0
    BY <1>5, FS_EmptySet
  <2>3. QED
    BY <1>4, <1>7, <2>1, <2>2
<1>9. QED
  BY <1>3, <1>7, <1>8 DEF KeyMakes, A, J

LEMMA KeyMakesOfKey == ASSUME NEW k \in Keys PROVE KeyMakes(ScanBytes(k)) = 1
<1>1. /\ k.scan \in Codes /\ k.scan \notin Mods
      /\ k.mod # None => k.mod \in Codes /\ k.mod \in Mods
      /\ k.ext \in BOOLEAN /\ (k.ext => k.mod = None)
  BY KeyCodes
<1>2. /\ IsKeyMake(Make(k.scan)) /\ ~IsKeyMake(Break(k.scan)) /\ ~IsKeyMake(Prefix)
      /\ k.mod # None => ~IsKeyMake(Make(k.mod)) /\ ~IsKeyMake(Break(k.mod))
  BY <1>1, ByteTypes DEF IsKeyMake
<1>3. \E i : KeyMakesAt(ScanBytes(k)) = {i}
  <2>1. CASE ~k.ext /\ k.mod = None
    <3>1. ScanBytes(k) = <<Make(k.scan), Break(k.scan)>>
      BY <2>1, ScanBytesAre
    <3>2. KeyMakesAt(<<Make(k.scan), Break(k.scan)>>) = {1}
      BY <1>2 DEF KeyMakesAt
    <3>3. QED
      BY <3>1, <3>2
  <2>2. CASE k.mod # None
    <3>1. ScanBytes(k) = <<Make(k.mod), Make(k.scan), Break(k.scan), Break(k.mod)>>
      BY <2>2, ScanBytesAre
    <3>2. KeyMakesAt(<<Make(k.mod), Make(k.scan), Break(k.scan), Break(k.mod)>>) = {2}
      BY <1>2, <2>2 DEF KeyMakesAt
    <3>3. QED
      BY <3>1, <3>2
  <2>3. CASE k.ext
    <3>1. ScanBytes(k) = <<Prefix, Make(k.scan), Prefix, Break(k.scan)>>
      BY <2>3, ScanBytesAre
    <3>2. KeyMakesAt(<<Prefix, Make(k.scan), Prefix, Break(k.scan)>>) = {2}
      BY <1>2 DEF KeyMakesAt
    <3>3. QED
      BY <3>1, <3>2
  <2>4. QED
    BY <1>1, <2>1, <2>2, <2>3
<1>4. QED
  BY <1>3, FS_Singleton DEF KeyMakes

LEMMA KeyMakesOfKeys == \A s \in Seq(Keys) : KeyMakes(HardwareScanBytes(s)) = Len(s)
<1> DEFINE T == {n \in Nat : \A s \in Seq(Keys) : Len(s) = n => KeyMakes(HardwareScanBytes(s)) = n}
<1>1. 0 \in T
  <2>1. KeyMakesAt(<<>>) = {}
    BY DEF KeyMakesAt
  <2>2. KeyMakes(<<>>) = 0
    BY <2>1, FS_EmptySet DEF KeyMakes
  <2>3. \A s \in Seq(Keys) : Len(s) = 0 => s = <<>>
    BY EmptySeq
  <2>4. QED
    BY <2>2, <2>3, BytesOfAppend
<1>2. ASSUME NEW n \in Nat, n \in T PROVE n + 1 \in T
  <2>1. ASSUME NEW s \in Seq(Keys), Len(s) = n + 1 PROVE KeyMakes(HardwareScanBytes(s)) = n + 1
    <3>1. s # <<>>
      BY <2>1, EmptySeq
    <3>2. PICK u \in Seq(Keys), k \in Keys : s = Append(u, k)
      BY <3>1, SequenceEmptyOrAppend
    <3>3. Len(u) = n
      BY <2>1, <3>2, AppendProperties, LenProperties
    <3>4. KeyMakes(HardwareScanBytes(u)) = n
      BY <1>2, <3>3
    <3>5. KeyMakes(HardwareScanBytes(s)) = KeyMakes(HardwareScanBytes(u)) + KeyMakes(ScanBytes(k))
      BY <3>2, BytesOfAppend, BytesType, ScanBytesType, KeyMakesOfConcat
    <3>6. QED
      BY <3>4, <3>5, KeyMakesOfKey
  <2>2. QED
    BY <2>1
<1>3. \A n \in Nat : n \in T
  <2> HIDE DEF T
  <2>1. QED
    BY <1>1, <1>2, EveryNumber
<1>4. QED
  BY <1>3, LenProperties

-----------------------------------------------------------------------------
(* What a make phase takes from the queue that begins with w: the first a  *)
(* bytes of w are makes, the rest of it breaks, and a make follows.        *)
Runs(w, a) ==
  /\ a \in Nat /\ a < Len(w)
  /\ \A i \in 1 .. a : IsMake(w[i])
  /\ \A i \in a + 1 .. Len(w) : ~IsMake(w[i])

LEMMA PhaseOf ==
  ASSUME NEW w \in Seq(Bytes), NEW h \in Seq(Bytes), NEW a, scans = w \o h, Runs(w, a),
         h = <<>> \/ IsMake(h[1])
  PROVE  /\ Makes = a /\ Phase = Len(w)
         /\ SubSeq(scans, a + 1, Len(w)) = SubSeq(w, a + 1, Len(w))
         /\ SubSeq(scans, Len(w) + 1, Len(scans)) = h
         /\ \A i \in 1 .. a : scans[i] = w[i]
<1> DEFINE l == Len(w)
           n == Len(scans)
<1>1. /\ l \in Nat /\ Len(h) \in Nat /\ n = l + Len(h) /\ a \in Nat /\ a < l /\ n \in Nat
      /\ \A i \in 1 .. l : scans[i] = w[i]
      /\ h # <<>> => l < n /\ scans[l + 1] = h[1]
      /\ h = <<>> => l = n
  <2>1. /\ l \in Nat /\ Len(h) \in Nat /\ a \in Nat /\ a < l /\ n = l + Len(h)
        /\ \A i \in 1 .. l + Len(h) : scans[i] = IF i <= l THEN w[i] ELSE h[i - l]
    BY LenProperties, ConcatProperties DEF Runs
  <2>2. (h # <<>> => Len(h) # 0) /\ (h = <<>> => Len(h) = 0)
    BY EmptySeq
  <2>3. ASSUME h # <<>> PROVE l < n /\ scans[l + 1] = h[1]
    <3>1. l + 1 \in 1 .. l + Len(h) /\ ~(l + 1 <= l) /\ (l + 1) - l = 1
      BY <2>1, <2>2, <2>3
    <3>2. QED
      BY <2>1, <2>2, <2>3, <3>1
  <2>4. QED
    BY <2>1, <2>2, <2>3
<1>2. /\ \A i \in 1 .. a : IsMake(scans[i])
      /\ \A i \in a + 1 .. l : ~IsMake(scans[i])
      /\ l < n => IsMake(scans[l + 1])
  BY <1>1 DEF Runs
<1>3. SubSeq(scans, a + 1, l) = SubSeq(w, a + 1, l)
  BY <1>1, SubSeqOfConcat1
<1>4. SubSeq(scans, l + 1, n) = h
  <2>1. CASE h = <<>>
    BY <1>1, <2>1, SubSeqEmpty
  <2>2. CASE h # <<>>
    <3>1. SubSeq(scans, l + 1, n) = SubSeq(h, (l + 1) - l, n - l)
      BY <1>1, <2>2, SubSeqOfConcat2
    <3>2. (l + 1) - l = 1 /\ n - l = Len(h)
      BY <1>1
    <3>3. QED
      BY <3>1, <3>2, SubSeqFull
  <2>3. QED
    BY <2>1, <2>2
<1> HIDE DEF l, n
<1>5. Makes = a
  <2> DEFINE Is(m) == /\ \A i \in 1 .. m : IsMake(scans[i])
                      /\ m < n => ~IsMake(scans[m + 1])
  <2>1. a \in 0 .. n /\ Is(a)
    <3>1. a \in 0 .. n /\ a + 1 \in a + 1 .. l
      BY <1>1
    <3>2. QED
      BY <1>2, <3>1
  <2>2. ASSUME NEW m \in 0 .. n, Is(m) PROVE m = a
    <3>1. ~(m < a)
      <4>1. SUFFICES ASSUME m < a PROVE FALSE
        OBVIOUS
      <4>2. m < n /\ m + 1 \in 1 .. a
        BY <1>1, <4>1
      <4>3. QED
        BY <1>2, <2>2, <4>2
    <3>2. ~(a < m)
      <4>1. SUFFICES ASSUME a < m PROVE FALSE
        OBVIOUS
      <4>2. a + 1 \in 1 .. m /\ a + 1 \in a + 1 .. l
        BY <1>1, <4>1
      <4>3. QED
        BY <1>2, <2>2, <4>2
    <3>3. QED
      BY <1>1, <3>1, <3>2
  <2>3. Makes = CHOOSE m \in 0 .. n : Is(m)
    BY DEF Makes, n
  <2> HIDE DEF Is
  <2>4. QED
    BY <2>1, <2>2, <2>3
<1>6. Phase = l
  <2> DEFINE Is(m) == /\ \A i \in a + 1 .. m : ~IsMake(scans[i])
                      /\ m < n => IsMake(scans[m + 1])
  <2>1. l \in a .. n /\ Is(l)
    <3>1. l \in a .. n
      BY <1>1
    <3>2. QED
      BY <1>2, <3>1
  <2>2. ASSUME NEW m \in a .. n, Is(m) PROVE m = l
    <3>1. ~(m < l)
      <4>1. SUFFICES ASSUME m < l PROVE FALSE
        OBVIOUS
      <4>2. m < n /\ m + 1 \in a + 1 .. l
        BY <1>1, <4>1
      <4>3. QED
        BY <1>2, <2>2, <4>2
    <3>2. ~(l < m)
      <4>1. SUFFICES ASSUME l < m PROVE FALSE
        OBVIOUS
      <4>2. l + 1 \in a + 1 .. m /\ l < n
        BY <1>1, <4>1
      <4>3. QED
        BY <1>2, <2>2, <4>2
    <3>3. QED
      BY <1>1, <3>1, <3>2
  <2>3. Phase = CHOOSE m \in a .. n : Is(m)
    BY <1>5 DEF Phase, n
  <2> HIDE DEF Is
  <2>4. QED
    BY <2>1, <2>2, <2>3
<1>7. QED
  BY <1>1, <1>3, <1>4, <1>5, <1>6 DEF l, n

(* The keys that go down: at most one after its modifier. *)
LEMMA PressesOne ==
  ASSUME Makes \in {0, 1, 2}
  PROVE  /\ Makes = 0 => Presses = pressed
         /\ Makes = 1 /\ scans[1].code \notin Mods =>
              Presses = Append(pressed, [code |-> scans[1].code, ext |-> FALSE, with |-> Held(1)])
         /\ Makes = 2 /\ scans[1].code \in Mods /\ scans[2].code \notin Mods =>
              Presses = Append(pressed, [code |-> scans[2].code, ext |-> FALSE, with |-> Held(2)])
<1> DEFINE P(i) == [code |-> scans[i].code, ext |-> FALSE, with |-> Held(i)]
           Step(i, before) == IF scans[i].code \in Mods THEN before ELSE Append(before, P(i))
           Solves(f) == f = [n \in 0 .. Makes |->
                               IF n = 0 THEN pressed
                               ELSE IF scans[n].code \in Mods THEN f[n - 1]
                               ELSE Append(f[n - 1], P(n))]
           g == [n \in 0 .. Makes |-> IF n = 0 THEN pressed
                                      ELSE IF n = 1 THEN Step(1, pressed)
                                      ELSE Step(2, Step(1, pressed))]
<1> HIDE DEF P
<1>1. Solves(g)
  <2>1. ASSUME NEW n \in 0 .. Makes
        PROVE  g[n] = IF n = 0 THEN pressed
                      ELSE IF scans[n].code \in Mods THEN g[n - 1]
                      ELSE Append(g[n - 1], P(n))
    <3>1. n \in {0, 1, 2} /\ (n # 0 => n - 1 \in 0 .. Makes)
      OBVIOUS
    <3>2. CASE n = 0
      BY <3>2
    <3>3. CASE n = 1
      <4>1. g[1] = Step(1, pressed) /\ g[0] = pressed /\ 1 - 1 = 0
        BY <3>3
      <4> HIDE DEF g
      <4>2. QED
        BY <3>3, <4>1
    <3>4. CASE n = 2
      <4>1. g[2] = Step(2, Step(1, pressed)) /\ g[1] = Step(1, pressed) /\ 2 - 1 = 1
        BY <3>4
      <4> HIDE DEF g
      <4>2. g[2] = Step(2, g[1])
        BY <4>1
      <4>3. QED
        BY <3>4, <4>1, <4>2
    <3>5. QED
      BY <3>1, <3>2, <3>3, <3>4
  <2>2. g = [n \in 0 .. Makes |-> g[n]]
    OBVIOUS
  <2> HIDE DEF g
  <2>3. QED
    BY <2>1, <2>2
<1> DEFINE e == CHOOSE f : Solves(f)
<1>2. Solves(e)
  BY <1>1
<1>3. Presses = e[Makes]
  BY DEF Presses, P
<1> HIDE DEF e
<1>4. ASSUME NEW n \in 0 .. Makes
      PROVE  e[n] = IF n = 0 THEN pressed ELSE Step(n, e[n - 1])
  BY <1>2
<1> HIDE DEF Step
<1>5. /\ e[0] = pressed
      /\ Makes \in {1, 2} => e[1] = Step(1, e[0])
      /\ Makes = 2 => e[2] = Step(2, e[1])
  <2>1. 0 \in 0 .. Makes /\ 1 - 1 = 0 /\ 2 - 1 = 1
    OBVIOUS
  <2>2. Makes \in {1, 2} => 1 \in 0 .. Makes
    OBVIOUS
  <2>3. Makes = 2 => 2 \in 0 .. Makes
    OBVIOUS
  <2>4. QED
    BY <1>4, <2>1, <2>2, <2>3
<1>6. \A i, s : scans[i].code \in Mods => Step(i, s) = s
  BY DEF Step
<1>7. \A i, s : scans[i].code \notin Mods => Step(i, s) = Append(s, P(i))
  BY DEF Step
<1>8. Makes = 0 => Presses = pressed
  BY <1>3, <1>5
<1>9. ASSUME Makes = 1, scans[1].code \notin Mods
      PROVE  Presses = Append(pressed, [code |-> scans[1].code, ext |-> FALSE, with |-> Held(1)])
  <2>1. Presses = Step(1, pressed)
    BY <1>3, <1>5, <1>9
  <2>2. QED
    BY <1>7, <1>9, <2>1 DEF P
<1>10. ASSUME Makes = 2, scans[1].code \in Mods, scans[2].code \notin Mods
       PROVE  Presses = Append(pressed, [code |-> scans[2].code, ext |-> FALSE, with |-> Held(2)])
  <2>1. Presses = Step(2, Step(1, pressed))
    BY <1>3, <1>5, <1>10
  <2>2. Step(1, pressed) = pressed
    BY <1>6, <1>10
  <2>3. QED
    BY <1>7, <1>10, <2>1, <2>2 DEF P
<1>11. QED
  BY <1>8, <1>9, <1>10

(* A make phase that takes w. *)
Taken(w, h, a) ==
  /\ scans' = h /\ breaks' = SubSeq(w, a + 1, Len(w)) /\ gap' = "running"
  /\ down' = {w[i].code : i \in 1 .. a}
  /\ {breaks'[i].code : i \in DOMAIN breaks'} = {w[i].code : i \in a + 1 .. Len(w)}
  /\ breaks' \in Seq({Break(c) : c \in Codes \union {E0}})
  /\ a = 0 => pressed' = pressed
  /\ a = 1 /\ w[1].code \notin Mods =>
       pressed' = Append(pressed, [code |-> w[1].code, ext |-> FALSE, with |-> {}])
  /\ a = 2 /\ w[1].code \in Mods /\ w[2].code \notin Mods =>
       pressed' = Append(pressed, [code |-> w[2].code, ext |-> FALSE, with |-> {w[1].code}])

LEMMA PhaseTakes ==
  ASSUME MakePhase, down = {},
         NEW w \in Seq(Bytes), NEW h \in Seq(Bytes), NEW a \in {0, 1, 2}, scans = w \o h,
         Runs(w, a), h = <<>> \/ IsMake(h[1])
  PROVE  Taken(w, h, a)
<1>1. /\ Makes = a /\ Phase = Len(w) /\ \A i \in 1 .. a : scans[i] = w[i]
      /\ SubSeq(scans, a + 1, Len(w)) = SubSeq(w, a + 1, Len(w))
      /\ SubSeq(scans, Len(w) + 1, Len(scans)) = h
  BY PhaseOf
<1>2. scans' = h /\ breaks' = SubSeq(w, a + 1, Len(w)) /\ gap' = "running" /\ pressed' = Presses
  BY <1>1 DEF MakePhase
<1>3. Len(w) \in Nat /\ a \in Nat /\ a < Len(w) /\ \A i \in 1 .. Len(w) : w[i] \in Bytes
  BY LenProperties DEF Runs
<1>4. down' = {w[i].code : i \in 1 .. a}
  <2>1. down' = {scans[i].code : i \in 1 .. (a + 1) - 1}
    BY <1>1 DEF MakePhase, Held
  <2>2. (a + 1) - 1 = a
    BY <1>3
  <2>3. \A i \in 1 .. a : scans[i].code = w[i].code
    BY <1>1
  <2>4. {scans[i].code : i \in 1 .. a} = {w[i].code : i \in 1 .. a}
    BY <2>3, Zenon
  <2>5. QED
    BY <2>1, <2>2, <2>4
<1>5. /\ breaks' \in Seq({Break(c) : c \in Codes \union {E0}})
      /\ Len(breaks') = Len(w) - a
      /\ \A i \in 1 .. Len(w) - a : breaks'[i] = w[a + i]
  <2>1. \A i \in a + 1 .. Len(w) : w[i] \in {Break(c) : c \in Codes \union {E0}}
    <3>1. \A i \in a + 1 .. Len(w) : i \in 1 .. Len(w) /\ ~IsMake(w[i])
      BY <1>3 DEF Runs
    <3>2. QED
      BY <1>3, <3>1, ByteTypes
  <2>2. /\ a + 1 \in Int /\ Len(w) \in Int /\ Len(w) - (a + 1) + 1 = Len(w) - a
        /\ a + 1 <= Len(w)
        /\ \A i \in 1 .. Len(w) - a : (a + 1) + i - 1 = a + i
    BY <1>3
  <2> DEFINE B == {Break(c) : c \in Codes \union {E0}}
             m == a + 1
             n == Len(w)
  <2> HIDE DEF B, m, n
  <2>3. /\ SubSeq(w, m, n) \in Seq(B)
        /\ Len(SubSeq(w, m, n)) = IF m <= n THEN n - m + 1 ELSE 0
        /\ \A i \in 1 .. n - m + 1 : SubSeq(w, m, n)[i] = w[m + i - 1]
    <3>1. m \in Int /\ n \in Int /\ \A i \in m .. n : w[i] \in B
      BY <2>1, <2>2 DEF B, m, n
    <3>2. SubSeq(w, m, n) \in Seq(B)
      BY <3>1, SubSeqProperties
    <3>3. Len(SubSeq(w, m, n)) = IF m <= n THEN n - m + 1 ELSE 0
      BY <3>1, SubSeqProperties
    <3>4. QED
      BY <3>1, <3>2, <3>3, SubSeqProperties
  <2>4. QED
    BY <1>2, <2>2, <2>3 DEF B, m, n
<1>6. {breaks'[i].code : i \in DOMAIN breaks'} = {w[i].code : i \in a + 1 .. Len(w)}
  <2> DEFINE n == Len(w)
             b == breaks'
  <2>1. DOMAIN b = 1 .. n - a
    BY <1>5, LenProperties
  <2>2. n \in Nat /\ a \in Nat /\ a < n /\ \A i \in 1 .. n - a : b[i] = w[a + i]
    BY <1>3, <1>5
  <2> HIDE DEF n, b
  <2>3. ASSUME NEW i \in 1 .. n - a PROVE a + i \in a + 1 .. n
    BY <2>2
  <2>4. ASSUME NEW i \in a + 1 .. n PROVE i - a \in 1 .. n - a /\ a + (i - a) = i
    BY <2>2
  <2>5. \A i \in a + 1 .. n : b[i - a] = w[i]
    BY <2>2, <2>4
  <2>6. {b[i].code : i \in 1 .. n - a} = {w[i].code : i \in a + 1 .. n}
    <3> DEFINE B == {b[i].code : i \in 1 .. n - a}
               W == {w[i].code : i \in a + 1 .. n}
    <3>1. ASSUME NEW x \in B PROVE x \in W
      <4>1. PICK i \in 1 .. n - a : x = b[i].code
        OBVIOUS
      <4>2. x = w[a + i].code /\ a + i \in a + 1 .. n
        BY <2>2, <2>3, <4>1
      <4>3. QED
        BY <4>2
    <3>2. ASSUME NEW x \in W PROVE x \in B
      <4>1. PICK i \in a + 1 .. n : x = w[i].code
        OBVIOUS
      <4>2. x = b[i - a].code /\ i - a \in 1 .. n - a
        BY <2>4, <2>5, <4>1
      <4>3. QED
        BY <4>2
    <3>3. QED
      BY <3>1, <3>2
  <2>7. QED
    BY <2>1, <2>6 DEF n, b
<1>7. Held(1) = {}
  BY DEF Held
<1>8. (a = 1 => scans[1] = w[1]) /\ (a = 2 => scans[1] = w[1] /\ scans[2] = w[2])
  <2>1. 1 \in 1 .. 1 /\ 1 \in 1 .. 2 /\ 2 \in 1 .. 2
    OBVIOUS
  <2>2. \A i \in 1 .. a : scans[i] = w[i]
    BY <1>1
  <2>3. QED
    BY <2>1, <2>2, Zenon
<1>9. Held(2) = {scans[1].code}
  <2>1. 1 .. 2 - 1 = {1}
    OBVIOUS
  <2>2. QED
    BY <2>1 DEF Held
<1>10. ASSUME a = 1, w[1].code \notin Mods
       PROVE  pressed' = Append(pressed, [code |-> w[1].code, ext |-> FALSE, with |-> {}])
  BY <1>1, <1>2, <1>7, <1>8, <1>10, PressesOne
<1>11. ASSUME a = 2, w[1].code \in Mods, w[2].code \notin Mods
       PROVE  pressed' = Append(pressed, [code |-> w[2].code, ext |-> FALSE, with |-> {w[1].code}])
  BY <1>1, <1>2, <1>8, <1>9, <1>11, PressesOne
<1>12. a = 0 => pressed' = pressed
  BY <1>1, <1>2, PressesOne
<1>13. QED
  BY <1>2, <1>4, <1>5, <1>6, <1>10, <1>11, <1>12 DEF Taken

-----------------------------------------------------------------------------
(* s is what is to be sent for the keys r: all their bytes, but for the    *)
(* prefix of the first key, which may have gone with the breaks before it. *)
Left(s, r) ==
  \/ s = HardwareScanBytes(r)
  \/ s \in Seq(Bytes) /\ r # <<>> /\ r[1].ext /\ HardwareScanBytes(r) = <<Prefix>> \o s

Extended(k) == <<Make(k.scan), Prefix, Break(k.scan)>>

LEMMA ExtendedBytes ==
  ASSUME NEW k \in Keys, k.ext
  PROVE  /\ Extended(k) \in Seq(Bytes) /\ <<Prefix>> \in Seq(Bytes)
         /\ ScanBytes(k) = <<Prefix>> \o Extended(k)
<1> DEFINE x == Make(k.scan)
           y == Break(k.scan)
<1>1. x \in Bytes /\ y \in Bytes /\ Prefix \in Bytes
  BY KeyCodes, ByteTypes
<1>2. ScanBytes(k) = <<Prefix, x, Prefix, y>>
  BY ScanBytesAre
<1> HIDE DEF x, y
<1>3. <<Prefix>> \in Seq(Bytes) /\ <<x>> \in Seq(Bytes) /\ <<x, Prefix>> \in Seq(Bytes)
      /\ <<y>> \in Seq(Bytes) /\ <<x, Prefix, y>> \in Seq(Bytes)
  BY <1>1
<1>4. <<Prefix>> \o <<x, Prefix, y>> = <<Prefix, x, Prefix, y>>
  <2>1. <<x, Prefix>> \o <<y>> = <<x, Prefix, y>> /\ <<x>> \o <<Prefix>> = <<x, Prefix>>
    BY <1>1, Joined
  <2>2. <<Prefix>> \o (<<x, Prefix>> \o <<y>>) = (<<Prefix>> \o <<x, Prefix>>) \o <<y>>
    BY <1>3, ConcatAssociative
  <2>3. <<Prefix>> \o (<<x>> \o <<Prefix>>) = (<<Prefix>> \o <<x>>) \o <<Prefix>>
    BY <1>3, ConcatAssociative
  <2>4. /\ <<Prefix>> \o <<x>> = <<Prefix, x>> /\ <<Prefix, x>> \o <<Prefix>> = <<Prefix, x, Prefix>>
        /\ <<Prefix, x, Prefix>> \o <<y>> = <<Prefix, x, Prefix, y>>
    BY <1>1, Joined
  <2>5. QED
    BY <2>1, <2>2, <2>3, <2>4
<1>5. QED
  BY <1>2, <1>3, <1>4 DEF Extended, x, y

LEMMA FirstOfConcat ==
  ASSUME NEW s \in Seq(Bytes), NEW t \in Seq(Bytes), Len(s) # 0
  PROVE  s \o t # <<>> /\ (s \o t)[1] = s[1] /\ s \o t \in Seq(Bytes)
<1>1. /\ Len(s) \in Nat /\ Len(t) \in Nat /\ s \o t \in Seq(Bytes) /\ Len(s \o t) = Len(s) + Len(t)
      /\ \A i \in 1 .. Len(s) + Len(t) : (s \o t)[i] = IF i <= Len(s) THEN s[i] ELSE t[i - Len(s)]
  BY LenProperties, ConcatProperties
<1>2. 1 \in 1 .. Len(s) + Len(t) /\ 1 <= Len(s) /\ Len(s) + Len(t) # 0
  BY <1>1
<1>3. Len(<<>>) = 0
  OBVIOUS
<1>4. QED
  BY <1>1, <1>2, <1>3

(* After a prefix that the breaks before it take along, a make follows.    *)
LEMMA Ahead ==
  ASSUME NEW t \in Seq(Keys)
  PROVE  \E p \in {<<>>, <<Prefix>>}, h \in Seq(Bytes) :
           /\ HardwareScanBytes(t) = p \o h /\ Left(h, t)
           /\ h = <<>> \/ IsMake(h[1])
<1>1. HardwareScanBytes(t) \in Seq(Bytes)
  BY BytesType
<1>2. HardwareScanBytes(t) = <<>> \o HardwareScanBytes(t) /\ Left(HardwareScanBytes(t), t)
  BY <1>1, ConcatEmptySeq DEF Left
<1>3. CASE t = <<>>
  BY <1>1, <1>2, <1>3, BytesOfAppend
<1>4. CASE t # <<>>
  <2> DEFINE k == t[1]
             u == HardwareScanBytes(Tail(t))
  <2>1. k \in Keys /\ u \in Seq(Bytes) /\ HardwareScanBytes(t) = ScanBytes(k) \o u
    BY <1>4, BytesOfFirst, BytesType
  <2>2. k.ext \in BOOLEAN /\ (k.ext => k.mod = None) /\ Make(k.scan) \in Bytes /\ IsMake(Make(k.scan))
        /\ (k.mod # None => IsMake(Make(k.mod)))
    BY <2>1, KeyCodes, ByteTypes
  <2>3. CASE k.ext
    <3>1. /\ Extended(k) \in Seq(Bytes) /\ <<Prefix>> \in Seq(Bytes)
          /\ ScanBytes(k) = <<Prefix>> \o Extended(k)
      BY <2>1, <2>3, ExtendedBytes
    <3>2. Len(Extended(k)) # 0 /\ Extended(k)[1] = Make(k.scan)
      BY DEF Extended
    <3>3. HardwareScanBytes(t) = <<Prefix>> \o (Extended(k) \o u)
      BY <2>1, <3>1, ConcatAssociative
    <3>4. Extended(k) \o u \in Seq(Bytes) /\ IsMake((Extended(k) \o u)[1])
      BY <2>1, <2>2, <3>1, <3>2, FirstOfConcat
    <3>5. Left(Extended(k) \o u, t)
      BY <1>4, <2>3, <3>3, <3>4 DEF Left
    <3>6. QED
      BY <3>3, <3>4, <3>5
  <2>4. CASE ~k.ext
    <3>1. Len(ScanBytes(k)) # 0 /\ IsMake(ScanBytes(k)[1])
      <4>1. CASE k.mod = None
        <5>1. ScanBytes(k) = <<Make(k.scan), Break(k.scan)>>
          BY <2>1, <2>4, <4>1, ScanBytesAre
        <5>2. QED
          BY <2>2, <5>1
      <4>2. CASE k.mod # None
        <5>1. ScanBytes(k) = <<Make(k.mod), Make(k.scan), Break(k.scan), Break(k.mod)>>
          BY <2>1, <4>2, ScanBytesAre
        <5>2. QED
          BY <2>2, <4>2, <5>1
      <4>3. QED
        BY <4>1, <4>2
    <3>2. IsMake(HardwareScanBytes(t)[1])
      BY <2>1, <3>1, FirstOfConcat, ScanBytesType
    <3>3. QED
      BY <1>1, <1>2, <3>2
  <2>5. QED
    BY <2>2, <2>3, <2>4
<1>5. QED
  BY <1>3, <1>4

(* One key's make phase: its modifier and then the key go down, and their  *)
(* breaks are those that follow.                                           *)
PressOf(b, a, k) ==
  /\ a \in {1, 2} /\ Runs(b, a)
  /\ {b[i].code : i \in 1 .. a} = {b[i].code : i \in a + 1 .. Len(b)} \ {E0}
  /\ a = 1 => b[1].code = k.scan /\ k.mod = None
  /\ a = 2 => b[1].code = k.mod /\ b[2].code = k.scan /\ k.mod # None

LEMMA KeyPress ==
  ASSUME NEW k \in Keys, NEW b, IF k.ext THEN b = Extended(k) ELSE b = ScanBytes(k)
  PROVE  b \in Seq(Bytes) /\ \E a : PressOf(b, a, k)
<1>1. /\ k.scan \in Codes /\ k.scan # E0 /\ k.mod # E0 /\ k.ext \in BOOLEAN
      /\ k.mod # None => k.mod \in Codes
      /\ k.ext => k.mod = None
  BY KeyCodes
<1> DEFINE x == Make(k.scan)
           y == Break(k.scan)
           m == Make(k.mod)
           z == Break(k.mod)
<1>2. /\ IsMake(x) /\ x.code = k.scan /\ ~IsMake(y) /\ y.code = k.scan
      /\ ~IsMake(Prefix) /\ Prefix.code = E0
      /\ k.mod # None => IsMake(m) /\ m.code = k.mod /\ ~IsMake(z) /\ z.code = k.mod
  BY <1>1, ByteTypes
<1>3. b \in Seq(Bytes)
  BY <1>1, ExtendedBytes, ScanBytesType
<1>4. CASE k.ext
  <2>1. b = <<x, Prefix, y>> /\ k.mod = None
    BY <1>1, <1>4 DEF Extended
  <2> HIDE DEF x, y, m, z
  <2>2. Len(b) = 3 /\ b[1] = x /\ b[2] = Prefix /\ b[3] = y
    BY <2>1
  <2>3. 1 .. 1 = {1} /\ 1 + 1 .. 3 = {2, 3} /\ 1 \in Nat
    OBVIOUS
  <2>4. Runs(b, 1)
    BY <1>2, <2>2, <2>3 DEF Runs
  <2>5. {b[i].code : i \in 1 .. 1} = {k.scan} /\ {b[i].code : i \in 1 + 1 .. 3} = {E0, k.scan}
    BY <1>2, <2>2, <2>3
  <2>6. PressOf(b, 1, k)
    BY <1>1, <1>2, <2>1, <2>2, <2>4, <2>5 DEF PressOf
  <2>7. QED
    BY <1>3, <2>6
<1>5. CASE ~k.ext /\ k.mod = None
  <2>1. b = <<x, y>>
    BY <1>5, ScanBytesAre
  <2> HIDE DEF x, y, m, z
  <2>2. Len(b) = 2 /\ b[1] = x /\ b[2] = y
    BY <2>1
  <2>3. 1 .. 1 = {1} /\ 1 + 1 .. 2 = {2} /\ 1 \in Nat
    OBVIOUS
  <2>4. Runs(b, 1)
    BY <1>2, <2>2, <2>3 DEF Runs
  <2>5. {b[i].code : i \in 1 .. 1} = {k.scan} /\ {b[i].code : i \in 1 + 1 .. 2} = {k.scan}
    BY <1>2, <2>2, <2>3
  <2>6. PressOf(b, 1, k)
    BY <1>1, <1>2, <1>5, <2>2, <2>4, <2>5 DEF PressOf
  <2>7. QED
    BY <1>3, <2>6
<1>6. CASE ~k.ext /\ k.mod # None
  <2>1. b = <<m, x, y, z>>
    BY <1>6, ScanBytesAre
  <2> HIDE DEF x, y, m, z
  <2>2. Len(b) = 4 /\ b[1] = m /\ b[2] = x /\ b[3] = y /\ b[4] = z
    BY <2>1
  <2>3. 1 .. 2 = {1, 2} /\ 2 + 1 .. 4 = {3, 4} /\ 2 \in Nat
    OBVIOUS
  <2>4. Runs(b, 2)
    BY <1>2, <1>6, <2>2, <2>3 DEF Runs
  <2>5. {b[i].code : i \in 1 .. 2} = {k.mod, k.scan} /\ {b[i].code : i \in 2 + 1 .. 4} = {k.scan, k.mod}
    BY <1>2, <1>6, <2>2, <2>3
  <2>6. PressOf(b, 2, k)
    BY <1>1, <1>2, <1>6, <2>2, <2>4, <2>5 DEF PressOf
  <2>7. QED
    BY <1>3, <2>6
<1>7. QED
  BY <1>1, <1>4, <1>5, <1>6

-----------------------------------------------------------------------------
(* The keys that have been pressed are the first of those given; the rest  *)
(* of them is in the queue.                                                *)
Rest == SubSeq(given, Len(pressed) + 1, Len(given))

KeyInv ==
  /\ Len(pressed) <= Len(given)
  /\ \A i \in 1 .. Len(pressed) : pressed[i] = Twin(given[i])
  /\ Left(scans, Rest)
  /\ down = {breaks[i].code : i \in DOMAIN breaks} \ {E0}

Presented == [code : Codes, ext : BOOLEAN, with : SUBSET Codes]
QueueType == /\ scans \in Seq(Bytes)
             /\ breaks \in Seq({Break(c) : c \in Codes \union {E0}})
             /\ gap \in {"off", "running", "over"}
             /\ down \subseteq Codes
             /\ pressed \in Seq(Presented)
             /\ given \in Seq(Keys)

LEMMA QueueParts == TypeOK => QueueType /\ Len(given) \in Nat /\ Len(pressed) \in Nat
BY LenProperties DEF TypeOK, QueueType, Bytes, Presented

LEMMA TwinType == ASSUME NEW k \in Keys PROVE Twin(k) \in Presented
BY KeyCodes DEF Twin, Presented

LEMMA RestIs ==
  ASSUME NEW g \in Seq(Keys), NEW n \in Nat, n <= Len(g)
  PROVE  LET r == SubSeq(g, n + 1, Len(g))
         IN  /\ r \in Seq(Keys) /\ Len(r) = Len(g) - n
             /\ r # <<>> => /\ n + 1 \in 1 .. Len(g) /\ r[1] = g[n + 1]
                            /\ Tail(r) = SubSeq(g, n + 1 + 1, Len(g))
             /\ \A t \in Seq(Keys) : SubSeq(g \o t, n + 1, Len(g \o t)) = r \o t
<1> DEFINE l == Len(g)
           m == n + 1
           r == SubSeq(g, m, l)
<1>1. l \in Nat /\ m \in Int /\ n + 1 = m /\ \A i \in m .. l : g[i] \in Keys
  BY LenProperties, ElementOfSeq
<1>2. /\ r \in Seq(Keys) /\ Len(r) = l - n
      /\ \A i \in 1 .. l - n : r[i] = g[n + i]
  <2>1. /\ r \in Seq(Keys) /\ Len(r) = IF m <= l THEN l - m + 1 ELSE 0
        /\ \A i \in 1 .. l - m + 1 : r[i] = g[m + i - 1]
    <3> HIDE DEF m, l
    <3>1. QED
      BY <1>1, SubSeqProperties
  <2>2. l - m + 1 = l - n /\ (IF m <= l THEN l - m + 1 ELSE 0) = l - n
    BY <1>1
  <2>3. \A i \in 1 .. l - n : m + i - 1 = n + i
    BY <1>1
  <2>4. QED
    BY <2>1, <2>2, <2>3
<1> HIDE DEF r
<1>3. ASSUME r # <<>>
      PROVE  n + 1 \in 1 .. l /\ r[1] = g[n + 1] /\ Tail(r) = SubSeq(g, m + 1, l)
  <2>1. Len(r) # 0
    BY <1>2, <1>3, EmptySeq
  <2>2. m \in 1 .. l /\ l \in m .. l /\ 1 \in 1 .. l - n
    BY <1>1, <1>2, <2>1
  <2>3. Tail(r) = SubSeq(g, m + 1, l)
    BY <2>2, HeadTailOfSubSeq DEF r
  <2>4. QED
    BY <1>1, <1>2, <2>2, <2>3
<1>4. ASSUME NEW t \in Seq(Keys) PROVE SubSeq(g \o t, m, Len(g \o t)) = r \o t
  <2> DEFINE gt == g \o t
             k == Len(gt)
             q == SubSeq(gt, m, k)
  <2>1. /\ gt \in Seq(Keys) /\ Len(t) \in Nat /\ k = l + Len(t)
        /\ \A i \in 1 .. l + Len(t) : gt[i] = IF i <= l THEN g[i] ELSE t[i - l]
    BY ConcatProperties, LenProperties
  <2> HIDE DEF gt, k
  <2>2. k \in Int /\ \A i \in m .. k : gt[i] \in Keys
    <3>1. k \in Int /\ \A i \in m .. k : i \in 1 .. k
      BY <1>1, <2>1
    <3>2. QED
      BY <2>1, <3>1, ElementOfSeq DEF k
  <2>3. /\ q \in Seq(Keys) /\ Len(q) = IF m <= k THEN k - m + 1 ELSE 0
        /\ \A i \in 1 .. k - m + 1 : q[i] = gt[m + i - 1]
    <3> HIDE DEF m
    <3>1. QED
      BY <1>1, <2>2, SubSeqProperties
  <2>4. k - m + 1 = k - n /\ (IF m <= k THEN k - m + 1 ELSE 0) = k - n
    BY <1>1, <2>1
  <2>5. \A i \in 1 .. k - n : m + i - 1 = n + i
    BY <1>1, <2>1
  <2>6. Len(q) = k - n /\ \A i \in 1 .. k - n : q[i] = gt[n + i]
    BY <2>3, <2>4, <2>5
  <2>7. /\ r \o t \in Seq(Keys) /\ Len(r \o t) = k - n
        /\ \A i \in 1 .. k - n : (r \o t)[i] = IF i <= l - n THEN r[i] ELSE t[i - (l - n)]
    <3>1. /\ r \o t \in Seq(Keys) /\ Len(r \o t) = Len(r) + Len(t)
          /\ \A i \in 1 .. Len(r) + Len(t) : (r \o t)[i] = IF i <= Len(r) THEN r[i] ELSE t[i - Len(r)]
      BY <1>2, ConcatProperties
    <3>2. Len(r) = l - n /\ Len(r) + Len(t) = k - n
      BY <1>1, <1>2, <2>1
    <3>3. QED
      BY <3>1, <3>2
  <2>8. ASSUME NEW i \in 1 .. k - n PROVE q[i] = (r \o t)[i]
    <3>1. n + i \in 1 .. l + Len(t) /\ i \in Nat /\ i # 0
      BY <1>1, <2>1
    <3>2. CASE i <= l - n
      <4>1. n + i <= l /\ i \in 1 .. l - n
        BY <1>1, <3>1, <3>2
      <4>2. QED
        BY <1>2, <2>1, <2>6, <2>7, <3>1, <3>2, <4>1
    <3>3. CASE ~(i <= l - n)
      <4>1. ~(n + i <= l) /\ (n + i) - l = i - (l - n)
        BY <1>1, <3>1, <3>3
      <4>2. QED
        BY <2>1, <2>6, <2>7, <3>1, <3>3, <4>1
    <3>4. QED
      BY <3>2, <3>3
  <2> HIDE DEF q
  <2>9. q = r \o t
    BY <2>3, <2>6, <2>7, <2>8, SeqEqual
  <2>10. QED
    BY <2>9 DEF q, gt, k
<1>5. QED
  BY <1>2, <1>3, <1>4 DEF r

(* As many keys are to be pressed as have key makes in the queue.          *)
LEMMA KeysLeft ==
  ASSUME TypeOK, KeyInv
  PROVE  KeysPressedInTurn
<1>1. /\ scans \in Seq(Bytes) /\ pressed \in Seq(Presented) /\ given \in Seq(Keys)
      /\ Len(given) \in Nat /\ Len(pressed) \in Nat /\ Len(pressed) <= Len(given)
      /\ DOMAIN pressed = 1 .. Len(pressed) /\ DOMAIN scans = 1 .. Len(scans)
  BY QueueParts, LenProperties DEF QueueType, KeyInv
<1>2. Rest \in Seq(Keys) /\ Len(Rest) = Len(given) - Len(pressed)
  BY <1>1, RestIs DEF Rest
<1>3. KeyMakes(HardwareScanBytes(Rest)) = Len(Rest)
  BY <1>2, KeyMakesOfKeys
<1>4. KeyMakes(scans) = Len(Rest)
  <2>1. CASE scans = HardwareScanBytes(Rest)
    BY <1>3, <2>1
  <2>2. CASE HardwareScanBytes(Rest) = <<Prefix>> \o scans
    <3>1. <<Prefix>> \in Seq(Bytes)
      BY ByteTypes
    <3>2. KeyMakesAt(<<Prefix>>) = {}
      <4>1. Len(<<Prefix>>) = 1 /\ <<Prefix>>[1] = Prefix /\ ~IsKeyMake(Prefix)
        BY ByteTypes DEF IsKeyMake
      <4>2. QED
        BY <4>1 DEF KeyMakesAt
    <3>3. KeyMakes(<<Prefix>>) = 0
      BY <3>2, FS_EmptySet DEF KeyMakes
    <3>4. Len(Rest) = 0 + KeyMakes(scans) /\ KeyMakes(scans) \in Nat
      BY <1>1, <1>3, <2>2, <3>1, <3>3, KeyMakesOfConcat, KeyMakesType
    <3>5. QED
      BY <3>4
  <2>3. QED
    BY <2>1, <2>2 DEF KeyInv, Left
<1>5. KeyMakes(scans) = Cardinality({i \in DOMAIN scans : IsKeyMake(scans[i])})
  BY <1>1 DEF KeyMakes, KeyMakesAt
<1>6. Len(pressed) + Cardinality({i \in DOMAIN scans : IsKeyMake(scans[i])}) = Len(given)
  BY <1>1, <1>2, <1>4, <1>5
<1>7. ASSUME NEW k \in Keys PROVE Twin(k) = IF k.ext THEN Twin(k) ELSE Meant(k)
  <2>1. k.ext \in BOOLEAN
    BY KeyCodes
  <2>2. ~k.ext => k.ext = FALSE
    BY <2>1
  <2>3. QED
    BY <2>2 DEF Twin, Meant
<1>8. ASSUME NEW i \in DOMAIN pressed
      PROVE  pressed[i] = IF given[i].ext THEN Twin(given[i]) ELSE Meant(given[i])
  <2>1. pressed[i] = Twin(given[i]) /\ i \in 1 .. Len(given)
    BY <1>1 DEF KeyInv
  <2>2. given[i] \in Keys
    BY <1>1, <2>1, ElementOfSeq
  <2>3. QED
    BY <1>7, <2>1, <2>2
<1>9. QED
  BY <1>6, <1>8 DEF KeyInv, KeysPressedInTurn

-----------------------------------------------------------------------------
(* The actions. *)
LEMMA ExtendKeeps ==
  ASSUME TypeOK, KeyInv, NEW ks \in Seq(Keys), Extend(ks), UNCHANGED <<down, pressed>>
  PROVE  QueueType' /\ KeyInv'
<1>1. /\ QueueType /\ Len(given) \in Nat /\ Len(pressed) \in Nat /\ given \in Seq(Keys)
      /\ scans \in Seq(Bytes)
  BY QueueParts DEF QueueType
<1>2. /\ scans' = scans \o HardwareScanBytes(ks) /\ given' = given \o ks
      /\ UNCHANGED <<breaks, gap, down, pressed>>
  BY DEF Extend
<1>3. /\ Rest \in Seq(Keys) /\ Rest' = Rest \o ks /\ Rest \o ks \in Seq(Keys)
      /\ HardwareScanBytes(ks) \in Seq(Bytes)
  <2>1. SubSeq(given \o ks, Len(pressed) + 1, Len(given \o ks)) = Rest \o ks /\ Rest \in Seq(Keys)
    BY <1>1, RestIs DEF Rest, KeyInv
  <2>2. QED
    BY <1>2, <2>1, BytesType, ConcatProperties DEF Rest
<1>4. QueueType'
  BY <1>1, <1>2, <1>3, ConcatProperties DEF QueueType
<1>5. /\ Len(pressed') <= Len(given')
      /\ \A i \in 1 .. Len(pressed') : pressed'[i] = Twin(given'[i])
  <2>1. /\ Len(given \o ks) = Len(given) + Len(ks) /\ Len(ks) \in Nat
        /\ \A i \in 1 .. Len(given) + Len(ks) : i <= Len(given) => (given \o ks)[i] = given[i]
    BY <1>1, ConcatProperties, LenProperties
  <2>2. \A i \in 1 .. Len(pressed) : i \in 1 .. Len(given) + Len(ks) /\ i <= Len(given)
    BY <1>1, <2>1 DEF KeyInv
  <2>3. QED
    BY <1>1, <1>2, <2>1, <2>2 DEF KeyInv
<1>6. HardwareScanBytes(Rest') = HardwareScanBytes(Rest) \o HardwareScanBytes(ks)
  BY <1>3, BytesOfConcat
<1>7. Left(scans', Rest')
  <2>1. CASE scans = HardwareScanBytes(Rest)
    BY <1>2, <1>6, <2>1 DEF Left
  <2>2. CASE Rest # <<>> /\ Rest[1].ext /\ HardwareScanBytes(Rest) = <<Prefix>> \o scans
    <3>1. <<Prefix>> \in Seq(Bytes)
      BY ByteTypes
    <3>2. HardwareScanBytes(Rest') = <<Prefix>> \o scans'
      <4>1. HardwareScanBytes(Rest') = (<<Prefix>> \o scans) \o HardwareScanBytes(ks)
        BY <1>6, <2>2
      <4>2. scans \in Seq(Bytes) /\ HardwareScanBytes(ks) \in Seq(Bytes)
        BY <1>1, <1>3
      <4>3. (<<Prefix>> \o scans) \o HardwareScanBytes(ks)
              = <<Prefix>> \o (scans \o HardwareScanBytes(ks))
        BY <3>1, <4>2, Associative
      <4>4. QED
        BY <1>2, <4>1, <4>3
    <3>3. Rest' # <<>> /\ Rest'[1] = Rest[1]
      <4>1. Len(Rest) \in Nat /\ Len(Rest) # 0 /\ Len(ks) \in Nat
        BY <1>3, <2>2, EmptySeq, LenProperties
      <4>2. /\ Len(Rest \o ks) = Len(Rest) + Len(ks)
            /\ 1 \in 1 .. Len(Rest) + Len(ks) /\ 1 <= Len(Rest)
        BY <1>3, <4>1, ConcatProperties
      <4>3. (Rest \o ks)[1] = Rest[1]
        BY <1>3, <4>2, ConcatProperties
      <4>4. Len(<<>>) = 0
        OBVIOUS
      <4>5. QED
        BY <1>3, <4>1, <4>2, <4>3, <4>4
    <3>4. scans' \in Seq(Bytes)
      BY <1>4 DEF QueueType
    <3>5. QED
      BY <2>2, <3>2, <3>3, <3>4 DEF Left
  <2>3. QED
    BY <2>1, <2>2 DEF KeyInv, Left
<1>8. QED
  BY <1>2, <1>4, <1>5, <1>7 DEF KeyInv

(* The phase of the key k, when it is the next.                            *)
LEMMA KeyPhase ==
  ASSUME MakePhase, down = {}, pressed \in Seq(Presented), NEW k \in Keys, NEW b,
         IF k.ext THEN b = Extended(k) ELSE b = ScanBytes(k),
         NEW t \in Seq(Keys), scans = b \o HardwareScanBytes(t)
  PROVE  /\ scans' \in Seq(Bytes) /\ Left(scans', t)
         /\ breaks' \in Seq({Break(c) : c \in Codes \union {E0}}) /\ gap' = "running"
         /\ down' = {breaks'[i].code : i \in DOMAIN breaks'} \ {E0}
         /\ pressed' = Append(pressed, Twin(k))
<1>1. PICK a : b \in Seq(Bytes) /\ PressOf(b, a, k)
  BY KeyPress
<1>2. PICK p \in {<<>>, <<Prefix>>}, h \in Seq(Bytes) :
        /\ HardwareScanBytes(t) = p \o h /\ Left(h, t)
        /\ h = <<>> \/ IsMake(h[1])
  BY Ahead
<1> DEFINE w == b \o p
           l == Len(b)
<1>3. p \in Seq(Bytes) /\ Len(p) \in {0, 1} /\ \A i \in 1 .. Len(p) : p[i] = Prefix
  <2>1. CASE p = <<>>
    BY <2>1
  <2>2. CASE p = <<Prefix>>
    BY <2>2, ByteTypes
  <2>3. QED
    BY <2>1, <2>2
<1>4. /\ w \in Seq(Bytes) /\ l \in Nat /\ Len(w) = l + Len(p) /\ scans = w \o h
      /\ \A i \in 1 .. l : w[i] = b[i]
      /\ \A i \in l + 1 .. Len(w) : w[i] = Prefix
  <2>1. /\ w \in Seq(Bytes) /\ l \in Nat /\ Len(w) = l + Len(p)
        /\ \A i \in 1 .. l + Len(p) : w[i] = IF i <= l THEN b[i] ELSE p[i - l]
    BY <1>1, <1>3, ConcatProperties, LenProperties
  <2>2. scans = w \o h
    <3>1. (b \o p) \o h = b \o (p \o h)
      <4>1. h \in Seq(Bytes) /\ b \in Seq(Bytes) /\ p \in Seq(Bytes)
        BY <1>1, <1>2, <1>3
      <4>2. QED
        BY <4>1, Associative
    <3>2. QED
      BY <1>2, <3>1
  <2> HIDE DEF w, l
  <2>3. \A i \in 1 .. l : i \in 1 .. l + Len(p) /\ i <= l
    BY <1>3, <2>1
  <2>4. \A i \in l + 1 .. Len(w) : i \in 1 .. l + Len(p) /\ ~(i <= l) /\ i - l \in 1 .. Len(p)
    BY <1>3, <2>1
  <2>5. QED
    BY <1>3, <2>1, <2>2, <2>3, <2>4
<1>5. /\ a \in {1, 2} /\ Runs(b, a) /\ a < l
      /\ \A i \in 1 .. a : i \in 1 .. l
  BY <1>1, <1>4 DEF PressOf, Runs
<1> HIDE DEF w
<1>6. Runs(w, a)
  <2>1. \A i \in 1 .. a : IsMake(w[i])
    BY <1>4, <1>5 DEF Runs
  <2>2. ASSUME NEW i \in a + 1 .. Len(w) PROVE ~IsMake(w[i])
    <3>1. CASE i <= l
      <4>1. i \in a + 1 .. l /\ i \in 1 .. l
        BY <1>4, <1>5, <3>1
      <4>2. QED
        BY <1>4, <1>5, <4>1 DEF Runs
    <3>2. CASE ~(i <= l)
      <4>1. i \in l + 1 .. Len(w)
        BY <1>3, <1>4, <1>5, <3>2
      <4>2. QED
        BY <1>4, <4>1, ByteTypes
    <3>3. QED
      BY <3>1, <3>2
  <2>3. QED
    BY <1>3, <1>4, <1>5, <2>1, <2>2 DEF Runs
<1>7. /\ scans' = h /\ gap' = "running"
      /\ down' = {w[i].code : i \in 1 .. a}
      /\ {breaks'[i].code : i \in DOMAIN breaks'} = {w[i].code : i \in a + 1 .. Len(w)}
      /\ breaks' \in Seq({Break(c) : c \in Codes \union {E0}})
      /\ a = 1 /\ w[1].code \notin Mods =>
           pressed' = Append(pressed, [code |-> w[1].code, ext |-> FALSE, with |-> {}])
      /\ a = 2 /\ w[1].code \in Mods /\ w[2].code \notin Mods =>
           pressed' = Append(pressed, [code |-> w[2].code, ext |-> FALSE, with |-> {w[1].code}])
  <2>1. a \in {0, 1, 2}
    BY <1>5
  <2>2. QED
    <3>1. /\ w \in Seq(Bytes) /\ h \in Seq(Bytes) /\ scans = w \o h /\ Runs(w, a)
          /\ h = <<>> \/ IsMake(h[1])
      BY <1>2, <1>4, <1>6
    <3>2. Taken(w, h, a)
      BY <2>1, <3>1, PhaseTakes
    <3>3. QED
      BY <3>2 DEF Taken
<1>8. {w[i].code : i \in 1 .. a} = {w[i].code : i \in a + 1 .. Len(w)} \ {E0}
  <2> DEFINE B == {b[i].code : i \in a + 1 .. l}
             W == {w[i].code : i \in a + 1 .. Len(w)}
  <2>1. {w[i].code : i \in 1 .. a} = {b[i].code : i \in 1 .. a}
    <3>1. \A i \in 1 .. a : w[i].code = b[i].code
      BY <1>4, <1>5
    <3>2. QED
      BY <3>1, Zenon
  <2>2. ASSUME NEW x \in B PROVE x \in W
    <3>1. PICK i \in a + 1 .. l : x = b[i].code
      OBVIOUS
    <3>2. i \in 1 .. l /\ i \in a + 1 .. Len(w)
      BY <1>3, <1>4, <1>5
    <3>3. x = w[i].code
      BY <1>4, <3>1, <3>2
    <3>4. QED
      BY <3>2, <3>3
  <2>3. ASSUME NEW x \in W, x # E0 PROVE x \in B
    <3>1. PICK i \in a + 1 .. Len(w) : x = w[i].code
      BY <2>3
    <3>2. i <= l
      <4>1. SUFFICES ASSUME ~(i <= l) PROVE FALSE
        OBVIOUS
      <4>2. i \in l + 1 .. Len(w)
        BY <1>3, <1>4, <1>5, <4>1
      <4>3. QED
        BY <1>4, <2>3, <3>1, <4>2, ByteTypes
    <3>3. i \in 1 .. l /\ i \in a + 1 .. l
      BY <1>4, <1>5, <3>2
    <3>4. x = b[i].code
      BY <1>4, <3>1, <3>3
    <3>5. QED
      BY <3>3, <3>4
  <2>4. {b[i].code : i \in 1 .. a} = B \ {E0}
    BY <1>1 DEF PressOf
  <2> HIDE DEF B, W
  <2>5. B \ {E0} = W \ {E0}
    BY <2>2, <2>3
  <2>6. QED
    BY <2>1, <2>4, <2>5 DEF W
<1>9. pressed' = Append(pressed, Twin(k))
  <2>1. k.scan \notin Mods /\ (k.mod # None => k.mod \in Mods)
    BY KeyCodes
  <2>2. CASE a = 1
    <3>1. w[1].code = k.scan /\ k.mod = None
      BY <1>1, <1>4, <1>5, <2>2 DEF PressOf
    <3>2. Twin(k) = [code |-> k.scan, ext |-> FALSE, with |-> {}]
      BY <3>1 DEF Twin
    <3>3. QED
      BY <1>7, <2>1, <2>2, <3>1, <3>2
  <2>3. CASE a = 2
    <3>1. w[1].code = k.mod /\ w[2].code = k.scan /\ k.mod # None
      BY <1>1, <1>4, <1>5, <2>3 DEF PressOf
    <3>2. Twin(k) = [code |-> k.scan, ext |-> FALSE, with |-> {k.mod}]
      BY <3>1 DEF Twin
    <3>3. QED
      BY <1>7, <2>1, <2>3, <3>1, <3>2
  <2>4. QED
    BY <1>5, <2>2, <2>3
<1>10. QED
  BY <1>2, <1>7, <1>8, <1>9

LEMMA MakePhaseKeeps ==
  ASSUME TypeOK, KeyInv, MakePhase, UNCHANGED given
  PROVE  QueueType' /\ KeyInv'
<1>1. /\ QueueType /\ Len(given) \in Nat /\ Len(pressed) \in Nat /\ given \in Seq(Keys)
      /\ pressed \in Seq(Presented) /\ scans \in Seq(Bytes)
      /\ Len(pressed) <= Len(given)
  BY QueueParts DEF QueueType, KeyInv
<1>2. down = {}
  <2>1. breaks = <<>> /\ DOMAIN <<>> = {}
    BY DEF MakePhase
  <2>2. QED
    BY <2>1 DEF KeyInv
<1> DEFINE r == Rest
           k == r[1]
           t == Tail(r)
<1>3. r \in Seq(Keys) /\ Len(r) = Len(given) - Len(pressed)
  BY <1>1, RestIs DEF Rest
<1>4. r # <<>>
  <2>1. SUFFICES ASSUME r = <<>> PROVE FALSE
    OBVIOUS
  <2>2. scans = <<>>
    BY <2>1, BytesOfAppend DEF KeyInv, Left
  <2>3. QED
    BY <2>2 DEF MakePhase
<1>5. /\ k \in Keys /\ t \in Seq(Keys) /\ HardwareScanBytes(r) = ScanBytes(k) \o HardwareScanBytes(t)
      /\ HardwareScanBytes(t) \in Seq(Bytes) /\ ScanBytes(k) \in Seq(Bytes) /\ k.ext \in BOOLEAN
  BY <1>3, <1>4, BytesOfFirst, BytesType, ScanBytesType, KeyCodes
<1>6. /\ Len(pressed) + 1 \in 1 .. Len(given) /\ k = given[Len(pressed) + 1]
      /\ t = SubSeq(given, Len(pressed) + 1 + 1, Len(given))
  BY <1>1, <1>4, RestIs DEF Rest
<1>7. /\ k.ext => /\ Extended(k) \in Seq(Bytes) /\ <<Prefix>> \in Seq(Bytes)
                  /\ HardwareScanBytes(r) = <<Prefix>> \o (Extended(k) \o HardwareScanBytes(t))
                  /\ Extended(k) \o HardwareScanBytes(t) \in Seq(Bytes)
  <2>1. ASSUME k.ext
        PROVE  /\ Extended(k) \in Seq(Bytes) /\ <<Prefix>> \in Seq(Bytes)
               /\ ScanBytes(k) = <<Prefix>> \o Extended(k)
    BY <1>5, <2>1, ExtendedBytes
  <2>2. QED
    <3>1. ASSUME k.ext
          PROVE  (<<Prefix>> \o Extended(k)) \o HardwareScanBytes(t)
                 = <<Prefix>> \o (Extended(k) \o HardwareScanBytes(t))
      BY <1>5, <2>1, <3>1, ConcatAssociative
    <3>2. k.ext => Extended(k) \o HardwareScanBytes(t) \in Seq(Bytes)
      BY <1>5, <2>1, ConcatProperties
    <3>3. QED
      BY <1>5, <2>1, <3>1, <3>2
<1>8. ASSUME scans = IF k.ext THEN Extended(k) \o HardwareScanBytes(t) ELSE HardwareScanBytes(r)
      PROVE  QueueType' /\ KeyInv'
  <2> DEFINE b == IF k.ext THEN Extended(k) ELSE ScanBytes(k)
  <2>1. scans = b \o HardwareScanBytes(t) /\ IF k.ext THEN b = Extended(k) ELSE b = ScanBytes(k)
    BY <1>5, <1>8
  <2> HIDE DEF b, r, k, t
  <2>2. /\ scans' \in Seq(Bytes) /\ Left(scans', t)
        /\ breaks' \in Seq({Break(c) : c \in Codes \union {E0}}) /\ gap' = "running"
        /\ down' = {breaks'[i].code : i \in DOMAIN breaks'} \ {E0}
        /\ pressed' = Append(pressed, Twin(k))
    BY <1>1, <1>2, <1>5, <2>1, KeyPhase
  <2>3. /\ pressed' \in Seq(Presented) /\ Len(pressed') = Len(pressed) + 1
        /\ \A i \in 1 .. Len(pressed) : pressed'[i] = pressed[i]
        /\ pressed'[Len(pressed) + 1] = Twin(k)
    BY <1>1, <1>5, <2>2, TwinType, AppendProperties
  <2>4. Rest' = t
    BY <1>6, <2>3 DEF Rest
  <2>5. Len(pressed') <= Len(given') /\ \A i \in 1 .. Len(pressed') : pressed'[i] = Twin(given'[i])
    <3>1. ASSUME NEW i \in 1 .. Len(pressed') PROVE pressed'[i] = Twin(given[i])
      <4>1. i \in 1 .. Len(pressed) \/ i = Len(pressed) + 1
        BY <1>1, <2>3
      <4>2. QED
        BY <1>6, <2>3, <4>1 DEF KeyInv
    <3>2. QED
      BY <1>1, <1>6, <2>3, <3>1
  <2>6. down' \subseteq Codes
    <3>1. ASSUME NEW i \in DOMAIN breaks' PROVE breaks'[i].code \in Codes \union {E0}
      <4>1. i \in 1 .. Len(breaks')
        BY <2>2, LenProperties
      <4>2. breaks'[i] \in {Break(c) : c \in Codes \union {E0}}
        BY <2>2, <4>1, ElementOfSeq
      <4>3. \A c : Break(c).code = c
        BY DEF Break
      <4>4. QED
        BY <4>2, <4>3
    <3>2. QED
      BY <2>2, <3>1
  <2>7. QueueType'
    BY <1>1, <2>2, <2>3, <2>6 DEF QueueType
  <2>8. QED
    BY <2>2, <2>4, <2>5, <2>7 DEF KeyInv
<1>9. CASE scans = HardwareScanBytes(r) /\ ~k.ext
  BY <1>8, <1>9
<1>10. CASE k.ext /\ HardwareScanBytes(r) = <<Prefix>> \o scans
  <2>1. <<Prefix>> \o scans = <<Prefix>> \o (Extended(k) \o HardwareScanBytes(t))
    BY <1>7, <1>10
  <2>2. scans = Extended(k) \o HardwareScanBytes(t)
    <3>1. scans \in Seq(Bytes) /\ Extended(k) \o HardwareScanBytes(t) \in Seq(Bytes)
      BY <1>1, <1>7, <1>10
    <3>2. QED
      BY <2>1, <3>1, SamePrefix
  <2>3. QED
    BY <1>8, <1>10, <2>2
<1>11. CASE scans = HardwareScanBytes(r) /\ k.ext
  <2> DEFINE w == <<Prefix>>
             h == Extended(k) \o HardwareScanBytes(t)
  <2>1. w \in Seq(Bytes) /\ h \in Seq(Bytes) /\ scans = w \o h /\ HardwareScanBytes(r) = w \o h
    BY <1>7, <1>11
  <2>2. Len(w) = 1 /\ w[1] = Prefix /\ 1 .. 0 = {} /\ 0 + 1 .. 1 = {1}
    OBVIOUS
  <2>3. Runs(w, 0)
    <3> HIDE DEF w
    <3>1. QED
      BY <2>2, ByteTypes DEF Runs
  <2>4. IsMake(h[1])
    <3>1. Len(Extended(k)) # 0 /\ Extended(k)[1] = Make(k.scan)
      BY DEF Extended
    <3>2. IsMake(Make(k.scan))
      BY <1>5, KeyCodes, ByteTypes
    <3>3. QED
      BY <1>5, <1>7, <1>11, <3>1, <3>2, FirstOfConcat
  <2> HIDE DEF w, h, r, k, t
  <2>5. /\ scans' = h /\ gap' = "running"
        /\ down' = {w[i].code : i \in 1 .. 0}
        /\ {breaks'[i].code : i \in DOMAIN breaks'} = {w[i].code : i \in 0 + 1 .. Len(w)}
        /\ breaks' \in Seq({Break(c) : c \in Codes \union {E0}})
        /\ pressed' = pressed
    <3>1. 0 \in {0, 1, 2}
      OBVIOUS
    <3>2. Taken(w, h, 0)
      BY <1>2, <2>1, <2>3, <2>4, <3>1, PhaseTakes
    <3>3. QED
      BY <3>2 DEF Taken
  <2>6. down' = {} /\ {breaks'[i].code : i \in DOMAIN breaks'} = {E0}
    <3>1. 0 + 1 .. Len(w) = {1} /\ w[1].code = E0
      BY <2>2, ByteTypes
    <3>2. {w[i].code : i \in 0 + 1 .. Len(w)} = {E0} /\ {w[i].code : i \in 1 .. 0} = {}
      BY <2>2, <3>1
    <3>3. QED
      BY <2>5, <3>2
  <2>7. Rest' = r
    BY <2>5 DEF Rest, r
  <2>8. Left(scans', r)
    <3>1. r[1].ext /\ HardwareScanBytes(r) = <<Prefix>> \o h /\ h \in Seq(Bytes) /\ scans' = h
      BY <1>11, <2>1, <2>5 DEF w, k
    <3>2. QED
      BY <1>4, <3>1 DEF Left
  <2>9. QueueType'
    BY <1>1, <2>1, <2>5, <2>6 DEF QueueType
  <2>10. QED
    BY <2>5, <2>6, <2>7, <2>8, <2>9 DEF KeyInv
<1>12. QED
  BY <1>5, <1>9, <1>10, <1>11 DEF KeyInv, Left

LEMMA InjectKeeps ==
  ASSUME TypeOK, KeyInv, Inject PROVE QueueType' /\ KeyInv'
<1>1. QueueType
  BY QueueParts
<1>2. CASE BreakPhase
  <2>1. /\ breaks' = <<>> /\ gap' = "off" /\ UNCHANGED <<scans, pressed, given>>
        /\ down' = down \ {breaks[i].code : i \in DOMAIN breaks}
    BY <1>2 DEF BreakPhase, Inject
  <2>2. down' = {} /\ DOMAIN <<>> = {}
    BY <2>1 DEF KeyInv
  <2>3. {breaks'[i].code : i \in DOMAIN breaks'} = {}
    BY <2>1, <2>2
  <2>4. breaks' \in Seq({Break(c) : c \in Codes \union {E0}})
    BY <2>1, EmptySeq
  <2>5. QED
    BY <1>1, <2>1, <2>2, <2>3, <2>4 DEF QueueType, KeyInv, Rest
<1>3. CASE MakePhase
  BY <1>3, MakePhaseKeeps DEF Inject
<1>4. CASE NoPhase
  BY <1>1, <1>4 DEF NoPhase, queue, Inject, QueueType, KeyInv, Rest
<1>5. QED
  BY <1>2, <1>3, <1>4 DEF Inject

LEMMA KeysKeep ==
  ASSUME TypeOK, KeyInv, UNCHANGED <<queue, down, pressed, given>> PROVE QueueType' /\ KeyInv'
BY QueueParts DEF queue, QueueType, KeyInv, Rest

(* What the loop keeps for itself. *)
LoopType ==
  /\ pc \in {"top", "gap", "gapInject", "frame", "inject", "retry", "wait", "done"}
  /\ exit \in BOOLEAN /\ waiting \in BOOLEAN
  /\ again \in Seq(Keys)
  /\ stable \in 0 .. MaxScreens /\ screen \in 1 .. MaxScreens
  /\ changed \in {"no", "recent", "settled"}

LEMMA TypeParts == TypeOK <=> QueueType /\ LoopType
BY DEF TypeOK, QueueType, LoopType, Bytes, Presented

LEMMA NextKeeps ==
  ASSUME TypeOK, KeyInv, [Next]_vars PROVE QueueType' /\ LoopType' /\ KeyInv'
<1>1. LoopType
  BY TypeParts
<1>2. CASE Top
  BY <1>1, <1>2, KeysKeep DEF Top, Goto, LoopType, loop, machine
<1>3. CASE GapOver
  BY <1>1, <1>3, KeysKeep DEF GapOver, Goto, LoopType, loop, machine
<1>4. ASSUME NEW from, NEW next \in {"top", "retry"}, InjectAndEnd(from, next)
      PROVE  QueueType' /\ LoopType' /\ KeyInv'
  BY <1>1, <1>4, InjectKeeps DEF InjectAndEnd, Inject, Goto, LoopType, loop
<1>5. CASE GapInject \/ FrameInject
  BY <1>4, <1>5 DEF GapInject, FrameInject
<1>6. CASE Frame
  BY <1>1, <1>6, KeysKeep, BoundAssumption DEF Frame, Goto, LoopType, machine
<1>7. CASE RetryKeys
  <2>1. LoopType' /\ Extend(again) /\ again \in Seq(Keys) /\ UNCHANGED <<down, pressed>>
    BY <1>1, <1>7 DEF RetryKeys, Goto, LoopType, loop, machine
  <2>2. QED
    BY <2>1, ExtendKeeps
<1>8. CASE NoRetry
  BY <1>1, <1>8, KeysKeep DEF NoRetry, Goto, LoopType, loop, machine
<1>9. CASE WaitUntilSample
  BY <1>1, <1>9, KeysKeep DEF WaitUntilSample, Goto, LoopType, loop, machine
<1>10. CASE HostKey
  <2>1. LoopType' /\ UNCHANGED <<down, pressed>>
    BY <1>1, <1>10 DEF HostKey, LoopType, machine
  <2>2. CASE \E k \in Keys : Extend(<<k>>)
    <3>1. PICK k \in Keys : Extend(<<k>>)
      BY <2>2
    <3>2. <<k>> \in Seq(Keys)
      OBVIOUS
    <3>3. QED
      BY <2>1, <3>1, <3>2, ExtendKeeps
  <2>3. CASE UNCHANGED <<queue, given>>
    BY <2>1, <2>3, KeysKeep
  <2>4. QED
    BY <1>10, <2>2, <2>3 DEF HostKey
<1>11. CASE GapEnds
  <2>1. QueueType /\ KeyInv /\ gap' = "over"
        /\ UNCHANGED <<scans, breaks, down, pressed, given>> /\ UNCHANGED <<pc, loop, screen>>
    BY <1>11, TypeParts DEF GapEnds, machine
  <2>2. LoopType'
    BY <1>1, <2>1 DEF LoopType, loop
  <2>3. QueueType'
    BY <2>1 DEF QueueType
  <2>4. KeyInv'
    BY <2>1 DEF KeyInv, Rest, Left
  <2>5. QED
    BY <2>2, <2>3, <2>4
<1>12. CASE Settles
  BY <1>1, <1>12, KeysKeep DEF Settles, LoopType, machine
<1>13. CASE ScreenChanges
  <2>1. LoopType'
    BY <1>1, <1>13, BoundAssumption DEF ScreenChanges, LoopType, loop
  <2>2. QED
    BY <1>13, <2>1, KeysKeep DEF ScreenChanges
<1>14. CASE UNCHANGED vars
  BY <1>1, <1>14, KeysKeep DEF vars, LoopType, loop, machine
<1>15. QED
  BY <1>2, <1>3, <1>5, <1>6, <1>7, <1>8, <1>9, <1>10, <1>11, <1>12, <1>13, <1>14
  DEF Next, Console

LEMMA InitKeys == Init => QueueType /\ LoopType /\ KeyInv
<1> SUFFICES ASSUME Init PROVE QueueType /\ LoopType /\ KeyInv
  OBVIOUS
<1>1. given \in Seq(Keys)
  BY DEF Init
<1>2. /\ scans = HardwareScanBytes(given) /\ breaks = <<>> /\ gap = "off" /\ down = {} /\ pressed = <<>>
      /\ Len(<<>>) = 0 /\ DOMAIN <<>> = {}
  BY DEF Init
<1>3. QueueType
  BY <1>1, <1>2, BytesType, EmptySeq DEF QueueType
<1>4. LoopType
  <2>1. waiting \in BOOLEAN /\ again = (IF waiting THEN given ELSE <<>>) /\ <<>> \in Seq(Keys)
    BY EmptySeq DEF Init
  <2>2. again \in Seq(Keys)
    BY <1>1, <2>1
  <2>3. 0 \in 0 .. MaxScreens /\ 1 \in 1 .. MaxScreens
    BY BoundAssumption
  <2>4. QED
    BY <2>1, <2>2, <2>3 DEF Init, LoopType
<1>5. Rest = given
  <2>1. Len(pressed) + 1 = 1
    BY <1>2
  <2>2. QED
    BY <1>1, <2>1, SubSeqFull DEF Rest
<1>6. KeyInv
  <2>1. Len(given) \in Nat /\ Len(pressed) = 0
    BY <1>1, <1>2, LenProperties
  <2>2. Left(scans, Rest)
    BY <1>2, <1>5 DEF Left
  <2>3. {breaks[i].code : i \in DOMAIN breaks} = {}
    BY <1>2
  <2>4. QED
    BY <1>2, <2>1, <2>2, <2>3 DEF KeyInv
<1>7. QED
  BY <1>3, <1>4, <1>6

(* Type correctness for any keys, and any number of them and of screens.   *)
THEOREM TypeCorrect == Spec => []TypeOK
<1> DEFINE Inv == QueueType /\ LoopType /\ KeyInv
<1>1. Init => Inv
  BY InitKeys
<1>2. Inv /\ [Next]_vars => Inv'
  BY NextKeeps, TypeParts
<1>3. Inv => TypeOK
  BY TypeParts
<1>4. QED
  BY <1>1, <1>2, <1>3, PTL DEF Spec

(* For every key given one goes down, once, in its turn and with its       *)
(* modifier alone: the key itself, or if it is an extended one its twin on *)
(* the keypad, as its prefix is sent as a break.  What is down has its     *)
(* break waiting.  All this whatever the user adds, whatever --wait-change *)
(* repeats, and wherever the loop is left.                                 *)
THEOREM KeysInTurn == Spec => []KeysPressedInTurn
<1> DEFINE Inv == QueueType /\ LoopType /\ KeyInv
<1>1. Init => Inv
  BY InitKeys
<1>2. Inv /\ [Next]_vars => Inv'
  BY NextKeeps, TypeParts
<1>3. Inv => KeysPressedInTurn
  BY KeysLeft, TypeParts
<1>4. QED
  BY <1>1, <1>2, <1>3, PTL DEF Spec
=============================================================================
