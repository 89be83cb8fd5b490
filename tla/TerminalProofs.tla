--------------------------- MODULE TerminalProofs ---------------------------
(***************************************************************************)
(* Theorems about what a terminal shows and takes: the input line, for     *)
(* any texts, keys and sizes, and the monitor of diagnostics, for any      *)
(* reports.                                                                *)
(***************************************************************************)
EXTENDS LineEditor, DiagnosticsView, TLAPS, WellFoundedInduction, SequenceTheorems

-----------------------------------------------------------------------------
(* Numbers.                                                                *)

LEMMA LeastNumber ==
    ASSUME NEW T, T \subseteq Nat, T # {}
    PROVE  \E n \in T : \A m \in T : n <= m
<1> DEFINE Below == OpToRel(<, Nat)
<1>1. IsWellFoundedOn(Below, Nat)
  BY NatLessThanWellFounded
<1>2. PICK n \in T : \A m \in T : <<m, n>> \notin Below
  BY <1>1, WFMin
<1>3. \A m \in T : ~(m < n)
  BY <1>2 DEF OpToRel
<1>4. QED
  BY <1>3

\* A set of numbers up to n that has 0 and with each number the next has all.
LEMMA CountUp ==
    ASSUME NEW n \in Nat, NEW T, 0 \in T, \A k \in 0 .. n : k < n /\ k \in T => k + 1 \in T
    PROVE  \A k \in 0 .. n : k \in T
<1> DEFINE Out == {k \in 0 .. n : k \notin T}
<1>1. SUFFICES ASSUME Out # {} PROVE FALSE
  OBVIOUS
<1>2. Out \subseteq Nat
  OBVIOUS
<1> HIDE DEF Out
<1>3. PICK m \in Out : \A k \in Out : m <= k
  BY <1>1, <1>2, LeastNumber
<1>4. m \in 0 .. n /\ m \notin T
  BY <1>3 DEF Out
<1>5. m # 0 /\ m - 1 \in 0 .. n /\ m - 1 < n /\ (m - 1) + 1 = m
  BY <1>4
<1>6. m - 1 \notin Out
  BY <1>3, <1>5
<1>7. m - 1 \in T
  BY <1>5, <1>6 DEF Out
<1>8. QED BY <1>4, <1>5, <1>7

LEMMA LeastIs ==
    ASSUME NEW T, T \subseteq Nat, T # {}
    PROVE  Min(T) \in T /\ \A m \in T : Min(T) <= m
<1>1. \E n \in T : \A m \in T : n <= m
  BY LeastNumber
<1>2. QED BY <1>1 DEF Min

LEMMA GreatestIs ==
    ASSUME NEW n \in Nat, NEW T, T \subseteq 0 .. n, T # {}
    PROVE  Max(T) \in T /\ \A m \in T : m <= Max(T)
<1> DEFINE Over == {m \in Nat : \A k \in T : k <= m}
<1>1. Over \subseteq Nat /\ n \in Over
  OBVIOUS
<1> HIDE DEF Over
<1>2. PICK g \in Over : \A m \in Over : g <= m
  BY <1>1, LeastNumber
<1>3. g \in Nat /\ \A k \in T : k <= g
  BY <1>2 DEF Over
<1>4. g \in T
  <2>1. SUFFICES ASSUME g \notin T PROVE FALSE
    OBVIOUS
  <2>2. \A k \in T : k \in Nat /\ k < g
    BY <1>3, <2>1
  <2>3. g - 1 \in Nat /\ \A k \in T : k <= g - 1
    <3>1. PICK k \in T : TRUE
      OBVIOUS
    <3>2. g > 0
      BY <2>2, <3>1, <1>3
    <3>3. QED BY <1>3, <2>2, <3>2
  <2>4. g - 1 \in Over
    BY <2>3 DEF Over
  <2>5. QED BY <1>2, <1>3, <2>4
<1>5. \E m \in T : \A k \in T : m >= k
  BY <1>3, <1>4
<1>6. Max(T) \in T /\ \A k \in T : Max(T) >= k
  BY <1>5 DEF Max
<1>7. QED BY <1>6

Steps(f, n, D, z, g) == f \in [0 .. n -> D] /\ f[0] = z /\ \A i \in 1 .. n : f[i] = g[<<f[i - 1], i>>]

\* A function on numbers can be defined by its first value and by each step.
LEMMA Recursion ==
    ASSUME NEW n \in Nat, NEW D, NEW z \in D, NEW g \in [D \X (1 .. n) -> D]
    PROVE  \E f : Steps(f, n, D, z, g)
<1> DEFINE Right(f, m) == f \in [0 .. m -> D] /\ f[0] = z /\ \A i \in 1 .. m : f[i] = g[<<f[i - 1], i>>]
           T == {m \in 0 .. n : \E f : Right(f, m)}
<1>1. 0 \in T
  <2>1. Right([i \in 0 .. 0 |-> z], 0)
    OBVIOUS
  <2> HIDE DEF Right
  <2>2. QED BY <2>1
<1>2. ASSUME NEW m \in 0 .. n, m < n, m \in T PROVE m + 1 \in T
  <2>1. PICK f : Right(f, m)
    BY <1>2
  <2> DEFINE v == g[<<f[m], m + 1>>]
             k == [i \in 0 .. (m + 1) |-> IF i = m + 1 THEN v ELSE f[i]]
  <2>2. f[m] \in D /\ m + 1 \in 1 .. n
    BY <1>2, <2>1
  <2>3. v \in D
    BY <2>2
  <2> HIDE DEF v
  <2>4. k \in [0 .. (m + 1) -> D] /\ k[0] = z
    BY <2>1, <2>3
  <2>5. k[m + 1] = v /\ \A i \in 0 .. m : k[i] = f[i]
    OBVIOUS
  <2> HIDE DEF k
  <2>6. ASSUME NEW i \in 1 .. (m + 1) PROVE k[i] = g[<<k[i - 1], i>>]
    <3>1. i - 1 \in 0 .. m
      OBVIOUS
    <3>2. k[i - 1] = f[i - 1]
      BY <2>5, <3>1
    <3>3. CASE i = m + 1
      <4>1. i - 1 = m
        BY <3>3
      <4>2. QED BY <2>5, <3>2, <3>3, <4>1 DEF v
    <3>4. CASE i # m + 1
      <4>1. i \in 0 .. m /\ i \in 1 .. m
        BY <3>4
      <4>2. f[i] = g[<<f[i - 1], i>>]
        BY <2>1, <4>1
      <4>3. QED BY <2>5, <3>2, <4>1, <4>2
    <3>5. QED BY <3>3, <3>4
  <2>7. Right(k, m + 1)
    BY <2>4, <2>6
  <2> HIDE DEF Right
  <2>8. QED BY <2>2, <2>7
<1>3. n \in T
  <2>1. \A m \in 0 .. n : m < n /\ m \in T => m + 1 \in T
    BY <1>2
  <2> HIDE DEF T
  <2>2. \A m \in 0 .. n : m \in T
    BY <1>1, <2>1, CountUp
  <2>3. QED BY <2>2
<1>4. QED BY <1>3 DEF Steps

-----------------------------------------------------------------------------
(* Sequences.                                                              *)

LEMMA FlattenIs ==
    ASSUME NEW S, NEW C, \A c \in C : c \in Seq(S), NEW ss \in Seq(C)
    PROVE  \E h \in [0 .. Len(ss) -> Seq(S)] :
               /\ h[0] = <<>> /\ FlattenSeq(ss) = h[Len(ss)]
               /\ \A i \in 1 .. Len(ss) : h[i] = h[i - 1] \o ss[i]
<1> DEFINE L == Len(ss)
           D == Seq(S)
           g == [a \in D \X (1 .. L) |-> a[1] \o ss[a[2]]]
<1>1. L \in Nat /\ <<>> \in D
  OBVIOUS
<1>2. \A i \in 1 .. L : ss[i] \in D
  <2>1. \A i \in 1 .. L : ss[i] \in C
    OBVIOUS
  <2>2. QED BY <2>1
<1>3. \A x \in D, i \in 1 .. L : g[<<x, i>>] = x \o ss[i] /\ x \o ss[i] \in D
  <2>1. \A x \in D, y \in D : x \o y \in D
    OBVIOUS
  <2> HIDE DEF D
  <2>2. QED BY <1>2, <2>1
<1> HIDE DEF g, D
<1>4. PICK h \in [0 .. L -> D] : h[0] = <<>> /\ \A i \in 1 .. L : h[i] = g[<<h[i - 1], i>>]
  <2> DEFINE z == <<>>
  <2>1. g \in [D \X (1 .. L) -> D]
    BY <1>3 DEF g
  <2>2. L \in Nat /\ z \in D
    BY <1>1
  <2> HIDE DEF z, L
  <2>3. \E h : Steps(h, L, D, z, g)
    BY <2>1, <2>2, Recursion
  <2>4. QED BY <2>3 DEF z, Steps
<1>5. \A i \in 1 .. L : h[i] = h[i - 1] \o ss[i]
  <2>1. \A i \in 1 .. L : h[i - 1] \in D
    <3>1. \A i \in 1 .. L : i - 1 \in 0 .. L
      BY <1>1
    <3>2. QED BY <3>1
  <2>2. QED BY <1>3, <1>4, <2>1
<1>6. FlattenSeq(ss) = h[L]
  <2>1. CASE L = 0
    BY <1>4, <2>1 DEF FlattenSeq
  <2>2. CASE L # 0
    <3> DEFINE f == [i \in 1 .. L |-> h[i]]
    <3>1. \A i \in 1 .. L : f[i] = IF i = 1 THEN ss[i] ELSE f[i - 1] \o ss[i]
      <4>1. TAKE i \in 1 .. L
      <4>2. CASE i = 1
        <5>1. h[i] = <<>> \o ss[i]
          <6>1. h[i - 1] = <<>>
            BY <1>4, <4>2
          <6>2. QED BY <1>5, <6>1
        <5>2. <<>> \o ss[i] = ss[i]
          BY <1>2 DEF D
        <5>3. QED BY <4>2, <5>1, <5>2
      <4>3. CASE i # 1
        <5>1. i - 1 \in 1 .. L
          BY <4>3
        <5>2. f[i - 1] = h[i - 1] /\ f[i] = h[i]
          BY <5>1
        <5>3. QED BY <1>5, <4>3, <5>2
      <4>4. QED BY <4>2, <4>3
    <3>2. f = [i \in 1 .. L |-> f[i]] /\ f[L] = h[L]
      BY <1>1, <2>2
    <3> HIDE DEF f
    <3>3. f = [i \in 1 .. L |-> IF i = 1 THEN ss[i] ELSE f[i - 1] \o ss[i]]
      BY <3>1, <3>2
    <3> DEFINE w == CHOOSE w : w = [i \in 1 .. Len(ss) |-> IF i = 1 THEN ss[i] ELSE w[i - 1] \o ss[i]]
    <3>4. w = [i \in 1 .. Len(ss) |-> IF i = 1 THEN ss[i] ELSE w[i - 1] \o ss[i]]
      BY <3>3
    <3>5. FlattenSeq(ss) = w[L]
      BY <2>2 DEF FlattenSeq
    <3> HIDE DEF w
    <3> DEFINE T == {i \in 0 .. L : i > 0 => w[i] = h[i]}
    <3>6. 0 \in T
      BY <1>1
    <3>7. ASSUME NEW k \in 0 .. L, k < L, k \in T PROVE k + 1 \in T
      <4>1. k + 1 \in 0 .. L /\ k + 1 \in 1 .. L /\ (k + 1) - 1 = k
        BY <3>7
      <4>2. CASE k = 0
        <5>1. w[1] = ss[1]
          BY <3>4, <4>1, <4>2
        <5>2. h[1] = <<>> \o ss[1]
          <6>1. 1 \in 1 .. L /\ 1 - 1 = 0
            BY <4>1, <4>2
          <6>2. h[1] = h[1 - 1] \o ss[1]
            BY <1>5, <6>1
          <6>3. QED BY <1>4, <6>1, <6>2
        <5>3. <<>> \o ss[1] = ss[1]
          BY <1>2, <4>1, <4>2 DEF D
        <5>4. QED BY <4>1, <4>2, <5>1, <5>2, <5>3
      <4>3. CASE k # 0
        <5>1. w[k + 1] = w[k] \o ss[k + 1]
          <6>1. k + 1 # 1 /\ k + 1 \in 1 .. Len(ss)
            BY <4>1, <4>3
          <6>2. w[k + 1] = IF k + 1 = 1 THEN ss[k + 1] ELSE w[(k + 1) - 1] \o ss[k + 1]
            BY <3>4, <6>1
          <6>3. QED BY <4>1, <6>1, <6>2
        <5>2. h[k + 1] = h[k] \o ss[k + 1]
          BY <1>5, <4>1
        <5>3. w[k] = h[k]
          BY <3>7, <4>3
        <5>4. QED BY <4>1, <5>1, <5>2, <5>3
      <4>4. QED BY <4>2, <4>3
    <3>8. L \in T
      <4> HIDE DEF T
      <4>1. \A k \in 0 .. L : k \in T
        BY <1>1, <3>6, <3>7, CountUp
      <4>2. QED BY <1>1, <4>1
    <3>9. QED BY <1>1, <2>2, <3>5, <3>8
  <2>3. QED BY <2>1, <2>2
<1>7. QED BY <1>4, <1>5, <1>6 DEF D

LEMMA FlattenAppend ==
    ASSUME NEW S, NEW C, \A c \in C : c \in Seq(S), NEW ss \in Seq(C), NEW c \in C
    PROVE  FlattenSeq(Append(ss, c)) = FlattenSeq(ss) \o c /\ FlattenSeq(ss) \in Seq(S)
<1> DEFINE L == Len(ss)
           tt == Append(ss, c)
<1>1. L \in Nat /\ tt \in Seq(C) /\ Len(tt) = L + 1 /\ tt[L + 1] = c /\ \A i \in 1 .. L : tt[i] = ss[i]
  BY AppendProperties
<1>2. PICK h \in [0 .. L -> Seq(S)] : h[0] = <<>> /\ FlattenSeq(ss) = h[L]
                                      /\ \A i \in 1 .. L : h[i] = h[i - 1] \o ss[i]
  BY FlattenIs
<1> HIDE DEF tt
<1>3. PICK k \in [0 .. Len(tt) -> Seq(S)] : k[0] = <<>> /\ FlattenSeq(tt) = k[Len(tt)]
                                      /\ \A i \in 1 .. Len(tt) : k[i] = k[i - 1] \o tt[i]
  BY <1>1, FlattenIs
<1> DEFINE T == {i \in 0 .. L : k[i] = h[i]}
<1>4. 0 \in T
  BY <1>1, <1>2, <1>3
<1>5. ASSUME NEW i \in 0 .. L, i < L, i \in T PROVE i + 1 \in T
  <2>1. i + 1 \in 0 .. L /\ i + 1 \in 1 .. L /\ i + 1 \in 1 .. Len(tt) /\ (i + 1) - 1 = i
    BY <1>1, <1>5
  <2>2. k[i + 1] = k[i] \o tt[i + 1] /\ h[i + 1] = h[i] \o ss[i + 1] /\ tt[i + 1] = ss[i + 1]
    BY <1>1, <1>2, <1>3, <2>1
  <2>3. QED BY <1>5, <2>1, <2>2
<1>6. L \in T
  <2> HIDE DEF T
  <2>1. \A i \in 0 .. L : i \in T
    BY <1>1, <1>4, <1>5, CountUp
  <2>2. QED BY <1>1, <2>1
<1>7. L + 1 \in 1 .. Len(tt) /\ (L + 1) - 1 = L
  BY <1>1
<1>8. k[L + 1] = k[L] \o c
  BY <1>1, <1>3, <1>7
<1>9. FlattenSeq(tt) = FlattenSeq(ss) \o c
  BY <1>1, <1>2, <1>3, <1>6, <1>8
<1>10. FlattenSeq(ss) \in Seq(S)
  <2>1. L \in 0 .. L
    BY <1>1
  <2>2. QED BY <1>2, <2>1
<1>11. QED BY <1>9, <1>10 DEF tt

-----------------------------------------------------------------------------
(* Texts and their characters.                                             *)

Character == {<<b>> : b \in Byte \ {"lead"}} \cup {<<"lead", b>> : b \in Byte}
ReadState == [chars : Seq(Character), lead : BOOLEAN]

LEMMA CharacterFacts ==
    ASSUME NEW c \in Character
    PROVE  c \in Seq(Byte) /\ Len(c) \in {1, 2} /\ CellsOf(c) = Len(c)
<1>1. CASE \E b \in Byte \ {"lead"} : c = <<b>>
  <2>1. PICK b \in Byte \ {"lead"} : c = <<b>>
    BY <1>1
  <2>2. c \in Seq(Byte) /\ Len(c) = 1 /\ c[1] # "lead"
    BY <2>1
  <2>3. QED BY <2>2 DEF CellsOf
<1>2. CASE \E b \in Byte : c = <<"lead", b>>
  <2>1. PICK b \in Byte : c = <<"lead", b>>
    BY <1>2
  <2>2. "lead" \in Byte
    BY DEF Byte, Typeable
  <2>3. c \in Seq(Byte) /\ Len(c) = 2 /\ c[1] = "lead"
    BY <2>1, <2>2
  <2>4. QED BY <2>3 DEF CellsOf
<1>3. QED BY <1>1, <1>2 DEF Character

LEMMA ReadTyped ==
    ASSUME NEW so \in ReadState, NEW b \in Byte
    PROVE  Read(so, b) \in ReadState
<1>1. so.chars \in Seq(Character) /\ so.lead \in BOOLEAN
  BY DEF ReadState
<1>2. <<"lead", b>> \in Character /\ (b # "lead" => <<b>> \in Character)
  BY DEF Character
<1>3. \A c \in Character : Append(so.chars, c) \in Seq(Character)
  BY <1>1
<1>4. QED BY <1>1, <1>2, <1>3 DEF Read, ReadState

LEMMA ReadingsAre ==
    ASSUME NEW text \in Seq(Byte)
    PROVE  /\ Readings(text) \in [0 .. Len(text) -> ReadState]
           /\ Readings(text)[0] = [chars |-> <<>>, lead |-> FALSE]
           /\ \A i \in 1 .. Len(text) : Readings(text)[i] = Read(Readings(text)[i - 1], text[i])
<1> DEFINE L == Len(text)
           z == [chars |-> <<>>, lead |-> FALSE]
           g == [a \in ReadState \X (1 .. L) |-> Read(a[1], text[a[2]])]
<1>1. L \in Nat /\ z \in ReadState
  <2>1. <<>> \in Seq(Character)
    OBVIOUS
  <2>2. QED BY <2>1 DEF ReadState
<1>2. \A x \in ReadState, i \in 1 .. L : g[<<x, i>>] = Read(x, text[i]) /\ Read(x, text[i]) \in ReadState
  <2>1. \A i \in 1 .. L : text[i] \in Byte
    OBVIOUS
  <2>2. QED BY <2>1, ReadTyped
<1>3. g \in [ReadState \X (1 .. L) -> ReadState]
  BY <1>2 DEF g
<1> HIDE DEF g, z, L
<1>4. PICK h : Steps(h, L, ReadState, z, g)
  BY <1>1, <1>3, Recursion
<1>5. h \in [0 .. L -> ReadState] /\ h[0] = z
  BY <1>4 DEF Steps
<1>6. \A i \in 1 .. L : h[i] = Read(h[i - 1], text[i])
  <2>1. \A i \in 1 .. L : h[i] = g[<<h[i - 1], i>>]
    BY <1>4 DEF Steps
  <2>2. \A i \in 1 .. L : h[i - 1] \in ReadState
    <3>1. \A i \in 1 .. L : i - 1 \in 0 .. L
      BY <1>1
    <3>2. QED BY <1>5, <3>1
  <2>3. QED BY <1>2, <2>1, <2>2
<1>7. h = [i \in 0 .. L |-> IF i = 0 THEN z ELSE Read(h[i - 1], text[i])]
  <2>1. \A i \in 0 .. L : i # 0 => i \in 1 .. L
    BY <1>1
  <2>2. \A i \in 0 .. L : h[i] = IF i = 0 THEN z ELSE Read(h[i - 1], text[i])
    BY <1>5, <1>6, <2>1
  <2>3. QED BY <1>5, <2>2
<1> DEFINE r == CHOOSE r : r = [i \in 0 .. L |-> IF i = 0 THEN z ELSE Read(r[i - 1], text[i])]
<1>8. r = [i \in 0 .. L |-> IF i = 0 THEN z ELSE Read(r[i - 1], text[i])]
  BY <1>7
<1>9. Readings(text) = r
  BY DEF Readings, r, z, L
<1> HIDE DEF r
<1>10. r[0] = z /\ \A i \in 1 .. L : r[i] = Read(r[i - 1], text[i])
  BY <1>1, <1>8
<1>11. r = h
  <2> DEFINE T == {i \in 0 .. L : r[i] = h[i]}
  <2>1. 0 \in T
    BY <1>1, <1>5, <1>10
  <2>2. ASSUME NEW i \in 0 .. L, i < L, i \in T PROVE i + 1 \in T
    <3>1. i + 1 \in 0 .. L /\ i + 1 \in 1 .. L /\ (i + 1) - 1 = i
      BY <1>1, <2>2
    <3>2. r[i + 1] = Read(r[i], text[i + 1]) /\ h[i + 1] = Read(h[i], text[i + 1])
      BY <1>6, <1>10, <3>1
    <3>3. QED BY <2>2, <3>1, <3>2
  <2>3. \A i \in 0 .. L : i \in T
    <3> HIDE DEF T
    <3>1. QED BY <1>1, <2>1, <2>2, CountUp
  <2>4. QED BY <1>5, <1>8, <2>3
<1>12. QED BY <1>5, <1>6, <1>9, <1>11 DEF z, L

LEMMA TypeableBytes == \A t \in Seq(Typeable) : t \in Seq(Byte)
<1>1. Typeable \subseteq Byte
  BY DEF Byte
<1>2. QED BY <1>1, SeqMonotonic

\* What is read of a text, position by position.
LEMMA ReadFacts ==
    ASSUME NEW text \in Seq(Byte), NEW i \in 0 .. Len(text)
    PROVE  /\ Readings(text)[i] \in ReadState /\ Readings(text)[i].chars \in Seq(Character)
           /\ Len(Readings(text)[i].chars) \in Nat /\ Readings(text)[i].lead \in BOOLEAN
<1>1. Readings(text)[i] \in ReadState
  BY ReadingsAre
<1>2. QED BY <1>1 DEF ReadState

LEMMA CharsTyped ==
    ASSUME NEW text \in Seq(Byte)
    PROVE  Chars(text) \in Seq(Character) /\ CharCount(text) \in Nat /\ CharCount(text) = Len(Chars(text))
<1>1. Len(text) \in 0 .. Len(text)
  OBVIOUS
<1>2. QED BY <1>1, ReadFacts DEF Chars, CharCount

Whole(text) == ~Readings(text)[Len(text)].lead

\* A text reads as it does with more behind it.
LEMMA ReadPrefix ==
    ASSUME NEW x \in Seq(Byte), NEW y \in Seq(Byte)
    PROVE  \A i \in 0 .. Len(x) : Readings(x \o y)[i] = Readings(x)[i]
<1> DEFINE t == x \o y
           r == Readings(t)
           p == Readings(x)
           T == {i \in 0 .. Len(x) : r[i] = p[i]}
<1>1. t \in Seq(Byte) /\ Len(t) = Len(x) + Len(y) /\ \A i \in 1 .. Len(x) : t[i] = x[i]
  OBVIOUS
<1>2. Len(x) \in Nat /\ Len(y) \in Nat
  OBVIOUS
<1> HIDE DEF t
<1>3. r[0] = p[0]
  BY <1>1, ReadingsAre
<1>4. \A i \in 1 .. Len(t) : r[i] = Read(r[i - 1], t[i])
  BY <1>1, ReadingsAre
<1>5. \A i \in 1 .. Len(x) : p[i] = Read(p[i - 1], x[i])
  BY ReadingsAre
<1> HIDE DEF r, p
<1>6. 0 \in T
  BY <1>2, <1>3
<1>7. ASSUME NEW i \in 0 .. Len(x), i < Len(x), i \in T PROVE i + 1 \in T
  <2>1. i + 1 \in 0 .. Len(x) /\ i + 1 \in 1 .. Len(x) /\ i + 1 \in 1 .. Len(t) /\ (i + 1) - 1 = i
    BY <1>1, <1>2, <1>7
  <2>2. r[i + 1] = Read(r[i], t[i + 1]) /\ p[i + 1] = Read(p[i], x[i + 1])
    BY <1>4, <1>5, <2>1
  <2>3. QED BY <1>1, <1>7, <2>1, <2>2
<1>8. \A i \in 0 .. Len(x) : i \in T
  <2> HIDE DEF T
  <2>1. QED BY <1>2, <1>6, <1>7, CountUp
<1>9. QED BY <1>8 DEF t, r, p

LEMMA AppendConcat ==
    ASSUME NEW S, NEW s \in Seq(S), NEW t \in Seq(S), NEW e \in S
    PROVE  s \o Append(t, e) = Append(s \o t, e)
<1>1. <<e>> \in Seq(S)
  OBVIOUS
<1>2. Append(t, e) = t \o <<e>>
  BY AppendIsConcat
<1>3. s \o t \in Seq(S)
  OBVIOUS
<1>4. Append(s \o t, e) = (s \o t) \o <<e>>
  BY <1>3, AppendIsConcat
<1>5. QED BY <1>1, <1>2, <1>4, ConcatAssociative

\* What follows a whole text is read as by itself.
LEMMA ReadSuffix ==
    ASSUME NEW x \in Seq(Byte), NEW y \in Seq(Byte), Whole(x)
    PROVE  \A j \in 0 .. Len(y) :
               Readings(x \o y)[Len(x) + j] =
                   [chars |-> Chars(x) \o Readings(y)[j].chars, lead |-> Readings(y)[j].lead]
<1> DEFINE t == x \o y
           r == Readings(t)
           q == Readings(y)
           c == Chars(x)
           Both(so) == [chars |-> c \o so.chars, lead |-> so.lead]
           T == {j \in 0 .. Len(y) : r[Len(x) + j] = Both(q[j])}
<1>1. t \in Seq(Byte) /\ Len(t) = Len(x) + Len(y) /\ \A j \in 1 .. Len(y) : t[Len(x) + j] = y[j]
  OBVIOUS
<1>2. Len(x) \in Nat /\ Len(y) \in Nat
  OBVIOUS
<1>3. c \in Seq(Character)
  BY CharsTyped
<1>4. r[Len(x)] = Readings(x)[Len(x)]
  <2>1. Len(x) \in 0 .. Len(x)
    OBVIOUS
  <2>2. QED BY <2>1, ReadPrefix
<1>5. Readings(x)[Len(x)] = [chars |-> c, lead |-> FALSE]
  <2>1. Readings(x)[Len(x)] \in ReadState
    <3>1. Len(x) \in 0 .. Len(x)
      BY <1>2
    <3>2. QED BY <3>1, ReadFacts
  <2>2. Readings(x)[Len(x)].lead = FALSE
    BY <2>1 DEF Whole, ReadState
  <2>3. QED BY <2>1, <2>2 DEF ReadState, Chars
<1> HIDE DEF t
<1>6. q[0] = [chars |-> <<>>, lead |-> FALSE]
  BY ReadingsAre
<1>7. \A i \in 1 .. Len(t) : r[i] = Read(r[i - 1], t[i])
  BY <1>1, ReadingsAre
<1>8. \A j \in 1 .. Len(y) : q[j] = Read(q[j - 1], y[j])
  BY ReadingsAre
<1>9. \A j \in 0 .. Len(y) : q[j] \in ReadState
  BY ReadFacts
<1> HIDE DEF r, q, c
<1>10. 0 \in T
  <2>1. c \o <<>> = c
    BY <1>3
  <2>2. Both(q[0]) = [chars |-> c, lead |-> FALSE]
    BY <1>6, <2>1
  <2>3. Len(x) + 0 = Len(x) /\ 0 \in 0 .. Len(y)
    BY <1>2
  <2>4. QED BY <1>4, <1>5, <2>2, <2>3
<1>11. ASSUME NEW j \in 0 .. Len(y), j < Len(y), j \in T PROVE j + 1 \in T
  <2> DEFINE b == y[j + 1]
             so == q[j]
  <2>1. j + 1 \in 0 .. Len(y) /\ j + 1 \in 1 .. Len(y) /\ (j + 1) - 1 = j
    BY <1>2, <1>11
  <2>2. Len(x) + (j + 1) \in 1 .. Len(t) /\ (Len(x) + (j + 1)) - 1 = Len(x) + j
    BY <1>1, <1>2, <2>1
  <2>3. r[Len(x) + (j + 1)] = Read(r[Len(x) + j], b)
    BY <1>1, <1>7, <2>1, <2>2
  <2>4. q[j + 1] = Read(so, b)
    BY <1>8, <2>1
  <2>5. so \in ReadState /\ so.chars \in Seq(Character) /\ b \in Byte
    <3>1. so \in ReadState
      BY <1>9
    <3>2. b \in Byte
      BY <2>1
    <3>3. QED BY <3>1, <3>2 DEF ReadState
  <2>6. r[Len(x) + j] = Both(so)
    BY <1>11
  <2> HIDE DEF b, so
  <2>7. \A e \in Character : c \o Append(so.chars, e) = Append(c \o so.chars, e)
    BY <1>3, <2>5, AppendConcat
  <2>8. Read(Both(so), b) = Both(Read(so, b))
    <3>1. CASE so.lead
      <4>1. <<"lead", b>> \in Character
        BY <2>5 DEF Character
      <4>2. QED BY <2>7, <3>1, <4>1 DEF Read
    <3>2. CASE ~so.lead /\ b = "lead"
      BY <3>2 DEF Read
    <3>3. CASE ~so.lead /\ b # "lead"
      <4>1. <<b>> \in Character
        BY <2>5, <3>3 DEF Character
      <4>2. QED BY <2>7, <3>3, <4>1 DEF Read
    <3>4. QED BY <3>1, <3>2, <3>3
  <2>9. QED BY <2>1, <2>3, <2>4, <2>6, <2>8
<1>12. \A j \in 0 .. Len(y) : j \in T
  <2> HIDE DEF T
  <2>1. QED BY <1>2, <1>10, <1>11, CountUp
<1>13. QED BY <1>12 DEF t, r, q, c

\* Characters are read one after the other.
LEMMA ReadGrows ==
    ASSUME NEW t \in Seq(Byte), NEW i \in 0 .. Len(t)
    PROVE  Len(Readings(t)[i].chars) <= CharCount(t)
<1> DEFINE r == Readings(t)
           T == {n \in 0 .. Len(t) : n >= i => Len(r[i].chars) <= Len(r[n].chars)}
<1>1. Len(t) \in Nat
  OBVIOUS
<1>2. \A n \in 0 .. Len(t) : r[n] \in ReadState /\ Len(r[n].chars) \in Nat /\ r[n].chars \in Seq(Character)
  BY ReadFacts
<1>3. \A n \in 1 .. Len(t) : r[n] = Read(r[n - 1], t[n])
  BY ReadingsAre
<1> HIDE DEF r
<1>4. 0 \in T
  <2>1. 0 >= i => i = 0
    BY <1>1
  <2>2. QED BY <1>1, <1>2, <2>1
<1>5. ASSUME NEW n \in 0 .. Len(t), n < Len(t), n \in T PROVE n + 1 \in T
  <2>1. n + 1 \in 0 .. Len(t) /\ n + 1 \in 1 .. Len(t) /\ (n + 1) - 1 = n
    BY <1>1, <1>5
  <2>2. r[n + 1] = Read(r[n], t[n + 1])
    BY <1>3, <2>1
  <2>3. \A e : Len(Append(r[n].chars, e)) = Len(r[n].chars) + 1
    BY <1>2
  <2>4. Len(r[n + 1].chars) >= Len(r[n].chars)
    <3>1. Read(r[n], t[n + 1]).chars \in {r[n].chars, Append(r[n].chars, <<"lead", t[n + 1]>>),
                                           Append(r[n].chars, <<t[n + 1]>>)}
      BY DEF Read
    <3>2. QED BY <1>2, <2>2, <2>3, <3>1
  <2>5. CASE n >= i
    <3>1. Len(r[i].chars) <= Len(r[n].chars)
      BY <1>5, <2>5
    <3>2. Len(r[i].chars) <= Len(r[n + 1].chars)
      <4>1. Len(r[i].chars) \in Nat /\ Len(r[n].chars) \in Nat /\ Len(r[n + 1].chars) \in Nat
        BY <1>2, <2>1
      <4>2. \A p, q, u \in Nat : p <= q /\ u >= q => p <= u
        OBVIOUS
      <4>3. QED BY <2>4, <3>1, <4>1, <4>2
    <3>3. QED BY <2>1, <3>2
  <2>6. CASE ~(n >= i)
    <3>1. n + 1 >= i => n + 1 = i
      BY <1>1, <2>6
    <3>2. QED BY <1>2, <2>1, <3>1
  <2>7. QED BY <2>5, <2>6
<1>6. \A n \in 0 .. Len(t) : n \in T
  <2> HIDE DEF T
  <2>1. QED BY <1>1, <1>4, <1>5, CountUp
<1>7. Len(t) \in T /\ Len(t) >= i
  BY <1>1, <1>6
<1>8. QED BY <1>7 DEF r, Chars, CharCount

\* The bytes of the characters read are those before, but one that still waits.
LEMMA BytesRead ==
    ASSUME NEW t \in Seq(Byte)
    PROVE  \A n \in 0 .. Len(t) :
               Len(FlattenSeq(Readings(t)[n].chars)) = IF Readings(t)[n].lead THEN n - 1 ELSE n
<1> DEFINE r == Readings(t)
           T == {n \in 0 .. Len(t) : Len(FlattenSeq(r[n].chars)) = IF r[n].lead THEN n - 1 ELSE n}
<1>1. Len(t) \in Nat
  OBVIOUS
<1>2. \A n \in 0 .. Len(t) : r[n] \in ReadState /\ r[n].chars \in Seq(Character) /\ r[n].lead \in BOOLEAN
  BY ReadFacts
<1>3. r[0] = [chars |-> <<>>, lead |-> FALSE] /\ \A n \in 1 .. Len(t) : r[n] = Read(r[n - 1], t[n])
  BY ReadingsAre
<1>4. \A i \in 1 .. Len(t) : t[i] \in Byte
  OBVIOUS
<1> HIDE DEF r
<1>5. 0 \in T
  <2>1. FlattenSeq(<<>>) = <<>>
    BY DEF FlattenSeq
  <2>2. Len(<<>>) = 0 /\ 0 \in 0 .. Len(t)
    BY <1>1
  <2>3. QED BY <1>3, <2>1, <2>2
<1>6. ASSUME NEW n \in 0 .. Len(t), n < Len(t), n \in T PROVE n + 1 \in T
  <2> DEFINE cs == r[n].chars
             b == t[n + 1]
  <2>1. n + 1 \in 0 .. Len(t) /\ n + 1 \in 1 .. Len(t) /\ (n + 1) - 1 = n
    BY <1>1, <1>6
  <2>2. r[n + 1] = Read(r[n], b) /\ b \in Byte
    BY <1>3, <1>4, <2>1
  <2>3. cs \in Seq(Character) /\ r[n].lead \in BOOLEAN
    BY <1>2
  <2>4. Len(FlattenSeq(cs)) = IF r[n].lead THEN n - 1 ELSE n
    BY <1>6
  <2> HIDE DEF cs, b
  <2>5. ASSUME NEW c \in Character
        PROVE  Len(FlattenSeq(Append(cs, c))) = Len(FlattenSeq(cs)) + Len(c)
    <3>1. \A d \in Character : d \in Seq(Byte)
      BY CharacterFacts
    <3>2. FlattenSeq(Append(cs, c)) = FlattenSeq(cs) \o c /\ FlattenSeq(cs) \in Seq(Byte)
      BY <2>3, <3>1, FlattenAppend
    <3>3. c \in Seq(Byte)
      BY <3>1
    <3>4. QED BY <3>2, <3>3
  <2>6. CASE r[n].lead
    <3> DEFINE c == <<"lead", b>>
    <3>1. c \in Character /\ Len(c) = 2
      BY <2>2 DEF Character
    <3>2. r[n + 1].chars = Append(cs, c) /\ ~r[n + 1].lead
      BY <2>2, <2>6 DEF Read, cs
    <3> HIDE DEF c
    <3>3. Len(FlattenSeq(r[n + 1].chars)) = Len(FlattenSeq(cs)) + 2
      BY <2>5, <3>1, <3>2
    <3>4. Len(FlattenSeq(cs)) = n - 1
      BY <2>4, <2>6
    <3>5. Len(FlattenSeq(r[n + 1].chars)) = n + 1
      BY <2>1, <3>3, <3>4
    <3>6. QED BY <2>1, <3>2, <3>5
  <2>7. CASE ~r[n].lead /\ b = "lead"
    <3>1. r[n + 1].chars = cs /\ r[n + 1].lead
      BY <2>2, <2>7 DEF Read, cs
    <3>2. QED BY <2>1, <2>4, <2>7, <3>1
  <2>8. CASE ~r[n].lead /\ b # "lead"
    <3> DEFINE c == <<b>>
    <3>1. c \in Character /\ Len(c) = 1
      BY <2>2, <2>8 DEF Character
    <3>2. r[n + 1].chars = Append(cs, c) /\ ~r[n + 1].lead
      BY <2>2, <2>8 DEF Read, cs
    <3> HIDE DEF c
    <3>3. Len(FlattenSeq(r[n + 1].chars)) = Len(FlattenSeq(cs)) + 1
      BY <2>5, <3>1, <3>2
    <3>4. QED BY <2>1, <2>4, <2>8, <3>2, <3>3
  <2>9. QED BY <2>6, <2>7, <2>8
<1>7. \A n \in 0 .. Len(t) : n \in T
  <2> HIDE DEF T
  <2>1. QED BY <1>1, <1>5, <1>6, CountUp
<1>8. QED BY <1>7 DEF r

\* The first k characters are what a whole beginning of the text reads as.
LEMMA ReadThrough ==
    ASSUME NEW t \in Seq(Byte)
    PROVE  \A k \in 0 .. CharCount(t) : \E i \in 0 .. Len(t) :
               ~Readings(t)[i].lead /\ Readings(t)[i].chars = SubSeq(Chars(t), 1, k)
<1> DEFINE r == Readings(t)
           Through(n) == \A k \in 0 .. Len(r[n].chars) : \E i \in 0 .. n :
                             ~r[i].lead /\ r[i].chars = SubSeq(r[n].chars, 1, k)
           T == {n \in 0 .. Len(t) : Through(n)}
<1>1. Len(t) \in Nat
  OBVIOUS
<1>2. \A n \in 0 .. Len(t) : r[n] \in ReadState /\ r[n].chars \in Seq(Character) /\ r[n].lead \in BOOLEAN
  BY ReadFacts
<1>3. r[0] = [chars |-> <<>>, lead |-> FALSE] /\ \A n \in 1 .. Len(t) : r[n] = Read(r[n - 1], t[n])
  BY ReadingsAre
<1>4. \A i \in 1 .. Len(t) : t[i] \in Byte
  OBVIOUS
<1> HIDE DEF r
<1>5. 0 \in T
  <2>1. SubSeq(<<>>, 1, 0) = <<>> /\ Len(<<>>) = 0
    BY SubSeqEmpty
  <2>2. r[0].chars = <<>> /\ ~r[0].lead
    BY <1>3
  <2>3. \A k \in 0 .. Len(r[0].chars) : k = 0
    BY <2>1, <2>2
  <2>4. 0 \in 0 .. 0 /\ 0 \in 0 .. Len(t)
    BY <1>1
  <2>5. Through(0)
    BY <2>1, <2>2, <2>3, <2>4
  <2>6. QED BY <2>4, <2>5
<1>6. ASSUME NEW n \in 0 .. Len(t), n < Len(t), n \in T PROVE n + 1 \in T
  <2> DEFINE cs == r[n].chars
             b == t[n + 1]
  <2>1. n + 1 \in 0 .. Len(t) /\ n + 1 \in 1 .. Len(t) /\ (n + 1) - 1 = n
    BY <1>1, <1>6
  <2>2. r[n + 1] = Read(r[n], b) /\ b \in Byte
    BY <1>3, <1>4, <2>1
  <2>3. cs \in Seq(Character) /\ Len(cs) \in Nat
    BY <1>2
  <2>4. \A k \in 0 .. Len(cs) : \E i \in 0 .. n : ~r[i].lead /\ r[i].chars = SubSeq(cs, 1, k)
    BY <1>6
  <2>5. \A i \in 0 .. n : i \in 0 .. (n + 1)
    OBVIOUS
  <2> HIDE DEF cs, b
  <2>6. CASE r[n + 1].chars = cs
    <3>1. Through(n + 1)
      BY <2>4, <2>5, <2>6
    <3>2. QED BY <2>1, <3>1
  <2>7. ASSUME NEW c \in Character, r[n + 1].chars = Append(cs, c), ~r[n + 1].lead
        PROVE  n + 1 \in T
    <3> DEFINE cc == Append(cs, c)
    <3>1. cc \in Seq(Character) /\ Len(cc) = Len(cs) + 1
      BY <2>3
    <3>2. ASSUME NEW k \in 0 .. Len(cs) PROVE SubSeq(cc, 1, k) = SubSeq(cs, 1, k)
      <4>1. \A i \in 1 .. k : i \in 1 .. Len(cs) /\ cc[i] = cs[i]
        BY <2>3
      <4>2. QED BY <4>1, <3>1, <2>3
    <3>3. SubSeq(cc, 1, Len(cs) + 1) = cc
      BY <3>1, SubSeqFull
    <3>4. r[n + 1].chars = cc
      BY <2>7
    <3> HIDE DEF cc
    <3>5. ASSUME NEW k \in 0 .. Len(cc)
          PROVE  \E i \in 0 .. (n + 1) : ~r[i].lead /\ r[i].chars = SubSeq(cc, 1, k)
      <4>1. CASE k = Len(cs) + 1
        <5>1. n + 1 \in 0 .. (n + 1)
          OBVIOUS
        <5>2. QED BY <2>7, <3>3, <3>4, <4>1, <5>1
      <4>2. CASE k # Len(cs) + 1
        <5>1. k \in 0 .. Len(cs)
          BY <2>3, <3>1, <4>2
        <5>2. QED BY <2>4, <2>5, <3>2, <5>1
      <4>3. QED BY <4>1, <4>2
    <3>6. Through(n + 1)
      BY <3>4, <3>5
    <3>7. QED BY <2>1, <3>6
  <2>8. CASE r[n].lead
    <3>1. <<"lead", b>> \in Character
      BY <2>2 DEF Character
    <3>2. r[n + 1].chars = Append(cs, <<"lead", b>>) /\ ~r[n + 1].lead
      BY <2>2, <2>8 DEF Read, cs
    <3> HIDE DEF T
    <3>3. QED BY <2>7, <3>1, <3>2
  <2>9. CASE ~r[n].lead /\ b = "lead"
    BY <2>2, <2>6, <2>9 DEF Read, cs
  <2>10. CASE ~r[n].lead /\ b # "lead"
    <3>1. <<b>> \in Character
      BY <2>2, <2>10 DEF Character
    <3>2. r[n + 1].chars = Append(cs, <<b>>) /\ ~r[n + 1].lead
      BY <2>2, <2>10 DEF Read, cs
    <3> HIDE DEF T
    <3>3. QED BY <2>7, <3>1, <3>2
  <2>11. QED BY <2>8, <2>9, <2>10
<1>7. Len(t) \in T
  <2> HIDE DEF T
  <2>1. \A n \in 0 .. Len(t) : n \in T
    BY <1>1, <1>5, <1>6, CountUp
  <2>2. QED BY <1>1, <2>1
<1>8. QED BY <1>7 DEF r, Chars, CharCount

\* Where the k-th character ends a whole beginning of the text ends, of k characters.
LEMMA ByteAtWhole ==
    ASSUME NEW t \in Seq(Byte), NEW k \in 0 .. CharCount(t)
    PROVE  LET x == SubSeq(t, 1, ByteAt(t, k)) IN
           ByteAt(t, k) \in 0 .. Len(t) /\ x \in Seq(Byte) /\ Whole(x) /\ CharCount(x) = k
<1>1. PICK i \in 0 .. Len(t) : ~Readings(t)[i].lead /\ Readings(t)[i].chars = SubSeq(Chars(t), 1, k)
  BY ReadThrough
<1>2. CharCount(t) \in Nat /\ Chars(t) \in Seq(Character) /\ Len(Chars(t)) = CharCount(t) /\ Len(t) \in Nat
  BY CharsTyped
<1>3. ByteAt(t, k) = i
  <2>1. Len(FlattenSeq(SubSeq(Chars(t), 1, k))) = i
    BY <1>1, BytesRead
  <2>2. ~(k > CharCount(t))
    BY <1>2
  <2>3. QED BY <2>1, <2>2 DEF ByteAt
<1> DEFINE x == SubSeq(t, 1, i)
           y == SubSeq(t, i + 1, Len(t))
<1>4. x \in Seq(Byte) /\ y \in Seq(Byte) /\ Len(x) = i
  <2>1. \A j \in 1 .. i : t[j] \in Byte
    BY <1>2
  <2>2. \A j \in i + 1 .. Len(t) : t[j] \in Byte
    BY <1>2
  <2>3. QED BY <1>2, <2>1, <2>2, SubSeqProperties
<1>5. x \o y = t
  <2>1. 1 \in 1 .. (Len(t) + 1) /\ i \in (1 - 1) .. Len(t) /\ Len(t) \in i .. Len(t)
    BY <1>2
  <2>2. x \o y = SubSeq(t, 1, Len(t))
    BY <2>1, ConcatAdjacentSubSeq
  <2>3. QED BY <2>2, SubSeqFull
<1> HIDE DEF x, y
<1>6. Readings(x)[i] = Readings(t)[i]
  <2>1. i \in 0 .. Len(x)
    BY <1>4
  <2>2. QED BY <1>4, <1>5, <2>1, ReadPrefix
<1>7. Whole(x)
  BY <1>1, <1>4, <1>6 DEF Whole
<1>8. CharCount(x) = k
  <2>1. Chars(x) = SubSeq(Chars(t), 1, k)
    BY <1>1, <1>4, <1>6 DEF Chars
  <2>2. Len(SubSeq(Chars(t), 1, k)) = k
    BY <1>2
  <2>3. QED BY <2>1, <2>2 DEF CharCount
<1>9. QED BY <1>3, <1>4, <1>7, <1>8 DEF x

LEMMA ConcatCount ==
    ASSUME NEW x \in Seq(Byte), NEW y \in Seq(Byte)
    PROVE  /\ CharCount(x \o y) >= CharCount(x)
           /\ Whole(x) => CharCount(x \o y) = CharCount(x) + CharCount(y) /\ (Whole(x \o y) <=> Whole(y))
<1> DEFINE t == x \o y
<1>1. t \in Seq(Byte) /\ Len(t) = Len(x) + Len(y) /\ Len(x) \in Nat /\ Len(y) \in Nat
  OBVIOUS
<1>2. CharCount(x) \in Nat /\ CharCount(y) \in Nat /\ CharCount(t) \in Nat
  BY <1>1, CharsTyped
<1>3. Len(x) \in 0 .. Len(t) /\ Len(x) \in 0 .. Len(x) /\ Len(y) \in 0 .. Len(y)
  BY <1>1
<1>4. Readings(t)[Len(x)] = Readings(x)[Len(x)]
  BY <1>3, ReadPrefix
<1>5. Len(Readings(t)[Len(x)].chars) <= CharCount(t)
  BY <1>1, <1>3, ReadGrows
<1>6. CharCount(t) >= CharCount(x)
  BY <1>2, <1>4, <1>5 DEF CharCount, Chars
<1>7. ASSUME Whole(x) PROVE CharCount(t) = CharCount(x) + CharCount(y) /\ (Whole(t) <=> Whole(y))
  <2>1. Readings(t)[Len(x) + Len(y)] =
            [chars |-> Chars(x) \o Readings(y)[Len(y)].chars, lead |-> Readings(y)[Len(y)].lead]
    BY <1>3, <1>7, ReadSuffix
  <2> HIDE DEF t
  <2>2. Chars(t) = Chars(x) \o Chars(y) /\ (Whole(t) <=> Whole(y))
    <3>1. Readings(t)[Len(t)] =
              [chars |-> Chars(x) \o Readings(y)[Len(y)].chars, lead |-> Readings(y)[Len(y)].lead]
      BY <1>1, <2>1
    <3>2. Readings(t)[Len(t)].chars = Chars(x) \o Readings(y)[Len(y)].chars
      BY <3>1
    <3>3. Readings(t)[Len(t)].lead = Readings(y)[Len(y)].lead
      BY <3>1
    <3>4. Chars(t) = Chars(x) \o Chars(y)
      BY <3>2 DEF Chars
    <3>5. Whole(t) <=> Whole(y)
      BY <3>3 DEF Whole
    <3>6. QED BY <3>4, <3>5
  <2>3. Chars(x) \in Seq(Character) /\ Chars(y) \in Seq(Character)
    BY CharsTyped
  <2>4. QED BY <2>2, <2>3 DEF CharCount
<1>8. QED BY <1>6, <1>7

LEMMA ByteAtTyped ==
    ASSUME NEW t \in Seq(Byte), NEW k \in Nat
    PROVE  ByteAt(t, k) \in 0 .. Len(t)
<1>1. CASE k > CharCount(t)
  BY <1>1 DEF ByteAt
<1>2. CASE ~(k > CharCount(t))
  <2>1. k \in 0 .. CharCount(t)
    BY <1>2, CharsTyped
  <2>2. QED BY <2>1, ByteAtWhole
<1>3. QED BY <1>1, <1>2

LEMMA InsertedTyped ==
    ASSUME NEW S, NEW t \in Seq(S), NEW at \in 0 .. Len(t), NEW bytes \in Seq(S)
    PROVE  Inserted(t, at, bytes) \in Seq(S)
<1>1. SubSeq(t, 1, at) \in Seq(S) /\ SubSeq(t, at + 1, Len(t)) \in Seq(S)
  <2>1. \A j \in 1 .. at : t[j] \in S
    OBVIOUS
  <2>2. \A j \in at + 1 .. Len(t) : t[j] \in S
    OBVIOUS
  <2>3. 1 \in Int /\ at \in Int /\ at + 1 \in Int /\ Len(t) \in Int
    OBVIOUS
  <2>4. QED BY <2>1, <2>2, <2>3, SubSeqProperties
<1>2. \A x \in Seq(S), y \in Seq(S) : x \o bytes \o y \in Seq(S)
  OBVIOUS
<1>3. QED BY <1>1, <1>2 DEF Inserted

LEMMA CutTyped ==
    ASSUME NEW S, NEW t \in Seq(S), NEW from \in 0 .. Len(t), NEW to \in 0 .. Len(t)
    PROVE  Cut(t, from, to) \in Seq(S)
<1>1. SubSeq(t, 1, from) \in Seq(S) /\ SubSeq(t, to + 1, Len(t)) \in Seq(S)
  <2>1. \A j \in 1 .. from : t[j] \in S
    OBVIOUS
  <2>2. \A j \in to + 1 .. Len(t) : t[j] \in S
    OBVIOUS
  <2>3. 1 \in Int /\ from \in Int /\ to + 1 \in Int /\ Len(t) \in Int
    OBVIOUS
  <2>4. QED BY <2>1, <2>2, <2>3, SubSeqProperties
<1>2. \A x \in Seq(S), y \in Seq(S) : x \o y \in Seq(S)
  OBVIOUS
<1>3. QED BY <1>1, <1>2 DEF Cut

\* What is cut from or put into a text behind its k-th character leaves that character.
LEMMA CutCount ==
    ASSUME NEW t \in Seq(Byte), NEW k \in 0 .. CharCount(t), NEW to \in 0 .. Len(t)
    PROVE  k <= CharCount(Cut(t, ByteAt(t, k), to))
<1> DEFINE x == SubSeq(t, 1, ByteAt(t, k))
           y == SubSeq(t, to + 1, Len(t))
<1>1. x \in Seq(Byte) /\ CharCount(x) = k
  BY ByteAtWhole
<1>2. y \in Seq(Byte)
  <2>1. \A j \in to + 1 .. Len(t) : t[j] \in Byte
    OBVIOUS
  <2>2. to + 1 \in Int /\ Len(t) \in Int
    OBVIOUS
  <2>3. QED BY <2>1, <2>2, SubSeqProperties
<1>3. Cut(t, ByteAt(t, k), to) = x \o y
  BY DEF Cut
<1> HIDE DEF x, y
<1>4. x \o y \in Seq(Byte)
  BY <1>1, <1>2
<1>5. CharCount(x \o y) \in Nat /\ CharCount(x \o y) >= CharCount(x)
  BY <1>1, <1>2, <1>4, ConcatCount, CharsTyped
<1>6. QED BY <1>1, <1>3, <1>5

LEMMA InsertedCount ==
    ASSUME NEW t \in Seq(Byte), NEW k \in 0 .. CharCount(t), NEW bytes \in Seq(Byte)
    PROVE  k + CharCount(bytes) <= CharCount(Inserted(t, ByteAt(t, k), bytes))
<1> DEFINE x == SubSeq(t, 1, ByteAt(t, k))
           y == SubSeq(t, ByteAt(t, k) + 1, Len(t))
<1>1. x \in Seq(Byte) /\ Whole(x) /\ CharCount(x) = k /\ ByteAt(t, k) \in 0 .. Len(t)
  BY ByteAtWhole
<1>2. y \in Seq(Byte)
  <2>1. \A j \in ByteAt(t, k) + 1 .. Len(t) : t[j] \in Byte
    BY <1>1
  <2>2. ByteAt(t, k) + 1 \in Int /\ Len(t) \in Int
    BY <1>1
  <2>3. QED BY <2>1, <2>2, SubSeqProperties
<1>3. Inserted(t, ByteAt(t, k), bytes) = (x \o bytes) \o y
  BY DEF Inserted
<1> HIDE DEF x, y
<1>4. x \o bytes \in Seq(Byte) /\ (x \o bytes) \o y \in Seq(Byte)
  BY <1>1, <1>2
<1>5. CharCount(x \o bytes) = k + CharCount(bytes)
  BY <1>1, ConcatCount
<1>6. CharCount((x \o bytes) \o y) >= CharCount(x \o bytes)
  BY <1>2, <1>4, ConcatCount
<1>7. CharCount(bytes) \in Nat /\ CharCount((x \o bytes) \o y) \in Nat /\ k \in Nat
  <2>1. CharCount(bytes) \in Nat /\ k \in Nat
    BY CharsTyped
  <2>2. CharCount((x \o bytes) \o y) \in Nat
    BY <1>4, CharsTyped
  <2>3. QED BY <2>1, <2>2
<1>8. QED BY <1>3, <1>5, <1>6, <1>7

LEMMA CountOne ==
    ASSUME NEW b \in Byte, b # "lead"
    PROVE  CharCount(<<b>>) = 1
<1>1. <<b>> \in Seq(Byte) /\ Len(<<b>>) = 1 /\ <<b>>[1] = b
  OBVIOUS
<1>2. Readings(<<b>>)[0] = [chars |-> <<>>, lead |-> FALSE]
  BY <1>1, ReadingsAre
<1>3. Readings(<<b>>)[1] = Read(Readings(<<b>>)[0], b)
  <2>1. 1 \in 1 .. Len(<<b>>) /\ 1 - 1 = 0
    BY <1>1
  <2>2. QED BY <1>1, <2>1, ReadingsAre
<1>4. Readings(<<b>>)[1].chars = <<<<b>>>>
  BY <1>2, <1>3 DEF Read
<1>5. QED BY <1>1, <1>4 DEF CharCount, Chars

\* A first byte that is typed at the end waits for the second; elsewhere it takes what
\* stands there.
LEMMA LeadCount ==
    ASSUME NEW y \in Seq(Byte)
    PROVE  LET t == <<"lead">> \o y IN
           IF y = <<>> THEN ~Whole(t) ELSE CharCount(t) >= 1
<1> DEFINE t == <<"lead">> \o y
           r == Readings(t)
<1>1. "lead" \in Byte
  BY DEF Byte, Typeable
<1>2. <<"lead">> \in Seq(Byte)
  BY <1>1
<1>3. t \in Seq(Byte) /\ Len(t) = 1 + Len(y) /\ t[1] = "lead" /\ Len(y) \in Nat
  BY <1>2
<1> HIDE DEF t
<1>4. r[0] = [chars |-> <<>>, lead |-> FALSE] /\ \A i \in 1 .. Len(t) : r[i] = Read(r[i - 1], t[i])
  BY <1>3, ReadingsAre
<1>5. r[1] = Read(r[0], "lead")
  <2>1. 1 \in 1 .. Len(t) /\ 1 - 1 = 0
    BY <1>3
  <2>2. r[1] = Read(r[1 - 1], t[1])
    BY <1>4, <2>1
  <2>3. QED BY <1>3, <2>1, <2>2
<1>6. r[1].chars = <<>> /\ r[1].lead
  BY <1>4, <1>5 DEF Read
<1>7. CASE y = <<>>
  <2>1. Len(t) = 1
    BY <1>3, <1>7
  <2>2. ~Whole(t)
    BY <1>6, <2>1 DEF Whole
  <2>3. QED BY <1>7, <2>2 DEF t
<1>8. CASE y # <<>>
  <2>1. Len(t) >= 2
    BY <1>3, <1>8
  <2>2. 2 \in 1 .. Len(t) /\ 2 - 1 = 1 /\ 2 \in 0 .. Len(t)
    BY <1>3, <2>1
  <2>3. r[2] = Read(r[2 - 1], t[2])
    BY <1>4, <2>2
  <2> DEFINE c == <<"lead", t[2]>>
  <2>4. r[2].chars = Append(r[1].chars, c)
    <3>1. r[2] = Read(r[1], t[2])
      BY <2>2, <2>3
    <3>2. Read(r[1], t[2]) = [chars |-> Append(r[1].chars, c), lead |-> FALSE]
      BY <1>6 DEF Read
    <3>3. QED BY <3>1, <3>2
  <2> HIDE DEF c
  <2>5. Len(r[2].chars) = 1
    <3>1. Len(Append(<<>>, c)) = 1
      OBVIOUS
    <3>2. QED BY <1>6, <2>4, <3>1
  <2>6. Len(r[2].chars) <= CharCount(t) /\ CharCount(t) \in Nat
    BY <1>3, <2>2, ReadGrows, CharsTyped
  <2>7. QED BY <1>8, <2>5, <2>6 DEF t
<1>9. QED BY <1>7, <1>8

LEMMA TornUnlessWhole ==
    ASSUME NEW t \in Seq(Byte), ~Torn(t)
    PROVE  Whole(t)
<1>1. Len(t) \in Nat /\ Len(t) \in 0 .. Len(t)
  OBVIOUS
<1>2. Len(FlattenSeq(Chars(t))) = Len(t)
  BY DEF Torn
<1>3. Len(FlattenSeq(Chars(t))) = IF Readings(t)[Len(t)].lead THEN Len(t) - 1 ELSE Len(t)
  BY <1>1, BytesRead DEF Chars
<1>4. QED BY <1>1, <1>2, <1>3 DEF Whole

\* A byte that is typed behind the k-th character leaves the cursor in the text.
LEMMA TypedCount ==
    ASSUME NEW t \in Seq(Byte), NEW k \in 0 .. CharCount(t), NEW b \in Byte,
           ~Torn(Inserted(t, ByteAt(t, k), <<b>>))
    PROVE  k + 1 <= CharCount(Inserted(t, ByteAt(t, k), <<b>>))
<1>1. CASE b # "lead"
  <2>1. CharCount(<<b>>) = 1 /\ <<b>> \in Seq(Byte)
    BY <1>1, CountOne
  <2>2. QED BY <2>1, InsertedCount
<1>2. CASE b = "lead"
  <2> DEFINE x == SubSeq(t, 1, ByteAt(t, k))
             y == SubSeq(t, ByteAt(t, k) + 1, Len(t))
             z == <<"lead">> \o y
  <2>1. x \in Seq(Byte) /\ Whole(x) /\ CharCount(x) = k /\ ByteAt(t, k) \in 0 .. Len(t)
    BY ByteAtWhole
  <2>2. y \in Seq(Byte)
    <3>1. \A j \in ByteAt(t, k) + 1 .. Len(t) : t[j] \in Byte
      BY <2>1
    <3>2. ByteAt(t, k) + 1 \in Int /\ Len(t) \in Int
      BY <2>1
    <3>3. QED BY <3>1, <3>2, SubSeqProperties
  <2>3. <<"lead">> \in Seq(Byte)
    BY <1>2
  <2>4. Inserted(t, ByteAt(t, k), <<b>>) = x \o z
    <3>1. Inserted(t, ByteAt(t, k), <<b>>) = (x \o <<"lead">>) \o y
      BY <1>2 DEF Inserted
    <3> DEFINE l == <<"lead">>
    <3> HIDE DEF x, y, l
    <3>2. l \in Seq(Byte)
      BY <2>3 DEF l
    <3>3. (x \o l) \o y = x \o (l \o y)
      BY <2>1, <2>2, <3>2, ConcatAssociative
    <3>4. QED BY <3>1, <3>3 DEF l
  <2> HIDE DEF x, y
  <2>5. z \in Seq(Byte)
    BY <2>2, <2>3
  <2>6. IF y = <<>> THEN ~Whole(z) ELSE CharCount(z) >= 1
    BY <2>2, LeadCount
  <2> HIDE DEF z
  <2>7. x \o z \in Seq(Byte)
    BY <2>1, <2>5
  <2>8. CharCount(x \o z) = k + CharCount(z) /\ (Whole(x \o z) <=> Whole(z))
    BY <2>1, <2>5, ConcatCount
  <2>9. Whole(x \o z)
    BY <2>4, <2>7, TornUnlessWhole
  <2>10. CharCount(z) >= 1 /\ CharCount(z) \in Nat /\ k \in Nat
    BY <2>5, <2>6, <2>8, <2>9, CharsTyped
  <2>11. CharCount(x \o z) >= k + 1
    BY <2>8, <2>10
  <2>12. CharCount(x \o z) \in Nat
    BY <2>7, CharsTyped
  <2>13. QED BY <2>4, <2>10, <2>11, <2>12
<1>3. QED BY <1>1, <1>2

\* A text that is pasted has no line ends.
LEMMA TextOfTyped ==
    ASSUME NEW bytes \in Seq(Byte)
    PROVE  TextOf(bytes) \in Seq(Typeable)
<1> DEFINE L == Len(bytes)
           D == Seq(Typeable)
           Take(x, i) == IF bytes[i] = "newline" THEN x ELSE Append(x, bytes[i])
           z == <<>>
           g == [a \in D \X (1 .. L) |-> Take(a[1], a[2])]
<1>1. L \in Nat /\ z \in D
  OBVIOUS
<1>2. \A x \in D, i \in 1 .. L : g[<<x, i>>] = Take(x, i) /\ Take(x, i) \in D
  <2>1. \A i \in 1 .. L : bytes[i] # "newline" => bytes[i] \in Typeable
    BY DEF Byte
  <2>2. \A x \in D, b \in Typeable : Append(x, b) \in D
    OBVIOUS
  <2> HIDE DEF D
  <2>3. QED BY <2>1, <2>2
<1> HIDE DEF Take, D, z
<1>3. g \in [D \X (1 .. L) -> D]
  BY <1>2 DEF g
<1> HIDE DEF g, L
<1>4. PICK h : Steps(h, L, D, z, g)
  BY <1>1, <1>3, Recursion
<1>5. h \in [0 .. L -> D] /\ h[0] = z
  BY <1>4 DEF Steps
<1>6. \A i \in 1 .. L : h[i - 1] \in D
  <2>1. \A i \in 1 .. L : i - 1 \in 0 .. L
    BY <1>1
  <2>2. QED BY <1>5, <2>1
<1>7. \A i \in 1 .. L : h[i] = Take(h[i - 1], i)
  <2>1. \A i \in 1 .. L : h[i] = g[<<h[i - 1], i>>]
    BY <1>4 DEF Steps
  <2>2. QED BY <1>2, <1>6, <2>1
<1>8. h = [i \in 0 .. L |-> IF i = 0 THEN z ELSE Take(h[i - 1], i)]
  <2>1. \A i \in 0 .. L : i # 0 => i \in 1 .. L
    BY <1>1
  <2>2. \A i \in 0 .. L : h[i] = IF i = 0 THEN z ELSE Take(h[i - 1], i)
    BY <1>5, <1>7, <2>1
  <2>3. QED BY <1>5, <2>2
<1> DEFINE r == CHOOSE r : r = [i \in 0 .. L |-> IF i = 0 THEN z ELSE Take(r[i - 1], i)]
<1>9. r = [i \in 0 .. L |-> IF i = 0 THEN z ELSE Take(r[i - 1], i)]
  BY <1>8
<1>10. TextOf(bytes) = r[L]
  BY DEF TextOf, r, z, L, Take
<1> HIDE DEF r
<1> DEFINE T == {i \in 0 .. L : r[i] \in D}
<1>11. 0 \in T
  BY <1>1, <1>9
<1>12. ASSUME NEW i \in 0 .. L, i < L, i \in T PROVE i + 1 \in T
  <2>1. i + 1 \in 0 .. L /\ i + 1 \in 1 .. L /\ (i + 1) - 1 = i /\ i + 1 # 0
    BY <1>1, <1>12
  <2>2. r[i + 1] = Take(r[i], i + 1)
    BY <1>9, <2>1
  <2>3. QED BY <1>2, <1>12, <2>1, <2>2
<1>13. L \in T
  <2> HIDE DEF T
  <2>1. \A i \in 0 .. L : i \in T
    BY <1>1, <1>11, <1>12, CountUp
  <2>2. QED BY <1>1, <2>1
<1>14. QED BY <1>10, <1>13 DEF D

LEMMA FlattenedTyped ==
    ASSUME NEW text \in Seq(Byte)
    PROVE  FlattenSeq(Chars(text)) \in Seq(Byte)
<1>1. Chars(text) \in Seq(Character)
  BY CharsTyped
<1>2. \A c \in Character : c \in Seq(Byte)
  BY CharacterFacts
<1> DEFINE cs == Chars(text)
<1> HIDE DEF cs
<1>3. PICK h \in [0 .. Len(cs) -> Seq(Byte)] : FlattenSeq(cs) = h[Len(cs)]
  BY <1>1, <1>2, FlattenIs DEF cs
<1>4. Len(cs) \in 0 .. Len(cs)
  BY <1>1 DEF cs
<1>5. h[Len(cs)] \in Seq(Byte)
  BY <1>3, <1>4
<1>6. QED BY <1>3, <1>5 DEF cs

-----------------------------------------------------------------------------
(* Cells.                                                                  *)

LEMMA CellsAre ==
    ASSUME NEW cs \in Seq(Character)
    PROVE  /\ Cells(cs) \in [0 .. Len(cs) -> Nat] /\ Cells(cs)[0] = 0
           /\ \A i \in 1 .. Len(cs) : Cells(cs)[i] = Cells(cs)[i - 1] + CellsOf(cs[i])
<1> DEFINE L == Len(cs)
           z == 0
           g == [a \in Nat \X (1 .. L) |-> a[1] + CellsOf(cs[a[2]])]
<1>1. L \in Nat /\ z \in Nat
  OBVIOUS
<1>2. \A x \in Nat, i \in 1 .. L : g[<<x, i>>] = x + CellsOf(cs[i]) /\ x + CellsOf(cs[i]) \in Nat
  <2>1. \A i \in 1 .. L : CellsOf(cs[i]) \in Nat
    BY DEF CellsOf
  <2> HIDE DEF L
  <2>2. QED BY <2>1
<1>3. g \in [Nat \X (1 .. L) -> Nat]
  BY <1>2 DEF g
<1> HIDE DEF g, L, z
<1>4. PICK h : Steps(h, L, Nat, z, g)
  BY <1>1, <1>3, Recursion
<1>5. h \in [0 .. L -> Nat] /\ h[0] = 0
  BY <1>4 DEF Steps, z
<1>6. \A i \in 1 .. L : h[i - 1] \in Nat
  <2>1. \A i \in 1 .. L : i - 1 \in 0 .. L
    BY <1>1
  <2>2. QED BY <1>5, <2>1
<1>7. \A i \in 1 .. L : h[i] = h[i - 1] + CellsOf(cs[i])
  <2>1. \A i \in 1 .. L : h[i] = g[<<h[i - 1], i>>]
    BY <1>4 DEF Steps
  <2>2. QED BY <1>2, <1>6, <2>1
<1>8. h = [i \in 0 .. L |-> IF i = 0 THEN 0 ELSE h[i - 1] + CellsOf(cs[i])]
  <2>1. \A i \in 0 .. L : i # 0 => i \in 1 .. L
    BY <1>1
  <2>2. \A i \in 0 .. L : h[i] = IF i = 0 THEN 0 ELSE h[i - 1] + CellsOf(cs[i])
    BY <1>5, <1>7, <2>1
  <2>3. QED BY <1>5, <2>2
<1> DEFINE r == CHOOSE r : r = [i \in 0 .. L |-> IF i = 0 THEN 0 ELSE r[i - 1] + CellsOf(cs[i])]
<1>9. r = [i \in 0 .. L |-> IF i = 0 THEN 0 ELSE r[i - 1] + CellsOf(cs[i])]
  BY <1>8
<1>10. Cells(cs) = r
  BY DEF Cells, r, L
<1> HIDE DEF r
<1>11. r[0] = 0 /\ \A i \in 1 .. L : r[i] = r[i - 1] + CellsOf(cs[i])
  BY <1>1, <1>9
<1>12. r = h
  <2> DEFINE T == {i \in 0 .. L : r[i] = h[i]}
  <2>1. 0 \in T
    BY <1>1, <1>5, <1>11
  <2>2. ASSUME NEW i \in 0 .. L, i < L, i \in T PROVE i + 1 \in T
    <3>1. i + 1 \in 0 .. L /\ i + 1 \in 1 .. L /\ (i + 1) - 1 = i
      BY <1>1, <2>2
    <3>2. r[i + 1] = r[i] + CellsOf(cs[i + 1]) /\ h[i + 1] = h[i] + CellsOf(cs[i + 1])
      BY <1>7, <1>11, <3>1
    <3>3. QED BY <2>2, <3>1, <3>2
  <2>3. \A i \in 0 .. L : i \in T
    <3> HIDE DEF T
    <3>1. QED BY <1>1, <2>1, <2>2, CountUp
  <2>4. QED BY <1>5, <1>9, <2>3
<1>13. QED BY <1>5, <1>7, <1>10, <1>12 DEF L

LEMMA CellsGrow ==
    ASSUME NEW cs \in Seq(Character), NEW i \in 0 .. Len(cs), NEW j \in 0 .. Len(cs), i <= j
    PROVE  Cells(cs)[i] <= Cells(cs)[j]
<1> DEFINE f == Cells(cs)
           L == Len(cs)
           T == {n \in 0 .. L : n >= i => f[i] <= f[n]}
<1>1. L \in Nat /\ f \in [0 .. L -> Nat] /\ \A n \in 1 .. L : f[n] = f[n - 1] + CellsOf(cs[n])
  BY CellsAre
<1>2. \A n \in 1 .. L : CellsOf(cs[n]) \in Nat
  BY DEF CellsOf
<1> HIDE DEF f, L
<1>3. 0 \in T
  <2>1. 0 >= i => i = 0
    BY <1>1 DEF L
  <2>2. 0 \in 0 .. L /\ f[0] \in Nat
    BY <1>1
  <2>3. f[0] <= f[0]
    BY <2>2
  <2>4. QED BY <2>1, <2>2, <2>3
<1>4. ASSUME NEW n \in 0 .. L, n < L, n \in T PROVE n + 1 \in T
  <2>1. n + 1 \in 0 .. L /\ n + 1 \in 1 .. L /\ (n + 1) - 1 = n /\ i \in 0 .. L
    BY <1>1, <1>4 DEF L
  <2>2. f[n + 1] = f[n] + CellsOf(cs[n + 1]) /\ CellsOf(cs[n + 1]) \in Nat
    BY <1>1, <1>2, <2>1
  <2>3. f[n] \in Nat /\ f[i] \in Nat
    BY <1>1, <2>1
  <2>4. CASE n >= i
    BY <1>4, <2>1, <2>2, <2>3, <2>4
  <2>5. CASE ~(n >= i)
    <3>1. n + 1 >= i => n + 1 = i
      BY <2>1, <2>5
    <3>2. f[i] <= f[i]
      BY <2>3
    <3>3. QED BY <2>1, <3>1, <3>2
  <2>6. QED BY <2>4, <2>5
<1>5. \A n \in 0 .. L : n \in T
  <2> HIDE DEF T
  <2>1. QED BY <1>1, <1>3, <1>4, CountUp
<1>6. QED BY <1>5 DEF f, L

LEMMA MinOfTwo ==
    ASSUME NEW a \in Int, NEW b \in Int
    PROVE  Min({a, b}) = IF a <= b THEN a ELSE b
<1>1. \E x \in {a, b} : \A y \in {a, b} : x =< y
  OBVIOUS
<1> DEFINE m == Min({a, b})
<1>2. m \in {a, b} /\ \A y \in {a, b} : m =< y
  BY <1>1 DEF Min
<1> HIDE DEF m
<1>3. m = IF a <= b THEN a ELSE b
  BY <1>2
<1>4. QED BY <1>3 DEF m

LEMMA MaxOfTwo ==
    ASSUME NEW a \in Int, NEW b \in Int
    PROVE  Max({a, b}) = IF a >= b THEN a ELSE b
<1>1. \E x \in {a, b} : \A y \in {a, b} : x >= y
  OBVIOUS
<1> DEFINE m == Max({a, b})
<1>2. m \in {a, b} /\ \A y \in {a, b} : m >= y
  BY <1>1 DEF Max
<1> HIDE DEF m
<1>3. m = IF a >= b THEN a ELSE b
  BY <1>2
<1>4. QED BY <1>3 DEF m

LEMMA CellOfFacts ==
    ASSUME NEW cs \in Seq(Character), NEW k \in Nat
    PROVE  /\ CellOf(cs, k) \in Nat
           /\ k <= Len(cs) => CellOf(cs, k) = Cells(cs)[k]
<1>1. Len(cs) \in Nat
  OBVIOUS
<1>2. Min({k, Len(cs)}) = IF k <= Len(cs) THEN k ELSE Len(cs)
  BY <1>1, MinOfTwo
<1>3. Min({k, Len(cs)}) \in 0 .. Len(cs) /\ (k <= Len(cs) => Min({k, Len(cs)}) = k)
  BY <1>1, <1>2
<1>4. Cells(cs) \in [0 .. Len(cs) -> Nat]
  BY CellsAre
<1>5. QED BY <1>3, <1>4 DEF CellOf

\* The cells of a character put the cursor before it.
LEMMA CharAtIs ==
    ASSUME NEW text \in Seq(Byte), NEW cell \in Int
    PROVE  /\ CharAt(text, cell) \in 0 .. CharCount(text)
           /\ \A i \in DOMAIN Chars(text) :
                  cell \in CellOf(Chars(text), i - 1) .. CellOf(Chars(text), i - 1) + CellsOf(Chars(text)[i]) - 1
                      => CharAt(text, cell) = i - 1
<1> DEFINE cs == Chars(text)
           L == Len(cs)
           Fits(i) == CellOf(cs, i) + (CellsOf(cs[i + 1]) \div 2) >= cell
           S == {L} \cup {i \in 0 .. L - 1 : Fits(i)}
<1>1. cs \in Seq(Character) /\ L \in Nat /\ L = CharCount(text) /\ DOMAIN cs = 1 .. L
  BY CharsTyped
<1>2. CharAt(text, cell) = Min(S)
  BY DEF CharAt
<1> HIDE DEF cs
<1>3. S \subseteq Nat /\ S # {} /\ S \subseteq 0 .. L
  BY <1>1
<1> HIDE DEF S
<1>4. Min(S) \in S /\ \A m \in S : Min(S) <= m
  BY <1>3, LeastIs
<1>5. ASSUME NEW i \in 1 .. L,
             cell \in CellOf(cs, i - 1) .. CellOf(cs, i - 1) + CellsOf(cs[i]) - 1
      PROVE  Min(S) = i - 1
  <2>1. i - 1 \in 0 .. L - 1 /\ i - 1 \in 0 .. L /\ (i - 1) + 1 = i /\ i \in 0 .. L /\ i - 1 \in Nat
        /\ i - 1 <= L
    BY <1>1
  <2>2. CellOf(cs, i - 1) = Cells(cs)[i - 1] /\ CellOf(cs, i - 1) \in Nat
    BY <1>1, <2>1, CellOfFacts
  <2>3. \A j \in 1 .. L : CellsOf(cs[j]) \in {1, 2}
    <3>1. \A j \in 1 .. L : cs[j] \in Character
      BY <1>1
    <3>2. QED BY <3>1, CharacterFacts
  <2>4. i - 1 \in S
    <3>1. CellOf(cs, i - 1) + (CellsOf(cs[i]) \div 2) >= cell
      <4>1. CellsOf(cs[i]) \in {1, 2} /\ 1 \div 2 = 0 /\ 2 \div 2 = 1
        BY <2>3
      <4>2. QED BY <1>5, <2>2, <4>1
    <3>2. QED BY <2>1, <3>1 DEF S
  <2>5. ASSUME NEW m \in S, m < i - 1 PROVE FALSE
    <3>1. m \in 0 .. L - 1 /\ CellOf(cs, m) + (CellsOf(cs[m + 1]) \div 2) >= cell
      BY <1>1, <1>3, <2>5 DEF S
    <3>2. m + 1 \in 1 .. L /\ (m + 1) - 1 = m /\ m + 1 <= i - 1 /\ m \in Nat /\ m <= L /\ m + 1 \in 0 .. L
      BY <1>1, <2>1, <2>5, <3>1
    <3>3. CellOf(cs, m) = Cells(cs)[m] /\ CellOf(cs, m) \in Nat
      BY <1>1, <3>2, CellOfFacts
    <3>4. Cells(cs)[m + 1] = Cells(cs)[m] + CellsOf(cs[m + 1])
      BY <1>1, <3>2, CellsAre
    <3>5. Cells(cs)[m + 1] <= Cells(cs)[i - 1]
      BY <1>1, <2>1, <3>2, CellsGrow
    <3>6. CellsOf(cs[m + 1]) \in {1, 2} /\ 1 \div 2 = 0 /\ 2 \div 2 = 1
      BY <2>3, <3>2
    <3>7. CellOf(cs, i - 1) <= cell
      BY <1>5, <2>2
    <3>8. QED BY <2>2, <3>1, <3>3, <3>4, <3>5, <3>6, <3>7
  <2>6. Min(S) <= i - 1 /\ Min(S) \in Nat
    BY <1>3, <1>4, <2>4
  <2>7. ~(Min(S) < i - 1)
    BY <1>4, <2>5
  <2>8. QED BY <2>1, <2>6, <2>7
<1>6. Min(S) \in 0 .. L
  BY <1>3, <1>4
<1>7. QED BY <1>1, <1>2, <1>5, <1>6 DEF cs

-----------------------------------------------------------------------------
(* Where the cursor goes.                                                  *)

\* A word that is selected lies in the text.
LEMMA WordAtIs ==
    ASSUME NEW text \in Seq(Byte), NEW k \in 0 .. CharCount(text)
    PROVE  LET w == WordAt(text, k) IN
           w[1] \in 0 .. k /\ w[2] \in k .. CharCount(text)
<1> DEFINE cs == Chars(text)
           InWord(i) == cs[i] = <<"a">>
           L == Len(cs)
           F == {s \in 0 .. k : \A i \in s + 1 .. k : InWord(i)}
           B == {e \in k + 1 .. L : \A i \in k + 1 .. e : InWord(i)}
<1>1. L \in Nat /\ L = CharCount(text) /\ k \in 0 .. L
  BY CharsTyped
<1>2. WordAt(text, k) = IF k >= L THEN <<k, k>> ELSE IF ~InWord(k + 1) THEN <<k, k + 1>> ELSE <<Min(F), Max(B)>>
  BY DEF WordAt
<1> HIDE DEF cs
<1>3. F \subseteq Nat /\ k \in F /\ F \subseteq 0 .. k
  BY <1>1
<1>4. Min(F) \in 0 .. k
  <2> HIDE DEF F
  <2>1. Min(F) \in F
    BY <1>3, LeastIs
  <2>2. QED BY <1>3, <2>1
<1>5. CASE k >= L
  BY <1>1, <1>2, <1>5
<1>6. CASE k < L /\ ~InWord(k + 1)
  <2>1. ~(k >= L)
    BY <1>1, <1>6
  <2>2. WordAt(text, k) = <<k, k + 1>>
    BY <1>2, <1>6, <2>1
  <2>3. QED BY <1>1, <1>6, <2>2
<1>7. CASE k < L /\ InWord(k + 1)
  <2>1. k + 1 \in B
    <3>1. k + 1 \in k + 1 .. L /\ \A i \in k + 1 .. k + 1 : i = k + 1
      BY <1>1, <1>7
    <3>2. QED BY <1>7, <3>1
  <2>2. B \subseteq 0 .. L /\ B \subseteq k .. L
    BY <1>1
  <2> HIDE DEF B
  <2>3. Max(B) \in B
    BY <1>1, <2>1, <2>2, GreatestIs
  <2>4. ~(k >= L)
    BY <1>1, <1>7
  <2>5. WordAt(text, k) = <<Min(F), Max(B)>>
    BY <1>2, <1>7, <2>4
  <2>6. Max(B) \in k .. L
    BY <2>2, <2>3
  <2> HIDE DEF F
  <2>7. QED BY <1>1, <1>4, <2>5, <2>6
<1>8. k >= L \/ k < L
  BY <1>1
<1>9. QED BY <1>5, <1>6, <1>7, <1>8

LEMMA NextWordIs ==
    ASSUME NEW text \in Seq(Byte), NEW k \in Nat
    PROVE  NextWord(text, k) \in Nat /\ (k <= CharCount(text) => NextWord(text, k) <= CharCount(text))
<1> DEFINE n == CharCount(text)
           A == {n} \cup {i \in k .. n - 1 : ~IsSpace(text, i + 1)}
           word == Min(A)
           B == {n} \cup {i \in word .. n - 1 : IsSpace(text, i + 1)}
<1>1. n \in Nat
  BY CharsTyped
<1>2. NextWord(text, k) = IF k > n THEN k ELSE Min(B)
  BY DEF NextWord
<1> HIDE DEF n
<1>3. A \subseteq Nat /\ A # {}
  BY <1>1
<1> HIDE DEF A
<1>4. word \in Nat
  BY <1>3, LeastIs
<1> HIDE DEF word
<1>5. B \subseteq Nat /\ n \in B
  BY <1>1, <1>4
<1> HIDE DEF B
<1>6. Min(B) \in B /\ Min(B) <= n
  BY <1>5, LeastIs
<1>7. Min(B) \in Nat
  BY <1>5, <1>6
<1>8. CASE k > n
  <2>1. ~(k <= n)
    BY <1>1, <1>8
  <2>2. QED BY <1>2, <1>8, <2>1 DEF n
<1>9. CASE ~(k > n)
  BY <1>2, <1>6, <1>7, <1>9 DEF n
<1>10. QED BY <1>8, <1>9

LEMMA PrevWordIs ==
    ASSUME NEW text \in Seq(Byte), NEW k \in Nat, k # 0, NEW to \in PrevWord(text, k)
    PROVE  to \in Nat /\ to < k
<1> DEFINE A == {0} \cup {i \in 1 .. k - 1 : ~IsSpace(text, i + 1)}
           last == Max(A)
           B == {0} \cup {i \in 1 .. last : IsSpace(text, i)}
<1>1. k - 1 \in Nat /\ A \subseteq 0 .. k - 1 /\ 0 \in A
  OBVIOUS
<1>2. to \in IF k > CharCount(text) THEN 0 .. k - 1 ELSE {Max(B)}
  BY DEF PrevWord
<1> HIDE DEF A
<1>3. last \in 0 .. k - 1
  <2>1. last \in A
    BY <1>1, GreatestIs
  <2>2. QED BY <1>1, <2>1
<1> HIDE DEF last
<1>4. B \subseteq 0 .. k - 1 /\ 0 \in B
  BY <1>1, <1>3
<1> HIDE DEF B
<1>5. Max(B) \in 0 .. k - 1
  <2>1. Max(B) \in B
    BY <1>1, <1>4, GreatestIs
  <2>2. QED BY <1>4, <2>1
<1>6. to \in 0 .. k - 1
  BY <1>2, <1>5
<1>7. QED BY <1>6

-----------------------------------------------------------------------------
(* The line.                                                               *)

Line == [text : Seq(Typeable), cursor : Nat, start : Nat \cup {None0}, end : Nat \cup {None0},
         anchor : Nat \cup {None0}, down : BOOLEAN, view : Nat]

\* A selection has two ends, the first before the second. While no character came byte by
\* byte, the cursor lies in the text, and a selection does that was begun after the last
\* edit.
LineOK(l, torn, stale) ==
    /\ l \in Line
    /\ l.anchor = None0 => l.start = None0 /\ l.end = None0 /\ ~l.down
    /\ l.start = None0 <=> l.end = None0
    /\ l.start # None0 => l.start <= l.end
    /\ ~torn =>
           /\ l.cursor <= CharCount(l.text)
           /\ ~stale /\ l.anchor # None0 => l.anchor <= CharCount(l.text)
           /\ ~stale /\ Selecting(l) => l.end <= CharCount(l.text) /\ l.cursor \in {l.start, l.end}

LEMMA LineFields ==
    ASSUME NEW l \in Line
    PROVE  /\ l.text \in Seq(Typeable) /\ l.text \in Seq(Byte) /\ l.cursor \in Nat /\ l.start \in Nat \cup {None0}
           /\ l.end \in Nat \cup {None0} /\ l.anchor \in Nat \cup {None0} /\ l.down \in BOOLEAN /\ l.view \in Nat
           /\ CharCount(l.text) \in Nat
<1>1. l.text \in Seq(Typeable)
  BY DEF Line
<1>2. l.text \in Seq(Byte)
  BY <1>1, TypeableBytes
<1>3. QED BY <1>1, <1>2, CharsTyped DEF Line

LEMMA CellAtTyped ==
    ASSUME NEW text \in Seq(Byte), NEW k \in Nat
    PROVE  CellAt(text, k) \in Nat
BY CharsTyped, CellOfFacts DEF CellAt

\* Drawing moves the view and nothing else, and has the cursor in it.
LEMMA InViewIs ==
    ASSUME NEW l \in Line
    PROVE  /\ InView(l) \in Line
           /\ InView(l).text = l.text /\ InView(l).cursor = l.cursor /\ InView(l).start = l.start
           /\ InView(l).end = l.end /\ InView(l).anchor = l.anchor /\ InView(l).down = l.down
           /\ CursorCell(InView(l)) \in 0 .. LineWidth - 1
<1> DEFINE x == CellAt(l.text, l.cursor)
           v == IF x < l.view THEN x ELSE IF x >= l.view + LineWidth THEN x - LineWidth + 1 ELSE l.view
<1>1. x \in Nat /\ l.view \in Nat
  BY LineFields, CellAtTyped
<1>2. LineWidth \in Nat \ {0}
  BY LineAssumption
<1>3. InView(l) = [l EXCEPT !.view = v]
  BY DEF InView
<1>4. v \in Nat /\ x - v \in 0 .. LineWidth - 1
  <2> HIDE DEF x
  <2>1. CASE x < l.view
    BY <1>1, <1>2, <2>1
  <2>2. CASE ~(x < l.view) /\ x >= l.view + LineWidth
    BY <1>1, <1>2, <2>2
  <2>3. CASE ~(x < l.view) /\ ~(x >= l.view + LineWidth)
    BY <1>1, <1>2, <2>3
  <2>4. QED BY <2>1, <2>2, <2>3
<1> HIDE DEF v
<1>5. /\ InView(l) \in Line /\ InView(l).view = v
      /\ InView(l).text = l.text /\ InView(l).cursor = l.cursor /\ InView(l).start = l.start
      /\ InView(l).end = l.end /\ InView(l).anchor = l.anchor /\ InView(l).down = l.down
  BY <1>3, <1>4 DEF Line
<1>6. QED BY <1>4, <1>5 DEF CursorCell

LEMMA InViewOK ==
    ASSUME NEW l, NEW torn, NEW stale, LineOK(l, torn, stale)
    PROVE  LineOK(InView(l), torn, stale)
<1>1. l \in Line
  BY DEF LineOK
<1> DEFINE m == InView(l)
<1>2. /\ m \in Line /\ m.text = l.text /\ m.cursor = l.cursor /\ m.start = l.start
      /\ m.end = l.end /\ m.anchor = l.anchor /\ m.down = l.down
  BY <1>1, InViewIs
<1> HIDE DEF m
<1>3. LineOK(m, torn, stale)
  BY <1>2 DEF LineOK, Selecting
<1>4. QED BY <1>3 DEF m

LEMMA UnselectedOK ==
    ASSUME NEW l \in Line, NEW torn, NEW stale, ~torn => l.cursor <= CharCount(l.text)
    PROVE  LineOK(Unselected(l), torn, stale) /\ Unselected(l).text = l.text /\ Unselected(l).anchor = None0
<1> DEFINE m == Unselected(l)
<1>1. /\ m \in Line /\ m.text = l.text /\ m.cursor = l.cursor /\ m.start = None0 /\ m.end = None0
      /\ m.anchor = None0 /\ m.down = FALSE
  BY DEF Unselected, Line
<1> HIDE DEF m
<1>2. LineOK(m, torn, stale)
  BY <1>1 DEF LineOK, Selecting
<1>3. QED BY <1>1, <1>2 DEF m

\* What is deleted starts in the text, or there would be nothing behind its start.
LEMMA DeletedOK ==
    ASSUME NEW l, NEW torn, NEW stale, LineOK(l, torn, stale)
    PROVE  LineOK(Deleted(l), torn, stale)
<1> DEFINE t == l.text
           from == ByteAt(t, l.start)
           to == ByteAt(t, l.end)
<1>1. l \in Line
  BY DEF LineOK
<1>2. t \in Seq(Typeable) /\ t \in Seq(Byte) /\ CharCount(t) \in Nat /\ Len(t) \in Nat
  BY <1>1, LineFields
<1>3. CASE Selecting(l) /\ to > from
  <2>1. l.start \in Nat /\ l.end \in Nat
    BY <1>1, <1>3, LineFields DEF Selecting
  <2>2. from \in 0 .. Len(t) /\ to \in 0 .. Len(t)
    BY <1>2, <2>1, ByteAtTyped
  <2>3. l.start \in 0 .. CharCount(t)
    <3>1. l.start > CharCount(t) => from = Len(t)
      BY DEF ByteAt
    <3>2. from < Len(t)
      BY <1>2, <1>3, <2>2
    <3>3. ~(l.start > CharCount(t))
      BY <1>2, <3>1, <3>2
    <3>4. QED BY <1>2, <2>1, <3>3
  <2> DEFINE c == Cut(t, from, to)
             m == [l EXCEPT !.text = c, !.cursor = l.start]
  <2>4. c \in Seq(Typeable) /\ l.start <= CharCount(c)
    BY <1>2, <2>2, <2>3, CutTyped, CutCount
  <2>5. Deleted(l) = Unselected(m)
    BY <1>3 DEF Deleted
  <2> HIDE DEF c
  <2>6. m \in Line /\ m.cursor = l.start /\ m.text = c
    BY <1>1, <2>1, <2>4 DEF Line
  <2> HIDE DEF m
  <2>7. QED BY <2>4, <2>5, <2>6, UnselectedOK
<1>4. CASE ~(Selecting(l) /\ to > from)
  <2>1. Deleted(l) = l
    BY <1>4 DEF Deleted
  <2>2. QED BY <2>1
<1>5. QED BY <1>3, <1>4

\* After an edit nothing is known of a selection that stays.
LEMMA StaleOK ==
    ASSUME NEW l, NEW torn, LineOK(l, torn, TRUE)
    PROVE  LineOK(l, torn, l.anchor # None0)
BY DEF LineOK, Selecting

LEMMA PutOK ==
    ASSUME NEW l, NEW torn, NEW stale, LineOK(l, torn, stale), NEW bytes \in Seq(Typeable)
    PROVE  LineOK(Put(l, bytes), torn, TRUE)
<1> DEFINE t == l.text
           n == Inserted(t, ByteAt(t, l.cursor), bytes)
           m == Put(l, bytes)
<1>1. l \in Line
  BY DEF LineOK
<1>2. t \in Seq(Typeable) /\ t \in Seq(Byte) /\ CharCount(t) \in Nat /\ l.cursor \in Nat
  BY <1>1, LineFields
<1>3. bytes \in Seq(Byte) /\ CharCount(bytes) \in Nat
  BY TypeableBytes, CharsTyped
<1>4. n \in Seq(Typeable)
  <2>1. ByteAt(t, l.cursor) \in 0 .. Len(t)
    BY <1>2, ByteAtTyped
  <2>2. QED BY <1>2, <2>1, InsertedTyped
<1>5. ~torn => l.cursor + CharCount(bytes) <= CharCount(n)
  <2>1. ~torn => l.cursor \in 0 .. CharCount(t)
    BY <1>2 DEF LineOK
  <2>2. QED BY <1>2, <1>3, <2>1, InsertedCount
<1> DEFINE c == l.cursor + CharCount(bytes)
<1>6. c \in Nat /\ m = [l EXCEPT !.text = n, !.cursor = c]
  BY <1>2, <1>3 DEF Put
<1> HIDE DEF n, m, c
<1>7. /\ m \in Line /\ m.text = n /\ m.cursor = c /\ m.start = l.start
      /\ m.end = l.end /\ m.anchor = l.anchor /\ m.down = l.down
  BY <1>1, <1>4, <1>6 DEF Line
<1>8. LineOK(m, torn, TRUE)
  BY <1>5, <1>7 DEF LineOK, Selecting, c
<1>9. QED BY <1>8 DEF m

-----------------------------------------------------------------------------
(* The line and its history.                                               *)

TypedText == Seq(Typeable)
Kept == [text : TypedText, cursor : Nat]
History == [past : Seq(TypedText), future : Seq(TypedText), inputs : Nat, overrun : BOOLEAN, torn : BOOLEAN,
            stale : BOOLEAN]

UndoTyped ==
    /\ undo \in [list : Seq(Kept), at : Nat] /\ undo.at <= Len(undo.list)
    /\ lineWas \in History /\ clipboard \in Seq(Byte)

\* What can be undone, where redo begins, and what can be redone.
UndoTrue(list, at, past, future, text) ==
    /\ at <= HistorySize /\ Len(list) <= HistorySize + 1
    /\ Len(past) = at /\ \A i \in 1 .. at : list[i].text = past[i]
    /\ at < Len(list) => list[at + 1].text = text
    /\ Len(future) = IF at < Len(list) THEN Len(list) - at - 1 ELSE 0
    /\ \A i \in 1 .. Len(future) : list[at + 1 + i].text = future[i]

LineInv ==
    /\ UndoTyped
    /\ LineOK(line, lineWas.torn, lineWas.stale)
    /\ ~lineWas.overrun => UndoTrue(undo.list, undo.at, lineWas.past, lineWas.future, line.text)

LEMMA TextsAre ==
    ASSUME NEW list \in Seq(Kept), NEW from \in 1 .. Len(list) + 1, NEW to \in 0 .. Len(list),
           NEW past \in Seq(TypedText), Len(past) = IF from <= to THEN to - from + 1 ELSE 0,
           \A i \in 1 .. Len(past) : list[from - 1 + i].text = past[i]
    PROVE  Texts(SubSeq(list, from, to)) = past
<1> DEFINE s == SubSeq(list, from, to)
<1>1. \A i \in from .. to : list[i] \in Kept
  OBVIOUS
<1>2. from \in Int /\ to \in Int /\ Len(list) \in Nat
  OBVIOUS
<1>3. s \in Seq(Kept) /\ Len(s) = Len(past) /\ \A i \in 1 .. to - from + 1 : s[i] = list[from + i - 1]
  BY <1>1, <1>2, SubSeqProperties
<1> HIDE DEF s
<1>4. DOMAIN s = 1 .. Len(past)
  BY <1>3
<1>5. \A i \in 1 .. Len(past) : s[i].text = past[i]
  <2>1. \A i \in 1 .. Len(past) : i \in 1 .. to - from + 1 /\ from + i - 1 = from - 1 + i
    BY <1>2
  <2>2. QED BY <1>3, <2>1
<1>6. past = [i \in 1 .. Len(past) |-> past[i]]
  OBVIOUS
<1>7. Texts(s) = [i \in 1 .. Len(past) |-> past[i]]
  BY <1>4, <1>5 DEF Texts
<1>8. QED BY <1>6, <1>7 DEF s

LEMMA HistoryFields ==
    ASSUME UndoTyped
    PROVE  /\ undo.list \in Seq(Kept) /\ undo.at \in Nat /\ undo.at <= Len(undo.list) /\ Len(undo.list) \in Nat
           /\ lineWas.past \in Seq(TypedText) /\ lineWas.future \in Seq(TypedText) /\ lineWas.inputs \in Nat
           /\ lineWas.overrun \in BOOLEAN /\ lineWas.torn \in BOOLEAN /\ lineWas.stale \in BOOLEAN
           /\ clipboard \in Seq(Byte)
BY DEF UndoTyped, History

\* The invariant makes the line sound.
LEMMA LineInvSound == LineInv => LineSound
<1>1. SUFFICES ASSUME LineInv PROVE LineSound
  OBVIOUS
<1>2. line \in Line
  BY <1>1 DEF LineInv, LineOK
<1>3. /\ undo.list \in Seq(Kept) /\ undo.at \in Nat /\ undo.at <= Len(undo.list) /\ Len(undo.list) \in Nat
      /\ lineWas.past \in Seq(TypedText) /\ lineWas.future \in Seq(TypedText) /\ clipboard \in Seq(Byte)
  BY <1>1, HistoryFields DEF LineInv
<1>4. LineTypeOK
  BY <1>2, <1>3, LineFields DEF LineTypeOK
<1>5. UndoKeepsTexts
  <2> DEFINE list == undo.list
             at == undo.at
             past == lineWas.past
             future == lineWas.future
  <2>1. SUFFICES ASSUME ~lineWas.overrun PROVE Texts(SubSeq(list, 1, at)) = past
                 /\ (at < Len(list) => list[at + 1].text = line.text) /\ Texts(SubSeq(list, at + 2, Len(list))) = future
    BY DEF UndoKeepsTexts
  <2>2. UndoTrue(list, at, past, future, line.text)
    BY <1>1, <2>1 DEF LineInv
  <2> HIDE DEF list, at, past, future
  <2>3. list \in Seq(Kept) /\ at \in Nat /\ at <= Len(list) /\ Len(list) \in Nat /\ past \in Seq(TypedText)
        /\ future \in Seq(TypedText) /\ Len(future) \in Nat
    BY <1>3 DEF list, at, past, future
  <2>4. Texts(SubSeq(list, 1, at)) = past
    <3>1. 1 \in 1 .. Len(list) + 1 /\ at \in 0 .. Len(list)
      BY <2>3
    <3>2. Len(past) = at /\ at = IF 1 <= at THEN at - 1 + 1 ELSE 0
      BY <2>2, <2>3 DEF UndoTrue
    <3>3. \A i \in 1 .. Len(past) : list[1 - 1 + i].text = past[i]
      <4>1. \A i \in 1 .. at : 1 - 1 + i = i
        BY <2>3
      <4>2. QED BY <2>2, <3>2, <4>1 DEF UndoTrue
    <3>4. QED BY <2>3, <3>1, <3>2, <3>3, TextsAre
  <2>5. at < Len(list) => list[at + 1].text = line.text
    BY <2>2 DEF UndoTrue
  <2>6. Texts(SubSeq(list, at + 2, Len(list))) = future
    <3>1. CASE at < Len(list)
      <4> DEFINE from == at + 2
                 to == Len(list)
      <4>1. from \in 1 .. Len(list) + 1 /\ to \in 0 .. Len(list)
        BY <2>3, <3>1
      <4>2. Len(future) = IF from <= to THEN to - from + 1 ELSE 0
        BY <2>2, <2>3, <3>1 DEF UndoTrue
      <4>3. \A i \in 1 .. Len(future) : list[from - 1 + i].text = future[i]
        <5>1. from - 1 = at + 1
          BY <2>3
        <5>2. QED BY <2>2, <5>1 DEF UndoTrue
      <4> HIDE DEF from, to
      <4>4. Texts(SubSeq(list, from, to)) = future
        BY <2>3, <4>1, <4>2, <4>3, TextsAre
      <4>5. QED BY <4>4 DEF from, to
    <3>2. CASE ~(at < Len(list))
      <4>1. Len(future) = 0
        BY <2>2, <3>2 DEF UndoTrue
      <4>2. future = <<>>
        BY <2>3, <4>1
      <4>3. SubSeq(list, at + 2, Len(list)) = <<>>
        <5>1. Len(list) < at + 2 /\ at + 2 \in Int /\ Len(list) \in Int
          BY <2>3, <3>2
        <5>2. QED BY <5>1, SubSeqEmpty
      <4>4. Texts(<<>>) = <<>>
        BY DEF Texts
      <4>5. QED BY <4>2, <4>3, <4>4
    <3>3. QED BY <3>1, <3>2
  <2>7. QED BY <2>4, <2>5, <2>6
<1>6. CursorInText
  BY <1>1 DEF LineInv, LineOK, CursorInText
<1>7. SelectionTrue
  <2>1. SUFFICES ASSUME Selecting(line), ~lineWas.stale, ~lineWas.torn
        PROVE  line.start \in 0 .. line.end - 1 /\ line.end <= CharCount(line.text)
               /\ line.cursor \in {line.start, line.end}
    BY DEF SelectionTrue
  <2>2. line.start \in Nat /\ line.end \in Nat
    BY <1>2, <2>1, LineFields DEF Selecting
  <2>3. line.start <= line.end /\ line.start # line.end
    BY <1>1, <2>1 DEF LineInv, LineOK, Selecting
  <2>4. line.end <= CharCount(line.text) /\ line.cursor \in {line.start, line.end}
    BY <1>1, <2>1 DEF LineInv, LineOK
  <2>5. QED BY <2>2, <2>3, <2>4
<1>8. CellsFit
  <2> DEFINE l == InView(line)
             cs == Chars(l.text)
  <2>1. l \in Line /\ CursorCell(l) \in 0 .. LineWidth - 1
    BY <1>2, InViewIs
  <2>2. l.text \in Seq(Byte) /\ l.view \in Nat
    BY <2>1, LineFields
  <2> HIDE DEF l
  <2>3. DOMAIN ShownAt(l) = 0 .. LineWidth - 1
    BY DEF ShownAt
  <2>4. ASSUME NEW cell \in 0 .. LineWidth - 1, NEW i \in ShownAt(l)[cell]
        PROVE  CharAt(l.text, l.view + cell) = i - 1
    <3>1. i \in DOMAIN cs /\ cell \in CellOf(cs, i - 1) - l.view .. CellOf(cs, i - 1) - l.view + CellsOf(cs[i]) - 1
      BY DEF ShownAt
    <3>2. cs \in Seq(Character) /\ i - 1 \in Nat
      BY <2>2, <3>1, CharsTyped
    <3>3. CellOf(cs, i - 1) \in Nat /\ CellsOf(cs[i]) \in Nat /\ cell \in Int
      BY <3>2, CellOfFacts, LineAssumption DEF CellsOf
    <3> HIDE DEF cs
    <3>4. l.view + cell \in CellOf(cs, i - 1) .. CellOf(cs, i - 1) + CellsOf(cs[i]) - 1 /\ l.view + cell \in Int
      BY <2>2, <3>1, <3>3
    <3>5. QED BY <2>2, <3>1, <3>4, CharAtIs DEF cs
  <2>5. QED BY <2>1, <2>3, <2>4 DEF CellsFit, l
<1>9. QED BY <1>4, <1>5, <1>6, <1>7, <1>8 DEF LineSound

\* An edit keeps the text before it for undo, and forgets the oldest one that no longer
\* fits.
LEMMA PushedKeeps ==
    ASSUME NEW list \in Seq(Kept), NEW at \in Nat, at <= Len(list), NEW past \in Seq(TypedText), NEW state \in Kept,
           NEW future, NEW text
    PROVE  LET kept == Append(SubSeq(list, 1, at), state)
               over == Len(kept) > HistorySize
               was == IF Len(past) = HistorySize THEN Append(Tail(past), state.text) ELSE Append(past, state.text)
               all == IF over THEN Tail(kept) ELSE kept
               now == IF over THEN at ELSE at + 1
           IN  /\ all \in Seq(Kept) /\ Len(all) = now
               /\ UndoTrue(list, at, past, future, text) =>
                      was \in Seq(TypedText) /\ \A new : UndoTrue(all, now, was, <<>>, new)
<1> DEFINE first == SubSeq(list, 1, at)
           kept == Append(first, state)
           over == Len(kept) > HistorySize
           was == IF Len(past) = HistorySize THEN Append(Tail(past), state.text) ELSE Append(past, state.text)
           all == IF over THEN Tail(kept) ELSE kept
           now == IF over THEN at ELSE at + 1
<1>1. first \in Seq(Kept) /\ Len(first) = at /\ \A i \in 1 .. at : first[i] = list[i]
  <2>1. \A i \in 1 .. at : list[i] \in Kept
    OBVIOUS
  <2>2. first \in Seq(Kept) /\ Len(first) = (IF 1 <= at THEN at - 1 + 1 ELSE 0)
        /\ \A i \in 1 .. at - 1 + 1 : first[i] = list[1 + i - 1]
    BY <2>1, SubSeqProperties
  <2>3. at - 1 + 1 = at /\ (IF 1 <= at THEN at - 1 + 1 ELSE 0) = at /\ \A i \in 1 .. at : 1 + i - 1 = i
    OBVIOUS
  <2>4. QED BY <2>2, <2>3
<1> HIDE DEF first
<1>2. /\ kept \in Seq(Kept) /\ kept # <<>> /\ Len(kept) = at + 1 /\ kept[at + 1] = state
      /\ \A i \in 1 .. at : kept[i] = list[i]
  BY <1>1, AppendProperties
<1> HIDE DEF kept
<1>3. /\ Tail(kept) \in Seq(Kept) /\ Len(Tail(kept)) = at
      /\ \A i \in 1 .. at : Tail(kept)[i] = kept[i + 1]
  BY <1>2, HeadTailProperties
<1>4. all \in Seq(Kept) /\ Len(all) = now
  BY <1>2, <1>3
<1>5. HistorySize \in Nat \ {0}
  BY LineAssumption
<1>6. ASSUME UndoTrue(list, at, past, future, text), NEW new
      PROVE  was \in Seq(TypedText) /\ UndoTrue(all, now, was, <<>>, new)
  <2>1. Len(past) = at /\ at <= HistorySize /\ \A i \in 1 .. at : list[i].text = past[i]
    BY <1>6 DEF UndoTrue
  <2>2. state.text \in TypedText
    BY DEF Kept
  <2>3. Len(<<>>) = 0
    OBVIOUS
  <2>4. CASE over
    <3>1. at = HistorySize
      BY <1>2, <1>5, <2>1, <2>4
    <3>2. past # <<>>
      BY <1>5, <2>1, <3>1
    <3> DEFINE tail == Tail(past)
    <3>3. tail \in Seq(TypedText) /\ Len(tail) = at - 1 /\ \A i \in 1 .. at - 1 : tail[i] = past[i + 1]
      BY <2>1, <3>2, HeadTailProperties
    <3> HIDE DEF tail
    <3>4. /\ was = Append(tail, state.text) /\ was \in Seq(TypedText) /\ Len(was) = at
          /\ was[at] = state.text /\ \A i \in 1 .. at - 1 : was[i] = tail[i]
      <4>1. was = Append(tail, state.text)
        BY <2>1, <3>1 DEF tail
      <4> DEFINE w == Append(tail, state.text)
      <4>2. w \in Seq(TypedText) /\ Len(w) = Len(tail) + 1 /\ w[Len(tail) + 1] = state.text
            /\ \A i \in 1 .. Len(tail) : w[i] = tail[i]
        BY <2>2, <3>3, AppendProperties
      <4> HIDE DEF w
      <4>3. Len(tail) + 1 = at /\ Len(tail) = at - 1
        BY <3>3
      <4>4. was = w
        BY <4>1 DEF w
      <4> HIDE DEF was
      <4>5. QED BY <4>1, <4>2, <4>3, <4>4
    <3>5. all = Tail(kept) /\ now = at
      BY <2>4
    <3> HIDE DEF was, all, now
    <3>6. \A i \in 1 .. at : all[i].text = was[i]
      <4>1. TAKE i \in 1 .. at
      <4>2. all[i] = kept[i + 1]
        BY <1>3, <3>5
      <4>3. CASE i = at
        BY <1>2, <3>4, <4>2, <4>3
      <4>4. CASE i # at
        <5>1. i \in 1 .. at - 1 /\ i + 1 \in 1 .. at
          BY <4>4
        <5>2. kept[i + 1] = list[i + 1] /\ list[i + 1].text = past[i + 1]
          BY <1>2, <2>1, <5>1
        <5>3. was[i] = past[i + 1]
          BY <3>3, <3>4, <5>1
        <5>4. QED BY <4>2, <5>2, <5>3
      <4>5. QED BY <4>3, <4>4
    <3>7. at <= HistorySize + 1 /\ ~(at < at)
      BY <1>5, <2>1
    <3>8. Len(all) = at
      BY <1>3, <3>5
    <3>9. UndoTrue(all, at, was, <<>>, new)
      BY <2>1, <2>3, <3>4, <3>6, <3>7, <3>8 DEF UndoTrue
    <3>10. QED BY <3>4, <3>5, <3>9
  <2>5. CASE ~over
    <3>1. at + 1 <= HistorySize /\ at # HistorySize
      BY <1>2, <1>5, <2>5
    <3>2. /\ was = Append(past, state.text) /\ was \in Seq(TypedText) /\ Len(was) = at + 1
          /\ was[at + 1] = state.text /\ \A i \in 1 .. at : was[i] = past[i]
      BY <2>1, <2>2, <3>1, AppendProperties
    <3>3. all = kept /\ now = at + 1
      BY <2>5
    <3> HIDE DEF was, all, now
    <3>4. \A i \in 1 .. at + 1 : all[i].text = was[i]
      <4>1. TAKE i \in 1 .. at + 1
      <4>2. CASE i = at + 1
        BY <1>2, <3>2, <3>3, <4>2
      <4>3. CASE i # at + 1
        <5>1. i \in 1 .. at
          BY <4>3
        <5>2. QED BY <1>2, <2>1, <3>2, <3>3, <5>1
      <4>4. QED BY <4>2, <4>3
    <3>5. at + 1 <= HistorySize + 1 /\ ~(at + 1 < at + 1)
      BY <1>5, <3>1
    <3>6. Len(all) = at + 1
      BY <1>2, <3>3
    <3>7. UndoTrue(all, at + 1, was, <<>>, new)
      BY <2>3, <3>1, <3>2, <3>4, <3>5, <3>6 DEF UndoTrue
    <3>8. QED BY <3>2, <3>3, <3>7
  <2>6. QED BY <2>4, <2>5
<1>7. QED BY <1>4, <1>6 DEF first, kept

LEMMA EditKeeps ==
    ASSUME LineInv, NEW new, Edit(new), LineOK(new, lineWas.torn \/ Torn(new.text), TRUE), clipboard' \in Seq(Byte)
    PROVE  LineInv'
<1> DEFINE list == undo.list
           at == undo.at
           past == lineWas.past
           state == LineState
           kept == Append(SubSeq(list, 1, at), state)
           over == Len(kept) > HistorySize
           was == IF Len(past) = HistorySize THEN Append(Tail(past), state.text) ELSE Append(past, state.text)
           all == IF over THEN Tail(kept) ELSE kept
           now == IF over THEN at ELSE at + 1
<1>1. UndoTyped /\ LineOK(line, lineWas.torn, lineWas.stale) /\ line \in Line
  BY DEF LineInv, LineOK
<1>2. /\ list \in Seq(Kept) /\ at \in Nat /\ at <= Len(list) /\ past \in Seq(TypedText) /\ lineWas.inputs \in Nat
      /\ lineWas.overrun \in BOOLEAN /\ lineWas.torn \in BOOLEAN
  BY <1>1, HistoryFields
<1>3. state \in Kept /\ state.text = line.text
  BY <1>1, LineFields DEF LineState, Kept, TypedText
<1>4. /\ line' = new /\ undo' = Pushed(undo)
      /\ lineWas' = [lineWas EXCEPT !.past = was, !.future = <<>>, !.inputs = @ + 1,
                                    !.torn = @ \/ Torn(new.text), !.stale = new.anchor # None0]
  BY <1>3 DEF Edit
<1>5. undo' = [list |-> all, at |-> now]
  <2>1. undo \in [list : Seq(Kept), at : Nat]
    BY <1>1 DEF UndoTyped
  <2>2. Pushed(undo) = IF over THEN [undo EXCEPT !.list = Tail(kept)] ELSE [list |-> kept, at |-> at + 1]
    BY DEF Pushed
  <2> HIDE DEF kept, over
  <2>3. [undo EXCEPT !.list = Tail(kept)] = [list |-> Tail(kept), at |-> at]
    <3>1. \A t : [undo EXCEPT !.list = t] = [list |-> t, at |-> undo.at]
      BY <2>1
    <3>2. QED BY <3>1
  <2>4. QED BY <1>4, <2>2, <2>3
<1>6. was \in Seq(TypedText)
  <2>1. \A t \in TypedText : Append(past, t) \in Seq(TypedText) /\ (past # <<>> => Append(Tail(past), t) \in Seq(TypedText))
    BY <1>2
  <2>2. Len(past) = HistorySize => past # <<>>
    <3>1. HistorySize # 0
      BY LineAssumption
    <3>2. QED BY <1>2, <3>1
  <2>3. state.text \in TypedText
    BY <1>3 DEF Kept
  <2>4. QED BY <2>1, <2>2, <2>3
<1>7. /\ all \in Seq(Kept) /\ Len(all) = now
      /\ UndoTrue(list, at, past, lineWas.future, line.text) => UndoTrue(all, now, was, <<>>, new.text)
  BY <1>2, <1>3, PushedKeeps
<1>8. now \in Nat
  BY <1>2
<1> HIDE DEF list, at, past, state, kept, over, was, all, now
<1>9. Torn(new.text) \in BOOLEAN /\ (new.anchor # None0) \in BOOLEAN
  BY DEF Torn
<1>10. /\ lineWas' \in History /\ lineWas'.past = was /\ lineWas'.future = <<>> /\ lineWas'.overrun = lineWas.overrun
       /\ lineWas'.torn = (lineWas.torn \/ Torn(new.text)) /\ lineWas'.stale = (new.anchor # None0)
  <2>1. lineWas \in History /\ <<>> \in Seq(TypedText) /\ lineWas.inputs + 1 \in Nat
    BY <1>1, <1>2 DEF UndoTyped
  <2> DEFINE torn == lineWas.torn \/ Torn(new.text)
             stale == new.anchor # None0
             inputs == lineWas.inputs + 1
             none == <<>>
  <2>2. torn \in BOOLEAN /\ stale \in BOOLEAN /\ inputs \in Nat /\ none \in Seq(TypedText)
    BY <1>9, <2>1
  <2>3. lineWas' = [lineWas EXCEPT !.past = was, !.future = none, !.inputs = inputs, !.torn = torn, !.stale = stale]
    BY <1>4
  <2> HIDE DEF torn, stale, inputs, none
  <2>4. /\ lineWas' \in History /\ lineWas'.past = was /\ lineWas'.future = none
        /\ lineWas'.overrun = lineWas.overrun /\ lineWas'.torn = torn /\ lineWas'.stale = stale
    BY <1>6, <2>1, <2>2, <2>3 DEF History
  <2>5. QED BY <2>4 DEF torn, stale, none
<1>11. UndoTyped'
  <2>1. undo' \in [list : Seq(Kept), at : Nat] /\ undo'.at <= Len(undo'.list)
    BY <1>5, <1>7, <1>8
  <2>2. QED BY <1>10, <2>1 DEF UndoTyped
<1>12. LineOK(new, lineWas'.torn, lineWas'.stale)
  <2>1. LineOK(new, lineWas.torn \/ Torn(new.text), new.anchor # None0)
    BY StaleOK
  <2>2. QED BY <1>10, <2>1
<1>13. ASSUME ~lineWas'.overrun
       PROVE  UndoTrue(undo'.list, undo'.at, lineWas'.past, lineWas'.future, line'.text)
  <2>1. UndoTrue(list, at, past, lineWas.future, line.text)
    BY <1>10, <1>13 DEF LineInv, list, at, past
  <2>2. QED BY <1>4, <1>5, <1>7, <1>10, <2>1
<1>14. QED BY <1>4, <1>11, <1>12, <1>13 DEF LineInv

\* What moves the cursor or selects leaves the text and its history.
LEMMA MovesKeeps ==
    ASSUME LineInv, NEW new, NEW stale \in BOOLEAN, line' = new, UNCHANGED <<undo, clipboard>>,
           new.text = line.text, LineOK(new, lineWas.torn, stale),
           lineWas' = [lineWas EXCEPT !.stale = stale, !.inputs = @ + 1]
    PROVE  LineInv'
<1>1. lineWas \in History /\ lineWas.inputs + 1 \in Nat
  BY HistoryFields DEF LineInv, UndoTyped
<1> DEFINE inputs == lineWas.inputs + 1
<1>2. inputs \in Nat /\ lineWas' = [lineWas EXCEPT !.stale = stale, !.inputs = inputs]
  BY <1>1
<1> HIDE DEF inputs
<1>3. /\ lineWas' \in History /\ lineWas'.past = lineWas.past /\ lineWas'.future = lineWas.future
      /\ lineWas'.overrun = lineWas.overrun /\ lineWas'.torn = lineWas.torn /\ lineWas'.stale = stale
  BY <1>1, <1>2 DEF History
<1>4. undo' = undo /\ clipboard' = clipboard
  OBVIOUS
<1>5. UndoTyped'
  BY <1>3, <1>4 DEF LineInv, UndoTyped
<1>6. ~lineWas'.overrun => UndoTrue(undo'.list, undo'.at, lineWas'.past, lineWas'.future, line'.text)
  BY <1>3, <1>4 DEF LineInv
<1>7. LineOK(line', lineWas'.torn, lineWas'.stale)
  BY <1>3
<1>8. QED BY <1>5, <1>6, <1>7 DEF LineInv

LEMMA LineNow ==
    ASSUME LineInv
    PROVE  /\ line \in Line /\ LineOK(line, lineWas.torn, lineWas.stale) /\ clipboard \in Seq(Byte)
           /\ lineWas.torn \in BOOLEAN /\ lineWas.stale \in BOOLEAN
BY HistoryFields DEF LineInv, LineOK

LEMMA TypeByteKeeps ==
    ASSUME LineInv, NEW b \in KeyByte, TypeByte(b)
    PROVE  LineInv'
<1> DEFINE l == Deleted(line)
           n == Inserted(l.text, ByteAt(l.text, l.cursor), <<b>>)
           m == [l EXCEPT !.text = n, !.cursor = l.cursor + 1]
           new == InView(Unselected(m))
           torn == lineWas.torn \/ Torn(n)
<1>1. line \in Line /\ LineOK(line, lineWas.torn, lineWas.stale) /\ clipboard \in Seq(Byte)
  BY LineNow
<1>2. LineOK(l, lineWas.torn, lineWas.stale)
  BY <1>1, DeletedOK
<1>3. Edit(InView(Unselected([l EXCEPT !.text = Inserted(@, ByteAt(l.text, l.cursor), <<b>>), !.cursor = @ + 1])))
      /\ clipboard' = clipboard
  BY DEF TypeByte
<1>4. Edit(new)
  BY <1>3
<1> HIDE DEF l
<1>5. l \in Line
  BY <1>2 DEF LineOK
<1>6. /\ l.text \in Seq(Typeable) /\ l.text \in Seq(Byte) /\ l.cursor \in Nat /\ CharCount(l.text) \in Nat
  BY <1>5, LineFields
<1>7. b \in Typeable /\ b \in Byte /\ <<b>> \in Seq(Typeable)
  BY LineAssumption DEF Byte
<1>8. n \in Seq(Typeable)
  <2>1. ByteAt(l.text, l.cursor) \in 0 .. Len(l.text)
    BY <1>6, ByteAtTyped
  <2>2. QED BY <1>6, <1>7, <2>1, InsertedTyped
<1>9. ~torn => l.cursor + 1 <= CharCount(n)
  <2>1. ~torn => l.cursor \in 0 .. CharCount(l.text)
    BY <1>2, <1>6 DEF LineOK
  <2>2. QED BY <1>6, <1>7, <2>1, TypedCount
<1> HIDE DEF n
<1>10. m \in Line /\ m.text = n /\ m.cursor = l.cursor + 1
  <2> DEFINE c == l.cursor + 1
  <2>1. c \in Nat
    BY <1>6
  <2> HIDE DEF c
  <2>2. [l EXCEPT !.text = n, !.cursor = c] \in Line /\ [l EXCEPT !.text = n, !.cursor = c].text = n
        /\ [l EXCEPT !.text = n, !.cursor = c].cursor = c
    BY <1>5, <1>8, <2>1 DEF Line
  <2>3. QED BY <2>2 DEF c
<1> HIDE DEF m, torn
<1>11. LineOK(Unselected(m), torn, TRUE) /\ Unselected(m).text = n
  BY <1>9, <1>10, UnselectedOK
<1>12. LineOK(new, torn, TRUE) /\ new.text = n
  <2>1. Unselected(m) \in Line
    BY <1>11 DEF LineOK
  <2>2. QED BY <1>11, <2>1, InViewOK, InViewIs
<1> HIDE DEF new
<1>13. LineOK(new, lineWas.torn \/ Torn(new.text), TRUE)
  BY <1>12 DEF torn
<1>14. clipboard' \in Seq(Byte)
  BY <1>1, <1>3
<1>15. QED BY <1>4, <1>13, <1>14, EditKeeps

\* What is deleted, put in or left as it was, and drawn.
LEMMA DrawnEditKeeps ==
    ASSUME LineInv, NEW l, NEW stale, LineOK(l, lineWas.torn, stale), clipboard' \in Seq(Byte),
           Edit(InView(l)) \/ Edit(l)
    PROVE  LineInv'
<1>1. LineOK(InView(l), lineWas.torn, stale)
  BY InViewOK
<1> DEFINE m == InView(l)
<1> HIDE DEF m
<1>2. LineOK(l, lineWas.torn \/ Torn(l.text), TRUE)
  BY DEF LineOK
<1>3. LineOK(m, lineWas.torn \/ Torn(m.text), TRUE)
  BY <1>1 DEF m, LineOK
<1>4. CASE Edit(m)
  BY <1>3, <1>4, EditKeeps
<1>5. CASE Edit(l)
  BY <1>2, <1>5, EditKeeps
<1>6. QED BY <1>4, <1>5 DEF m

\* Without a selection, one character goes.
LEMMA OneCutOK ==
    ASSUME NEW l, NEW torn, NEW stale, LineOK(l, torn, stale), ~Selecting(l), NEW k \in Nat, NEW to \in Nat,
           k <= l.cursor
    PROVE  LineOK([l EXCEPT !.text = Cut(l.text, ByteAt(l.text, k), ByteAt(l.text, to)), !.cursor = k], torn, TRUE)
<1> DEFINE t == l.text
           n == Cut(t, ByteAt(t, k), ByteAt(t, to))
           m == [l EXCEPT !.text = n, !.cursor = k]
<1>1. l \in Line
  BY DEF LineOK
<1>2. t \in Seq(Typeable) /\ t \in Seq(Byte) /\ CharCount(t) \in Nat /\ l.cursor \in Nat
  BY <1>1, LineFields
<1>3. ByteAt(t, k) \in 0 .. Len(t) /\ ByteAt(t, to) \in 0 .. Len(t)
  BY <1>2, ByteAtTyped
<1>4. n \in Seq(Typeable)
  BY <1>2, <1>3, CutTyped
<1>5. ~torn => k <= CharCount(n)
  <2>1. ~torn => k \in 0 .. CharCount(t)
    BY <1>2 DEF LineOK
  <2>2. QED BY <1>2, <1>3, <2>1, CutCount
<1> HIDE DEF n
<1>6. /\ m \in Line /\ m.text = n /\ m.cursor = k /\ m.start = l.start
      /\ m.end = l.end /\ m.anchor = l.anchor /\ m.down = l.down
  BY <1>1, <1>4 DEF Line
<1> HIDE DEF m
<1>7. LineOK(m, torn, TRUE)
  BY <1>5, <1>6 DEF LineOK, Selecting
<1>8. QED BY <1>7 DEF m, n

LEMMA BackspaceKeeps ==
    ASSUME LineInv, Backspace
    PROVE  LineInv'
<1> DEFINE one == [line EXCEPT !.text = Cut(line.text, ByteAt(line.text, line.cursor - 1), ByteAt(line.text, line.cursor)),
                               !.cursor = line.cursor - 1]
           l == IF Selecting(line) THEN Deleted(line)
                ELSE IF line.text # <<>> /\ line.cursor > 0 THEN one ELSE line
<1>1. line \in Line /\ LineOK(line, lineWas.torn, lineWas.stale) /\ clipboard \in Seq(Byte)
  BY LineNow
<1>2. Edit(InView(l)) /\ clipboard' = clipboard
  BY DEF Backspace
<1>3. LineOK(Deleted(line), lineWas.torn, TRUE) /\ LineOK(line, lineWas.torn, TRUE)
  BY <1>1, DeletedOK DEF LineOK
<1>4. ~Selecting(line) /\ line.cursor > 0 => LineOK(one, lineWas.torn, TRUE)
  <2>1. line.cursor \in Nat
    BY <1>1, LineFields
  <2>2. line.cursor > 0 => line.cursor - 1 \in Nat /\ line.cursor - 1 <= line.cursor
    BY <2>1
  <2>3. QED BY <1>1, <2>1, <2>2, OneCutOK
<1> HIDE DEF one
<1>5. LineOK(l, lineWas.torn, TRUE)
  BY <1>3, <1>4
<1> HIDE DEF l
<1>6. clipboard' \in Seq(Byte)
  BY <1>1, <1>2
<1>7. QED BY <1>2, <1>5, <1>6, DrawnEditKeeps

LEMMA DeleteKeyKeeps ==
    ASSUME LineInv, DeleteKey
    PROVE  LineInv'
<1> DEFINE n == Cut(line.text, ByteAt(line.text, line.cursor), ByteAt(line.text, line.cursor + 1))
           one == [line EXCEPT !.text = n]
           l == IF Selecting(line) THEN Deleted(line)
                ELSE IF line.cursor < CharCount(line.text) THEN one ELSE line
<1>1. line \in Line /\ LineOK(line, lineWas.torn, lineWas.stale) /\ clipboard \in Seq(Byte)
  BY LineNow
<1>2. Edit(InView(l)) /\ clipboard' = clipboard
  BY DEF DeleteKey
<1>3. LineOK(Deleted(line), lineWas.torn, TRUE) /\ LineOK(line, lineWas.torn, TRUE)
  BY <1>1, DeletedOK DEF LineOK
<1>4. ~Selecting(line) => LineOK(one, lineWas.torn, TRUE)
  <2>1. line.cursor \in Nat /\ line.cursor + 1 \in Nat /\ line.cursor <= line.cursor
    BY <1>1, LineFields
  <2>2. ~Selecting(line) => LineOK([line EXCEPT !.text = n, !.cursor = line.cursor], lineWas.torn, TRUE)
    BY <1>1, <2>1, OneCutOK
  <2> HIDE DEF n
  <2>3. [line EXCEPT !.text = n, !.cursor = line.cursor] = one
    BY <1>1 DEF Line
  <2>4. QED BY <2>2, <2>3
<1> HIDE DEF one
<1>5. LineOK(l, lineWas.torn, TRUE)
  BY <1>3, <1>4
<1> HIDE DEF l
<1>6. clipboard' \in Seq(Byte)
  BY <1>1, <1>2
<1>7. QED BY <1>2, <1>5, <1>6, DrawnEditKeeps

LEMMA CopiedTyped ==
    ASSUME LineInv, Selecting(line)
    PROVE  Copied \in Seq(Byte)
<1> DEFINE t == line.text
           from == ByteAt(t, line.start)
           to == ByteAt(t, line.end)
<1>1. line \in Line /\ clipboard \in Seq(Byte)
  BY LineNow
<1>2. t \in Seq(Byte) /\ line.start \in Nat /\ line.end \in Nat
  BY <1>1, LineFields DEF Selecting
<1>3. from \in 0 .. Len(t) /\ to \in 0 .. Len(t)
  BY <1>2, ByteAtTyped
<1>4. SubSeq(t, from + 1, to) \in Seq(Byte)
  <2> HIDE DEF from, to
  <2>1. \A i \in from + 1 .. to : t[i] \in Byte
    BY <1>2, <1>3
  <2>2. from + 1 \in Int /\ to \in Int
    BY <1>3
  <2>3. QED BY <2>1, <2>2, SubSeqProperties
<1>5. QED BY <1>1, <1>4 DEF Copied

LEMMA CopyKeyKeeps ==
    ASSUME LineInv, CopyKey
    PROVE  LineInv'
<1>1. Selecting(line) /\ clipboard' = Copied /\ line' = line /\ undo' = undo
      /\ lineWas' = [lineWas EXCEPT !.inputs = @ + 1]
  BY DEF CopyKey
<1>2. clipboard' \in Seq(Byte)
  BY <1>1, CopiedTyped
<1>3. lineWas \in History /\ lineWas.inputs + 1 \in Nat
  BY HistoryFields DEF LineInv, UndoTyped
<1>4. /\ lineWas' \in History /\ lineWas'.past = lineWas.past /\ lineWas'.future = lineWas.future
      /\ lineWas'.overrun = lineWas.overrun /\ lineWas'.torn = lineWas.torn /\ lineWas'.stale = lineWas.stale
  BY <1>1, <1>3 DEF History
<1>5. QED BY <1>1, <1>2, <1>4 DEF LineInv, UndoTyped

LEMMA CutKeyKeeps ==
    ASSUME LineInv, CutKey
    PROVE  LineInv'
<1>1. Selecting(line) /\ clipboard' = Copied /\ Edit(InView(Deleted(line)))
  BY DEF CutKey
<1>2. clipboard' \in Seq(Byte)
  BY <1>1, CopiedTyped
<1>3. LineOK(Deleted(line), lineWas.torn, lineWas.stale)
  BY LineNow, DeletedOK
<1>4. QED BY <1>1, <1>2, <1>3, DrawnEditKeeps

LEMMA PasteKeyKeeps ==
    ASSUME LineInv, PasteKey
    PROVE  LineInv'
<1> DEFINE l == Deleted(line)
<1>1. LineOK(l, lineWas.torn, lineWas.stale) /\ clipboard \in Seq(Byte)
  BY LineNow, DeletedOK
<1>2. PICK text \in PasteText \cup {clipboard} :
          Edit(IF TextOf(FlattenSeq(Chars(text))) = <<>> THEN l ELSE InView(Put(l, TextOf(FlattenSeq(Chars(text))))))
  BY DEF PasteKey
<1>3. clipboard' = clipboard
  BY DEF PasteKey
<1> DEFINE filtered == TextOf(FlattenSeq(Chars(text)))
<1>4. filtered \in Seq(Typeable)
  <2>1. text \in Seq(Byte)
    BY <1>1, LineAssumption
  <2>2. QED BY <2>1, FlattenedTyped, TextOfTyped
<1> HIDE DEF l, filtered
<1>5. LineOK(Put(l, filtered), lineWas.torn, TRUE)
  BY <1>1, <1>4, PutOK
<1>6. CASE filtered = <<>>
  <2>1. Edit(l)
    BY <1>2, <1>6 DEF filtered
  <2>2. QED BY <1>1, <1>3, <2>1, DrawnEditKeeps
<1>7. CASE filtered # <<>>
  <2>1. Edit(InView(Put(l, filtered)))
    BY <1>2, <1>7 DEF filtered
  <2>2. QED BY <1>1, <1>3, <1>5, <2>1, DrawnEditKeeps
<1>8. QED BY <1>6, <1>7

LEMMA TerminalPasteKeeps ==
    ASSUME LineInv, TerminalPaste
    PROVE  LineInv'
<1> DEFINE l == Deleted(line)
<1>1. LineOK(l, lineWas.torn, lineWas.stale) /\ clipboard \in Seq(Byte)
  BY LineNow, DeletedOK
<1>2. PICK text \in PasteText : Edit(InView(Unselected(Put(l, TextOf(text)))))
  BY DEF TerminalPaste
<1>3. clipboard' = clipboard
  BY DEF TerminalPaste
<1> DEFINE m == Put(l, TextOf(text))
<1>4. LineOK(m, lineWas.torn, TRUE)
  <2>1. text \in Seq(Byte)
    BY LineAssumption
  <2>2. QED BY <1>1, <2>1, TextOfTyped, PutOK
<1>5. Edit(InView(Unselected(m)))
  BY <1>2
<1> HIDE DEF m
<1>6. m \in Line /\ (~lineWas.torn => m.cursor <= CharCount(m.text))
  BY <1>4 DEF LineOK
<1>7. LineOK(Unselected(m), lineWas.torn, TRUE)
  BY <1>6, UnselectedOK
<1>8. QED BY <1>1, <1>3, <1>5, <1>7, DrawnEditKeeps

LEMMA RestoredOK ==
    ASSUME line \in Line, NEW state \in Kept, NEW torn, NEW stale
    PROVE  LineOK(Restored(state), torn, stale) /\ Restored(state).text = state.text
<1> DEFINE c == Min({state.cursor, CharCount(state.text)})
           m == [line EXCEPT !.text = state.text, !.cursor = c]
<1>1. state.text \in Seq(Typeable) /\ state.cursor \in Nat
  BY DEF Kept, TypedText
<1>2. CharCount(state.text) \in Nat
  BY <1>1, TypeableBytes, CharsTyped
<1>3. c \in Nat /\ c <= CharCount(state.text)
  <2>1. c = IF state.cursor <= CharCount(state.text) THEN state.cursor ELSE CharCount(state.text)
    BY <1>1, <1>2, MinOfTwo
  <2>2. QED BY <1>1, <1>2, <2>1
<1>4. Restored(state) = InView(Unselected(m))
  BY DEF Restored
<1> HIDE DEF c
<1>5. m \in Line /\ m.text = state.text /\ m.cursor = c
  BY <1>1, <1>3 DEF Line
<1> HIDE DEF m
<1>6. LineOK(Unselected(m), torn, stale) /\ Unselected(m).text = state.text
  BY <1>3, <1>5, UnselectedOK
<1>7. Unselected(m) \in Line
  BY <1>6 DEF LineOK
<1>8. QED BY <1>4, <1>6, <1>7, InViewOK, InViewIs

\* What is undone can be redone, and what is left can be undone.
LEMMA UndoSteps ==
    ASSUME NEW list \in Seq(Kept), NEW at \in Nat, at > 0, at <= Len(list), NEW past \in Seq(TypedText),
           NEW future \in Seq(TypedText), NEW now \in Kept, UndoTrue(list, at, past, future, now.text)
    PROVE  LET all == IF at = Len(list) THEN Append(list, now) ELSE list
           IN  /\ past # <<>>
               /\ UndoTrue(all, at - 1, Front(past), <<now.text>> \o future, all[at].text)
<1> DEFINE all == IF at = Len(list) THEN Append(list, now) ELSE list
           front == Front(past)
           one == <<now.text>>
           ahead == one \o future
<1>1. /\ at <= HistorySize /\ Len(list) <= HistorySize + 1 /\ Len(past) = at
      /\ \A i \in 1 .. at : list[i].text = past[i]
      /\ at < Len(list) => list[at + 1].text = now.text
      /\ Len(future) = IF at < Len(list) THEN Len(list) - at - 1 ELSE 0
      /\ \A i \in 1 .. Len(future) : list[at + 1 + i].text = future[i]
  BY DEF UndoTrue
<1>2. HistorySize \in Nat \ {0} /\ Len(list) \in Nat /\ Len(future) \in Nat /\ now.text \in TypedText
  BY LineAssumption DEF Kept
<1>3. past # <<>>
  BY <1>1
<1>4. Len(front) = at - 1 /\ \A i \in 1 .. at - 1 : front[i] = past[i]
  <2>1. \A i \in 1 .. at - 1 : past[i] \in TypedText
    BY <1>1
  <2>2. 1 \in Int /\ at - 1 \in Int
    OBVIOUS
  <2>3. front = SubSeq(past, 1, at - 1)
    BY <1>1 DEF Front
  <2>4. Len(front) = (IF 1 <= at - 1 THEN at - 1 - 1 + 1 ELSE 0) /\ \A i \in 1 .. at - 1 - 1 + 1 : front[i] = past[1 + i - 1]
    BY <2>1, <2>2, <2>3, SubSeqProperties
  <2>5. (IF 1 <= at - 1 THEN at - 1 - 1 + 1 ELSE 0) = at - 1 /\ at - 1 - 1 + 1 = at - 1 /\ \A i \in 1 .. at - 1 : 1 + i - 1 = i
    OBVIOUS
  <2>6. QED BY <2>4, <2>5
<1>5. /\ Len(ahead) = 1 + Len(future) /\ ahead[1] = now.text
      /\ \A i \in 1 .. Len(future) : ahead[1 + i] = future[i]
  <2>1. one \in Seq(TypedText) /\ Len(one) = 1 /\ one[1] = now.text
    BY <1>2
  <2> HIDE DEF one
  <2>2. /\ Len(ahead) = Len(one) + Len(future)
        /\ \A i \in 1 .. Len(one) + Len(future) : ahead[i] = IF i <= Len(one) THEN one[i] ELSE future[i - Len(one)]
    BY <2>1, ConcatProperties
  <2>3. 1 \in 1 .. 1 + Len(future) /\ \A i \in 1 .. Len(future) : 1 + i \in 1 .. 1 + Len(future) /\ ~(1 + i <= 1) /\ (1 + i) - 1 = i
    BY <1>2
  <2> HIDE DEF ahead
  <2>4. QED BY <2>1, <2>2, <2>3
<1> HIDE DEF front, one, ahead
<1>6. /\ all \in Seq(Kept) /\ Len(all) = (IF at = Len(list) THEN at + 1 ELSE Len(list))
      /\ \A i \in 1 .. Len(list) : all[i] = list[i]
      /\ all[at + 1].text = now.text
  <2>1. CASE at = Len(list)
    BY <1>2, <2>1, AppendProperties
  <2>2. CASE at # Len(list)
    BY <1>1, <1>2, <2>2
  <2>3. QED BY <2>1, <2>2
<1> HIDE DEF all
<1>7. at - 1 <= HistorySize /\ Len(all) <= HistorySize + 1 /\ at - 1 < Len(all) /\ (at - 1) + 1 = at
  BY <1>1, <1>2, <1>6
<1>8. \A i \in 1 .. at - 1 : all[i].text = front[i]
  <2>1. \A i \in 1 .. at - 1 : i \in 1 .. Len(list) /\ i \in 1 .. at
    BY <1>2
  <2>2. QED BY <1>1, <1>4, <1>6, <2>1
<1>9. Len(ahead) = Len(all) - (at - 1) - 1
  BY <1>1, <1>2, <1>5, <1>6
<1>10. \A i \in 1 .. Len(ahead) : all[at + i].text = ahead[i]
  <2>1. TAKE i \in 1 .. Len(ahead)
  <2>2. CASE i = 1
    BY <1>5, <1>6, <2>2
  <2>3. CASE i # 1
    <3>1. i - 1 \in 1 .. Len(future) /\ 1 + (i - 1) = i /\ at + 1 + (i - 1) = at + i
      BY <1>2, <1>5, <2>3
    <3>2. ahead[i] = future[i - 1] /\ list[at + i].text = future[i - 1]
      BY <1>1, <1>5, <3>1
    <3>3. at + i \in 1 .. Len(list)
      BY <1>1, <1>2, <3>1
    <3>4. QED BY <1>6, <3>2, <3>3
  <2>4. QED BY <2>2, <2>3
<1>11. UndoTrue(all, at - 1, front, ahead, all[at].text)
  <2>1. \A i \in 1 .. Len(ahead) : all[(at - 1) + 1 + i].text = ahead[i]
    BY <1>7, <1>10
  <2>2. all[(at - 1) + 1].text = all[at].text
    BY <1>7
  <2>3. QED BY <1>4, <1>7, <1>8, <1>9, <2>1, <2>2 DEF UndoTrue
<1>12. QED BY <1>3, <1>11 DEF all, front, one, ahead

LEMMA RestoreKeeps ==
    ASSUME LineInv, NEW state \in Kept, line' = Restored(state), NEW list \in Seq(Kept), NEW at \in Nat,
           at <= Len(list), undo' = [list |-> list, at |-> at], UNCHANGED clipboard,
           NEW past \in Seq(TypedText), NEW future \in Seq(TypedText),
           lineWas' = [lineWas EXCEPT !.past = past, !.future = future, !.inputs = @ + 1, !.stale = FALSE],
           ~lineWas.overrun => UndoTrue(list, at, past, future, state.text)
    PROVE  LineInv'
<1>1. lineWas \in History /\ lineWas.inputs + 1 \in Nat /\ line \in Line
  BY HistoryFields, LineNow DEF LineInv, UndoTyped
<1> DEFINE inputs == lineWas.inputs + 1
<1>2. lineWas' = [lineWas EXCEPT !.past = past, !.future = future, !.inputs = inputs, !.stale = FALSE] /\ inputs \in Nat
  BY <1>1
<1> HIDE DEF inputs
<1>3. /\ lineWas' \in History /\ lineWas'.past = past /\ lineWas'.future = future
      /\ lineWas'.overrun = lineWas.overrun /\ lineWas'.torn = lineWas.torn /\ lineWas'.stale = FALSE
  BY <1>1, <1>2 DEF History
<1>4. LineOK(line', lineWas'.torn, lineWas'.stale) /\ line'.text = state.text
  BY <1>1, <1>3, RestoredOK
<1>5. undo' \in [list : Seq(Kept), at : Nat] /\ undo'.at <= Len(undo'.list) /\ undo'.list = list /\ undo'.at = at
  OBVIOUS
<1>6. clipboard' \in Seq(Byte)
  BY LineNow
<1>7. UndoTyped'
  BY <1>3, <1>5, <1>6 DEF UndoTyped
<1>8. QED BY <1>3, <1>4, <1>5, <1>7 DEF LineInv

LEMMA UndoKeyKeeps ==
    ASSUME LineInv, UndoKey
    PROVE  LineInv'
<1> DEFINE now == LineState
           list == undo.list
           at == undo.at
           all == IF at = Len(list) THEN Append(list, now) ELSE list
           past == IF lineWas.past = <<>> THEN lineWas.past ELSE Front(lineWas.past)
           future == <<line.text>> \o lineWas.future
<1>1. /\ list \in Seq(Kept) /\ at \in Nat /\ at <= Len(list) /\ Len(list) \in Nat /\ lineWas.past \in Seq(TypedText)
      /\ lineWas.future \in Seq(TypedText) /\ at > 0
  BY HistoryFields DEF LineInv, UndoKey
<1>2. now \in Kept /\ now.text = line.text /\ line.text \in TypedText
  BY LineNow, LineFields DEF LineState, Kept, TypedText
<1>3. /\ undo' = [list |-> all, at |-> at - 1] /\ line' = Restored(all[at]) /\ UNCHANGED clipboard
      /\ lineWas' = [lineWas EXCEPT !.past = past, !.future = future, !.inputs = @ + 1, !.stale = FALSE]
  <2>1. lineWas' = [lineWas EXCEPT !.future = future, !.inputs = @ + 1, !.stale = FALSE, !.past = past]
    BY DEF UndoKey
  <2>2. lineWas \in History
    BY DEF LineInv, UndoTyped
  <2> HIDE DEF past, future
  <2>3. lineWas' = [lineWas EXCEPT !.past = past, !.future = future, !.inputs = @ + 1, !.stale = FALSE]
    BY <2>1, <2>2 DEF History
  <2>4. QED BY <2>3 DEF UndoKey, all
<1>4. all \in Seq(Kept) /\ at - 1 \in Nat /\ at - 1 <= Len(all) /\ all[at] \in Kept
  <2> HIDE DEF list, at, now
  <2>1. CASE at = Len(list)
    <3>1. Append(list, now) \in Seq(Kept) /\ Len(Append(list, now)) = Len(list) + 1
      BY <1>1, <1>2, AppendProperties
    <3>2. all = Append(list, now) /\ at \in 1 .. Len(all)
      BY <1>1, <2>1, <3>1
    <3>3. QED BY <1>1, <3>1, <3>2
  <2>2. CASE at # Len(list)
    BY <1>1, <2>2
  <2>3. QED BY <2>1, <2>2
<1>5. past \in Seq(TypedText) /\ future \in Seq(TypedText)
  <2>1. lineWas.past # <<>> => Front(lineWas.past) \in Seq(TypedText)
    BY <1>1 DEF Front
  <2>2. <<line.text>> \in Seq(TypedText)
    BY <1>2
  <2>3. QED BY <1>1, <2>1, <2>2
<1>6. ASSUME ~lineWas.overrun PROVE UndoTrue(all, at - 1, past, future, all[at].text)
  <2>1. UndoTrue(list, at, lineWas.past, lineWas.future, now.text)
    BY <1>2, <1>6 DEF LineInv
  <2> HIDE DEF list, at, now
  <2>2. /\ lineWas.past # <<>>
        /\ UndoTrue(all, at - 1, Front(lineWas.past), <<now.text>> \o lineWas.future, all[at].text)
    BY <1>1, <1>2, <2>1, UndoSteps
  <2>3. QED BY <1>2, <2>2
<1> HIDE DEF all, at, past, future
<1>7. QED BY <1>3, <1>4, <1>5, <1>6, RestoreKeeps

LEMMA RedoSteps ==
    ASSUME NEW list \in Seq(Kept), NEW at \in Nat, at + 2 <= Len(list), NEW past \in Seq(TypedText),
           NEW future \in Seq(TypedText), NEW text \in TypedText, UndoTrue(list, at, past, future, text)
    PROVE  /\ future # <<>>
           /\ UndoTrue(list, at + 1, Append(past, text), Tail(future), list[at + 2].text)
<1> DEFINE more == Append(past, text)
           rest == Tail(future)
<1>1. /\ at <= HistorySize /\ Len(list) <= HistorySize + 1 /\ Len(past) = at
      /\ \A i \in 1 .. at : list[i].text = past[i]
      /\ at < Len(list) => list[at + 1].text = text
      /\ Len(future) = IF at < Len(list) THEN Len(list) - at - 1 ELSE 0
      /\ \A i \in 1 .. Len(future) : list[at + 1 + i].text = future[i]
  BY DEF UndoTrue
<1>2. HistorySize \in Nat \ {0} /\ Len(list) \in Nat /\ Len(future) \in Nat /\ Len(future) = Len(list) - at - 1
  BY <1>1, LineAssumption
<1>3. future # <<>>
  BY <1>2
<1>4. /\ Len(more) = at + 1 /\ more[at + 1] = text /\ \A i \in 1 .. at : more[i] = past[i]
  BY <1>1, AppendProperties
<1>5. Len(rest) = Len(future) - 1 /\ \A i \in 1 .. Len(future) - 1 : rest[i] = future[i + 1]
  BY <1>3, HeadTailProperties
<1> HIDE DEF more, rest
<1>6. \A i \in 1 .. at + 1 : list[i].text = more[i]
  <2>1. TAKE i \in 1 .. at + 1
  <2>2. CASE i = at + 1
    BY <1>1, <1>2, <1>4, <2>2
  <2>3. CASE i # at + 1
    <3>1. i \in 1 .. at
      BY <2>3
    <3>2. QED BY <1>1, <1>4, <3>1
  <2>4. QED BY <2>2, <2>3
<1>7. \A i \in 1 .. Len(rest) : list[at + 2 + i].text = rest[i]
  <2>1. TAKE i \in 1 .. Len(rest)
  <2>2. i \in 1 .. Len(future) - 1 /\ i + 1 \in 1 .. Len(future) /\ at + 1 + (i + 1) = at + 2 + i
    BY <1>2, <1>5
  <2>3. QED BY <1>1, <1>5, <2>2
<1>8. /\ at + 1 <= HistorySize /\ at + 1 + 1 = at + 2
      /\ Len(rest) = IF at + 1 < Len(list) THEN Len(list) - (at + 1) - 1 ELSE 0
  BY <1>1, <1>2, <1>5
<1>9. UndoTrue(list, at + 1, more, rest, list[at + 2].text)
  BY <1>1, <1>4, <1>6, <1>7, <1>8 DEF UndoTrue
<1>10. QED BY <1>3, <1>9 DEF more, rest

LEMMA RedoKeyKeeps ==
    ASSUME LineInv, RedoKey
    PROVE  LineInv'
<1> DEFINE list == undo.list
           at == undo.at
           past == Append(lineWas.past, line.text)
           future == IF lineWas.future = <<>> THEN lineWas.future ELSE Tail(lineWas.future)
<1>1. /\ list \in Seq(Kept) /\ at \in Nat /\ at < Len(list) /\ Len(list) \in Nat /\ lineWas.past \in Seq(TypedText)
      /\ lineWas.future \in Seq(TypedText)
  BY HistoryFields DEF LineInv, RedoKey
<1>2. line.text \in TypedText
  BY LineNow, LineFields DEF TypedText
<1>3. undo' = [list |-> list, at |-> at + 1]
  <2>1. undo' = [undo EXCEPT !.at = @ + 1] /\ undo \in [list : Seq(Kept), at : Nat]
    BY DEF RedoKey, LineInv, UndoTyped
  <2>2. QED BY <2>1
<1>4. CASE at + 2 <= Len(list)
  <2>1. line' = Restored(list[at + 2]) /\ UNCHANGED clipboard
    BY <1>4 DEF RedoKey
  <2>2. lineWas' = [lineWas EXCEPT !.past = past, !.future = future, !.inputs = @ + 1, !.stale = FALSE]
    <3>1. lineWas' = [lineWas EXCEPT !.past = past, !.inputs = @ + 1, !.stale = FALSE, !.future = future]
      BY <1>4 DEF RedoKey
    <3>2. lineWas \in History
      BY DEF LineInv, UndoTyped
    <3> HIDE DEF past, future
    <3>3. QED BY <3>1, <3>2 DEF History
  <2>3. past \in Seq(TypedText) /\ future \in Seq(TypedText)
    BY <1>1, <1>2
  <2>4. list[at + 2] \in Kept
    <3>1. at + 2 \in 1 .. Len(list)
      BY <1>1, <1>4
    <3>2. QED BY <1>1, <3>1
  <2>5. ASSUME ~lineWas.overrun PROVE UndoTrue(list, at + 1, past, future, list[at + 2].text)
    <3>1. UndoTrue(list, at, lineWas.past, lineWas.future, line.text)
      BY <2>5 DEF LineInv
    <3> HIDE DEF list, at
    <3>2. /\ lineWas.future # <<>>
          /\ UndoTrue(list, at + 1, past, Tail(lineWas.future), list[at + 2].text)
      BY <1>1, <1>2, <1>4, <3>1, RedoSteps
    <3>3. QED BY <3>2
  <2>6. at + 1 \in Nat /\ at + 1 <= Len(list)
    BY <1>1
  <2> HIDE DEF list, at, past, future
  <2> DEFINE next == at + 1
             state == list[at + 2]
  <2>7. /\ undo' = [list |-> list, at |-> next] /\ next \in Nat /\ next <= Len(list) /\ state \in Kept
        /\ line' = Restored(state) /\ (~lineWas.overrun => UndoTrue(list, next, past, future, state.text))
    BY <1>3, <2>1, <2>4, <2>5, <2>6
  <2> HIDE DEF next, state
  <2>8. QED BY <1>1, <2>1, <2>2, <2>3, <2>7, RestoreKeeps
<1>5. CASE ~(at + 2 <= Len(list))
  <2>1. line' = line /\ clipboard' = clipboard /\ lineWas' = [lineWas EXCEPT !.overrun = TRUE, !.inputs = @ + 1]
    BY <1>5 DEF RedoKey
  <2>2. lineWas \in History /\ lineWas.inputs + 1 \in Nat
    BY HistoryFields DEF LineInv, UndoTyped
  <2>3. /\ lineWas' \in History /\ lineWas'.overrun = TRUE /\ lineWas'.torn = lineWas.torn
        /\ lineWas'.stale = lineWas.stale
    BY <2>1, <2>2 DEF History
  <2>4. undo' \in [list : Seq(Kept), at : Nat] /\ undo'.at <= Len(undo'.list)
    BY <1>1, <1>3
  <2>5. UndoTyped'
    BY <2>1, <2>3, <2>4 DEF LineInv, UndoTyped
  <2>6. QED BY <2>1, <2>3, <2>5 DEF LineInv
<1>6. QED BY <1>4, <1>5

LEMMA MovesIs ==
    ASSUME LineInv, NEW new, Moves(new), new.text = line.text,
           LineOK(new, lineWas.torn, lineWas.stale /\ new.anchor = line.anchor /\ new.anchor # None0)
    PROVE  LineInv'
<1> DEFINE stale == lineWas.stale /\ new.anchor = line.anchor /\ new.anchor # None0
<1>1. stale \in BOOLEAN
  OBVIOUS
<1>2. line' = new /\ UNCHANGED <<undo, clipboard>> /\ lineWas' = [lineWas EXCEPT !.stale = stale, !.inputs = @ + 1]
  BY DEF Moves
<1>3. LineOK(new, lineWas.torn, stale)
  OBVIOUS
<1> HIDE DEF stale
<1>4. QED BY <1>1, <1>2, <1>3, MovesKeeps

\* A selection from its anchor to the cursor.
LEMMA SelectedOK ==
    ASSUME NEW l \in Line, l.anchor # None0, NEW to \in Nat, NEW torn, NEW stale,
           ~torn => to <= CharCount(l.text), ~torn /\ ~stale => l.anchor <= CharCount(l.text),
           NEW m \in Line, m.text = l.text, m.anchor = l.anchor, m.cursor = to,
           m.start = Min({l.anchor, to}), m.end = Max({l.anchor, to})
    PROVE  LineOK(m, torn, stale)
<1>1. l.anchor \in Nat /\ CharCount(l.text) \in Nat
  BY LineFields
<1>2. m.start = (IF l.anchor <= to THEN l.anchor ELSE to) /\ m.end = (IF l.anchor >= to THEN l.anchor ELSE to)
  BY <1>1, MinOfTwo, MaxOfTwo
<1>3. m.start \in Nat /\ m.end \in Nat /\ m.start <= m.end /\ m.cursor \in {m.start, m.end}
  BY <1>1, <1>2
<1>4. ~torn /\ ~stale => m.end <= CharCount(m.text)
  BY <1>1, <1>2
<1>5. m.start # None0 /\ m.end # None0 /\ m.anchor # None0
  BY <1>3 DEF None0
<1>6. QED BY <1>3, <1>4, <1>5 DEF LineOK

LEMMA SelectAllKeeps ==
    ASSUME LineInv, SelectAll
    PROVE  LineInv'
<1> DEFINE n == CharCount(line.text)
           l == [line EXCEPT !.anchor = 0, !.cursor = n, !.start = 0, !.end = n]
<1>1. line \in Line /\ n \in Nat /\ 0 # None0
  BY LineNow, LineFields DEF None0
<1>2. line' = InView(l) /\ lineWas' = [lineWas EXCEPT !.stale = FALSE, !.inputs = @ + 1] /\ UNCHANGED <<undo, clipboard>>
  BY DEF SelectAll
<1> HIDE DEF n
<1>3. l \in Line /\ l.text = line.text /\ l.anchor = 0 /\ l.cursor = n /\ l.start = 0 /\ l.end = n
  BY <1>1 DEF Line
<1> HIDE DEF l
<1>4. n # None0 /\ 0 <= n /\ n <= n
  BY <1>1 DEF None0
<1>5. LineOK(l, lineWas.torn, FALSE)
  BY <1>1, <1>3, <1>4 DEF LineOK, n
<1>6. LineOK(InView(l), lineWas.torn, FALSE) /\ InView(l).text = line.text
  BY <1>3, <1>5, InViewOK, InViewIs
<1>7. QED BY <1>2, <1>6, MovesKeeps

LEMMA NavigateKeeps ==
    ASSUME LineInv, NEW to \in Nat, NEW shift \in BOOLEAN, Navigate(to, shift),
           ~lineWas.torn => to <= CharCount(line.text)
    PROVE  LineInv'
<1>1. /\ line \in Line /\ LineOK(line, lineWas.torn, lineWas.stale) /\ line.cursor \in Nat /\ line.anchor \in Nat \cup {None0}
      /\ CharCount(line.text) \in Nat
  BY LineNow, LineFields
<1>2. CASE ~shift
  <2> DEFINE l == [Unselected(line) EXCEPT !.cursor = to]
  <2>1. LineOK(Unselected(line), lineWas.torn, TRUE) /\ Unselected(line).anchor = None0 /\ Unselected(line).text = line.text
    BY <1>1, UnselectedOK DEF LineOK
  <2>2. Moves(InView(l))
    BY <1>2, <2>1 DEF Navigate
  <2>3. /\ l \in Line /\ l.text = line.text /\ l.cursor = to /\ l.start = None0 /\ l.end = None0
        /\ l.anchor = None0 /\ l.down = FALSE
    BY <1>1 DEF Unselected, Line
  <2> HIDE DEF l
  <2>4. LineOK(l, lineWas.torn, FALSE)
    BY <2>3 DEF LineOK, Selecting
  <2>5. /\ LineOK(InView(l), lineWas.torn, FALSE) /\ InView(l).text = line.text /\ InView(l).anchor = None0
    BY <2>3, <2>4, InViewOK, InViewIs
  <2> DEFINE new == InView(l)
  <2> HIDE DEF new
  <2>6. LineOK(new, lineWas.torn, FALSE) /\ new.anchor = None0 /\ new.text = line.text /\ Moves(new)
    BY <2>2, <2>5 DEF new
  <2>7. LineOK(new, lineWas.torn, lineWas.stale /\ new.anchor = line.anchor /\ new.anchor # None0)
    <3>1. (lineWas.stale /\ new.anchor = line.anchor /\ new.anchor # None0) = FALSE
      BY <2>6
    <3>2. QED BY <2>6, <3>1
  <2>8. QED BY <2>6, <2>7, MovesIs
<1>3. CASE shift
  <2> DEFINE from == IF line.anchor < 0 THEN [line EXCEPT !.anchor = line.cursor] ELSE line
             a == from.anchor
             l == [from EXCEPT !.cursor = to, !.start = Min({a, to}), !.end = Max({a, to})]
  <2>1. /\ from \in Line /\ from.text = line.text /\ from.anchor = (IF line.anchor < 0 THEN line.cursor ELSE line.anchor)
    BY <1>1 DEF Line
  <2>2. from.anchor \in Nat /\ from.anchor # None0
    BY <1>1, <2>1 DEF None0
  <2>3. Moves(InView(l))
    BY <1>3, <2>2 DEF Navigate
  <2> HIDE DEF from
  <2>4. Min({a, to}) \in Nat /\ Max({a, to}) \in Nat
    <3>1. Min({a, to}) = (IF a <= to THEN a ELSE to) /\ Max({a, to}) = (IF a >= to THEN a ELSE to)
      BY <2>2, MinOfTwo, MaxOfTwo
    <3>2. QED BY <2>2, <3>1
  <2> DEFINE s == Min({a, to})
             e == Max({a, to})
  <2>5. l = [from EXCEPT !.cursor = to, !.start = s, !.end = e] /\ s \in Nat /\ e \in Nat
    BY <2>4
  <2> HIDE DEF l, s, e
  <2>6. /\ l \in Line /\ l.text = line.text /\ l.cursor = to /\ l.start = s /\ l.end = e /\ l.anchor = a
    BY <2>1, <2>5 DEF Line
  <2> DEFINE stale == lineWas.stale /\ from.anchor = line.anchor /\ from.anchor # None0
  <2>7. ~lineWas.torn /\ ~stale => a <= CharCount(line.text)
    <3>1. CASE line.anchor < 0
      BY <1>1, <2>1, <3>1 DEF LineOK
    <3>2. CASE ~(line.anchor < 0)
      <4>1. from.anchor = line.anchor /\ line.anchor # None0
        BY <1>1, <2>1, <2>2, <3>2
      <4>2. QED BY <1>1, <2>2, <4>1 DEF LineOK
    <3>3. QED BY <3>1, <3>2
  <2>8. LineOK(l, lineWas.torn, stale)
    <3>1. l.anchor = from.anchor /\ l.text = from.text /\ from \in Line
      BY <2>1, <2>6
    <3>2. l.start = Min({from.anchor, to}) /\ l.end = Max({from.anchor, to})
      BY <2>6 DEF s, e
    <3> HIDE DEF stale
    <3>3. ~lineWas.torn /\ ~stale => from.anchor <= CharCount(from.text)
      BY <2>1, <2>7
    <3>4. ~lineWas.torn => to <= CharCount(from.text)
      BY <2>1
    <3>5. QED BY <2>2, <2>6, <3>1, <3>2, <3>3, <3>4, SelectedOK
  <2> HIDE DEF stale
  <2>9. LineOK(InView(l), lineWas.torn, stale) /\ InView(l).text = line.text /\ InView(l).anchor = from.anchor
    BY <2>6, <2>8, InViewOK, InViewIs
  <2> DEFINE new == InView(l)
  <2> HIDE DEF new
  <2>10. LineOK(new, lineWas.torn, stale) /\ new.anchor = from.anchor /\ new.text = line.text /\ Moves(new)
    BY <2>3, <2>9 DEF new
  <2>11. stale = (lineWas.stale /\ new.anchor = line.anchor /\ new.anchor # None0)
    BY <2>10 DEF stale
  <2>12. QED BY <2>10, <2>11, MovesIs
<1>4. QED BY <1>2, <1>3

LEMMA NavKeyKeeps ==
    ASSUME LineInv, NavKey
    PROVE  LineInv'
<1> DEFINE n == CharCount(line.text)
           c == line.cursor
<1>1. n \in Nat /\ c \in Nat /\ line.text \in Seq(Byte) /\ (~lineWas.torn => c <= n)
  BY LineNow, LineFields DEF LineOK
<1>2. PICK shift \in BOOLEAN :
          \/ Navigate(Max({0, c - 1}), shift)
          \/ Navigate(IF c < n THEN c + 1 ELSE c, shift)
          \/ Navigate(0, shift)
          \/ Navigate(n, shift)
          \/ \E to \in IF c = 0 THEN {0} ELSE PrevWord(line.text, c) : Navigate(to, shift)
          \/ Navigate(NextWord(line.text, c), shift)
  BY DEF NavKey
<1>3. \A to \in Nat : Navigate(to, shift) /\ (~lineWas.torn => to <= n) => LineInv'
  BY NavigateKeeps
<1> HIDE DEF c
<1>4. CASE Navigate(Max({0, c - 1}), shift)
  <2>1. Max({0, c - 1}) = IF 0 >= c - 1 THEN 0 ELSE c - 1
    BY <1>1, MaxOfTwo
  <2> DEFINE to == Max({0, c - 1})
  <2>2. to \in Nat /\ to <= c
    BY <1>1, <2>1
  <2>3. Navigate(to, shift)
    BY <1>4
  <2> HIDE DEF to, n
  <2>4. ~lineWas.torn => to <= n
    BY <1>1, <2>2
  <2>5. QED BY <1>3, <2>2, <2>3, <2>4
<1>5. CASE Navigate(IF c < n THEN c + 1 ELSE c, shift)
  <2> DEFINE to == IF c < n THEN c + 1 ELSE c
  <2> HIDE DEF n
  <2>1. to \in Nat /\ (~lineWas.torn => to <= n)
    BY <1>1
  <2>2. Navigate(to, shift)
    BY <1>5
  <2> HIDE DEF to
  <2>3. QED BY <1>3, <2>1, <2>2
<1>6. CASE Navigate(0, shift)
  <2> HIDE DEF n
  <2>1. 0 <= n /\ 0 \in Nat
    BY <1>1
  <2>2. QED BY <1>3, <1>6, <2>1
<1>7. CASE Navigate(n, shift)
  <2> HIDE DEF n
  <2>1. n <= n
    BY <1>1
  <2>2. QED BY <1>1, <1>3, <1>7, <2>1
<1>8. ASSUME NEW to \in IF c = 0 THEN {0} ELSE PrevWord(line.text, c), Navigate(to, shift)
      PROVE  LineInv'
  <2>1. to \in Nat /\ to <= c
    <3>1. CASE c = 0
      BY <1>8, <3>1
    <3>2. CASE c # 0
      <4>1. to \in PrevWord(line.text, c)
        BY <1>8, <3>2
      <4>2. to \in Nat /\ to < c
        BY <1>1, <3>2, <4>1, PrevWordIs
      <4>3. QED BY <1>1, <4>2
    <3>3. QED BY <3>1, <3>2
  <2> HIDE DEF n
  <2>2. ~lineWas.torn => to <= n
    BY <1>1, <2>1
  <2>3. QED BY <1>3, <1>8, <2>1, <2>2
<1>9. CASE Navigate(NextWord(line.text, c), shift)
  <2> DEFINE to == NextWord(line.text, c)
  <2>1. to \in Nat /\ (c <= n => to <= n)
    BY <1>1, NextWordIs
  <2>2. Navigate(to, shift)
    BY <1>9
  <2> HIDE DEF to, n
  <2>3. ~lineWas.torn => to <= n
    BY <1>1, <2>1
  <2>4. QED BY <1>3, <2>1, <2>2, <2>3
<1>10. QED BY <1>2, <1>4, <1>5, <1>6, <1>7, <1>8, <1>9

LEMMA PressKeeps ==
    ASSUME LineInv, NEW cell \in 0 .. LineWidth - 1, NEW clicks \in 1 .. 3, Press(cell, clicks)
    PROVE  LineInv'
<1> DEFINE at == CharAt(line.text, line.view + cell)
           n == CharCount(line.text)
           word == WordAt(line.text, at)
           range == CASE clicks = 1 -> <<at, at>>
                      [] clicks = 2 -> WordAt(line.text, at)
                      [] clicks = 3 -> <<0, CharCount(line.text)>>
           c == IF range[1] # range[2] THEN range[2] ELSE at
           l == [line EXCEPT !.start = range[1], !.end = range[2], !.anchor = range[2], !.down = TRUE,
                             !.cursor = IF range[1] # range[2] THEN range[2] ELSE at]
<1>1. line \in Line /\ n \in Nat /\ line.text \in Seq(Byte) /\ line.view \in Nat /\ cell \in Int
  BY LineNow, LineFields, LineAssumption
<1>2. at \in 0 .. n
  <2>1. line.view + cell \in Int
    BY <1>1
  <2>2. QED BY <1>1, <2>1, CharAtIs
<1>3. line' = InView(l) /\ lineWas' = [lineWas EXCEPT !.stale = FALSE, !.inputs = @ + 1] /\ UNCHANGED <<undo, clipboard>>
  BY DEF Press
<1>4. word[1] \in 0 .. at /\ word[2] \in at .. n
  <2> HIDE DEF at
  <2>1. QED BY <1>1, <1>2, WordAtIs
<1>5. range[1] \in Nat /\ range[2] \in Nat /\ range[1] <= range[2] /\ range[2] <= n
  <2> HIDE DEF at, n
  <2>1. CASE clicks = 1
    <3>1. range = <<at, at>>
      BY <2>1
    <3> HIDE DEF range
    <3>2. QED BY <1>1, <1>2, <3>1
  <2>2. CASE clicks = 2
    <3>1. range = word
      BY <2>2
    <3> HIDE DEF range, word
    <3>2. QED BY <1>1, <1>2, <1>4, <3>1
  <2>3. CASE clicks = 3
    <3>1. range = <<0, n>>
      BY <2>3 DEF n
    <3> HIDE DEF range
    <3>2. QED BY <1>1, <3>1
  <2>4. QED BY <2>1, <2>2, <2>3
<1> HIDE DEF at, n, range, word
<1>6. c \in Nat /\ c <= n /\ (range[1] # range[2] => c \in {range[1], range[2]})
  BY <1>1, <1>2, <1>5
<1>7. l = [line EXCEPT !.start = range[1], !.end = range[2], !.anchor = range[2], !.down = TRUE, !.cursor = c]
  OBVIOUS
<1> HIDE DEF c, l
<1>8. /\ l \in Line /\ l.text = line.text /\ l.cursor = c /\ l.start = range[1] /\ l.end = range[2]
      /\ l.anchor = range[2]
  BY <1>1, <1>5, <1>6, <1>7 DEF Line
<1>9. l.anchor # None0 /\ l.start # None0 /\ l.end # None0
  BY <1>5, <1>8 DEF None0
<1>10. l.end <= CharCount(l.text) /\ l.cursor <= CharCount(l.text)
  BY <1>5, <1>6, <1>8 DEF n
<1>11. LineOK(l, lineWas.torn, FALSE)
  BY <1>5, <1>6, <1>8, <1>9, <1>10 DEF LineOK, Selecting
<1>12. LineOK(InView(l), lineWas.torn, FALSE) /\ InView(l).text = line.text
  BY <1>8, <1>11, InViewOK, InViewIs
<1>13. QED BY <1>3, <1>12, MovesKeeps

LEMMA DragOutsideKeeps ==
    ASSUME LineInv, DragOutside
    PROVE  LineInv'
<1>1. /\ line \in Line /\ line.text \in Seq(Byte) /\ line.view \in Nat /\ line.down /\ CharCount(line.text) \in Nat
      /\ LineOK(line, lineWas.torn, lineWas.stale)
  BY LineNow, LineFields DEF DragOutside
<1> DEFINE At(cell) == IF line.view + cell < 0 THEN 0 ELSE CharAt(line.text, line.view + cell)
           a == line.anchor
<1>2. PICK cell \in {-1, LineWidth} :
          Moves(InView([line EXCEPT !.start = Min({a, At(cell)}), !.end = Max({a, At(cell)}), !.cursor = At(cell)]))
  BY DEF DragOutside
<1> DEFINE at == At(cell)
           s == Min({a, at})
           e == Max({a, at})
           l == [line EXCEPT !.start = s, !.end = e, !.cursor = at]
<1>3. at \in 0 .. CharCount(line.text)
  <2>1. line.view + cell \in Int
    BY <1>1, LineAssumption
  <2> DEFINE x == line.view + cell
  <2>2. CharAt(line.text, x) \in 0 .. CharCount(line.text)
    BY <1>1, <2>1, CharAtIs
  <2>3. at = 0 \/ at = CharAt(line.text, x)
    OBVIOUS
  <2> HIDE DEF at, x
  <2>4. QED BY <1>1, <2>2, <2>3
<1>4. a \in Nat /\ a # None0
  BY <1>1, LineFields DEF LineOK
<1>5. Moves(InView(l))
  BY <1>2
<1> HIDE DEF At, at
<1>6. at \in Nat /\ at <= CharCount(line.text)
  BY <1>1, <1>3
<1>7. s \in Nat /\ e \in Nat
  <2>1. s = (IF a <= at THEN a ELSE at) /\ e = (IF a >= at THEN a ELSE at)
    BY <1>4, <1>6, MinOfTwo, MaxOfTwo
  <2>2. QED BY <1>4, <1>6, <2>1
<1> HIDE DEF s, e
<1>8. l \in Line /\ l.text = line.text /\ l.anchor = line.anchor /\ l.cursor = at /\ l.start = s /\ l.end = e
  BY <1>1, <1>6, <1>7 DEF Line
<1> HIDE DEF l
<1>9. LineOK(l, lineWas.torn, lineWas.stale)
  <2>1. l.start = Min({line.anchor, at}) /\ l.end = Max({line.anchor, at})
    BY <1>8 DEF s, e
  <2>2. ~lineWas.torn /\ ~lineWas.stale => line.anchor <= CharCount(line.text)
    BY <1>1, <1>4 DEF LineOK
  <2>3. QED BY <1>1, <1>4, <1>6, <1>8, <2>1, <2>2, SelectedOK
<1> DEFINE new == InView(l)
<1>10. LineOK(new, lineWas.torn, lineWas.stale) /\ new.text = line.text /\ new.anchor = line.anchor
  BY <1>8, <1>9, InViewOK, InViewIs
<1>11. Moves(new)
  BY <1>5
<1> HIDE DEF new
<1>12. (lineWas.stale /\ new.anchor = line.anchor /\ new.anchor # None0) = lineWas.stale
  BY <1>4, <1>10, LineNow
<1>13. QED BY <1>10, <1>11, <1>12, MovesIs

LEMMA ReleaseMouseKeeps ==
    ASSUME LineInv, ReleaseMouse
    PROVE  LineInv'
<1> DEFINE new == [line EXCEPT !.down = FALSE]
<1>1. line \in Line /\ LineOK(line, lineWas.torn, lineWas.stale) /\ lineWas.stale \in BOOLEAN /\ line.down
  BY LineNow DEF ReleaseMouse
<1>2. line.anchor # None0
  BY <1>1 DEF LineOK
<1>3. /\ new \in Line /\ new.text = line.text /\ new.anchor = line.anchor /\ new.cursor = line.cursor
      /\ new.start = line.start /\ new.end = line.end /\ new.down = FALSE
  BY <1>1 DEF Line
<1>4. Moves(new)
  BY DEF ReleaseMouse
<1> HIDE DEF new
<1>5. LineOK(new, lineWas.torn, lineWas.stale)
  BY <1>1, <1>3 DEF LineOK, Selecting
<1>6. (lineWas.stale /\ new.anchor = line.anchor /\ new.anchor # None0) = lineWas.stale
  BY <1>1, <1>2, <1>3
<1>7. QED BY <1>3, <1>4, <1>5, <1>6, MovesIs

LEMMA BlurLineKeeps ==
    ASSUME LineInv, BlurLine
    PROVE  LineInv'
<1> DEFINE new == Unselected(line)
<1>1. line \in Line /\ LineOK(line, lineWas.torn, lineWas.stale)
  BY LineNow
<1>2. LineOK(new, lineWas.torn, FALSE) /\ new.text = line.text /\ new.anchor = None0
  <2>1. ~lineWas.torn => line.cursor <= CharCount(line.text)
    BY <1>1 DEF LineOK
  <2>2. QED BY <1>1, <2>1, UnselectedOK
<1>3. Moves(new)
  BY DEF BlurLine
<1> HIDE DEF new
<1>4. (lineWas.stale /\ new.anchor = line.anchor /\ new.anchor # None0) = FALSE
  BY <1>2
<1>5. QED BY <1>2, <1>3, <1>4, MovesIs

LEMMA DrawLineKeeps ==
    ASSUME LineInv, DrawLine
    PROVE  LineInv'
<1>1. line \in Line /\ LineOK(line, lineWas.torn, lineWas.stale)
  BY LineNow
<1>2. line' = InView(line) /\ undo' = undo /\ clipboard' = clipboard /\ lineWas' = lineWas
  BY DEF DrawLine
<1>3. LineOK(line', lineWas'.torn, lineWas'.stale) /\ line'.text = line.text
  BY <1>1, <1>2, InViewOK, InViewIs
<1>4. UndoTyped'
  BY <1>2 DEF LineInv, UndoTyped
<1>5. QED BY <1>2, <1>3, <1>4 DEF LineInv

LEMMA LineStarts == LineInit => LineInv
<1> SUFFICES ASSUME LineInit PROVE LineInv
  OBVIOUS
<1>1. PICK v \in FieldText :
          /\ line = InView([text |-> v, cursor |-> CharCount(v), start |-> None0, end |-> None0, anchor |-> None0,
                            down |-> FALSE, view |-> 0])
          /\ undo = IF v = <<>> THEN [list |-> <<>>, at |-> 0]
                    ELSE [list |-> <<[text |-> <<>>, cursor |-> 0]>>, at |-> 1]
          /\ lineWas = [past |-> IF v = <<>> THEN <<>> ELSE <<<<>>>>, future |-> <<>>, inputs |-> 0,
                        overrun |-> FALSE, torn |-> Torn(v), stale |-> FALSE]
  BY DEF LineInit
<1>2. v \in Seq(Typeable) /\ v \in Seq(Byte) /\ CharCount(v) \in Nat /\ HistorySize \in Nat /\ HistorySize >= 1
  BY LineAssumption, TypeableBytes, CharsTyped
<1> DEFINE n == CharCount(v)
           l == [text |-> v, cursor |-> n, start |-> None0, end |-> None0, anchor |-> None0, down |-> FALSE, view |-> 0]
           nothing == <<>>
           list == IF v = <<>> THEN <<>> ELSE <<[text |-> nothing, cursor |-> 0]>>
           at == IF v = <<>> THEN 0 ELSE 1
           past == IF v = <<>> THEN <<>> ELSE <<nothing>>
<1>3. line = InView(l) /\ undo = [list |-> list, at |-> at] /\ clipboard = <<>>
  BY <1>1 DEF LineInit
<1>4. nothing \in TypedText
  BY DEF TypedText
<1>5. lineWas = [past |-> past, future |-> <<>>, inputs |-> 0, overrun |-> FALSE, torn |-> Torn(v), stale |-> FALSE]
  BY <1>1
<1> HIDE DEF nothing
<1>6. [text |-> nothing, cursor |-> 0] \in Kept
  BY <1>4 DEF Kept
<1>7. list \in Seq(Kept) /\ past \in Seq(TypedText) /\ Len(list) = at /\ Len(past) = at /\ at \in {0, 1}
  <2> DEFINE one == [text |-> nothing, cursor |-> 0]
  <2> HIDE DEF one
  <2>1. one \in Kept
    BY <1>6 DEF one
  <2>2. <<one>> \in Seq(Kept) /\ Len(<<one>>) = 1 /\ <<nothing>> \in Seq(TypedText) /\ Len(<<nothing>>) = 1
    BY <1>4, <2>1
  <2>3. QED BY <2>2 DEF one
<1>8. \A i \in 1 .. at : list[i].text = past[i]
  <2>1. CASE v = <<>>
    BY <2>1
  <2>2. CASE v # <<>>
    <3>1. list[1] = [text |-> nothing, cursor |-> 0] /\ past[1] = nothing /\ at = 1
      BY <2>2
    <3>2. \A i \in 1 .. at : i = 1
      BY <3>1
    <3>3. QED BY <3>1, <3>2
  <2>3. QED BY <2>1, <2>2
<1> HIDE DEF list, at, past, n
<1>9. UndoTyped
  <2>1. Torn(v) \in BOOLEAN
    BY DEF Torn
  <2>2. lineWas \in History
    BY <1>5, <1>7, <2>1 DEF History
  <2>3. undo \in [list : Seq(Kept), at : Nat] /\ undo.at <= Len(undo.list)
    BY <1>3, <1>7
  <2>4. QED BY <1>3, <2>2, <2>3 DEF UndoTyped
<1>10. l \in Line /\ l.text = v /\ l.cursor = n
  BY <1>2 DEF Line, n
<1>11. LineOK(l, lineWas.torn, FALSE)
  <2>1. l.cursor <= CharCount(l.text)
    BY <1>2 DEF n
  <2>2. l.start = None0 /\ l.end = None0 /\ l.anchor = None0 /\ l.down = FALSE
    OBVIOUS
  <2>3. QED BY <1>10, <2>1, <2>2 DEF LineOK, Selecting
<1> HIDE DEF l
<1>12. LineOK(line, lineWas.torn, lineWas.stale)
  BY <1>3, <1>5, <1>11, InViewOK
<1>13. UndoTrue(list, at, past, <<>>, line.text)
  <2>1. at <= HistorySize /\ Len(list) <= HistorySize + 1 /\ ~(at < Len(list)) /\ Len(<<>>) = 0
    BY <1>2, <1>7
  <2>2. \A i \in 1 .. Len(<<>>) : list[at + 1 + i].text = <<>>[i]
    OBVIOUS
  <2>3. QED BY <1>7, <1>8, <2>1, <2>2 DEF UndoTrue
<1>14. QED BY <1>3, <1>5, <1>9, <1>12, <1>13 DEF LineInv

LEMMA LineStepKeeps == LineInv /\ [LineNext]_lineVars => LineInv'
<1> SUFFICES ASSUME LineInv, [LineNext]_lineVars PROVE LineInv'
  OBVIOUS
<1>1. ASSUME NEW b \in KeyByte, TypeByte(b) PROVE LineInv'
  BY <1>1, TypeByteKeeps
<1>2. CASE Backspace
  BY <1>2, BackspaceKeeps
<1>3. CASE DeleteKey
  BY <1>3, DeleteKeyKeeps
<1>4. CASE CopyKey
  BY <1>4, CopyKeyKeeps
<1>5. CASE CutKey
  BY <1>5, CutKeyKeeps
<1>6. CASE PasteKey
  BY <1>6, PasteKeyKeeps
<1>7. CASE TerminalPaste
  BY <1>7, TerminalPasteKeeps
<1>8. CASE UndoKey
  BY <1>8, UndoKeyKeeps
<1>9. CASE RedoKey
  BY <1>9, RedoKeyKeeps
<1>10. CASE SelectAll
  BY <1>10, SelectAllKeeps
<1>11. CASE NavKey
  BY <1>11, NavKeyKeeps
<1>12. ASSUME NEW cell \in 0 .. LineWidth - 1, NEW clicks \in 1 .. 3, Press(cell, clicks) PROVE LineInv'
  BY <1>12, PressKeeps
<1>13. CASE DragOutside
  BY <1>13, DragOutsideKeeps
<1>14. CASE ReleaseMouse
  BY <1>14, ReleaseMouseKeeps
<1>15. CASE BlurLine
  BY <1>15, BlurLineKeeps
<1>16. CASE DrawLine
  BY <1>16, DrawLineKeeps
<1>17. CASE UNCHANGED lineVars
  BY <1>17 DEF lineVars, LineInv, UndoTyped
<1>18. QED
  BY <1>1, <1>2, <1>3, <1>4, <1>5, <1>6, <1>7, <1>8, <1>9, <1>10, <1>11, <1>12, <1>13, <1>14, <1>15, <1>16, <1>17
  DEF LineNext, LineInput

-----------------------------------------------------------------------------
(* The tree of the names.                                                  *)

Path == Seq(STRING) \ {<<>>}
StatusSaid == [path : Path, level : Levels]
ReportSeq == Seq(StatusSaid)
Branches(report) == Nodes(report) \cup {<<>>}

LEMMA StatusFacts ==
    ASSUME NEW report \in ReportSeq, NEW i \in DOMAIN report
    PROVE  /\ report[i].path \in Path /\ report[i].path \in Seq(STRING) /\ report[i].level \in Levels
           /\ Len(report[i].path) \in Nat \ {0} /\ DOMAIN report = 1 .. Len(report) /\ Len(report) \in Nat
<1>1. report[i] \in StatusSaid /\ DOMAIN report = 1 .. Len(report) /\ Len(report) \in Nat
  BY DEF ReportSeq
<1>2. report[i].path \in Seq(STRING) /\ report[i].path # <<>> /\ report[i].level \in Levels
  BY <1>1 DEF StatusSaid, Path
<1>3. Len(report[i].path) \in Nat \ {0}
  BY <1>2
<1>4. QED BY <1>1, <1>2, <1>3 DEF Path

\* A part of a name from its beginning.
LEMMA BeginningIs ==
    ASSUME NEW q \in Seq(STRING), NEW n \in 0 .. Len(q)
    PROVE  /\ SubSeq(q, 1, n) \in Seq(STRING) /\ Len(SubSeq(q, 1, n)) = n
           /\ \A k \in 0 .. n : SubSeq(SubSeq(q, 1, n), 1, k) = SubSeq(q, 1, k)
           /\ IsPrefix(SubSeq(q, 1, n), q)
           /\ n = Len(q) => SubSeq(q, 1, n) = q
<1> DEFINE b == SubSeq(q, 1, n)
<1>1. \A k \in 0 .. Len(q) : SubSeq(q, 1, k) \in Seq(STRING) /\ Len(SubSeq(q, 1, k)) = k
  <2>1. TAKE k \in 0 .. Len(q)
  <2>2. \A i \in 1 .. k : q[i] \in STRING
    OBVIOUS
  <2>3. k \in Int /\ (IF 1 <= k THEN k - 1 + 1 ELSE 0) = k
    OBVIOUS
  <2>4. QED BY <2>2, <2>3, SubSeqProperties
<1>2. b \in Seq(STRING) /\ Len(b) = n
  BY <1>1
<1>3. ASSUME NEW k \in 0 .. n PROVE SubSeq(b, 1, k) = SubSeq(q, 1, k)
  <2> DEFINE left == SubSeq(b, 1, k)
             right == SubSeq(q, 1, k)
  <2>1. k \in Int /\ n \in Int /\ k \in 0 .. Len(q) /\ Len(q) \in Nat
    OBVIOUS
  <2>2. \A i \in 1 .. n : q[i] \in STRING
    OBVIOUS
  <2>3. (IF 1 <= k THEN k - 1 + 1 ELSE 0) = k /\ k - 1 + 1 = k /\ n - 1 + 1 = n /\ \A i \in 1 .. n : 1 + i - 1 = i
    OBVIOUS
  <2>4. \A i \in 1 .. n : b[i] = q[i]
    BY <2>1, <2>2, <2>3, SubSeqProperties
  <2>5. right \in Seq(STRING) /\ Len(right) = k /\ \A i \in 1 .. k : right[i] = q[i]
    <3>1. \A i \in 1 .. k : q[i] \in STRING /\ 1 + i - 1 = i
      BY <2>1, <2>2, <2>3
    <3>2. QED BY <2>1, <2>3, <3>1, SubSeqProperties
  <2> HIDE DEF b
  <2>6. left \in Seq(STRING) /\ Len(left) = k /\ \A i \in 1 .. k : left[i] = b[i]
    <3>1. \A i \in 1 .. k : b[i] \in STRING /\ 1 + i - 1 = i
      BY <1>2, <2>1, <2>3
    <3>2. QED BY <2>1, <2>3, <3>1, SubSeqProperties
  <2> HIDE DEF left, right
  <2>7. \A i \in 1 .. k : left[i] = right[i]
    <3>1. \A i \in 1 .. k : i \in 1 .. n
      BY <2>1
    <3>2. QED BY <2>4, <2>5, <2>6, <3>1
  <2>8. left = right
    BY <2>5, <2>6, <2>7, SeqEqual
  <2>9. QED BY <2>8 DEF left, right, b
<1>4. IsPrefix(b, q)
  <2>1. n \in 0 .. n /\ n <= Len(q)
    OBVIOUS
  <2>2. SubSeq(b, 1, n) = SubSeq(q, 1, n)
    BY <1>3, <2>1
  <2>3. QED BY <1>2, <2>1, <2>2 DEF IsPrefix
<1>5. n = Len(q) => SubSeq(q, 1, n) = q
  BY SubSeqFull
<1>6. QED BY <1>2, <1>3, <1>4, <1>5

LEMMA NodeIs ==
    ASSUME NEW report \in ReportSeq, NEW p
    PROVE  p \in Nodes(report) <=> \E i \in DOMAIN report : \E n \in DOMAIN report[i].path : p = SubSeq(report[i].path, 1, n)
<1> DEFINE From(i) == {SubSeq(report[i].path, 1, n) : n \in DOMAIN report[i].path}
<1>1. \A i \in DOMAIN report : p \in From(i) <=> \E n \in DOMAIN report[i].path : p = SubSeq(report[i].path, 1, n)
  OBVIOUS
<1>2. Nodes(report) = UNION {From(i) : i \in DOMAIN report}
  BY DEF Nodes
<1> HIDE DEF From
<1>3. p \in Nodes(report) <=> \E i \in DOMAIN report : p \in From(i)
  BY <1>2
<1>4. QED BY <1>1, <1>3

LEMMA TreeFacts ==
    ASSUME NEW report \in ReportSeq
    PROVE  /\ \A p \in Nodes(report) : p \in Path
           /\ \A p \in Branches(report) : p \in Seq(STRING) /\ Len(p) \in Nat
           /\ \A i \in DOMAIN report : \A n \in 1 .. Len(report[i].path) : SubSeq(report[i].path, 1, n) \in Nodes(report)
           /\ \A i \in DOMAIN report : report[i].path \in Nodes(report)
<1>1. ASSUME NEW p \in Nodes(report) PROVE p \in Path
  <2>0. PICK i \in DOMAIN report : \E n \in DOMAIN report[i].path : p = SubSeq(report[i].path, 1, n)
    BY NodeIs
  <2>1. PICK n \in DOMAIN report[i].path : p = SubSeq(report[i].path, 1, n)
    BY <2>0
  <2> DEFINE q == report[i].path
  <2>2. q \in Seq(STRING)
    BY StatusFacts
  <2> HIDE DEF q
  <2>3. n \in 0 .. Len(q) /\ n # 0
    BY <2>1, <2>2 DEF q
  <2>4. p \in Seq(STRING) /\ Len(p) = n
    BY <2>1, <2>2, <2>3, BeginningIs DEF q
  <2>5. QED BY <2>3, <2>4 DEF Path
<1>2. ASSUME NEW i \in DOMAIN report, NEW n \in 1 .. Len(report[i].path)
      PROVE  SubSeq(report[i].path, 1, n) \in Nodes(report)
  <2>1. n \in DOMAIN report[i].path
    BY StatusFacts
  <2>2. QED BY <2>1, NodeIs
<1>3. ASSUME NEW i \in DOMAIN report PROVE report[i].path \in Nodes(report)
  <2> DEFINE q == report[i].path
             n == Len(q)
  <2>1. q \in Seq(STRING) /\ n \in 1 .. n
    BY StatusFacts
  <2>2. SubSeq(q, 1, n) = q
    BY <2>1, SubSeqFull
  <2>3. QED BY <1>2, <2>1, <2>2
<1>4. ASSUME NEW p \in Branches(report) PROVE p \in Seq(STRING) /\ Len(p) \in Nat
  <2>1. p \in Seq(STRING)
    <3>1. CASE p \in Nodes(report)
      BY <1>1, <3>1 DEF Path
    <3>2. CASE p = <<>>
      BY <3>2
    <3>3. QED BY <3>1, <3>2 DEF Branches
  <2>2. QED BY <2>1
<1>5. QED BY <1>1, <1>2, <1>3, <1>4

LEMMA ChildFacts ==
    ASSUME NEW report \in ReportSeq, NEW p \in Branches(report), NEW i \in DOMAIN report, NamesChild(p, report, i)
    PROVE  /\ ChildAt(p, report, i) \in Nodes(report) /\ Len(ChildAt(p, report, i)) = Len(p) + 1
           /\ Len(p) + 1 <= Len(report[i].path)
<1> DEFINE q == report[i].path
           n == Len(p) + 1
<1>1. q \in Seq(STRING) /\ p \in Seq(STRING) /\ Len(p) \in Nat /\ Len(q) \in Nat
  BY StatusFacts, TreeFacts
<1>2. IsPrefix(p, q) /\ p # q
  BY DEF NamesChild
<1> HIDE DEF q
<1>3. Len(p) < Len(q)
  <2>1. SUFFICES ASSUME Len(p) = Len(q) PROVE FALSE
    BY <1>1, <1>2 DEF IsPrefix
  <2>2. SubSeq(p, 1, Len(p)) = p /\ SubSeq(q, 1, Len(q)) = q
    BY <1>1, SubSeqFull
  <2>3. QED BY <1>2, <2>1, <2>2 DEF IsPrefix
<1>4. n \in 1 .. Len(q) /\ n \in 0 .. Len(q)
  BY <1>1, <1>3
<1>5. SubSeq(q, 1, n) \in Nodes(report)
  BY <1>4, TreeFacts DEF q
<1>6. Len(SubSeq(q, 1, n)) = n
  BY <1>1, <1>4, BeginningIs
<1>7. QED BY <1>4, <1>5, <1>6 DEF ChildAt, q

LEMMA DeepEnough ==
    ASSUME NEW report \in ReportSeq
    PROVE  \E d \in Nat : \A i \in DOMAIN report : Len(report[i].path) <= d
<1> DEFINE L == Len(report)
           T == {n \in 0 .. L : \E d \in Nat : \A i \in 1 .. n : Len(report[i].path) <= d}
<1>1. L \in Nat /\ DOMAIN report = 1 .. L
  BY DEF ReportSeq
<1>2. 0 \in T
  BY <1>1
<1>3. ASSUME NEW n \in 0 .. L, n < L, n \in T PROVE n + 1 \in T
  <2>1. PICK d \in Nat : \A i \in 1 .. n : Len(report[i].path) <= d
    BY <1>3
  <2>2. n + 1 \in 1 .. L /\ n + 1 \in 0 .. L
    BY <1>1, <1>3
  <2> DEFINE e == Len(report[n + 1].path)
             more == d + e
  <2>3. e \in Nat
    BY <1>1, <2>2, StatusFacts
  <2>4. \A i \in 1 .. n : Len(report[i].path) \in Nat
    BY <1>1, StatusFacts
  <2> HIDE DEF L
  <2>5. ASSUME NEW i \in 1 .. n + 1 PROVE Len(report[i].path) <= more
    <3>1. CASE i = n + 1
      <4>1. Len(report[i].path) = e
        BY <3>1
      <4> HIDE DEF e
      <4>2. QED BY <2>3, <4>1
    <3>2. CASE i # n + 1
      <4>1. i \in 1 .. n
        BY <3>2
      <4> DEFINE x == Len(report[i].path)
      <4>2. x \in Nat /\ x <= d
        BY <2>1, <2>4, <4>1
      <4> HIDE DEF x, e
      <4>3. x <= more
        BY <2>3, <4>2
      <4>4. QED BY <4>3 DEF x
    <3>3. QED BY <3>1, <3>2
  <2>6. more \in Nat
    <3> HIDE DEF e
    <3>1. QED BY <2>3
  <2> HIDE DEF more
  <2>7. QED BY <2>2, <2>5, <2>6
<1>4. L \in T
  <2> HIDE DEF T
  <2>1. \A n \in 0 .. L : n \in T
    BY <1>1, <1>2, <1>3, CountUp
  <2>2. QED BY <1>1, <2>1
<1>5. QED BY <1>1, <1>4

LEMMA TreeDepth ==
    ASSUME NEW report \in ReportSeq, NEW d \in Nat, \A i \in DOMAIN report : Len(report[i].path) <= d
    PROVE  \A p \in Branches(report) : Len(p) <= d
<1> TAKE p \in Branches(report)
<1>1. CASE p = <<>>
  BY <1>1
<1>2. CASE p # <<>>
  <2>0. PICK i \in DOMAIN report : \E n \in DOMAIN report[i].path : p = SubSeq(report[i].path, 1, n)
    BY <1>2, NodeIs DEF Branches
  <2>1. PICK n \in DOMAIN report[i].path : p = SubSeq(report[i].path, 1, n)
    BY <2>0
  <2> DEFINE q == report[i].path
  <2>2. q \in Seq(STRING) /\ Len(q) <= d
    BY StatusFacts
  <2> HIDE DEF q
  <2>3. n \in 0 .. Len(q)
    BY <2>1, <2>2 DEF q
  <2>4. Len(p) = n
    BY <2>1, <2>2, <2>3, BeginningIs DEF q
  <2>5. QED BY <2>2, <2>3, <2>4
<1>3. QED BY <1>1, <1>2

-----------------------------------------------------------------------------
(* The rows.                                                               *)

Below(f, p, report) ==
    [i \in DOMAIN report |-> IF NamesChild(p, report, i) THEN f[ChildAt(p, report, i)] ELSE <<>>]
RowsAt(f, p, report, closed, accepted) ==
    (IF p # <<>> /\ (LevelOf(p, report) \in accepted \/ IsGroup(p, report)) THEN <<p>> ELSE <<>>)
        \o (IF p \in closed THEN <<>> ELSE FlattenSeq(Below(f, p, report)))
IsRows(f, report, closed, accepted) == f = [p \in Branches(report) |-> RowsAt(f, p, report, closed, accepted)]

LEMMA BelowAgrees ==
    ASSUME NEW report \in ReportSeq, NEW p \in Branches(report), NEW f, NEW g, NEW closed, NEW accepted,
           \A c \in Nodes(report) : Len(c) = Len(p) + 1 => f[c] = g[c]
    PROVE  RowsAt(f, p, report, closed, accepted) = RowsAt(g, p, report, closed, accepted)
<1>1. \A i \in DOMAIN report : NamesChild(p, report, i) => f[ChildAt(p, report, i)] = g[ChildAt(p, report, i)]
  BY ChildFacts
<1>2. Below(f, p, report) = Below(g, p, report)
  BY <1>1 DEF Below
<1>3. QED BY <1>2 DEF RowsAt

LEMMA BelowTyped ==
    ASSUME NEW report \in ReportSeq, NEW p \in Branches(report), NEW f, NEW C, <<>> \in C,
           \A c \in Nodes(report) : Len(c) = Len(p) + 1 => f[c] \in C
    PROVE  Below(f, p, report) \in Seq(C) /\ Len(Below(f, p, report)) = Len(report)
<1> DEFINE L == Len(report)
           b == Below(f, p, report)
<1>1. L \in Nat /\ DOMAIN report = 1 .. L
  BY DEF ReportSeq
<1>2. \A i \in DOMAIN report : (IF NamesChild(p, report, i) THEN f[ChildAt(p, report, i)] ELSE <<>>) \in C
  BY ChildFacts
<1>3. b \in [1 .. L -> C]
  BY <1>1, <1>2 DEF Below
<1> HIDE DEF b, L
<1>4. b \in Seq(C) /\ Len(b) = L
  BY <1>1, <1>3
<1>5. QED BY <1>4 DEF b, L

LEMMA RowsAtTyped ==
    ASSUME NEW report \in ReportSeq, NEW p \in Branches(report), NEW f, NEW closed, NEW accepted,
           \A c \in Nodes(report) : Len(c) = Len(p) + 1 => f[c] \in Seq(Nodes(report))
    PROVE  RowsAt(f, p, report, closed, accepted) \in Seq(Nodes(report))
<1> DEFINE S == Nodes(report)
           C == Seq(S)
           b == Below(f, p, report)
           self == IF p # <<>> /\ (LevelOf(p, report) \in accepted \/ IsGroup(p, report)) THEN <<p>> ELSE <<>>
           under == IF p \in closed THEN <<>> ELSE FlattenSeq(b)
<1>1. p # <<>> => p \in S
  BY DEF Branches
<1>2. RowsAt(f, p, report, closed, accepted) = self \o under
  BY DEF RowsAt
<1>3. \A c \in S : Len(c) = Len(p) + 1 => f[c] \in C
  OBVIOUS
<1> HIDE DEF S
<1>4. <<>> \in C /\ \A c \in C : c \in Seq(S)
  OBVIOUS
<1> HIDE DEF C
<1>5. b \in Seq(C)
  BY <1>3, <1>4, BelowTyped DEF S
<1> HIDE DEF b
<1>6. FlattenSeq(b) \in Seq(S)
  <2>1. PICK h \in [0 .. Len(b) -> Seq(S)] : FlattenSeq(b) = h[Len(b)]
    BY <1>4, <1>5, FlattenIs
  <2>2. Len(b) \in 0 .. Len(b)
    BY <1>5
  <2>3. QED BY <2>1, <2>2
<1>7. self \in Seq(S)
  BY <1>1
<1>8. under \in Seq(S)
  BY <1>6
<1> HIDE DEF self, under
<1>9. self \o under \in Seq(S)
  BY <1>7, <1>8, ConcatProperties
<1>10. QED BY <1>2, <1>9 DEF S

\* The recursion ends at the longest names.
LEMMA RowsExist ==
    ASSUME NEW report \in ReportSeq, NEW closed, NEW accepted
    PROVE  \E f : IsRows(f, report, closed, accepted)
<1> DEFINE N == Branches(report)
           S == Nodes(report)
           At(f, p) == RowsAt(f, p, report, closed, accepted)
<1>1. PICK d \in Nat : \A i \in DOMAIN report : Len(report[i].path) <= d
  BY DeepEnough
<1>2. \A p \in N : Len(p) \in Nat /\ Len(p) <= d
  BY <1>1, TreeDepth, TreeFacts
<1>3. S \subseteq N
  BY DEF Branches
<1> DEFINE Right(f, n) == DOMAIN f = N /\ \A p \in N : Len(p) >= (d + 1) - n => f[p] = At(f, p)
           T == {n \in 0 .. d + 1 : \E f : Right(f, n)}
<1>4. 0 \in T
  <2>1. Right([p \in N |-> <<>>], 0)
    <3>1. \A p \in N : ~(Len(p) >= (d + 1) - 0)
      BY <1>2
    <3>2. DOMAIN [p \in N |-> <<>>] = N
      OBVIOUS
    <3> HIDE DEF At, N
    <3>3. QED BY <3>1, <3>2
  <2> HIDE DEF Right
  <2>2. QED BY <1>1, <2>1
<1>5. ASSUME NEW n \in 0 .. d + 1, n < d + 1, n \in T PROVE n + 1 \in T
  <2>1. PICK f : Right(f, n)
    BY <1>5
  <2> DEFINE g == [p \in N |-> At(f, p)]
  <2>2. DOMAIN g = N /\ \A p \in N : g[p] = At(f, p)
    OBVIOUS
  <2> HIDE DEF g
  <2>3. ASSUME NEW p \in N, Len(p) >= (d + 1) - (n + 1) PROVE g[p] = At(g, p)
    <3>1. ASSUME NEW c \in S, Len(c) = Len(p) + 1 PROVE f[c] = g[c]
      <4>1. c \in N /\ Len(c) >= (d + 1) - n
        BY <1>2, <1>3, <2>3, <3>1
      <4> HIDE DEF At, N
      <4>2. QED BY <2>1, <2>2, <4>1
    <3>2. At(f, p) = At(g, p)
      BY <3>1, BelowAgrees
    <3> HIDE DEF At, N
    <3>3. QED BY <2>2, <2>3, <3>2
  <2> HIDE DEF At, N
  <2>4. Right(g, n + 1)
    BY <2>2, <2>3
  <2> HIDE DEF Right
  <2>5. n + 1 \in 0 .. d + 1
    BY <1>5
  <2>6. QED BY <2>4, <2>5
<1>6. d + 1 \in T
  <2> HIDE DEF T
  <2>1. d + 1 \in Nat
    BY <1>1
  <2>2. \A n \in 0 .. d + 1 : n \in T
    BY <1>4, <1>5, <2>1, CountUp
  <2>3. QED BY <2>1, <2>2
<1>7. PICK f : Right(f, d + 1)
  <2> HIDE DEF Right
  <2>1. QED BY <1>6
<1>8. \A p \in N : Len(p) >= (d + 1) - (d + 1)
  BY <1>2
<1> HIDE DEF At
<1>9. DOMAIN f = N /\ \A p \in N : f[p] = At(f, p)
  <2> HIDE DEF N
  <2>1. QED BY <1>7, <1>8
<1> DEFINE x == [p \in DOMAIN f |-> f[p]]
           y == [p \in N |-> At(f, p)]
<1>10. x = y
  <2> HIDE DEF N
  <2>1. QED BY <1>9
<1>11. IsRows(x, report, closed, accepted)
  <2>1. \A p \in N : \A c \in S : x[c] = f[c]
    BY <1>3, <1>9
  <2>2. \A p \in N : At(x, p) = At(f, p)
    <3> HIDE DEF x
    <3>1. QED BY <2>1, BelowAgrees DEF At
  <2>3. x = [p \in N |-> At(x, p)]
    <3> HIDE DEF N, x
    <3>1. y = [p \in N |-> At(x, p)]
      BY <2>2
    <3>2. QED BY <1>10, <3>1
  <2> HIDE DEF x
  <2>4. QED BY <2>3 DEF IsRows, At
<1>12. QED BY <1>11

\* Rows found by the recursion.
Rows(r, report, closed, accepted) ==
    /\ r \in [Branches(report) -> Seq(Nodes(report))]
    /\ \A p \in Branches(report) : r[p] = RowsAt(r, p, report, closed, accepted)

LEMMA RowsOfIs ==
    ASSUME NEW report \in ReportSeq, NEW closed, NEW accepted
    PROVE  \E r : Rows(r, report, closed, accepted) /\ RowsOf(report, closed, accepted) = r[<<>>]
<1> DEFINE r == CHOOSE f : IsRows(f, report, closed, accepted)
           N == Branches(report)
           V == Seq(Nodes(report))
<1>1. IsRows(r, report, closed, accepted)
  BY RowsExist
<1>2. RowsOf(report, closed, accepted) = r[<<>>]
  BY DEF RowsOf, r, IsRows, RowsAt, Below, Branches
<1> HIDE DEF r
<1>3. r = [p \in N |-> RowsAt(r, p, report, closed, accepted)]
  BY <1>1 DEF IsRows
<1> HIDE DEF N
<1>4. DOMAIN r = N /\ \A p \in N : r[p] = RowsAt(r, p, report, closed, accepted)
  BY <1>3
<1>5. PICK d \in Nat : \A i \in DOMAIN report : Len(report[i].path) <= d
  BY DeepEnough
<1>6. \A p \in N : Len(p) \in Nat /\ Len(p) <= d
  BY <1>5, TreeDepth, TreeFacts DEF N
<1>7. Nodes(report) \subseteq N
  BY DEF Branches, N
<1> DEFINE T == {n \in 0 .. d + 1 : \A p \in N : Len(p) >= (d + 1) - n => r[p] \in V}
<1> HIDE DEF V
<1>8. 0 \in T
  BY <1>5, <1>6
<1>9. ASSUME NEW n \in 0 .. d + 1, n < d + 1, n \in T PROVE n + 1 \in T
  <2>1. ASSUME NEW p \in N, Len(p) >= (d + 1) - (n + 1) PROVE r[p] \in V
    <3>1. ASSUME NEW c \in Nodes(report), Len(c) = Len(p) + 1 PROVE r[c] \in V
      <4>1. c \in N /\ Len(c) >= (d + 1) - n
        BY <1>6, <1>7, <2>1, <3>1
      <4>2. QED BY <1>9, <4>1
    <3>2. RowsAt(r, p, report, closed, accepted) \in V
      BY <3>1, RowsAtTyped DEF V, N
    <3>3. QED BY <1>4, <3>2
  <2>2. n + 1 \in 0 .. d + 1
    BY <1>9
  <2>3. QED BY <2>1, <2>2
<1>10. d + 1 \in T
  <2> HIDE DEF T
  <2>1. d + 1 \in Nat
    BY <1>5
  <2>2. \A n \in 0 .. d + 1 : n \in T
    BY <1>8, <1>9, <2>1, CountUp
  <2>3. QED BY <2>1, <2>2
<1>11. \A p \in N : r[p] \in V
  <2>1. \A p \in N : Len(p) >= (d + 1) - (d + 1)
    BY <1>6
  <2>2. QED BY <1>10, <2>1
<1>12. r \in [N -> V]
  BY <1>3, <1>4, <1>11
<1>13. Rows(r, report, closed, accepted)
  BY <1>4, <1>12 DEF Rows, N, V
<1>14. QED BY <1>2, <1>13

LEMMA ConcatHas ==
    ASSUME NEW S, NEW s \in Seq(S), NEW t \in Seq(S), NEW x, x \in ToSet(s) \/ x \in ToSet(t)
    PROVE  x \in ToSet(s \o t)
<1> DEFINE both == s \o t
<1>1. /\ both \in Seq(S) /\ Len(both) = Len(s) + Len(t)
      /\ \A i \in 1 .. Len(s) + Len(t) : both[i] = IF i <= Len(s) THEN s[i] ELSE t[i - Len(s)]
  BY ConcatProperties
<1>2. Len(s) \in Nat /\ Len(t) \in Nat /\ DOMAIN s = 1 .. Len(s) /\ DOMAIN t = 1 .. Len(t)
  OBVIOUS
<1> HIDE DEF both
<1>3. DOMAIN both = 1 .. Len(s) + Len(t)
  BY <1>1
<1>4. CASE x \in ToSet(s)
  <2>1. PICK i \in 1 .. Len(s) : x = s[i]
    BY <1>2, <1>4 DEF ToSet
  <2>2. i \in 1 .. Len(s) + Len(t) /\ i <= Len(s)
    BY <1>2
  <2>3. both[i] = x
    BY <1>1, <2>1, <2>2
  <2>4. QED BY <1>3, <2>2, <2>3 DEF ToSet, both
<1>5. CASE x \in ToSet(t)
  <2>1. PICK i \in 1 .. Len(t) : x = t[i]
    BY <1>2, <1>5 DEF ToSet
  <2> DEFINE k == Len(s) + i
  <2>2. k \in 1 .. Len(s) + Len(t) /\ ~(k <= Len(s)) /\ k - Len(s) = i
    BY <1>2
  <2> HIDE DEF k
  <2>3. both[k] = x
    BY <1>1, <2>1, <2>2
  <2>4. QED BY <1>3, <2>2, <2>3 DEF ToSet, both
<1>6. QED BY <1>4, <1>5

LEMMA FlattenHas ==
    ASSUME NEW S, NEW C, \A c \in C : c \in Seq(S), NEW ss \in Seq(C), NEW j \in 1 .. Len(ss), NEW x \in ToSet(ss[j])
    PROVE  x \in ToSet(FlattenSeq(ss))
<1> DEFINE L == Len(ss)
<1>1. PICK h \in [0 .. L -> Seq(S)] : FlattenSeq(ss) = h[L] /\ \A i \in 1 .. L : h[i] = h[i - 1] \o ss[i]
  BY FlattenIs
<1>2. L \in Nat /\ j \in 1 .. L /\ \A i \in 1 .. L : ss[i] \in Seq(S)
  <2>1. \A i \in 1 .. L : ss[i] \in C
    OBVIOUS
  <2>2. QED BY <2>1
<1>3. x \in ToSet(ss[j])
  OBVIOUS
<1> HIDE DEF L
<1> DEFINE T == {k \in 0 .. L : k < j \/ x \in ToSet(h[k])}
<1>4. 0 \in T
  BY <1>2
<1>5. ASSUME NEW k \in 0 .. L, k < L, k \in T PROVE k + 1 \in T
  <2>1. k + 1 \in 0 .. L /\ k + 1 \in 1 .. L /\ (k + 1) - 1 = k
    BY <1>2, <1>5
  <2>2. h[k + 1] = h[k] \o ss[k + 1] /\ h[k] \in Seq(S) /\ ss[k + 1] \in Seq(S)
    BY <1>1, <1>2, <2>1
  <2>3. CASE k + 1 < j
    BY <2>1, <2>3
  <2>4. CASE k + 1 = j
    <3>1. x \in ToSet(ss[k + 1])
      BY <1>3, <2>4
    <3>2. x \in ToSet(h[k + 1])
      BY <2>2, <3>1, ConcatHas
    <3>3. QED BY <2>1, <3>2
  <2>5. CASE k >= j
    <3>1. x \in ToSet(h[k])
      BY <1>2, <1>5, <2>5
    <3>2. x \in ToSet(h[k + 1])
      BY <2>2, <3>1, ConcatHas
    <3>3. QED BY <2>1, <3>2
  <2>6. QED BY <1>2, <2>3, <2>4, <2>5
<1>6. L \in T
  <2> HIDE DEF T
  <2>1. \A k \in 0 .. L : k \in T
    BY <1>2, <1>4, <1>5, CountUp
  <2>2. QED BY <1>2, <2>1
<1>7. QED BY <1>1, <1>2, <1>6

\* What is below a node that is not folded has its rows below it.
LEMMA RowsBelow ==
    ASSUME NEW report \in ReportSeq, NEW closed, NEW accepted, NEW r, Rows(r, report, closed, accepted),
           NEW i \in DOMAIN report, NEW n \in 0 .. Len(report[i].path) - 1, SubSeq(report[i].path, 1, n) \notin closed,
           NEW x \in ToSet(r[SubSeq(report[i].path, 1, n + 1)])
    PROVE  x \in ToSet(r[SubSeq(report[i].path, 1, n)])
<1> DEFINE q == report[i].path
           p == SubSeq(q, 1, n)
           c == SubSeq(q, 1, n + 1)
           Named == {k \in DOMAIN report : IsPrefix(c, report[k].path)}
           j == Min(Named)
           o == report[j].path
<1>1. q \in Seq(STRING) /\ Len(q) \in Nat /\ n \in 0 .. Len(q) /\ n + 1 \in 0 .. Len(q) /\ n + 1 \in 1 .. Len(q)
  BY StatusFacts
<1>2. /\ c \in Nodes(report) /\ c \in Branches(report) /\ c \in Seq(STRING) /\ Len(c) = n + 1 /\ IsPrefix(c, q)
      /\ SubSeq(c, 1, n) = p
  <2>1. c \in Nodes(report)
    BY <1>1, TreeFacts
  <2>2. n \in 0 .. n + 1
    BY <1>1
  <2> HIDE DEF q
  <2>3. QED BY <1>1, <2>1, <2>2, BeginningIs DEF Branches
<1>3. p \in Branches(report) /\ Len(p) = n
  <2>1. Len(p) = n /\ p \in Seq(STRING)
    <3> HIDE DEF q
    <3>1. QED BY <1>1, BeginningIs
  <2>2. CASE n = 0
    <3>1. p = <<>>
      BY <2>1, <2>2
    <3>2. QED BY <2>1, <3>1 DEF Branches
  <2>3. CASE n # 0
    <3>1. n \in 1 .. Len(q)
      BY <1>1, <2>3
    <3>2. p \in Nodes(report)
      BY <3>1, TreeFacts
    <3>3. QED BY <2>1, <3>2 DEF Branches
  <2>4. QED BY <2>2, <2>3
<1>4. i \in Named /\ Named \subseteq Nat
  BY <1>2, StatusFacts
<1> HIDE DEF q, p, c
<1>5. j \in Named
  <2> HIDE DEF Named
  <2>1. QED BY <1>4, LeastIs
<1>6. j \in DOMAIN report /\ IsPrefix(c, o) /\ First(c, report) = j
  BY <1>5 DEF First
<1> HIDE DEF j, Named
<1>7. o \in Seq(STRING)
  BY <1>6, StatusFacts
<1> HIDE DEF o
<1>8. Len(o) \in Nat /\ n + 1 <= Len(o) /\ SubSeq(o, 1, n + 1) = c
  <2>1. SubSeq(c, 1, n + 1) = c
    BY <1>2, SubSeqFull
  <2>2. QED BY <1>2, <1>6, <1>7, <2>1 DEF IsPrefix
<1>9. SubSeq(o, 1, n) = p
  <2>1. n + 1 \in 0 .. Len(o) /\ n \in 0 .. n + 1
    BY <1>1, <1>8
  <2>2. SubSeq(SubSeq(o, 1, n + 1), 1, n) = SubSeq(o, 1, n)
    BY <1>7, <2>1, BeginningIs
  <2>3. QED BY <1>2, <1>8, <2>2
<1>10. IsPrefix(p, o) /\ p # o
  <2>1. n \in 0 .. Len(o) /\ n < Len(o)
    BY <1>1, <1>8
  <2>2. IsPrefix(SubSeq(o, 1, n), o)
    BY <1>7, <2>1, BeginningIs
  <2>3. p # o
    BY <1>3, <1>8, <2>1
  <2>4. QED BY <1>9, <2>2, <2>3
<1>11. ChildAt(p, report, j) = c
  BY <1>3, <1>8 DEF ChildAt, o
<1>12. NamesChild(p, report, j)
  BY <1>6, <1>10, <1>11 DEF NamesChild, o
<1> DEFINE b == Below(r, p, report)
           S == Nodes(report)
           C == Seq(S)
           self == IF p # <<>> /\ (LevelOf(p, report) \in accepted \/ IsGroup(p, report)) THEN <<p>> ELSE <<>>
<1>13. b[j] = r[c] /\ j \in 1 .. Len(report)
  BY <1>6, <1>11, <1>12, StatusFacts DEF Below
<1>14. r[p] = self \o FlattenSeq(b)
  BY <1>3 DEF Rows, RowsAt, p, q
<1>15. \A k \in S : r[k] \in C
  BY DEF Rows, Branches
<1>16. p # <<>> => p \in S
  BY <1>3 DEF Branches
<1> HIDE DEF S
<1>17. <<>> \in C /\ (\A k \in C : k \in Seq(S)) /\ self \in Seq(S)
  BY <1>16
<1> HIDE DEF self, C
<1>18. b \in Seq(C) /\ Len(b) = Len(report)
  BY <1>3, <1>15, <1>17, BelowTyped DEF S
<1> HIDE DEF b
<1>19. x \in ToSet(b[j])
  BY <1>13 DEF c, q
<1>20. x \in ToSet(FlattenSeq(b))
  BY <1>13, <1>17, <1>18, <1>19, FlattenHas
<1>21. FlattenSeq(b) \in Seq(S)
  <2>1. PICK h \in [0 .. Len(b) -> Seq(S)] : FlattenSeq(b) = h[Len(b)]
    BY <1>17, <1>18, FlattenIs
  <2>2. Len(b) \in 0 .. Len(b)
    BY <1>18
  <2>3. QED BY <2>1, <2>2
<1>22. x \in ToSet(self \o FlattenSeq(b))
  BY <1>17, <1>20, <1>21, ConcatHas
<1>23. QED BY <1>14, <1>22 DEF p, q

LEMMA RowsReach ==
    ASSUME NEW report \in ReportSeq, NEW closed, NEW accepted, NEW r, Rows(r, report, closed, accepted),
           NEW i \in DOMAIN report,
           \A n \in 0 .. Len(report[i].path) - 1 : SubSeq(report[i].path, 1, n) \notin closed,
           NEW x \in ToSet(r[report[i].path])
    PROVE  x \in ToSet(r[<<>>])
<1> DEFINE q == report[i].path
           L == Len(q)
           T == {m \in 0 .. L : x \in ToSet(r[SubSeq(q, 1, L - m)])}
<1>1. q \in Seq(STRING) /\ L \in Nat
  BY StatusFacts
<1>2. 0 \in T
  <2>1. SubSeq(q, 1, L) = q /\ L - 0 = L
    BY <1>1, SubSeqFull
  <2>2. x \in ToSet(r[SubSeq(q, 1, L - 0)])
    BY <2>1
  <2>3. 0 \in 0 .. L
    BY <1>1
  <2> HIDE DEF q, L
  <2>4. QED BY <2>2, <2>3
<1>3. ASSUME NEW m \in 0 .. L, m < L, m \in T PROVE m + 1 \in T
  <2> DEFINE n == L - (m + 1)
  <2>1. n \in 0 .. L - 1 /\ n + 1 = L - m /\ m + 1 \in 0 .. L
    BY <1>1, <1>3
  <2>2. x \in ToSet(r[SubSeq(q, 1, n + 1)])
    BY <1>3, <2>1
  <2> HIDE DEF n
  <2>3. x \in ToSet(r[SubSeq(q, 1, n)])
    BY <2>1, <2>2, RowsBelow
  <2>4. QED BY <2>1, <2>3 DEF n
<1>4. L \in T
  <2> HIDE DEF T
  <2>1. \A m \in 0 .. L : m \in T
    BY <1>1, <1>2, <1>3, CountUp
  <2>2. QED BY <1>1, <2>1
<1>5. SubSeq(q, 1, L - L) = <<>>
  <2>1. L - L = 0 /\ 0 \in 0 .. Len(q)
    BY <1>1
  <2> HIDE DEF q
  <2>2. Len(SubSeq(q, 1, 0)) = 0 /\ SubSeq(q, 1, 0) \in Seq(STRING)
    BY <1>1, <2>1, BeginningIs
  <2>3. QED BY <2>1, <2>2
<1>6. QED BY <1>4, <1>5

-----------------------------------------------------------------------------
(* The levels.                                                             *)

LEMMA OwnTyped ==
    ASSUME NEW report \in ReportSeq, NEW p
    PROVE  Own(p, report) \in Levels
<1> DEFINE said == {i \in DOMAIN report : report[i].path = p}
<1>1. DOMAIN report = 1 .. Len(report) /\ Len(report) \in Nat
  BY DEF ReportSeq
<1>2. said \subseteq 0 .. Len(report) /\ said \subseteq DOMAIN report
  BY <1>1
<1>3. Own(p, report) = IF said = {} THEN "OK" ELSE report[Max(said)].level
  BY DEF Own
<1> HIDE DEF said
<1>4. CASE said = {}
  BY <1>3, <1>4 DEF Levels
<1>5. CASE said # {}
  <2>1. Max(said) \in DOMAIN report
    BY <1>1, <1>2, <1>5, GreatestIs
  <2>2. QED BY <1>3, <1>5, <2>1, StatusFacts
<1>6. QED BY <1>4, <1>5

\* The last status of a name stands.
LEMMA OwnIs ==
    ASSUME NEW report \in ReportSeq, NEW i \in DOMAIN report,
           \A j \in DOMAIN report : report[j].path = report[i].path => j <= i
    PROVE  Own(report[i].path, report) = report[i].level
<1> DEFINE said == {j \in DOMAIN report : report[j].path = report[i].path}
<1>1. DOMAIN report = 1 .. Len(report) /\ Len(report) \in Nat
  BY DEF ReportSeq
<1>2. said \subseteq 0 .. Len(report) /\ i \in said /\ \A j \in said : j <= i
  BY <1>1
<1>3. Own(report[i].path, report) = IF said = {} THEN "OK" ELSE report[Max(said)].level
  BY DEF Own
<1> HIDE DEF said
<1>4. Max(said) \in said /\ i <= Max(said)
  BY <1>1, <1>2, GreatestIs
<1>5. Max(said) = i
  <2> DEFINE m == Max(said)
  <2>1. m \in Nat /\ m <= i /\ i <= m /\ i \in Nat
    BY <1>1, <1>2, <1>4
  <2> HIDE DEF m
  <2>2. m = i
    BY <2>1
  <2>3. QED BY <2>2 DEF m
<1>6. QED BY <1>2, <1>3, <1>5

\* A level that is at least another one is as bad.
LEMMA RankIs ==
    /\ \A l \in Levels : Rank(l) >= Rank("ERROR") => l = "ERROR"
    /\ \A l \in Levels : Rank(l) >= Rank("STALE") => l \in {"STALE", "ERROR"}
    /\ \A l \in Levels : Rank(l) >= Rank("WARN") => l # "OK"
    /\ \A l \in Levels : Rank(l) \in 1 .. 4
BY DEF Rank, Levels

\* A node is at the worst level below it.
LEMMA LevelIs ==
    ASSUME NEW report \in ReportSeq, NEW p, NEW q \in Under(p, report)
    PROVE  /\ LevelOf(p, report) \in {Own(k, report) : k \in Under(p, report)}
           /\ Rank(LevelOf(p, report)) >= Rank(Own(q, report))
<1> DEFINE U == Under(p, report)
           O(k) == Own(k, report)
           all == {O(k) : k \in U}
           ranks == {Rank(O(k)) : k \in U}
           g == Max(ranks)
<1>1. \A k \in U : O(k) \in Levels
  BY OwnTyped
<1> HIDE DEF U, O
<1>2. \A k \in U : Rank(O(k)) \in 1 .. 4
  BY <1>1, RankIs
<1>3. q \in U
  BY DEF U
<1>4. ranks \subseteq 0 .. 4 /\ ranks # {}
  BY <1>2, <1>3
<1>5. g \in ranks /\ \A m \in ranks : m <= g
  <2> HIDE DEF ranks
  <2>1. 4 \in Nat
    OBVIOUS
  <2>2. QED BY <1>4, <2>1, GreatestIs
<1> HIDE DEF g
<1>6. PICK w \in U : g = Rank(O(w))
  BY <1>5
<1>7. \A k \in U : Rank(O(w)) >= Rank(O(k))
  <2>1. \A k \in U : Rank(O(k)) \in ranks /\ Rank(O(k)) \in Int
    BY <1>2
  <2> HIDE DEF ranks
  <2>2. g \in Int
    BY <1>2, <1>6
  <2>3. \A k \in U : g >= Rank(O(k))
    BY <1>5, <2>1, <2>2
  <2>4. QED BY <1>6, <2>3
<1>8. \E l \in all : \A k \in U : Rank(l) >= Rank(O(k))
  BY <1>7
<1> DEFINE l == CHOOSE l \in all : \A k \in U : Rank(l) >= Rank(O(k))
<1>9. l \in all /\ \A k \in U : Rank(l) >= Rank(O(k))
  <2> HIDE DEF all
  <2>1. QED BY <1>8
<1>10. LevelOf(p, report) = l
  BY DEF LevelOf, U, O
<1> HIDE DEF l
<1>11. QED BY <1>3, <1>9, <1>10 DEF U, O

\* The level of a node that carries no others is its own.
LEMMA LeafLevel ==
    ASSUME NEW report \in ReportSeq, NEW p \in Nodes(report), ~IsGroup(p, report)
    PROVE  LevelOf(p, report) = Own(p, report)
<1>1. p \in Seq(STRING) /\ Len(p) \in Nat
  BY TreeFacts DEF Path
<1>2. IsPrefix(p, p)
  BY <1>1 DEF IsPrefix
<1>3. p \in Under(p, report) /\ \A k \in Under(p, report) : k = p
  BY <1>2 DEF Under, IsGroup
<1>4. LevelOf(p, report) \in {Own(k, report) : k \in Under(p, report)}
  BY <1>3, LevelIs
<1>5. QED BY <1>3, <1>4

-----------------------------------------------------------------------------
(* The view.                                                               *)

\* What is shown is what the snapshot, the folds and the filters make of it; the first row
\* of all is never folded.
MonitorInv ==
    /\ latest \in ReportSeq /\ snapshot \in ReportSeq
    /\ <<>> \notin folded
    /\ rows \in Seq(Path)
    /\ snapshot # <<>> => rows = RowsOf(snapshot, folded, filters)
    /\ selected \in Nat
    /\ DetailsOfSelected

LEMMA RowsTyped ==
    ASSUME NEW report \in ReportSeq, NEW closed, NEW accepted
    PROVE  RowsOf(report, closed, accepted) \in Seq(Path)
<1>1. PICK r : Rows(r, report, closed, accepted) /\ RowsOf(report, closed, accepted) = r[<<>>]
  BY RowsOfIs
<1>2. <<>> \in Branches(report) /\ Nodes(report) \subseteq Path
  BY TreeFacts DEF Branches
<1>3. r[<<>>] \in Seq(Nodes(report))
  BY <1>1, <1>2 DEF Rows
<1> DEFINE s == r[<<>>]
<1> HIDE DEF s
<1>4. s \in Seq(Path)
  BY <1>2, <1>3 DEF s
<1>5. QED BY <1>1, <1>4 DEF s

\* A list has its details, whatever was selected before.
LEMMA DetailsFollow ==
    ASSUME selected \in Nat, NEW report, NEW closed, NEW accepted, RowsOf(report, closed, accepted) \in Seq(Path),
           Rebuild(report, closed, accepted)
    PROVE  selected' \in Nat /\ DetailsOfSelected' /\ rows' = RowsOf(report, closed, accepted)
<1> DEFINE list == RowsOf(report, closed, accepted)
           n == Clamped(list)
<1>1. rows' = list /\ selected' = n /\ details' = Shown(n, list, report)
  BY DEF Rebuild
<1>2. Len(list) \in Nat /\ (list # <<>> => Len(list) > 0) /\ (list = <<>> => Len(list) = 0)
  OBVIOUS
<1> HIDE DEF list
<1>3. n \in Nat /\ (list # <<>> => n < Len(list)) /\ (list = <<>> => ~(n < Len(list)))
  BY <1>2 DEF Clamped
<1> HIDE DEF n
<1>4. details' = IF n < Len(list) THEN <<list[n + 1], LevelOf(list[n + 1], report)>> ELSE Nowhere
  BY <1>1 DEF Shown
<1>5. list = <<>> => details' = Nowhere
  BY <1>3, <1>4
<1>6. list # <<>> => n < Len(list) /\ details'[1] = list[n + 1]
  BY <1>3, <1>4
<1>7. DetailsOfSelected'
  BY <1>1, <1>5, <1>6 DEF DetailsOfSelected
<1>8. QED BY <1>1, <1>3, <1>7 DEF list

LEMMA RebuildKeeps ==
    ASSUME MonitorInv, NEW report \in ReportSeq, NEW closed, NEW accepted, Rebuild(report, closed, accepted),
           latest' \in ReportSeq, snapshot' = report, folded' = closed, filters' = accepted, <<>> \notin closed
    PROVE  MonitorInv'
<1>1. RowsOf(report, closed, accepted) \in Seq(Path)
  BY RowsTyped
<1>2. selected' \in Nat /\ DetailsOfSelected' /\ rows' = RowsOf(report, closed, accepted)
  BY <1>1, DetailsFollow DEF MonitorInv
<1>3. snapshot' # <<>> => rows' = RowsOf(snapshot', folded', filters')
  BY <1>2
<1>4. QED BY <1>1, <1>2, <1>3 DEF MonitorInv

LEMMA EmptyReport == <<>> \in ReportSeq /\ \A report \in Report : report \in ReportSeq
<1>1. <<>> \in ReportSeq
  BY DEF ReportSeq
<1>2. Report \subseteq Seq(StatusSaid)
  BY ViewAssumption DEF StatusSaid, Path
<1>3. QED BY <1>1, <1>2 DEF ReportSeq

LEMMA ViewStarts == ViewInit => MonitorInv
<1> SUFFICES ASSUME ViewInit PROVE MonitorInv
  OBVIOUS
<1>1. latest \in ReportSeq /\ snapshot \in ReportSeq /\ snapshot = <<>>
  BY EmptyReport DEF ViewInit
<1>2. folded = {} /\ rows = <<>> /\ selected = 0 /\ details = Nowhere
  BY DEF ViewInit
<1>3. QED BY <1>1, <1>2 DEF MonitorInv, DetailsOfSelected

LEMMA ViewStepKeeps == MonitorInv /\ [ViewNext]_viewVars => MonitorInv'
<1> SUFFICES ASSUME MonitorInv, [ViewNext]_viewVars PROVE MonitorInv'
  OBVIOUS
<1>0. /\ latest \in ReportSeq /\ snapshot \in ReportSeq /\ <<>> \notin folded /\ rows \in Seq(Path)
      /\ selected \in Nat /\ DetailsOfSelected
  BY DEF MonitorInv
<1>1. CASE UpdateModel
  <2>1. latest' \in ReportSeq
    BY <1>1, EmptyReport DEF UpdateModel
  <2>2. UNCHANGED <<snapshot, folded, filters, rows, selected, details>>
    BY <1>1 DEF UpdateModel
  <2>3. QED BY <2>1, <2>2 DEF MonitorInv, DetailsOfSelected
<1>2. CASE Refresh
  <2>1. /\ Rebuild(latest, folded, filters) /\ latest' = latest /\ snapshot' = latest
        /\ folded' = folded /\ filters' = filters
    BY <1>2 DEF Refresh
  <2>2. QED BY <1>0, <2>1, RebuildKeeps
<1>3. CASE ToggleFilter
  <2>1. Rebuild(snapshot, folded, filters') /\ latest' = latest /\ snapshot' = snapshot /\ folded' = folded
    BY <1>3 DEF ToggleFilter
  <2> DEFINE accepted == filters'
  <2>2. Rebuild(snapshot, folded, accepted) /\ filters' = accepted
    BY <2>1
  <2> HIDE DEF accepted
  <2>3. QED BY <1>0, <2>1, <2>2, RebuildKeeps
<1>4. CASE Select
  <2>1. /\ rows # <<>> /\ selected' \in 0 .. Len(rows) - 1 /\ details' = Shown(selected', rows, snapshot)
        /\ latest' = latest /\ snapshot' = snapshot /\ folded' = folded /\ filters' = filters /\ rows' = rows
    BY <1>4 DEF Select
  <2>2. selected' \in Nat /\ selected' < Len(rows)
    BY <1>0, <2>1
  <2>3. details' = <<rows[selected' + 1], LevelOf(rows[selected' + 1], snapshot)>>
    BY <2>1, <2>2 DEF Shown
  <2>4. details'[1] = rows[selected' + 1]
    BY <2>3
  <2>5. DetailsOfSelected'
    BY <2>1, <2>2, <2>4 DEF DetailsOfSelected
  <2>6. snapshot' # <<>> => rows' = RowsOf(snapshot', folded', filters')
    BY <2>1 DEF MonitorInv
  <2>7. QED BY <1>0, <2>1, <2>2, <2>5, <2>6 DEF MonitorInv
<1>5. CASE ToggleSelected
  <2> DEFINE p == rows[selected + 1]
             closed == IF p \in folded THEN folded \ {p} ELSE folded \cup {p}
  <2>1. /\ selected < Len(rows) /\ Rebuild(snapshot, folded', filters) /\ folded' = closed
        /\ latest' = latest /\ snapshot' = snapshot /\ filters' = filters
    BY <1>5 DEF ToggleSelected
  <2>2. selected + 1 \in 1 .. Len(rows)
    BY <1>0, <2>1
  <2>3. p \in Path
    BY <1>0, <2>2
  <2>4. p # <<>>
    BY <2>3 DEF Path
  <2> HIDE DEF p
  <2>5. <<>> \notin closed
    BY <1>0, <2>4
  <2> HIDE DEF closed
  <2>6. Rebuild(snapshot, closed, filters)
    BY <2>1
  <2>7. QED BY <1>0, <2>1, <2>5, <2>6, RebuildKeeps
<1>6. CASE UNCHANGED viewVars
  BY <1>6 DEF viewVars, MonitorInv, DetailsOfSelected
<1>7. QED BY <1>1, <1>2, <1>3, <1>4, <1>5, <1>6 DEF ViewNext

\* A status that stands has its row, and the nodes above it its level.
LEMMA NothingIsHidden ==
    ASSUME NEW report \in ReportSeq, report # <<>>, NEW closed, <<>> \notin closed, NEW accepted, NEW i \in DOMAIN report,
           \A j \in DOMAIN report : report[j].path = report[i].path => j <= i
    PROVE  LET s == report[i]
               above == {SubSeq(s.path, 1, n) : n \in 1 .. Len(s.path) - 1}
           IN  /\ s.level \in accepted /\ above \cap closed = {} => s.path \in ToSet(RowsOf(report, closed, accepted))
               /\ \A p \in above : s.level = "ERROR" => LevelOf(p, report) = "ERROR"
               /\ \A p \in above : s.level = "STALE" => LevelOf(p, report) \in {"STALE", "ERROR"}
               /\ \A p \in above : s.level = "WARN" => LevelOf(p, report) # "OK"
<1> DEFINE s == report[i]
           q == s.path
           above == {SubSeq(q, 1, n) : n \in 1 .. Len(q) - 1}
<1>1. q \in Seq(STRING) /\ Len(q) \in Nat \ {0} /\ q # <<>> /\ s.level \in Levels /\ q \in Nodes(report)
  BY StatusFacts, TreeFacts DEF Path
<1>2. Own(q, report) = s.level
  BY OwnIs
<1>3. ASSUME s.level \in accepted, above \cap closed = {} PROVE q \in ToSet(RowsOf(report, closed, accepted))
  <2>1. PICK r : Rows(r, report, closed, accepted) /\ RowsOf(report, closed, accepted) = r[<<>>]
    BY RowsOfIs
  <2>2. /\ r \in [Branches(report) -> Seq(Nodes(report))]
        /\ \A p \in Branches(report) : r[p] = RowsAt(r, p, report, closed, accepted)
    BY <2>1 DEF Rows
  <2>3. \A n \in 0 .. Len(q) - 1 : SubSeq(q, 1, n) \notin closed
    <3> TAKE n \in 0 .. Len(q) - 1
    <3>1. CASE n = 0
      <4> HIDE DEF q
      <4>1. 0 \in 0 .. Len(q)
        BY <1>1
      <4>2. SubSeq(q, 1, 0) \in Seq(STRING) /\ Len(SubSeq(q, 1, 0)) = 0
        BY <1>1, <4>1, BeginningIs
      <4>3. SubSeq(q, 1, 0) = <<>>
        BY <4>2
      <4>4. QED BY <3>1, <4>3
    <3>2. CASE n # 0
      <4>1. n \in 1 .. Len(q) - 1
        BY <1>1, <3>2
      <4>2. SubSeq(q, 1, n) \in above
        BY <4>1
      <4>3. QED BY <1>3, <4>2
    <3>3. QED BY <3>1, <3>2
  <2>4. LevelOf(q, report) \in accepted \/ IsGroup(q, report)
    BY <1>1, <1>2, <1>3, LeafLevel
  <2> DEFINE S == Nodes(report)
             under == IF q \in closed THEN <<>> ELSE FlattenSeq(Below(r, q, report))
  <2>5. q \in Branches(report) /\ r[q] = <<q>> \o under
    BY <1>1, <2>2, <2>4 DEF RowsAt, Branches
  <2>6. under \in Seq(S)
    <3> DEFINE C == Seq(S)
               b == Below(r, q, report)
    <3>1. \A k \in S : r[k] \in C
      BY <2>2 DEF Branches
    <3> HIDE DEF S
    <3>2. <<>> \in C /\ \A k \in C : k \in Seq(S)
      OBVIOUS
    <3> HIDE DEF C
    <3>3. b \in Seq(C)
      BY <2>5, <3>1, <3>2, BelowTyped DEF S
    <3> HIDE DEF b
    <3>4. PICK h \in [0 .. Len(b) -> Seq(S)] : FlattenSeq(b) = h[Len(b)]
      BY <3>2, <3>3, FlattenIs
    <3>5. Len(b) \in 0 .. Len(b)
      BY <3>3
    <3>6. FlattenSeq(b) \in Seq(S)
      BY <3>4, <3>5
    <3>7. QED BY <3>6 DEF b
  <2>7. q \in S
    BY <1>1
  <2> HIDE DEF S, under
  <2>8. <<q>> \in Seq(S) /\ q \in ToSet(<<q>>)
    <3>1. <<q>>[1] = q /\ 1 \in DOMAIN <<q>>
      OBVIOUS
    <3>2. QED BY <2>7, <3>1 DEF ToSet
  <2>9. q \in ToSet(r[q])
    BY <2>5, <2>6, <2>8, ConcatHas
  <2>10. q \in ToSet(r[<<>>])
    BY <2>1, <2>3, <2>9, RowsReach
  <2>11. QED BY <2>1, <2>10
<1>4. ASSUME NEW p \in above PROVE LevelOf(p, report) \in Levels /\ Rank(LevelOf(p, report)) >= Rank(s.level)
  <2>1. PICK n \in 1 .. Len(q) - 1 : p = SubSeq(q, 1, n)
    BY <1>4
  <2>2. IsPrefix(p, q)
    <3> HIDE DEF q
    <3>1. n \in 0 .. Len(q)
      BY <1>1
    <3>2. QED BY <1>1, <2>1, <3>1, BeginningIs
  <2>3. q \in Under(p, report)
    BY <1>1, <2>2 DEF Under
  <2>4. /\ LevelOf(p, report) \in {Own(k, report) : k \in Under(p, report)}
        /\ Rank(LevelOf(p, report)) >= Rank(Own(q, report))
    BY <2>3, LevelIs
  <2>5. QED BY <1>2, <2>4, OwnTyped
<1>5. \A p \in above : s.level = "ERROR" => LevelOf(p, report) = "ERROR"
  BY <1>4, RankIs
<1>6. \A p \in above : s.level = "STALE" => LevelOf(p, report) \in {"STALE", "ERROR"}
  BY <1>4, RankIs
<1>7. \A p \in above : s.level = "WARN" => LevelOf(p, report) # "OK"
  BY <1>4, RankIs
<1>8. QED BY <1>3, <1>5, <1>6, <1>7

\* The invariant makes the view sound.
LEMMA ViewInvSound == MonitorInv => ViewSound
<1> SUFFICES ASSUME MonitorInv PROVE ViewSound
  OBVIOUS
<1>1. snapshot \in ReportSeq /\ <<>> \notin folded /\ selected \in Nat /\ DetailsOfSelected
  BY DEF MonitorInv
<1>2. NothingHidden
  <2>1. CASE snapshot = <<>>
    <3>1. DOMAIN snapshot = {}
      BY <2>1
    <3>2. QED BY <3>1 DEF NothingHidden
  <2>2. CASE snapshot # <<>>
    <3>1. rows = RowsOf(snapshot, folded, filters)
      BY <2>2 DEF MonitorInv
    <3>2. QED BY <1>1, <2>2, <3>1, NothingIsHidden DEF NothingHidden
  <2>3. QED BY <2>1, <2>2
<1>3. QED BY <1>1, <1>2 DEF ViewSound
=============================================================================
