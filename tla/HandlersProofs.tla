---------------------------- MODULE HandlersProofs ----------------------------
(***************************************************************************)
(* What the proofs about Handlers' programs share: facts about the steps   *)
(* of a program that stay true while it runs, and the loop of a            *)
(* synchronous store, on which everyone but the one who runs is waiting.   *)
(***************************************************************************)
EXTENDS Handlers, SequenceTheorems, TLAPS

\* No x is left; no b after an a; a b is reached through an a only, and an a
\* leads to a b.
Lacks(s, x)        == \A i \in 1 .. Len(s) : s[i] # x
NoneAfter(s, a, b) == \A i, j \in 1 .. Len(s) : i < j /\ s[i] = a => s[j] # b
Preceded(s, a, b)  == \A i \in 1 .. Len(s) - 1 : s[i + 1] = b => s[i] = a
Followed(s, a, b)  == \A i \in 1 .. Len(s) : s[i] = a => i < Len(s) /\ s[i + 1] = b

LEMMA LenType == ASSUME NEW S, NEW s \in Seq(S) PROVE Len(s) \in Nat
  OBVIOUS

LEMMA TailSteps ==
    ASSUME NEW S, NEW s \in Seq(S), s # <<>>
    PROVE  /\ Tail(s) \in Seq(S) /\ Len(s) \in Nat \ {0} /\ Len(Tail(s)) = Len(s) - 1
           /\ Head(s) = s[1] /\ \A i \in 1 .. Len(s) - 1 : Tail(s)[i] = s[i + 1]
  OBVIOUS

LEMMA EmptyLacks == \A x : Lacks(<<>>, x)
  BY DEF Lacks

LEMMA LacksTail ==
    ASSUME NEW S, NEW s \in Seq(S), s # <<>>, NEW x
    PROVE  Lacks(s, x) <=> Head(s) # x /\ Lacks(Tail(s), x)
  <1>1. ASSUME Lacks(s, x) PROVE Head(s) # x /\ Lacks(Tail(s), x)
    BY <1>1, TailSteps DEF Lacks
  <1>2. ASSUME Head(s) # x, Lacks(Tail(s), x) PROVE Lacks(s, x)
    <2>1. SUFFICES ASSUME NEW i \in 1 .. Len(s) PROVE s[i] # x
      BY DEF Lacks
    <2>2. CASE i = 1
      BY <1>2, <2>2, TailSteps
    <2>3. CASE i # 1
      <3>1. i - 1 \in 1 .. Len(Tail(s)) /\ Tail(s)[i - 1] = s[i]
        BY <2>3, TailSteps
      <3>2. QED
        BY <1>2, <3>1 DEF Lacks
    <2>4. QED
      BY <2>2, <2>3
  <1>3. QED
    BY <1>1, <1>2

LEMMA NoneAfterTail ==
    ASSUME NEW S, NEW s \in Seq(S), s # <<>>, NEW a, NEW b, NoneAfter(s, a, b)
    PROVE  NoneAfter(Tail(s), a, b) /\ (Head(s) = a => Lacks(Tail(s), b))
  BY TailSteps DEF NoneAfter, Lacks

LEMMA PrecededTail ==
    ASSUME NEW S, NEW s \in Seq(S), s # <<>>, NEW a, NEW b, Preceded(s, a, b)
    PROVE  /\ Preceded(Tail(s), a, b)
           /\ Tail(s) # <<>> /\ Head(Tail(s)) = b => Head(s) = a
  <1>1. Preceded(Tail(s), a, b)
    <2>1. SUFFICES ASSUME NEW i \in 1 .. Len(Tail(s)) - 1, Tail(s)[i + 1] = b
                   PROVE  Tail(s)[i] = a
      BY DEF Preceded
    <2>2. /\ i + 1 \in 1 .. Len(s) - 1 /\ i \in 1 .. Len(s) - 1
          /\ Tail(s)[i + 1] = s[(i + 1) + 1] /\ Tail(s)[i] = s[i + 1]
      BY TailSteps
    <2>3. QED
      BY <2>1, <2>2 DEF Preceded
  <1>2. ASSUME Tail(s) # <<>>, Head(Tail(s)) = b PROVE Head(s) = a
    <2>1. Head(Tail(s)) = s[1 + 1] /\ 1 \in 1 .. Len(s) - 1
      BY <1>2, TailSteps
    <2>2. QED
      BY <1>2, <2>1, TailSteps DEF Preceded
  <1>3. QED
    BY <1>1, <1>2

LEMMA FollowedTail ==
    ASSUME NEW S, NEW s \in Seq(S), s # <<>>, NEW a, NEW b, Followed(s, a, b)
    PROVE  Followed(Tail(s), a, b) /\ (Head(s) = a => Tail(s) # <<>> /\ Head(Tail(s)) = b)
  <1>1. Followed(Tail(s), a, b)
    <2>1. SUFFICES ASSUME NEW i \in 1 .. Len(Tail(s)), Tail(s)[i] = a
                   PROVE  i < Len(Tail(s)) /\ Tail(s)[i + 1] = b
      BY DEF Followed
    <2>2. i + 1 \in 1 .. Len(s) /\ s[i + 1] = a /\ Len(Tail(s)) = Len(s) - 1
      BY <2>1, TailSteps
    <2>3. i + 1 < Len(s) /\ s[(i + 1) + 1] = b
      BY <2>2 DEF Followed
    <2>4. i + 1 \in 1 .. Len(s) - 1
      BY <2>2, <2>3, LenType
    <2>5. QED
      BY <2>2, <2>3, <2>4, TailSteps
  <1>2. ASSUME Head(s) = a PROVE Tail(s) # <<>> /\ Head(Tail(s)) = b
    <2>1. 1 < Len(s) /\ s[1 + 1] = b
      BY <1>2, TailSteps DEF Followed
    <2>2. Len(Tail(s)) # 0 /\ 1 \in 1 .. Len(s) - 1
      BY <2>1, TailSteps
    <2>3. Tail(s) # <<>>
      <3>1. Tail(s) \in Seq(S)
        BY TailSteps
      <3>2. QED
        BY <2>2, <3>1, EmptySeq
    <2>4. Tail(s)[1] = s[1 + 1]
      BY <2>2, TailSteps
    <2>5. QED
      BY <2>1, <2>3, <2>4, TailSteps
  <1>3. QED
    BY <1>1, <1>2

-----------------------------------------------------------------------------
(* Programs that are put together. *)

LEMMA ConcatLeft ==
    ASSUME NEW S, NEW s \in Seq(S), NEW t \in Seq(S), NEW i \in 1 .. Len(s)
    PROVE  i \in 1 .. Len(s \o t) /\ (s \o t)[i] = s[i]
  OBVIOUS

LEMMA ConcatRight ==
    ASSUME NEW S, NEW s \in Seq(S), NEW t \in Seq(S), NEW i \in 1 .. Len(t)
    PROVE  Len(s) + i \in 1 .. Len(s \o t) /\ (s \o t)[Len(s) + i] = t[i]
  <1>1. Len(s) \in Nat /\ Len(t) \in Nat /\ Len(s \o t) = Len(s) + Len(t)
    OBVIOUS
  <1> DEFINE n == Len(s) + i
  <1>2. n \in 1 .. Len(s) + Len(t) /\ ~(n <= Len(s)) /\ n - Len(s) = i
    BY <1>1
  <1>3. n \in 1 .. Len(s \o t)
    BY <1>1, <1>2
  <1> HIDE DEF n
  <1>4. (s \o t)[n] = t[n - Len(s)]
    BY <1>2, <1>3
  <1>5. QED
    BY <1>2, <1>3, <1>4 DEF n

LEMMA ConcatSplit ==
    ASSUME NEW S, NEW s \in Seq(S), NEW t \in Seq(S), NEW i \in 1 .. Len(s \o t)
    PROVE  i \in 1 .. Len(s) \/ \E j \in 1 .. Len(t) : i = Len(s) + j
  <1>1. Len(s) \in Nat /\ Len(t) \in Nat /\ Len(s \o t) = Len(s) + Len(t)
    OBVIOUS
  <1>2. CASE i <= Len(s)
    BY <1>1, <1>2
  <1>3. CASE i > Len(s)
    <2>1. i - Len(s) \in 1 .. Len(t) /\ i = Len(s) + (i - Len(s))
      BY <1>1, <1>3
    <2>2. QED
      BY <2>1
  <1>4. QED
    BY <1>1, <1>2, <1>3

LEMMA ConcatType ==
    ASSUME NEW S, NEW s \in Seq(S), NEW t \in Seq(S)
    PROVE  s \o t \in Seq(S)
  OBVIOUS

LEMMA ConcatLacks ==
    ASSUME NEW S, NEW s \in Seq(S), NEW t \in Seq(S), NEW x
    PROVE  Lacks(s \o t, x) <=> Lacks(s, x) /\ Lacks(t, x)
  <1>1. ASSUME Lacks(s \o t, x) PROVE Lacks(s, x) /\ Lacks(t, x)
    <2>1. Lacks(s, x)
      BY <1>1, ConcatLeft DEF Lacks
    <2>2. ASSUME NEW j \in 1 .. Len(t) PROVE t[j] # x
      <3>1. Len(s) + j \in 1 .. Len(s \o t) /\ (s \o t)[Len(s) + j] = t[j]
        BY ConcatRight
      <3>2. QED
        BY <1>1, <3>1 DEF Lacks
    <2>3. QED
      BY <2>1, <2>2 DEF Lacks
  <1>2. ASSUME Lacks(s, x), Lacks(t, x) PROVE Lacks(s \o t, x)
    <2>1. SUFFICES ASSUME NEW i \in 1 .. Len(s \o t) PROVE (s \o t)[i] # x
      BY DEF Lacks
    <2>2. CASE i \in 1 .. Len(s)
      BY <1>2, <2>2, ConcatLeft DEF Lacks
    <2>3. CASE \E j \in 1 .. Len(t) : i = Len(s) + j
      BY <1>2, <2>3, ConcatRight DEF Lacks
    <2>4. QED
      BY <2>2, <2>3, ConcatSplit
  <1>3. QED
    BY <1>1, <1>2

LEMMA ConcatNoneAfter ==
    ASSUME NEW S, NEW s \in Seq(S), NEW t \in Seq(S), NEW a, NEW b,
           NoneAfter(s, a, b), NoneAfter(t, a, b), Lacks(s, a) \/ Lacks(t, b)
    PROVE  NoneAfter(s \o t, a, b)
  <1>1. SUFFICES ASSUME NEW i \in 1 .. Len(s \o t), NEW j \in 1 .. Len(s \o t),
                        i < j, (s \o t)[i] = a
                 PROVE  (s \o t)[j] # b
    BY DEF NoneAfter
  <1>2. CASE j \in 1 .. Len(s)
    <2>1. i \in 1 .. Len(s)
      BY <1>1, <1>2
    <2>2. QED
      BY <1>1, <1>2, <2>1, ConcatLeft DEF NoneAfter
  <1>3. ASSUME NEW m \in 1 .. Len(t), j = Len(s) + m PROVE (s \o t)[j] # b
    <2>1. (s \o t)[j] = t[m]
      BY <1>3, ConcatRight
    <2>2. CASE i \in 1 .. Len(s)
      <3>1. ~Lacks(s, a)
        BY <1>1, <2>2, ConcatLeft DEF Lacks
      <3>2. QED
        BY <2>1, <3>1 DEF Lacks
    <2>3. ASSUME NEW n \in 1 .. Len(t), i = Len(s) + n PROVE (s \o t)[j] # b
      <3>1. n < m
        BY <1>1, <1>3, <2>3, LenType
      <3>2. t[n] = a
        BY <1>1, <2>3, ConcatRight
      <3>3. QED
        BY <2>1, <3>1, <3>2 DEF NoneAfter
    <2>4. QED
      BY <2>2, <2>3, ConcatSplit
  <1>4. QED
    BY <1>2, <1>3, ConcatSplit

LEMMA ConcatPreceded ==
    ASSUME NEW S, NEW s \in Seq(S), NEW t \in Seq(S), NEW a, NEW b,
           Preceded(s, a, b), Preceded(t, a, b), t # <<>> => Head(t) # b
    PROVE  Preceded(s \o t, a, b)
  <1>0. Len(s) \in Nat /\ Len(t) \in Nat /\ Len(s \o t) = Len(s) + Len(t)
    OBVIOUS
  <1>1. SUFFICES ASSUME NEW i \in 1 .. Len(s \o t) - 1, (s \o t)[i + 1] = b
                 PROVE  (s \o t)[i] = a
    BY DEF Preceded
  <1>2. i \in 1 .. Len(s \o t) /\ i + 1 \in 1 .. Len(s \o t)
    BY <1>0
  <1>3. CASE i + 1 \in 1 .. Len(s)
    <2>1. i \in 1 .. Len(s) /\ i \in 1 .. Len(s) - 1
      BY <1>0, <1>3
    <2>2. QED
      BY <1>1, <1>3, <2>1, ConcatLeft DEF Preceded
  <1>4. ASSUME NEW m \in 1 .. Len(t), i + 1 = Len(s) + m PROVE (s \o t)[i] = a
    <2>1. t[m] = b
      BY <1>1, <1>4, ConcatRight
    <2>2. m # 1
      <3>1. SUFFICES ASSUME m = 1 PROVE FALSE
        OBVIOUS
      <3>2. t # <<>>
        BY <1>0
      <3>3. QED
        BY <2>1, <3>1, <3>2, TailSteps
    <2>3. m - 1 \in 1 .. Len(t) - 1 /\ (m - 1) + 1 = m /\ i = Len(s) + (m - 1)
          /\ m - 1 \in 1 .. Len(t)
      BY <1>0, <1>4, <2>2
    <2>4. t[m - 1] = a
      BY <2>1, <2>3 DEF Preceded
    <2>5. QED
      BY <2>3, <2>4, ConcatRight
  <1>5. QED
    BY <1>2, <1>3, <1>4, ConcatSplit

LEMMA ConcatFollowed ==
    ASSUME NEW S, NEW s \in Seq(S), NEW t \in Seq(S), NEW a, NEW b,
           Followed(s, a, b), Followed(t, a, b)
    PROVE  Followed(s \o t, a, b)
  <1>0. Len(s) \in Nat /\ Len(t) \in Nat /\ Len(s \o t) = Len(s) + Len(t)
    OBVIOUS
  <1>1. SUFFICES ASSUME NEW i \in 1 .. Len(s \o t), (s \o t)[i] = a
                 PROVE  i < Len(s \o t) /\ (s \o t)[i + 1] = b
    BY DEF Followed
  <1>2. CASE i \in 1 .. Len(s)
    <2>1. i < Len(s) /\ s[i + 1] = b
      BY <1>1, <1>2, ConcatLeft DEF Followed
    <2>2. i + 1 \in 1 .. Len(s) /\ i < Len(s \o t)
      BY <1>0, <1>2, <2>1
    <2>3. QED
      BY <2>1, <2>2, ConcatLeft
  <1>3. ASSUME NEW m \in 1 .. Len(t), i = Len(s) + m
        PROVE  i < Len(s \o t) /\ (s \o t)[i + 1] = b
    <2>1. m < Len(t) /\ t[m + 1] = b
      BY <1>1, <1>3, ConcatRight DEF Followed
    <2>2. m + 1 \in 1 .. Len(t) /\ i + 1 = Len(s) + (m + 1) /\ i < Len(s \o t)
      BY <1>0, <1>3, <2>1
    <2>3. QED
      BY <2>1, <2>2, ConcatRight
  <1>4. QED
    BY <1>2, <1>3, ConcatSplit

\* A b comes after one of A only; between an a and a later b there is a g.
PrecededBy(s, A, b) == \A i \in 1 .. Len(s) - 1 : s[i + 1] = b => s[i] \in A
Until(s, a, g, b)   == \A i, j \in 1 .. Len(s) : i < j /\ s[i] = a /\ s[j] = b =>
                           \E k \in 1 .. Len(s) : i < k /\ s[k] = g

LEMMA PrecededByTail ==
    ASSUME NEW S, NEW s \in Seq(S), s # <<>>, NEW A, NEW b, PrecededBy(s, A, b)
    PROVE  /\ PrecededBy(Tail(s), A, b)
           /\ Tail(s) # <<>> /\ Head(Tail(s)) = b => Head(s) \in A
  <1>1. PrecededBy(Tail(s), A, b)
    <2>1. SUFFICES ASSUME NEW i \in 1 .. Len(Tail(s)) - 1, Tail(s)[i + 1] = b
                   PROVE  Tail(s)[i] \in A
      BY DEF PrecededBy
    <2>2. /\ i + 1 \in 1 .. Len(s) - 1 /\ i \in 1 .. Len(s) - 1
          /\ Tail(s)[i + 1] = s[(i + 1) + 1] /\ Tail(s)[i] = s[i + 1]
      BY TailSteps
    <2>3. QED
      BY <2>1, <2>2 DEF PrecededBy
  <1>2. ASSUME Tail(s) # <<>>, Head(Tail(s)) = b PROVE Head(s) \in A
    <2>1. Head(Tail(s)) = s[1 + 1] /\ 1 \in 1 .. Len(s) - 1
      BY <1>2, TailSteps
    <2>2. QED
      BY <1>2, <2>1, TailSteps DEF PrecededBy
  <1>3. QED
    BY <1>1, <1>2

LEMMA ConcatPrecededBy ==
    ASSUME NEW S, NEW s \in Seq(S), NEW t \in Seq(S), NEW A, NEW b,
           PrecededBy(t, A, b), Lacks(s, b), t # <<>> => Head(t) # b
    PROVE  PrecededBy(s \o t, A, b)
  <1>0. Len(s) \in Nat /\ Len(t) \in Nat /\ Len(s \o t) = Len(s) + Len(t)
    OBVIOUS
  <1>1. SUFFICES ASSUME NEW i \in 1 .. Len(s \o t) - 1, (s \o t)[i + 1] = b
                 PROVE  (s \o t)[i] \in A
    BY DEF PrecededBy
  <1>2. i \in 1 .. Len(s \o t) /\ i + 1 \in 1 .. Len(s \o t)
    BY <1>0
  <1>3. CASE i + 1 \in 1 .. Len(s)
    BY <1>1, <1>3, ConcatLeft DEF Lacks
  <1>4. ASSUME NEW m \in 1 .. Len(t), i + 1 = Len(s) + m PROVE (s \o t)[i] \in A
    <2>1. t[m] = b
      BY <1>1, <1>4, ConcatRight
    <2>2. m # 1
      <3>1. SUFFICES ASSUME m = 1 PROVE FALSE
        OBVIOUS
      <3>2. t # <<>>
        BY <1>0
      <3>3. QED
        BY <2>1, <3>1, <3>2, TailSteps
    <2>3. m - 1 \in 1 .. Len(t) - 1 /\ (m - 1) + 1 = m /\ i = Len(s) + (m - 1)
          /\ m - 1 \in 1 .. Len(t)
      BY <1>0, <1>4, <2>2
    <2>4. t[m - 1] \in A
      BY <2>1, <2>3 DEF PrecededBy
    <2>5. QED
      BY <2>3, <2>4, ConcatRight
  <1>5. QED
    BY <1>2, <1>3, <1>4, ConcatSplit

LEMMA UntilTail ==
    ASSUME NEW S, NEW s \in Seq(S), s # <<>>, NEW a, NEW g, NEW b, Until(s, a, g, b)
    PROVE  /\ Until(Tail(s), a, g, b)
           /\ Head(s) = a /\ Lacks(Tail(s), g) => Lacks(Tail(s), b)
  <1>0. Len(s) \in Nat \ {0} /\ Len(Tail(s)) = Len(s) - 1
    BY TailSteps
  <1>1. ASSUME NEW i \in 0 .. Len(Tail(s)), NEW j \in 1 .. Len(Tail(s)), i < j,
               s[i + 1] = a, Tail(s)[j] = b
        PROVE  \E k \in 1 .. Len(Tail(s)) : i < k /\ Tail(s)[k] = g
    <2>1. i + 1 \in 1 .. Len(s) /\ j + 1 \in 1 .. Len(s) /\ i + 1 < j + 1 /\ s[j + 1] = b
      BY <1>0, <1>1, TailSteps
    <2>2. PICK k \in 1 .. Len(s) : i + 1 < k /\ s[k] = g
      BY <1>1, <2>1 DEF Until
    <2>3. k - 1 \in 1 .. Len(s) - 1 /\ i < k - 1 /\ (k - 1) + 1 = k
      BY <1>0, <2>2
    <2>4. Tail(s)[k - 1] = s[(k - 1) + 1]
      BY <2>3, TailSteps
    <2>5. QED
      BY <1>0, <2>2, <2>3, <2>4
  <1>2. Until(Tail(s), a, g, b)
    <2>1. SUFFICES ASSUME NEW i \in 1 .. Len(Tail(s)), NEW j \in 1 .. Len(Tail(s)), i < j,
                          Tail(s)[i] = a, Tail(s)[j] = b
                   PROVE  \E k \in 1 .. Len(Tail(s)) : i < k /\ Tail(s)[k] = g
      BY DEF Until
    <2>2. s[i + 1] = a
      BY <1>0, <2>1, TailSteps
    <2>3. i \in 0 .. Len(Tail(s))
      BY <1>0
    <2>4. QED
      BY <1>1, <2>1, <2>2, <2>3
  <1>3. ASSUME Head(s) = a, Lacks(Tail(s), g) PROVE Lacks(Tail(s), b)
    <2>1. SUFFICES ASSUME NEW j \in 1 .. Len(Tail(s)), Tail(s)[j] = b PROVE FALSE
      BY DEF Lacks
    <2>2. PICK i \in 0 .. Len(Tail(s)) : i = 0
      BY <1>0
    <2>3. s[i + 1] = a /\ i < j
      BY <1>0, <1>3, <2>2, TailSteps
    <2>4. PICK k \in 1 .. Len(Tail(s)) : Tail(s)[k] = g
      BY <1>1, <2>1, <2>3
    <2>5. QED
      BY <1>3, <2>4 DEF Lacks
  <1>4. QED
    BY <1>2, <1>3

LEMMA ConcatUntil ==
    ASSUME NEW S, NEW s \in Seq(S), NEW t \in Seq(S), NEW a, NEW g, NEW b, Lacks(s, a), Until(t, a, g, b)
    PROVE  Until(s \o t, a, g, b)
  <1>0. Len(s) \in Nat /\ Len(t) \in Nat /\ Len(s \o t) = Len(s) + Len(t)
    OBVIOUS
  <1>1. SUFFICES ASSUME NEW i \in 1 .. Len(s \o t), NEW j \in 1 .. Len(s \o t), i < j,
                        (s \o t)[i] = a, (s \o t)[j] = b
                 PROVE  \E k \in 1 .. Len(s \o t) : i < k /\ (s \o t)[k] = g
    BY DEF Until
  <1>2. i \notin 1 .. Len(s)
    BY <1>1, ConcatLeft DEF Lacks
  <1>3. PICK n \in 1 .. Len(t) : i = Len(s) + n
    BY <1>2, ConcatSplit
  <1>4. j \notin 1 .. Len(s)
    BY <1>0, <1>1, <1>3
  <1>5. PICK m \in 1 .. Len(t) : j = Len(s) + m
    BY <1>4, ConcatSplit
  <1>6. n < m
    BY <1>0, <1>1, <1>3, <1>5
  <1>7. t[n] = a /\ t[m] = b
    BY <1>1, <1>3, <1>5, ConcatRight
  <1>8. PICK k \in 1 .. Len(t) : n < k /\ t[k] = g
    BY <1>6, <1>7 DEF Until
  <1>9. Len(s) + k \in 1 .. Len(s \o t) /\ (s \o t)[Len(s) + k] = t[k]
    BY ConcatRight
  <1>10. i < Len(s) + k
    BY <1>0, <1>3, <1>8
  <1>11. QED
    BY <1>8, <1>9, <1>10

-----------------------------------------------------------------------------
(* The loop. *)

ControlOK(S) == /\ DOMAIN pc = Handler /\ DOMAIN call = Handler
             /\ \A h \in Handler : pc[h] \in Seq(S)

\* On a synchronous store whoever does not wait has the loop.
LoopOK == /\ TurnOK
          /\ sync => \A h \in Handler : pc[h] # <<>> /\ Head(pc[h]) \notin Waits => turn = h

Ran(h, rest, c) ==
    /\ DOMAIN pc' = Handler /\ DOMAIN call' = Handler
    /\ pc'[h] = rest /\ call'[h] = (IF rest = <<>> THEN NoCall ELSE c)
    /\ \A g \in Handler \ {h} : pc'[g] = pc[g] /\ call'[g] = call[g]

LEMMA RunRan ==
    ASSUME NEW S, ControlOK(S), NEW h \in Handler, NEW rest, NEW c, Run(h, rest, c)
    PROVE  Ran(h, rest, c)
  BY DEF ControlOK, Run, Ran

LEMMA RunKeeps ==
    ASSUME NEW S, ControlOK(S), LoopOK, NEW h \in Handler, NEW rest \in Seq(S), NEW c, Run(h, rest, c),
           turn \in {None, h}
    PROVE  ControlOK(S)' /\ LoopOK'
  <1>1. Ran(h, rest, c)
    BY RunRan
  <1>2. ControlOK(S)'
    BY <1>1 DEF ControlOK, Ran
  <1>3. /\ turn' = IF sync /\ rest # <<>> /\ Head(rest) \notin Waits THEN h ELSE None
        /\ sync' = sync
    BY DEF Run
  <1>4. LoopOK'
    BY <1>1, <1>3, HandlersAssumption DEF LoopOK, TurnOK, Ran
  <1>5. QED
    BY <1>2, <1>4

LEMMA BreakRan ==
    ASSUME NEW S, ControlOK(S), LoopOK, NEW h \in Handler, Break(h)
    PROVE  ControlOK(S)' /\ LoopOK' /\ Ran(h, <<>>, NoCall)
  <1>1. Ran(h, <<>>, NoCall)
    BY DEF ControlOK, Break, Ran
  <1>2. <<>> \in Seq(S)
    OBVIOUS
  <1>3. ControlOK(S)'
    BY <1>1, <1>2 DEF ControlOK, Ran
  <1>4. turn' = None /\ sync' = sync /\ turn \in {None, h}
    BY DEF Break
  <1>5. LoopOK'
    BY <1>1, <1>4, HandlersAssumption DEF LoopOK, TurnOK, Ran
  <1>6. QED
    BY <1>1, <1>3, <1>5

LEMMA LoopInit == \A S : HandlersInit => ControlOK(S) /\ LoopOK
  BY DEF HandlersInit, ControlOK, LoopOK, TurnOK
===============================================================================
