--------------------------- MODULE DataPath_proofs ---------------------------
(***************************************************************************)
(* Proofs about the data path for any sessions, any traffic and any        *)
(* failures: the engine visits live sessions only, the link bits are true, *)
(* both streams stay whole and in order, and no segment is forgotten.      *)
(***************************************************************************)
EXTENDS DataPath, WellFoundedInduction, TLAPS

\* An active queue q and its link bits, for the sessions A that live and the
\* sessions X whose bit was set before they were linked.
LinksTrue(q, state, A, X) ==
  /\ q \in Seq(A) /\ IsInjective(q)
  /\ state \in [Session -> {0, 1}]
  /\ \A s \in Range(q) : state[s] = 1
  /\ \A s \in A \ X : state[s] = 1 => s \in Range(q)

\* What the loops have still to visit.
Visits ==
  /\ todo \in Seq(alive) /\ IsInjective(todo)
  /\ loop = "rx" => todo = <<>>
  /\ loop # "nns" => ready = {}
  /\ \A e \in ready : e.sess \in alive

LinkInv ==
  /\ alive \subseteq Session
  /\ LinksTrue(queue_f2b, state_f2b, alive, stray)
  /\ LinksTrue(queue_b2f, state_b2f, alive, stray)
  /\ Visits
-----------------------------------------------------------------------------
(* Induction on the natural numbers, for the numbers of a set.             *)
LEMMA InductionInSet ==
  ASSUME NEW P \in SUBSET Nat, 0 \in P, \A n \in P : n + 1 \in P
  PROVE  P = Nat
<1> SUFFICES ASSUME Nat \ P # {}
             PROVE  FALSE
  BY Zenon
<1>1. PICK R : R = OpToRel(<, Nat)
  BY Zenon
<1>2. IsWellFoundedOn(R, Nat)
  BY <1>1, NatLessThanWellFounded, Zenon
<1>3. \A x, y \in Nat : <<x, y>> \in R <=> x < y
  BY <1>1, Zenon DEF OpToRel
<1>4. Nat \ P \subseteq Nat
  BY Zenon
<1>5. PICK n \in Nat \ P : \A m \in Nat \ P : <<m, n>> \notin R
  BY <1>2, <1>4, WFMin, Zenon
<1>6. n - 1 \in P
  <2>1. n # 0
    BY Zenon
  <2>2. n - 1 \in Nat /\ n - 1 < n
    BY <2>1
  <2> QED
    BY <1>3, <1>5, <2>2, Zenon
<1>7. n - 1 + 1 = n
  OBVIOUS
<1> QED
  BY <1>6, <1>7, Zenon
-----------------------------------------------------------------------------
(* Sequences are equal when their elements are.                            *)
LEMMA SameElements ==
  ASSUME NEW S, NEW a \in Seq(S), NEW b \in Seq(S), Len(a) = Len(b),
         \A i \in 1 .. Len(a) : a[i] = b[i]
  PROVE  a = b
<1>1. DOMAIN a = 1 .. Len(a) /\ DOMAIN b = 1 .. Len(a)
  OBVIOUS
<1>2. a = [i \in 1 .. Len(a) |-> a[i]] /\ b = [i \in 1 .. Len(a) |-> b[i]]
  BY <1>1
<1> QED
  BY <1>2, Zenon

(* Functions on 1 .. n are sequences.                                      *)
LEMMA FunctionIsSeq ==
  ASSUME NEW S, NEW n \in Nat, NEW f \in [1 .. n -> S]
  PROVE  f \in Seq(S) /\ Len(f) = n
OBVIOUS

(* A sequence whose elements are in another set.                           *)
LEMMA ElementsIn ==
  ASSUME NEW S, NEW T, NEW q \in Seq(S), \A i \in DOMAIN q : q[i] \in T
  PROVE  q \in Seq(T)
OBVIOUS

(* The elements of a concatenation.                                        *)
LEMMA ConcatElements ==
  ASSUME NEW S, NEW a \in Seq(S), NEW b \in Seq(S)
  PROVE  /\ a \o b \in Seq(S) /\ Len(a \o b) = Len(a) + Len(b)
         /\ \A i \in 1 .. Len(a) + Len(b) :
              (a \o b)[i] = IF i <= Len(a) THEN a[i] ELSE b[i - Len(a)]
OBVIOUS

(* Concatenation is associative, and the empty sequence is its unit.       *)
LEMMA ConcatAssociates ==
  ASSUME NEW S, NEW a \in Seq(S), NEW b \in Seq(S), NEW c \in Seq(S)
  PROVE  /\ (a \o b) \o c = a \o (b \o c) /\ a \o b \in Seq(S)
         /\ a \o <<>> = a /\ <<>> \o a = a
OBVIOUS

(* Parts of a sequence, put together again.                                *)
LEMMA SubSeqJoin ==
  ASSUME NEW S, NEW q \in Seq(S), NEW j \in 0 .. Len(q), NEW k \in j .. Len(q)
  PROVE  /\ SubSeq(q, 1, j) \in Seq(S) /\ SubSeq(q, j + 1, k) \in Seq(S)
         /\ SubSeq(q, 1, k) = SubSeq(q, 1, j) \o SubSeq(q, j + 1, k)
         /\ SubSeq(q, 1, Len(q)) = q
<1>1. PICK a : a = SubSeq(q, 1, j)
  BY Zenon
<1>2. PICK b : b = SubSeq(q, j + 1, k)
  BY Zenon
<1>3. PICK c : c = SubSeq(q, 1, k)
  BY Zenon
<1>4. a \in Seq(S) /\ Len(a) = j /\ \A i \in 1 .. j : a[i] = q[i]
  BY <1>1
<1>5. b \in Seq(S) /\ Len(b) = k - j /\ \A i \in 1 .. k - j : b[i] = q[j + i]
  <2>1. b \in Seq(S)
    BY <1>2
  <2>2. Len(b) = k - j
    BY <1>2
  <2>3. \A i \in 1 .. k - j : b[i] = q[j + i]
    BY <1>2
  <2> QED
    BY <2>1, <2>2, <2>3, Zenon
<1>6. c \in Seq(S) /\ Len(c) = k /\ \A i \in 1 .. k : c[i] = q[i]
  BY <1>3
<1>7. /\ a \o b \in Seq(S) /\ Len(a \o b) = k
      /\ \A i \in 1 .. k : (a \o b)[i] = IF i <= j THEN a[i] ELSE b[i - j]
  <2>1. Len(a) + Len(b) = k
    BY <1>4, <1>5
  <2> QED
    BY <1>4, <1>5, <2>1, ConcatElements
<1>8. ASSUME NEW i \in 1 .. k
      PROVE  c[i] = (a \o b)[i]
  <2>1. CASE i <= j
    <3>1. i \in 1 .. j
      BY <2>1
    <3>2. c[i] = q[i] /\ a[i] = q[i]
      BY <1>4, <1>6, <3>1, Zenon
    <3>3. (a \o b)[i] = a[i]
      BY <1>7, <2>1, Zenon
    <3> QED
      BY <3>2, <3>3, Zenon
  <2>2. CASE ~(i <= j)
    <3>1. i - j \in 1 .. k - j /\ j + (i - j) = i
      BY <2>2
    <3>2. b[i - j] = q[j + (i - j)]
      BY <1>5, <3>1, Zenon
    <3>3. (a \o b)[i] = b[i - j]
      BY <1>7, <2>2, Zenon
    <3> QED
      BY <1>6, <3>1, <3>2, <3>3, Zenon
  <2> QED
    BY <2>1, <2>2, Zenon
<1>9. c = a \o b
  BY <1>6, <1>7, <1>8, SameElements, Zenon
<1>10. SubSeq(q, 1, Len(q)) = q
  OBVIOUS
<1> QED
  BY <1>1, <1>2, <1>3, <1>4, <1>5, <1>9, <1>10, Zenon

(* A sequence is its first elements and the others.                        *)
LEMMA SplitAt ==
  ASSUME NEW S, NEW q \in Seq(S), NEW k \in 0 .. Len(q)
  PROVE  /\ SubSeq(q, 1, k) \in Seq(S) /\ SubSeq(q, k + 1, Len(q)) \in Seq(S)
         /\ q = SubSeq(q, 1, k) \o SubSeq(q, k + 1, Len(q))
         /\ k # Len(q) => SubSeq(q, k + 1, Len(q)) # <<>>
<1>1. Len(q) \in k .. Len(q)
  OBVIOUS
<1>2. PICK b : b = SubSeq(q, k + 1, Len(q))
  BY Zenon
<1>3. Len(b) = Len(q) - k /\ Len(q) \in Nat /\ Len(<<>>) = 0
  BY <1>2
<1>4. k # Len(q) => b # <<>>
  BY <1>3
<1>5. /\ SubSeq(q, 1, k) \in Seq(S) /\ SubSeq(q, k + 1, Len(q)) \in Seq(S)
      /\ q = SubSeq(q, 1, k) \o SubSeq(q, k + 1, Len(q))
  BY <1>1, SubSeqJoin, ZenonT(60)
<1> QED
  BY <1>2, <1>4, <1>5, Zenon
-----------------------------------------------------------------------------
\* g[k] is what the first k sequences of q are together.
Partial(q, g) ==
  \A k \in 0 .. Len(q) : g[k] = IF k = 0 THEN <<>> ELSE g[k - 1] \o q[k]

(* Such a g exists: it is built one sequence at a time.                    *)
LEMMA PartialExists ==
  ASSUME NEW T, NEW q \in Seq(Seq(T))
  PROVE  \E g \in [0 .. Len(q) -> Seq(T)] : Partial(q, g)
<1> DEFINE Is(n) == \E g \in [0 .. n -> Seq(T)] :
             \A k \in 0 .. n : g[k] = IF k = 0 THEN <<>> ELSE g[k - 1] \o q[k]
           P == {n \in Nat : n <= Len(q) => Is(n)}
<1>1. 0 \in P
  <2>1. PICK g : g = [k \in 0 .. 0 |-> <<>>]
    BY Zenon
  <2>2. g \in [0 .. 0 -> Seq(T)] /\ \A k \in 0 .. 0 : k = 0 /\ g[k] = <<>>
    BY <2>1
  <2>3. Is(0)
    BY <2>2, Zenon
  <2> HIDE DEF Is
  <2> QED
    BY <2>3, Zenon
<1>2. ASSUME NEW n \in P
      PROVE  n + 1 \in P
  <2> SUFFICES ASSUME n + 1 <= Len(q)
               PROVE  Is(n + 1)
    <3> HIDE DEF Is
    <3> QED
      OBVIOUS
  <2>0. Is(n)
    <3> HIDE DEF Is
    <3> QED
      OBVIOUS
  <2>1. PICK g \in [0 .. n -> Seq(T)] :
          \A k \in 0 .. n : g[k] = IF k = 0 THEN <<>> ELSE g[k - 1] \o q[k]
    BY <2>0, Zenon
  <2>2. PICK x : x = g[n] \o q[n + 1]
    BY Zenon
  <2>3. x \in Seq(T)
    <3>1. g[n] \in Seq(T) /\ q[n + 1] \in Seq(T)
      OBVIOUS
    <3> QED
      BY <2>2, <3>1, ConcatAssociates, Zenon
  <2>4. PICK h : h = [k \in 0 .. n + 1 |-> IF k = n + 1 THEN x ELSE g[k]]
    BY Zenon
  <2>5. h \in [0 .. n + 1 -> Seq(T)]
    BY <2>3, <2>4
  <2>6. ASSUME NEW k \in 0 .. n + 1
        PROVE  h[k] = IF k = 0 THEN <<>> ELSE h[k - 1] \o q[k]
    <3>1. CASE k = n + 1
      <4>1. h[k] = x /\ h[k - 1] = g[n] /\ k # 0
        BY <2>4, <3>1
      <4> QED
        BY <2>2, <3>1, <4>1, Zenon
    <3>2. CASE k # n + 1
      <4>1. h[k] = g[k] /\ k \in 0 .. n
        BY <2>4, <3>2
      <4>2. k # 0 => h[k - 1] = g[k - 1]
        BY <2>4, <3>2
      <4> QED
        BY <2>1, <4>1, <4>2, Zenon
    <3> QED
      BY <3>1, <3>2, Zenon
  <2> QED
    BY <2>5, <2>6, Zenon
<1>3. P = Nat
  <2> HIDE DEF P
  <2>1. P \subseteq Nat
    BY Zenon DEF P
  <2> QED
    BY <1>1, <1>2, <2>1, InductionInSet, Zenon
<1>4. Is(Len(q))
  <2> HIDE DEF Is
  <2> QED
    BY <1>3
<1> QED
  BY <1>4, Zenon DEF Partial

(* And there is only one.                                                  *)
LEMMA PartialUnique ==
  ASSUME NEW T, NEW q \in Seq(Seq(T)), NEW g, Partial(q, g), NEW h, Partial(q, h)
  PROVE  \A k \in 0 .. Len(q) : g[k] = h[k]
<1> DEFINE P == {n \in Nat : n <= Len(q) => g[n] = h[n]}
<1>1. 0 \in P
  BY DEF Partial
<1>2. ASSUME NEW n \in P
      PROVE  n + 1 \in P
  <2> SUFFICES ASSUME n + 1 <= Len(q)
               PROVE  g[n + 1] = h[n + 1]
    OBVIOUS
  <2>1. n + 1 \in 0 .. Len(q) /\ n + 1 # 0 /\ n + 1 - 1 = n /\ g[n] = h[n]
    OBVIOUS
  <2> QED
    BY <2>1 DEF Partial
<1>3. P = Nat
  <2> HIDE DEF P
  <2>1. P \subseteq Nat
    BY Zenon DEF P
  <2> QED
    BY <1>1, <1>2, <2>1, InductionInSet, Zenon
<1> QED
  BY <1>3

(* Flatten is the last value of such a g.                                  *)
LEMMA FlattenIsPartial ==
  ASSUME NEW T, NEW q \in Seq(Seq(T)), NEW g, Partial(q, g)
  PROVE  Flatten(q) = g[Len(q)]
<1>1. PICK h \in [0 .. Len(q) -> Seq(T)] : Partial(q, h)
  BY PartialExists, Zenon
<1>2. h = [k \in 0 .. Len(q) |-> IF k = 0 THEN <<>> ELSE h[k - 1] \o q[k]]
  BY <1>1, Zenon DEF Partial
<1>3. PICK f : f = CHOOSE flat :
        flat = [k \in 0 .. Len(q) |-> IF k = 0 THEN <<>> ELSE flat[k - 1] \o q[k]]
  BY Zenon
<1>4. f = [k \in 0 .. Len(q) |-> IF k = 0 THEN <<>> ELSE f[k - 1] \o q[k]]
  BY <1>2, <1>3, Zenon
<1>5. Partial(q, f)
  BY <1>4, Zenon DEF Partial
<1>6. Flatten(q) = f[Len(q)]
  BY <1>3, Zenon DEF Flatten
<1>7. Len(q) \in 0 .. Len(q)
  OBVIOUS
<1> QED
  BY <1>5, <1>6, <1>7, PartialUnique

(* What Flatten makes of nothing, and of one sequence more.                *)
LEMMA FlattenAppend ==
  ASSUME NEW T, NEW q \in Seq(Seq(T)), NEW x \in Seq(T)
  PROVE  /\ Flatten(<<>>) = <<>>
         /\ Flatten(q) \in Seq(T)
         /\ Flatten(Append(q, x)) = Flatten(q) \o x
<1>1. Flatten(<<>>) = <<>>
  <2>1. <<>> \in Seq(Seq(T)) /\ Len(<<>>) = 0
    OBVIOUS
  <2>2. PICK g \in [0 .. 0 -> Seq(T)] : Partial(<<>>, g)
    BY <2>1, PartialExists, Zenon
  <2>3. g[0] = <<>>
    BY <2>1, <2>2 DEF Partial
  <2>4. Flatten(<<>>) = g[Len(<<>>)]
    BY <2>1, <2>2, FlattenIsPartial, Zenon
  <2> QED
    BY <2>1, <2>3, <2>4, Zenon
<1>2. PICK r : r = Append(q, x)
  BY Zenon
<1>3. /\ r \in Seq(Seq(T)) /\ Len(r) = Len(q) + 1 /\ r[Len(r)] = x /\ Len(q) \in Nat
      /\ \A i \in 1 .. Len(q) : r[i] = q[i]
  BY <1>2
<1>4. PICK g \in [0 .. Len(r) -> Seq(T)] : Partial(r, g)
  BY <1>3, PartialExists, Zenon
<1>5. Flatten(r) = g[Len(r)]
  BY <1>3, <1>4, FlattenIsPartial, Zenon
<1>6. Partial(q, g)
  <2> SUFFICES ASSUME NEW k \in 0 .. Len(q)
               PROVE  g[k] = IF k = 0 THEN <<>> ELSE g[k - 1] \o q[k]
    BY Zenon DEF Partial
  <2>1. k \in 0 .. Len(r) /\ (k # 0 => r[k] = q[k])
    BY <1>3
  <2>2. g[k] = IF k = 0 THEN <<>> ELSE g[k - 1] \o r[k]
    BY <1>4, <2>1, Zenon DEF Partial
  <2> QED
    BY <2>1, <2>2, Zenon
<1>7. Flatten(q) = g[Len(q)]
  BY <1>6, FlattenIsPartial, Zenon
<1>8. g[Len(r)] = g[Len(q)] \o x
  <2>1. Len(r) \in 0 .. Len(r) /\ Len(r) # 0 /\ Len(r) - 1 = Len(q)
    BY <1>3
  <2>2. g[Len(r)] = g[Len(r) - 1] \o r[Len(r)]
    BY <1>4, <2>1, Zenon DEF Partial
  <2> QED
    BY <1>3, <2>1, <2>2, Zenon
<1>9. g[Len(q)] \in Seq(T)
  BY <1>3, <1>4
<1> QED
  BY <1>1, <1>2, <1>5, <1>7, <1>8, <1>9, Zenon

(* Flatten of two lists of sequences is what it makes of each.          *)
LEMMA FlattenConcat ==
  ASSUME NEW T, NEW q \in Seq(Seq(T)), NEW r \in Seq(Seq(T))
  PROVE  Flatten(q \o r) = Flatten(q) \o Flatten(r)
<1> DEFINE Is(t) == Flatten(q \o t) = Flatten(q) \o Flatten(t)
           P == {n \in Nat : \A t \in Seq(Seq(T)) : Len(t) = n => Is(t)}
<1>1. 0 \in P
  <2>1. q \o <<>> = q /\ Flatten(<<>>) = <<>> /\ Flatten(q) \o <<>> = Flatten(q)
    BY FlattenAppend
  <2>2. \A t \in Seq(Seq(T)) : Len(t) = 0 => t = <<>>
    OBVIOUS
  <2> QED
    BY <2>1, <2>2, Zenon
<1>2. ASSUME NEW n \in P
      PROVE  n + 1 \in P
  <2>1. ASSUME NEW t \in Seq(Seq(T)), Len(t) = n + 1
        PROVE  Is(t)
    <3>1. PICK u : u = SubSeq(t, 1, n)
      BY Zenon
    <3>2. PICK x : x = t[n + 1]
      BY Zenon
    <3>3. u \in Seq(Seq(T)) /\ Len(u) = n /\ x \in Seq(T) /\ t = Append(u, x)
      BY <2>1, <3>1, <3>2
    <3>4. Is(u)
      BY <3>3, Zenon
    <3>5. q \o t = Append(q \o u, x) /\ q \o u \in Seq(Seq(T))
      BY <3>3, SMTT(30)
    <3>6. /\ Flatten(Append(q \o u, x)) = Flatten(q \o u) \o x
          /\ Flatten(Append(u, x)) = Flatten(u) \o x
      BY <3>3, <3>5, FlattenAppend, Zenon
    <3>7. Flatten(q) \in Seq(T) /\ Flatten(u) \in Seq(T)
      BY <3>3, FlattenAppend, Zenon
    <3>8. (Flatten(q) \o Flatten(u)) \o x = Flatten(q) \o (Flatten(u) \o x)
      <4>1. PICK a, b : a = Flatten(q) /\ b = Flatten(u)
        BY Zenon
      <4>2. a \in Seq(T) /\ b \in Seq(T) /\ x \in Seq(T)
        BY <3>3, <3>7, <4>1, Zenon
      <4>3. (a \o b) \o x = a \o (b \o x)
        BY <4>2, SMTT(30)
      <4> QED
        BY <4>1, <4>3, Zenon
    <3> QED
      BY <3>3, <3>4, <3>5, <3>6, <3>8, Zenon
  <2> HIDE DEF Is
  <2> QED
    BY <2>1
<1>3. P = Nat
  <2> HIDE DEF P
  <2>1. P \subseteq Nat
    BY Zenon DEF P
  <2> QED
    BY <1>1, <1>2, <2>1, InductionInSet, Zenon
<1> HIDE DEF Is
<1> QED
  <2>1. Len(r) \in P
    BY <1>3
  <2>2. Is(r)
    BY <2>1, Zenon
  <2> QED
    BY <2>2 DEF Is

(* The first sequence of a list, and the others.                           *)
LEMMA FlattenHead ==
  ASSUME NEW T, NEW q \in Seq(Seq(T)), q # <<>>
  PROVE  /\ Flatten(q) = Head(q) \o Flatten(Tail(q))
         /\ Head(q) \in Seq(T) /\ Flatten(Tail(q)) \in Seq(T)
<1>1. /\ Head(q) \in Seq(T) /\ Tail(q) \in Seq(Seq(T))
      /\ <<>> \in Seq(Seq(T)) /\ Append(<<>>, Head(q)) \in Seq(Seq(T))
      /\ q = Append(<<>>, Head(q)) \o Tail(q)
  OBVIOUS
<1>2. /\ Flatten(Append(<<>>, Head(q))) = <<>> \o Head(q)
      /\ Flatten(Tail(q)) \in Seq(T)
  BY <1>1, FlattenAppend, Zenon
<1>3. <<>> \o Head(q) = Head(q)
  BY <1>1
<1>4. Flatten(Append(<<>>, Head(q)) \o Tail(q))
        = Flatten(Append(<<>>, Head(q))) \o Flatten(Tail(q))
  BY <1>1, FlattenConcat, Zenon
<1> QED
  BY <1>1, <1>2, <1>3, <1>4, Zenon

(* A list cut in two.                                                      *)
LEMMA FlattenSplit ==
  ASSUME NEW T, NEW q \in Seq(Seq(T)), NEW k \in 0 .. Len(q)
  PROVE  /\ SubSeq(q, 1, k) \in Seq(Seq(T)) /\ SubSeq(q, k + 1, Len(q)) \in Seq(Seq(T))
         /\ Flatten(SubSeq(q, 1, k)) \in Seq(T)
         /\ Flatten(SubSeq(q, k + 1, Len(q))) \in Seq(T)
         /\ Flatten(q) = Flatten(SubSeq(q, 1, k)) \o Flatten(SubSeq(q, k + 1, Len(q)))
<1>1. PICK a, b : a = SubSeq(q, 1, k) /\ b = SubSeq(q, k + 1, Len(q))
  BY Zenon
<1>2. a \in Seq(Seq(T)) /\ b \in Seq(Seq(T)) /\ q = a \o b
  BY <1>1, SplitAt, Zenon
<1>3. Flatten(a \o b) = Flatten(a) \o Flatten(b)
  BY <1>2, FlattenConcat, Zenon
<1>4. <<>> \in Seq(T)
  OBVIOUS
<1>5. Flatten(a) \in Seq(T) /\ Flatten(b) \in Seq(T)
  BY <1>2, <1>4, FlattenAppend, Zenon
<1> QED
  BY <1>1, <1>2, <1>3, <1>5, Zenon

(* Division and order.                                                     *)
LEMMA DivFacts ==
  ASSUME NEW a \in Nat, NEW m \in Nat \ {0}
  PROVE  /\ a \div m \in Nat /\ (a \div m) * m <= a /\ a < (a \div m) * m + m
OBVIOUS

LEMMA TimesOrder ==
  ASSUME NEW i \in Nat, NEW j \in Nat, i <= j, NEW m \in Nat
  PROVE  i * m <= j * m
OBVIOUS

(* The pieces of a stream are the stream.                                  *)
LEMMA CutFlattens ==
  ASSUME NEW T, NEW stream \in Seq(T), NEW max \in Nat \ {0}
  PROVE  /\ Cut(stream, max) \in Seq(Seq(T))
         /\ Flatten(Cut(stream, max)) = stream
<1>0. ASSUME NEW i \in 0 .. Len(stream), NEW j \in i .. Len(stream)
      PROVE  SubSeq(stream, 1, j) = SubSeq(stream, 1, i) \o SubSeq(stream, i + 1, j)
  BY SubSeqJoin
<1>1. PICK p : p = Cut(stream, max)
  BY Zenon
<1>2. PICK n : n = (Len(stream) + max - 1) \div max
  BY Zenon
<1>3. PICK l : l = Len(stream)
  BY Zenon
<1>4. l \in Nat /\ n \in Nat /\ n * max < l + max /\ l <= n * max
  <2>1. l \in Nat /\ l + max - 1 \in Nat
    BY <1>3
  <2>2. n \in Nat /\ n * max <= l + max - 1 /\ l + max - 1 < n * max + max
    BY <1>2, <1>3, <2>1, DivFacts, Zenon
  <2>3. n * max \in Nat
    BY <2>2
  <2> QED
    BY <2>1, <2>2, <2>3
<1> DEFINE end(i) == IF i * max < l THEN i * max ELSE l
<1>5. p = [i \in 1 .. n |-> SubSeq(stream, (i - 1) * max + 1, end(i))]
  BY <1>1, <1>2, <1>3, Zenon DEF Cut
<1>6. ASSUME NEW i \in 1 .. n
      PROVE  (i - 1) * max < l /\ i * max = (i - 1) * max + max /\ (i - 1) * max \in Nat
  <2>1. i - 1 \in Nat /\ n - 1 \in Nat /\ i - 1 <= n - 1
    BY <1>4
  <2>2. (i - 1) * max <= (n - 1) * max
    BY <2>1, TimesOrder, Zenon
  <2>3. (n - 1) * max = n * max - max /\ i * max = (i - 1) * max + max
    BY <1>4, <2>1
  <2>4. (i - 1) * max \in Nat /\ n * max \in Nat
    BY <1>4, <2>1
  <2> QED
    BY <1>4, <2>2, <2>3, <2>4
<1>7. ASSUME NEW i \in 1 .. n
      PROVE  end(i) \in 0 .. l /\ (i - 1) * max < end(i)
  <2>1. i * max \in Nat
    BY <1>6
  <2> QED
    BY <1>4, <1>6, <2>1
<1>8. \A i \in 1 .. n : SubSeq(stream, (i - 1) * max + 1, end(i)) \in Seq(T)
  BY <1>3, <1>6, <1>7
<1>9. p \in Seq(Seq(T)) /\ Len(p) = n
  <2>1. p \in [1 .. n -> Seq(T)]
    BY <1>5, <1>8, Zenon
  <2> QED
    BY <1>4, <2>1, FunctionIsSeq, Zenon
<1> DEFINE Is(k) == Flatten(SubSeq(p, 1, k)) = SubSeq(stream, 1, end(k))
           P == {k \in Nat : k <= n => Is(k)}
<1>10. 0 \in P
  <2>1. SubSeq(p, 1, 0) = <<>> /\ end(0) = 0 /\ SubSeq(stream, 1, 0) = <<>>
    BY <1>4, <1>9
  <2>2. Flatten(<<>>) = <<>>
    BY <1>9, FlattenAppend, Zenon
  <2> QED
    BY <2>1, <2>2, Zenon
<1>11. ASSUME NEW k \in P
       PROVE  k + 1 \in P
  <2>1. ASSUME k + 1 <= n
        PROVE  Is(k + 1)
    <3>1. k + 1 \in 1 .. n /\ k \in Nat /\ k + 1 - 1 = k
      BY <2>1
    <3>2. k * max < l /\ k * max \in Nat /\ end(k) = k * max
      <4>1. (k + 1 - 1) * max < l /\ (k + 1 - 1) * max \in Nat
        BY <1>6, <3>1
      <4> QED
        BY <3>1, <4>1, Zenon
    <3>3. end(k + 1) \in end(k) .. l /\ end(k) \in 0 .. l
      BY <1>4, <1>7, <3>1, <3>2
    <3>4. p[k + 1] = SubSeq(stream, end(k) + 1, end(k + 1)) /\ p[k + 1] \in Seq(T)
      BY <1>5, <1>8, <3>1, <3>2, SMTT(30)
    <3>5. Is(k)
      <4> HIDE DEF Is
      <4> QED
        BY <1>4, <2>1, <3>1
    <3>6. SubSeq(p, 1, k) \in Seq(Seq(T)) /\ SubSeq(p, 1, k + 1) = Append(SubSeq(p, 1, k), p[k + 1])
      BY <1>9, <3>1
    <3>7. Flatten(Append(SubSeq(p, 1, k), p[k + 1])) = Flatten(SubSeq(p, 1, k)) \o p[k + 1]
      BY <3>4, <3>6, FlattenAppend, Zenon
    <3> HIDE DEF end
    <3>8. SubSeq(stream, 1, end(k + 1))
            = SubSeq(stream, 1, end(k)) \o SubSeq(stream, end(k) + 1, end(k + 1))
      BY <1>0, <1>3, <3>3, Zenon
    <3> QED
      BY <3>4, <3>5, <3>6, <3>7, <3>8, Zenon
  <2> HIDE DEF Is
  <2> QED
    BY <2>1
<1>12. P = Nat
  <2> HIDE DEF P
  <2>1. P \subseteq Nat
    BY Zenon DEF P
  <2> QED
    BY <1>10, <1>11, <2>1, InductionInSet, Zenon
<1>13. Is(n)
  <2> HIDE DEF Is
  <2> QED
    BY <1>4, <1>12
<1>14. end(n) = l /\ SubSeq(p, 1, n) = p /\ SubSeq(stream, 1, l) = stream
  <2>1. n * max \in Nat
    BY <1>4
  <2> QED
    BY <1>3, <1>4, <1>9, <2>1
<1> HIDE DEF end
<1> QED
  BY <1>1, <1>9, <1>13, <1>14, Zenon
-----------------------------------------------------------------------------
(* The first session of a list without repetitions, and the others.        *)
LEMMA TailVisits ==
  ASSUME NEW S, NEW q \in Seq(S), IsInjective(q), q # <<>>
  PROVE  /\ Tail(q) \in Seq(S \ {Head(q)}) /\ Tail(q) \in Seq(S) /\ IsInjective(Tail(q))
         /\ Head(q) \in S /\ Head(q) \in Range(q)
         /\ Range(Tail(q)) \subseteq Range(q) \ {Head(q)}
<1>1. /\ Head(q) = q[1] /\ q[1] \in S /\ 1 \in DOMAIN q /\ Tail(q) \in Seq(S)
      /\ \A i \in DOMAIN Tail(q) : i + 1 \in DOMAIN q /\ Tail(q)[i] = q[i + 1] /\ i + 1 # 1
  OBVIOUS
<1>2. \A i \in DOMAIN Tail(q) : Tail(q)[i] \in Range(q) \ {Head(q)} /\ Tail(q)[i] \in S
  BY <1>1 DEF IsInjective, Range
<1>3. IsInjective(Tail(q))
  <2> SUFFICES ASSUME NEW i \in DOMAIN Tail(q), NEW j \in DOMAIN Tail(q),
                      Tail(q)[i] = Tail(q)[j]
               PROVE  i = j
    BY Zenon DEF IsInjective
  <2>1. i \in Int /\ j \in Int
    BY <1>1
  <2>2. i + 1 \in DOMAIN q /\ j + 1 \in DOMAIN q /\ q[i + 1] = q[j + 1]
    BY <1>1, Zenon
  <2>3. i + 1 = j + 1
    BY <2>2, Zenon DEF IsInjective
  <2> QED
    BY <2>1, <2>3
<1>4. Tail(q) \in Seq(S \ {Head(q)})
  BY <1>1, <1>2, ElementsIn, Zenon
<1> QED
  BY <1>1, <1>2, <1>3, <1>4 DEF Range

(* TAILQ_REMOVE takes one session from a queue without repetitions and     *)
(* leaves the others.                                                      *)
LEMMA WithoutFacts ==
  ASSUME NEW S, NEW q \in Seq(S), IsInjective(q), NEW s
  PROVE  /\ Without(q, s) \in Seq(S \ {s}) /\ Without(q, s) \in Seq(S)
         /\ IsInjective(Without(q, s))
         /\ Range(Without(q, s)) = Range(q) \ {s}
<1>1. CASE s \notin Range(q)
  <2>1. Without(q, s) = q
    BY <1>1, Zenon DEF Without
  <2>2. q \in Seq(S \ {s})
    BY <1>1 DEF Range
  <2> QED
    BY <1>1, <2>1, <2>2, Zenon
<1>2. CASE s \in Range(q)
  <2>1. PICK k : k = CHOOSE i \in DOMAIN q : q[i] = s
    BY Zenon
  <2>2. k \in DOMAIN q /\ q[k] = s
    BY <1>2, <2>1, Zenon DEF Range
  <2>3. PICK r : r = SubSeq(q, 1, k - 1) \o SubSeq(q, k + 1, Len(q))
    BY Zenon
  <2>4. Without(q, s) = r
    BY <1>2, <2>1, <2>3, Zenon DEF Without
  <2>5. /\ r \in Seq(S) /\ DOMAIN r = 1 .. Len(q) - 1
        /\ \A i \in DOMAIN r : r[i] = IF i < k THEN q[i] ELSE q[i + 1]
    <3>1. PICK a : a = SubSeq(q, 1, k - 1)
      BY Zenon
    <3>2. PICK b : b = SubSeq(q, k + 1, Len(q))
      BY Zenon
    <3>3. /\ a \in Seq(S) /\ Len(a) = k - 1
          /\ \A i \in 1 .. k - 1 : a[i] = q[i]
      BY <2>2, <3>1
    <3>4. /\ b \in Seq(S) /\ Len(b) = Len(q) - k
          /\ \A i \in 1 .. Len(q) - k : b[i] = q[k + i]
      BY <2>2, <3>2
    <3>5. r = a \o b /\ k \in 1 .. Len(q) /\ Len(q) \in Nat
      BY <2>2, <2>3, <3>1, <3>2
    <3>6. r \in Seq(S) /\ DOMAIN r = 1 .. Len(q) - 1
      BY <3>3, <3>4, <3>5
    <3>7. ASSUME NEW i \in DOMAIN r
          PROVE  r[i] = IF i < k THEN q[i] ELSE q[i + 1]
      <4>1. r[i] = IF i <= Len(a) THEN a[i] ELSE b[i - Len(a)]
        BY <3>3, <3>4, <3>5, <3>6
      <4>2. CASE i < k
        BY <3>3, <3>5, <3>6, <4>1, <4>2
      <4>3. CASE i >= k
        <5>1. i - Len(a) \in 1 .. Len(q) - k /\ k + (i - Len(a)) = i + 1 /\ ~(i <= Len(a))
          BY <3>3, <3>5, <3>6, <4>3, SMTT(30)
        <5>2. r[i] = b[i - Len(a)]
          BY <4>1, <5>1, Zenon
        <5>3. b[i - Len(a)] = q[k + (i - Len(a))]
          BY <3>4, <5>1, Zenon
        <5>4. ~(i < k)
          BY <3>5, <3>6, <4>3
        <5> QED
          BY <5>1, <5>2, <5>3, <5>4, Zenon
      <4> QED
        BY <3>5, <3>6, <4>2, <4>3
    <3> QED
      BY <3>6, <3>7, Zenon
  <2>6. \A i \in DOMAIN r : r[i] \in Range(q) \ {s} /\ r[i] \in S
    BY <2>2, <2>5 DEF IsInjective, Range
  <2>7. IsInjective(r)
    <3> SUFFICES ASSUME NEW i \in DOMAIN r, NEW j \in DOMAIN r, r[i] = r[j]
                 PROVE  i = j
      BY Zenon DEF IsInjective
    <3> DEFINE at(n) == IF n < k THEN n ELSE n + 1
    <3>1. at(i) \in DOMAIN q /\ at(j) \in DOMAIN q /\ q[at(i)] = q[at(j)]
      BY <2>2, <2>5, SMTT(30)
    <3>2. at(i) = at(j)
      BY <3>1, Zenon DEF IsInjective
    <3> QED
      BY <2>2, <2>5, <3>2
  <2>8. ASSUME NEW x \in Range(q), x # s
        PROVE  x \in Range(r)
    <3>1. PICK i \in DOMAIN q : q[i] = x
      BY <2>8, Zenon DEF Range
    <3>2. CASE i < k
      BY <2>2, <2>5, <3>1, <3>2, SMTT(30) DEF Range
    <3>3. CASE i > k
      <4>1. i - 1 \in DOMAIN r /\ r[i - 1] = q[i]
        BY <2>2, <2>5, <3>1, <3>3
      <4> QED
        BY <3>1, <4>1, Zenon DEF Range
    <3> QED
      BY <2>2, <2>8, <3>1, <3>2, <3>3
  <2>9. Range(r) = Range(q) \ {s}
    BY <2>6, <2>8, Zenon DEF Range
  <2>10. r \in Seq(S \ {s})
    BY <2>5, <2>6
  <2> QED
    BY <2>4, <2>5, <2>7, <2>9, <2>10, Zenon
<1> QED
  BY <1>1, <1>2, Zenon
-----------------------------------------------------------------------------
(* BACKEND_SESS_LINK_TO_QUEUE keeps the bits true, and links the session   *)
(* unless its bit was stray.                                               *)
LEMMA LinkGood ==
  ASSUME NEW A \in SUBSET Session, NEW X, NEW q, NEW state, LinksTrue(q, state, A, X),
         NEW s \in A
  PROVE  /\ LinksTrue(Link(s, q, state), [state EXCEPT ![s] = 1], A, X)
         /\ Range(q) \subseteq Range(Link(s, q, state))
         /\ s \notin X => s \in Range(Link(s, q, state))
<1>1. CASE state[s] = 1
  <2>1. Link(s, q, state) = q /\ [state EXCEPT ![s] = 1] = state
    BY <1>1 DEF Link, LinksTrue
  <2> QED
    BY <1>1, <2>1 DEF LinksTrue
<1>2. CASE state[s] # 1
  <2>1. PICK r : r = Append(q, s)
    BY Zenon
  <2>2. Link(s, q, state) = r
    BY <1>2, <2>1, Zenon DEF Link, LinksTrue
  <2>3. /\ r \in Seq(A) /\ DOMAIN r = 1 .. Len(q) + 1 /\ r[Len(q) + 1] = s
        /\ DOMAIN q = 1 .. Len(q) /\ Len(q) \in Nat
        /\ \A i \in DOMAIN q : r[i] = q[i]
    BY <2>1 DEF LinksTrue
  <2>4. Range(r) = Range(q) \cup {s}
    BY <2>3 DEF Range
  <2>5. s \notin Range(q)
    BY <1>2, Zenon DEF LinksTrue
  <2>6. IsInjective(r)
    <3>1. \A i \in DOMAIN q : q[i] # s
      BY <2>5, Zenon DEF Range
    <3> QED
      BY <2>3, <3>1 DEF LinksTrue, IsInjective
  <2>7. [state EXCEPT ![s] = 1] \in [Session -> {0, 1}]
    BY Zenon DEF LinksTrue
  <2> QED
    BY <2>2, <2>3, <2>4, <2>6, <2>7 DEF LinksTrue
<1> QED
  BY <1>1, <1>2, Zenon

(* UNLINK keeps the bits true, whether the session goes or stays.          *)
LEMMA UnlinkGood ==
  ASSUME NEW A \in SUBSET Session, NEW X, NEW q, NEW state, LinksTrue(q, state, A, X),
         NEW s
  PROVE  /\ LinksTrue(Without(q, s), [state EXCEPT ![s] = 0], A, X)
         /\ LinksTrue(Without(q, s), [state EXCEPT ![s] = 0], A \ {s}, X)
         /\ Range(Without(q, s)) = Range(q) \ {s}
<1>1. PICK r : r = Without(q, s)
  BY Zenon
<1>2. r \in Seq(A) /\ r \in Seq(A \ {s}) /\ IsInjective(r) /\ Range(r) = Range(q) \ {s}
  BY <1>1, WithoutFacts, Zenon DEF LinksTrue
<1>3. PICK b : b = [state EXCEPT ![s] = 0]
  BY Zenon
<1>4. b \in [Session -> {0, 1}] /\ \A t \in Session \ {s} : b[t] = state[t]
  BY <1>3, Zenon DEF LinksTrue
<1>5. \A t \in Range(r) : t \in A /\ t # s
  BY <1>2 DEF Range
<1>6. s \in Session => b[s] = 0
  BY <1>3 DEF LinksTrue
<1>7. /\ \A t \in Range(r) : b[t] = 1
      /\ \A t \in A \ X : b[t] = 1 => t \in Range(r)
  BY <1>2, <1>4, <1>5, <1>6 DEF LinksTrue
<1> QED
  BY <1>1, <1>2, <1>3, <1>4, <1>7 DEF LinksTrue

(* high_speed_delete_sess leaves no link to the session behind.            *)
LEMMA DeleteGood ==
  ASSUME LinkInv, NEW s \in alive, DeleteSess(s), UNCHANGED stray
  PROVE  /\ alive' = alive \ {s} /\ alive' \subseteq Session
         /\ LinksTrue(queue_f2b, state_f2b, alive, stray)'
         /\ LinksTrue(queue_b2f, state_b2f, alive, stray)'
<1>1. /\ LinksTrue(Without(queue_f2b, s), [state_f2b EXCEPT ![s] = 0], alive \ {s}, stray)
      /\ LinksTrue(Without(queue_b2f, s), [state_b2f EXCEPT ![s] = 0], alive \ {s}, stray)
  BY UnlinkGood, Zenon DEF LinkInv
<1>2. /\ queue_f2b' = Without(queue_f2b, s) /\ state_f2b' = [state_f2b EXCEPT ![s] = 0]
      /\ queue_b2f' = Without(queue_b2f, s) /\ state_b2f' = [state_b2f EXCEPT ![s] = 0]
      /\ alive' = alive \ {s} /\ stray' = stray
  BY DEF DeleteSess, Unlink
<1> QED
  BY <1>1, <1>2, Zenon DEF LinksTrue, LinkInv

LEMMA LinkInit ==
  ASSUME Init
  PROVE  LinkInv
<1>1. <<>> \in Seq(Session) /\ Range(<<>>) = {} /\ IsInjective(<<>>)
  BY DEF Range, IsInjective
<1>2. /\ state_f2b \in [Session -> {0, 1}] /\ state_b2f \in [Session -> {0, 1}]
      /\ \A s \in Session \ stray : state_f2b[s] # 1 /\ state_b2f[s] # 1
  BY Zenon DEF Init, Uninitialised
<1>3. /\ LinksTrue(queue_f2b, state_f2b, alive, stray)
      /\ LinksTrue(queue_b2f, state_b2f, alive, stray)
  BY <1>1, <1>2 DEF Init, LinksTrue
<1> QED
  BY <1>1, <1>3, Zenon DEF Init, LinkInv, Visits

(* Every step of the engine, the frontend and the peers keeps LinkInv.     *)
LEMMA LinkStep ==
  ASSUME LinkInv, [Next]_vars
  PROVE  LinkInv'
<1> USE DEF LinkInv
<1>0. UNCHANGED stray
  BY Zenon DEF Next, vars
<1>1. CASE UNCHANGED engineVars
  BY <1>0, <1>1, Zenon DEF engineVars, queues, LinksTrue, Visits
<1>2. CASE RxMessage
  <2>1. PICK m : m = Head(rx_queue)
    BY Zenon
  <2>2. /\ loop = "rx" /\ todo = <<>> /\ ready = {} /\ todo' = todo /\ ready' = ready
        /\ RxData(m) \/ RxClose(m)
    BY <1>2, <2>1, Zenon DEF RxMessage, Visits
  <2>3. ASSUME alive' \subseteq alive
        PROVE  Visits'
    BY <2>2, <2>3 DEF Visits, IsInjective
  <2>4. CASE UNCHANGED <<alive, queue_f2b, queue_b2f, state_f2b, state_b2f>>
    BY <1>0, <2>3, <2>4, Zenon DEF LinksTrue
  <2>5. CASE m.sess \in alive /\ LinkF2b(m.sess) /\ UNCHANGED <<alive, queue_b2f, state_b2f>>
    <3>1. LinksTrue(Link(m.sess, queue_f2b, state_f2b),
                    [state_f2b EXCEPT ![m.sess] = 1], alive, stray)
      BY <2>5, LinkGood, Zenon
    <3> QED
      BY <1>0, <2>3, <2>5, <3>1, Zenon DEF LinkF2b, LinksTrue
  <2>6. CASE m.sess \in alive /\ DeleteSess(m.sess)
    BY <1>0, <2>3, <2>6, DeleteGood, Zenon
  <2> QED
    BY <2>2, <2>4, <2>5, <2>6 DEF RxData, RxClose, queues
<1>3. CASE RxEmpty
  BY <1>0, <1>3, Zenon DEF RxEmpty, queues, LinksTrue, Visits
<1>4. CASE DataProcessF2b
  <2>1. PICK s, n :
          /\ s = Head(todo) /\ todo # <<>> /\ todo' = Tail(todo)
          /\ loop = "f2b" /\ UNCHANGED ready
          /\ SendOk(s, n) \/ SendAgain(s, n) \/ SendError(s, n)
    BY <1>4, Zenon DEF DataProcessF2b
  <2>2. /\ s \in alive /\ Tail(todo) \in Seq(alive \ {s}) /\ Tail(todo) \in Seq(alive)
        /\ IsInjective(Tail(todo)) /\ ready = {}
    BY <2>1, TailVisits DEF Visits
  <2>3. loop' \in {"f2b", "corrupt", "killed"}
    BY <2>1, Zenon DEF SendOk, SendAgain, SendError
  <2>4. ASSUME alive' = alive \/ alive' = alive \ {s}
        PROVE  Visits'
    BY <2>1, <2>2, <2>3, <2>4, Zenon DEF Visits
  <2>5. CASE UNCHANGED <<alive, queue_f2b, queue_b2f, state_f2b, state_b2f>>
    BY <1>0, <2>4, <2>5, Zenon DEF LinksTrue
  <2>6. CASE SendOk(s, n)
    <3>1. LinksTrue(Without(queue_f2b, s), [state_f2b EXCEPT ![s] = 0], alive, stray)
      BY UnlinkGood, Zenon
    <3> QED
      BY <1>0, <2>4, <2>6, <3>1, Zenon DEF SendOk, LinksTrue
  <2>7. CASE DeleteSess(s)
    BY <1>0, <2>2, <2>4, <2>7, DeleteGood, Zenon
  <2> QED
    BY <2>1, <2>5, <2>6, <2>7, Zenon DEF SendAgain, SendError
<1>5. CASE Poll
  <2>1. ASSUME NEW e \in ready'
        PROVE  e.sess \in alive
    <3>1. PICK s \in alive : e = Event(s)
      BY <1>5, <2>1, Zenon DEF Poll
    <3> QED
      BY <3>1, Zenon DEF Event
  <2> QED
    BY <1>0, <1>5, <2>1, Zenon DEF Poll, queues, LinksTrue, Visits
<1>6. CASE DataProcessNns
  <2>1. PICK e \in ready :
          ready' = ready \ {e} /\ (NnsSkip(e) \/ NnsTcp(e) \/ NnsUdp(e))
    BY <1>6, Zenon DEF DataProcessNns
  <2>2. /\ loop = "nns" /\ e.sess \in alive
        /\ UNCHANGED <<loop, todo, alive, queue_f2b, state_f2b>>
    BY <1>6, <2>1, Zenon DEF DataProcessNns, Visits
  <2>3. Visits'
    BY <2>1, <2>2, Zenon DEF Visits
  <2>4. UNCHANGED <<queue_b2f, state_b2f>> \/ LinkB2f(e.sess)
    BY <2>1, Zenon DEF NnsSkip, NnsTcp, NnsUdp
  <2>5. LinksTrue(Link(e.sess, queue_b2f, state_b2f),
                  [state_b2f EXCEPT ![e.sess] = 1], alive, stray)
    BY <2>2, LinkGood, Zenon
  <2>6. LinksTrue(queue_f2b, state_f2b, alive, stray)'
    BY <1>0, <2>2, Zenon DEF LinksTrue
  <2>7. LinksTrue(queue_b2f, state_b2f, alive, stray)'
    <3>1. CASE UNCHANGED <<queue_b2f, state_b2f>>
      BY <1>0, <2>2, <3>1, Zenon DEF LinksTrue
    <3>2. CASE LinkB2f(e.sess)
      BY <1>0, <2>2, <2>5, <3>2, Zenon DEF LinkB2f, LinksTrue
    <3> QED
      BY <2>4, <3>1, <3>2, Zenon
  <2> QED
    BY <2>2, <2>3, <2>6, <2>7, Zenon
<1>7. CASE NnsDone
  BY <1>0, <1>7, Zenon DEF NnsDone, queues, LinksTrue, Visits
<1>8. CASE DataProcessB2f
  <2>1. PICK s : s = Head(todo)
    BY Zenon
  <2>2. /\ loop = "b2f" /\ todo # <<>>
        /\ UNCHANGED <<loop, ready, alive, queue_f2b, state_f2b>>
        /\ todo' = Tail(todo) \/ todo' = <<>>
        /\ \/ UNCHANGED <<queue_b2f, state_b2f>>
           \/ queue_b2f' = Without(queue_b2f, s) /\ state_b2f' = [state_b2f EXCEPT ![s] = 0]
    BY <1>8, <2>1, Zenon DEF DataProcessB2f
  <2>3. Tail(todo) \in Seq(alive) /\ IsInjective(Tail(todo))
    BY <2>2, TailVisits, Zenon DEF Visits
  <2>4. Visits'
    <3>1. <<>> \in Seq(alive) /\ IsInjective(<<>>)
      BY DEF IsInjective
    <3> QED
      BY <2>2, <2>3, <3>1, Zenon DEF Visits
  <2>5. LinksTrue(Without(queue_b2f, s), [state_b2f EXCEPT ![s] = 0], alive, stray)
    BY UnlinkGood, Zenon
  <2>6. LinksTrue(queue_f2b, state_f2b, alive, stray)'
    BY <1>0, <2>2, Zenon DEF LinksTrue
  <2>7. LinksTrue(queue_b2f, state_b2f, alive, stray)'
    <3>1. CASE UNCHANGED <<queue_b2f, state_b2f>>
      BY <1>0, <2>2, <3>1, Zenon DEF LinksTrue
    <3>2. CASE /\ queue_b2f' = Without(queue_b2f, s)
               /\ state_b2f' = [state_b2f EXCEPT ![s] = 0]
      BY <1>0, <2>2, <2>5, <3>2, Zenon DEF LinksTrue
    <3> QED
      BY <2>2, <3>1, <3>2, Zenon
  <2> QED
    BY <2>2, <2>4, <2>6, <2>7
<1>9. CASE B2fDone
  BY <1>0, <1>9, Zenon DEF B2fDone, queues, LinksTrue, Visits
<1> QED
  BY <1>1, <1>2, <1>3, <1>4, <1>5, <1>6, <1>7, <1>8, <1>9, Zenon
     DEF Next, Engine, FrontendSends, FrontendCloses, FrontendReads, PeerSends, PeerFails,
         vars, engineVars

(* LinkInv holds in every reachable state.                                 *)
THEOREM LinksHold == Spec => []LinkInv
<1>1. Init => LinkInv
  BY LinkInit, Zenon
<1>2. LinkInv /\ [Next]_vars => LinkInv'
  BY LinkStep, Zenon
<1> QED
  BY <1>1, <1>2, PTL DEF Spec

(* The loops visit live sessions only.                                     *)
THEOREM LiveSessionsVisited == Spec => []VisitsLiveSessions
<1>1. LinkInv => VisitsLiveSessions
  BY DEF LinkInv, LinksTrue, Visits, VisitsLiveSessions, Range
<1> QED
  BY <1>1, LinksHold, PTL

(* The link bits of sessions created without a stray bit are true, and no  *)
(* session is linked twice.                                                *)
THEOREM LinkBitsTrue == Spec => []LinkStateTrue
<1>1. LinkInv => LinkStateTrue
  BY Zenon DEF LinkInv, LinksTrue, LinkStateTrue
<1> QED
  BY <1>1, LinksHold, PTL
-----------------------------------------------------------------------------
\* Messages between the zones; those of the frontend carry SegLen units or,
\* to close a session, nothing.
Letter == [type : {"data", "close"}, sess : Session, data : Seq(Nat)]
RxLetter == {m \in Letter : Len(m.data) = IF m.type = "data" THEN SegLen ELSE 0}

\* What a message carries for session s.
Share(m, s) == IF m.sess = s THEN m.data ELSE <<>>

(* What is under way in two queues, one after the other.                   *)
LEMMA TransitConcat ==
  ASSUME NEW q \in Seq(Letter), NEW r \in Seq(Letter), NEW s
  PROVE  /\ InTransit(q, s) \in Seq(Nat) /\ InTransit(r, s) \in Seq(Nat)
         /\ InTransit(q \o r, s) = InTransit(q, s) \o InTransit(r, s)
<1> DEFINE shares(z) == [i \in DOMAIN z |-> Share(z[i], s)]
<1>1. ASSUME NEW z \in Seq(Letter)
      PROVE  shares(z) \in Seq(Seq(Nat)) /\ Len(shares(z)) = Len(z) /\ InTransit(z, s) = Flatten(shares(z))
  <2>1. DOMAIN z = 1 .. Len(z) /\ Len(z) \in Nat
    OBVIOUS
  <2>2. \A i \in DOMAIN z : Share(z[i], s) \in Seq(Nat)
    <3>1. \A i \in DOMAIN z : z[i] \in Letter
      OBVIOUS
    <3>2. \A m \in Letter : m.data \in Seq(Nat)
      BY Zenon DEF Letter
    <3> QED
      BY <3>1, <3>2 DEF Share
  <2>3. shares(z) \in [1 .. Len(z) -> Seq(Nat)]
    BY <2>1, <2>2, Zenon
  <2>4. shares(z) \in Seq(Seq(Nat)) /\ Len(shares(z)) = Len(z)
    BY <2>1, <2>3, FunctionIsSeq, Zenon
  <2> QED
    BY <2>4 DEF InTransit, Share
<1>2. PICK c : c = q \o r
  BY Zenon
<1>3. /\ c \in Seq(Letter) /\ Len(c) = Len(q) + Len(r) /\ Len(q) \in Nat /\ Len(r) \in Nat
      /\ \A i \in 1 .. Len(q) + Len(r) : c[i] = IF i <= Len(q) THEN q[i] ELSE r[i - Len(q)]
  BY <1>2, ConcatElements
<1>4. shares(c) = shares(q) \o shares(r)
  <2>1. PICK a, b, d : a = shares(q) /\ b = shares(r) /\ d = shares(c)
    BY Zenon
  <2>2. /\ a \in Seq(Seq(Nat)) /\ Len(a) = Len(q) /\ b \in Seq(Seq(Nat)) /\ Len(b) = Len(r)
        /\ d \in Seq(Seq(Nat)) /\ Len(d) = Len(c)
    <3> HIDE DEF shares
    <3> QED
      BY <1>1, <1>3, <2>1, Zenon
  <2>3. /\ a \o b \in Seq(Seq(Nat)) /\ Len(a \o b) = Len(q) + Len(r)
        /\ \A i \in 1 .. Len(q) + Len(r) :
             (a \o b)[i] = IF i <= Len(q) THEN a[i] ELSE b[i - Len(q)]
    <3>1. /\ a \o b \in Seq(Seq(Nat)) /\ Len(a \o b) = Len(a) + Len(b)
          /\ \A i \in 1 .. Len(a) + Len(b) :
               (a \o b)[i] = IF i <= Len(a) THEN a[i] ELSE b[i - Len(a)]
      BY <2>2, ConcatElements, Zenon
    <3> QED
      BY <2>2, <3>1, Zenon
  <2>4. ASSUME NEW i \in 1 .. Len(d)
        PROVE  d[i] = (a \o b)[i]
    <3>1. d[i] = Share(c[i], s)
      BY <1>3, <2>1, <2>2
    <3>2. CASE i <= Len(q)
      BY <1>3, <2>1, <2>2, <2>3, <3>1, <3>2, SMTT(30)
    <3>3. CASE ~(i <= Len(q))
      <4>1. i - Len(q) \in 1 .. Len(r)
        BY <1>3, <2>2, <3>3
      <4>2. b[i - Len(q)] = Share(r[i - Len(q)], s)
        BY <2>1, <4>1, SMTT(30)
      <4> QED
        BY <1>3, <2>2, <2>3, <3>1, <3>3, <4>2, Zenon
    <3> QED
      BY <3>2, <3>3, Zenon
  <2>5. d = a \o b
    BY <1>3, <2>2, <2>3, <2>4, SameElements, Zenon
  <2> QED
    BY <2>1, <2>5, Zenon
<1> HIDE DEF shares
<1>5. Flatten(shares(q) \o shares(r)) = Flatten(shares(q)) \o Flatten(shares(r))
  BY <1>1, FlattenConcat
<1>6. <<>> \in Seq(Nat)
  OBVIOUS
<1>7. Flatten(shares(q)) \in Seq(Nat) /\ Flatten(shares(r)) \in Seq(Nat)
  BY <1>1, <1>6, FlattenAppend, Zenon
<1> QED
  BY <1>1, <1>2, <1>3, <1>4, <1>5, <1>7, Zenon

(* A single message, and the two ends of a queue.                          *)
LEMMA TransitOne ==
  ASSUME NEW m \in Letter, NEW s
  PROVE  InTransit(<<m>>, s) = Share(m, s) /\ Share(m, s) \in Seq(Nat)
<1>1. Share(m, s) \in Seq(Nat)
  BY DEF Share, Letter
<1>2. [i \in DOMAIN <<m>> |-> Share(<<m>>[i], s)] = Append(<<>>, Share(m, s))
  OBVIOUS
<1>3. InTransit(<<m>>, s) = Flatten([i \in DOMAIN <<m>> |-> Share(<<m>>[i], s)])
  BY Zenon DEF InTransit, Share
<1>4. Flatten(Append(<<>>, Share(m, s))) = Flatten(<<>>) \o Share(m, s) /\ Flatten(<<>>) = <<>>
  <2>1. <<>> \in Seq(Seq(Nat))
    OBVIOUS
  <2> QED
    BY <1>1, <2>1, FlattenAppend, Zenon
<1> QED
  BY <1>1, <1>2, <1>3, <1>4, ConcatAssociates, Zenon

LEMMA TransitEnds ==
  ASSUME NEW q \in Seq(Letter), NEW m \in Letter, NEW s
  PROVE  /\ InTransit(q, s) \in Seq(Nat) /\ Share(m, s) \in Seq(Nat)
         /\ InTransit(Append(q, m), s) = InTransit(q, s) \o Share(m, s)
         /\ q # <<>> => /\ InTransit(q, s) = Share(Head(q), s) \o InTransit(Tail(q), s)
                        /\ InTransit(Tail(q), s) \in Seq(Nat) /\ Share(Head(q), s) \in Seq(Nat)
<1>1. <<m>> \in Seq(Letter) /\ Append(q, m) = q \o <<m>>
  OBVIOUS
<1>2. InTransit(q \o <<m>>, s) = InTransit(q, s) \o InTransit(<<m>>, s) /\ InTransit(q, s) \in Seq(Nat)
  BY <1>1, TransitConcat, Zenon
<1>3. ASSUME q # <<>>
      PROVE  /\ InTransit(q, s) = Share(Head(q), s) \o InTransit(Tail(q), s)
             /\ InTransit(Tail(q), s) \in Seq(Nat) /\ Share(Head(q), s) \in Seq(Nat)
  <2>1. /\ Head(q) \in Letter /\ Tail(q) \in Seq(Letter) /\ <<Head(q)>> \in Seq(Letter)
        /\ q = <<Head(q)>> \o Tail(q)
    BY <1>3
  <2>2. /\ InTransit(<<Head(q)>> \o Tail(q), s) = InTransit(<<Head(q)>>, s) \o InTransit(Tail(q), s)
        /\ InTransit(Tail(q), s) \in Seq(Nat)
    BY <2>1, TransitConcat, Zenon
  <2> QED
    BY <2>1, <2>2, TransitOne, Zenon
<1> QED
  BY <1>1, <1>2, <1>3, TransitOne, Zenon

(* Consecutive units of a stream.                                          *)
LEMMA UnitsFacts ==
  ASSUME NEW n \in Nat, NEW k \in Nat
  PROVE  /\ Units(n, k) \in Seq(Nat) /\ Len(Units(n, k)) = k
         /\ Units(0, n) \o Units(n, k) = Units(0, n + k)
         /\ Units(0, 0) = <<>>
<1>1. ASSUME NEW i \in Nat, NEW j \in Nat
      PROVE  Units(i, j) \in Seq(Nat) /\ Len(Units(i, j)) = j
  <2>1. Units(i, j) \in [1 .. j -> Nat]
    BY DEF Units
  <2> QED
    BY <2>1, FunctionIsSeq, Zenon
<1>2. PICK a, b, c : a = Units(0, n) /\ b = Units(n, k) /\ c = Units(0, n + k)
  BY Zenon
<1>3. /\ a \in Seq(Nat) /\ Len(a) = n /\ b \in Seq(Nat) /\ Len(b) = k
      /\ c \in Seq(Nat) /\ Len(c) = n + k
  BY <1>1, <1>2
<1>4. /\ \A i \in 1 .. n : a[i] = i
      /\ \A i \in 1 .. k : b[i] = n + i
      /\ \A i \in 1 .. n + k : c[i] = i
  BY <1>2 DEF Units
<1>5. /\ a \o b \in Seq(Nat) /\ Len(a \o b) = n + k
      /\ \A i \in 1 .. n + k : (a \o b)[i] = IF i <= n THEN a[i] ELSE b[i - n]
  BY <1>3, ConcatElements, Zenon
<1>6. \A i \in 1 .. n + k : (a \o b)[i] = c[i]
  <2> SUFFICES ASSUME NEW i \in 1 .. n + k
               PROVE  (a \o b)[i] = i
    BY <1>4, Zenon
  <2>1. ~(i <= n) => i - n \in 1 .. k /\ b[i - n] = i
    BY <1>4
  <2>2. i <= n => a[i] = i
    BY <1>4
  <2> QED
    BY <1>5, <2>1, <2>2, Zenon
<1>7. a \o b = c
  BY <1>3, <1>5, <1>6, SameElements, Zenon
<1>8. Units(0, 0) = <<>>
  BY DEF Units
<1> QED
  BY <1>1, <1>2, <1>7, <1>8, Zenon

(* A nonempty set of numbers has a least one.                              *)
LEMMA Least ==
  ASSUME NEW S \in SUBSET Nat, S # {}
  PROVE  \E n \in S : \A m \in S : n <= m
<1>1. PICK R : R = OpToRel(<, Nat)
  BY Zenon
<1>2. IsWellFoundedOn(R, Nat)
  BY <1>1, NatLessThanWellFounded, Zenon
<1>3. \A x, y \in Nat : <<x, y>> \in R <=> x < y
  BY <1>1 DEF OpToRel
<1>4. PICK n \in S : \A m \in S : <<m, n>> \notin R
  BY <1>2, WFMin, Zenon
<1>5. ASSUME NEW m \in S
      PROVE  n <= m
  <2>1. ~(m < n) /\ m \in Nat /\ n \in Nat
    BY <1>3, <1>4, Zenon
  <2> QED
    BY <2>1
<1> QED
  BY <1>5, Zenon
-----------------------------------------------------------------------------
Segment == {d \in Seq(Nat) : Len(d) = SegLen}
Datagram == {d \in Seq(Nat) : Len(d) \in Arrival}

\* The types of what holds data; the TX queue never exceeds its room.
DataTypes ==
  /\ rx_queue \in Seq(RxLetter)
  /\ tx_queue \in Seq(Letter) /\ Len(tx_queue) <= TxRoom
  /\ msg_f2b \in [Session -> Seq(Segment)]
  /\ msg_b2f \in [Session -> Seq(Seq(Nat))]
  /\ inq \in [Session -> Seq(Seq(Nat))] /\ \A s \in Udp : inq[s] \in Seq(Datagram)
  /\ sent \in [Session -> Seq(Nat)] /\ got \in [Session -> Seq(Nat)]
  /\ produced \in [Session -> Nat] /\ arrived \in [Session -> Nat]

(* high_speed_data_process_f2b hands units of the first Len(n) segments to *)
(* the socket, all of them when send() does not stop half way.             *)
LEMMA SendsMove ==
  ASSUME DataTypes, NEW s \in Session, NEW n \in Counts(s), Sends(s, n)
  PROVE  /\ Len(n) \in 0 .. Len(msg_f2b[s])
         /\ \E x \in Seq(Nat) :
              /\ sent' = [sent EXCEPT ![s] = @ \o x]
              /\ ~(ShortSend /\ s \in Tcp) => x = Flatten(SubSeq(msg_f2b[s], 1, Len(n)))
<1>1. PICK q : q = msg_f2b[s]
  OBVIOUS
<1>2. q \in Seq(Segment) /\ Len(q) \in Nat
  BY <1>1 DEF DataTypes
<1>3. PICK k \in 0 .. Len(q) : n \in [1 .. k -> 1 .. SegLen]
  BY <1>1, Zenon DEF Counts
<1>4. Len(n) = k
  BY <1>2, <1>3
<1>5. \A i \in 1 .. k : /\ q[i] \in Seq(Nat) /\ Len(q[i]) = SegLen
                        /\ n[i] \in 1 .. SegLen
  BY <1>2, <1>3 DEF Segment
<1>6. SegLen \in Nat
  BY DataAssumption, Zenon
<1>7. PICK f : f = [i \in 1 .. k |-> SubSeq(q[i], 1, n[i])]
  BY Zenon
<1>8. f \in Seq(Seq(Nat)) /\ Len(f) = k
  <2>1. \A i \in 1 .. k : SubSeq(q[i], 1, n[i]) \in Seq(Nat)
    BY <1>5, <1>6
  <2>2. f \in [1 .. k -> Seq(Nat)]
    BY <1>7, <2>1, Zenon
  <2> QED
    BY <1>2, <2>2, FunctionIsSeq
<1>9. Flatten(f) \in Seq(Nat)
  <2>1. <<>> \in Seq(Nat)
    OBVIOUS
  <2> QED
    BY <1>8, <2>1, FlattenAppend, Zenon
<1>10. sent' = [sent EXCEPT ![s] = @ \o Flatten(f)]
  BY <1>1, <1>4, <1>7, Zenon DEF Sends
<1>11. ASSUME ~(ShortSend /\ s \in Tcp)
       PROVE  f = SubSeq(q, 1, k)
  <2>1. \A i \in 1 .. k : n[i] = SegLen
    BY <1>4, <1>11 DEF Sends
  <2>2. PICK g : g = SubSeq(q, 1, k)
    BY Zenon
  <2>3. g \in Seq(Segment) /\ Len(g) = k /\ \A i \in 1 .. k : g[i] = q[i]
    BY <1>2, <2>2
  <2>4. \A i \in 1 .. k : f[i] = g[i]
    <3> SUFFICES ASSUME NEW i \in 1 .. k
                 PROVE  f[i] = q[i]
      BY <2>3, Zenon
    <3>1. f[i] = SubSeq(q[i], 1, Len(q[i])) /\ q[i] \in Seq(Nat)
      BY <1>5, <1>7, <2>1, Zenon
    <3> QED
      BY <3>1
  <2>5. g \in Seq(Seq(Nat))
    BY <2>3 DEF Segment
  <2>6. f = g
    BY <1>8, <2>3, <2>4, <2>5, SameElements
  <2> QED
    BY <2>2, <2>6, Zenon
<1> QED
  BY <1>1, <1>3, <1>4, <1>9, <1>10, <1>11, Zenon

\* poller_run moves segments a from the socket of session s to its queue and
\* leaves b; then it links the session, or leaves something to read.
Moves(s, a, b) ==
  /\ a \in Seq(Seq(Nat)) /\ b \in Seq(Seq(Nat))
  /\ msg_b2f' = [msg_b2f EXCEPT ![s] = @ \o a]
  /\ inq' = [inq EXCEPT ![s] = b]
WholeMove(s, a, b) ==
  /\ Flatten(inq[s]) = Flatten(a) \o Flatten(b)
  /\ LinkB2f(s) \/ (b # <<>> /\ UNCHANGED <<queue_b2f, state_b2f>>)

(* What a TCP socket held is in the queue or still in the socket.          *)
LEMMA TcpMoves ==
  ASSUME DataTypes, NEW e, e.sess \in Session, NnsTcp(e)
  PROVE  \E a, b : Moves(e.sess, a, b) /\ WholeMove(e.sess, a, b)
<1>1. PICK s : s = e.sess
  BY Zenon
<1>2. inq[s] \in Seq(Seq(Nat)) /\ ReadMax \in Nat \ {0} /\ <<>> \in Seq(Nat)
  BY <1>1, DataAssumption, SMTT(30) DEF DataTypes
<1>3. Flatten(inq[s]) \in Seq(Nat)
  BY <1>2, FlattenAppend, Zenon
<1>4. PICK p : p = Cut(Flatten(inq[s]), ReadMax)
  BY Zenon
<1>5. p \in Seq(Seq(Nat)) /\ Flatten(p) = Flatten(inq[s])
  BY <1>2, <1>3, <1>4, CutFlattens
<1>6. PICK k \in 0 .. Len(p) :
        /\ msg_b2f' = [msg_b2f EXCEPT ![s] = @ \o SubSeq(p, 1, k)]
        /\ inq' = [inq EXCEPT ![s] = SubSeq(p, k + 1, Len(p))]
        /\ IF k = Len(p) THEN LinkB2f(s) ELSE UNCHANGED <<queue_b2f, state_b2f>>
  BY <1>1, <1>4, Zenon DEF NnsTcp
<1>7. PICK a, b : a = SubSeq(p, 1, k) /\ b = SubSeq(p, k + 1, Len(p))
  BY Zenon
<1>8. /\ a \in Seq(Seq(Nat)) /\ b \in Seq(Seq(Nat))
      /\ Flatten(p) = Flatten(a) \o Flatten(b)
  BY <1>5, <1>7, FlattenSplit, Zenon
<1>9. k # Len(p) => b # <<>>
  BY <1>5, <1>7, SplitAt, Zenon
<1>10. Moves(s, a, b)
  BY <1>6, <1>7, <1>8, Zenon DEF Moves
<1>11. WholeMove(s, a, b)
  BY <1>5, <1>6, <1>8, <1>9 DEF WholeMove
<1> QED
  BY <1>1, <1>10, <1>11

\* No datagram is longer than what one read() takes.
WholeDatagrams == \A n \in Arrival : n <= ReadMax

(* read() then takes datagrams as they are.                                *)
LEMMA TakenFacts ==
  ASSUME NEW q \in Seq(Datagram)
  PROVE  /\ Taken(q) \in Seq(Seq(Nat)) /\ Len(Taken(q)) = Len(q)
         /\ WholeDatagrams => Taken(q) = q
<1>1. Len(q) \in Nat /\ ReadMax \in Nat \ {0}
  BY DataAssumption
<1>2. \A i \in 1 .. Len(q) : q[i] \in Seq(Nat) /\ Len(q[i]) \in Nat /\ Len(q[i]) \in Arrival
  BY DEF Datagram
<1> DEFINE piece(d) == IF Len(d) < ReadMax THEN d ELSE SubSeq(d, 1, ReadMax)
<1>3. \A i \in 1 .. Len(q) : piece(q[i]) \in Seq(Nat)
  BY <1>1, <1>2
<1>4. Taken(q) = [i \in 1 .. Len(q) |-> piece(q[i])]
  BY Zenon DEF Taken
<1>5. Taken(q) \in [1 .. Len(q) -> Seq(Nat)]
  <2> HIDE DEF piece
  <2> QED
    BY <1>3, <1>4, Zenon
<1>6. Taken(q) \in Seq(Seq(Nat)) /\ Len(Taken(q)) = Len(q)
  BY <1>1, <1>5, FunctionIsSeq, Zenon
<1>7. ASSUME WholeDatagrams
      PROVE  Taken(q) = q
  <2>1. q \in Seq(Seq(Nat))
    BY <1>2
  <2>2. ASSUME NEW i \in 1 .. Len(q)
        PROVE  Taken(q)[i] = q[i]
    <3>1. Len(q[i]) <= ReadMax /\ q[i] \in Seq(Nat) /\ Len(q[i]) \in Nat
      BY <1>2, <1>7 DEF WholeDatagrams
    <3>2. SubSeq(q[i], 1, Len(q[i])) = q[i]
      BY <3>1
    <3>3. Len(q[i]) < ReadMax \/ Len(q[i]) = ReadMax
      BY <1>1, <3>1
    <3>4. piece(q[i]) = q[i]
      BY <3>2, <3>3, Zenon
    <3> HIDE DEF piece
    <3> QED
      BY <1>4, <3>4, Zenon
  <2> QED
    BY <1>6, <2>1, <2>2, SameElements, Zenon
<1> QED
  BY <1>6, <1>7, Zenon

(* And the first read() uses up the count.                                 *)
LEMMA EnoughFacts ==
  ASSUME NEW q \in Seq(Datagram), q # <<>>
  PROVE  /\ Enough(q) \subseteq 0 .. Len(q)
         /\ WholeDatagrams => Enough(q) # {}
<1>2. PICK l : l = [i \in 1 .. Len(q) |-> Len(Taken(q)[i])]
  BY Zenon
<1>3. Len(q) \in Nat \ {0} /\ Taken(q) \in Seq(Seq(Nat)) /\ Len(Taken(q)) = Len(q)
  BY TakenFacts
<1>4. l \in [1 .. Len(q) -> Nat]
  BY <1>2, <1>3
<1> DEFINE Is(n) == \E g \in [0 .. n -> Nat] :
             \A k \in 0 .. n : g[k] = IF k = 0 THEN 0 ELSE g[k - 1] + Len(Taken(q)[k])
           P == {n \in Nat : n <= Len(q) => Is(n)}
<1>5. 0 \in P
  <2>1. PICK g : g = [k \in 0 .. 0 |-> 0]
    BY Zenon
  <2>2. g \in [0 .. 0 -> Nat] /\ \A k \in 0 .. 0 : k = 0 /\ g[k] = 0
    BY <2>1
  <2>3. Is(0)
    BY <2>2, Zenon
  <2> HIDE DEF Is
  <2> QED
    BY <2>3, Zenon
<1>6. ASSUME NEW n \in P
      PROVE  n + 1 \in P
  <2> SUFFICES ASSUME n + 1 <= Len(q)
               PROVE  Is(n + 1)
    <3> HIDE DEF Is
    <3> QED
      OBVIOUS
  <2>0. Is(n)
    <3> HIDE DEF Is
    <3> QED
      BY <1>3
  <2>1. PICK g \in [0 .. n -> Nat] :
          \A k \in 0 .. n : g[k] = IF k = 0 THEN 0 ELSE g[k - 1] + Len(Taken(q)[k])
    BY <2>0, Zenon
  <2>2. PICK x : x = g[n] + Len(Taken(q)[n + 1])
    BY Zenon
  <2>3. x \in Nat
    <3>0. n + 1 \in 1 .. Len(q)
      BY <1>3
    <3>1. g[n] \in Nat /\ l[n + 1] = Len(Taken(q)[n + 1]) /\ l[n + 1] \in Nat
      BY <1>2, <1>4, <3>0
    <3> QED
      BY <2>2, <3>1
  <2>4. PICK h : h = [k \in 0 .. n + 1 |-> IF k = n + 1 THEN x ELSE g[k]]
    BY Zenon
  <2>5. h \in [0 .. n + 1 -> Nat]
    BY <2>3, <2>4
  <2>6. ASSUME NEW k \in 0 .. n + 1
        PROVE  h[k] = IF k = 0 THEN 0 ELSE h[k - 1] + Len(Taken(q)[k])
    <3>1. CASE k = n + 1
      <4>1. h[k] = x /\ h[k - 1] = g[n] /\ k # 0
        BY <2>4, <3>1
      <4> QED
        BY <2>2, <3>1, <4>1, Zenon
    <3>2. CASE k # n + 1
      <4>1. h[k] = g[k] /\ k \in 0 .. n
        BY <2>4, <3>2
      <4>2. k # 0 => h[k - 1] = g[k - 1]
        BY <2>4, <3>2
      <4> QED
        BY <2>1, <4>1, <4>2
    <3> QED
      BY <3>1, <3>2, Zenon
  <2> QED
    BY <2>5, <2>6, Zenon
<1>7. P = Nat
  <2> HIDE DEF P
  <2>1. P \subseteq Nat
    BY Zenon DEF P
  <2> QED
    BY <1>5, <1>6, <2>1, InductionInSet, Zenon
<1>8. Is(Len(q))
  <2> HIDE DEF Is
  <2> QED
    BY <1>3, <1>7, SMTT(30)
<1>9. PICK g \in [0 .. Len(q) -> Nat] :
        \A k \in 0 .. Len(q) : g[k] = IF k = 0 THEN 0 ELSE g[k - 1] + Len(Taken(q)[k])
  BY <1>8, Zenon
<1>10. g = [k \in 0 .. Len(q) |-> IF k = 0 THEN 0 ELSE g[k - 1] + Len(Taken(q)[k])]
  BY <1>9, Zenon
<1>11. PICK f : f = CHOOSE used :
         used = [k \in 0 .. Len(q) |-> IF k = 0 THEN 0 ELSE used[k - 1] + Len(Taken(q)[k])]
  OBVIOUS
<1>12. f = [k \in 0 .. Len(q) |-> IF k = 0 THEN 0 ELSE f[k - 1] + Len(Taken(q)[k])]
  BY <1>10, <1>11, Zenon
<1>13. Enough(q) = {k \in 0 .. Len(q) : f[k] >= Len(q[1])}
  BY <1>11 DEF Enough
<1>14. ASSUME WholeDatagrams
       PROVE  1 \in Enough(q)
  <2>1. Taken(q)[1] = q[1] /\ Len(q[1]) \in Nat /\ 1 \in 0 .. Len(q) /\ 0 \in 0 .. Len(q)
    BY <1>3, <1>14, TakenFacts DEF Datagram
  <2>2. f[0] = 0 /\ f[1] = f[0] + Len(Taken(q)[1])
    BY <1>12, <2>1
  <2>3. f[1] >= Len(q[1])
    BY <2>1, <2>2
  <2> QED
    BY <1>13, <2>1, <2>3
<1> QED
  BY <1>13, <1>14, Zenon

(* So does a UDP socket, except for what does not fit one read().          *)
LEMMA UdpMoves ==
  ASSUME DataTypes, NEW e, e.sess \in Session, NnsUdp(e)
  PROVE  \E a, b : /\ Moves(e.sess, a, b) /\ b \in Seq(Datagram)
                   /\ WholeDatagrams => WholeMove(e.sess, a, b)
<1>1. PICK s, z : s = e.sess /\ z = inq[s]
  BY Zenon
<1>2. s \in Udp /\ z \in Seq(Datagram) /\ z \in Seq(Seq(Nat)) /\ z # <<>>
  BY <1>1, Zenon DEF NnsUdp, DataTypes
<1>3. PICK k : k = Rounds(z)
  BY Zenon
<1>4. k \in 0 .. Len(z)
  <2>1. Enough(z) \subseteq 0 .. Len(z) /\ Enough(z) \in SUBSET Nat
    BY <1>2, EnoughFacts
  <2>2. ASSUME Enough(z) # {}
        PROVE  k \in Enough(z)
    <3>1. \E i \in Enough(z) : \A j \in Enough(z) : i <= j
      BY <2>1, <2>2, Least, Zenon
    <3> QED
      BY <1>3, <2>2, <3>1, Zenon DEF Rounds
  <2>3. Len(z) \in 0 .. Len(z)
    BY <1>2
  <2>4. Enough(z) = {} => k = Len(z)
    BY <1>3 DEF Rounds
  <2> QED
    BY <2>1, <2>2, <2>3, <2>4, Zenon
<1>5. PICK j \in 0 .. k :
        /\ msg_b2f' = [msg_b2f EXCEPT ![s] = @ \o SubSeq(Taken(z), 1, j)]
        /\ inq' = [inq EXCEPT ![s] = SubSeq(@, j + 1, Len(@))]
        /\ IF j = k /\ Enough(z) # {} THEN LinkB2f(s) ELSE UNCHANGED <<queue_b2f, state_b2f>>
  BY <1>1, <1>3, Zenon DEF NnsUdp
<1>6. j \in 0 .. Len(z) /\ Taken(z) \in Seq(Seq(Nat)) /\ Len(Taken(z)) = Len(z)
  BY <1>2, <1>4, <1>5, TakenFacts
<1>7. PICK a, b : a = SubSeq(Taken(z), 1, j) /\ b = SubSeq(z, j + 1, Len(z))
  BY Zenon
<1>8. a \in Seq(Seq(Nat))
  BY <1>6, <1>7, SplitAt, Zenon
<1>9. b \in Seq(Datagram) /\ b \in Seq(Seq(Nat)) /\ (j # Len(z) => b # <<>>)
  BY <1>2, <1>6, <1>7, SplitAt, Zenon
<1>10. Moves(s, a, b)
  <2>1. inq' = [inq EXCEPT ![s] = b]
    BY <1>1, <1>5, <1>7, Zenon DEF DataTypes
  <2> QED
    BY <1>5, <1>7, <1>8, <1>9, <2>1, Zenon DEF Moves
<1>11. ASSUME WholeDatagrams
       PROVE  WholeMove(s, a, b)
  <2>1. Flatten(z) = Flatten(SubSeq(z, 1, j)) \o Flatten(b)
    BY <1>2, <1>6, <1>7, FlattenSplit, Zenon
  <2>2. a = SubSeq(z, 1, j)
    BY <1>2, <1>7, <1>11, TakenFacts
  <2>3. Enough(z) # {}
    BY <1>2, <1>11, EnoughFacts
  <2>4. j # k => j # Len(z)
    BY <1>4, <1>5
  <2> QED
    BY <1>1, <1>5, <1>9, <2>1, <2>2, <2>3, <2>4, Zenon DEF WholeMove
<1> QED
  BY <1>1, <1>9, <1>10, <1>11, Zenon

(* high_speed_data_process_b2f puts the first k segments of a session into *)
(* the TX queue, in order, and detaches the session when they are all.     *)
LEMMA B2fMoves ==
  ASSUME DataTypes, NEW s \in Session, s = Head(todo), DataProcessB2f
  PROVE  \E k \in 0 .. Len(msg_b2f[s]), r \in Seq(Letter) :
           /\ tx_queue' = tx_queue \o r /\ Len(tx_queue') <= TxRoom
           /\ msg_b2f' = [msg_b2f EXCEPT ![s] = SubSeq(@, k + 1, Len(@))]
           /\ InTransit(r, s) = Flatten(SubSeq(msg_b2f[s], 1, k))
           /\ \A t \in Session \ {s} : InTransit(r, t) = <<>>
           /\ \/ k = Len(msg_b2f[s]) /\ queue_b2f' = Without(queue_b2f, s)
              \/ UNCHANGED queue_b2f
<1>1. PICK q : q = msg_b2f[s]
  BY Zenon
<1>2. /\ q \in Seq(Seq(Nat)) /\ Len(q) \in Nat /\ TxRoom \in Nat
      /\ tx_queue \in Seq(Letter) /\ Len(tx_queue) \in Nat /\ Len(tx_queue) <= TxRoom
  BY <1>1, DataAssumption, SMTT(30) DEF DataTypes
<1>3. PICK k : k = IF Len(q) < TxRoom - Len(tx_queue) THEN Len(q) ELSE TxRoom - Len(tx_queue)
  BY Zenon
<1>4. k \in 0 .. Len(q) /\ Len(tx_queue) + k <= TxRoom
  BY <1>2, <1>3
<1>5. PICK r : r = [i \in 1 .. k |-> Message("data", s, q[i])]
  BY Zenon
<1>6. /\ tx_queue' = tx_queue \o r
      /\ msg_b2f' = [msg_b2f EXCEPT ![s] = SubSeq(q, k + 1, Len(q))]
      /\ \/ k = Len(q) /\ queue_b2f' = Without(queue_b2f, s)
         \/ UNCHANGED queue_b2f
  BY <1>1, <1>3, <1>5, Zenon DEF DataProcessB2f
<1>7. msg_b2f' = [msg_b2f EXCEPT ![s] = SubSeq(@, k + 1, Len(@))]
  BY <1>1, <1>6, Zenon DEF DataTypes
<1>8. r \in Seq(Letter) /\ Len(r) = k
  <2>1. \A i \in 1 .. k : q[i] \in Seq(Nat)
    BY <1>2, <1>4
  <2>2. r \in [1 .. k -> Letter]
    BY <1>5, <2>1, Zenon DEF Message, Letter
  <2> QED
    BY <1>4, <2>2, FunctionIsSeq
<1>9. Len(tx_queue') <= TxRoom
  <2>1. Len(tx_queue \o r) = Len(tx_queue) + Len(r)
    BY <1>2, <1>8, ConcatElements, Zenon
  <2> QED
    BY <1>4, <1>6, <1>8, <2>1, Zenon
<1>10. \A i \in 1 .. k : r[i].sess = s /\ r[i].data = q[i]
  BY <1>5, Zenon DEF Message
<1>11. InTransit(r, s) = Flatten(SubSeq(q, 1, k))
  <2>1. PICK g : g = SubSeq(q, 1, k)
    BY Zenon
  <2>2. g \in Seq(Seq(Nat)) /\ Len(g) = k /\ \A i \in 1 .. k : g[i] = q[i]
    <3>1. g \in Seq(Seq(Nat))
      BY <1>2, <1>4, <2>1
    <3>2. Len(g) = k /\ \A i \in 1 .. k : g[i] = q[i]
      BY <1>2, <1>4, <2>1
    <3> QED
      BY <3>1, <3>2, Zenon
  <2>3. PICK f : f = [i \in DOMAIN r |-> IF r[i].sess = s THEN r[i].data ELSE <<>>]
    BY Zenon
  <2>4. DOMAIN r = 1 .. k /\ \A i \in 1 .. k : f[i] = q[i]
    BY <1>8, <1>10, <2>3
  <2>5. f = [i \in 1 .. k |-> g[i]]
    BY <2>2, <2>3, <2>4, Zenon
  <2>6. f = g
    BY <2>2, <2>5
  <2> QED
    BY <2>1, <2>3, <2>6, Zenon DEF InTransit
<1>12. ASSUME NEW t \in Session \ {s}
       PROVE  InTransit(r, t) = <<>>
  <2>1. PICK f : f = [i \in DOMAIN r |-> IF r[i].sess = t THEN r[i].data ELSE <<>>]
    BY Zenon
  <2>2. <<>> \in Seq({})
    OBVIOUS
  <2>3. f \in [1 .. k -> Seq({})]
    BY <1>8, <1>10, <2>1, <2>2
  <2>4. f \in Seq(Seq({}))
    BY <1>4, <2>3, FunctionIsSeq
  <2>5. Flatten(f) \in Seq({})
    BY <2>2, <2>4, FlattenAppend, Zenon
  <2>6. Flatten(f) = <<>>
    BY <2>5
  <2> QED
    BY <2>1, <2>6, Zenon DEF InTransit
<1> QED
  BY <1>1, <1>4, <1>6, <1>7, <1>8, <1>9, <1>11, <1>12, Zenon

(* Segments and datagrams are sequences of units, letters of the frontend  *)
(* are letters.                                                            *)
LEMMA DataSubtypes ==
  ASSUME DataTypes
  PROVE  /\ rx_queue \in Seq(Letter)
         /\ msg_f2b \in [Session -> Seq(Seq(Nat))]
<1>1. RxLetter \subseteq Letter /\ Segment \subseteq Seq(Nat)
  BY Zenon DEF RxLetter, Segment
<1>2. rx_queue \in Seq(Letter)
  BY <1>1 DEF DataTypes
<1>3. Seq(Segment) \subseteq Seq(Seq(Nat))
  BY <1>1
<1> QED
  BY <1>2, <1>3, Zenon DEF DataTypes

(* The loops visit sessions.                                               *)
LEMMA VisitsSession ==
  ASSUME LinkInv, todo # <<>>
  PROVE  Head(todo) \in Session
<1>1. todo \in Seq(alive) /\ IsInjective(todo) /\ alive \subseteq Session
  BY Zenon DEF LinkInv, Visits
<1>2. Head(todo) \in alive
  BY <1>1, TailVisits, Zenon
<1> QED
  BY <1>1, <1>2, Zenon

(* The engine takes letters from the RX queue.                             *)
LEMMA NextLetter ==
  ASSUME DataTypes, rx_queue # <<>>
  PROVE  /\ Head(rx_queue) \in RxLetter /\ Head(rx_queue) \in Letter
         /\ Head(rx_queue).sess \in Session /\ Head(rx_queue).data \in Seq(Nat)
         /\ Tail(rx_queue) \in Seq(RxLetter)
<1>1. rx_queue \in Seq(RxLetter)
  BY Zenon DEF DataTypes
<1>2. Head(rx_queue) \in RxLetter /\ Tail(rx_queue) \in Seq(RxLetter)
  BY <1>1
<1>3. Head(rx_queue) \in Letter
  BY <1>2, Zenon DEF RxLetter
<1>4. Head(rx_queue).sess \in Session /\ Head(rx_queue).data \in Seq(Nat)
  BY <1>3, Zenon DEF Letter
<1> QED
  BY <1>2, <1>3, <1>4, Zenon

(* One session's part of a function is replaced.                           *)
LEMMA Updated ==
  ASSUME NEW S, NEW f \in [Session -> S], NEW s, NEW v \in S
  PROVE  [f EXCEPT ![s] = v] \in [Session -> S]
BY Zenon

(* high_speed_delete_sess adds no data to the TX queue.                    *)
LEMMA DeleteKeepsData ==
  ASSUME DataTypes, NEW s \in Session, DeleteSess(s)
  PROVE  /\ tx_queue' \in Seq(Letter) /\ Len(tx_queue') <= TxRoom
         /\ \A t \in Session : InTransit(tx_queue', t) = InTransit(tx_queue, t)
         /\ msg_f2b' = [msg_f2b EXCEPT ![s] = <<>>]
         /\ msg_b2f' = [msg_b2f EXCEPT ![s] = <<>>]
         /\ msg_f2b' \in [Session -> Seq(Segment)]
         /\ msg_b2f' \in [Session -> Seq(Seq(Nat))]
         /\ alive' = alive \ {s}
<1>1. /\ tx_queue \in Seq(Letter) /\ Len(tx_queue) \in Nat /\ Len(tx_queue) <= TxRoom
      /\ TxRoom \in Nat
  <2>1. tx_queue \in Seq(Letter) /\ Len(tx_queue) <= TxRoom
    BY Zenon DEF DataTypes
  <2>2. TxRoom \in Nat
    BY DataAssumption, Zenon
  <2> QED
    BY <2>1, <2>2
<1>2. PICK m : m = Message("close", s, <<>>)
  BY Zenon
<1>3. m \in Letter /\ m.data = <<>>
  <2>1. <<>> \in Seq(Nat)
    OBVIOUS
  <2>2. m \in Letter
    BY <1>2, <2>1, Zenon DEF Message, Letter
  <2> QED
    BY <1>2, <2>2, Zenon DEF Message
<1>4. tx_queue' = IF Len(tx_queue) < TxRoom THEN Append(tx_queue, m) ELSE tx_queue
  BY <1>2, Zenon DEF DeleteSess, CloseNotice
<1>5. ASSUME NEW t \in Session
      PROVE  InTransit(tx_queue', t) = InTransit(tx_queue, t)
  <2>1. /\ InTransit(tx_queue, t) \in Seq(Nat)
        /\ InTransit(Append(tx_queue, m), t) = InTransit(tx_queue, t) \o Share(m, t)
    BY <1>1, <1>3, TransitEnds, Zenon
  <2>2. Share(m, t) = <<>>
    BY <1>3, Zenon DEF Share
  <2>3. InTransit(tx_queue, t) \o <<>> = InTransit(tx_queue, t)
    BY <2>1, ConcatAssociates, Zenon
  <2> QED
    BY <1>4, <2>1, <2>2, <2>3, Zenon
<1>6. tx_queue' \in Seq(Letter) /\ Len(tx_queue') <= TxRoom
  BY <1>1, <1>3, <1>4
<1>7. <<>> \in Seq(Segment) /\ <<>> \in Seq(Seq(Nat))
  OBVIOUS
<1>8. /\ msg_f2b \in [Session -> Seq(Segment)]
      /\ msg_b2f \in [Session -> Seq(Seq(Nat))]
  BY Zenon DEF DataTypes
<1>9. /\ [msg_f2b EXCEPT ![s] = <<>>] \in [Session -> Seq(Segment)]
      /\ [msg_b2f EXCEPT ![s] = <<>>] \in [Session -> Seq(Seq(Nat))]
  BY <1>7, <1>8, Updated, Zenon
<1> QED
  BY <1>5, <1>6, <1>9, Zenon DEF DeleteSess

LEMMA DataInit ==
  ASSUME Init
  PROVE  DataTypes
<1>1. /\ <<>> \in Seq(Segment) /\ <<>> \in Seq(Seq(Nat)) /\ <<>> \in Seq(Datagram)
      /\ <<>> \in Seq(Nat) /\ <<>> \in Seq(RxLetter) /\ <<>> \in Seq(Letter)
      /\ Len(<<>>) <= TxRoom
  BY DataAssumption
<1>2. msg_f2b \in [Session -> Seq(Segment)] /\ msg_b2f \in [Session -> Seq(Seq(Nat))]
  BY <1>1, Zenon DEF Init
<1>3. inq \in [Session -> Seq(Seq(Nat))] /\ \A s \in Udp : inq[s] \in Seq(Datagram)
  BY <1>1, Zenon DEF Init, Session
<1>4. sent \in [Session -> Seq(Nat)] /\ got \in [Session -> Seq(Nat)]
  BY <1>1, Zenon DEF Init
<1>5. produced \in [Session -> Nat] /\ arrived \in [Session -> Nat]
  BY Zenon DEF Init
<1>6. rx_queue \in Seq(RxLetter) /\ tx_queue \in Seq(Letter) /\ Len(tx_queue) <= TxRoom
  BY <1>1, Zenon DEF Init
<1> QED
  BY <1>2, <1>3, <1>4, <1>5, <1>6, Zenon DEF DataTypes

(* Every step keeps these types.                                           *)
LEMMA DataStep ==
  ASSUME LinkInv, DataTypes, [Next]_vars
  PROVE  DataTypes'
<1> USE DEF frontVars, sockVars, queues
<1>0. /\ alive \subseteq Session /\ todo \in Seq(alive)
      /\ \A e \in ready : e.sess \in Session
  BY Zenon DEF LinkInv, Visits
<1>1. CASE RxMessage
  <2>1. PICK m : m = Head(rx_queue)
    BY Zenon
  <2>2. m \in RxLetter /\ rx_queue' \in Seq(RxLetter)
    BY <1>1, <2>1, NextLetter, Zenon DEF RxMessage
  <2>3. m.sess \in Session
    BY <1>1, <2>1, NextLetter, Zenon DEF RxMessage
  <2>4. /\ RxData(m) \/ RxClose(m)
        /\ UNCHANGED <<inq, sent, got, produced, arrived>>
    BY <1>1, <2>1, Zenon DEF RxMessage
  <2>5. CASE RxData(m)
    <3>1. m.data \in Segment
      BY <2>2, <2>5, Zenon DEF RxLetter, Letter, Segment, RxData
    <3>2. /\ \/ msg_f2b' = [msg_f2b EXCEPT ![m.sess] = Append(msg_f2b[m.sess], m.data)]
             \/ msg_f2b' = msg_f2b
          /\ UNCHANGED <<msg_b2f, tx_queue>>
      BY <2>5, Zenon DEF RxData
    <3>3. Append(msg_f2b[m.sess], m.data) \in Seq(Segment)
      BY <2>3, <3>1 DEF DataTypes
    <3>4. msg_f2b' \in [Session -> Seq(Segment)]
      BY <3>2, <3>3, Updated, Zenon DEF DataTypes
    <3> QED
      BY <2>2, <2>4, <3>2, <3>4, Zenon DEF DataTypes
  <2>6. CASE RxClose(m)
    <3>1. CASE DeleteSess(m.sess)
      <4>1. /\ tx_queue' \in Seq(Letter) /\ Len(tx_queue') <= TxRoom
            /\ msg_f2b' \in [Session -> Seq(Segment)]
            /\ msg_b2f' \in [Session -> Seq(Seq(Nat))]
        BY <2>3, <3>1, DeleteKeepsData, Zenon
      <4> QED
        BY <2>2, <2>4, <4>1, Zenon DEF DataTypes
    <3>2. CASE ~DeleteSess(m.sess)
      <4>1. UNCHANGED <<msg_f2b, msg_b2f, tx_queue>>
        BY <2>6, <3>2, Zenon DEF RxClose
      <4> QED
        BY <2>2, <2>4, <4>1, Zenon DEF DataTypes
    <3> QED
      BY <3>1, <3>2, Zenon
  <2> QED
    BY <2>4, <2>5, <2>6, Zenon
<1>2. CASE DataProcessF2b
  <2>1. PICK s : s = Head(todo)
    BY Zenon
  <2>2. s \in Session
    BY <1>2, <2>1, VisitsSession, Zenon DEF DataProcessF2b
  <2>3. PICK n \in Counts(s) :
          Sends(s, n) /\ (SendOk(s, n) \/ SendAgain(s, n) \/ SendError(s, n))
    BY <1>2, <2>1, Zenon DEF DataProcessF2b
  <2>4. PICK x \in Seq(Nat) : sent' = [sent EXCEPT ![s] = @ \o x]
    BY <2>2, <2>3, SendsMove, Zenon
  <2>5. sent' \in [Session -> Seq(Nat)]
    <3>1. sent[s] \o x \in Seq(Nat)
      BY <2>2, <2>4, ConcatElements, Zenon DEF DataTypes
    <3>2. sent' = [sent EXCEPT ![s] = sent[s] \o x]
      BY <2>4, Zenon
    <3> QED
      BY <3>1, <3>2, Updated, Zenon DEF DataTypes
  <2>6. UNCHANGED <<rx_queue, inq, got, produced, arrived>>
    BY <1>2, Zenon DEF DataProcessF2b
  <2>7. CASE DeleteSess(s)
    <3>1. /\ tx_queue' \in Seq(Letter) /\ Len(tx_queue') <= TxRoom
          /\ msg_f2b' \in [Session -> Seq(Segment)]
          /\ msg_b2f' \in [Session -> Seq(Seq(Nat))]
      BY <2>2, <2>7, DeleteKeepsData, Zenon
    <3> QED
      BY <2>5, <2>6, <3>1, Zenon DEF DataTypes
  <2>8. CASE ~DeleteSess(s)
    <3>1. /\ UNCHANGED <<msg_b2f, tx_queue>>
          /\ \/ msg_f2b' = [msg_f2b EXCEPT ![s] = <<>>]
             \/ msg_f2b' = [msg_f2b EXCEPT ![s] = SubSeq(@, Len(n) + 1, Len(@))]
      BY <2>3, <2>8, Zenon DEF SendOk, SendAgain, SendError
    <3>2. msg_f2b[s] \in Seq(Segment) /\ Len(n) \in 0 .. Len(msg_f2b[s])
      BY <2>2, <2>3, SendsMove, Zenon DEF DataTypes
    <3>3. SubSeq(msg_f2b[s], Len(n) + 1, Len(msg_f2b[s])) \in Seq(Segment)
      BY <3>2, SplitAt, Zenon
    <3>4. /\ [msg_f2b EXCEPT ![s] = <<>>] \in [Session -> Seq(Segment)]
          /\ [msg_f2b EXCEPT ![s] = SubSeq(msg_f2b[s], Len(n) + 1, Len(msg_f2b[s]))]
               \in [Session -> Seq(Segment)]
      <4>1. msg_f2b \in [Session -> Seq(Segment)] /\ <<>> \in Seq(Segment)
        BY DEF DataTypes
      <4> QED
        BY <3>3, <4>1, Updated, Zenon
    <3>5. msg_f2b' \in [Session -> Seq(Segment)]
      BY <3>1, <3>4, Zenon
    <3> QED
      BY <2>5, <2>6, <3>1, <3>5, Zenon DEF DataTypes
  <2> QED
    BY <2>7, <2>8, Zenon
<1>3. CASE DataProcessNns
  <2>1. PICK e \in ready : NnsSkip(e) \/ NnsTcp(e) \/ NnsUdp(e)
    BY <1>3, Zenon DEF DataProcessNns
  <2>2. e.sess \in Session /\ Tcp \cap Udp = {}
    BY <1>0, DataAssumption, Zenon
  <2>3. UNCHANGED <<rx_queue, tx_queue, msg_f2b, sent, got, produced, arrived>>
    BY <1>3 DEF DataProcessNns
  <2>4. CASE NnsSkip(e)
    BY <2>3, <2>4, Zenon DEF NnsSkip, DataTypes
  <2>5. ASSUME NEW a, NEW b, Moves(e.sess, a, b), e.sess \in Udp => b \in Seq(Datagram)
        PROVE  DataTypes'
    <3>1. msg_b2f[e.sess] \o a \in Seq(Seq(Nat)) /\ b \in Seq(Seq(Nat))
      BY <2>2, <2>5, ConcatElements, Zenon DEF Moves, DataTypes
    <3>2. msg_b2f' \in [Session -> Seq(Seq(Nat))]
      BY <2>2, <2>5, <3>1, Zenon DEF Moves, DataTypes
    <3>3. inq' \in [Session -> Seq(Seq(Nat))] /\ \A s \in Udp : inq'[s] \in Seq(Datagram)
      BY <2>2, <2>5, <3>1, SMTT(30) DEF Moves, DataTypes
    <3> QED
      BY <2>3, <3>2, <3>3, Zenon DEF DataTypes
  <2>6. CASE NnsTcp(e)
    <3>1. PICK a, b : Moves(e.sess, a, b)
      BY <2>2, <2>6, TcpMoves, Zenon
    <3> QED
      BY <2>2, <2>5, <2>6, <3>1, Zenon DEF NnsTcp
  <2>7. CASE NnsUdp(e)
    <3>1. PICK a, b : Moves(e.sess, a, b) /\ b \in Seq(Datagram)
      BY <2>2, <2>7, UdpMoves
    <3> QED
      BY <2>5, <3>1, Zenon
  <2> QED
    BY <2>1, <2>4, <2>6, <2>7
<1>4. CASE DataProcessB2f
  <2>1. PICK s : s = Head(todo)
    BY Zenon
  <2>2. s \in Session
    BY <1>4, <2>1, VisitsSession, Zenon DEF DataProcessB2f
  <2>3. PICK k \in 0 .. Len(msg_b2f[s]), r \in Seq(Letter) :
          /\ tx_queue' = tx_queue \o r /\ Len(tx_queue') <= TxRoom
          /\ msg_b2f' = [msg_b2f EXCEPT ![s] = SubSeq(@, k + 1, Len(@))]
    BY <1>4, <2>1, <2>2, B2fMoves, Zenon
  <2>4. tx_queue' \in Seq(Letter)
    BY <2>3, ConcatElements, Zenon DEF DataTypes
  <2>5. SubSeq(msg_b2f[s], k + 1, Len(msg_b2f[s])) \in Seq(Seq(Nat))
    BY <2>2, <2>3, SplitAt, Zenon DEF DataTypes
  <2>6. msg_b2f' \in [Session -> Seq(Seq(Nat))]
    BY <2>3, <2>5, Zenon DEF DataTypes
  <2>7. UNCHANGED <<rx_queue, msg_f2b, inq, sent, got, produced, arrived>>
    BY <1>4, Zenon DEF DataProcessB2f
  <2> QED
    BY <2>3, <2>4, <2>6, <2>7, Zenon DEF DataTypes
<1>5. ASSUME NEW s \in Session, FrontendSends(s)
      PROVE  DataTypes'
  <2>1. produced[s] \in Nat /\ SegLen \in Nat
    BY DataAssumption, Zenon DEF DataTypes
  <2>2. produced[s] * SegLen \in Nat
    BY <2>1
  <2>3. PICK u : u = Units(produced[s] * SegLen, SegLen)
    BY Zenon
  <2>4. u \in Seq(Nat) /\ Len(u) = SegLen
    BY <2>1, <2>2, <2>3, UnitsFacts, Zenon
  <2>5. Message("data", s, u) \in RxLetter
    BY <2>4, Zenon DEF Message, RxLetter, Letter
  <2>6. rx_queue' \in Seq(RxLetter)
    BY <1>5, <2>3, <2>5 DEF FrontendSends, DataTypes
  <2>7. produced' \in [Session -> Nat]
    BY <1>5, SMTT(30) DEF FrontendSends, DataTypes
  <2>8. UNCHANGED <<tx_queue, msg_f2b, msg_b2f, inq, sent, got, arrived>>
    BY <1>5, Zenon DEF FrontendSends, engineVars
  <2> QED
    BY <2>6, <2>7, <2>8, Zenon DEF DataTypes
<1>6. ASSUME NEW s \in Session, FrontendCloses(s)
      PROVE  DataTypes'
  <2>1. Message("close", s, <<>>) \in RxLetter
    BY SMTT(30) DEF Message, RxLetter, Letter
  <2>2. rx_queue' \in Seq(RxLetter)
    BY <1>6, <2>1 DEF FrontendCloses, DataTypes
  <2>3. UNCHANGED <<tx_queue, msg_f2b, msg_b2f, inq, sent, got, produced, arrived>>
    BY <1>6, Zenon DEF FrontendCloses, engineVars
  <2> QED
    BY <2>2, <2>3, Zenon DEF DataTypes
<1>7. CASE FrontendReads
  <2>1. PICK m : m = Head(tx_queue)
    BY Zenon
  <2>2. m \in Letter /\ tx_queue' \in Seq(Letter) /\ Len(tx_queue') <= TxRoom
    BY <1>7, <2>1, DataAssumption, SMTT(30) DEF FrontendReads, DataTypes
  <2>3. m.sess \in Session /\ m.data \in Seq(Nat)
    BY <2>2, Zenon DEF Letter
  <2>4. got' = [got EXCEPT ![m.sess] = @ \o m.data]
    BY <1>7, <2>1, Zenon DEF FrontendReads
  <2>5. got' \in [Session -> Seq(Nat)]
    BY <2>3, <2>4 DEF DataTypes
  <2>6. UNCHANGED <<rx_queue, msg_f2b, msg_b2f, inq, sent, produced, arrived>>
    BY <1>7, Zenon DEF FrontendReads, engineVars
  <2> QED
    BY <2>2, <2>5, <2>6, ZenonT(60) DEF DataTypes
<1>8. ASSUME NEW s \in Session, NEW n \in Arrival, PeerSends(s, n)
      PROVE  DataTypes'
  <2>1. arrived[s] \in Nat /\ n \in Nat
    BY DataAssumption, Zenon DEF DataTypes
  <2>2. PICK u : u = Units(arrived[s], n)
    OBVIOUS
  <2>3. u \in Seq(Nat) /\ Len(u) = n /\ u \in Datagram
    BY <2>1, <2>2, UnitsFacts, Zenon DEF Datagram
  <2>4. inq' = [inq EXCEPT ![s] = Append(@, u)]
    BY <1>8, <2>2 DEF PeerSends
  <2>5. inq' \in [Session -> Seq(Seq(Nat))] /\ \A t \in Udp : inq'[t] \in Seq(Datagram)
    BY <2>3, <2>4, SMTT(30) DEF DataTypes
  <2>6. arrived' \in [Session -> Nat]
    BY <1>8, <2>1, SMTT(30) DEF PeerSends, DataTypes
  <2>7. UNCHANGED <<rx_queue, tx_queue, msg_f2b, msg_b2f, sent, got, produced>>
    BY <1>8, Zenon DEF PeerSends, engineVars
  <2> QED
    BY <2>5, <2>6, <2>7, Zenon DEF DataTypes
<1>9. ASSUME UNCHANGED <<rx_queue, tx_queue, msg_f2b, msg_b2f, inq, sent, got, produced, arrived>>
      PROVE  DataTypes'
  BY <1>9 DEF DataTypes
<1>10. CASE RxEmpty \/ Poll \/ NnsDone \/ B2fDone \/ UNCHANGED vars
  BY <1>9, <1>10, Zenon DEF RxEmpty, Poll, NnsDone, B2fDone, vars
<1>11. ASSUME NEW s \in Session, NEW how \in Failure, PeerFails(s, how)
       PROVE  DataTypes'
  BY <1>9, <1>11 DEF PeerFails, engineVars
<1> QED
  BY <1>1, <1>2, <1>3, <1>4, <1>5, <1>6, <1>7, <1>8, <1>10, <1>11, Zenon DEF Next, Engine

(* What is queued and under way has its type, in every state.              *)
THEOREM DataTyped == Spec => [](LinkInv /\ DataTypes)
<1>1. Init => LinkInv /\ DataTypes
  BY LinkInit, DataInit
<1>2. LinkInv /\ DataTypes /\ [Next]_vars => (LinkInv /\ DataTypes)'
  BY LinkStep, DataStep
<1> QED
  BY <1>1, <1>2, PTL DEF Spec
-----------------------------------------------------------------------------
\* A stream in three and in four parts.
Three(a, b, c) == a \o b \o c
Four(a, b, c, d) == Three(a, b, c) \o d

(* Sequences of units, one after the other.                                *)
LEMMA UnitsAssociate ==
  ASSUME NEW a \in Seq(Nat), NEW b \in Seq(Nat), NEW c \in Seq(Nat)
  PROVE  (a \o b) \o c = a \o (b \o c)
BY SMTT(30)

LEMMA UnitsJoin ==
  ASSUME NEW a \in Seq(Nat), NEW b \in Seq(Nat)
  PROVE  a \o b \in Seq(Nat)
OBVIOUS

(* Units that move from the front of one part to the end of the one before *)
(* leave the whole as it was; what is added to the last part comes last.   *)
LEMMA ThreeSecond ==
  ASSUME NEW a \in Seq(Nat), NEW b \in Seq(Nat), NEW c \in Seq(Nat), NEW x \in Seq(Nat)
  PROVE  Three(a \o x, b, c) = Three(a, x \o b, c)
<1>1. (a \o x) \o b = a \o (x \o b)
  BY UnitsAssociate, ZenonT(60)
<1> QED
  BY <1>1, Zenon DEF Three

(* The same for the third part,                                            *)
LEMMA ThreeThird ==
  ASSUME NEW a \in Seq(Nat), NEW b \in Seq(Nat), NEW c \in Seq(Nat), NEW x \in Seq(Nat)
  PROVE  Three(a, b \o x, c) = Three(a, b, x \o c)
<1>1. a \o b \in Seq(Nat)
  BY UnitsJoin, Zenon
<1>2. a \o (b \o x) = (a \o b) \o x
  BY UnitsAssociate, ZenonT(60)
<1>3. ((a \o b) \o x) \o c = (a \o b) \o (x \o c)
  BY <1>1, UnitsAssociate, Zenon
<1> QED
  BY <1>2, <1>3, Zenon DEF Three

(* the end,                                                                *)
LEMMA ThreeEnd ==
  ASSUME NEW a \in Seq(Nat), NEW b \in Seq(Nat), NEW c \in Seq(Nat), NEW x \in Seq(Nat)
  PROVE  Three(a, b, c) \in Seq(Nat) /\ Three(a, b, c \o x) = Three(a, b, c) \o x
<1>1. a \o b \in Seq(Nat)
  BY UnitsJoin, Zenon
<1>2. (a \o b) \o c \in Seq(Nat)
  BY <1>1, UnitsJoin
<1>3. (a \o b) \o (c \o x) = ((a \o b) \o c) \o x
  BY <1>1, UnitsAssociate, ZenonT(60)
<1> QED
  BY <1>2, <1>3 DEF Three

(* and four parts.                                                         *)
LEMMA FourMoves ==
  ASSUME NEW a \in Seq(Nat), NEW b \in Seq(Nat), NEW c \in Seq(Nat), NEW d \in Seq(Nat),
         NEW x \in Seq(Nat)
  PROVE  /\ Four(a \o x, b, c, d) = Four(a, x \o b, c, d)
         /\ Four(a, b \o x, c, d) = Four(a, b, x \o c, d)
         /\ Four(a, b, c \o x, d) = Four(a, b, c, x \o d)
<1>1. Three(a, b, c) \in Seq(Nat)
  BY ThreeEnd, Zenon
<1>2. Three(a \o x, b, c) = Three(a, x \o b, c)
  BY ThreeSecond
<1>3. Three(a, b \o x, c) = Three(a, b, x \o c)
  BY ThreeThird
<1>4. Three(a, b, c \o x) = Three(a, b, c) \o x
  BY ThreeEnd, SMTT(30)
<1>5. (Three(a, b, c) \o x) \o d = Three(a, b, c) \o (x \o d)
  BY <1>1, UnitsAssociate, ZenonT(60)
<1> QED
  BY <1>2, <1>3, <1>4, <1>5, Zenon DEF Four

(* Nothing is under way in an empty queue.                                 *)
LEMMA NothingInTransit ==
  ASSUME NEW s
  PROVE  Flatten(<<>>) = <<>> /\ InTransit(<<>>, s) = <<>>
<1>1. <<>> \in Seq(Seq(Nat)) /\ <<>> \in Seq(Nat)
  OBVIOUS
<1>2. Flatten(<<>>) = <<>>
  BY <1>1, FlattenAppend, Zenon
<1>3. [i \in DOMAIN <<>> |-> IF <<>>[i].sess = s THEN <<>>[i].data ELSE <<>>] = <<>>
  OBVIOUS
<1> QED
  BY <1>2, <1>3, Zenon DEF InTransit

\* What the frontend sent to a session that lives, wherever it is now.
F2bStream(s) == Three(sent[s], Flatten(msg_f2b[s]), InTransit(rx_queue, s))

(* The parts of that stream are sequences of units.                        *)
LEMMA F2bParts ==
  ASSUME DataTypes, NEW s \in Session
  PROVE  /\ sent[s] \in Seq(Nat) /\ msg_f2b[s] \in Seq(Seq(Nat))
         /\ Flatten(msg_f2b[s]) \in Seq(Nat) /\ InTransit(rx_queue, s) \in Seq(Nat)
<1>1. rx_queue \in Seq(Letter) /\ msg_f2b[s] \in Seq(Seq(Nat)) /\ sent[s] \in Seq(Nat)
  BY DataSubtypes, Zenon DEF DataTypes
<1>2. Flatten(msg_f2b[s]) \in Seq(Nat)
  BY <1>1, FlattenAppend, Zenon
<1>3. InTransit(rx_queue, s) \in Seq(Nat)
  BY <1>1, TransitConcat, Zenon
<1> QED
  BY <1>1, <1>2, <1>3, Zenon

(* With send() that takes whole segments, STEP (2) changes no stream of a  *)
(* session that lives on.                                                  *)
LEMMA F2bSendKeeps ==
  ASSUME LinkInv, DataTypes, ~ShortSend \/ Tcp = {}, DataProcessF2b, NEW t \in alive'
  PROVE  F2bStream(t)' = F2bStream(t)
<1>1. PICK s : s = Head(todo)
  BY Zenon
<1>2. s \in Session /\ alive \subseteq Session
  BY <1>1, VisitsSession, Zenon DEF DataProcessF2b, LinkInv
<1>3. PICK n \in Counts(s) :
        Sends(s, n) /\ (SendOk(s, n) \/ SendAgain(s, n) \/ SendError(s, n))
  BY <1>1, Zenon DEF DataProcessF2b
<1>4. PICK q, k : q = msg_f2b[s] /\ k = Len(n)
  BY Zenon
<1>5. PICK x \in Seq(Nat) :
        sent' = [sent EXCEPT ![s] = @ \o x] /\ x = Flatten(SubSeq(q, 1, k))
  BY <1>2, <1>3, <1>4, SendsMove, Zenon
<1>6. k \in 0 .. Len(q)
  BY <1>2, <1>3, <1>4, SendsMove, Zenon
<1>7. UNCHANGED rx_queue
  BY Zenon DEF DataProcessF2b
<1>8. \/ alive' = alive \ {s} /\ msg_f2b' = [msg_f2b EXCEPT ![s] = <<>>]
      \/ alive' = alive /\ k = Len(q) /\ msg_f2b' = [msg_f2b EXCEPT ![s] = <<>>]
      \/ alive' = alive /\ msg_f2b' = [msg_f2b EXCEPT ![s] = SubSeq(@, k + 1, Len(@))]
  BY <1>3, <1>4, Zenon DEF SendOk, SendAgain, SendError, DeleteSess
<1>9. t \in Session
  BY <1>2, <1>8, Zenon
<1>10. CASE t # s
  <2>1. sent'[t] = sent[t] /\ msg_f2b'[t] = msg_f2b[t]
    BY <1>5, <1>8, <1>9, <1>10, Zenon DEF DataTypes
  <2> QED
    BY <1>7, <2>1, Zenon DEF F2bStream
<1>11. CASE t = s
  <2>1. PICK rest : rest = SubSeq(q, k + 1, Len(q))
    BY Zenon
  <2>2. /\ q \in Seq(Seq(Nat)) /\ sent[s] \in Seq(Nat) /\ InTransit(rx_queue, s) \in Seq(Nat)
    BY <1>2, <1>4, F2bParts, Zenon
  <2>3. Flatten(q) = x \o Flatten(rest) /\ rest \in Seq(Seq(Nat)) /\ Flatten(rest) \in Seq(Nat)
    BY <1>5, <1>6, <2>1, <2>2, FlattenSplit, Zenon
  <2>4. k = Len(q) => rest = <<>>
    BY <2>1, <2>2
  <2>5. sent'[s] = sent[s] \o x /\ msg_f2b'[s] = rest
    BY <1>2, <1>4, <1>5, <1>8, <1>11, <2>1, <2>4, Zenon DEF DataTypes
  <2>6. PICK a, b, c : a = sent[s] /\ b = Flatten(rest) /\ c = InTransit(rx_queue, s)
    BY Zenon
  <2>7. Three(a \o x, b, c) = Three(a, x \o b, c)
    BY <2>2, <2>3, <2>6, ThreeSecond, SMTT(30)
  <2> QED
    BY <1>4, <1>7, <1>11, <2>3, <2>5, <2>6, <2>7, Zenon DEF F2bStream
<1> QED
  BY <1>10, <1>11, Zenon

(* With memory for the segments, so does STEP (1).                         *)
LEMMA F2bRxKeeps ==
  ASSUME LinkInv, DataTypes, "f2b" \notin AllocFails, RxMessage, NEW t \in alive'
  PROVE  F2bStream(t)' = F2bStream(t)
<1> USE DEF frontVars, sockVars, queues
<1>1. PICK m : m = Head(rx_queue)
  BY Zenon
<1>2. m \in RxLetter /\ m \in Letter /\ rx_queue # <<>> /\ rx_queue' = Tail(rx_queue)
  BY <1>1, NextLetter DEF RxMessage
<1>3. m.sess \in Session /\ m.data \in Seq(Nat)
  BY <1>1, <1>2, NextLetter, Zenon
<1>4. UNCHANGED sent /\ (RxData(m) \/ RxClose(m))
  BY <1>1, Zenon DEF RxMessage
<1>5. \/ /\ m.type = "data" /\ m.sess \in alive /\ alive' = alive
         /\ msg_f2b' = [msg_f2b EXCEPT ![m.sess] = Append(@, m.data)]
      \/ m.type = "data" /\ m.sess \notin alive /\ alive' = alive /\ UNCHANGED msg_f2b
      \/ m.type = "close" /\ alive' = alive /\ UNCHANGED msg_f2b
      \/ /\ m.type = "close" /\ alive' = alive \ {m.sess}
         /\ msg_f2b' = [msg_f2b EXCEPT ![m.sess] = <<>>]
  BY <1>4, Zenon DEF RxData, RxClose, DeleteSess
<1>6. t \in alive /\ t \in Session
  BY <1>5, Zenon DEF LinkInv
<1>7. PICK c, d : c = InTransit(rx_queue', t) /\ d = Share(m, t)
  BY Zenon
<1>8. /\ InTransit(rx_queue, t) = d \o c /\ c \in Seq(Nat) /\ d \in Seq(Nat)
  <2>1. rx_queue \in Seq(Letter)
    BY DataSubtypes, Zenon
  <2> QED
    BY <1>1, <1>2, <1>7, <2>1, TransitEnds, Zenon
<1>9. /\ sent[t] \in Seq(Nat) /\ msg_f2b[t] \in Seq(Seq(Nat)) /\ Flatten(msg_f2b[t]) \in Seq(Nat)
  BY <1>6, F2bParts, Zenon
<1>10. CASE m.type = "data" /\ m.sess = t
  <2>1. msg_f2b'[t] = Append(msg_f2b[t], m.data) /\ d = m.data
    BY <1>5, <1>6, <1>7, <1>10, Zenon DEF DataTypes, Share
  <2>2. Flatten(msg_f2b'[t]) = Flatten(msg_f2b[t]) \o d
    BY <1>3, <1>9, <2>1, FlattenAppend, Zenon
  <2>3. PICK a, b : a = sent[t] /\ b = Flatten(msg_f2b[t])
    BY Zenon
  <2>4. Three(a, b \o d, c) = Three(a, b, d \o c)
    <3>1. a \in Seq(Nat) /\ b \in Seq(Nat) /\ c \in Seq(Nat) /\ d \in Seq(Nat)
      BY <1>8, <1>9, <2>3, Zenon
    <3> QED
      BY <3>1, ThreeThird
  <2> QED
    BY <1>4, <1>7, <1>8, <2>2, <2>3, <2>4, Zenon DEF F2bStream
<1>11. CASE ~(m.type = "data" /\ m.sess = t)
  <2>1. msg_f2b'[t] = msg_f2b[t]
    BY <1>5, <1>6, <1>11, Zenon DEF DataTypes
  <2>2. m.type # "data" => m.data = <<>>
    BY <1>2, <1>3, SMTT(30) DEF RxLetter
  <2>3. d = <<>>
    BY <1>7, <1>11, <2>2, Zenon DEF Share
  <2>4. d \o c = c
    BY <1>8, <2>3, ConcatAssociates
  <2> QED
    BY <1>4, <1>7, <1>8, <2>1, <2>4, Zenon DEF F2bStream
<1> QED
  BY <1>10, <1>11, Zenon

(* The frontend adds to the stream of the session it sends to.             *)
LEMMA F2bFrontendAdds ==
  ASSUME DataTypes, NEW s \in Session, FrontendSends(s), NEW t \in Session,
         F2bStream(t) = Units(0, produced[t] * SegLen)
  PROVE  F2bStream(t)' = Units(0, produced'[t] * SegLen)
<1> USE DEF frontVars, sockVars, queues
<1>1. UNCHANGED <<msg_f2b, sent>> /\ produced' = [produced EXCEPT ![s] = @ + 1]
  BY Zenon DEF FrontendSends, engineVars
<1>2. PICK p, u : p = produced[s] * SegLen /\ u = Units(p, SegLen)
  BY Zenon
<1>3. PICK m : m = Message("data", s, u)
  BY Zenon
<1>4. produced[s] \in Nat /\ SegLen \in Nat
  BY DataAssumption, Zenon DEF DataTypes
<1>5. p \in Nat
  BY <1>2, <1>4
<1>6. u \in Seq(Nat) /\ Units(0, p) \o u = Units(0, p + SegLen)
  BY <1>2, <1>4, <1>5, UnitsFacts, Zenon
<1>7. m \in Letter /\ rx_queue' = Append(rx_queue, m)
  BY <1>2, <1>3, <1>6, Zenon DEF Message, Letter, FrontendSends
<1>8. PICK a, b, c : a = sent[t] /\ b = Flatten(msg_f2b[t]) /\ c = InTransit(rx_queue, t)
  BY Zenon
<1>9. a \in Seq(Nat) /\ b \in Seq(Nat) /\ c \in Seq(Nat)
  BY <1>8, F2bParts, Zenon
<1>10. InTransit(rx_queue', t) = c \o Share(m, t)
  <2>1. rx_queue \in Seq(Letter)
    BY DataSubtypes
  <2> QED
    BY <1>7, <1>8, <2>1, TransitEnds, Zenon
<1>11. CASE t = s
  <2>1. Share(m, t) = u
    BY <1>3, <1>11, Zenon DEF Share, Message
  <2>2. Three(a, b, c \o u) = Three(a, b, c) \o u
    BY <1>6, <1>9, ThreeEnd, SMTT(30)
  <2>3. produced'[t] * SegLen = p + SegLen
    BY <1>1, <1>2, <1>4, <1>11, SMTT(30) DEF DataTypes
  <2> QED
    BY <1>1, <1>2, <1>6, <1>8, <1>10, <1>11, <2>1, <2>2, <2>3, ZenonT(60) DEF F2bStream
<1>12. CASE t # s
  <2>1. Share(m, t) = <<>> /\ produced'[t] = produced[t]
    BY <1>1, <1>3, <1>12, Zenon DEF Share, Message, DataTypes
  <2>2. c \o <<>> = c
    BY <1>9, ConcatAssociates
  <2> QED
    BY <1>1, <1>8, <1>10, <2>1, <2>2, Zenon DEF F2bStream
<1> QED
  BY <1>11, <1>12, Zenon

(* Every step keeps the streams from the frontend in order.                *)
LEMMA F2bStep ==
  ASSUME LinkInv, DataTypes, F2bInOrder, [Next]_vars,
         ~ShortSend \/ Tcp = {}, "f2b" \notin AllocFails
  PROVE  F2bInOrder'
<1> USE DEF frontVars, sockVars, queues
<1>1. \A t \in alive : F2bStream(t) = Units(0, produced[t] * SegLen)
  BY Zenon DEF F2bInOrder, F2bStream, Three
<1>2. alive \subseteq Session
  BY DEF LinkInv
<1>3. SUFFICES ASSUME NEW t \in alive'
               PROVE  F2bStream(t)' = Units(0, produced'[t] * SegLen)
  BY Zenon DEF F2bInOrder, F2bStream, Three
<1>4. CASE RxMessage
  <2>1. alive' \subseteq alive /\ UNCHANGED produced
    BY <1>4, Zenon DEF RxMessage, RxData, RxClose, DeleteSess
  <2>2. F2bStream(t)' = F2bStream(t)
    BY <1>4, F2bRxKeeps
  <2> QED
    BY <1>1, <1>3, <2>1, <2>2
<1>5. CASE DataProcessF2b
  <2>1. alive' \subseteq alive /\ UNCHANGED produced
    BY <1>5, Zenon DEF DataProcessF2b, SendOk, SendAgain, SendError, DeleteSess
  <2>2. F2bStream(t)' = F2bStream(t)
    BY <1>5, F2bSendKeeps, Zenon
  <2> QED
    BY <1>1, <1>3, <2>1, <2>2, Zenon
<1>6. ASSUME NEW s \in Session, FrontendSends(s)
      PROVE  F2bStream(t)' = Units(0, produced'[t] * SegLen)
  <2>1. UNCHANGED alive
    BY <1>6, Zenon DEF FrontendSends, engineVars
  <2>2. t \in Session /\ F2bStream(t) = Units(0, produced[t] * SegLen)
    BY <1>1, <1>2, <1>3, <2>1
  <2> QED
    BY <1>6, <2>2, F2bFrontendAdds, Zenon
<1>7. ASSUME NEW s \in Session, FrontendCloses(s)
      PROVE  F2bStream(t)' = Units(0, produced'[t] * SegLen)
  <2>1. UNCHANGED <<alive, msg_f2b, sent, produced>>
    BY <1>7, Zenon DEF FrontendCloses, engineVars
  <2>2. PICK m : m = Message("close", s, <<>>)
    BY Zenon
  <2>3. m \in Letter /\ m.data = <<>> /\ rx_queue' = Append(rx_queue, m)
    BY <1>7, <2>2, SMTT(30) DEF Message, Letter, FrontendCloses
  <2>4. rx_queue \in Seq(Letter)
    BY DataSubtypes, Zenon
  <2>5. PICK c : c = InTransit(rx_queue, t)
    BY Zenon
  <2>6. InTransit(rx_queue', t) = c \o Share(m, t) /\ c \in Seq(Nat)
    BY <2>3, <2>4, <2>5, TransitEnds, Zenon
  <2>7. Share(m, t) = <<>> /\ c \o <<>> = c
    BY <2>3, <2>6, ConcatAssociates, Zenon DEF Share
  <2> QED
    BY <1>1, <1>3, <2>1, <2>5, <2>6, <2>7, Zenon DEF F2bStream
<1>8. ASSUME UNCHANGED <<alive, rx_queue, msg_f2b, sent, produced>>
      PROVE  F2bStream(t)' = Units(0, produced'[t] * SegLen)
  BY <1>1, <1>3, <1>8, Zenon DEF F2bStream
<1>9. CASE RxEmpty \/ Poll \/ DataProcessNns \/ NnsDone \/ DataProcessB2f \/ B2fDone
           \/ FrontendReads \/ UNCHANGED vars
  BY <1>8, <1>9, Zenon DEF RxEmpty, Poll, DataProcessNns, NnsDone, DataProcessB2f, B2fDone,
                    FrontendReads, engineVars, vars
<1>10. ASSUME NEW s \in Session, NEW n, PeerSends(s, n) \/ PeerFails(s, n)
       PROVE  F2bStream(t)' = Units(0, produced'[t] * SegLen)
  BY <1>8, <1>10, Zenon DEF PeerSends, PeerFails, engineVars
<1> QED
  BY <1>4, <1>5, <1>6, <1>7, <1>9, <1>10, Zenon DEF Next, Engine

(* Sockets that take whole segments, and memory for each, are enough for   *)
(* the frontend's stream to be complete and in order, whatever the sizes,  *)
(* the number of sessions and the order of the steps.                      *)
THEOREM FrontendStreamsInOrder ==
  ASSUME ~ShortSend \/ Tcp = {}, "f2b" \notin AllocFails
  PROVE  Spec => []F2bInOrder
<1>1. Init => F2bInOrder
  <2> SUFFICES ASSUME Init, NEW s \in alive
               PROVE  sent[s] \o Flatten(msg_f2b[s]) \o InTransit(rx_queue, s)
                        = Units(0, produced[s] * SegLen)
    BY Zenon DEF F2bInOrder
  <2>1. /\ s \in Session /\ sent[s] = <<>> /\ msg_f2b[s] = <<>> /\ rx_queue = <<>>
        /\ produced[s] = 0
    BY Zenon DEF Init
  <2>2. Flatten(<<>>) = <<>> /\ InTransit(<<>>, s) = <<>>
    BY NothingInTransit, Zenon
  <2>4. <<>> \o <<>> \o <<>> = <<>>
    BY SMTT(30)
  <2>5. 0 * SegLen = 0 /\ Units(0, 0) = <<>>
    BY UnitsFacts, DataAssumption
  <2> QED
    BY <2>1, <2>2, <2>4, <2>5, Zenon
<1>2. LinkInv /\ DataTypes /\ F2bInOrder /\ [Next]_vars => F2bInOrder'
  BY F2bStep, Zenon
<1> QED
  BY <1>1, <1>2, DataTyped, PTL DEF Spec
-----------------------------------------------------------------------------
\* What a peer sent to a session that lives, wherever it is now.
B2fStream(s) == Four(got[s], InTransit(tx_queue, s), Flatten(msg_b2f[s]), Flatten(inq[s]))

(* The parts of that stream are sequences of units.                        *)
LEMMA B2fParts ==
  ASSUME DataTypes, NEW s \in Session
  PROVE  /\ msg_b2f[s] \in Seq(Seq(Nat)) /\ inq[s] \in Seq(Seq(Nat))
         /\ got[s] \in Seq(Nat) /\ InTransit(tx_queue, s) \in Seq(Nat)
         /\ Flatten(msg_b2f[s]) \in Seq(Nat) /\ Flatten(inq[s]) \in Seq(Nat)
<1>1. /\ msg_b2f[s] \in Seq(Seq(Nat)) /\ inq[s] \in Seq(Seq(Nat)) /\ got[s] \in Seq(Nat)
      /\ tx_queue \in Seq(Letter)
  BY Zenon DEF DataTypes
<1>2. Flatten(msg_b2f[s]) \in Seq(Nat) /\ Flatten(inq[s]) \in Seq(Nat)
  BY <1>1, FlattenAppend, Zenon
<1>3. InTransit(tx_queue, s) \in Seq(Nat)
  BY <1>1, TransitConcat, Zenon
<1> QED
  BY <1>1, <1>2, <1>3, Zenon

(* poller_run moves data from the sockets to the sessions' queues whole.   *)
LEMMA NnsMoves ==
  ASSUME LinkInv, DataTypes, Udp = {} \/ WholeDatagrams, DataProcessNns
  PROVE  \/ UNCHANGED <<msg_b2f, inq, queue_b2f>>
         \/ \E s \in alive : \E a, b : Moves(s, a, b) /\ WholeMove(s, a, b)
<1>1. PICK e \in ready : NnsSkip(e) \/ NnsTcp(e) \/ NnsUdp(e)
  BY DEF DataProcessNns
<1>2. e.sess \in alive /\ e.sess \in Session
  BY Zenon DEF LinkInv, Visits
<1>3. CASE NnsSkip(e)
  BY <1>3, Zenon DEF NnsSkip
<1>4. CASE NnsTcp(e)
  BY <1>2, <1>4, TcpMoves, Zenon
<1>5. CASE NnsUdp(e)
  <2>1. WholeDatagrams
    BY <1>5, Zenon DEF NnsUdp
  <2>2. \E a, b : Moves(e.sess, a, b) /\ WholeMove(e.sess, a, b)
    BY <1>2, <1>5, <2>1, UdpMoves, Zenon
  <2> QED
    BY <1>2, <2>2, Zenon
<1> QED
  BY <1>1, <1>3, <1>4, <1>5, Zenon

(* So STEP (3) changes no stream,                                          *)
LEMMA B2fNnsKeeps ==
  ASSUME LinkInv, DataTypes, Udp = {} \/ WholeDatagrams, DataProcessNns, NEW t \in Session
  PROVE  B2fStream(t)' = B2fStream(t)
<1>1. UNCHANGED <<got, tx_queue>>
  BY Zenon DEF DataProcessNns, frontVars
<1>2. CASE UNCHANGED <<msg_b2f, inq, queue_b2f>>
  BY <1>1, <1>2, Zenon DEF B2fStream
<1>3. CASE ~UNCHANGED <<msg_b2f, inq, queue_b2f>>
  <2>0. PICK s \in alive : \E a, b : Moves(s, a, b) /\ WholeMove(s, a, b)
    BY <1>3, NnsMoves, Zenon
  <2>1. PICK a, b : Moves(s, a, b) /\ WholeMove(s, a, b)
    BY <2>0, Zenon
  <2>2. s \in Session
    BY Zenon DEF LinkInv
  <2>3. CASE t # s
    <3>1. msg_b2f'[t] = msg_b2f[t] /\ inq'[t] = inq[t]
      BY <2>1, <2>3, Zenon DEF Moves, DataTypes
    <3> QED
      BY <1>1, <3>1, Zenon DEF B2fStream
  <2>4. CASE t = s
    <3>1. /\ a \in Seq(Seq(Nat)) /\ b \in Seq(Seq(Nat))
          /\ msg_b2f'[t] = msg_b2f[t] \o a /\ inq'[t] = b
      BY <2>1, <2>2, <2>4, Zenon DEF Moves, DataTypes
    <3>2. PICK g, h, c, x, y : /\ g = got[t] /\ h = InTransit(tx_queue, t)
                               /\ c = Flatten(msg_b2f[t]) /\ x = Flatten(a) /\ y = Flatten(b)
      BY Zenon
    <3>3. msg_b2f[t] \in Seq(Seq(Nat)) /\ g \in Seq(Nat) /\ h \in Seq(Nat) /\ c \in Seq(Nat)
      BY <3>2, B2fParts, ZenonT(60)
    <3>4. x \in Seq(Nat) /\ y \in Seq(Nat)
      BY <3>1, <3>2, FlattenAppend, SMTT(30)
    <3>5. Flatten(msg_b2f'[t]) = c \o x
      BY <3>1, <3>2, <3>3, FlattenConcat, Zenon
    <3>6. Flatten(inq[t]) = x \o y
      BY <2>1, <2>4, <3>2, Zenon DEF WholeMove
    <3>7. Four(g, h, c \o x, y) = Four(g, h, c, x \o y)
      BY <3>3, <3>4, FourMoves
    <3> QED
      BY <1>1, <3>1, <3>2, <3>5, <3>6, <3>7, Zenon DEF B2fStream
  <2> QED
    BY <2>3, <2>4, Zenon
<1> QED
  BY <1>2, <1>3, Zenon

(* nor does STEP (4),                                                      *)
LEMMA B2fTxKeeps ==
  ASSUME LinkInv, DataTypes, DataProcessB2f, NEW t \in Session
  PROVE  B2fStream(t)' = B2fStream(t)
<1>1. PICK s : s = Head(todo)
  BY Zenon
<1>2. s \in Session
  BY <1>1, VisitsSession, Zenon DEF DataProcessB2f
<1>3. UNCHANGED <<got, inq>>
  BY Zenon DEF DataProcessB2f, frontVars, sockVars
<1>4. PICK k \in 0 .. Len(msg_b2f[s]), r \in Seq(Letter) :
        /\ tx_queue' = tx_queue \o r /\ Len(tx_queue') <= TxRoom
        /\ msg_b2f' = [msg_b2f EXCEPT ![s] = SubSeq(@, k + 1, Len(@))]
        /\ InTransit(r, s) = Flatten(SubSeq(msg_b2f[s], 1, k))
        /\ \A u \in Session \ {s} : InTransit(r, u) = <<>>
        /\ \/ k = Len(msg_b2f[s]) /\ queue_b2f' = Without(queue_b2f, s)
           \/ UNCHANGED queue_b2f
  BY <1>1, <1>2, B2fMoves, Zenon
<1>5. PICK g, h, d, x : /\ g = got[t] /\ h = InTransit(tx_queue, t)
                        /\ d = Flatten(inq[t]) /\ x = InTransit(r, t)
  BY Zenon
<1>6. g \in Seq(Nat) /\ h \in Seq(Nat) /\ d \in Seq(Nat)
  BY <1>5, B2fParts, Zenon
<1>7. InTransit(tx_queue', t) = h \o x /\ x \in Seq(Nat)
  <2>1. tx_queue \in Seq(Letter)
    BY Zenon DEF DataTypes
  <2> QED
    BY <1>4, <1>5, <2>1, TransitConcat, Zenon
<1>8. CASE t # s
  <2>1. msg_b2f'[t] = msg_b2f[t] /\ x = <<>>
    BY <1>4, <1>5, <1>8, Zenon DEF DataTypes
  <2>2. h \o x = h
    BY <1>6, <2>1, ConcatAssociates, Zenon
  <2> QED
    BY <1>3, <1>5, <1>7, <2>1, <2>2, Zenon DEF B2fStream
<1>9. CASE t = s
  <2>1. PICK c : c = Flatten(SubSeq(msg_b2f[t], k + 1, Len(msg_b2f[t])))
    BY Zenon
  <2>2. msg_b2f[t] \in Seq(Seq(Nat))
    BY B2fParts, Zenon
  <2>3. Flatten(msg_b2f[t]) = x \o c /\ c \in Seq(Nat)
    BY <1>4, <1>5, <1>9, <2>1, <2>2, FlattenSplit, ZenonT(60)
  <2>4. Flatten(msg_b2f'[t]) = c
    BY <1>4, <1>9, <2>1, Zenon DEF DataTypes
  <2>5. Four(g, h \o x, c, d) = Four(g, h, x \o c, d)
    BY <1>6, <1>7, <2>3, FourMoves, SMTT(30)
  <2> QED
    BY <1>3, <1>5, <1>7, <2>3, <2>4, <2>5, Zenon DEF B2fStream
<1> QED
  BY <1>8, <1>9, Zenon

(* nor does the frontend when it takes a message from the TX queue.        *)
LEMMA B2fReadKeeps ==
  ASSUME DataTypes, FrontendReads, NEW t \in Session
  PROVE  B2fStream(t)' = B2fStream(t)
<1>1. PICK m : m = Head(tx_queue)
  BY Zenon
<1>2. /\ tx_queue \in Seq(Letter) /\ tx_queue # <<>> /\ tx_queue' = Tail(tx_queue)
      /\ m \in Letter
      /\ got' = [got EXCEPT ![m.sess] = @ \o m.data] /\ UNCHANGED <<msg_b2f, inq>>
  <2>1. tx_queue \in Seq(Letter)
    BY Zenon DEF DataTypes
  <2>2. /\ tx_queue # <<>> /\ tx_queue' = Tail(tx_queue)
        /\ got' = [got EXCEPT ![m.sess] = @ \o m.data] /\ UNCHANGED <<msg_b2f, inq>>
    BY <1>1, Zenon DEF FrontendReads, engineVars, queues, sockVars
  <2>3. m \in Letter
    BY <1>1, <2>1, <2>2
  <2> QED
    BY <2>1, <2>2, <2>3, Zenon
<1>3. PICK g, h, c, d, x : /\ g = got[t] /\ h = InTransit(tx_queue', t) /\ x = Share(m, t)
                           /\ c = Flatten(msg_b2f[t]) /\ d = Flatten(inq[t])
  BY Zenon
<1>4. g \in Seq(Nat) /\ c \in Seq(Nat) /\ d \in Seq(Nat)
  BY <1>3, B2fParts, Zenon
<1>5. InTransit(tx_queue, t) = x \o h /\ x \in Seq(Nat) /\ h \in Seq(Nat)
  BY <1>1, <1>2, <1>3, TransitEnds, Zenon
<1>6. got'[t] = g \o x
  <2>1. CASE m.sess = t
    BY <1>2, <1>3, <2>1, Zenon DEF DataTypes, Share
  <2>2. CASE m.sess # t
    <3>1. got'[t] = g /\ x = <<>>
      BY <1>2, <1>3, <2>2, Zenon DEF DataTypes, Share
    <3>2. g \o <<>> = g
      BY <1>4, ConcatAssociates, Zenon
    <3> QED
      BY <3>1, <3>2, Zenon
  <2> QED
    BY <2>1, <2>2, Zenon
<1>7. Four(g \o x, h, c, d) = Four(g, x \o h, c, d)
  BY <1>4, <1>5, FourMoves
<1> QED
  BY <1>2, <1>3, <1>5, <1>6, <1>7, Zenon DEF B2fStream

(* What arrives is added to the stream.                                    *)
LEMMA B2fPeerAdds ==
  ASSUME DataTypes, NEW s \in Session, NEW n \in Arrival, PeerSends(s, n), NEW t \in Session,
         B2fStream(t) = Units(0, arrived[t])
  PROVE  B2fStream(t)' = Units(0, arrived'[t])
<1>1. PICK u : u = Units(arrived[s], n)
  BY Zenon
<1>2. /\ UNCHANGED <<got, tx_queue, msg_b2f>>
      /\ inq' = [inq EXCEPT ![s] = Append(@, u)] /\ arrived' = [arrived EXCEPT ![s] = @ + n]
  BY <1>1, Zenon DEF PeerSends, engineVars, queues, frontVars
<1>3. arrived[s] \in Nat /\ n \in Nat
  BY DataAssumption, Zenon DEF DataTypes
<1>4. u \in Seq(Nat) /\ Units(0, arrived[s]) \o u = Units(0, arrived[s] + n)
  BY <1>1, <1>3, UnitsFacts, Zenon
<1>5. CASE t # s
  <2>1. inq'[t] = inq[t] /\ arrived'[t] = arrived[t]
    BY <1>2, <1>5, Zenon DEF DataTypes
  <2> QED
    BY <1>2, <2>1, Zenon DEF B2fStream
<1>6. CASE t = s
  <2>1. inq'[t] = Append(inq[t], u) /\ arrived'[t] = arrived[s] + n
    BY <1>2, <1>6, Zenon DEF DataTypes
  <2>2. PICK g, h, c, d : /\ g = got[t] /\ h = InTransit(tx_queue, t)
                          /\ c = Flatten(msg_b2f[t]) /\ d = Flatten(inq[t])
    BY Zenon
  <2>3. /\ g \in Seq(Nat) /\ h \in Seq(Nat) /\ c \in Seq(Nat) /\ d \in Seq(Nat)
        /\ inq[t] \in Seq(Seq(Nat))
    BY <2>2, B2fParts, Zenon
  <2>4. Flatten(inq'[t]) = d \o u
    BY <1>4, <2>1, <2>2, <2>3, FlattenAppend, Zenon
  <2>5. Four(g, h, c, d \o u) = Four(g, h, c, d) \o u
    <3>1. /\ u \in Seq(Nat) /\ g \in Seq(Nat) /\ h \in Seq(Nat) /\ c \in Seq(Nat)
          /\ d \in Seq(Nat)
      BY <1>4, <2>3, Zenon
    <3>2. Three(g, h, c) \in Seq(Nat)
      BY <3>1, ThreeEnd, Zenon
    <3>3. Three(g, h, c) \o (d \o u) = (Three(g, h, c) \o d) \o u
      BY <3>1, <3>2, UnitsAssociate, ZenonT(60)
    <3> QED
      BY <3>3, Zenon DEF Four
  <2> QED
    BY <1>2, <1>4, <1>6, <2>1, <2>2, <2>4, <2>5, Zenon DEF B2fStream
<1> QED
  BY <1>5, <1>6, Zenon

(* Every step keeps the streams from the peers in order.                   *)
LEMMA B2fStep ==
  ASSUME LinkInv, DataTypes, B2fInOrder, [Next]_vars, Udp = {} \/ WholeDatagrams
  PROVE  B2fInOrder'
<1> USE DEF frontVars, sockVars, queues
<1>1. \A t \in alive : B2fStream(t) = Units(0, arrived[t])
  BY Zenon DEF B2fInOrder, B2fStream, Four, Three
<1>2. alive \subseteq Session
  BY Zenon DEF LinkInv
<1>3. SUFFICES ASSUME NEW t \in alive'
               PROVE  B2fStream(t)' = Units(0, arrived'[t])
  BY Zenon DEF B2fInOrder, B2fStream, Four, Three
<1>4. ASSUME B2fStream(t)' = B2fStream(t), alive' \subseteq alive, UNCHANGED arrived
      PROVE  B2fStream(t)' = Units(0, arrived'[t])
  BY <1>1, <1>3, <1>4, Zenon
<1>5. ASSUME NEW s \in Session, DeleteSess(s), UNCHANGED <<got, inq, arrived>>
      PROVE  B2fStream(t)' = Units(0, arrived'[t])
  <2>1. /\ \A u \in Session : InTransit(tx_queue', u) = InTransit(tx_queue, u)
        /\ msg_b2f' = [msg_b2f EXCEPT ![s] = <<>>] /\ alive' = alive \ {s}
    BY <1>5, DeleteKeepsData, Zenon
  <2>2. t \in Session /\ t # s
    BY <1>2, <1>3, <2>1, Zenon
  <2>3. msg_b2f'[t] = msg_b2f[t]
    BY <2>1, <2>2, Zenon DEF DataTypes
  <2>4. InTransit(tx_queue', t) = InTransit(tx_queue, t)
    BY <2>1, <2>2
  <2>5. B2fStream(t)' = B2fStream(t)
    BY <1>5, <2>3, <2>4, Zenon DEF B2fStream
  <2> QED
    BY <1>4, <1>5, <2>1, <2>5, Zenon
<1>6. ASSUME UNCHANGED <<alive, tx_queue, msg_b2f, inq, got, arrived>>
      PROVE  B2fStream(t)' = Units(0, arrived'[t])
  BY <1>4, <1>6, Zenon DEF B2fStream
<1>7. CASE RxMessage
  <2>1. PICK m : m = Head(rx_queue)
    OBVIOUS
  <2>2. m.sess \in Session
    BY <1>7, <2>1, NextLetter, Zenon DEF RxMessage
  <2>3. /\ UNCHANGED <<got, inq, arrived>>
        /\ DeleteSess(m.sess) \/ UNCHANGED <<alive, tx_queue, msg_b2f>>
    BY <1>7, <2>1, Zenon DEF RxMessage, RxData, RxClose
  <2> QED
    BY <1>5, <1>6, <2>2, <2>3, Zenon
<1>8. CASE DataProcessF2b
  <2>1. PICK s : s = Head(todo)
    BY Zenon
  <2>2. s \in Session
    BY <1>8, <2>1, VisitsSession DEF DataProcessF2b
  <2>3. /\ UNCHANGED <<got, inq, arrived>>
        /\ DeleteSess(s) \/ UNCHANGED <<alive, tx_queue, msg_b2f>>
    BY <1>8, <2>1, Zenon DEF DataProcessF2b, SendOk, SendAgain, SendError
  <2> QED
    BY <1>5, <1>6, <2>2, <2>3, Zenon
<1>9. CASE DataProcessNns \/ DataProcessB2f \/ FrontendReads
  <2>1. UNCHANGED <<alive, arrived>>
    BY <1>9, Zenon DEF DataProcessNns, DataProcessB2f, FrontendReads, engineVars
  <2>2. t \in Session
    BY <1>2, <1>3, <2>1, Zenon
  <2>3. B2fStream(t)' = B2fStream(t)
    BY <1>9, <2>2, B2fNnsKeeps, B2fTxKeeps, B2fReadKeeps, Zenon
  <2> QED
    BY <1>4, <2>1, <2>3, Zenon
<1>10. ASSUME NEW s \in Session, NEW n \in Arrival, PeerSends(s, n)
       PROVE  B2fStream(t)' = Units(0, arrived'[t])
  <2>1. UNCHANGED alive
    BY <1>10, Zenon DEF PeerSends, engineVars
  <2>2. t \in Session /\ B2fStream(t) = Units(0, arrived[t])
    BY <1>1, <1>2, <1>3, <2>1
  <2> QED
    BY <1>10, <2>2, B2fPeerAdds, Zenon
<1>11. CASE RxEmpty \/ Poll \/ NnsDone \/ B2fDone \/ UNCHANGED vars
  BY <1>6, <1>11, Zenon DEF RxEmpty, Poll, NnsDone, B2fDone, vars
<1>12. ASSUME NEW s \in Session,
              FrontendSends(s) \/ FrontendCloses(s) \/ \E how \in Failure : PeerFails(s, how)
       PROVE  B2fStream(t)' = Units(0, arrived'[t])
  BY <1>6, <1>12, Zenon DEF FrontendSends, FrontendCloses, PeerFails, engineVars
<1> QED
  BY <1>7, <1>8, <1>9, <1>10, <1>11, <1>12, Zenon DEF Next, Engine

(* Datagrams that fit one read() are enough for the peers' streams to be   *)
(* complete and in order, also when malloc fails, the TX queue fills up    *)
(* and sessions are deleted, for every number and size of sessions.        *)
THEOREM PeerStreamsInOrder ==
  ASSUME Udp = {} \/ WholeDatagrams
  PROVE  Spec => []B2fInOrder
<1>1. Init => B2fInOrder
  <2> SUFFICES ASSUME Init, NEW s \in alive
               PROVE  got[s] \o InTransit(tx_queue, s) \o Flatten(msg_b2f[s]) \o Flatten(inq[s])
                        = Units(0, arrived[s])
    BY Zenon DEF B2fInOrder
  <2>1. /\ s \in Session /\ got[s] = <<>> /\ msg_b2f[s] = <<>> /\ inq[s] = <<>>
        /\ tx_queue = <<>> /\ arrived[s] = 0
    BY Zenon DEF Init
  <2>2. Flatten(<<>>) = <<>> /\ InTransit(<<>>, s) = <<>>
    BY NothingInTransit
  <2>3. <<>> \o <<>> \o <<>> \o <<>> = <<>>
    OBVIOUS
  <2>4. Units(0, 0) = <<>>
    BY UnitsFacts
  <2> QED
    BY <2>1, <2>2, <2>3, <2>4, Zenon
<1>2. LinkInv /\ DataTypes /\ B2fInOrder /\ [Next]_vars => B2fInOrder'
  BY B2fStep
<1> QED
  BY <1>1, <1>2, DataTyped, PTL DEF Spec
-----------------------------------------------------------------------------
(* A deletion takes no other session off the queues.                       *)
LEMMA DeleteUnlinksOne ==
  ASSUME LinkInv, DataTypes, NEW s \in Session, DeleteSess(s), NEW t \in alive'
  PROVE  /\ t \in alive /\ t # s
         /\ msg_f2b'[t] = msg_f2b[t] /\ msg_b2f'[t] = msg_b2f[t]
         /\ t \in Range(queue_f2b) => t \in Range(queue_f2b')
         /\ t \in Range(queue_b2f) => t \in Range(queue_b2f')
<1>1. t \in alive /\ t # s /\ t \in Session
  BY DEF DeleteSess, LinkInv
<1>2. msg_f2b'[t] = msg_f2b[t] /\ msg_b2f'[t] = msg_b2f[t]
  BY <1>1, Zenon DEF DeleteSess, DataTypes
<1>3. queue_f2b' = Without(queue_f2b, s) /\ queue_b2f' = Without(queue_b2f, s)
  BY DEF DeleteSess, Unlink
<1>4. /\ queue_f2b \in Seq(alive) /\ IsInjective(queue_f2b)
      /\ queue_b2f \in Seq(alive) /\ IsInjective(queue_b2f)
  BY Zenon DEF LinkInv, LinksTrue
<1>5. /\ Range(Without(queue_f2b, s)) = Range(queue_f2b) \ {s}
      /\ Range(Without(queue_b2f, s)) = Range(queue_b2f) \ {s}
  BY <1>4, WithoutFacts, Zenon
<1> QED
  BY <1>1, <1>2, <1>3, <1>5, Zenon

(* Every step leaves sessions that hold segments of the frontend linked.   *)
LEMMA HeldF2bStep ==
  ASSUME LinkInv, DataTypes, ForgottenF2b \subseteq stray, [Next]_vars
  PROVE  (ForgottenF2b \subseteq stray)'
<1> USE DEF frontVars, sockVars, queues
<1>1. /\ \A t \in alive \ stray : msg_f2b[t] # <<>> => t \in Range(queue_f2b)
      /\ alive \subseteq Session /\ UNCHANGED stray
  BY Zenon DEF ForgottenF2b, LinkInv, Next, vars
<1>2. SUFFICES ASSUME NEW t \in alive', t \notin stray, msg_f2b'[t] # <<>>
               PROVE  t \in Range(queue_f2b')
  BY <1>1, Zenon DEF ForgottenF2b
<1>3. ASSUME NEW s \in Session, DeleteSess(s)
      PROVE  t \in Range(queue_f2b')
  BY <1>1, <1>2, <1>3, DeleteUnlinksOne, Zenon
<1>4. ASSUME UNCHANGED <<alive, msg_f2b, queue_f2b>>
      PROVE  t \in Range(queue_f2b')
  BY <1>1, <1>2, <1>4, Zenon
<1>5. CASE RxMessage
  <2>1. PICK m : m = Head(rx_queue)
    BY Zenon
  <2>2. m.sess \in Session
    BY <1>5, <2>1, NextLetter, Zenon DEF RxMessage
  <2>3. \/ /\ m.sess \in alive /\ alive' = alive
           /\ msg_f2b' = [msg_f2b EXCEPT ![m.sess] = Append(@, m.data)]
           /\ LinkF2b(m.sess)
        \/ DeleteSess(m.sess)
        \/ UNCHANGED <<alive, msg_f2b, queue_f2b>>
    BY <1>5, <2>1, Zenon DEF RxMessage, RxData, RxClose
  <2>4. ASSUME m.sess \in alive, alive' = alive, LinkF2b(m.sess),
               msg_f2b' = [msg_f2b EXCEPT ![m.sess] = Append(@, m.data)]
        PROVE  t \in Range(queue_f2b')
    <3>1. /\ queue_f2b' = Link(m.sess, queue_f2b, state_f2b)
          /\ LinksTrue(queue_f2b, state_f2b, alive, stray)
      BY <2>4, Zenon DEF LinkF2b, LinkInv
    <3>2. /\ Range(queue_f2b) \subseteq Range(queue_f2b')
          /\ m.sess \notin stray => m.sess \in Range(queue_f2b')
      BY <1>1, <2>4, <3>1, LinkGood, Zenon
    <3>3. t # m.sess => msg_f2b'[t] = msg_f2b[t]
      BY <1>1, <1>2, <2>4, Zenon DEF DataTypes
    <3> QED
      BY <1>1, <1>2, <2>4, <3>2, <3>3, Zenon
  <2> QED
    BY <1>3, <1>4, <2>2, <2>3, <2>4, Zenon
<1>6. CASE DataProcessF2b
  <2>1. PICK s : s = Head(todo)
    BY Zenon
  <2>2. s \in Session
    BY <1>6, <2>1, VisitsSession, Zenon DEF DataProcessF2b
  <2>3. PICK n \in Counts(s) : SendOk(s, n) \/ SendAgain(s, n) \/ SendError(s, n)
    BY <1>6, <2>1, Zenon DEF DataProcessF2b
  <2>4. CASE SendOk(s, n)
    <3>1. /\ queue_f2b' = Without(queue_f2b, s) /\ alive' = alive
          /\ msg_f2b' = [msg_f2b EXCEPT ![s] = <<>>]
      BY <2>4, Zenon DEF SendOk
    <3>2. t # s /\ msg_f2b'[t] = msg_f2b[t]
      BY <1>1, <1>2, <2>2, <3>1, Zenon DEF DataTypes
    <3>3. Range(queue_f2b') = Range(queue_f2b) \ {s}
      <4>1. queue_f2b \in Seq(alive) /\ IsInjective(queue_f2b)
        BY Zenon DEF LinkInv, LinksTrue
      <4> QED
        BY <3>1, <4>1, WithoutFacts, Zenon
    <3> QED
      BY <1>1, <1>2, <3>1, <3>2, <3>3, Zenon
  <2>5. ASSUME Len(n) < Len(msg_f2b[s]), UNCHANGED <<alive, queue_f2b>>,
               msg_f2b' = [msg_f2b EXCEPT ![s] = SubSeq(@, Len(n) + 1, Len(@))]
        PROVE  t \in Range(queue_f2b')
    <3>1. msg_f2b[s] # <<>>
      <4>1. Len(n) \in Nat /\ Len(<<>>) = 0
        BY <2>3, SMTT(30) DEF Counts
      <4> QED
        BY <2>5, <4>1, SMTT(30)
    <3>2. t # s => msg_f2b'[t] = msg_f2b[t]
      BY <1>1, <1>2, <2>5, Zenon DEF DataTypes
    <3> QED
      BY <1>1, <1>2, <2>5, <3>1, <3>2, Zenon
  <2>6. CASE SendAgain(s, n) \/ SendError(s, n)
    BY <1>3, <2>2, <2>5, <2>6, Zenon DEF SendAgain, SendError
  <2> QED
    BY <2>3, <2>4, <2>6, Zenon
<1>7. CASE RxEmpty \/ Poll \/ DataProcessNns \/ NnsDone \/ DataProcessB2f \/ B2fDone
           \/ FrontendReads \/ UNCHANGED vars
  BY <1>4, <1>7, Zenon DEF RxEmpty, Poll, DataProcessNns, NnsDone, DataProcessB2f, B2fDone,
                    FrontendReads, engineVars, vars
<1>8. ASSUME NEW s \in Session, NEW n,
             FrontendSends(s) \/ FrontendCloses(s) \/ PeerSends(s, n) \/ PeerFails(s, n)
      PROVE  t \in Range(queue_f2b')
  BY <1>4, <1>8, Zenon DEF FrontendSends, FrontendCloses, PeerSends, PeerFails, engineVars
<1> QED
  BY <1>5, <1>6, <1>7, <1>8 DEF Next, Engine

(* A session with segments for the socket waits in queue_f2b, whatever     *)
(* fails on the way: no segment of the frontend lies where STEP (2) will   *)
(* not look for it.                                                        *)
THEOREM FrontendSegmentsHeld == Spec => [](ForgottenF2b \subseteq stray)
<1>1. Init => ForgottenF2b \subseteq stray
  BY DEF Init, ForgottenF2b
<1>2. LinkInv /\ DataTypes /\ ForgottenF2b \subseteq stray /\ [Next]_vars
        => (ForgottenF2b \subseteq stray)'
  BY HeldF2bStep, Zenon
<1> QED
  BY <1>1, <1>2, DataTyped, PTL DEF Spec

(* Every step leaves sessions that hold segments of a peer linked, or with *)
(* unread data in their socket.                                            *)
LEMMA HeldB2fStep ==
  ASSUME LinkInv, DataTypes, ForgottenB2f \subseteq stray, [Next]_vars,
         Udp = {} \/ WholeDatagrams
  PROVE  (ForgottenB2f \subseteq stray)'
<1> USE DEF frontVars, sockVars, queues
<1>1. /\ \A t \in alive \ stray :
           msg_b2f[t] # <<>> /\ inq[t] = <<>> => t \in Range(queue_b2f)
      /\ alive \subseteq Session /\ UNCHANGED stray
  BY Zenon DEF ForgottenB2f, LinkInv, Next, vars
<1>2. SUFFICES ASSUME NEW t \in alive', t \notin stray, msg_b2f'[t] # <<>>, inq'[t] = <<>>
               PROVE  t \in Range(queue_b2f')
  BY <1>1, Zenon DEF ForgottenB2f
<1>3. ASSUME NEW s \in Session, DeleteSess(s), UNCHANGED inq
      PROVE  t \in Range(queue_b2f')
  BY <1>1, <1>2, <1>3, DeleteUnlinksOne, Zenon
<1>4. ASSUME UNCHANGED <<alive, msg_b2f, queue_b2f, inq>>
      PROVE  t \in Range(queue_b2f')
  BY <1>1, <1>2, <1>4, Zenon
<1>5. CASE RxMessage
  <2>1. PICK m : m = Head(rx_queue)
    BY Zenon
  <2>2. m.sess \in Session
    BY <1>5, <2>1, NextLetter, Zenon DEF RxMessage
  <2>3. /\ DeleteSess(m.sess) \/ UNCHANGED <<alive, msg_b2f, queue_b2f>>
        /\ UNCHANGED inq
    BY <1>5, <2>1, Zenon DEF RxMessage, RxData, RxClose
  <2> QED
    BY <1>3, <1>4, <2>2, <2>3, Zenon
<1>6. CASE DataProcessF2b
  <2>1. PICK s : s = Head(todo)
    BY Zenon
  <2>2. s \in Session
    BY <1>6, <2>1, VisitsSession, Zenon DEF DataProcessF2b
  <2>3. /\ DeleteSess(s) \/ UNCHANGED <<alive, msg_b2f, queue_b2f>>
        /\ UNCHANGED inq
    BY <1>6, <2>1, Zenon DEF DataProcessF2b, SendOk, SendAgain, SendError
  <2> QED
    BY <1>3, <1>4, <2>2, <2>3
<1>7. CASE DataProcessNns
  <2>1. UNCHANGED alive
    BY <1>7, Zenon DEF DataProcessNns
  <2>2. CASE UNCHANGED <<msg_b2f, inq, queue_b2f>>
    BY <1>4, <2>1, <2>2
  <2>3. CASE ~UNCHANGED <<msg_b2f, inq, queue_b2f>>
    <3>1. PICK s \in alive : \E a, b : Moves(s, a, b) /\ WholeMove(s, a, b)
      BY <1>7, <2>3, NnsMoves, Zenon
    <3>2. PICK a, b : Moves(s, a, b) /\ WholeMove(s, a, b)
      BY <3>1, Zenon
    <3>3. /\ LinkB2f(s) \/ (b # <<>> /\ UNCHANGED <<queue_b2f, state_b2f>>)
          /\ t # s => msg_b2f'[t] = msg_b2f[t] /\ inq'[t] = inq[t]
          /\ inq'[s] = b
      BY <1>1, <1>2, <2>1, <3>2, Zenon DEF Moves, WholeMove, DataTypes
    <3>4. CASE LinkB2f(s)
      <4>1. /\ queue_b2f' = Link(s, queue_b2f, state_b2f)
            /\ LinksTrue(queue_b2f, state_b2f, alive, stray)
        BY <3>4, Zenon DEF LinkB2f, LinkInv
      <4>2. /\ Range(queue_b2f) \subseteq Range(queue_b2f')
            /\ s \notin stray => s \in Range(queue_b2f')
        BY <1>1, <4>1, LinkGood, Zenon
      <4> QED
        BY <1>1, <1>2, <2>1, <3>3, <4>2, Zenon
    <3>5. CASE b # <<>> /\ UNCHANGED <<queue_b2f, state_b2f>>
      BY <1>1, <1>2, <2>1, <3>3, <3>5, ZenonT(60)
    <3> QED
      BY <3>3, <3>4, <3>5, Zenon
  <2> QED
    BY <2>2, <2>3, Zenon
<1>8. CASE DataProcessB2f
  <2>1. PICK s : s = Head(todo)
    BY Zenon
  <2>2. s \in Session /\ UNCHANGED <<alive, inq>>
    BY <1>8, <2>1, VisitsSession, Zenon DEF DataProcessB2f
  <2>3. PICK k \in 0 .. Len(msg_b2f[s]), r \in Seq(Letter) :
          /\ tx_queue' = tx_queue \o r /\ Len(tx_queue') <= TxRoom
          /\ msg_b2f' = [msg_b2f EXCEPT ![s] = SubSeq(@, k + 1, Len(@))]
          /\ InTransit(r, s) = Flatten(SubSeq(msg_b2f[s], 1, k))
          /\ \A u \in Session \ {s} : InTransit(r, u) = <<>>
          /\ \/ k = Len(msg_b2f[s]) /\ queue_b2f' = Without(queue_b2f, s)
             \/ UNCHANGED queue_b2f
    BY <1>8, <2>1, <2>2, B2fMoves, Zenon
  <2>4. PICK q : q = msg_b2f[s]
    OBVIOUS
  <2>5. /\ q \in Seq(Seq(Nat)) /\ msg_b2f'[s] = SubSeq(q, k + 1, Len(q)) /\ k \in 0 .. Len(q)
        /\ t # s => msg_b2f'[t] = msg_b2f[t]
    BY <1>1, <1>2, <2>2, <2>3, <2>4, Zenon DEF DataTypes
  <2>6. CASE k = Len(q) /\ queue_b2f' = Without(queue_b2f, s)
    <3>0. SubSeq(q, Len(q) + 1, Len(q)) = <<>>
      BY <2>5
    <3>1. t # s
      BY <1>2, <2>5, <2>6, <3>0, Zenon
    <3>2. Range(queue_b2f') = Range(queue_b2f) \ {s}
      <4>1. queue_b2f \in Seq(alive) /\ IsInjective(queue_b2f)
        BY DEF LinkInv, LinksTrue
      <4> QED
        BY <2>6, <4>1, WithoutFacts, Zenon
    <3> QED
      BY <1>1, <1>2, <2>2, <2>5, <3>1, <3>2, ZenonT(60)
  <2>7. CASE UNCHANGED queue_b2f
    <3>1. q = <<>> => msg_b2f'[s] = <<>>
      BY <2>5
    <3> QED
      BY <1>1, <1>2, <2>2, <2>4, <2>5, <2>7, <3>1, ZenonT(60)
  <2> QED
    BY <2>3, <2>4, <2>6, <2>7
<1>9. ASSUME NEW s \in Session, NEW n \in Arrival, PeerSends(s, n)
      PROVE  t \in Range(queue_b2f')
  <2>1. PICK u : u = Units(arrived[s], n)
    OBVIOUS
  <2>2. /\ UNCHANGED <<alive, msg_b2f, queue_b2f>>
        /\ inq' = [inq EXCEPT ![s] = Append(inq[s], u)]
    BY <1>9, <2>1, Zenon DEF PeerSends, engineVars
  <2>3. Append(inq[s], u) # <<>>
    <3>1. inq[s] \in Seq(Seq(Nat)) /\ u \in Seq(Nat)
      <4>1. arrived[s] \in Nat /\ n \in Nat
        BY DataAssumption, Zenon DEF DataTypes
      <4> QED
        BY <2>1, <4>1, UnitsFacts, Zenon DEF DataTypes
    <3>2. Len(Append(inq[s], u)) = Len(inq[s]) + 1 /\ Len(inq[s]) \in Nat
      BY <3>1
    <3> QED
      BY <3>2
  <2>4. inq'[t] = inq[t]
    BY <1>1, <1>2, <2>2, <2>3, Zenon DEF DataTypes
  <2> QED
    BY <1>1, <1>2, <2>2, <2>4, Zenon
<1>10. CASE RxEmpty \/ Poll \/ NnsDone \/ B2fDone \/ FrontendReads \/ UNCHANGED vars
  BY <1>4, <1>10, Zenon DEF RxEmpty, Poll, NnsDone, B2fDone, FrontendReads, engineVars, vars
<1>11. ASSUME NEW s \in Session,
              FrontendSends(s) \/ FrontendCloses(s) \/ \E how \in Failure : PeerFails(s, how)
       PROVE  t \in Range(queue_b2f')
  BY <1>4, <1>11, Zenon DEF FrontendSends, FrontendCloses, PeerFails, engineVars
<1> QED
  BY <1>5, <1>6, <1>7, <1>8, <1>9, <1>10, <1>11, Zenon DEF Next, Engine

(* With datagrams that fit one read(), no segment of either direction is   *)
(* forgotten, when malloc fails half way through a socket's data, when the *)
(* TX queue fills up, and when sessions are deleted in between.            *)
THEOREM NoSegmentForgotten ==
  ASSUME Udp = {} \/ WholeDatagrams
  PROVE  Spec => []NothingForgotten
<1>1. Init => ForgottenB2f \subseteq stray
  BY Zenon DEF Init, ForgottenB2f
<1>2. LinkInv /\ DataTypes /\ ForgottenB2f \subseteq stray /\ [Next]_vars
        => (ForgottenB2f \subseteq stray)'
  BY HeldB2fStep, Zenon
<1>3. ForgottenF2b \subseteq stray /\ ForgottenB2f \subseteq stray => NothingForgotten
  BY Zenon DEF NothingForgotten, Forgotten
<1> QED
  BY <1>1, <1>2, <1>3, DataTyped, FrontendSegmentsHeld, PTL DEF Spec
=============================================================================
