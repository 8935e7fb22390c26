------------------------ MODULE AudioRingBufferProofs ------------------------
(***************************************************************************)
(* Proofs about AudioRingBuffer for every capacity and all arrays: it      *)
(* implements SampleWindow.                                                *)
(*                                                                         *)
(* Samples in front of Capacity newer ones do not belong to the window     *)
(* (NewestDrops), and every turn of the loop of append removes only such   *)
(* samples (TrimKeeps), until none is left to remove (TrimmedFits).        *)
(***************************************************************************)
EXTENDS AudioRingBuffer, SequenceTheorems, WellFoundedInduction, TLAPS

Deques == Seq(Seq(Samples))

-----------------------------------------------------------------------------
(* Induction *)

\* What holds of 0 and is passed on from each number to the next holds of all
\* natural numbers; T is the set of the numbers it holds of.
LEMMA SetInduction ==
  ASSUME NEW T, 0 \in T, \A n \in Nat : n \in T => n + 1 \in T
  PROVE  Nat \subseteq T
<1> DEFINE R == OpToRel(<, Nat)
           Missing == Nat \ T
<1> SUFFICES ASSUME Missing # {} PROVE FALSE
  OBVIOUS
<1>1. IsWellFoundedOn(R, Nat)
  BY NatLessThanWellFounded
<1>2. Missing \subseteq Nat
  OBVIOUS
<1> HIDE DEF R
<1>3. PICK x \in Missing : \A y \in Missing : ~ (<<y, x>> \in R)
  <2> HIDE DEF Missing
  <2> QED BY <1>1, <1>2, WFMin
<1>4. \A y \in Nat : y < x => <<y, x>> \in R
  BY DEF R, OpToRel
<1>5. x \in Nat /\ x # 0 /\ x - 1 \in Nat /\ x - 1 < x
  OBVIOUS
<1>6. x - 1 \in T
  BY <1>3, <1>4, <1>5
<1>7. x \in T
  <2>1. (x - 1) + 1 = x
    BY <1>5
  <2> QED BY <1>5, <1>6, <2>1
<1> QED BY <1>7

-----------------------------------------------------------------------------
(* Joining the arrays of a deque *)

\* The recursion of Joined has a solution, so Joined satisfies it.
LEMMA JoinedRecursion ==
  ASSUME NEW cs \in Deques
  PROVE  /\ Joined(cs)[0] = <<>>
         /\ \A i \in 1..Len(cs) : Joined(cs)[i] = Joined(cs)[i-1] \o cs[i]
<1> DEFINE Solves(f, n) ==
             f = [i \in 0..n |-> IF i = 0 THEN <<>> ELSE f[i-1] \o cs[i]]
           T == {n \in Nat : \E f : Solves(f, n)}
<1>1. 0 \in T
  <2>1. Solves([i \in 0..0 |-> <<>>], 0)
    OBVIOUS
  <2> QED BY <2>1
<1>2. ASSUME NEW n \in Nat, n \in T PROVE n + 1 \in T
  <2>1. PICK f : Solves(f, n)
    BY <1>2
  <2> DEFINE g == [i \in 0..n + 1 |-> IF i = n + 1 THEN f[n] \o cs[n + 1] ELSE f[i]]
  <2>2. \A i \in 0..n : g[i] = f[i]
    OBVIOUS
  <2>3. ASSUME NEW i \in 0..n + 1
        PROVE  g[i] = IF i = 0 THEN <<>> ELSE g[i-1] \o cs[i]
    <3>1. CASE i = n + 1
      <4>1. i - 1 = n /\ n \in 0..n /\ i # 0
        BY <3>1
      <4>2. g[i] = f[n] \o cs[i]
        BY <3>1
      <4> HIDE DEF g
      <4> QED BY <2>2, <4>1, <4>2
    <3>2. CASE i # n + 1
      <4>1. i \in 0..n /\ (i # 0 => i - 1 \in 0..n)
        BY <3>2
      <4>2. f[i] = IF i = 0 THEN <<>> ELSE f[i-1] \o cs[i]
        BY <2>1, <4>1
      <4> HIDE DEF g
      <4> QED BY <2>2, <4>1, <4>2
    <3> QED BY <3>1, <3>2
  <2>4. Solves(g, n + 1)
    <3>1. g = [i \in 0..n + 1 |-> g[i]]
      OBVIOUS
    <3> HIDE DEF g
    <3> QED BY <2>3, <3>1
  <2> HIDE DEF g, Solves
  <2>5. n + 1 \in Nat
    OBVIOUS
  <2> QED BY <2>4, <2>5
<1>3. Len(cs) \in T
  <2>1. Len(cs) \in Nat
    BY DEF Deques
  <2> HIDE DEF T
  <2>2. Nat \subseteq T
    BY <1>1, <1>2, SetInduction
  <2> QED BY <2>1, <2>2
<1>4. PICK f : Solves(f, Len(cs))
  BY <1>3
<1>5. Solves(Joined(cs), Len(cs))
  BY <1>4 DEF Joined
<1>6. \A i \in 0..Len(cs) :
        Joined(cs)[i] = IF i = 0 THEN <<>> ELSE Joined(cs)[i-1] \o cs[i]
  BY <1>5
<1>7. Len(cs) \in Nat
  BY DEF Deques
<1>8. Joined(cs)[0] = <<>>
  <2>1. 0 \in 0..Len(cs)
    BY <1>7
  <2> QED BY <1>6, <2>1, Zenon
<1>9. ASSUME NEW i \in 1..Len(cs) PROVE Joined(cs)[i] = Joined(cs)[i-1] \o cs[i]
  <2>1. i \in 0..Len(cs) /\ i # 0
    BY <1>7
  <2> QED BY <1>6, <2>1, Zenon
<1> QED BY <1>8, <1>9

\* What joining gives is a sequence of samples.
LEMMA JoinedTyped ==
  ASSUME NEW cs \in Deques
  PROVE  \A i \in 0..Len(cs) : Joined(cs)[i] \in Seq(Samples)
<1> DEFINE T == {i \in Nat : i <= Len(cs) => Joined(cs)[i] \in Seq(Samples)}
<1>1. Len(cs) \in Nat /\ \A i \in 1..Len(cs) : cs[i] \in Seq(Samples)
  BY DEF Deques
<1>2. 0 \in T
  <2>1. <<>> \in Seq(Samples)
    OBVIOUS
  <2> QED BY <2>1, JoinedRecursion
<1>3. ASSUME NEW i \in Nat, i \in T PROVE i + 1 \in T
  <2> SUFFICES ASSUME i + 1 <= Len(cs) PROVE Joined(cs)[i + 1] \in Seq(Samples)
    OBVIOUS
  <2>1. i + 1 \in 1..Len(cs) /\ (i + 1) - 1 = i /\ i <= Len(cs)
    BY <1>1
  <2>2. Joined(cs)[i + 1] = Joined(cs)[i] \o cs[i + 1]
    <3>1. \A e \in 1..Len(cs) : Joined(cs)[e] = Joined(cs)[e-1] \o cs[e]
      BY JoinedRecursion
    <3> QED BY <2>1, <3>1
  <2>3. Joined(cs)[i] \in Seq(Samples) /\ cs[i + 1] \in Seq(Samples)
    BY <1>1, <1>3, <2>1
  <2> QED BY <2>2, <2>3, ConcatProperties
<1> HIDE DEF T
<1>4. Nat \subseteq T
  BY <1>2, <1>3, SetInduction
<1> QED BY <1>1, <1>4 DEF T

LEMMA ToArrayTyped ==
  ASSUME NEW cs \in Deques
  PROVE  ToArray(cs) \in Seq(Samples)
<1>1. Len(cs) \in 0..Len(cs)
  BY DEF Deques
<1> QED BY <1>1, JoinedTyped DEF ToArray

\* Joining goes from the front, so arrays behind change nothing of it.
LEMMA JoinedPrefix ==
  ASSUME NEW cs \in Deques, NEW ds \in Deques, NEW n \in Nat,
         n <= Len(cs), n <= Len(ds), \A i \in 1..n : cs[i] = ds[i]
  PROVE  Joined(cs)[n] = Joined(ds)[n]
<1> DEFINE T == {i \in Nat : i <= n => Joined(cs)[i] = Joined(ds)[i]}
<1>1. Len(cs) \in Nat /\ Len(ds) \in Nat
  BY DEF Deques
<1>2. 0 \in T
  BY JoinedRecursion
<1>3. ASSUME NEW i \in Nat, i \in T PROVE i + 1 \in T
  <2> SUFFICES ASSUME i + 1 <= n PROVE Joined(cs)[i + 1] = Joined(ds)[i + 1]
    OBVIOUS
  <2>1. /\ i + 1 \in 1..Len(cs) /\ i + 1 \in 1..Len(ds) /\ i + 1 \in 1..n
        /\ (i + 1) - 1 = i /\ i <= n
    BY <1>1
  <2>2. Joined(cs)[i + 1] = Joined(cs)[i] \o cs[i + 1]
    <3>1. \A e \in 1..Len(cs) : Joined(cs)[e] = Joined(cs)[e-1] \o cs[e]
      BY JoinedRecursion
    <3> QED BY <2>1, <3>1
  <2>3. Joined(ds)[i + 1] = Joined(ds)[i] \o ds[i + 1]
    <3>1. \A e \in 1..Len(ds) : Joined(ds)[e] = Joined(ds)[e-1] \o ds[e]
      BY JoinedRecursion
    <3> QED BY <2>1, <3>1
  <2>4. Joined(cs)[i] = Joined(ds)[i] /\ cs[i + 1] = ds[i + 1]
    BY <1>3, <2>1
  <2> QED BY <2>2, <2>3, <2>4
<1> HIDE DEF T
<1>4. Nat \subseteq T
  BY <1>2, <1>3, SetInduction
<1> QED BY <1>4 DEF T

\* An array behind the deque comes last.
LEMMA ToArrayAppend ==
  ASSUME NEW cs \in Deques, NEW a \in Seq(Samples)
  PROVE  ToArray(Append(cs, a)) = ToArray(cs) \o a
<1> DEFINE n == Len(cs)
           ds == Append(cs, a)
<1>1. /\ ds \in Deques /\ n \in Nat /\ Len(ds) = n + 1 /\ ds[n + 1] = a
      /\ \A i \in 1..n : ds[i] = cs[i]
  BY AppendProperties DEF Deques
<1> HIDE DEF ds
<1>2. Joined(ds)[n] = Joined(cs)[n]
  BY <1>1, JoinedPrefix
<1>3. Joined(ds)[n + 1] = Joined(ds)[n] \o a
  <2>1. n + 1 \in 1..Len(ds) /\ (n + 1) - 1 = n
    BY <1>1
  <2>2. \A e \in 1..Len(ds) : Joined(ds)[e] = Joined(ds)[e-1] \o ds[e]
    BY <1>1, JoinedRecursion
  <2> QED BY <1>1, <2>1, <2>2
<1> QED BY <1>1, <1>2, <1>3 DEF ToArray, ds

\* The oldest array comes first.
LEMMA ToArrayHead ==
  ASSUME NEW cs \in Deques, cs # <<>>
  PROVE  /\ Head(cs) = cs[1] /\ Head(cs) \in Seq(Samples) /\ Tail(cs) \in Deques
         /\ Len(Tail(cs)) = Len(cs) - 1 /\ Len(cs) \in Nat \ {0}
         /\ ToArray(cs) = Head(cs) \o ToArray(Tail(cs))
<1> DEFINE n == Len(cs)
           h == Head(cs)
           ds == Tail(cs)
           T == {i \in Nat : i < n => Joined(cs)[i + 1] = h \o Joined(ds)[i]}
<1>1. /\ n \in Nat \ {0} /\ h = cs[1] /\ h \in Seq(Samples) /\ ds \in Deques
      /\ Len(ds) = n - 1 /\ \A i \in 1..n - 1 : ds[i] = cs[i + 1]
  BY HeadTailProperties DEF Deques
<1> HIDE DEF h, ds
<1>2. 0 \in T
  <2>1. 1 \in 1..n /\ 1 - 1 = 0
    BY <1>1
  <2>2. \A e \in 1..n : Joined(cs)[e] = Joined(cs)[e-1] \o cs[e]
    BY JoinedRecursion
  <2>3. Joined(cs)[1] = <<>> \o h /\ Joined(ds)[0] = <<>>
    BY <1>1, <2>1, <2>2, JoinedRecursion
  <2>4. <<>> \o h = h /\ h \o <<>> = h
    BY <1>1, ConcatEmptySeq
  <2>5. Joined(cs)[1] = h \o Joined(ds)[0]
    BY <2>3, <2>4, Zenon
  <2>6. 0 + 1 = 1 /\ 0 \in Nat
    OBVIOUS
  <2> QED BY <2>5, <2>6
<1>3. ASSUME NEW i \in Nat, i \in T PROVE i + 1 \in T
  <2> SUFFICES ASSUME i + 1 < n PROVE Joined(cs)[(i + 1) + 1] = h \o Joined(ds)[i + 1]
    OBVIOUS
  <2>1. /\ (i + 1) + 1 \in 1..n /\ ((i + 1) + 1) - 1 = i + 1 /\ i < n
        /\ i + 1 \in 1..Len(ds) /\ (i + 1) - 1 = i /\ i + 1 \in 1..n - 1 /\ i \in 0..Len(ds)
    BY <1>1
  <2>2. Joined(cs)[(i + 1) + 1] = Joined(cs)[i + 1] \o cs[(i + 1) + 1]
    <3>1. \A e \in 1..n : Joined(cs)[e] = Joined(cs)[e-1] \o cs[e]
      BY JoinedRecursion
    <3> QED BY <2>1, <3>1
  <2>3. Joined(ds)[i + 1] = Joined(ds)[i] \o ds[i + 1]
    <3>1. \A e \in 1..Len(ds) : Joined(ds)[e] = Joined(ds)[e-1] \o ds[e]
      BY <1>1, JoinedRecursion
    <3> QED BY <2>1, <3>1
  <2>4. Joined(cs)[i + 1] = h \o Joined(ds)[i] /\ ds[i + 1] = cs[(i + 1) + 1]
    BY <1>1, <1>3, <2>1
  <2>5. Joined(ds)[i] \in Seq(Samples) /\ ds[i + 1] \in Seq(Samples)
    <3>1. Joined(ds)[i] \in Seq(Samples)
      BY <1>1, <2>1, JoinedTyped
    <3> QED BY <1>1, <2>1, <3>1 DEF Deques
  <2>6. (h \o Joined(ds)[i]) \o ds[i + 1] = h \o (Joined(ds)[i] \o ds[i + 1])
    <3>1. \A x, y, z \in Seq(Samples) : (x \o y) \o z = x \o (y \o z)
      BY ConcatAssociative
    <3> QED BY <1>1, <2>5, <3>1, Zenon
  <2> QED BY <2>2, <2>3, <2>4, <2>6
<1> HIDE DEF T
<1>4. Nat \subseteq T
  BY <1>2, <1>3, SetInduction
<1>5. n - 1 \in Nat /\ n - 1 < n /\ (n - 1) + 1 = n
  BY <1>1
<1>6. Joined(cs)[n] = h \o Joined(ds)[n - 1]
  BY <1>4, <1>5 DEF T
<1> QED BY <1>1, <1>6 DEF ToArray, h, ds

LEMMA ToArrayEmpty == <<>> \in Deques /\ ToArray(<<>>) = <<>>
<1>1. <<>> \in Deques /\ Len(<<>>) = 0
  BY DEF Deques
<1> QED BY <1>1, JoinedRecursion DEF ToArray

\* A deque of one array.
LEMMA ToArraySingle ==
  ASSUME NEW a \in Seq(Samples)
  PROVE  <<a>> \in Deques /\ ToArray(<<a>>) = a
<1>1. <<a>> = Append(<<>>, a) /\ <<a>> \in Deques
  BY DEF Deques
<1>2. ToArray(Append(<<>>, a)) = <<>> \o a
  BY ToArrayEmpty, ToArrayAppend
<1>3. <<>> \o a = a
  BY ConcatEmptySeq
<1> QED BY <1>1, <1>2, <1>3

-----------------------------------------------------------------------------
(* The window *)

\* The newest n samples, one by one.
LEMMA LastProperties ==
  ASSUME NEW s \in Seq(Samples), NEW n \in Nat
  PROVE  LET w == Window!Last(s, n)
         IN  /\ w \in Seq(Samples) /\ Len(w) <= n
             /\ Len(w) = IF Len(s) <= n THEN Len(s) ELSE n
             /\ \A i \in 1..Len(w) : w[i] = s[Len(s) - Len(w) + i]
<1> DEFINE w == Window!Last(s, n)
           m == Len(s)
<1>1. m \in Nat /\ \A i \in 1..m : s[i] \in Samples
  OBVIOUS
<1>2. CASE m <= n
  <2>1. w = s
    BY <1>2 DEF Window!Last
  <2> HIDE DEF w
  <2>2. ASSUME NEW i \in 1..Len(w) PROVE w[i] = s[m - Len(w) + i]
    <3>1. m - Len(w) + i = i
      BY <1>1, <2>1
    <3> QED BY <2>1, <3>1
  <2> QED BY <1>1, <1>2, <2>1, <2>2 DEF w
<1>3. CASE ~(m <= n)
  <2> DEFINE k == m - n + 1
  <2>1. w = SubSeq(s, k, m)
    BY <1>3 DEF Window!Last
  <2>2. k \in Int /\ m \in Int /\ \A i \in k..m : s[i] \in Samples
    BY <1>1, <1>3
  <2>3. /\ w \in Seq(Samples)
        /\ Len(w) = IF k <= m THEN m - k + 1 ELSE 0
        /\ \A i \in 1..m - k + 1 : w[i] = s[k + i - 1]
    <3> HIDE DEF k
    <3> QED BY <2>1, <2>2, SubSeqProperties
  <2> HIDE DEF w
  <2>4. m - k + 1 = n /\ Len(w) = n
    BY <1>1, <1>3, <2>3
  <2>5. ASSUME NEW i \in 1..n PROVE w[i] = s[m - n + i]
    <3>1. i \in 1..m - k + 1 /\ k + i - 1 = m - n + i
      BY <1>1, <2>4
    <3> QED BY <2>3, <3>1
  <2>6. Len(w) <= n /\ \A i \in 1..Len(w) : w[i] = s[m - Len(w) + i]
    BY <2>4, <2>5
  <2> QED BY <1>3, <2>3, <2>4, <2>6 DEF w
<1> QED BY <1>2, <1>3

\* A sequence with those samples is the window.
LEMMA LastUnique ==
  ASSUME NEW s \in Seq(Samples), NEW n \in Nat, NEW w \in Seq(Samples),
         Len(w) = IF Len(s) <= n THEN Len(s) ELSE n,
         \A i \in 1..Len(w) : w[i] = s[Len(s) - Len(w) + i]
  PROVE  w = Window!Last(s, n)
<1> DEFINE x == Window!Last(s, n)
<1>1. /\ x \in Seq(Samples)
      /\ Len(x) = Len(w)
      /\ \A i \in 1..Len(x) : x[i] = s[Len(s) - Len(x) + i]
  BY LastProperties
<1> HIDE DEF x
<1>2. \A i \in 1..Len(w) : w[i] = x[i]
  BY <1>1
<1>3. w = x
  BY <1>1, <1>2, SeqEqual
<1> QED BY <1>3 DEF x

\* Samples in front of n newer ones are not among the newest n.
LEMMA NewestDrops ==
  ASSUME NEW s \in Seq(Samples), NEW t \in Seq(Samples), NEW n \in Nat, Len(t) >= n
  PROVE  Window!Last(s \o t, n) = Window!Last(t, n)
<1> DEFINE whole == s \o t
           w == Window!Last(t, n)
           k == Len(s)
           m == Len(t)
<1>1. /\ whole \in Seq(Samples) /\ Len(whole) = k + m /\ k \in Nat /\ m \in Nat
      /\ \A i \in 1..k + m : whole[i] = IF i <= k THEN s[i] ELSE t[i - k]
  BY ConcatProperties
<1>2. /\ w \in Seq(Samples) /\ Len(w) = n
      /\ \A i \in 1..n : w[i] = t[m - n + i]
  <2>1. /\ w \in Seq(Samples) /\ Len(w) = IF m <= n THEN m ELSE n
        /\ \A i \in 1..Len(w) : w[i] = t[m - Len(w) + i]
    BY LastProperties
  <2> HIDE DEF w
  <2>2. Len(w) = n
    BY <1>1, <2>1
  <2> QED BY <2>1, <2>2
<1> HIDE DEF whole, w
<1>3. ASSUME NEW i \in 1..n PROVE w[i] = whole[Len(whole) - n + i]
  <2> DEFINE e == Len(whole) - n + i
  <2>1. e \in 1..k + m /\ ~(e <= k) /\ e - k = m - n + i
    BY <1>1
  <2> HIDE DEF e
  <2>2. whole[e] = t[m - n + i]
    BY <1>1, <2>1
  <2> QED BY <1>2, <2>2 DEF e
<1>4. Len(w) = IF Len(whole) <= n THEN Len(whole) ELSE n
  BY <1>1, <1>2
<1>5. w = Window!Last(whole, n)
  BY <1>1, <1>2, <1>3, <1>4, LastUnique
<1> QED BY <1>5 DEF w, whole

\* A sequence in two pieces.
LEMMA TwoPieces ==
  ASSUME NEW s \in Seq(Samples), NEW k \in Nat, k <= Len(s)
  PROVE  /\ SubSeq(s, 1, k) \in Seq(Samples)
         /\ SubSeq(s, k + 1, Len(s)) \in Seq(Samples)
         /\ Len(SubSeq(s, k + 1, Len(s))) = Len(s) - k
         /\ s = SubSeq(s, 1, k) \o SubSeq(s, k + 1, Len(s))
<1> DEFINE m == Len(s)
           head == SubSeq(s, 1, k)
           rest == SubSeq(s, k + 1, m)
<1>1. m \in Nat /\ m \in Int /\ 1 \in Int /\ k \in Int /\ k + 1 \in Int
      /\ (\A i \in 1..k : s[i] \in Samples) /\ (\A i \in k + 1..m : s[i] \in Samples)
  OBVIOUS
<1>2. head \in Seq(Samples)
  BY <1>1, SubSeqProperties
<1>3. rest \in Seq(Samples) /\ Len(rest) = IF k + 1 <= m THEN m - (k + 1) + 1 ELSE 0
  BY <1>1, SubSeqProperties
<1>4. s = head \o rest
  <2>1. 1 \in 1..m + 1 /\ k \in 1 - 1..m /\ m \in k..m
    BY <1>1
  <2>2. head \o rest = SubSeq(s, 1, m)
    BY <2>1, ConcatAdjacentSubSeq
  <2>3. SubSeq(s, 1, m) = s
    BY SubSeqFull
  <2> QED BY <2>2, <2>3, Zenon
<1> HIDE DEF head, rest
<1>5. Len(rest) = m - k
  BY <1>1, <1>3
<1> QED BY <1>2, <1>3, <1>4, <1>5 DEF head, rest

-----------------------------------------------------------------------------
(* The loop of append *)

\* The size counts the samples of the deque, and its newest ones are the window.
Sound(b, w) ==
  /\ b.chunks \in Deques
  /\ b.size = Len(ToArray(b.chunks))
  /\ Window!Last(ToArray(b.chunks), Capacity) = w

\* A turn of the loop drops no sample of the window; unless it is the last one,
\* it drops an array.
LEMMA TrimKeeps ==
  ASSUME NEW b, NEW w, Sound(b, w)
  PROVE  /\ Sound(Trim(b), w)
         /\ \/ b.size <= Capacity /\ Trim(b) = b
            \/ Trim(b).size <= Capacity
            \/ Len(Trim(b).chunks) = Len(b.chunks) - 1
<1> DEFINE cs == b.chunks
           n == b.size
           first == Head(cs)
           rest == Tail(cs)
           f == Len(first)
           old == ToArray(cs)
           new == ToArray(rest)
           overflow == n - Capacity
<1>1. cs \in Deques /\ old \in Seq(Samples) /\ n = Len(old) /\ n \in Nat /\ Capacity \in Nat \ {0}
  <2>1. cs \in Deques /\ n = Len(old) /\ Capacity \in Nat \ {0}
    BY RingAssumption DEF Sound
  <2>2. old \in Seq(Samples)
    BY <2>1, ToArrayTyped
  <2> HIDE DEF old
  <2> QED BY <2>1, <2>2
<1>2. CASE overflow <= 0
  <2>1. Trim(b) = b /\ n <= Capacity
    BY <1>1, <1>2 DEF Trim
  <2> QED BY <2>1
<1>3. CASE ~(overflow <= 0)
  <2>1. cs # <<>>
    <3>1. Len(<<>>) = 0 /\ n > 0
      BY <1>1, <1>3
    <3> QED BY <1>1, <3>1, ToArrayEmpty
  <2>2. /\ first = cs[1] /\ first \in Seq(Samples) /\ rest \in Deques
        /\ Len(rest) = Len(cs) - 1 /\ Len(cs) \in Nat \ {0} /\ old = first \o new
    BY <1>1, <2>1, ToArrayHead
  <2>3. new \in Seq(Samples)
    BY <2>2, ToArrayTyped
  <2>4. f \in Nat /\ Len(new) \in Nat /\ n = f + Len(new)
    <3> HIDE DEF first, new, n, old
    <3>1. Len(first \o new) = Len(first) + Len(new)
      BY <2>2, <2>3, ConcatProperties
    <3> QED BY <1>1, <2>2, <2>3, <3>1
  <2>5. CASE DropsWhole(first, overflow)
    <3>1. Trim(b) = Buffer(rest, n - f)
      BY <1>3, <2>5 DEF Trim
    <3> HIDE DEF first, new, n, old, cs, rest
    <3>2. n - f = Len(new) /\ Len(new) >= Capacity
      BY <1>1, <2>4, <2>5 DEF DropsWhole
    <3>3. Window!Last(old, Capacity) = Window!Last(new, Capacity)
      <4>1. Window!Last(first \o new, Capacity) = Window!Last(new, Capacity)
        BY <1>1, <2>2, <2>3, <3>2, NewestDrops
      <4> QED BY <2>2, <4>1
    <3>4. Trim(b).chunks = rest /\ Trim(b).size = Len(new)
      BY <3>1, <3>2 DEF Buffer
    <3> QED BY <2>2, <3>3, <3>4 DEF Sound, cs, old, new
  <2>6. CASE ~DropsWhole(first, overflow)
    <3> DEFINE head == SubSeq(first, 1, overflow)
               tail == SubSeq(first, overflow + 1, f)
               ds == [cs EXCEPT ![1] = tail]
    <3>1. Trim(b) = Buffer(ds, n - overflow)
      BY <1>3, <2>6 DEF Trim
    <3>2. overflow \in Nat /\ overflow <= f
      <4> HIDE DEF first, n
      <4> QED BY <1>1, <1>3, <2>4, <2>6 DEF DropsWhole
    <3>3. /\ head \in Seq(Samples) /\ tail \in Seq(Samples)
          /\ Len(tail) = f - overflow /\ first = head \o tail
      <4> HIDE DEF overflow, first
      <4> QED BY <2>2, <3>2, TwoPieces
    <3> HIDE DEF head, tail
    <3>4. ds \in Deques /\ ds # <<>> /\ Head(ds) = tail /\ Tail(ds) = rest
      <4> HIDE DEF cs
      <4>1. ds \in Seq(Seq(Samples)) /\ Len(ds) = Len(cs) /\ ds[1] = tail
        BY <1>1, <2>2, <3>3 DEF Deques
      <4>2. ds # <<>> /\ Head(ds) = tail
        BY <2>2, <4>1
      <4>3. Tail(ds) = rest
        <5>1. /\ Tail(ds) \in Seq(Seq(Samples)) /\ Len(Tail(ds)) = Len(cs) - 1
              /\ \A i \in 1..Len(cs) - 1 : Tail(ds)[i] = ds[i + 1]
          BY <4>1, <4>2, HeadTailProperties
        <5>2. \A i \in 1..Len(cs) - 1 : rest[i] = cs[i + 1]
          BY <1>1, <2>1, HeadTailProperties DEF Deques, cs
        <5>3. \A i \in 1..Len(cs) - 1 : ds[i + 1] = cs[i + 1]
          BY <1>1, <2>2 DEF Deques
        <5> HIDE DEF ds, rest
        <5>4. \A i \in 1..Len(Tail(ds)) : Tail(ds)[i] = rest[i]
          BY <5>1, <5>2, <5>3
        <5> QED BY <2>2, <5>1, <5>4, SeqEqual DEF Deques
      <4> QED BY <4>1, <4>2, <4>3 DEF Deques
    <3> HIDE DEF ds
    <3>5. ToArray(ds) = tail \o new
      BY <3>4, ToArrayHead
    <3> HIDE DEF first, new, n, old, cs, rest
    <3>6. /\ tail \o new \in Seq(Samples) /\ Len(tail \o new) = Capacity
          /\ n - overflow = Capacity
      <4>1. tail \o new \in Seq(Samples) /\ Len(tail \o new) = Len(tail) + Len(new)
        BY <2>3, <3>3, ConcatProperties
      <4> QED BY <1>1, <2>4, <3>3, <4>1
    <3>7. old = head \o (tail \o new)
      <4>1. \A x, y, z \in Seq(Samples) : (x \o y) \o z = x \o (y \o z)
        BY ConcatAssociative
      <4>2. (head \o tail) \o new = head \o (tail \o new)
        BY <2>3, <3>3, <4>1, Zenon
      <4> QED BY <2>2, <3>3, <4>2, Zenon
    <3>8. Window!Last(old, Capacity) = Window!Last(tail \o new, Capacity)
      <4> DEFINE t == tail \o new
      <4>1. t \in Seq(Samples) /\ Len(t) >= Capacity /\ old = head \o t /\ Capacity \in Nat
        BY <1>1, <3>6, <3>7
      <4> HIDE DEF t
      <4>2. Window!Last(head \o t, Capacity) = Window!Last(t, Capacity)
        BY <3>3, <4>1, NewestDrops
      <4> QED BY <4>1, <4>2 DEF t
    <3>9. Trim(b).chunks = ds /\ Trim(b).size = Capacity
      BY <3>1, <3>6 DEF Buffer
    <3>10. Sound(Trim(b), w)
      <4>1. /\ Trim(b).chunks \in Deques
            /\ Trim(b).size = Len(ToArray(Trim(b).chunks))
        BY <3>4, <3>5, <3>6, <3>9
      <4>2. Window!Last(ToArray(Trim(b).chunks), Capacity) = Window!Last(old, Capacity)
        BY <3>5, <3>8, <3>9
      <4>3. Window!Last(old, Capacity) = w
        BY DEF Sound, old, cs
      <4> QED BY <4>1, <4>2, <4>3 DEF Sound
    <3>11. Trim(b).size <= Capacity
      BY <1>1, <3>9
    <3> QED BY <3>10, <3>11
  <2> QED BY <2>5, <2>6
<1> QED BY <1>2, <1>3

\* Nothing is cut from a buffer within its capacity.
LEMMA FitsStays ==
  ASSUME NEW b, NEW w, Sound(b, w), b.size <= Capacity
  PROVE  Trim(b) = b
<1>1. ToArray(b.chunks) \in Seq(Samples) /\ b.size = Len(ToArray(b.chunks))
  BY ToArrayTyped DEF Sound
<1>2. b.size \in Nat
  BY <1>1
<1>3. b.size - Capacity <= 0
  BY <1>2, RingAssumption
<1> QED BY <1>3 DEF Trim

\* The recursion of Trims has a solution, so Trims satisfies it.
LEMMA TrimsRecursion ==
  ASSUME NEW b, b.chunks \in Deques
  PROVE  /\ Trims(b)[0] = b
         /\ \A i \in 1..Len(b.chunks) : Trims(b)[i] = Trim(Trims(b)[i-1])
<1> DEFINE m == Len(b.chunks)
           Solves(f, n) == f = [i \in 0..n |-> IF i = 0 THEN b ELSE Trim(f[i-1])]
           T == {n \in Nat : \E f : Solves(f, n)}
<1>1. 0 \in T
  <2>1. Solves([i \in 0..0 |-> b], 0)
    OBVIOUS
  <2> QED BY <2>1
<1>2. ASSUME NEW n \in Nat, n \in T PROVE n + 1 \in T
  <2>1. PICK f : Solves(f, n)
    BY <1>2
  <2> DEFINE g == [i \in 0..n + 1 |-> IF i = n + 1 THEN Trim(f[n]) ELSE f[i]]
  <2>2. \A i \in 0..n : g[i] = f[i]
    OBVIOUS
  <2>3. ASSUME NEW i \in 0..n + 1
        PROVE  g[i] = IF i = 0 THEN b ELSE Trim(g[i-1])
    <3>1. CASE i = n + 1
      <4>1. i - 1 = n /\ n \in 0..n /\ i # 0
        BY <3>1
      <4>2. g[i] = Trim(f[n])
        BY <3>1
      <4> HIDE DEF g
      <4> QED BY <2>2, <4>1, <4>2
    <3>2. CASE i # n + 1
      <4>1. i \in 0..n /\ (i # 0 => i - 1 \in 0..n)
        BY <3>2
      <4>2. f[i] = IF i = 0 THEN b ELSE Trim(f[i-1])
        BY <2>1, <4>1
      <4> HIDE DEF g
      <4> QED BY <2>2, <4>1, <4>2
    <3> QED BY <3>1, <3>2
  <2>4. Solves(g, n + 1)
    <3>1. g = [i \in 0..n + 1 |-> g[i]]
      OBVIOUS
    <3> HIDE DEF g
    <3> QED BY <2>3, <3>1
  <2> HIDE DEF g, Solves
  <2>5. n + 1 \in Nat
    OBVIOUS
  <2> QED BY <2>4, <2>5
<1>3. m \in Nat
  BY DEF Deques
<1>4. m \in T
  <2> HIDE DEF T, m
  <2>1. Nat \subseteq T
    BY <1>1, <1>2, SetInduction
  <2> QED BY <1>3, <2>1
<1>5. PICK f : Solves(f, m)
  BY <1>4
<1>6. Solves(Trims(b), m)
  BY <1>5 DEF Trims
<1>7. \A i \in 0..m : Trims(b)[i] = IF i = 0 THEN b ELSE Trim(Trims(b)[i-1])
  BY <1>6
<1>8. Trims(b)[0] = b
  <2>1. 0 \in 0..m
    BY <1>3
  <2> QED BY <1>7, <2>1, Zenon
<1>9. ASSUME NEW i \in 1..m PROVE Trims(b)[i] = Trim(Trims(b)[i-1])
  <2>1. i \in 0..m /\ i # 0
    BY <1>3
  <2> QED BY <1>7, <2>1, Zenon
<1> QED BY <1>8, <1>9

\* The loop ends within the capacity, and with the samples of the window.
LEMMA TrimmedFits ==
  ASSUME NEW b, NEW w, Sound(b, w)
  PROVE  Sound(Trimmed(b), w) /\ Trimmed(b).size <= Capacity
<1> DEFINE m == Len(b.chunks)
           t(i) == Trims(b)[i]
           Good(i) == /\ Sound(t(i), w)
                      /\ t(i).size <= Capacity \/ Len(t(i).chunks) = m - i
           T == {i \in Nat : i <= m => Good(i)}
<1>1. b.chunks \in Deques /\ m \in Nat
  BY DEF Sound, Deques
<1>2. 0 \in T
  <2>1. t(0) = b
    BY <1>1, TrimsRecursion
  <2>2. m = m - 0
    BY <1>1
  <2> HIDE DEF t
  <2> QED BY <2>1, <2>2
<1>3. ASSUME NEW i \in Nat, i \in T PROVE i + 1 \in T
  <2> SUFFICES ASSUME i + 1 <= m PROVE Good(i + 1)
    OBVIOUS
  <2>1. i + 1 \in 1..m /\ (i + 1) - 1 = i /\ i <= m
    BY <1>1
  <2>2. t(i + 1) = Trim(t(i))
    <3>1. \A e \in 1..m : Trims(b)[e] = Trim(Trims(b)[e-1])
      BY <1>1, TrimsRecursion
    <3> QED BY <2>1, <3>1
  <2>3. Good(i)
    BY <1>3, <2>1
  <2> HIDE DEF t
  <2>4. /\ Sound(t(i + 1), w)
        /\ \/ t(i).size <= Capacity /\ t(i + 1) = t(i)
           \/ t(i + 1).size <= Capacity
           \/ Len(t(i + 1).chunks) = Len(t(i).chunks) - 1
    BY <2>2, <2>3, TrimKeeps
  <2>5. CASE t(i).size <= Capacity
    <3>1. t(i + 1) = t(i)
      BY <2>2, <2>3, <2>5, FitsStays
    <3> QED BY <2>4, <2>5, <3>1
  <2>6. CASE Len(t(i).chunks) = m - i
    <3>1. Len(t(i).chunks) - 1 = m - (i + 1)
      BY <1>1, <2>6
    <3> QED BY <2>4, <2>5, <3>1
  <2> QED BY <2>3, <2>5, <2>6
<1> HIDE DEF T
<1>4. Nat \subseteq T
  BY <1>2, <1>3, SetInduction
<1>5. Good(m)
  BY <1>1, <1>4 DEF T
<1> HIDE DEF t
<1>6. CASE t(m).size <= Capacity
  BY <1>5, <1>6 DEF Trimmed, t
<1>7. CASE Len(t(m).chunks) = m - m
  <2>1. Len(t(m).chunks) = 0 /\ t(m).chunks \in Deques
    BY <1>1, <1>5, <1>7 DEF Sound
  <2>2. t(m).chunks = <<>>
    BY <2>1 DEF Deques
  <2>3. t(m).size = 0
    <3>1. Len(<<>>) = 0
      OBVIOUS
    <3> QED BY <1>5, <2>2, <3>1, ToArrayEmpty DEF Sound
  <2>4. t(m).size <= Capacity
    BY <2>3, RingAssumption
  <2> QED BY <1>5, <2>4 DEF Trimmed, t
<1> QED BY <1>5, <1>6, <1>7

-----------------------------------------------------------------------------
(* The refinement *)

\* The size is the number of samples, and within the capacity.
RingInv ==
  /\ chunks \in Deques
  /\ size = Len(ToArray(chunks))
  /\ size <= Capacity

LEMMA RingInit == Init => RingInv /\ Window!Init
<1>1. Len(<<>>) = 0
  OBVIOUS
<1>2. 0 <= Capacity
  BY RingAssumption
<1> QED BY <1>1, <1>2, ToArrayEmpty DEF Init, RingInv, Window!Init

\* What appending leaves is sound for the window after the array was pushed.
LEMMA AppendedFits ==
  ASSUME RingInv, NEW a \in Arrays
  PROVE  LET w == Window!Last(ToArray(chunks) \o a, Capacity)
         IN  Sound(Appended(a), w) /\ Appended(a).size <= Capacity
<1> DEFINE old == ToArray(chunks)
           w == Window!Last(old \o a, Capacity)
           n == Len(a)
<1>1. /\ chunks \in Deques /\ a \in Seq(Samples) /\ Capacity \in Nat \ {0} /\ n \in Nat
      /\ size = Len(old) /\ old \in Seq(Samples)
  <2>1. chunks \in Deques /\ a \in Seq(Samples) /\ Capacity \in Nat \ {0} /\ size = Len(old)
    BY RingAssumption DEF RingInv
  <2>2. n \in Nat
    BY <2>1
  <2> QED BY <2>1, <2>2, ToArrayTyped
<1> HIDE DEF old, w
<1>2. CASE n >= Capacity
  <2> DEFINE f == SubSeq(a, n - Capacity + 1, n)
  <2>1. Appended(a) = Buffer(<<f>>, Capacity)
    BY <1>2 DEF Appended, Fill
  <2> DEFINE k == n - Capacity
  <2>2. k \in Nat /\ k <= n /\ n - k = Capacity
    BY <1>1, <1>2
  <2> HIDE DEF k
  <2>3. f \in Seq(Samples) /\ Len(f) = Capacity /\ f = Window!Last(a, Capacity)
    <3>1. /\ SubSeq(a, k + 1, n) \in Seq(Samples)
          /\ Len(SubSeq(a, k + 1, n)) = n - k
          /\ a = SubSeq(a, 1, k) \o SubSeq(a, k + 1, n)
          /\ SubSeq(a, 1, k) \in Seq(Samples)
      BY <1>1, <2>2, TwoPieces
    <3>2. f = SubSeq(a, k + 1, n)
      BY DEF k
    <3>3. f \in Seq(Samples) /\ Len(f) = Capacity /\ a = SubSeq(a, 1, k) \o f
          /\ SubSeq(a, 1, k) \in Seq(Samples)
      BY <2>2, <3>1, <3>2
    <3> HIDE DEF f
    <3>4. Window!Last(a, Capacity) = Window!Last(f, Capacity)
      <4> DEFINE h == SubSeq(a, 1, k)
      <4>1. h \in Seq(Samples) /\ a = h \o f /\ Capacity \in Nat /\ Len(f) >= Capacity
        BY <1>1, <3>3
      <4> HIDE DEF h
      <4> QED BY <3>3, <4>1, NewestDrops
    <3>5. Window!Last(f, Capacity) = f
      BY <1>1, <3>3 DEF Window!Last
    <3> QED BY <3>3, <3>4, <3>5
  <2> HIDE DEF f
  <2>4. <<f>> \in Deques /\ ToArray(<<f>>) = f
    BY <2>3, ToArraySingle
  <2>5. w = Window!Last(a, Capacity)
    BY <1>1, <1>2, NewestDrops DEF w
  <2>6. Window!Last(f, Capacity) = f
    BY <1>1, <2>3 DEF Window!Last
  <2>7. Appended(a).chunks = <<f>> /\ Appended(a).size = Capacity
    BY <2>1 DEF Buffer
  <2> QED BY <1>1, <2>3, <2>4, <2>5, <2>6, <2>7 DEF Sound, w, old
<1>3. CASE ~(n >= Capacity)
  <2> DEFINE b == Buffer(Append(chunks, a), size + n)
  <2>1. Appended(a) = Trimmed(b)
    BY <1>3 DEF Appended
  <2>2. b.chunks = Append(chunks, a) /\ b.size = size + n
    BY DEF Buffer
  <2> HIDE DEF b
  <2>3. b.chunks \in Deques
    BY <1>1, <2>2 DEF Deques
  <2>4. ToArray(b.chunks) = old \o a
    BY <1>1, <2>2, ToArrayAppend DEF old
  <2>5. Len(old \o a) = Len(old) + n
    BY <1>1, ConcatProperties
  <2>6. Sound(b, w)
    BY <1>1, <2>2, <2>3, <2>4, <2>5 DEF Sound, w
  <2> QED BY <2>1, <2>6, TrimmedFits DEF w, old
<1> QED BY <1>2, <1>3

\* Every step of the buffer is a step of the window.
LEMMA RingStep ==
  RingInv /\ [Next]_vars => RingInv' /\ [Window!Next]_<<ToArray(chunks), given>>
<1> SUFFICES ASSUME RingInv, [Next]_vars
             PROVE  RingInv' /\ [Window!Next]_<<ToArray(chunks), given>>
  OBVIOUS
<1>1. CASE Clear
  <2>1. RingInv'
    BY <1>1, ToArrayEmpty, RingAssumption DEF Clear, RingInv
  <2>2. Window!Clear
    BY <1>1, ToArrayEmpty DEF Clear, Window!Clear
  <2> QED BY <2>1, <2>2 DEF Window!Next
<1>2. ASSUME NEW a \in Arrays, AppendArray(a)
      PROVE  RingInv' /\ [Window!Next]_<<ToArray(chunks), given>>
  <2> DEFINE w == Window!Last(ToArray(chunks) \o a, Capacity)
             b == Appended(a)
  <2>1. Sound(b, w) /\ b.size <= Capacity
    BY AppendedFits
  <2>2. chunks' = b.chunks /\ size' = b.size /\ given' = a
    BY <1>2 DEF AppendArray
  <2> HIDE DEF b, w
  <2>3. RingInv'
    BY <2>1, <2>2 DEF RingInv, Sound
  <2>4. ToArray(chunks') = w
    <3> DEFINE new == ToArray(chunks')
    <3>1. Len(new) <= Capacity /\ Window!Last(new, Capacity) = w
      BY <2>1, <2>2 DEF Sound
    <3> QED BY <3>1 DEF Window!Last
  <2>5. Window!Push(a)
    BY <2>2, <2>4 DEF Window!Push, w
  <2> QED BY <2>3, <2>5 DEF Window!Next
<1>3. CASE UNCHANGED vars
  BY <1>3 DEF vars, RingInv
<1> QED BY <1>1, <1>2, <1>3 DEF Next

-----------------------------------------------------------------------------
(* Theorems *)

\* len() is the number of samples held and never exceeds the capacity, whatever
\* arrays were appended and however they were cut.
THEOREM SizeStaysExact == Spec => [](size = Len(ToArray(chunks)) /\ size <= Capacity)
<1>1. RingInv => size = Len(ToArray(chunks)) /\ size <= Capacity
  BY DEF RingInv
<1> QED BY <1>1, RingInit, RingStep, PTL DEF Spec

\* The deque of cut arrays implements the window: to_array() is always the
\* newest Capacity samples since the last clear, for every capacity and all
\* arrays.
THEOREM BufferImplementsWindow == Spec => HoldsNewest
<1> QED BY RingInit, RingStep, PTL DEF Spec, HoldsNewest, Window!Spec
=============================================================================
