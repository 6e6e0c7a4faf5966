------------------------- MODULE ArpeggiatorProofs -------------------------
(***************************************************************************)
(* The theorems of Arpeggiator, for every size of the stack and of the      *)
(* queue.  The first part is about the two pools of linked slots that the   *)
(* arpeggiator is built on, NoteStack and EventScheduler: what each of      *)
(* their operations does to the order of the links.  The invariant says     *)
(* that the two pools represent sequences, and what waits in the queue for  *)
(* the notes that sound.                                                    *)
(***************************************************************************)
EXTENDS Arpeggiator, SequenceTheorems, FiniteSetTheorems, WellFoundedInduction, TLAPS

(* The least element of a set of natural numbers. *)
LEMMA MinIsLeast ==
  ASSUME NEW S \in SUBSET Nat, S # {}
  PROVE  Min(S) \in S /\ \A y \in S : Min(S) <= y
<1> DEFINE R == {p \in Nat \X Nat : p[1] < p[2]}
<1>1. R = OpToRel(<, Nat)
  BY DEF OpToRel
<1>2. IsWellFoundedOn(R, Nat)
  BY <1>1, NatLessThanWellFounded
<1>3. PICK x \in S : \A y \in S : ~(<<y, x>> \in R)
  BY <1>2, WFMin
<1>4. \A y \in S : y \in Nat /\ x \in Nat /\ ~(y < x)
  BY <1>3
<1>5. \A y \in S : x <= y
  BY <1>4
<1>6. QED
  BY <1>5 DEF Min

LEMMA MaxIsIn ==
  ASSUME NEW N \in Nat, NEW S \in SUBSET (0 .. N), S # {}
  PROVE  Max(S) \in S
<1> DEFINE below == {N - x : x \in S}
<1>0. \A x \in S : x \in Nat /\ N - x \in Nat
  OBVIOUS
<1>1. below \in SUBSET Nat /\ below # {}
  BY <1>0
<1>2. Min(below) \in below /\ \A y \in below : Min(below) <= y
  BY <1>1, MinIsLeast
<1>3. PICK x \in S : Min(below) = N - x
  BY <1>2
<1>4. \A y \in S : N - y \in below
  OBVIOUS
<1> HIDE DEF below
<1>5. \A y \in S : N - x <= N - y
  BY <1>2, <1>3, <1>4
<1>6. \A y \in S : x >= y
  BY <1>0, <1>5
<1>7. QED
  BY <1>6 DEF Max

(* What holds at 0, and at the next number whenever it holds at one, holds  *)
(* up to any bound: the numbers at which it does not have no least one.     *)
LEMMA UpTo ==
  ASSUME NEW N \in Nat, NEW S \in SUBSET (0 .. N), 0 \in S,
         \A k \in 1 .. N : k - 1 \in S => k \in S
  PROVE  S = 0 .. N
<1> DEFINE bad == (0 .. N) \ S
<1> SUFFICES ASSUME bad # {} PROVE FALSE
  OBVIOUS
<1>1. bad \in SUBSET Nat
  OBVIOUS
<1>2. Min(bad) \in bad /\ \A y \in bad : Min(bad) <= y
  BY <1>1, MinIsLeast
<1>3. Min(bad) - 1 \notin bad /\ Min(bad) - 1 \in 0 .. N
  BY <1>2
<1>4. QED
  BY <1>2, <1>3

(* A function applied time and again: the walks along the links.            *)
Walks(g, n, S, first, f) ==
    g \in [0 .. n -> S] /\ g[0] = first /\ \A k \in 1 .. n : g[k] = f[g[k - 1]]

LEMMA WalkExists ==
  ASSUME NEW N \in Nat, NEW S, NEW first \in S, NEW f \in [S -> S]
  PROVE  \E g : Walks(g, N, S, first, f)
<1> DEFINE good == {n \in 0 .. N : \E g : Walks(g, n, S, first, f)}
<1>1. 0 \in good
  <2>1. Walks([k \in 0 .. 0 |-> first], 0, S, first, f)
    BY DEF Walks
  <2>2. QED
    BY <2>1
<1>2. \A n \in 1 .. N : n - 1 \in good => n \in good
  <2>1. SUFFICES ASSUME NEW n \in 1 .. N, NEW g, Walks(g, n - 1, S, first, f)
                 PROVE  \E h : Walks(h, n, S, first, f)
    OBVIOUS
  <2> DEFINE h == [k \in 0 .. n |-> IF k = n THEN f[g[n - 1]] ELSE g[k]]
  <2>2. h \in [0 .. n -> S]
    BY <2>1 DEF Walks
  <2>3. h[0] = first /\ \A k \in 1 .. n : h[k] = f[h[k - 1]]
    <3>1. h[0] = first
      BY <2>1 DEF Walks
    <3>2. \A k \in 1 .. n : k # n => h[k] = g[k] /\ h[k - 1] = g[k - 1] /\ k \in 1 .. n - 1
      OBVIOUS
    <3>3. h[n] = f[g[n - 1]] /\ h[n - 1] = g[n - 1]
      OBVIOUS
    <3>4. QED
      BY <2>1, <3>1, <3>2, <3>3 DEF Walks
  <2>4. Walks(h, n, S, first, f)
    BY <2>2, <2>3 DEF Walks
  <2>5. QED
    BY <2>4
<1>3. good = 0 .. N
  <2>1. good \in SUBSET (0 .. N)
    OBVIOUS
  <2> HIDE DEF good
  <2>2. QED
    BY <1>1, <1>2, <2>1, UpTo
<1>4. N \in good
  BY <1>3
<1>5. QED
  BY <1>4

(* The same with a function that looks at the number of the step as well.   *)
Counts(g, n, S, first, f) ==
    g \in [0 .. n -> S] /\ g[0] = first /\ \A k \in 1 .. n : g[k] = f[<<k - 1, g[k - 1]>>]

LEMMA CountExists ==
  ASSUME NEW N \in Nat, NEW S, NEW first \in S, NEW f \in [(0 .. N) \X S -> S]
  PROVE  \E g : Counts(g, N, S, first, f)
<1> DEFINE P == (0 .. N) \X S
           h == [p \in P |-> <<IF p[1] < N THEN p[1] + 1 ELSE N, f[p]>>]
<1>1. h \in [P -> P]
  <2>1. \A p \in P : f[p] \in S /\ p[1] \in 0 .. N
    OBVIOUS
  <2>2. \A i \in 0 .. N : (IF i < N THEN i + 1 ELSE N) \in 0 .. N
    OBVIOUS
  <2>3. QED
    BY <2>1, <2>2
<1>2. <<0, first>> \in P
  OBVIOUS
<1>3. \A i \in 0 .. N - 1, x \in S : h[<<i, x>>] = <<i + 1, f[<<i, x>>]>>
  <2>1. SUFFICES ASSUME NEW i \in 0 .. N - 1, NEW x \in S
                 PROVE  h[<<i, x>>] = <<i + 1, f[<<i, x>>]>>
    OBVIOUS
  <2>2. i \in 0 .. N /\ i < N /\ <<i, x>> \in P
    OBVIOUS
  <2>3. QED
    BY <2>2
<1> HIDE DEF h
<1>4. PICK w : Walks(w, N, P, <<0, first>>, h)
  BY <1>1, <1>2, WalkExists
<1>5. /\ w \in [0 .. N -> P] /\ w[0] = <<0, first>>
      /\ \A k \in 1 .. N : w[k] = h[w[k - 1]]
  BY <1>4 DEF Walks
<1>6. \A k \in 0 .. N : w[k] = <<w[k][1], w[k][2]>> /\ w[k][2] \in S
  <2>1. \A p \in P : p = <<p[1], p[2]>> /\ p[2] \in S
    OBVIOUS
  <2>2. QED
    BY <1>5, <2>1
<1> DEFINE good == {k \in 0 .. N : w[k][1] = k}
<1>7. good = 0 .. N
  <2>1. good \in SUBSET (0 .. N) /\ 0 \in good
    BY <1>5
  <2>2. ASSUME NEW k \in 1 .. N, k - 1 \in good PROVE k \in good
    <3>1. k - 1 \in 0 .. N - 1 /\ k - 1 \in 0 .. N /\ k \in 0 .. N /\ k - 1 + 1 = k
      OBVIOUS
    <3>2. w[k - 1] = <<k - 1, w[k - 1][2]>> /\ w[k - 1][2] \in S
      BY <1>6, <2>2, <3>1
    <3>3. w[k] = <<k, f[<<k - 1, w[k - 1][2]>>]>>
      BY <1>3, <1>5, <3>1, <3>2
    <3>4. QED
      BY <3>1, <3>3
  <2> HIDE DEF good
  <2>3. QED
    BY <2>1, <2>2, UpTo
<1> DEFINE g == [k \in 0 .. N |-> w[k][2]]
<1>8. g \in [0 .. N -> S] /\ g[0] = first
  BY <1>5, <1>6
<1>9. ASSUME NEW k \in 1 .. N PROVE g[k] = f[<<k - 1, g[k - 1]>>]
  <2>1. k - 1 \in 0 .. N - 1 /\ k - 1 \in 0 .. N /\ k \in 0 .. N
    OBVIOUS
  <2>2. w[k - 1] = <<k - 1, w[k - 1][2]>> /\ w[k - 1][2] \in S
    BY <1>6, <1>7, <2>1
  <2>3. w[k] = <<k - 1 + 1, f[<<k - 1, w[k - 1][2]>>]>>
    BY <1>3, <1>5, <2>1, <2>2
  <2>4. QED
    BY <2>1, <2>3
<1> HIDE DEF g
<1>10. Counts(g, N, S, first, f)
  BY <1>8, <1>9 DEF Counts
<1>11. QED
  BY <1>10

-----------------------------------------------------------------------------
(* Sequences. *)
LEMMA RemoveAtElements ==
  ASSUME NEW S, NEW q \in Seq(S), NEW k \in 1 .. Len(q)
  PROVE  /\ RemoveAt(q, k) \in Seq(S) /\ Len(RemoveAt(q, k)) = Len(q) - 1
         /\ \A i \in 1 .. Len(q) - 1 :
              RemoveAt(q, k)[i] = IF i < k THEN q[i] ELSE q[i + 1]
<1> DEFINE u == SubSeq(q, 1, k - 1)
           v == SubSeq(q, k + 1, Len(q))
<1>1. u \in Seq(S) /\ Len(u) = k - 1 /\ \A i \in 1 .. k - 1 : u[i] = q[i]
  BY SubSeqProperties
<1>2. v \in Seq(S) /\ Len(v) = Len(q) - k /\ \A i \in 1 .. Len(q) - k : v[i] = q[k + i]
  <2>1. CASE k = Len(q)
    BY <2>1
  <2>2. CASE k < Len(q)
    BY <2>2, SubSeqProperties
  <2>3. QED
    BY <2>1, <2>2
<1> HIDE DEF u, v
<1>3. u \o v \in Seq(S) /\ Len(u \o v) = Len(q) - 1
  BY <1>1, <1>2
<1>4. \A i \in 1 .. Len(q) - 1 : (u \o v)[i] = IF i < k THEN u[i] ELSE v[i - (k - 1)]
  BY <1>1, <1>2
<1>5. \A i \in 1 .. Len(q) - 1 : ~(i < k) => v[i - (k - 1)] = q[i + 1]
  BY <1>2
<1>6. RemoveAt(q, k) = u \o v
  BY DEF RemoveAt, u, v
<1>7. \A i \in 1 .. Len(q) - 1 : (u \o v)[i] = IF i < k THEN q[i] ELSE q[i + 1]
  <2> SUFFICES ASSUME NEW i \in 1 .. Len(q) - 1
               PROVE  (u \o v)[i] = IF i < k THEN q[i] ELSE q[i + 1]
    OBVIOUS
  <2>1. CASE i < k
    <3>1. i \in 1 .. k - 1
      BY <2>1
    <3>2. u[i] = q[i]
      BY <1>1, <3>1
    <3>3. (u \o v)[i] = u[i]
      BY <1>4, <2>1
    <3>4. QED
      BY <2>1, <3>2, <3>3
  <2>2. CASE ~(i < k)
    <3>1. v[i - (k - 1)] = q[i + 1]
      BY <1>5, <2>2
    <3>2. (u \o v)[i] = v[i - (k - 1)]
      BY <1>4, <2>2
    <3>3. QED
      BY <2>2, <3>1, <3>2
  <2>3. QED
    BY <2>1, <2>2
<1>8. QED
  BY <1>3, <1>6, <1>7

LEMMA RemoveAtSet ==
  ASSUME NEW S, NEW q \in Seq(S), NEW k \in 1 .. Len(q), IsInjective(q)
  PROVE  IsInjective(RemoveAt(q, k)) /\ ToSet(RemoveAt(q, k)) = ToSet(q) \ {q[k]}
<1> DEFINE r == RemoveAt(q, k)
           from(i) == IF i < k THEN i ELSE i + 1
<1>1. /\ r \in Seq(S) /\ Len(r) = Len(q) - 1
      /\ \A i \in 1 .. Len(q) - 1 : r[i] = IF i < k THEN q[i] ELSE q[i + 1]
  BY RemoveAtElements
<1>2. /\ DOMAIN q = 1 .. Len(q) /\ DOMAIN r = 1 .. Len(q) - 1 /\ Len(q) \in Nat
  BY <1>1
<1> HIDE DEF r
<1>3. \A i \in 1 .. Len(q) - 1 : from(i) \in 1 .. Len(q) /\ from(i) # k /\ r[i] = q[from(i)]
  BY <1>1, <1>2
<1>4. \A i \in 1 .. Len(q) : i # k => \E j \in 1 .. Len(q) - 1 : from(j) = i
  <2>1. SUFFICES ASSUME NEW i \in 1 .. Len(q), i # k PROVE \E j \in 1 .. Len(q) - 1 : from(j) = i
    OBVIOUS
  <2>2. CASE i < k
    BY <1>2, <2>2
  <2>3. CASE i > k
    <3>1. i - 1 \in 1 .. Len(q) - 1 /\ from(i - 1) = i
      BY <1>2, <2>3
    <3>2. QED
      BY <3>1
  <2>4. QED
    BY <1>2, <2>1, <2>2, <2>3
<1>5. \A i, j \in 1 .. Len(q) - 1 : from(i) = from(j) => i = j
  BY <1>2
<1> HIDE DEF from
<1>6. \A i, j \in 1 .. Len(q) : q[i] = q[j] => i = j
  BY <1>2 DEF IsInjective
<1>7. IsInjective(r)
  BY <1>2, <1>3, <1>5, <1>6 DEF IsInjective
<1>8. \A x : x \in ToSet(r) <=> x \in ToSet(q) /\ x # q[k]
  <2>1. \A x : x \in ToSet(q) <=> \E i \in 1 .. Len(q) : q[i] = x
    BY <1>2 DEF ToSet
  <2>2. \A x : x \in ToSet(r) <=> \E i \in 1 .. Len(q) - 1 : r[i] = x
    BY <1>2 DEF ToSet
  <2>3. ASSUME NEW i \in 1 .. Len(q) - 1 PROVE r[i] \in ToSet(q) /\ r[i] # q[k]
    BY <1>3, <1>6, <2>1
  <2>4. ASSUME NEW i \in 1 .. Len(q), q[i] # q[k] PROVE q[i] \in ToSet(r)
    <3>1. PICK j \in 1 .. Len(q) - 1 : from(j) = i
      BY <1>4, <2>4
    <3>2. QED
      BY <1>3, <2>2, <3>1
  <2>5. QED
    BY <2>1, <2>2, <2>3, <2>4
<1>9. QED
  BY <1>7, <1>8 DEF r

(* r is q with e inserted at place k. *)
Inserted(r, q, k, e, S) ==
    /\ r \in Seq(S) /\ Len(r) = Len(q) + 1
    /\ \A i \in 1 .. Len(q) + 1 : r[i] = IF i < k THEN q[i] ELSE IF i = k THEN e ELSE q[i - 1]

LEMMA InsertAtElements ==
  ASSUME NEW S, NEW q \in Seq(S), NEW e \in S, NEW k \in 1 .. Len(q) + 1
  PROVE  Inserted(InsertAt(q, k, e), q, k, e, S)
<1> DEFINE u == SubSeq(q, 1, k - 1)
           v == SubSeq(q, k, Len(q))
<1>1. u \in Seq(S) /\ Len(u) = k - 1 /\ \A i \in 1 .. k - 1 : u[i] = q[i]
  BY SubSeqProperties
<1>2. /\ v \in Seq(S) /\ Len(v) = Len(q) - k + 1
      /\ \A i \in 1 .. Len(q) - k + 1 : v[i] = q[k + i - 1]
  <2>1. CASE k = Len(q) + 1
    BY <2>1
  <2>2. CASE k <= Len(q)
    BY <2>2, SubSeqProperties
  <2>3. QED
    BY <2>1, <2>2
<1> HIDE DEF u, v
<1>3. u \o <<e>> \in Seq(S) /\ Len(u \o <<e>>) = k
  BY <1>1
<1>4. \A i \in 1 .. k : (u \o <<e>>)[i] = IF i < k THEN u[i] ELSE e
  BY <1>1
<1> DEFINE w == u \o <<e>>
<1>w. w \in Seq(S) /\ Len(w) = k
  BY <1>3
<1> HIDE DEF w
<1>5. w \o v \in Seq(S) /\ Len(w \o v) = Len(q) + 1
  <2>1. v \in Seq(S)
    BY <1>2
  <2>2. w \o v \in Seq(S) /\ Len(w \o v) = Len(w) + Len(v)
    BY <2>1, <1>w
  <2>3. Len(w) + Len(v) = Len(q) + 1 
    BY <1>2, <1>w
  <2>4. QED
    BY <2>2, <2>3
<1>6. \A i \in 1 .. Len(q) + 1 : (w \o v)[i] = IF i <= k THEN w[i] ELSE v[i - k]
  <2>1. /\ Len(w) + Len(v) = Len(q) + 1
        /\ \A i \in 1 .. Len(w) + Len(v) : (w \o v)[i] = IF i <= Len(w) THEN w[i] ELSE v[i - Len(w)]
    BY <1>2, <1>w, ConcatProperties
  <2>2. QED
    BY <2>1, <1>w
<1>7. \A i \in 1 .. Len(q) + 1 : i > k => v[i - k] = q[i - 1]
  BY <1>2
<1>8. InsertAt(q, k, e) = w \o v
  BY DEF InsertAt, u, v, w
<1>9. \A i \in 1 .. k : w[i] = IF i < k THEN q[i] ELSE e
  BY <1>1, <1>4 DEF w
<1>10. QED
  BY <1>5, <1>6, <1>7, <1>8, <1>9 DEF Inserted

LEMMA InsertAtSet ==
  ASSUME NEW S, NEW q \in Seq(S), NEW e \in S, NEW k \in 1 .. Len(q) + 1,
         IsInjective(q), e \notin ToSet(q)
  PROVE  IsInjective(InsertAt(q, k, e)) /\ ToSet(InsertAt(q, k, e)) = ToSet(q) \cup {e}
<1> DEFINE r == InsertAt(q, k, e)
           to(i) == IF i < k THEN i ELSE i + 1
<1>1. /\ r \in Seq(S) /\ Len(r) = Len(q) + 1
      /\ \A i \in 1 .. Len(q) + 1 : r[i] = IF i < k THEN q[i] ELSE IF i = k THEN e ELSE q[i - 1]
  <2>1. Inserted(r, q, k, e, S)
    BY InsertAtElements
  <2> HIDE DEF r
  <2>2. QED
    BY <2>1 DEF Inserted
<1>2. /\ DOMAIN q = 1 .. Len(q) /\ DOMAIN r = 1 .. Len(q) + 1 /\ Len(q) \in Nat
  BY <1>1
<1> HIDE DEF r
<1>3. \A i \in 1 .. Len(q) : to(i) \in 1 .. Len(q) + 1 /\ to(i) # k /\ r[to(i)] = q[i]
  BY <1>1, <1>2
<1>4. \A i \in 1 .. Len(q) + 1 : i # k => \E j \in 1 .. Len(q) : to(j) = i
  <2>1. SUFFICES ASSUME NEW i \in 1 .. Len(q) + 1, i # k PROVE \E j \in 1 .. Len(q) : to(j) = i
    OBVIOUS
  <2>2. CASE i < k
    BY <1>2, <2>2
  <2>3. CASE i > k
    <3>1. i - 1 \in 1 .. Len(q) /\ to(i - 1) = i
      BY <1>2, <2>3
    <3>2. QED
      BY <3>1
  <2>4. QED
    BY <1>2, <2>1, <2>2, <2>3
<1>5. r[k] = e /\ k \in 1 .. Len(q) + 1
  BY <1>1, <1>2
<1> HIDE DEF to
<1>6. \A i, j \in 1 .. Len(q) : q[i] = q[j] => i = j
  BY <1>2 DEF IsInjective
<1>7. \A i \in 1 .. Len(q) : q[i] # e
  BY <1>2 DEF ToSet
<1>8. \A i, j \in 1 .. Len(q) + 1 : r[i] = r[j] => i = j
  <2>1. SUFFICES ASSUME NEW i \in 1 .. Len(q) + 1, NEW j \in 1 .. Len(q) + 1, r[i] = r[j]
                 PROVE  i = j
    OBVIOUS
  <2>2. CASE i = k \/ j = k
    BY <1>3, <1>4, <1>5, <1>7, <2>1, <2>2
  <2>3. CASE i # k /\ j # k
    <3>1. PICK a \in 1 .. Len(q) : to(a) = i
      BY <1>4, <2>3
    <3>2. PICK b \in 1 .. Len(q) : to(b) = j
      BY <1>4, <2>3
    <3>3. QED
      BY <1>3, <1>6, <2>1, <3>1, <3>2
  <2>4. QED
    BY <2>2, <2>3
<1>9. IsInjective(r)
  BY <1>2, <1>8 DEF IsInjective
<1>10. \A x : x \in ToSet(r) <=> x \in ToSet(q) \/ x = e
  <2>1. \A x : x \in ToSet(q) <=> \E i \in 1 .. Len(q) : q[i] = x
    BY <1>2 DEF ToSet
  <2>2. \A x : x \in ToSet(r) <=> \E i \in 1 .. Len(q) + 1 : r[i] = x
    BY <1>2 DEF ToSet
  <2>3. ASSUME NEW i \in 1 .. Len(q) + 1, i # k PROVE r[i] \in ToSet(q)
    <3>1. PICK j \in 1 .. Len(q) : to(j) = i
      BY <1>4, <2>3
    <3>2. QED
      BY <1>3, <2>1, <3>1
  <2>4. ASSUME NEW i \in 1 .. Len(q) PROVE q[i] \in ToSet(r)
    BY <1>3, <2>2
  <2>5. e \in ToSet(r)
    BY <1>5, <2>2
  <2>6. QED
    BY <1>5, <2>1, <2>2, <2>3, <2>4, <2>5
<1>11. QED
  BY <1>9, <1>10 DEF r

(* An injective sequence over 1 .. N is as long as the number of elements   *)
(* it has.                                                                  *)
LEMMA InjectiveLength ==
  ASSUME NEW N \in Nat, NEW q \in Seq(1 .. N), IsInjective(q)
  PROVE  Len(q) <= N /\ (Len(q) = N <=> ToSet(q) = 1 .. N)
<1>1. q \in [1 .. Len(q) -> 1 .. N] /\ Len(q) \in Nat /\ DOMAIN q = 1 .. Len(q)
  OBVIOUS
<1>2. \A n \in Nat : IsFiniteSet(1 .. n) /\ Cardinality(1 .. n) = n
  <2>1. SUFFICES ASSUME NEW n \in Nat PROVE IsFiniteSet(1 .. n) /\ Cardinality(1 .. n) = n
    OBVIOUS
  <2>2. IsFiniteSet(1 .. n) /\ Cardinality(1 .. n) = IF 1 > n THEN 0 ELSE n - 1 + 1
    BY FS_Interval
  <2>3. QED
    BY <2>2
<1>3. q \in Injection(1 .. Len(q), 1 .. N)
  BY <1>1 DEF Injection, IsInjective
<1>4. /\ Cardinality(1 .. Len(q)) <= Cardinality(1 .. N)
      /\ Cardinality(1 .. Len(q)) = Cardinality(1 .. N) <=> q \in Surjection(1 .. Len(q), 1 .. N)
  BY <1>1, <1>2, <1>3, FS_Injection
<1>5. q \in Surjection(1 .. Len(q), 1 .. N) <=> ToSet(q) = 1 .. N
  BY <1>1 DEF Surjection, ToSet
<1>6. QED
  BY <1>1, <1>2, <1>4, <1>5

LEMMA RemoveFirstIs ==
  ASSUME NEW S, NEW q \in Seq(S), NEW c, c \in ToSet(q)
  PROVE  \E j \in 1 .. Len(q) : q[j] = c /\ RemoveFirst(q, c) = RemoveAt(q, j)
<1> DEFINE found == {i \in 1 .. Len(q) : q[i] = c}
<1>1. found # {} /\ found \in SUBSET Nat
  BY DEF ToSet
<1>2. Min(found) \in found
  BY <1>1, MinIsLeast
<1>3. RemoveFirst(q, c) = RemoveAt(q, Min(found))
  BY <1>1 DEF RemoveFirst, SelectInSeq
<1>4. QED
  BY <1>2, <1>3

LEMMA BoundedSeqIs ==
  ASSUME NEW S, NEW n \in Nat
  PROVE  \A q : q \in BoundedSeq(S, n) <=> q \in Seq(S) /\ Len(q) <= n
<1>1. \A q : q \in BoundedSeq(S, n) => q \in Seq(S) /\ Len(q) <= n
  BY DEF BoundedSeq, SeqOf
<1>2. ASSUME NEW q \in Seq(S), Len(q) <= n PROVE q \in BoundedSeq(S, n)
  <2>1. Len(q) \in 0 .. n /\ q \in [1 .. Len(q) -> S]
    BY <1>2
  <2>2. QED
    BY <2>1 DEF BoundedSeq, SeqOf
<1>3. QED
  BY <1>1, <1>2

LEMMA EmptyBounded ==
  ASSUME NEW S, NEW n \in Nat
  PROVE  <<>> \in BoundedSeq(S, n)
<1>1. <<>> \in Seq(S) /\ Len(<<>>) <= n
  OBVIOUS
<1>2. QED
  BY <1>1, BoundedSeqIs

-----------------------------------------------------------------------------
(* The stack of keys.  A state of it represents a sequence of slots, the    *)
(* most recent key first, when the links lead along the sequence, exactly   *)
(* its slots are occupied, and the array has them in the order of pitch.    *)
StackChain(s, order) ==
    /\ order \in Seq(1 .. kNoteStackSize) /\ IsInjective(order)
    /\ s.root = IF Len(order) = 0 THEN 0 ELSE order[1]
    /\ \A i \in 1 .. Len(order) :
         s.pool[order[i]].next = IF i = Len(order) THEN 0 ELSE order[i + 1]

Occupies(s, q) == \A i \in 1 .. kNoteStackSize : i \in ToSet(q) <=> s.pool[i].note # kFreeSlot

Ascends(s) ==
    \A i, j \in 1 .. Len(s.sorted) :
        i < j => s.pool[s.sorted[i]].note < s.pool[s.sorted[j]].note

StackRep(s, order) ==
    /\ s \in StackType /\ StackChain(s, order)
    /\ Occupies(s, order) /\ Occupies(s, s.sorted)
    /\ Len(s.sorted) = Len(order) /\ Ascends(s)

LEMMA StackTypeIs ==
  /\ Pool = 0 .. kNoteStackSize /\ Pool \ {0} = 1 .. kNoteStackSize
  /\ kNoteStackSize \in Nat /\ kNoteStackSize >= 1
  /\ \A s \in StackType :
       /\ s.pool \in [Pool -> [note : Keys \cup {kFreeSlot}, next : Pool]] /\ s.root \in Pool
       /\ s.sorted \in Seq(1 .. kNoteStackSize) /\ Len(s.sorted) <= kNoteStackSize
<1>1. /\ Pool = 0 .. kNoteStackSize /\ Pool \ {0} = 1 .. kNoteStackSize
      /\ kNoteStackSize \in Nat /\ kNoteStackSize >= 1
  BY StackAssumption DEF Pool
<1>2. ASSUME NEW s \in StackType PROVE s.sorted \in BoundedSeq(1 .. kNoteStackSize, kNoteStackSize)
  BY <1>1 DEF StackType
<1>3. \A s \in StackType :
        s.pool \in [Pool -> [note : Keys \cup {kFreeSlot}, next : Pool]] /\ s.root \in Pool
  BY DEF StackType
<1>4. QED
  BY <1>1, <1>2, <1>3, BoundedSeqIs

LEMMA LinkWalk ==
  ASSUME NEW s \in StackType
  PROVE  \E g : g = [k \in 0 .. kNoteStackSize |->
                       IF k = 0 THEN s.root ELSE s.pool[g[k - 1]].next]
<1> DEFINE f == [i \in Pool |-> s.pool[i].next]
<1>1. f \in [Pool -> Pool] /\ s.root \in Pool /\ kNoteStackSize \in Nat
  BY StackTypeIs
<1> HIDE DEF f
<1>2. PICK h : Walks(h, kNoteStackSize, Pool, s.root, f)
  BY <1>1, WalkExists
<1>3. PICK g \in [0 .. kNoteStackSize -> Pool] :
         g[0] = s.root /\ \A k \in 1 .. kNoteStackSize : g[k] = f[g[k - 1]]
  BY <1>2 DEF Walks
<1>4. \A k \in 1 .. kNoteStackSize : k - 1 \in 0 .. kNoteStackSize
  BY <1>1
<1>5. \A k \in 1 .. kNoteStackSize : g[k] = s.pool[g[k - 1]].next
  BY <1>3, <1>4 DEF f
<1>6. g = [k \in 0 .. kNoteStackSize |-> IF k = 0 THEN s.root ELSE s.pool[g[k - 1]].next]
  BY <1>1, <1>3, <1>5
<1>7. QED
  BY <1>6

(* The walk of PlayedSlots along the links finds the sequence. *)
LEMMA PlayedSlotsChain ==
  ASSUME NEW s \in StackType, NEW order, StackChain(s, order)
  PROVE  PlayedSlots(s) = order
<1> DEFINE K == kNoteStackSize
           kth[k \in 0 .. K] == IF k = 0 THEN s.root ELSE s.pool[kth[k - 1]].next
           ends == {k \in 0 .. K : kth[k] = 0}
           n == IF ends = {} THEN K ELSE Min(ends)
           L == Len(order)
<1>0. /\ Pool = 0 .. K /\ K \in Nat /\ K >= 1 /\ s.root \in Pool
      /\ s.pool \in [Pool -> [note : Keys \cup {kFreeSlot}, next : Pool]]
  BY StackTypeIs
<1>1. PlayedSlots(s) = [k \in 1 .. n |-> kth[k - 1]]
  BY DEF PlayedSlots
<1>2. kth = [k \in 0 .. K |-> IF k = 0 THEN s.root ELSE s.pool[kth[k - 1]].next]
  BY LinkWalk
<1> HIDE DEF kth
<1>3. kth[0] = s.root /\ \A k \in 1 .. K : kth[k] = s.pool[kth[k - 1]].next
  <2> HIDE DEF K
  <2>1. 0 \in 0 .. K
    BY <1>0
  <2>2. \A k \in 1 .. K : k \in 0 .. K /\ k # 0
    BY <1>0
  <2>3. \A k \in 0 .. K : kth[k] = IF k = 0 THEN s.root ELSE s.pool[kth[k - 1]].next
    BY <1>2
  <2>4. QED
    BY <2>1, <2>2, <2>3
<1>4. order \in Seq(1 .. K) /\ L \in Nat /\ L <= K
  BY <1>0, InjectiveLength DEF StackChain, K, L
<1>b. \A k \in 1 .. L : order[k] # 0
  <2>1. \A k \in 1 .. Len(order) : order[k] \in 1 .. kNoteStackSize
    BY <1>4, ElementOfSeq
  <2>2. \A x \in 1 .. kNoteStackSize : x # 0
    BY <1>0
  <2>3. QED
    BY <2>1, <2>2
<1> HIDE DEF L, K
<1>a. K \in Nat /\ L \in Nat /\ L <= K
  BY <1>0, <1>4
<1>5. \A k \in 0 .. L : kth[k] = IF k = L THEN 0 ELSE order[k + 1]
  <2> DEFINE good == {k \in 0 .. L : kth[k] = IF k = L THEN 0 ELSE order[k + 1]}
  <2>1. 0 \in good
    BY <1>3, <1>4 DEF StackChain, L
  <2>2. ASSUME NEW k \in 1 .. L, k - 1 \in good PROVE k \in good
    <3>1. kth[k - 1] = order[k] /\ k \in 1 .. K
      <4>0. k \in 1 .. L
        OBVIOUS
      <4> HIDE DEF good
      <4>1. k \in 1 .. K /\ k - 1 # L /\ k - 1 + 1 = k
        BY <1>a, <4>0
      <4>2. kth[k - 1] = IF k - 1 = L THEN 0 ELSE order[k - 1 + 1]
        BY <2>2 DEF good
      <4>3. QED
        BY <4>1, <4>2
    <3>2. s.pool[order[k]].next = IF k = L THEN 0 ELSE order[k + 1]
      BY DEF StackChain, L
    <3>3. QED
      BY <1>3, <3>1, <3>2
  <2>3. good \in SUBSET (0 .. L)
    OBVIOUS
  <2>4. good = 0 .. L
    <3> HIDE DEF good
    <3>1. QED
      BY <1>4, <2>1, <2>2, <2>3, UpTo
  <2>5. QED
    BY <2>4
<1>6. \A k \in 0 .. L - 1 : kth[k] = order[k + 1] /\ kth[k] # 0
  <2>1. \A k \in 0 .. L - 1 : k \in 0 .. L /\ k # L /\ k + 1 \in 1 .. L
    BY <1>a
  <2>2. \A k \in 1 .. L : order[k] # 0
    BY <1>b
  <2>3. QED
    BY <1>5, <2>1, <2>2
<1>7. n = L
  <2>1. L \in ends /\ ends \in SUBSET Nat
    <3>1. kth[L] = 0 /\ L \in 0 .. K
      <4>1. L \in 0 .. L /\ L \in 0 .. K
        BY <1>a
      <4>2. QED
        BY <1>5, <4>1
    <3>2. QED
      BY <3>1
  <2>2. Min(ends) \in ends /\ \A y \in ends : Min(ends) <= y
    BY <2>1, MinIsLeast
  <2>3. Min(ends) <= L /\ Min(ends) \in Nat /\ kth[Min(ends)] = 0
    BY <2>1, <2>2
  <2>4. Min(ends) \notin 0 .. L - 1
    BY <1>6, <2>3
  <2>5. QED
    BY <1>4, <2>1, <2>3, <2>4
<1> HIDE DEF n
<1>8. [k \in 1 .. n |-> kth[k - 1]] = order
  <2>1. \A k \in 1 .. L : kth[k - 1] = order[k]
    BY <1>4, <1>6
  <2>2. order = [k \in 1 .. L |-> order[k]]
    BY <1>4 DEF L
  <2>3. QED
    BY <1>7, <2>1, <2>2
<1>9. QED
  BY <1>1, <1>8

LEMMA KeysAreNat == \A k \in Keys : k \in Nat /\ k < kZombieSlot /\ k < kFreeSlot
<1>1. \A k \in Keys : k \in 0 .. 127
  BY StackAssumption
<1>2. QED
  BY <1>1 DEF kZombieSlot, kFreeSlot

LEMMA StackRepFacts ==
  ASSUME NEW s, NEW order, StackRep(s, order)
  PROVE  /\ PlayedSlots(s) = order
         /\ order \in Seq(1 .. kNoteStackSize) /\ Len(order) \in 0 .. kNoteStackSize
         /\ s.sorted \in Seq(1 .. kNoteStackSize) /\ Len(s.sorted) = Len(order)
         /\ \A i \in 1 .. Len(order) :
              order[i] \in 1 .. kNoteStackSize /\ s.pool[order[i]].note \in Keys
         /\ \A i \in 1 .. Len(order) :
              s.sorted[i] \in 1 .. kNoteStackSize /\ s.pool[s.sorted[i]].note \in Keys
         /\ \A x, y \in ToSet(order) : s.pool[x].note = s.pool[y].note => x = y
<1> DEFINE K == kNoteStackSize
<1>1. s \in StackType /\ StackChain(s, order) /\ Len(s.sorted) = Len(order)
  BY DEF StackRep
<1>2. PlayedSlots(s) = order
  BY <1>1, PlayedSlotsChain
<1>3. /\ s.pool \in [Pool -> [note : Keys \cup {kFreeSlot}, next : Pool]]
      /\ s.sorted \in Seq(1 .. K) /\ Len(s.sorted) <= K /\ Pool = 0 .. K /\ K \in Nat
  BY <1>1, StackTypeIs
<1>4. order \in Seq(1 .. K)
  BY <1>1 DEF StackChain
<1>5. \A q \in Seq(1 .. K) : Occupies(s, q) =>
        \A i \in 1 .. Len(q) : q[i] \in 1 .. K /\ s.pool[q[i]].note \in Keys
  <2>1. SUFFICES ASSUME NEW q \in Seq(1 .. K), Occupies(s, q), NEW i \in 1 .. Len(q)
                 PROVE  q[i] \in 1 .. K /\ s.pool[q[i]].note \in Keys
    OBVIOUS
  <2>2. q[i] \in 1 .. K
    BY ElementOfSeq
  <2>3. q[i] \in ToSet(q)
    BY DEF ToSet
  <2>4. s.pool[q[i]].note # kFreeSlot
    BY <2>1, <2>2, <2>3 DEF Occupies
  <2>5. s.pool[q[i]] \in [note : Keys \cup {kFreeSlot}, next : Pool]
    <3>1. q[i] \in Pool
      BY <1>3, <2>2
    <3>2. QED
      BY <1>3, <3>1
  <2>6. QED
    BY <2>2, <2>4, <2>5
<1>6. Occupies(s, order) /\ Occupies(s, s.sorted)
  BY DEF StackRep
<1>7. \A i \in 1 .. Len(order) : s.sorted[i] \in 1 .. K /\ s.pool[s.sorted[i]].note \in Keys
  BY <1>1, <1>3, <1>5, <1>6
<1>8. \A x, y \in ToSet(order) : s.pool[x].note = s.pool[y].note => x = y
  <2>1. SUFFICES ASSUME NEW x \in ToSet(order), NEW y \in ToSet(order),
                        s.pool[x].note = s.pool[y].note
                 PROVE  x = y
    OBVIOUS
  <2>2. x \in 1 .. K /\ y \in 1 .. K
    BY <1>4, <1>5, <1>6 DEF ToSet
  <2>3. x \in ToSet(s.sorted) /\ y \in ToSet(s.sorted)
    BY <1>6, <2>2 DEF Occupies
  <2>4. PICK i \in 1 .. Len(s.sorted) : s.sorted[i] = x
    BY <1>3, <2>3 DEF ToSet
  <2>5. PICK j \in 1 .. Len(s.sorted) : s.sorted[j] = y
    BY <1>3, <2>3 DEF ToSet
  <2>6. s.pool[x].note \in Nat
    <3>1. s.pool[x].note \in Keys
      BY <1>1, <1>7, <2>4
    <3>2. QED
      BY <3>1, KeysAreNat
  <2>7. ~(i < j) /\ ~(j < i)
    BY <2>1, <2>4, <2>5, <2>6 DEF StackRep, Ascends
  <2>8. i = j
    BY <2>7
  <2>9. QED
    BY <2>4, <2>5, <2>8
<1>9. Len(order) \in 0 .. K
  BY <1>1, <1>3, <1>4
<1>10. QED
  BY <1>1, <1>2, <1>3, <1>4, <1>5, <1>6, <1>7, <1>8, <1>9

(* Both views of a represented stack agree, and the chain ends where a full *)
(* stack looks for its oldest key.                                          *)
LEMMA StackRepWellFormed ==
  ASSUME NEW s, NEW order, StackRep(s, order)
  PROVE  StackWellFormed(s)
<1> DEFINE K == kNoteStackSize
           occupied == (Pool \ {0}) \ FreeSlots(s)
<1>1. /\ PlayedSlots(s) = order
      /\ order \in Seq(1 .. K) /\ Len(order) \in 0 .. K
      /\ s.sorted \in Seq(1 .. K) /\ Len(s.sorted) = Len(order)
      /\ \A i \in 1 .. Len(order) : order[i] \in 1 .. K
      /\ \A i \in 1 .. Len(order) : s.sorted[i] \in 1 .. K
  BY StackRepFacts
<1>2. \A q \in Seq(1 .. K) : Occupies(s, q) => ToSet(q) = occupied
  <2>1. SUFFICES ASSUME NEW q \in Seq(1 .. K), Occupies(s, q) PROVE ToSet(q) = occupied
    OBVIOUS
  <2>2. ToSet(q) \subseteq 1 .. K
    <3>1. \A i \in 1 .. Len(q) : q[i] \in 1 .. K
      BY ElementOfSeq
    <3>2. QED
      BY <3>1 DEF ToSet
  <2>3. occupied = {i \in 1 .. K : s.pool[i].note # kFreeSlot}
    BY StackTypeIs DEF FreeSlots
  <2>4. QED
    BY <2>1, <2>2, <2>3 DEF Occupies
<1>3. ToSet(order) = occupied /\ ToSet(s.sorted) = occupied
  BY <1>1, <1>2 DEF StackRep
<1>4. \A i \in 1 .. Size(s) - 1 : SortedNote(s, i - 1) < SortedNote(s, i)
  <2>1. \A i \in 1 .. Len(order) - 1 :
          i \in 1 .. Len(order) /\ i + 1 \in 1 .. Len(order) /\ i < i + 1 /\ i - 1 + 1 = i
    BY <1>1
  <2>2. QED
    BY <1>1, <2>1 DEF StackRep, Ascends, Size, SortedNote
<1>5. ASSUME occupied # {} PROVE {i \in occupied : s.pool[i].next = 0} = {Last(order)}
  <2>1. order \in Seq(1 .. K) /\ ToSet(order) # {}
    BY <1>1, <1>3, <1>5
  <2>2. Len(order) \in 1 .. Len(order)
    BY <2>1 DEF ToSet
  <2>3. \A i \in 1 .. Len(order) :
          s.pool[order[i]].next = IF i = Len(order) THEN 0 ELSE order[i + 1]
    BY DEF StackRep, StackChain
  <2>4. \A i \in 1 .. Len(order) : i # Len(order) => order[i + 1] \in 1 .. K
    BY <1>1, <2>2
  <2>5. \A i \in 1 .. Len(order) : s.pool[order[i]].next = 0 <=> i = Len(order)
    BY <2>3, <2>4
  <2>6. occupied = {order[i] : i \in 1 .. Len(order)}
    BY <1>1, <1>3 DEF ToSet
  <2> HIDE DEF occupied
  <2>7. QED
    BY <2>2, <2>5, <2>6 DEF Last
<1> HIDE DEF occupied
<1>6. QED
  BY <1>1, <1>3, <1>4, <1>5 DEF StackWellFormed, Size, occupied

LEMMA EmptyStackRep == StackRep(EmptyStack, <<>>)
<1> DEFINE e == EmptyStack
<1>1. /\ e.pool = [i \in Pool |-> [note |-> kFreeSlot, next |-> 0]] /\ e.root = 0
      /\ e.sorted = <<>> /\ e = [pool |-> e.pool, root |-> e.root, sorted |-> e.sorted]
  BY DEF EmptyStack
<1>2. e \in StackType
  <2>1. e.pool \in [Pool -> [note : Keys \cup {kFreeSlot}, next : Pool]] /\ e.root \in Pool
    BY <1>1, StackTypeIs
  <2>2. <<>> \in BoundedSeq(Pool \ {0}, kNoteStackSize)
    BY EmptyBounded, StackTypeIs
  <2> HIDE DEF e
  <2>3. QED
    BY <1>1, <2>1, <2>2 DEF StackType
<1>3. StackChain(e, <<>>)
  BY <1>1 DEF StackChain, IsInjective
<1>4. Occupies(e, <<>>)
  BY <1>1, StackTypeIs DEF Occupies, ToSet
<1> HIDE DEF e
<1>5. StackRep(e, <<>>)
  BY <1>1, <1>2, <1>3, <1>4 DEF StackRep, Ascends
<1>6. QED
  BY <1>5 DEF e

(* Clear leaves the link of the last slot alone, which is free and on no    *)
(* chain.                                                                   *)
LEMMA ClearRep ==
  ASSUME NEW s \in StackType
  PROVE  StackRep(Clear(s), <<>>)
<1> DEFINE e == Clear(s)
           link == s.pool[kNoteStackSize].next
<1>0. link \in Pool
  BY StackTypeIs
<1>1. /\ e.pool = [i \in Pool |-> [note |-> kFreeSlot, next |-> IF i = kNoteStackSize THEN link ELSE 0]]
      /\ e.root = 0 /\ e.sorted = <<>> /\ e = [pool |-> e.pool, root |-> e.root, sorted |-> e.sorted]
  <2> DEFINE p == [i \in Pool |-> [note |-> kFreeSlot, next |-> 0]]
  <2>1. e = [pool |-> [p EXCEPT ![kNoteStackSize].next = link], root |-> 0, sorted |-> <<>>]
    BY DEF Clear, EmptyStack
  <2>2. [p EXCEPT ![kNoteStackSize].next = link] =
          [i \in Pool |-> [note |-> kFreeSlot, next |-> IF i = kNoteStackSize THEN link ELSE 0]]
    <3>1. kNoteStackSize \in Pool
      BY StackTypeIs
    <3>2. QED
      BY <3>1
  <2> HIDE DEF e
  <2>3. QED
    BY <2>1, <2>2
<1> HIDE DEF e, link
<1>2. e \in StackType
  <2>1. e.pool \in [Pool -> [note : Keys \cup {kFreeSlot}, next : Pool]] /\ e.root \in Pool
    BY <1>0, <1>1, StackTypeIs
  <2>2. <<>> \in BoundedSeq(Pool \ {0}, kNoteStackSize)
    BY EmptyBounded, StackTypeIs
  <2>3. QED
    BY <1>1, <2>1, <2>2 DEF StackType
<1>3. StackChain(e, <<>>)
  BY <1>1 DEF StackChain, IsInjective
<1>4. Occupies(e, <<>>)
  BY <1>1, StackTypeIs DEF Occupies, ToSet
<1>5. StackRep(e, <<>>)
  BY <1>1, <1>2, <1>3, <1>4 DEF StackRep, Ascends
<1>6. QED
  BY <1>5 DEF e

LEMMA NoteOffAbsent ==
  ASSUME NEW s, NEW order, StackRep(s, order), NEW note,
         \A i \in 1 .. Len(order) : s.pool[order[i]].note # note
  PROVE  NoteOff(s, note) = s
<1>1. PlayedSlots(s) = order /\ order \in Seq(1 .. kNoteStackSize)
  BY StackRepFacts
<1>2. {k \in DOMAIN order : s.pool[order[k]].note = note} = {}
  BY <1>1
<1>3. QED
  BY <1>1, <1>2 DEF NoteOff

(* The fields after a key at place k of the order was found and removed.    *)
LEMMA NoteOffFields ==
  ASSUME NEW s, NEW order, StackRep(s, order), NEW k \in 1 .. Len(order)
  PROVE  LET t == NoteOff(s, s.pool[order[k]].note)
             c == order[k]
         IN  /\ t = [pool |-> t.pool, root |-> t.root, sorted |-> t.sorted]
             /\ t.pool \in [Pool -> [note : Keys \cup {kFreeSlot}, next : Pool]]
             /\ \A i \in Pool : t.pool[i].note = IF i = c THEN kFreeSlot ELSE s.pool[i].note
             /\ \A i \in Pool : t.pool[i].next =
                  IF i = c THEN 0
                  ELSE IF k # 1 /\ i = order[k - 1] THEN s.pool[c].next ELSE s.pool[i].next
             /\ t.root = IF k = 1 THEN s.pool[c].next ELSE s.root
             /\ t.sorted = RemoveFirst(s.sorted, c)
<1> DEFINE K == kNoteStackSize
           c == order[k]
           note == s.pool[c].note
           t == NoteOff(s, note)
           found == {j \in DOMAIN order : s.pool[order[j]].note = note}
<1>1. /\ PlayedSlots(s) = order
      /\ order \in Seq(1 .. K) /\ Len(order) \in Nat /\ DOMAIN order = 1 .. Len(order)
      /\ \A i \in 1 .. Len(order) : order[i] \in 1 .. K
      /\ \A x, y \in ToSet(order) : s.pool[x].note = s.pool[y].note => x = y
  BY StackRepFacts
<1>2. /\ s.pool \in [Pool -> [note : Keys \cup {kFreeSlot}, next : Pool]] /\ s.root \in Pool
      /\ Pool = 0 .. K /\ K \in Nat
  BY StackTypeIs DEF StackRep
<1>3. found = {k}
  <2>1. \A j \in 1 .. Len(order) : order[j] = order[k] => j = k
    BY <1>1 DEF StackRep, StackChain, IsInjective
  <2>2. \A j \in 1 .. Len(order) : order[j] \in ToSet(order)
    BY <1>1 DEF ToSet
  <2>3. \A j \in 1 .. Len(order) : s.pool[order[j]].note = note => order[j] = order[k]
    BY <1>1, <2>2
  <2>4. QED
    BY <1>1, <2>1, <2>3
<1>4. Min(found) = k
  <2>1. {k} \in SUBSET Nat /\ {k} # {}
    BY <1>1
  <2>2. Min({k}) \in {k}
    BY <2>1, MinIsLeast
  <2>3. QED
    BY <1>3, <2>2
<1> DEFINE unlinked == IF k = 1 THEN s.pool ELSE [s.pool EXCEPT ![order[k - 1]].next = s.pool[c].next]
<1>5. t = [pool |-> [unlinked EXCEPT ![c] = [note |-> kFreeSlot, next |-> 0]],
           root |-> IF k = 1 THEN s.pool[c].next ELSE s.root,
           sorted |-> RemoveFirst(s.sorted, c)]
  BY <1>1, <1>3, <1>4 DEF NoteOff
<1>6. c \in Pool /\ s.pool[c].next \in Pool /\ (k # 1 => order[k - 1] \in Pool)
  <2>1. k # 1 => k - 1 \in 1 .. Len(order)
    BY <1>1
  <2>2. c \in Pool /\ (k # 1 => order[k - 1] \in Pool)
    <3>1. \A i \in 1 .. Len(order) : order[i] \in Pool
      BY <1>1, <1>2
    <3>2. QED
      BY <2>1, <3>1
  <2>3. QED
    BY <1>2, <2>2
<1> HIDE DEF c, t
<1>7. /\ unlinked \in [Pool -> [note : Keys \cup {kFreeSlot}, next : Pool]]
      /\ \A i \in Pool : unlinked[i].note = s.pool[i].note
      /\ \A i \in Pool : unlinked[i].next =
            IF k # 1 /\ i = order[k - 1] THEN s.pool[c].next ELSE s.pool[i].next
  BY <1>2, <1>6
<1> HIDE DEF unlinked
<1>8. /\ t.pool = [unlinked EXCEPT ![c] = [note |-> kFreeSlot, next |-> 0]]
      /\ t.root = IF k = 1 THEN s.pool[c].next ELSE s.root
      /\ t.sorted = RemoveFirst(s.sorted, c)
      /\ t = [pool |-> t.pool, root |-> t.root, sorted |-> t.sorted]
  BY <1>5
<1>9. 0 \in Pool
  BY <1>2
<1>10. t.pool \in [Pool -> [note : Keys \cup {kFreeSlot}, next : Pool]]
  BY <1>6, <1>7, <1>8, <1>9
<1>11. \A i \in Pool : /\ t.pool[i].note = IF i = c THEN kFreeSlot ELSE s.pool[i].note
                       /\ t.pool[i].next = IF i = c THEN 0 ELSE unlinked[i].next
  BY <1>6, <1>7, <1>8
<1>12. QED
  BY <1>7, <1>8, <1>10, <1>11 DEF t, c

(* The release of the key at place k takes its slot out of both views. *)
LEMMA NoteOffRep ==
  ASSUME NEW s, NEW order, StackRep(s, order), NEW k \in 1 .. Len(order)
  PROVE  StackRep(NoteOff(s, s.pool[order[k]].note), RemoveAt(order, k))
<1> DEFINE K == kNoteStackSize
           c == order[k]
           t == NoteOff(s, s.pool[c].note)
           r == RemoveAt(order, k)
<1>1. /\ t = [pool |-> t.pool, root |-> t.root, sorted |-> t.sorted]
      /\ t.pool \in [Pool -> [note : Keys \cup {kFreeSlot}, next : Pool]]
      /\ \A i \in Pool : t.pool[i].note = IF i = c THEN kFreeSlot ELSE s.pool[i].note
      /\ \A i \in Pool : t.pool[i].next =
           IF i = c THEN 0
           ELSE IF k # 1 /\ i = order[k - 1] THEN s.pool[c].next ELSE s.pool[i].next
      /\ t.root = IF k = 1 THEN s.pool[c].next ELSE s.root
      /\ t.sorted = RemoveFirst(s.sorted, c)
  BY NoteOffFields
<1>2. /\ order \in Seq(1 .. K) /\ Len(order) \in 0 .. K
      /\ s.sorted \in Seq(1 .. K) /\ Len(s.sorted) = Len(order)
      /\ \A i \in 1 .. Len(order) : order[i] \in 1 .. K
      /\ \A i \in 1 .. Len(order) : s.sorted[i] \in 1 .. K /\ s.pool[s.sorted[i]].note \in Keys
  BY StackRepFacts
<1>3. Pool = 0 .. K /\ K \in Nat /\ s.root \in Pool
  BY StackTypeIs DEF StackRep
<1>4. IsInjective(order)
  BY DEF StackRep, StackChain
<1>5. /\ r \in Seq(1 .. K) /\ Len(r) = Len(order) - 1
      /\ \A i \in 1 .. Len(order) - 1 : r[i] = IF i < k THEN order[i] ELSE order[i + 1]
      /\ IsInjective(r) /\ ToSet(r) = ToSet(order) \ {c}
  BY <1>2, <1>4, RemoveAtElements, RemoveAtSet
<1> HIDE DEF t, r
<1>6. c \in 1 .. K /\ c \in ToSet(order)
  BY <1>2 DEF ToSet
<1>7. IsInjective(s.sorted)
  <2>1. \A i, j \in 1 .. Len(s.sorted) : i < j => s.sorted[i] # s.sorted[j]
    <3>1. \A i, j \in 1 .. Len(s.sorted) :
            i < j => s.pool[s.sorted[i]].note < s.pool[s.sorted[j]].note
      BY DEF StackRep, Ascends
    <3>2. \A i \in 1 .. Len(s.sorted) : s.pool[s.sorted[i]].note \in Nat
      BY <1>2, KeysAreNat
    <3>3. QED
      BY <3>1, <3>2
  <2>2. DOMAIN s.sorted = 1 .. Len(s.sorted)
    BY <1>2
  <2>3. QED
    BY <2>1, <2>2 DEF IsInjective
<1>8. c \in ToSet(s.sorted)
  BY <1>6 DEF StackRep, Occupies
<1>9. PICK j \in 1 .. Len(s.sorted) : s.sorted[j] = c /\ t.sorted = RemoveAt(s.sorted, j)
  BY <1>1, <1>2, <1>8, RemoveFirstIs
<1>10. /\ t.sorted \in Seq(1 .. K) /\ Len(t.sorted) = Len(order) - 1
       /\ \A i \in 1 .. Len(order) - 1 :
            t.sorted[i] = IF i < j THEN s.sorted[i] ELSE s.sorted[i + 1]
       /\ ToSet(t.sorted) = ToSet(s.sorted) \ {c}
  <2>1. /\ RemoveAt(s.sorted, j) \in Seq(1 .. K)
        /\ Len(RemoveAt(s.sorted, j)) = Len(s.sorted) - 1
        /\ \A i \in 1 .. Len(s.sorted) - 1 :
             RemoveAt(s.sorted, j)[i] = IF i < j THEN s.sorted[i] ELSE s.sorted[i + 1]
    BY <1>2, RemoveAtElements
  <2>2. ToSet(RemoveAt(s.sorted, j)) = ToSet(s.sorted) \ {s.sorted[j]}
    BY <1>2, <1>7, RemoveAtSet
  <2>3. QED
    BY <1>2, <1>9, <2>1, <2>2
<1>11. \A i \in 1 .. K : i \in Pool
  BY <1>3
<1>12. Occupies(t, r) /\ Occupies(t, t.sorted)
  <2>1. Occupies(s, order) /\ Occupies(s, s.sorted)
    BY DEF StackRep
  <2>2. QED
    BY <2>1, <1>1, <1>5, <1>10, <1>11 DEF Occupies
<1>13. Ascends(t)
  <2>1. SUFFICES ASSUME NEW a \in 1 .. Len(t.sorted), NEW b \in 1 .. Len(t.sorted), a < b
                 PROVE  t.pool[t.sorted[a]].note < t.pool[t.sorted[b]].note
    BY DEF Ascends
  <2> DEFINE from(i) == IF i < j THEN i ELSE i + 1
  <2>2. \A i \in 1 .. Len(t.sorted) : from(i) \in 1 .. Len(s.sorted) /\ t.sorted[i] = s.sorted[from(i)]
    <3> SUFFICES ASSUME NEW i \in 1 .. Len(t.sorted)
                 PROVE  from(i) \in 1 .. Len(s.sorted) /\ t.sorted[i] = s.sorted[from(i)]
      OBVIOUS
    <3>1. Len(order) \in Nat /\ i \in 1 .. Len(order) - 1
      BY <1>2, <1>10
    <3>2. t.sorted[i] = IF i < j THEN s.sorted[i] ELSE s.sorted[i + 1]
      BY <1>10, <3>1
    <3>3. i \in 1 .. Len(order) /\ i + 1 \in 1 .. Len(order)
      BY <3>1
    <3>4. QED
      BY <1>2, <3>2, <3>3
  <2>3. from(a) < from(b)
    BY <1>2, <1>10, <2>1
  <2>4. \A i \in 1 .. Len(t.sorted) : t.sorted[i] # c /\ t.sorted[i] \in Pool
    <3>1. \A i \in 1 .. Len(t.sorted) : t.sorted[i] \in ToSet(t.sorted)
      BY <1>10 DEF ToSet
    <3>2. \A i \in 1 .. Len(t.sorted) : t.sorted[i] \in 1 .. K
      BY <1>10, ElementOfSeq
    <3>3. QED
      BY <3>1, <3>2, <1>10, <1>11
  <2> HIDE DEF from
  <2>5. s.pool[s.sorted[from(a)]].note < s.pool[s.sorted[from(b)]].note
    BY <2>2, <2>3 DEF StackRep, Ascends
  <2>6. QED
    BY <1>1, <2>2, <2>4, <2>5
<1>14. t \in StackType
  <2>1. Len(order) - 1 <= K
    BY <1>2, <1>3
  <2>2. t.sorted \in BoundedSeq(1 .. K, K)
    BY <1>3, <1>10, <2>1, BoundedSeqIs
  <2>3. s.pool[c].next \in Pool
    <3>1. s.pool \in [Pool -> [note : Keys \cup {kFreeSlot}, next : Pool]]
      BY StackTypeIs DEF StackRep
    <3>2. QED
      BY <3>1, <1>6, <1>11
  <2>4. t.root \in Pool
    BY <1>1, <1>3, <2>3
  <2>5. Pool \ {0} = 1 .. K
    BY <1>3
  <2>6. QED
    BY <1>1, <2>2, <2>4, <2>5 DEF StackType
<1>15. StackChain(t, r)
  <2>1. /\ s.root = IF Len(order) = 0 THEN 0 ELSE order[1]
        /\ \A i \in 1 .. Len(order) :
             s.pool[order[i]].next = IF i = Len(order) THEN 0 ELSE order[i + 1]
    BY DEF StackRep, StackChain
  <2>a. /\ Len(order) \in Nat /\ k \in Nat /\ 1 <= k /\ k <= Len(order)
        /\ Len(r) = Len(order) - 1
    BY <1>2, <1>5
  <2>b. /\ \A i \in 1 .. Len(r) : i < k => r[i] = order[i]
        /\ \A i \in 1 .. Len(r) : i >= k => r[i] = order[i + 1]
    BY <1>5, <2>a
  <2>2. t.root = IF Len(r) = 0 THEN 0 ELSE r[1]
    <3>1. CASE k = 1
      <4>1. t.root = IF k = Len(order) THEN 0 ELSE order[k + 1]
        BY <1>1, <2>1, <3>1
      <4>2. Len(r) # 0 => r[1] = order[1 + 1]
        BY <2>a, <2>b, <3>1
      <4>3. QED
        BY <2>a, <3>1, <4>1, <4>2
    <3>2. CASE k # 1
      <4>1. t.root = order[1]
        BY <1>1, <2>1, <2>a, <3>2
      <4>2. Len(r) # 0 /\ r[1] = order[1]
        BY <2>a, <2>b, <3>2
      <4>3. QED
        BY <4>1, <4>2
    <3>3. QED
      BY <3>1, <3>2
  <2>3. ASSUME NEW i \in 1 .. Len(r)
        PROVE  t.pool[r[i]].next = IF i = Len(r) THEN 0 ELSE r[i + 1]
    <3>1. \A x, y \in 1 .. Len(order) : order[x] = order[y] => x = y
      BY <1>2, <1>4 DEF IsInjective
    <3>2. r[i] \in Pool /\ r[i] # c
      <4>1. r[i] \in ToSet(r) /\ r[i] \in 1 .. K
        <5>1. r \in Seq(1 .. K) /\ DOMAIN r = 1 .. Len(r)
          BY <1>5
        <5>2. QED
          BY <5>1, ElementOfSeq DEF ToSet
      <4>2. QED
        BY <1>5, <1>11, <4>1
    <3>3. CASE i >= k
      <4>1. i + 1 \in 1 .. Len(order) /\ i \in 1 .. Len(order) - 1 /\ r[i] = order[i + 1]
        BY <2>a, <2>b, <3>3
      <4>2. k # 1 => r[i] # order[k - 1]
        BY <1>2, <3>1, <3>3, <4>1
      <4>3. t.pool[r[i]].next = s.pool[order[i + 1]].next
        BY <1>1, <3>2, <4>1, <4>2
      <4>4. t.pool[r[i]].next = IF i + 1 = Len(order) THEN 0 ELSE order[i + 1 + 1]
        BY <2>1, <4>1, <4>3
      <4>5. i # Len(r) => r[i + 1] = order[i + 1 + 1]
        BY <2>a, <2>b, <3>3
      <4>6. i = Len(r) <=> i + 1 = Len(order)
        BY <2>a
      <4>7. QED
        BY <4>4, <4>5, <4>6
    <3>4. CASE i < k - 1
      <4>1. i \in 1 .. Len(order) /\ i + 1 \in 1 .. Len(r) /\ r[i] = order[i] /\ r[i + 1] = order[i + 1]
        BY <2>a, <2>b, <3>4
      <4>2. k # 1 => r[i] # order[k - 1]
        BY <1>2, <3>1, <3>4, <4>1
      <4>3. t.pool[r[i]].next = s.pool[order[i]].next
        BY <1>1, <3>2, <4>1, <4>2
      <4>4. i # Len(order) /\ i # Len(r)
        BY <2>a, <3>4
      <4>5. QED
        BY <2>1, <4>1, <4>3, <4>4
    <3>5. CASE i = k - 1
      <4>1. k # 1 /\ r[i] = order[k - 1] /\ (k = Len(order) <=> i = Len(r))
        BY <2>a, <2>b, <3>5
      <4>2. t.pool[r[i]].next = s.pool[c].next
        BY <1>1, <3>2, <4>1
      <4>3. s.pool[c].next = IF k = Len(order) THEN 0 ELSE order[k + 1]
        BY <2>1
      <4>4. i # Len(r) => r[i + 1] = order[k + 1]
        BY <2>a, <2>b, <3>5
      <4>5. QED
        BY <4>1, <4>2, <4>3, <4>4
    <3>6. QED
      BY <2>a, <3>3, <3>4, <3>5
  <2>4. QED
    BY <1>5, <2>2, <2>3 DEF StackChain
<1>16. StackRep(t, r)
  BY <1>5, <1>10, <1>12, <1>13, <1>14, <1>15 DEF StackRep
<1>17. QED
  BY <1>16 DEF t, r

(* A full stack finds its oldest key as the only slot with no next. *)
LEMMA MakeRoomIs ==
  ASSUME NEW s, NEW order, StackRep(s, order)
  PROVE  MakeRoom(s) = IF Len(order) = kNoteStackSize
                       THEN NoteOff(s, s.pool[order[kNoteStackSize]].note) ELSE s
<1> DEFINE K == kNoteStackSize
           tails == {i \in Pool \ {0} : s.pool[i].next = 0}
<1>1. /\ order \in Seq(1 .. K) /\ Len(order) \in 0 .. K /\ Len(s.sorted) = Len(order)
      /\ \A i \in 1 .. Len(order) : order[i] \in 1 .. K
  BY StackRepFacts
<1>2. K \in Nat /\ K >= 1 /\ Pool \ {0} = 1 .. K
  BY StackTypeIs
<1>3. CASE Len(order) # K
  BY <1>1, <1>3 DEF MakeRoom, Size
<1>4. CASE Len(order) = K
  <2>1. ToSet(order) = 1 .. K
    BY <1>1, <1>2, <1>4, InjectiveLength DEF StackRep, StackChain
  <2>2. \A i \in 1 .. K : s.pool[order[i]].next = IF i = K THEN 0 ELSE order[i + 1]
    BY <1>4 DEF StackRep, StackChain
  <2>3. \A i \in 1 .. K : i # K => order[i + 1] # 0
    <3>1. \A i \in 1 .. K : i # K => i + 1 \in 1 .. Len(order)
      BY <1>2, <1>4
    <3>2. QED
      BY <1>1, <1>2, <3>1
  <2>4. \A x \in 1 .. K : \E i \in 1 .. K : order[i] = x
    <3>1. DOMAIN order = 1 .. K
      BY <1>1, <1>4
    <3>2. QED
      BY <2>1, <3>1 DEF ToSet
  <2>5. \A x \in 1 .. K : s.pool[x].next = 0 <=> x = order[K]
    <3>1. K \in 1 .. K
      BY <1>2
    <3>2. s.pool[order[K]].next = 0
      BY <2>2, <3>1
    <3>3. \A i \in 1 .. K : s.pool[order[i]].next = 0 => i = K
      BY <2>2, <2>3
    <3>4. QED
      BY <2>4, <3>2, <3>3
  <2>6. order[K] \in 1 .. K
    BY <1>1, <1>2, <1>4
  <2>7. tails = {order[K]}
    BY <1>2, <2>5, <2>6
  <2>8. Min(tails) = order[K]
    <3>1. {order[K]} \in SUBSET Nat /\ {order[K]} # {}
      BY <1>2, <2>6
    <3>2. Min({order[K]}) \in {order[K]}
      BY <3>1, MinIsLeast
    <3>3. QED
      BY <2>7, <3>2
  <2>9. QED
    BY <1>1, <1>4, <2>7, <2>8 DEF MakeRoom, Size
<1>5. QED
  BY <1>3, <1>4

(* A stack that is not full has a free slot. *)
LEMMA RoomHasSlot ==
  ASSUME NEW s, NEW order, StackRep(s, order), Len(order) < kNoteStackSize
  PROVE  /\ FreeSlots(s) # {} /\ Max(FreeSlots(s)) \in FreeSlots(s)
         /\ FreeSlots(s) = {i \in 1 .. kNoteStackSize : s.pool[i].note = kFreeSlot}
<1> DEFINE K == kNoteStackSize
<1>1. order \in Seq(1 .. K) /\ Len(order) \in 0 .. K
  BY StackRepFacts
<1>2. K \in Nat /\ Pool \ {0} = 1 .. K
  BY StackTypeIs
<1>3. IsInjective(order)
  BY DEF StackRep, StackChain
<1>4. ToSet(order) # 1 .. K
  BY <1>1, <1>2, <1>3, InjectiveLength
<1>5. ToSet(order) \subseteq 1 .. K
  <2>1. \A i \in 1 .. Len(order) : order[i] \in 1 .. K
    BY <1>1, ElementOfSeq
  <2>2. QED
    BY <1>1, <2>1 DEF ToSet
<1>6. PICK x \in 1 .. K : x \notin ToSet(order)
  BY <1>4, <1>5
<1>7. FreeSlots(s) = {i \in 1 .. K : s.pool[i].note = kFreeSlot}
  BY <1>2 DEF FreeSlots
<1>8. x \in FreeSlots(s)
  BY <1>6, <1>7 DEF StackRep, Occupies
<1>9. FreeSlots(s) \in SUBSET (0 .. K)
  BY <1>2, <1>7
<1>10. QED
  BY <1>2, <1>7, <1>8, <1>9, MaxIsIn

(* The new key takes a free slot, at the front of one view and in its place *)
(* in the other.                                                            *)
LEMMA NoteOnRep ==
  ASSUME NEW s, NEW note \in Keys, NEW kept, StackRep(MakeRoom(NoteOff(s, note)), kept),
         Len(kept) < kNoteStackSize,
         \A i \in 1 .. Len(kept) : MakeRoom(NoteOff(s, note)).pool[kept[i]].note # note
  PROVE  LET room == MakeRoom(NoteOff(s, note))
             t == NoteOn(s, note)
             slot == Max(FreeSlots(room))
         IN  /\ StackRep(t, InsertAt(kept, 1, slot))
             /\ slot \in 1 .. kNoteStackSize /\ slot \notin ToSet(kept)
             /\ \A i \in Pool : t.pool[i].note = IF i = slot THEN note ELSE room.pool[i].note
<1> DEFINE K == kNoteStackSize
           room == MakeRoom(NoteOff(s, note))
           t == NoteOn(s, note)
           slot == Max(FreeSlots(room))
           higher == {j \in DOMAIN room.sorted : room.pool[room.sorted[j]].note > note}
           position == IF higher = {} THEN Size(room) + 1 ELSE Min(higher)
           r == InsertAt(kept, 1, slot)
<1>1. FreeSlots(room) # {}
  BY RoomHasSlot
<1>2. t = [pool |-> [room.pool EXCEPT ![slot] = [note |-> note, next |-> room.root]],
           root |-> slot, sorted |-> InsertAt(room.sorted, position, slot)]
  BY <1>1 DEF NoteOn
<1> HIDE DEF t
<1>r. StackRep(room, kept) /\ \A i \in 1 .. Len(kept) : room.pool[kept[i]].note # note
  OBVIOUS
<1>3. slot \in FreeSlots(room) /\ FreeSlots(room) = {i \in 1 .. K : room.pool[i].note = kFreeSlot}
  BY RoomHasSlot
<1>4. /\ t.pool = [room.pool EXCEPT ![slot] = [note |-> note, next |-> room.root]]
      /\ t.root = slot /\ t.sorted = InsertAt(room.sorted, position, slot)
      /\ t = [pool |-> t.pool, root |-> t.root, sorted |-> t.sorted]
  BY <1>2
<1> HIDE DEF room, slot, position
<1>5. slot \in 1 .. K /\ room.pool[slot].note = kFreeSlot
  BY <1>3
<1>6. /\ kept \in Seq(1 .. K) /\ Len(kept) \in 0 .. K
      /\ room.sorted \in Seq(1 .. K) /\ Len(room.sorted) = Len(kept)
      /\ \A i \in 1 .. Len(kept) : kept[i] \in 1 .. K
      /\ \A i \in 1 .. Len(kept) :
           room.sorted[i] \in 1 .. K /\ room.pool[room.sorted[i]].note \in Keys
  BY <1>r, StackRepFacts
<1>7. /\ Pool = 0 .. K /\ K \in Nat /\ room.root \in Pool
      /\ room.pool \in [Pool -> [note : Keys \cup {kFreeSlot}, next : Pool]]
  BY <1>r, StackTypeIs DEF StackRep
<1>8. slot \in Pool
  BY <1>5, <1>7
<1>9. /\ t.pool \in [Pool -> [note : Keys \cup {kFreeSlot}, next : Pool]]
      /\ \A i \in Pool : /\ t.pool[i].note = IF i = slot THEN note ELSE room.pool[i].note
                         /\ t.pool[i].next = IF i = slot THEN room.root ELSE room.pool[i].next
  <2>1. [note |-> note, next |-> room.root] \in [note : Keys \cup {kFreeSlot}, next : Pool]
    BY <1>7
  <2>2. t.pool \in [Pool -> [note : Keys \cup {kFreeSlot}, next : Pool]]
    BY <1>4, <1>7, <1>8, <2>1
  <2>3. \A i \in Pool : t.pool[i] = IF i = slot THEN [note |-> note, next |-> room.root] ELSE room.pool[i]
    BY <1>4, <1>7, <1>8
  <2>4. QED
    BY <2>2, <2>3
<1>10. slot \notin ToSet(kept) /\ slot \notin ToSet(room.sorted)
  BY <1>r, <1>5 DEF StackRep, Occupies
<1>11. IsInjective(kept)
  BY <1>r DEF StackRep, StackChain
<1>12. /\ r \in Seq(1 .. K) /\ Len(r) = Len(kept) + 1
       /\ \A i \in 1 .. Len(kept) + 1 : r[i] = IF i = 1 THEN slot ELSE kept[i - 1]
       /\ IsInjective(r) /\ ToSet(r) = ToSet(kept) \cup {slot}
  <2>1. 1 \in 1 .. Len(kept) + 1
    BY <1>6
  <2>2. /\ r \in Seq(1 .. K) /\ Len(r) = Len(kept) + 1
        /\ \A i \in 1 .. Len(kept) + 1 :
             r[i] = IF i < 1 THEN kept[i] ELSE IF i = 1 THEN slot ELSE kept[i - 1]
    <3>1. slot \in 1 .. K /\ kept \in Seq(1 .. K)
      BY <1>5, <1>6
    <3>2. Inserted(r, kept, 1, slot, 1 .. K)
      BY <2>1, <3>1, InsertAtElements
    <3> HIDE DEF r
    <3>3. QED
      BY <3>2 DEF Inserted
  <2>3. IsInjective(r) /\ ToSet(r) = ToSet(kept) \cup {slot}
    BY <1>5, <1>6, <1>10, <1>11, <2>1, InsertAtSet
  <2>4. QED
    BY <2>2, <2>3
<1> HIDE DEF r
<1>13. /\ position \in 1 .. Len(room.sorted) + 1
       /\ \A j \in 1 .. Len(room.sorted) :
            /\ j < position => room.pool[room.sorted[j]].note < note
            /\ j >= position => note < room.pool[room.sorted[j]].note
  <2>1. DOMAIN room.sorted = 1 .. Len(room.sorted) /\ Len(room.sorted) \in Nat
    BY <1>6
  <2>2. higher \in SUBSET Nat /\ higher \subseteq 1 .. Len(room.sorted)
    BY <2>1
  <2>3. \A j \in 1 .. Len(room.sorted) :
          room.pool[room.sorted[j]].note \in Nat /\ room.pool[room.sorted[j]].note # note
    <3>1. SUFFICES ASSUME NEW j \in 1 .. Len(room.sorted)
                   PROVE  room.pool[room.sorted[j]].note \in Nat /\ room.pool[room.sorted[j]].note # note
      OBVIOUS
    <3>2. room.pool[room.sorted[j]].note \in Keys /\ room.sorted[j] \in 1 .. K
      BY <1>6
    <3>3. room.sorted[j] \in ToSet(room.sorted)
      BY <2>1 DEF ToSet
    <3>4. room.sorted[j] \in ToSet(kept)
      BY <1>r, <3>2, <3>3 DEF StackRep, Occupies
    <3>5. PICK i \in 1 .. Len(kept) : kept[i] = room.sorted[j]
      BY <1>6, <3>4 DEF ToSet
    <3>6. QED
      BY <1>r, <3>2, <3>5, KeysAreNat
  <2>4. note \in Nat
    BY KeysAreNat
  <2>5. \A i, j \in 1 .. Len(room.sorted) :
          i < j => room.pool[room.sorted[i]].note < room.pool[room.sorted[j]].note
    BY <1>r DEF StackRep, Ascends
  <2>6. CASE higher = {}
    <3>1. position = Len(room.sorted) + 1
      BY <2>6 DEF position, Size
    <3>2. \A j \in 1 .. Len(room.sorted) : ~(room.pool[room.sorted[j]].note > note)
      BY <2>1, <2>6
    <3>3. QED
      BY <2>1, <2>3, <2>4, <3>1, <3>2
  <2>7. CASE higher # {}
    <3>1. position = Min(higher)
      BY <2>7 DEF position
    <3>2. position \in higher /\ \A j \in higher : position <= j
      BY <2>2, <2>7, <3>1, MinIsLeast
    <3>3. position \in 1 .. Len(room.sorted) /\ room.pool[room.sorted[position]].note > note
      BY <2>1, <3>2
    <3>4. \A j \in 1 .. Len(room.sorted) : j < position => j \notin higher
      BY <3>2, <3>3
    <3>5. \A j \in 1 .. Len(room.sorted) : j < position => ~(room.pool[room.sorted[j]].note > note)
      BY <2>1, <3>4
    <3>6. \A j \in 1 .. Len(room.sorted) : j < position => room.pool[room.sorted[j]].note < note
      BY <2>3, <2>4, <3>5
    <3>7. ASSUME NEW j \in 1 .. Len(room.sorted), j >= position
          PROVE  note < room.pool[room.sorted[j]].note
      <4>1. CASE j = position
        BY <2>3, <2>4, <3>3, <4>1
      <4>2. CASE position < j
        BY <2>3, <2>4, <2>5, <3>3, <4>2
      <4>3. QED
        BY <3>3, <3>7, <4>1, <4>2
    <3>8. QED
      BY <2>1, <3>3, <3>6, <3>7
  <2>8. QED
    BY <2>6, <2>7
<1>14. IsInjective(room.sorted)
  <2>1. \A i, j \in 1 .. Len(room.sorted) : i < j => room.sorted[i] # room.sorted[j]
    <3>1. \A i, j \in 1 .. Len(room.sorted) :
            i < j => room.pool[room.sorted[i]].note < room.pool[room.sorted[j]].note
      BY <1>r DEF StackRep, Ascends
    <3>2. \A i \in 1 .. Len(room.sorted) : room.pool[room.sorted[i]].note \in Nat
      BY <1>6, KeysAreNat
    <3>3. QED
      BY <3>1, <3>2
  <2>2. DOMAIN room.sorted = 1 .. Len(room.sorted)
    BY <1>6
  <2>3. QED
    BY <2>1, <2>2 DEF IsInjective
<1>15. /\ t.sorted \in Seq(1 .. K) /\ Len(t.sorted) = Len(kept) + 1
       /\ \A i \in 1 .. Len(kept) + 1 :
            t.sorted[i] = IF i < position THEN room.sorted[i]
                          ELSE IF i = position THEN slot ELSE room.sorted[i - 1]
       /\ ToSet(t.sorted) = ToSet(room.sorted) \cup {slot}
  <2>1. LET q == InsertAt(room.sorted, position, slot)
        IN  /\ q \in Seq(1 .. K) /\ Len(q) = Len(room.sorted) + 1
            /\ \A i \in 1 .. Len(room.sorted) + 1 :
                 q[i] = IF i < position THEN room.sorted[i]
                        ELSE IF i = position THEN slot ELSE room.sorted[i - 1]
    <3>1. slot \in 1 .. K /\ room.sorted \in Seq(1 .. K) /\ position \in 1 .. Len(room.sorted) + 1
      BY <1>5, <1>6, <1>13
    <3>2. Inserted(InsertAt(room.sorted, position, slot), room.sorted, position, slot, 1 .. K)
      BY <3>1, InsertAtElements
    <3>3. QED
      BY <3>2 DEF Inserted
  <2>2. ToSet(InsertAt(room.sorted, position, slot)) = ToSet(room.sorted) \cup {slot}
    BY <1>5, <1>6, <1>10, <1>13, <1>14, InsertAtSet
  <2>3. QED
    BY <1>4, <1>6, <2>1, <2>2
<1>16. \A i \in 1 .. K : i \in Pool
  BY <1>7
<1>17. Occupies(t, r) /\ Occupies(t, t.sorted)
  <2>1. Occupies(room, kept) /\ Occupies(room, room.sorted)
    BY <1>r DEF StackRep
  <2>2. note # kFreeSlot
    BY KeysAreNat
  <2>3. QED
    BY <2>1, <2>2, <1>9, <1>12, <1>15, <1>16 DEF Occupies
<1>18. Ascends(t)
  <2>1. SUFFICES ASSUME NEW a \in 1 .. Len(t.sorted), NEW b \in 1 .. Len(t.sorted), a < b
                 PROVE  t.pool[t.sorted[a]].note < t.pool[t.sorted[b]].note
    BY DEF Ascends
  <2> DEFINE n == Len(room.sorted)
             N(i) == room.pool[room.sorted[i]].note
  <2>2. n \in Nat /\ Len(t.sorted) = n + 1 /\ position \in 1 .. n + 1
    BY <1>6, <1>13, <1>15
  <2>3. \A i \in 1 .. n : N(i) \in Nat /\ room.sorted[i] # slot /\ room.sorted[i] \in Pool
    <3>1. \A i \in 1 .. n : room.sorted[i] \in ToSet(room.sorted)
      BY <1>6 DEF ToSet
    <3>2. QED
      BY <3>1, <1>6, <1>10, <1>16, KeysAreNat
  <2>4. \A i, j \in 1 .. n : i < j => N(i) < N(j)
    BY <1>r DEF StackRep, Ascends
  <2>5. \A j \in 1 .. n : (j < position => N(j) < note) /\ (j >= position => note < N(j))
    BY <1>13
  <2>6. \A i \in 1 .. n + 1 :
          t.pool[t.sorted[i]].note = IF i < position THEN N(i) ELSE IF i = position THEN note ELSE N(i - 1)
    <3>1. SUFFICES ASSUME NEW i \in 1 .. n + 1
                   PROVE  t.pool[t.sorted[i]].note =
                            IF i < position THEN N(i) ELSE IF i = position THEN note ELSE N(i - 1)
      OBVIOUS
    <3>2. CASE i < position
      <4>1. i \in 1 .. n /\ t.sorted[i] = room.sorted[i]
        BY <1>15, <1>6, <2>2, <3>2
      <4>2. QED
        BY <1>9, <2>3, <3>2, <4>1
    <3>3. CASE i = position
      <4>1. t.sorted[i] = slot
        BY <1>15, <1>6, <2>2, <3>3
      <4>2. QED
        BY <1>8, <1>9, <3>3, <4>1, <2>2
    <3>4. CASE i > position
      <4>1. i - 1 \in 1 .. n /\ t.sorted[i] = room.sorted[i - 1] /\ ~(i < position) /\ i # position
        BY <1>15, <1>6, <2>2, <3>4
      <4>2. QED
        BY <1>9, <2>3, <4>1
    <3>5. QED
      BY <2>2, <3>2, <3>3, <3>4
  <2>7. a \in 1 .. n + 1 /\ b \in 1 .. n + 1 /\ note \in Nat
    BY <2>2, KeysAreNat
  <2> HIDE DEF N, n
  <2>8. CASE b < position
    BY <2>1, <2>2, <2>4, <2>6, <2>7, <2>8
  <2>9. CASE b = position
    BY <2>1, <2>2, <2>5, <2>6, <2>7, <2>9
  <2>10. CASE b > position /\ a < position
    <3>1. b - 1 \in 1 .. n /\ a \in 1 .. n /\ b - 1 >= position
      BY <2>2, <2>7, <2>10
    <3>2. N(a) < note /\ note < N(b - 1)
      BY <2>5, <2>10, <3>1
    <3>3. N(a) \in Nat /\ N(b - 1) \in Nat
      BY <2>3, <3>1 DEF N, n
    <3>4. t.pool[t.sorted[a]].note = N(a) /\ t.pool[t.sorted[b]].note = N(b - 1)
      BY <2>2, <2>6, <2>7, <2>10
    <3>5. QED
      BY <2>7, <3>2, <3>3, <3>4
  <2>11. CASE b > position /\ a = position
    <3>1. b - 1 \in 1 .. n /\ b - 1 >= position
      BY <2>2, <2>7, <2>11
    <3>2. QED
      BY <2>2, <2>5, <2>6, <2>7, <2>11, <3>1
  <2>12. CASE b > position /\ a > position
    <3>1. b - 1 \in 1 .. n /\ a - 1 \in 1 .. n /\ a - 1 < b - 1
      BY <2>1, <2>2, <2>7, <2>12
    <3>2. QED
      BY <2>2, <2>4, <2>6, <2>7, <2>12, <3>1
  <2>13. QED
    BY <2>2, <2>7, <2>8, <2>9, <2>10, <2>11, <2>12
<1>19. t \in StackType
  <2>1. Len(kept) + 1 <= K
    BY <1>6, <1>7
  <2>2. t.sorted \in BoundedSeq(1 .. K, K)
    BY <1>7, <1>15, <2>1, BoundedSeqIs
  <2>3. Pool \ {0} = 1 .. K
    BY StackTypeIs
  <2>4. QED
    BY <1>4, <1>8, <1>9, <2>2, <2>3 DEF StackType
<1>20. StackChain(t, r)
  <2>1. /\ room.root = IF Len(kept) = 0 THEN 0 ELSE kept[1]
        /\ \A i \in 1 .. Len(kept) :
             room.pool[kept[i]].next = IF i = Len(kept) THEN 0 ELSE kept[i + 1]
    BY <1>r DEF StackRep, StackChain
  <2>2. Len(kept) \in Nat
    BY <1>6
  <2>3. t.root = IF Len(r) = 0 THEN 0 ELSE r[1]
    BY <1>4, <1>12, <2>2
  <2>4. ASSUME NEW i \in 1 .. Len(r)
        PROVE  t.pool[r[i]].next = IF i = Len(r) THEN 0 ELSE r[i + 1]
    <3>1. CASE i = 1
      <4>1. t.pool[r[i]].next = room.root
        BY <1>8, <1>9, <1>12, <3>1
      <4>2. Len(kept) # 0 => r[i + 1] = kept[1]
        BY <1>12, <2>2, <3>1
      <4>3. QED
        BY <1>12, <2>1, <2>2, <3>1, <4>1, <4>2
    <3>2. CASE i # 1
      <4>1. i - 1 \in 1 .. Len(kept) /\ r[i] = kept[i - 1]
        BY <1>12, <2>2, <3>2
      <4>2. r[i] # slot /\ r[i] \in Pool
        <5>1. kept[i - 1] \in ToSet(kept)
          BY <1>6, <4>1 DEF ToSet
        <5>2. QED
          BY <1>6, <1>10, <1>16, <4>1, <5>1
      <4>3. t.pool[r[i]].next = IF i - 1 = Len(kept) THEN 0 ELSE kept[i - 1 + 1]
        BY <1>9, <2>1, <4>1, <4>2
      <4>4. i # Len(r) => r[i + 1] = kept[i - 1 + 1]
        BY <1>12, <2>2, <3>2
      <4>5. i = Len(r) <=> i - 1 = Len(kept)
        BY <1>12, <2>2
      <4>6. QED
        BY <4>3, <4>4, <4>5
    <3>3. QED
      BY <3>1, <3>2
  <2>5. QED
    BY <1>12, <2>3, <2>4 DEF StackChain
<1>21. StackRep(t, r)
  BY <1>12, <1>15, <1>17, <1>18, <1>19, <1>20 DEF StackRep
<1>22. QED
  BY <1>5, <1>9, <1>10, <1>21 DEF t, r, room, slot

-----------------------------------------------------------------------------
(* The queue of events, likewise: a state of it represents a sequence of    *)
(* slots in the order in which they are due.                                *)
QueueChain(q, order) ==
    /\ order \in Seq(EventSlot) /\ IsInjective(order)
    /\ q.root = IF Len(order) = 0 THEN 0 ELSE order[1]
    /\ \A i \in 1 .. Len(order) :
         q.entries[order[i]].next = IF i = Len(order) THEN 0 ELSE order[i + 1]

OnTime(q, order) ==
    \A i, j \in 1 .. Len(order) : i < j => q.entries[order[i]].when <= q.entries[order[j]].when

Holds(q, order) == \A i \in EventSlot : i \in ToSet(order) <=> q.entries[i].note # kFreeEvent

QueueRep(q, order, N, last) ==
    /\ q \in QueueType(N, 0 .. last) /\ QueueChain(q, order)
    /\ Holds(q, order) /\ OnTime(q, order) /\ q.size = Len(order)

LEMMA EventSlots ==
  /\ EventSlot = 1 .. kEventSchedulerSize - 1 /\ kEventSchedulerSize - 1 \in Nat
  /\ kEventSchedulerSize \in Nat /\ 0 \notin EventSlot
  /\ EventSlot \subseteq Nat
  BY SchedulerAssumption DEF EventSlot

LEMMA QueueTypeIs ==
  ASSUME NEW N, NEW W, NEW q \in QueueType(N, W)
  PROVE  /\ q.entries \in [EventSlot -> [note : N \cup {kFreeEvent, kZombieSlot}, when : W,
                                         next : EventSlot \cup {0}]]
         /\ q.root \in EventSlot \cup {0} /\ q.size \in 0 .. kEventSchedulerSize - 1
         /\ q = [entries |-> q.entries, root |-> q.root, size |-> q.size]
  BY DEF QueueType

LEMMA EventWalk ==
  ASSUME NEW N, NEW W, NEW q \in QueueType(N, W)
  PROVE  \E g : g = [k \in 0 .. kEventSchedulerSize |->
                       IF k = 0 THEN q.root
                       ELSE IF g[k - 1] = 0 THEN 0 ELSE q.entries[g[k - 1]].next]
<1> DEFINE S == EventSlot \cup {0}
           f == [i \in S |-> IF i = 0 THEN 0 ELSE q.entries[i].next]
<1>1. f \in [S -> S] /\ q.root \in S /\ kEventSchedulerSize \in Nat
  <2>1. \A i \in EventSlot : q.entries[i].next \in S
    BY QueueTypeIs
  <2>2. q.root \in S /\ kEventSchedulerSize \in Nat
    BY QueueTypeIs, EventSlots
  <2>3. QED
    BY <2>1, <2>2
<1> HIDE DEF f, S
<1>2. PICK h : Walks(h, kEventSchedulerSize, S, q.root, f)
  BY <1>1, WalkExists
<1>3. PICK g \in [0 .. kEventSchedulerSize -> S] :
         g[0] = q.root /\ \A k \in 1 .. kEventSchedulerSize : g[k] = f[g[k - 1]]
  BY <1>2 DEF Walks
<1>4. \A k \in 1 .. kEventSchedulerSize : k - 1 \in 0 .. kEventSchedulerSize
  BY <1>1
<1>5. \A k \in 1 .. kEventSchedulerSize :
        g[k] = IF g[k - 1] = 0 THEN 0 ELSE q.entries[g[k - 1]].next
  BY <1>3, <1>4 DEF f
<1>6. g = [k \in 0 .. kEventSchedulerSize |->
             IF k = 0 THEN q.root ELSE IF g[k - 1] = 0 THEN 0 ELSE q.entries[g[k - 1]].next]
  BY <1>1, <1>3, <1>5
<1>7. QED
  BY <1>6

LEMMA OrderChain ==
  ASSUME NEW N, NEW W, NEW q \in QueueType(N, W), NEW order, QueueChain(q, order)
  PROVE  Order(q) = order
<1> DEFINE K == kEventSchedulerSize
           kth[k \in 0 .. K] ==
             IF k = 0 THEN q.root ELSE IF kth[k - 1] = 0 THEN 0 ELSE q.entries[kth[k - 1]].next
           ends == {k \in 0 .. K : kth[k] = 0 \/ k = K}
           n == Min(ends)
           L == Len(order)
<1>0. K \in Nat /\ EventSlot = 1 .. K - 1 /\ K - 1 \in Nat /\ q.root \in EventSlot \cup {0}
  BY EventSlots, QueueTypeIs
<1>1. Order(q) = [k \in 1 .. n |-> kth[k - 1]]
  BY DEF Order
<1>2. kth = [k \in 0 .. K |->
              IF k = 0 THEN q.root ELSE IF kth[k - 1] = 0 THEN 0 ELSE q.entries[kth[k - 1]].next]
  <2>1. \E g : g = [k \in 0 .. kEventSchedulerSize |->
                       IF k = 0 THEN q.root
                       ELSE IF g[k - 1] = 0 THEN 0 ELSE q.entries[g[k - 1]].next]
    BY EventWalk
  <2>2. QED
    BY <2>1
<1> HIDE DEF kth
<1>3. /\ kth[0] = q.root
      /\ \A k \in 1 .. K : kth[k] = IF kth[k - 1] = 0 THEN 0 ELSE q.entries[kth[k - 1]].next
  BY <1>0, <1>2
<1>4. order \in Seq(1 .. K - 1) /\ L \in Nat /\ L <= K - 1
  BY <1>0, InjectiveLength DEF QueueChain
<1>b. \A k \in 1 .. L : order[k] # 0
  <2>1. \A k \in 1 .. Len(order) : order[k] \in 1 .. K - 1
    BY <1>4, ElementOfSeq
  <2>2. \A x \in 1 .. K - 1 : x # 0
    BY <1>0
  <2>3. QED
    BY <2>1, <2>2
<1> HIDE DEF L, K
<1>a. K \in Nat /\ L \in Nat /\ L < K
  BY <1>0, <1>4
<1>5. \A k \in 0 .. L : kth[k] = IF k = L THEN 0 ELSE order[k + 1]
  <2> DEFINE good == {k \in 0 .. L : kth[k] = IF k = L THEN 0 ELSE order[k + 1]}
  <2>1. 0 \in good
    BY <1>3, <1>a DEF QueueChain, L
  <2>2. ASSUME NEW k \in 1 .. L, k - 1 \in good PROVE k \in good
    <3>1. kth[k - 1] = order[k] /\ k \in 1 .. K
      <4>0. k \in 1 .. L
        OBVIOUS
      <4> HIDE DEF good
      <4>1. k \in 1 .. K /\ k - 1 # L /\ k - 1 + 1 = k
        BY <1>a, <4>0
      <4>2. kth[k - 1] = IF k - 1 = L THEN 0 ELSE order[k - 1 + 1]
        BY <2>2 DEF good
      <4>3. QED
        BY <4>1, <4>2
    <3>2. q.entries[order[k]].next = IF k = L THEN 0 ELSE order[k + 1]
      BY DEF QueueChain, L
    <3>3. QED
      BY <1>3, <1>b, <3>1, <3>2
  <2>3. good \in SUBSET (0 .. L)
    OBVIOUS
  <2>4. good = 0 .. L
    <3> HIDE DEF good
    <3>1. QED
      BY <1>a, <2>1, <2>2, <2>3, UpTo
  <2>5. QED
    BY <2>4
<1>6. \A k \in 0 .. L - 1 : kth[k] = order[k + 1] /\ kth[k] # 0
  <2>1. \A k \in 0 .. L - 1 : k \in 0 .. L /\ k # L /\ k + 1 \in 1 .. L
    BY <1>a
  <2>2. QED
    BY <1>5, <2>1, <1>b
<1>7. n = L
  <2>1. L \in ends /\ ends \in SUBSET Nat
    <3>1. kth[L] = 0 /\ L \in 0 .. K
      BY <1>a, <1>5
    <3>2. QED
      BY <3>1
  <2>2. n \in ends /\ \A y \in ends : n <= y
    BY <2>1, MinIsLeast
  <2> HIDE DEF n
  <2>3. n <= L /\ n \in Nat /\ (kth[n] = 0 \/ n = K)
    BY <2>1, <2>2
  <2>4. n \notin 0 .. L - 1
    BY <1>a, <1>6, <2>3
  <2>5. QED
    BY <1>a, <2>3, <2>4
<1> HIDE DEF n
<1>8. [k \in 1 .. n |-> kth[k - 1]] = order
  <2>1. \A k \in 1 .. L : kth[k - 1] = order[k]
    BY <1>a, <1>6
  <2>2. order = [k \in 1 .. L |-> order[k]]
    BY <1>4 DEF L
  <2>3. QED
    BY <1>7, <2>1, <2>2
<1>9. QED
  BY <1>1, <1>8

LEMMA QueueRepFacts ==
  ASSUME NEW N, NEW last \in Nat, NEW q, NEW order, QueueRep(q, order, N, last)
  PROVE  /\ Order(q) = order
         /\ order \in Seq(EventSlot) /\ Len(order) \in Nat /\ DOMAIN order = 1 .. Len(order)
         /\ \A i \in 1 .. Len(order) : order[i] \in EventSlot /\ order[i] \in ToSet(order)
         /\ ToSet(order) = EventSlot \ FreeEvents(q)
         /\ ToSet(order) \subseteq EventSlot
         /\ \A i \in EventSlot : q.entries[i].when \in 0 .. last
<1>1. q \in QueueType(N, 0 .. last) /\ QueueChain(q, order)
  BY DEF QueueRep
<1>2. Order(q) = order
  BY <1>1, OrderChain
<1>3. order \in Seq(EventSlot) /\ Len(order) \in Nat /\ DOMAIN order = 1 .. Len(order)
  BY <1>1 DEF QueueChain
<1>4. \A i \in 1 .. Len(order) : order[i] \in EventSlot /\ order[i] \in ToSet(order)
  BY <1>3, ElementOfSeq DEF ToSet
<1>5. ToSet(order) \subseteq EventSlot
  BY <1>3, <1>4 DEF ToSet
<1>6. ToSet(order) = EventSlot \ FreeEvents(q)
  BY <1>5 DEF QueueRep, Holds, FreeEvents
<1>7. \A i \in EventSlot : q.entries[i].when \in 0 .. last
  BY <1>1, QueueTypeIs
<1>8. QED
  BY <1>2, <1>3, <1>4, <1>5, <1>6, <1>7

LEMMA QueueRepWellFormed ==
  ASSUME NEW N, NEW last \in Nat, NEW q, NEW order, QueueRep(q, order, N, last)
  PROVE  QueueWellFormed(q)
<1>1. /\ Order(q) = order /\ Len(order) \in Nat
      /\ ToSet(order) = EventSlot \ FreeEvents(q)
  BY QueueRepFacts
<1>2. \A i \in 1 .. Len(order) - 1 :
        i \in 1 .. Len(order) /\ i + 1 \in 1 .. Len(order) /\ i < i + 1
  BY <1>1
<1>3. \A i \in 1 .. Len(order) - 1 : q.entries[order[i]].when <= q.entries[order[i + 1]].when
  BY <1>2 DEF QueueRep, OnTime
<1>4. q.size = Len(order) /\ IsInjective(order)
  BY DEF QueueRep, QueueChain
<1>5. QED
  BY <1>1, <1>3, <1>4 DEF QueueWellFormed

LEMMA EmptyQueueRep ==
  ASSUME NEW N, NEW last \in Nat
  PROVE  QueueRep(EmptyQueue, <<>>, N, last)
<1> DEFINE q == EmptyQueue
<1>1. /\ q.entries = [i \in EventSlot |-> FreeEntry] /\ q.root = 0 /\ q.size = 0
      /\ q = [entries |-> q.entries, root |-> q.root, size |-> q.size]
  BY DEF EmptyQueue
<1>2. 0 \in 0 .. kEventSchedulerSize - 1
  BY EventSlots
<1> HIDE DEF q
<1>3. q \in QueueType(N, 0 .. last)
  BY <1>1, <1>2 DEF QueueType, FreeEntry
<1>4. QueueChain(q, <<>>) /\ Holds(q, <<>>) /\ OnTime(q, <<>>)
  BY <1>1 DEF QueueChain, Holds, OnTime, FreeEntry, IsInjective, ToSet
<1>5. QueueRep(q, <<>>, N, last)
  BY <1>1, <1>3, <1>4 DEF QueueRep
<1>6. QED
  BY <1>5 DEF q

(* Remove renames entries and moves none. *)
Renames(q, t, order, note, N, last) ==
    /\ QueueRep(t, order, N, last)
    /\ \A i \in EventSlot :
         t.entries[i].note = IF i \in Matching(q, note) THEN kZombieSlot ELSE q.entries[i].note
    /\ Matching(q, note) = {i \in ToSet(order) : q.entries[i].note = note}

LEMMA RemovedRep ==
  ASSUME NEW N, NEW last \in Nat, NEW q, NEW order, QueueRep(q, order, N, last), NEW note
  PROVE  Renames(q, Removed(q, note), order, note, N, last)
<1> DEFINE t == Removed(q, note)
           m == Matching(q, note)
<1>1. /\ q.entries \in [EventSlot -> [note : N \cup {kFreeEvent, kZombieSlot}, when : 0 .. last,
                                      next : EventSlot \cup {0}]]
      /\ q.root \in EventSlot \cup {0} /\ q.size \in 0 .. kEventSchedulerSize - 1
      /\ q = [entries |-> q.entries, root |-> q.root, size |-> q.size]
  BY QueueTypeIs DEF QueueRep
<1>2. /\ t.entries = [i \in EventSlot |->
                        IF i \in m THEN [q.entries[i] EXCEPT !.note = kZombieSlot] ELSE q.entries[i]]
      /\ t.root = q.root /\ t.size = q.size
      /\ t = [entries |-> t.entries, root |-> t.root, size |-> t.size]
  <2>1. t = [q EXCEPT !.entries = [i \in EventSlot |->
               IF i \in m THEN [q.entries[i] EXCEPT !.note = kZombieSlot] ELSE q.entries[i]]]
    BY DEF Removed
  <2> HIDE DEF t, m
  <2>2. QED
    BY <1>1, <2>1
<1>3. Order(q) = order /\ ToSet(order) \subseteq EventSlot /\ ToSet(order) = EventSlot \ FreeEvents(q)
  BY QueueRepFacts
<1>4. m = {i \in ToSet(order) : q.entries[i].note = note}
  BY <1>3 DEF Matching
<1> HIDE DEF t, m
<1>5. /\ t.entries \in [EventSlot -> [note : N \cup {kFreeEvent, kZombieSlot}, when : 0 .. last,
                                      next : EventSlot \cup {0}]]
      /\ \A i \in EventSlot : /\ t.entries[i].note = IF i \in m THEN kZombieSlot ELSE q.entries[i].note
                              /\ t.entries[i].when = q.entries[i].when
                              /\ t.entries[i].next = q.entries[i].next
  BY <1>1, <1>2
<1>6. t \in QueueType(N, 0 .. last)
  BY <1>1, <1>2, <1>5 DEF QueueType
<1>7. \A i \in 1 .. Len(order) : order[i] \in EventSlot
  BY QueueRepFacts
<1>8. QueueChain(t, order)
  BY <1>2, <1>5, <1>7 DEF QueueRep, QueueChain
<1>9. Holds(t, order)
  BY <1>3, <1>4, <1>5 DEF Holds, FreeEvents, kZombieSlot, kFreeEvent
<1>10. OnTime(t, order)
  BY <1>5, <1>7 DEF QueueRep, OnTime
<1>11. QueueRep(t, order, N, last)
  BY <1>2, <1>6, <1>8, <1>9, <1>10 DEF QueueRep
<1>12. QED
  BY <1>4, <1>5, <1>11 DEF t, m, Renames

(* Schedule stores the event in a free slot, behind what is due before it. *)
Adds(q, t, order, slot, note, N, last) ==
    /\ \E k \in 1 .. Len(order) + 1 : QueueRep(t, InsertAt(order, k, slot), N, last)
    /\ slot \in FreeEvents(q)
    /\ \A i \in EventSlot : t.entries[i].note = IF i = slot THEN note ELSE q.entries[i].note

LEMMA ScheduledRep ==
  ASSUME NEW N, NEW last \in Nat, NEW q, NEW order, QueueRep(q, order, N, last),
         NEW note \in N, note # kFreeEvent, NEW when \in 0 .. last, FreeEvents(q) # {}
  PROVE  Adds(q, Scheduled(q, note, when), order, Min(FreeEvents(q)), note, N, last)
<1> DEFINE K == kEventSchedulerSize
           slot == Min(FreeEvents(q))
           later == {j \in DOMAIN order : q.entries[order[j]].when > when} \cup {Len(order) + 1}
           k == Min(later)
           next == IF k > Len(order) THEN 0 ELSE order[k]
           stored == [q.entries EXCEPT ![slot] = [note |-> note, when |-> when, next |-> next]]
           linked == IF k = 1 THEN stored ELSE [stored EXCEPT ![order[k - 1]].next = slot]
           t == Scheduled(q, note, when)
           r == InsertAt(order, k, slot)
<1>1. /\ q.entries \in [EventSlot -> [note : N \cup {kFreeEvent, kZombieSlot}, when : 0 .. last,
                                      next : EventSlot \cup {0}]]
      /\ q.root \in EventSlot \cup {0} /\ q.size \in 0 .. kEventSchedulerSize - 1
  BY QueueTypeIs DEF QueueRep
<1>2. /\ Order(q) = order
      /\ order \in Seq(EventSlot) /\ Len(order) \in Nat /\ DOMAIN order = 1 .. Len(order)
      /\ \A i \in 1 .. Len(order) : order[i] \in EventSlot /\ order[i] \in ToSet(order)
      /\ ToSet(order) = EventSlot \ FreeEvents(q)
      /\ \A i \in EventSlot : q.entries[i].when \in 0 .. last
  BY QueueRepFacts
<1>3. /\ EventSlot = 1 .. K - 1 /\ K - 1 \in Nat /\ 0 \notin EventSlot /\ EventSlot \subseteq Nat
  BY EventSlots
<1>4. t = [entries |-> linked, root |-> IF k = 1 THEN slot ELSE q.root, size |-> q.size + 1]
  BY <1>2 DEF Scheduled
<1>5. slot \in FreeEvents(q) /\ slot \in EventSlot
  <2>1. FreeEvents(q) \in SUBSET Nat /\ FreeEvents(q) \subseteq EventSlot
    BY <1>3 DEF FreeEvents
  <2>2. QED
    BY <2>1, MinIsLeast
<1> HIDE DEF t, slot
<1>6. /\ k \in 1 .. Len(order) + 1
      /\ \A j \in 1 .. Len(order) : /\ j < k => q.entries[order[j]].when <= when
                                    /\ j >= k => when <= q.entries[order[j]].when
  <2>1. later \in SUBSET Nat /\ later # {} /\ later \subseteq 1 .. Len(order) + 1
    BY <1>2
  <2>2. k \in later /\ \A j \in later : k <= j
    BY <2>1, MinIsLeast
  <2>3. \A j \in 1 .. Len(order) : q.entries[order[j]].when \in Nat
    BY <1>2
  <2>4. k \in 1 .. Len(order) + 1
    BY <2>1, <2>2
  <2> HIDE DEF k
  <2>5. ASSUME NEW j \in 1 .. Len(order), j < k PROVE q.entries[order[j]].when <= when
    <3>1. j \notin later
      BY <2>2, <2>4, <2>5
    <3>2. ~(q.entries[order[j]].when > when)
      BY <1>2, <3>1
    <3>3. QED
      BY <2>3, <3>2
  <2>6. ASSUME NEW j \in 1 .. Len(order), j >= k PROVE when <= q.entries[order[j]].when
    <3>1. k \in 1 .. Len(order) /\ q.entries[order[k]].when > when
      BY <1>2, <2>2, <2>4, <2>6
    <3>2. q.entries[order[k]].when <= q.entries[order[j]].when
      <4>1. CASE k = j
        BY <2>3, <4>1
      <4>2. CASE k < j
        BY <3>1, <4>2 DEF QueueRep, OnTime
      <4>3. QED
        BY <2>4, <2>6, <4>1, <4>2
    <3>3. QED
      BY <2>3, <3>1, <3>2
  <2>7. QED
    BY <2>4, <2>5, <2>6
<1> HIDE DEF k
<1>7. next \in EventSlot \cup {0} /\ (k # 1 => k - 1 \in 1 .. Len(order) /\ order[k - 1] \in EventSlot)
  <2>1. k <= Len(order) => k \in 1 .. Len(order)
    BY <1>2, <1>6
  <2>2. k # 1 => k - 1 \in 1 .. Len(order)
    BY <1>2, <1>6
  <2>3. QED
    BY <1>2, <1>6, <2>1, <2>2
<1> DEFINE Entry == [note : N \cup {kFreeEvent, kZombieSlot}, when : 0 .. last, next : EventSlot \cup {0}]
<1>8. stored \in [EventSlot -> Entry] /\ \A i \in EventSlot :
        stored[i] = IF i = slot THEN [note |-> note, when |-> when, next |-> next] ELSE q.entries[i]
  <2>1. [note |-> note, when |-> when, next |-> next] \in Entry
    BY <1>7
  <2> HIDE DEF next
  <2>2. QED
    BY <1>1, <1>5, <2>1
<1> HIDE DEF stored, next
<1>9. linked \in [EventSlot -> Entry] /\ \A i \in EventSlot :
        /\ linked[i].note = stored[i].note /\ linked[i].when = stored[i].when
        /\ linked[i].next = IF k # 1 /\ i = order[k - 1] THEN slot ELSE stored[i].next
  <2>1. CASE k = 1
    BY <1>8, <2>1
  <2>2. CASE k # 1
    <3>1. linked = [stored EXCEPT ![order[k - 1]].next = slot] /\ order[k - 1] \in EventSlot
      BY <1>7, <2>2
    <3> HIDE DEF linked
    <3>2. QED
      BY <1>5, <1>8, <2>2, <3>1
  <2>3. QED
    BY <2>1, <2>2
<1> HIDE DEF linked
<1>10. \A i \in EventSlot :
         /\ linked[i].note = IF i = slot THEN note ELSE q.entries[i].note
         /\ linked[i].when = IF i = slot THEN when ELSE q.entries[i].when
         /\ linked[i].next = IF k # 1 /\ i = order[k - 1] THEN slot
                             ELSE IF i = slot THEN next ELSE q.entries[i].next
  BY <1>8, <1>9
<1>11. /\ t.entries = linked /\ t.root = (IF k = 1 THEN slot ELSE q.root) /\ t.size = q.size + 1
       /\ t = [entries |-> t.entries, root |-> t.root, size |-> t.size]
  BY <1>4
<1>12. slot \notin ToSet(order)
  BY <1>2, <1>5
<1>13. IsInjective(order) /\ q.size = Len(order)
  BY DEF QueueRep, QueueChain
<1>14. /\ r \in Seq(EventSlot) /\ Len(r) = Len(order) + 1
       /\ \A i \in 1 .. Len(order) + 1 :
            r[i] = IF i < k THEN order[i] ELSE IF i = k THEN slot ELSE order[i - 1]
       /\ IsInjective(r) /\ ToSet(r) = ToSet(order) \cup {slot}
  <2>1. Inserted(r, order, k, slot, EventSlot)
    BY <1>2, <1>5, <1>6, InsertAtElements
  <2>2. IsInjective(r) /\ ToSet(r) = ToSet(order) \cup {slot}
    BY <1>2, <1>5, <1>6, <1>12, <1>13, InsertAtSet
  <2> HIDE DEF r
  <2>3. QED
    BY <2>1, <2>2 DEF Inserted
<1> HIDE DEF r
<1>15. q.size + 1 \in 0 .. K - 1
  <2>1. Len(order) <= K - 1 /\ (Len(order) = K - 1 => ToSet(order) = 1 .. K - 1)
    BY <1>2, <1>3, <1>13, InjectiveLength
  <2>2. Len(order) # K - 1
    BY <1>3, <1>5, <1>12, <2>1
  <2>3. QED
    BY <1>2, <1>3, <1>13, <2>1, <2>2
<1>16. t \in QueueType(N, 0 .. last)
  <2>1. t.root \in EventSlot \cup {0}
    BY <1>1, <1>5, <1>11
  <2>2. QED
    BY <1>9, <1>11, <1>15, <2>1 DEF QueueType
<1>17. Holds(t, r)
  BY <1>2, <1>10, <1>11, <1>14 DEF Holds, FreeEvents
<1>18. \A i \in 1 .. Len(order) + 1 :
         t.entries[r[i]].when = IF i < k THEN q.entries[order[i]].when
                                ELSE IF i = k THEN when ELSE q.entries[order[i - 1]].when
  <2>1. SUFFICES ASSUME NEW i \in 1 .. Len(order) + 1
                 PROVE  t.entries[r[i]].when = IF i < k THEN q.entries[order[i]].when
                                ELSE IF i = k THEN when ELSE q.entries[order[i - 1]].when
    OBVIOUS
  <2>2. CASE i < k
    <3>1. i \in 1 .. Len(order) /\ r[i] = order[i]
      BY <1>2, <1>6, <1>14, <2>2
    <3>2. order[i] \in EventSlot /\ order[i] # slot
      BY <1>2, <1>12, <3>1
    <3>3. QED
      BY <1>10, <1>11, <2>2, <3>1, <3>2
  <2>3. CASE i = k
    <3>1. r[i] = slot /\ ~(i < k)
      BY <1>6, <1>14, <2>3
    <3>2. QED
      BY <1>5, <1>10, <1>11, <2>3, <3>1
  <2>4. CASE i > k
    <3>1. i - 1 \in 1 .. Len(order) /\ r[i] = order[i - 1] /\ ~(i < k) /\ i # k
      BY <1>2, <1>6, <1>14, <2>4
    <3>2. order[i - 1] \in EventSlot /\ order[i - 1] # slot
      BY <1>2, <1>12, <3>1
    <3>3. QED
      BY <1>10, <1>11, <3>1, <3>2
  <2>5. QED
    BY <1>6, <2>2, <2>3, <2>4
<1>19. OnTime(t, r)
  <2>1. SUFFICES ASSUME NEW a \in 1 .. Len(r), NEW b \in 1 .. Len(r), a < b
                 PROVE  t.entries[r[a]].when <= t.entries[r[b]].when
    BY DEF OnTime
  <2> DEFINE W(i) == q.entries[order[i]].when
             n == Len(order)
  <2>2. \A i \in 1 .. n : W(i) \in Nat
    BY <1>2
  <2>3. \A i, j \in 1 .. n : i < j => W(i) <= W(j)
    BY DEF QueueRep, OnTime
  <2>4. \A j \in 1 .. n : (j < k => W(j) <= when) /\ (j >= k => when <= W(j))
    BY <1>6
  <2>5. \A i \in 1 .. n + 1 :
          t.entries[r[i]].when = IF i < k THEN W(i) ELSE IF i = k THEN when ELSE W(i - 1)
    BY <1>18
  <2>6. /\ a \in 1 .. n + 1 /\ b \in 1 .. n + 1 /\ when \in Nat /\ n \in Nat /\ k \in 1 .. n + 1
    BY <1>2, <1>6, <1>14
  <2> HIDE DEF W, n
  <2>7. CASE b < k
    <3>1. a \in 1 .. n /\ b \in 1 .. n /\ a < k
      BY <2>1, <2>6, <2>7
    <3>2. QED
      BY <2>1, <2>3, <2>5, <2>6, <2>7, <3>1
  <2>8. CASE b = k
    <3>1. a \in 1 .. n /\ a < k
      BY <2>1, <2>6, <2>8
    <3>2. QED
      BY <2>4, <2>5, <2>6, <2>8, <3>1
  <2>9. CASE b > k /\ a < k
    <3>1. b - 1 \in 1 .. n /\ a \in 1 .. n /\ b - 1 >= k
      BY <2>6, <2>9
    <3>2. W(a) <= when /\ when <= W(b - 1)
      BY <2>4, <2>9, <3>1
    <3>3. W(a) <= W(b - 1)
      BY <2>2, <2>6, <3>1, <3>2
    <3>4. QED
      BY <2>5, <2>6, <2>9, <3>3
  <2>10. CASE b > k /\ a = k
    <3>1. b - 1 \in 1 .. n /\ b - 1 >= k
      BY <2>6, <2>10
    <3>2. QED
      BY <2>4, <2>5, <2>6, <2>10, <3>1
  <2>11. CASE b > k /\ a > k
    <3>1. b - 1 \in 1 .. n /\ a - 1 \in 1 .. n /\ a - 1 < b - 1
      BY <2>1, <2>6, <2>11
    <3>2. QED
      BY <2>3, <2>5, <2>6, <2>11, <3>1
  <2>12. QED
    BY <2>6, <2>7, <2>8, <2>9, <2>10, <2>11
<1>20. QueueChain(t, r)
  <2>1. /\ q.root = IF Len(order) = 0 THEN 0 ELSE order[1]
        /\ \A i \in 1 .. Len(order) :
             q.entries[order[i]].next = IF i = Len(order) THEN 0 ELSE order[i + 1]
    BY DEF QueueRep, QueueChain
  <2>2. t.root = IF Len(r) = 0 THEN 0 ELSE r[1]
    <3>1. CASE k = 1
      BY <1>2, <1>11, <1>14, <3>1
    <3>2. CASE k # 1
      <4>1. Len(order) # 0 /\ r[1] = order[1] /\ Len(r) # 0
        BY <1>2, <1>6, <1>14, <3>2
      <4>2. QED
        BY <1>11, <2>1, <3>2, <4>1
    <3>3. QED
      BY <3>1, <3>2
  <2>3. ASSUME NEW i \in 1 .. Len(r)
        PROVE  t.entries[r[i]].next = IF i = Len(r) THEN 0 ELSE r[i + 1]
    <3>1. i \in 1 .. Len(order) + 1
      BY <1>14
    <3>2. \A x, y \in 1 .. Len(order) : order[x] = order[y] => x = y
      BY <1>2, <1>13 DEF IsInjective
    <3>3. CASE i > k
      <4>1. i - 1 \in 1 .. Len(order) /\ r[i] = order[i - 1]
        BY <1>2, <1>6, <1>14, <3>1, <3>3
      <4>2. order[i - 1] \in EventSlot /\ order[i - 1] # slot
        BY <1>2, <1>12, <4>1
      <4>3. k # 1 => order[i - 1] # order[k - 1]
        BY <1>6, <1>7, <3>1, <3>2, <3>3, <4>1
      <4>4. t.entries[r[i]].next = IF i - 1 = Len(order) THEN 0 ELSE order[i - 1 + 1]
        BY <1>10, <1>11, <2>1, <4>1, <4>2, <4>3
      <4>5. i # Len(r) => r[i + 1] = order[i - 1 + 1]
        BY <1>2, <1>6, <1>14, <3>1, <3>3
      <4>6. i = Len(r) <=> i - 1 = Len(order)
        BY <1>2, <1>14, <3>1
      <4>7. QED
        BY <4>4, <4>5, <4>6
    <3>4. CASE i = k
      <4>1. r[i] = slot
        BY <1>6, <1>14, <3>4
      <4>2. k # 1 => slot # order[k - 1]
        BY <1>2, <1>7, <1>12
      <4>3. t.entries[r[i]].next = next
        BY <1>5, <1>10, <1>11, <4>1, <4>2
      <4>4. next = IF k > Len(order) THEN 0 ELSE order[k]
        BY DEF next
      <4>5. i # Len(r) => r[i + 1] = order[k]
        <5>1. i # Len(r) => i + 1 \in 1 .. Len(order) + 1 /\ ~(i + 1 < k) /\ i + 1 # k /\ i + 1 - 1 = k
          BY <1>2, <1>6, <1>14, <3>1, <3>4
        <5>2. QED
          BY <1>6, <1>14, <5>1
      <4>6. i = Len(r) <=> k > Len(order)
        BY <1>2, <1>6, <1>14, <3>4
      <4>7. QED
        BY <4>3, <4>4, <4>5, <4>6
    <3>5. CASE i = k - 1
      <4>1. i \in 1 .. Len(order) /\ r[i] = order[k - 1] /\ k # 1
        BY <1>2, <1>6, <1>14, <3>1, <3>5
      <4>2. t.entries[r[i]].next = slot
        BY <1>7, <1>10, <1>11, <4>1
      <4>3. i # Len(r) /\ r[i + 1] = slot
        BY <1>2, <1>6, <1>14, <3>1, <3>5
      <4>4. QED
        BY <4>2, <4>3
    <3>6. CASE i < k - 1
      <4>1. i \in 1 .. Len(order) /\ i + 1 \in 1 .. Len(order) /\ r[i] = order[i] /\ r[i + 1] = order[i + 1]
        BY <1>2, <1>6, <1>14, <3>1, <3>6
      <4>2. order[i] \in EventSlot /\ order[i] # slot
        BY <1>2, <1>12, <4>1
      <4>3. order[i] # order[k - 1]
        BY <1>6, <1>7, <3>1, <3>2, <3>6, <4>1
      <4>4. t.entries[r[i]].next = IF i = Len(order) THEN 0 ELSE order[i + 1]
        BY <1>10, <1>11, <2>1, <4>1, <4>2, <4>3
      <4>5. i # Len(order) /\ i # Len(r)
        BY <1>2, <1>6, <1>14, <3>1, <3>6
      <4>6. QED
        BY <4>1, <4>4, <4>5
    <3>7. QED
      BY <1>2, <1>6, <3>1, <3>3, <3>4, <3>5, <3>6
  <2>4. QED
    BY <1>14, <2>2, <2>3 DEF QueueChain
<1>21. QueueRep(t, r, N, last)
  BY <1>11, <1>13, <1>14, <1>16, <1>17, <1>19, <1>20 DEF QueueRep
<1>22. QED
  BY <1>5, <1>6, <1>10, <1>11, <1>21 DEF t, r, slot, Adds

(* Tick frees the entries at the front that are due, and counts the others  *)
(* down.                                                                    *)
TicksTo(q, t, order, rest, N, last) ==
    /\ QueueRep(t, rest, N, last)
    /\ ToSet(Due(q)) \subseteq ToSet(order) /\ ToSet(rest) = ToSet(order) \ ToSet(Due(q))
    /\ \A i \in ToSet(rest) : t.entries[i].note = q.entries[i].note

LEMMA TickedRep ==
  ASSUME NEW N, NEW last \in Nat, NEW q, NEW order, QueueRep(q, order, N, last)
  PROVE  \E rest : TicksTo(q, Ticked(q), order, rest, N, last)
<1> DEFINE L == Len(order)
           W(i) == q.entries[order[i]].when
           pending == {j \in DOMAIN order : W(j) # 0} \cup {Len(order) + 1}
           n == Min(pending)
           due == SubSeq(order, 1, n - 1)
           rest == SubSeq(order, n, L)
           t == Ticked(q)
<1>1. /\ q.entries \in [EventSlot -> [note : N \cup {kFreeEvent, kZombieSlot}, when : 0 .. last,
                                      next : EventSlot \cup {0}]]
      /\ q.root \in EventSlot \cup {0} /\ q.size \in 0 .. kEventSchedulerSize - 1
  BY QueueTypeIs DEF QueueRep
<1>2. /\ Order(q) = order /\ order \in Seq(EventSlot) /\ L \in Nat /\ DOMAIN order = 1 .. L
      /\ \A i \in 1 .. L : order[i] \in EventSlot /\ order[i] \in ToSet(order)
      /\ ToSet(order) = EventSlot \ FreeEvents(q)
      /\ \A i \in EventSlot : q.entries[i].when \in 0 .. last
  BY QueueRepFacts
<1>3. \A i \in 1 .. L : W(i) \in Nat
  BY <1>2
<1>4. \A i, j \in 1 .. L : i < j => W(i) <= W(j)
  BY DEF QueueRep, OnTime
<1>5. /\ n \in 1 .. L + 1 /\ \A j \in 1 .. n - 1 : W(j) = 0
      /\ \A j \in n .. L : W(j) >= 1
  <2>1. pending \in SUBSET Nat /\ pending # {} /\ pending \subseteq 1 .. L + 1
    BY <1>2
  <2>2. n \in pending /\ \A j \in pending : n <= j
    BY <2>1, MinIsLeast
  <2>3. n \in 1 .. L + 1
    BY <2>1, <2>2
  <2> HIDE DEF n
  <2>4. ASSUME NEW j \in 1 .. n - 1 PROVE W(j) = 0
    <3>1. j \in 1 .. L /\ ~(n <= j)
      BY <1>2, <2>3
    <3>2. j \notin pending
      BY <2>2, <3>1
    <3>3. QED
      BY <1>2, <3>1, <3>2
  <2>5. ASSUME NEW j \in n .. L PROVE W(j) >= 1
    <3>1. n \in 1 .. L /\ j \in 1 .. L /\ (n = j \/ n < j)
      BY <1>2, <2>3
    <3>2. W(n) # 0
      BY <1>2, <2>2, <3>1
    <3>3. W(n) <= W(j)
      <4>1. W(n) \in Nat
        BY <1>3, <3>1
      <4>2. CASE n = j
        BY <4>1, <4>2
      <4>3. CASE n < j
        BY <1>4, <3>1, <4>3
      <4>4. QED
        BY <3>1, <4>2, <4>3
    <3>4. W(n) \in Nat /\ W(j) \in Nat
      BY <1>3, <3>1
    <3> HIDE DEF W
    <3>5. QED
      BY <3>2, <3>3, <3>4
  <2>6. QED
    BY <2>3, <2>4, <2>5
<1>6. Due(q) = due
  BY <1>2 DEF Due
<1> HIDE DEF n
<1>7. due \in Seq(EventSlot) /\ Len(due) = n - 1 /\ \A i \in 1 .. n - 1 : due[i] = order[i]
  BY <1>2, <1>5, SubSeqProperties
<1>8. /\ rest \in Seq(EventSlot) /\ Len(rest) = L - n + 1
      /\ \A i \in 1 .. L - n + 1 : rest[i] = order[n + i - 1]
  <2>1. CASE n = L + 1
    BY <1>2, <2>1
  <2>2. CASE n <= L
    BY <1>2, <1>5, <2>2, SubSeqProperties
  <2>3. QED
    BY <1>2, <1>5, <2>1, <2>2
<1> HIDE DEF due, rest
<1>9. \A i, j \in 1 .. L : order[i] = order[j] => i = j
  BY <1>2 DEF QueueRep, QueueChain, IsInjective
<1>10. \A x : x \in ToSet(order) <=> \E i \in 1 .. L : order[i] = x
  BY <1>2 DEF ToSet
<1>11. \A x : x \in ToSet(due) <=> \E i \in 1 .. n - 1 : order[i] = x
  <2>1. DOMAIN due = 1 .. n - 1
    BY <1>7
  <2>2. QED
    BY <1>7, <2>1 DEF ToSet
<1>12. \A x : x \in ToSet(rest) <=> \E i \in n .. L : order[i] = x
  <2>1. DOMAIN rest = 1 .. L - n + 1
    BY <1>8
  <2>2. \A i \in n .. L : i - n + 1 \in 1 .. L - n + 1 /\ n + (i - n + 1) - 1 = i
    BY <1>2, <1>5
  <2>3. \A i \in n .. L : rest[i - n + 1] = order[i]
    BY <1>8, <2>2
  <2>4. \A i \in 1 .. L - n + 1 : n + i - 1 \in n .. L
    BY <1>2, <1>5
  <2>5. \A x : x \in ToSet(rest) <=> \E i \in 1 .. L - n + 1 : rest[i] = x
    BY <2>1 DEF ToSet
  <2>6. \A i \in 1 .. L - n + 1 : rest[i] = order[n + i - 1]
    BY <1>8
  <2>7. ASSUME NEW x, \E i \in 1 .. L - n + 1 : rest[i] = x PROVE \E i \in n .. L : order[i] = x
    BY <2>4, <2>6, <2>7
  <2>8. ASSUME NEW x, NEW i \in n .. L, order[i] = x PROVE \E j \in 1 .. L - n + 1 : rest[j] = x
    <3>1. i - n + 1 \in 1 .. L - n + 1 /\ rest[i - n + 1] = x
      BY <2>2, <2>3, <2>8
    <3>2. QED
      BY <3>1
  <2>9. QED
    BY <2>5, <2>7, <2>8
<1>13. ToSet(due) \subseteq ToSet(order) /\ ToSet(rest) = ToSet(order) \ ToSet(due)
  <2>1. \A i \in 1 .. n - 1 : i \in 1 .. L /\ i \notin n .. L
    BY <1>2, <1>5
  <2>2. \A i \in n .. L : i \in 1 .. L /\ i \notin 1 .. n - 1
    BY <1>2, <1>5
  <2>3. \A i \in 1 .. L : i \in 1 .. n - 1 \/ i \in n .. L
    BY <1>2, <1>5
  <2>4. ToSet(due) \subseteq ToSet(order)
    BY <1>10, <1>11, <2>1
  <2>5. ASSUME NEW x \in ToSet(rest) PROVE x \in ToSet(order) /\ x \notin ToSet(due)
    <3>1. PICK i \in n .. L : order[i] = x
      BY <1>12
    <3>2. \A j \in 1 .. n - 1 : order[j] # x
      BY <1>9, <2>1, <2>2, <3>1
    <3>3. QED
      BY <1>10, <1>11, <2>2, <3>1, <3>2
  <2>6. ASSUME NEW x \in ToSet(order), x \notin ToSet(due) PROVE x \in ToSet(rest)
    <3>1. PICK i \in 1 .. L : order[i] = x
      BY <1>10
    <3>2. i \in n .. L
      BY <1>11, <2>3, <2>6, <3>1
    <3>3. QED
      BY <1>12, <3>1, <3>2
  <2>7. QED
    BY <2>4, <2>5, <2>6
<1>14. /\ t.entries = [i \in EventSlot |->
                        IF i \in ToSet(due) THEN FreeEntry
                        ELSE IF i \in ToSet(rest) THEN [q.entries[i] EXCEPT !.when = @ - 1]
                        ELSE q.entries[i]]
       /\ t.root = (IF ToSet(due) = {} THEN q.root ELSE q.entries[Last(due)].next)
       /\ t.size = q.size - Len(due)
       /\ t = [entries |-> t.entries, root |-> t.root, size |-> t.size]
  BY <1>2, <1>6, <1>13 DEF Ticked
<1> HIDE DEF t
<1>15. \A i \in ToSet(rest) : i \in EventSlot /\ q.entries[i].when \in 1 .. last
  <2>1. SUFFICES ASSUME NEW i \in ToSet(rest) PROVE i \in EventSlot /\ q.entries[i].when \in 1 .. last
    OBVIOUS
  <2>2. PICK j \in n .. L : order[j] = i
    BY <1>12
  <2>3. j \in 1 .. L
    BY <1>2, <1>5
  <2>4. i \in EventSlot /\ q.entries[i].when >= 1 /\ q.entries[i].when \in 0 .. last
    BY <1>2, <1>5, <2>2, <2>3
  <2>5. QED
    BY <2>4
<1>16. \A i \in EventSlot :
         /\ t.entries[i].note = IF i \in ToSet(due) THEN kFreeEvent ELSE q.entries[i].note
         /\ i \in ToSet(rest) => /\ t.entries[i].when = q.entries[i].when - 1
                                 /\ t.entries[i].next = q.entries[i].next
  BY <1>1, <1>13, <1>14 DEF FreeEntry
<1>17. t.entries \in [EventSlot -> [note : N \cup {kFreeEvent, kZombieSlot}, when : 0 .. last,
                                    next : EventSlot \cup {0}]]
  <2>1. FreeEntry \in [note : N \cup {kFreeEvent, kZombieSlot}, when : 0 .. last,
                       next : EventSlot \cup {0}]
    BY DEF FreeEntry
  <2>2. \A i \in ToSet(rest) : q.entries[i].when - 1 \in 0 .. last
    BY <1>15
  <2>3. QED
    BY <1>1, <1>14, <2>1, <2>2
<1>18. t.root = IF Len(rest) = 0 THEN 0 ELSE rest[1]
  <2>1. /\ q.root = IF L = 0 THEN 0 ELSE order[1]
        /\ \A i \in 1 .. L : q.entries[order[i]].next = IF i = L THEN 0 ELSE order[i + 1]
    BY DEF QueueRep, QueueChain
  <2>2. CASE n = 1
    <3>1. ToSet(due) = {} /\ Len(rest) = L
      BY <1>2, <1>8, <1>11, <2>2
    <3>2. L # 0 => rest[1] = order[1]
      BY <1>2, <1>8, <2>2
    <3>3. QED
      BY <1>14, <2>1, <3>1, <3>2
  <2>3. CASE n # 1
    <3>1. n - 1 \in 1 .. L /\ n - 1 \in 1 .. n - 1
      BY <1>2, <1>5, <2>3
    <3>2. ToSet(due) # {} /\ Last(due) = order[n - 1]
      BY <1>7, <1>11, <3>1 DEF Last
    <3>3. t.root = IF n - 1 = L THEN 0 ELSE order[n - 1 + 1]
      BY <1>14, <2>1, <3>1, <3>2
    <3>4. n - 1 # L => 1 \in 1 .. L - n + 1 /\ n - 1 + 1 = n /\ n + 1 - 1 = n
      BY <1>2, <1>5
    <3>5. n - 1 # L => rest[1] = order[n - 1 + 1]
      BY <1>8, <3>4
    <3>6. n - 1 = L <=> Len(rest) = 0
      BY <1>2, <1>5, <1>8
    <3>7. QED
      BY <3>3, <3>5, <3>6
  <2>4. QED
    BY <2>2, <2>3
<1>19. t.size = Len(rest) /\ t.size \in 0 .. kEventSchedulerSize - 1
  <2>1. q.size = L
    BY DEF QueueRep
  <2>2. t.size = q.size - Len(due)
    BY <1>14
  <2>3. L <= kEventSchedulerSize - 1 /\ kEventSchedulerSize - 1 \in Nat
    BY <1>1, <2>1, EventSlots
  <2>4. L - (n - 1) = L - n + 1 /\ L - n + 1 \in 0 .. kEventSchedulerSize - 1
    BY <1>2, <1>5, <2>3
  <2>5. QED
    BY <1>7, <1>8, <2>1, <2>2, <2>4
<1>20. t \in QueueType(N, 0 .. last)
  <2>1. t.root \in EventSlot \cup {0}
    <3>1. Len(rest) # 0 => 1 \in 1 .. Len(rest)
      BY <1>2, <1>5, <1>8
    <3>2. QED
      BY <1>8, <1>18, <3>1, ElementOfSeq
  <2>2. QED
    BY <1>14, <1>17, <1>19, <2>1 DEF QueueType
<1>21. \A i \in 1 .. Len(rest) :
         /\ n + i - 1 \in 1 .. L /\ n + i - 1 \in n .. L /\ rest[i] = order[n + i - 1]
         /\ rest[i] \in ToSet(rest) /\ rest[i] \in EventSlot
         /\ i # Len(rest) => i + 1 \in 1 .. Len(rest) /\ n + (i + 1) - 1 = n + i - 1 + 1
         /\ i = Len(rest) <=> n + i - 1 = L
  <2>1. \A i \in 1 .. Len(rest) : rest[i] = order[n + i - 1]
    BY <1>8
  <2>3. \A i \in 1 .. Len(rest) : rest[i] \in ToSet(rest) /\ rest[i] \in EventSlot
    <3>1. ASSUME NEW i \in 1 .. Len(rest) PROVE rest[i] \in ToSet(rest) /\ rest[i] \in EventSlot
      <4>1. i \in 1 .. L - n + 1
        BY <1>8
      <4>2. n + i - 1 \in n .. L /\ n + i - 1 \in 1 .. L
        BY <1>2, <1>5, <4>1
      <4>3. rest[i] \in ToSet(rest)
        BY <1>12, <2>1, <4>2
      <4>4. QED
        BY <1>2, <2>1, <4>2, <4>3
    <3>2. QED
      BY <3>1
  <2>4. SUFFICES ASSUME NEW i \in 1 .. Len(rest)
                 PROVE  /\ n + i - 1 \in 1 .. L /\ n + i - 1 \in n .. L /\ rest[i] = order[n + i - 1]
                        /\ rest[i] \in ToSet(rest) /\ rest[i] \in EventSlot
                        /\ i # Len(rest) => i + 1 \in 1 .. Len(rest) /\ n + (i + 1) - 1 = n + i - 1 + 1
                        /\ i = Len(rest) <=> n + i - 1 = L
    OBVIOUS
  <2>5. i \in 1 .. L - n + 1 /\ Len(rest) = L - n + 1
    BY <1>8
  <2>6. n + i - 1 \in 1 .. L /\ n + i - 1 \in n .. L
    BY <1>2, <1>5, <2>5
  <2>7. i # Len(rest) => i + 1 \in 1 .. Len(rest) /\ n + (i + 1) - 1 = n + i - 1 + 1
    BY <1>2, <1>5, <2>5
  <2>8. i = Len(rest) <=> n + i - 1 = L
    BY <1>2, <1>5, <2>5
  <2>9. QED
    BY <2>1, <2>3, <2>6, <2>7, <2>8
<1>22. QueueChain(t, rest)
  <2>1. IsInjective(rest)
    <3>1. \A i, j \in 1 .. Len(rest) : n + i - 1 = n + j - 1 => i = j
      BY <1>5
    <3>2. DOMAIN rest = 1 .. Len(rest)
      BY <1>8
    <3>3. QED
      <4>1. SUFFICES ASSUME NEW i \in 1 .. Len(rest), NEW j \in 1 .. Len(rest), rest[i] = rest[j]
                     PROVE  i = j
        BY <3>2 DEF IsInjective
      <4>2. order[n + i - 1] = order[n + j - 1] /\ n + i - 1 \in 1 .. L /\ n + j - 1 \in 1 .. L
        BY <1>21, <4>1
      <4>3. n + i - 1 = n + j - 1
        BY <1>9, <4>2
      <4>4. QED
        BY <3>1, <4>3
  <2>2. \A i \in 1 .. L : q.entries[order[i]].next = IF i = L THEN 0 ELSE order[i + 1]
    BY DEF QueueRep, QueueChain
  <2>3. ASSUME NEW i \in 1 .. Len(rest)
        PROVE  t.entries[rest[i]].next = IF i = Len(rest) THEN 0 ELSE rest[i + 1]
    <3>1. t.entries[rest[i]].next = q.entries[order[n + i - 1]].next
      BY <1>16, <1>21
    <3>2. n + i - 1 \in 1 .. L
      BY <1>21
    <3>3. t.entries[rest[i]].next = IF n + i - 1 = L THEN 0 ELSE order[n + i - 1 + 1]
      BY <2>2, <3>1, <3>2
    <3>4. i # Len(rest) => rest[i + 1] = order[n + i - 1 + 1]
      BY <1>21
    <3>5. i = Len(rest) <=> n + i - 1 = L
      BY <1>21
    <3>6. QED
      BY <3>3, <3>4, <3>5
  <2>4. QED
    BY <1>8, <1>18, <2>1, <2>3 DEF QueueChain
<1>23. Holds(t, rest)
  <2>1. \A i \in EventSlot : i \in ToSet(order) <=> q.entries[i].note # kFreeEvent
    BY DEF QueueRep, Holds
  <2>2. QED
    BY <1>13, <1>16, <2>1 DEF Holds
<1>24. OnTime(t, rest)
  <2>1. SUFFICES ASSUME NEW i \in 1 .. Len(rest), NEW j \in 1 .. Len(rest), i < j
                 PROVE  t.entries[rest[i]].when <= t.entries[rest[j]].when
    BY DEF OnTime
  <2>2. n + i - 1 \in 1 .. L /\ n + j - 1 \in 1 .. L
    BY <1>21
  <2>3. n + i - 1 < n + j - 1
    BY <1>5, <2>1
  <2>4. W(n + i - 1) <= W(n + j - 1)
    BY <1>4, <2>2, <2>3
  <2>5. W(n + i - 1) \in Nat /\ W(n + j - 1) \in Nat
    BY <1>3, <2>2
  <2>6. t.entries[rest[i]].when = W(n + i - 1) - 1 /\ t.entries[rest[j]].when = W(n + j - 1) - 1
    BY <1>16, <1>21
  <2> HIDE DEF W
  <2>7. QED
    BY <2>4, <2>5, <2>6
<1>25. \A i \in ToSet(rest) : t.entries[i].note = q.entries[i].note
  BY <1>13, <1>15, <1>16
<1>26. TicksTo(q, t, order, rest, N, last)
  BY <1>6, <1>13, <1>19, <1>20, <1>22, <1>23, <1>24, <1>25 DEF QueueRep, TicksTo
<1>27. QED
  BY <1>26 DEF t

-----------------------------------------------------------------------------
(* The arpeggiator. *)
Latest == Max(Durations) - 1

LEMMA Ranges ==
  /\ Latest \in Nat /\ \A d \in Durations : d \in Nat /\ d >= 1 /\ d - 1 \in 0 .. Latest
  /\ kNoteStackSize \in Nat /\ kNoteStackSize >= 1
  /\ Octaves \in 1 .. 3 /\ Division \in 1 .. 192 /\ IdleTicks \in Nat /\ IdleTicks >= 1
  /\ \A k \in Keys : k \in Note
<1>1. Durations \in SUBSET (0 .. 192) /\ Durations # {} /\ Durations \subseteq 1 .. 192
  BY ArpeggiatorAssumption
<1>2. Max(Durations) \in Durations
  BY <1>1, MaxIsIn
<1> DEFINE greatest == Max(Durations)
<1>3. \A d \in Durations : greatest >= d
  <2>1. \E x \in Durations : \A y \in Durations : x >= y
    <3> DEFINE below == {192 - x : x \in Durations}
    <3>0. \A x \in Durations : x \in Nat /\ 192 - x \in Nat
      BY <1>1
    <3>1. below \in SUBSET Nat /\ below # {}
      BY <1>1, <3>0
    <3>2. Min(below) \in below /\ \A y \in below : Min(below) <= y
      BY <3>1, MinIsLeast
    <3>3. PICK x \in Durations : Min(below) = 192 - x
      BY <3>2
    <3>4. \A y \in Durations : 192 - y \in below
      OBVIOUS
    <3> HIDE DEF below
    <3>5. \A y \in Durations : 192 - x <= 192 - y
      BY <3>2, <3>3, <3>4
    <3>6. QED
      BY <3>0, <3>5
  <2>2. QED
    BY <2>1 DEF Max
<1>4. greatest \in 1 .. 192
  BY <1>1, <1>2
<1> HIDE DEF greatest
<1>5. \A d \in Durations : d \in Nat /\ d >= 1 /\ d - 1 \in 0 .. greatest - 1
  BY <1>1, <1>3, <1>4
<1>6. Latest = greatest - 1 /\ greatest - 1 \in Nat
  BY <1>4 DEF Latest, greatest
<1>7. QED
  BY <1>5, <1>6, ArpeggiatorAssumption, StackAssumption DEF Note

-----------------------------------------------------------------------------
(* What the queue holds for a note, and what is said of the output: each    *)
(* note that sounds has one entry, unless its note-off met a full queue.    *)
Awaits(q, note) == {i \in EventSlot : q.entries[i].note = note}

Ends(o) ==
    /\ \A note \in o.sounding \ o.lost : \E i : Awaits(o.queue, note) = {i}
    /\ \A note \in o.lost : Awaits(o.queue, note) = {}

IsOutput(o) ==
    /\ o = [queue |-> o.queue, sounding |-> o.sounding, lost |-> o.lost]
    /\ \E order : QueueRep(o.queue, order, Note, Latest)
    /\ o.sounding \subseteq Note /\ o.lost \subseteq Note
    /\ Ends(o)

LEMMA NotesAreNoMarks == \A note \in Note : note # kFreeEvent /\ note # kZombieSlot
  BY DEF Note, kFreeEvent, kZombieSlot

(* The entries of a note are on the list. *)
LEMMA AwaitsOnList ==
  ASSUME NEW q, NEW order, QueueRep(q, order, Note, Latest), NEW note \in Note
  PROVE  Awaits(q, note) = {i \in ToSet(order) : q.entries[i].note = note}
<1>1. ToSet(order) = EventSlot \ FreeEvents(q)
  BY QueueRepFacts, Ranges
<1>2. QED
  BY <1>1, NotesAreNoMarks DEF Awaits, FreeEvents

(* SendNote, with the note-off scheduled or dropped. *)
LEMMA SendNoteEnds ==
  ASSUME NEW o, IsOutput(o), NEW note \in Note, NEW duration \in Durations
  PROVE  /\ IsOutput(SendNote(o, note, duration))
         /\ SendNote(o, note, duration).sounding = o.sounding \cup {note}
<1> DEFINE q == o.queue
           r == Removed(q, note)
           when == duration - 1
           t == Scheduled(r, note, when)
           full == FreeEvents(r) = {}
           p == SendNote(o, note, duration)
<1>1. PICK order : QueueRep(q, order, Note, Latest)
  BY DEF IsOutput
<1>2. Latest \in Nat /\ when \in 0 .. Latest /\ note # kFreeEvent /\ note # kZombieSlot
  BY Ranges, NotesAreNoMarks
<1>3. /\ QueueRep(r, order, Note, Latest)
      /\ \A i \in EventSlot : r.entries[i].note =
              IF i \in Matching(q, note) THEN kZombieSlot ELSE q.entries[i].note
      /\ Matching(q, note) = {i \in ToSet(order) : q.entries[i].note = note}
  <2>1. Renames(q, r, order, note, Note, Latest)
    BY <1>1, <1>2, RemovedRep
  <2> HIDE DEF q, r
  <2>2. QED
    BY <2>1 DEF Renames
<1>4. Matching(q, note) = Awaits(q, note)
  BY <1>1, <1>3, AwaitsOnList
<1>5. /\ p = [queue |-> t, sounding |-> o.sounding \cup {note},
              lost |-> IF full THEN o.lost \cup {note} ELSE o.lost \ {note}]
  BY DEF SendNote
<1> HIDE DEF q, r, when, p
<1>6. Awaits(r, note) = {} /\ \A n \in Note : n # note => Awaits(r, n) = Awaits(q, n)
  <2>1. ASSUME NEW i \in EventSlot PROVE r.entries[i].note # note
    BY <1>2, <1>3, <1>4 DEF Awaits
  <2>2. ASSUME NEW n \in Note, n # note, NEW i \in EventSlot
        PROVE  r.entries[i].note = n <=> q.entries[i].note = n
    BY <1>3, <1>4, <2>2, NotesAreNoMarks DEF Awaits
  <2>3. QED
    BY <2>1, <2>2 DEF Awaits
<1>7. /\ p.queue = t /\ p.sounding = o.sounding \cup {note}
      /\ p.lost = IF full THEN o.lost \cup {note} ELSE o.lost \ {note}
      /\ p = [queue |-> p.queue, sounding |-> p.sounding, lost |-> p.lost]
  BY <1>5
<1>8. /\ o.sounding \subseteq Note /\ o.lost \subseteq Note
      /\ \A n \in o.sounding \ o.lost : \E i : Awaits(q, n) = {i}
      /\ \A n \in o.lost : Awaits(q, n) = {}
  BY DEF IsOutput, Ends, q
<1>9. p.sounding \subseteq Note /\ p.lost \subseteq Note
  BY <1>7, <1>8
<1>10. CASE full
  <2>1. t = r
    BY <1>10 DEF Scheduled
  <2>2. \A n \in p.sounding \ p.lost : \E i : Awaits(r, n) = {i}
    BY <1>6, <1>7, <1>8, <1>10
  <2>3. \A n \in p.lost : Awaits(r, n) = {}
    BY <1>6, <1>7, <1>8, <1>10
  <2>4. IsOutput(p)
    BY <1>3, <1>7, <1>9, <2>1, <2>2, <2>3 DEF IsOutput, Ends
  <2>5. QED
    BY <1>7, <2>4 DEF p
<1>11. CASE ~full
  <2> DEFINE slot == Min(FreeEvents(r))
  <2>1. /\ \E k \in 1 .. Len(order) + 1 : QueueRep(t, InsertAt(order, k, slot), Note, Latest)
        /\ slot \in FreeEvents(r)
        /\ \A i \in EventSlot : t.entries[i].note = IF i = slot THEN note ELSE r.entries[i].note
    <3>1. Adds(r, t, order, slot, note, Note, Latest)
      BY <1>2, <1>3, <1>11, ScheduledRep
    <3> HIDE DEF t, slot
    <3>2. QED
      BY <3>1 DEF Adds
  <2> HIDE DEF t, slot
  <2>2. slot \in EventSlot /\ r.entries[slot].note = kFreeEvent
    BY <2>1 DEF FreeEvents
  <2>3. Awaits(t, note) = {slot}
    BY <1>6, <2>1, <2>2 DEF Awaits
  <2>4. \A n \in Note : n # note => Awaits(t, n) = Awaits(q, n)
    <3>1. \A n \in Note : n # note => Awaits(t, n) = Awaits(r, n)
      BY <2>1, <2>2, NotesAreNoMarks DEF Awaits
    <3>2. QED
      BY <1>6, <3>1
  <2>5. \A n \in p.sounding \ p.lost : \E i : Awaits(t, n) = {i}
    BY <1>7, <1>8, <1>11, <2>3, <2>4
  <2>6. \A n \in p.lost : Awaits(t, n) = {}
    BY <1>7, <1>8, <1>11, <2>4
  <2>7. IsOutput(p)
    BY <1>7, <1>9, <2>1, <2>5, <2>6 DEF IsOutput, Ends
  <2>8. QED
    BY <1>7, <2>7 DEF p
<1>12. QED
  BY <1>10, <1>11

(* SendScheduledNotes ends the notes whose entries it frees. *)
LEMMA TickEnds ==
  ASSUME NEW o, IsOutput(o)
  PROVE  /\ IsOutput(SendScheduledNotes(o))
         /\ SendScheduledNotes(o).sounding \subseteq o.sounding
<1> DEFINE q == o.queue
           t == Ticked(q)
           due == ToSet(Due(q))
           p == SendScheduledNotes(o)
<1>1. PICK order : QueueRep(q, order, Note, Latest)
  BY DEF IsOutput
<1>2. Latest \in Nat
  BY Ranges
<1>3. PICK rest : TicksTo(q, t, order, rest, Note, Latest)
  BY <1>1, <1>2, TickedRep
<1>4. /\ QueueRep(t, rest, Note, Latest) /\ due \subseteq ToSet(order)
      /\ ToSet(rest) = ToSet(order) \ due
      /\ \A i \in ToSet(rest) : t.entries[i].note = q.entries[i].note
  BY <1>3 DEF TicksTo
<1>5. /\ p.queue = t /\ p.sounding = o.sounding \ Ended(q, due) /\ p.lost = o.lost
      /\ p = [queue |-> p.queue, sounding |-> p.sounding, lost |-> p.lost]
  <2>1. o = [queue |-> o.queue, sounding |-> o.sounding, lost |-> o.lost]
    BY DEF IsOutput
  <2>2. p = [o EXCEPT !.queue = Ticked(@), !.sounding = @ \ Ended(o.queue, ToSet(Due(o.queue)))]
    BY DEF SendScheduledNotes
  <2> HIDE DEF p
  <2>3. p = [queue |-> t, sounding |-> o.sounding \ Ended(q, due), lost |-> o.lost]
    BY <2>1, <2>2
  <2>4. QED
    BY <2>3
<1>6. /\ o.sounding \subseteq Note /\ o.lost \subseteq Note
      /\ \A n \in o.sounding \ o.lost : \E i : Awaits(q, n) = {i}
      /\ \A n \in o.lost : Awaits(q, n) = {}
  BY DEF IsOutput, Ends
<1> HIDE DEF q, t, due, p
<1>7. \A n \in Note : Awaits(t, n) = Awaits(q, n) \ due
  <2>1. SUFFICES ASSUME NEW n \in Note PROVE Awaits(t, n) = Awaits(q, n) \ due
    OBVIOUS
  <2>2. /\ Awaits(t, n) = {i \in ToSet(rest) : t.entries[i].note = n}
        /\ Awaits(q, n) = {i \in ToSet(order) : q.entries[i].note = n}
    BY <1>1, <1>4, AwaitsOnList
  <2>3. QED
    BY <1>4, <2>2
<1>8. ASSUME NEW n \in p.sounding \ p.lost PROVE \E i : Awaits(t, n) = {i}
  <2>1. n \in o.sounding \ o.lost /\ n \notin Ended(q, due) /\ n \in Note
    BY <1>5, <1>6
  <2>2. PICK i : Awaits(q, n) = {i}
    BY <1>6, <2>1
  <2>3. i \notin due
    BY <2>1, <2>2 DEF Awaits, Ended
  <2>4. QED
    BY <1>7, <2>1, <2>2, <2>3
<1>9. \A n \in p.lost : Awaits(t, n) = {}
  BY <1>5, <1>6, <1>7
<1>10. IsOutput(p)
  BY <1>4, <1>5, <1>6, <1>8, <1>9 DEF IsOutput, Ends
<1>11. QED
  BY <1>5, <1>10 DEF p

(* FlushQueue ends whatever waits. *)
LEMMA FlushEnds ==
  ASSUME NEW o, IsOutput(o)
  PROVE  /\ IsOutput(Flushed(o)) /\ Flushed(o).queue = EmptyQueue
         /\ Flushed(o).sounding \subseteq o.sounding
<1> DEFINE q == o.queue
           p == Flushed(o)
<1>1. PICK order : QueueRep(q, order, Note, Latest)
  BY DEF IsOutput
<1>2. Latest \in Nat
  BY Ranges
<1>3. Order(q) = order
  BY <1>1, <1>2, QueueRepFacts
<1>4. /\ p.queue = EmptyQueue /\ p.sounding = o.sounding \ Ended(q, ToSet(order)) /\ p.lost = o.lost
      /\ p = [queue |-> p.queue, sounding |-> p.sounding, lost |-> p.lost]
  <2>1. o = [queue |-> o.queue, sounding |-> o.sounding, lost |-> o.lost]
    BY DEF IsOutput
  <2>2. p = [o EXCEPT !.queue = EmptyQueue, !.sounding = @ \ Ended(o.queue, ToSet(order))]
    BY <1>3 DEF Flushed
  <2> HIDE DEF p
  <2>3. p = [queue |-> EmptyQueue, sounding |-> o.sounding \ Ended(q, ToSet(order)), lost |-> o.lost]
    BY <2>1, <2>2
  <2>4. QED
    BY <2>3
<1>5. /\ o.sounding \subseteq Note /\ o.lost \subseteq Note
      /\ \A n \in o.sounding \ o.lost : \E i : Awaits(q, n) = {i}
  BY DEF IsOutput, Ends
<1> HIDE DEF q, p
<1>6. \A n \in Note : Awaits(EmptyQueue, n) = {}
  BY NotesAreNoMarks DEF Awaits, EmptyQueue, FreeEntry
<1>7. p.sounding \ p.lost = {}
  <2>1. SUFFICES ASSUME NEW n \in o.sounding \ o.lost PROVE n \in Ended(q, ToSet(order))
    BY <1>4
  <2>2. PICK i : Awaits(q, n) = {i}
    BY <1>5
  <2>3. i \in ToSet(order) /\ q.entries[i].note = n
    BY <1>1, <1>5, <2>2, AwaitsOnList
  <2>4. QED
    BY <2>3 DEF Ended
<1>8. QueueRep(EmptyQueue, <<>>, Note, Latest)
  BY <1>2, EmptyQueueRep
<1>9. IsOutput(p)
  BY <1>4, <1>5, <1>6, <1>7, <1>8 DEF IsOutput, Ends
<1>10. QED
  BY <1>4, <1>9 DEF p

-----------------------------------------------------------------------------
(* The keys that a stack holds. *)
Keeps(s, order) ==
    /\ HeldNotes(s) = [k \in 1 .. Len(order) |-> s.pool[order[k]].note]
    /\ HeldNotes(s) \in Seq(Keys) /\ Len(HeldNotes(s)) = Len(order)
    /\ \A i, j \in 1 .. Len(order) : HeldNotes(s)[i] = HeldNotes(s)[j] => i = j
    /\ Len(order) \in 0 .. kNoteStackSize /\ Size(s) = Len(order)

LEMMA HeldNotesAre ==
  ASSUME NEW s, NEW order, StackRep(s, order)
  PROVE  Keeps(s, order)
<1>1. /\ PlayedSlots(s) = order
      /\ order \in Seq(1 .. kNoteStackSize) /\ Len(order) \in 0 .. kNoteStackSize
      /\ Len(s.sorted) = Len(order)
      /\ \A i \in 1 .. Len(order) :
           order[i] \in 1 .. kNoteStackSize /\ s.pool[order[i]].note \in Keys
      /\ \A x, y \in ToSet(order) : s.pool[x].note = s.pool[y].note => x = y
  BY StackRepFacts
<1>2. DOMAIN order = 1 .. Len(order)
  BY <1>1
<1>3. HeldNotes(s) = [k \in 1 .. Len(order) |-> s.pool[order[k]].note]
  BY <1>1, <1>2 DEF HeldNotes
<1>4. HeldNotes(s) \in [1 .. Len(order) -> Keys] /\ Len(order) \in Nat
  BY <1>1, <1>3
<1>5. HeldNotes(s) \in Seq(Keys) /\ Len(HeldNotes(s)) = Len(order)
  BY <1>4
<1>6. \A i \in 1 .. Len(order) : order[i] \in ToSet(order)
  BY <1>2 DEF ToSet
<1>7. \A i, j \in 1 .. Len(order) : order[i] = order[j] => i = j
  BY <1>2 DEF StackRep, StackChain, IsInjective
<1>8. \A i, j \in 1 .. Len(order) : HeldNotes(s)[i] = HeldNotes(s)[j] => i = j
  BY <1>1, <1>3, <1>6, <1>7
<1>9. QED
  BY <1>1, <1>3, <1>5, <1>8 DEF Keeps, Size

(* The first of distinct elements is the only one. *)
LEMMA RemoveFirstAt ==
  ASSUME NEW S, NEW q \in Seq(S), NEW k \in 1 .. Len(q),
         \A i, j \in 1 .. Len(q) : q[i] = q[j] => i = j
  PROVE  RemoveFirst(q, q[k]) = RemoveAt(q, k)
<1>1. q[k] \in ToSet(q)
  BY DEF ToSet
<1>2. PICK j \in 1 .. Len(q) : q[j] = q[k] /\ RemoveFirst(q, q[k]) = RemoveAt(q, j)
  BY <1>1, RemoveFirstIs
<1>3. QED
  BY <1>2

LEMMA RemoveFirstAbsent ==
  ASSUME NEW S, NEW q \in Seq(S), NEW e, \A i \in 1 .. Len(q) : q[i] # e
  PROVE  RemoveFirst(q, e) = q
  BY DEF RemoveFirst

(* The slot at place k is released: so is the key at that place. *)
LEMMA HeldWithoutSlot ==
  ASSUME NEW s, NEW order, StackRep(s, order), NEW k \in 1 .. Len(order)
  PROVE  /\ StackRep(NoteOff(s, s.pool[order[k]].note), RemoveAt(order, k))
         /\ HeldNotes(NoteOff(s, s.pool[order[k]].note)) = RemoveAt(HeldNotes(s), k)
<1> DEFINE c == order[k]
           t == NoteOff(s, s.pool[c].note)
           r == RemoveAt(order, k)
           h == HeldNotes(s)
<1>1. StackRep(t, r)
  BY NoteOffRep
<1>2. \A i \in Pool : t.pool[i].note = IF i = c THEN kFreeSlot ELSE s.pool[i].note
  <2>1. /\ t = [pool |-> t.pool, root |-> t.root, sorted |-> t.sorted]
        /\ t.pool \in [Pool -> [note : Keys \cup {kFreeSlot}, next : Pool]]
        /\ \A i \in Pool : t.pool[i].note = IF i = c THEN kFreeSlot ELSE s.pool[i].note
        /\ \A i \in Pool : t.pool[i].next =
             IF i = c THEN 0
             ELSE IF k # 1 /\ i = order[k - 1] THEN s.pool[c].next ELSE s.pool[i].next
        /\ t.root = IF k = 1 THEN s.pool[c].next ELSE s.root
        /\ t.sorted = RemoveFirst(s.sorted, c)
    BY NoteOffFields
  <2>2. QED
    BY <2>1
<1>3. Keeps(s, order) /\ Keeps(t, r)
  BY <1>1, HeldNotesAre
<1>4. order \in Seq(1 .. kNoteStackSize) /\ Len(order) \in Nat
  BY StackRepFacts
<1> HIDE DEF t
<1>5. /\ r \in Seq(1 .. kNoteStackSize) /\ Len(r) = Len(order) - 1
      /\ \A i \in 1 .. Len(order) - 1 : r[i] = IF i < k THEN order[i] ELSE order[i + 1]
  BY <1>4, RemoveAtElements
<1> HIDE DEF r
<1>6. /\ h \in Seq(Keys) /\ Len(h) = Len(order)
      /\ \A i \in 1 .. Len(order) : h[i] = s.pool[order[i]].note
  BY <1>3 DEF Keeps
<1>7. /\ HeldNotes(t) \in Seq(Keys) /\ Len(HeldNotes(t)) = Len(order) - 1
      /\ \A i \in 1 .. Len(order) - 1 : HeldNotes(t)[i] = t.pool[r[i]].note
  BY <1>3, <1>5 DEF Keeps
<1> HIDE DEF h
<1>8. /\ RemoveAt(h, k) \in Seq(Keys) /\ Len(RemoveAt(h, k)) = Len(order) - 1
      /\ \A i \in 1 .. Len(order) - 1 : RemoveAt(h, k)[i] = IF i < k THEN h[i] ELSE h[i + 1]
  <2>1. k \in 1 .. Len(h)
    BY <1>6
  <2>2. QED
    BY <1>6, <2>1, RemoveAtElements
<1>9. ASSUME NEW i \in 1 .. Len(order) - 1 PROVE HeldNotes(t)[i] = RemoveAt(h, k)[i]
  <2> DEFINE j == IF i < k THEN i ELSE i + 1
  <2>1. j \in 1 .. Len(order) /\ j # k
    BY <1>4
  <2>2. r[i] = order[j] /\ RemoveAt(h, k)[i] = h[j]
    BY <1>5, <1>8
  <2> HIDE DEF j
  <2>3. \A a, b \in 1 .. Len(order) : order[a] = order[b] => a = b
    BY <1>4 DEF StackRep, StackChain, IsInjective
  <2>4. order[j] # c
    BY <2>1, <2>3
  <2>5. order[j] \in Pool
    <3>1. order[j] \in 1 .. kNoteStackSize
      BY <1>4, <2>1, ElementOfSeq
    <3>2. QED
      BY <3>1, StackTypeIs
  <2>6. t.pool[order[j]].note = s.pool[order[j]].note
    BY <1>2, <2>4, <2>5
  <2>7. QED
    BY <1>6, <1>7, <2>1, <2>2, <2>6
<1>10. HeldNotes(t) = RemoveAt(h, k)
  BY <1>7, <1>8, <1>9, SeqEqual
<1>11. QED
  BY <1>1, <1>10 DEF t, r, h

(* The release of a key takes it from the keys that are held. *)
Releases(s, t, order, note) ==
    /\ StackRep(t, order) /\ HeldNotes(t) = RemoveFirst(HeldNotes(s), note)
    /\ \A i \in 1 .. Len(order) : t.pool[order[i]].note # note

LEMMA NoteOffReleases ==
  ASSUME NEW s, NEW order, StackRep(s, order), NEW note \in Keys
  PROVE  \E rest : Releases(s, NoteOff(s, note), rest, note)
<1> DEFINE h == HeldNotes(s)
<1>1. Keeps(s, order)
  BY HeldNotesAre
<1>2. /\ h \in Seq(Keys) /\ Len(h) = Len(order)
      /\ \A i \in 1 .. Len(order) : h[i] = s.pool[order[i]].note
      /\ \A i, j \in 1 .. Len(order) : h[i] = h[j] => i = j
  BY <1>1 DEF Keeps
<1> HIDE DEF h
<1>3. CASE \A i \in 1 .. Len(order) : s.pool[order[i]].note # note
  <2>1. NoteOff(s, note) = s
    BY <1>3, NoteOffAbsent
  <2>2. RemoveFirst(h, note) = h
    BY <1>2, <1>3, RemoveFirstAbsent
  <2>3. Releases(s, NoteOff(s, note), order, note)
    BY <1>3, <2>1, <2>2 DEF Releases, h
  <2>4. QED
    BY <2>3
<1>4. ASSUME NEW k \in 1 .. Len(order), s.pool[order[k]].note = note
      PROVE  \E rest : Releases(s, NoteOff(s, note), rest, note)
  <2> DEFINE t == NoteOff(s, note)
             r == RemoveAt(order, k)
  <2>1. StackRep(t, r) /\ HeldNotes(t) = RemoveAt(h, k)
    BY <1>4, HeldWithoutSlot DEF h
  <2>2. RemoveFirst(h, note) = RemoveAt(h, k)
    <3>1. k \in 1 .. Len(h) /\ h[k] = note
      BY <1>2, <1>4
    <3>2. RemoveFirst(h, h[k]) = RemoveAt(h, k)
      BY <1>2, <3>1, RemoveFirstAt
    <3>3. QED
      BY <3>1, <3>2
  <2>3. Keeps(t, r)
    BY <2>1, HeldNotesAre
  <2> HIDE DEF t
  <2>4. order \in Seq(1 .. kNoteStackSize) /\ Len(order) \in Nat
    BY StackRepFacts
  <2>5. Len(r) = Len(order) - 1
    BY <2>4, RemoveAtElements
  <2> HIDE DEF r
  <2>6. /\ Len(RemoveAt(h, k)) = Len(order) - 1
        /\ \A i \in 1 .. Len(order) - 1 : RemoveAt(h, k)[i] = IF i < k THEN h[i] ELSE h[i + 1]
    <3>1. k \in 1 .. Len(h)
      BY <1>2
    <3>2. QED
      BY <1>2, <3>1, RemoveAtElements
  <2>7. ASSUME NEW i \in 1 .. Len(r) PROVE t.pool[r[i]].note # note
    <3> DEFINE j == IF i < k THEN i ELSE i + 1
    <3>1. j \in 1 .. Len(order) /\ j # k /\ i \in 1 .. Len(order) - 1
      BY <2>4, <2>5
    <3>2. t.pool[r[i]].note = HeldNotes(t)[i]
      BY <2>3 DEF Keeps
    <3>3. HeldNotes(t)[i] = h[j]
      BY <2>1, <2>6, <3>1
    <3> HIDE DEF j
    <3>4. h[j] # h[k] /\ h[k] = note
      BY <1>2, <1>4, <3>1
    <3>5. QED
      BY <3>2, <3>3, <3>4
  <2>8. Releases(s, t, r, note)
    BY <2>1, <2>2, <2>7 DEF Releases, h
  <2>9. QED
    BY <2>8 DEF t
<1>5. QED
  BY <1>3, <1>4

(* Making room in a full stack forgets the key that was pressed first. *)
Rooms(u, room, kept, note) ==
    /\ StackRep(room, kept) /\ Len(kept) < kNoteStackSize
    /\ Len(kept) = IF Len(HeldNotes(u)) = kNoteStackSize THEN kNoteStackSize - 1
                   ELSE Len(HeldNotes(u))
    /\ \A i \in 1 .. Len(kept) : room.pool[kept[i]].note = HeldNotes(u)[i]
    /\ \A i \in 1 .. Len(kept) : room.pool[kept[i]].note # note

LEMMA MakeRoomForgets ==
  ASSUME NEW u, NEW order, StackRep(u, order), NEW note \in Keys,
         \A i \in 1 .. Len(order) : u.pool[order[i]].note # note
  PROVE  \E kept : Rooms(u, MakeRoom(u), kept, note)
<1> DEFINE K == kNoteStackSize
           h == HeldNotes(u)
           room == MakeRoom(u)
<1>1. Keeps(u, order)
  BY HeldNotesAre
<1>2. /\ h \in Seq(Keys) /\ Len(h) = Len(order) /\ Len(order) \in 0 .. K
      /\ \A i \in 1 .. Len(order) : h[i] = u.pool[order[i]].note
  BY <1>1 DEF Keeps
<1>3. K \in Nat /\ K >= 1
  BY Ranges
<1>4. room = IF Len(order) = K THEN NoteOff(u, u.pool[order[K]].note) ELSE u
  BY MakeRoomIs
<1> HIDE DEF room, h
<1>5. CASE Len(order) # K
  <2>1. Len(order) < K /\ room = u
    BY <1>2, <1>3, <1>4, <1>5
  <2>2. Rooms(u, room, order, note)
    BY <1>2, <1>5, <2>1 DEF Rooms, h
  <2>3. QED
    BY <2>2 DEF room
<1>6. CASE Len(order) = K
  <2> DEFINE r == RemoveAt(order, K)
  <2>1. K \in 1 .. Len(order)
    BY <1>3, <1>6
  <2>2. StackRep(room, r) /\ HeldNotes(room) = RemoveAt(h, K)
    BY <1>4, <1>6, <2>1, HeldWithoutSlot DEF h
  <2>3. Keeps(room, r)
    BY <2>2, HeldNotesAre
  <2>4. order \in Seq(1 .. K)
    BY StackRepFacts
  <2>5. Len(r) = K - 1
    BY <1>6, <2>1, <2>4, RemoveAtElements
  <2> HIDE DEF r
  <2>6. \A i \in 1 .. K - 1 : RemoveAt(h, K)[i] = IF i < K THEN h[i] ELSE h[i + 1]
    <3>1. K \in 1 .. Len(h) /\ Len(h) = K
      BY <1>2, <1>6, <2>1
    <3>2. \A i \in 1 .. Len(h) - 1 : RemoveAt(h, K)[i] = IF i < K THEN h[i] ELSE h[i + 1]
      BY <1>2, <3>1, RemoveAtElements
    <3>3. QED
      BY <3>1, <3>2
  <2>7. ASSUME NEW i \in 1 .. Len(r)
        PROVE  room.pool[r[i]].note = h[i] /\ room.pool[r[i]].note # note
    <3>1. i \in 1 .. K - 1 /\ i < K /\ i \in 1 .. Len(order)
      BY <1>3, <1>6, <2>5
    <3>2. room.pool[r[i]].note = HeldNotes(room)[i]
      BY <2>3 DEF Keeps
    <3>3. HeldNotes(room)[i] = h[i]
      BY <2>2, <2>6, <3>1
    <3>4. h[i] # note
      BY <1>2, <3>1
    <3>5. QED
      BY <3>2, <3>3, <3>4
  <2>8. Len(r) < K
    BY <1>3, <2>5
  <2>9. Rooms(u, room, r, note)
    BY <1>2, <1>6, <2>2, <2>5, <2>7, <2>8 DEF Rooms, h
  <2>10. QED
    BY <2>9 DEF room
<1>7. QED
  BY <1>5, <1>6

(* A key that is pressed comes first, and the others move back. *)
Presses(s, t, order, note) ==
    /\ StackRep(t, order)
    /\ HeldNotes(t) = HeldKeysSpec!First(<<note>> \o RemoveFirst(HeldNotes(s), note), kNoteStackSize)

LEMMA NoteOnPresses ==
  ASSUME NEW s, NEW order, StackRep(s, order), NEW note \in Keys
  PROVE  \E new : Presses(s, NoteOn(s, note), new, note)
<1> DEFINE K == kNoteStackSize
           u == NoteOff(s, note)
           room == MakeRoom(u)
           t == NoteOn(s, note)
           slot == Max(FreeSlots(room))
           w == HeldNotes(u)
<1>1. PICK rest : Releases(s, u, rest, note)
  BY NoteOffReleases
<1>2. /\ StackRep(u, rest) /\ w = RemoveFirst(HeldNotes(s), note)
      /\ \A i \in 1 .. Len(rest) : u.pool[rest[i]].note # note
  BY <1>1 DEF Releases
<1>3. PICK kept : Rooms(u, room, kept, note)
  BY <1>2, MakeRoomForgets
<1>4. /\ StackRep(room, kept) /\ Len(kept) < K
      /\ Len(kept) = IF Len(w) = K THEN K - 1 ELSE Len(w)
      /\ \A i \in 1 .. Len(kept) : room.pool[kept[i]].note = w[i]
      /\ \A i \in 1 .. Len(kept) : room.pool[kept[i]].note # note
  BY <1>3 DEF Rooms
<1> DEFINE new == InsertAt(kept, 1, slot)
<1>5. /\ StackRep(t, new) /\ slot \in 1 .. K /\ slot \notin ToSet(kept)
      /\ \A i \in Pool : t.pool[i].note = IF i = slot THEN note ELSE room.pool[i].note
  BY <1>4, NoteOnRep
<1>6. Keeps(u, rest) /\ Keeps(t, new)
  BY <1>2, <1>5, HeldNotesAre
<1> HIDE DEF t, u, room, slot
<1>7. w \in Seq(Keys) /\ Len(w) \in 0 .. K
  BY <1>6 DEF Keeps
<1>8. kept \in Seq(1 .. K) /\ Len(kept) \in Nat
  BY <1>4, StackRepFacts
<1>9. Inserted(new, kept, 1, slot, 1 .. K)
  <2>1. 1 \in 1 .. Len(kept) + 1
    BY <1>8
  <2>2. QED
    BY <1>5, <1>8, <2>1, InsertAtElements
<1> HIDE DEF new, w
<1>10. /\ Len(new) = Len(kept) + 1 /\ new[1] = slot
       /\ \A i \in 2 .. Len(kept) + 1 : new[i] = kept[i - 1]
  BY <1>8, <1>9 DEF Inserted
<1>11. /\ HeldNotes(t) \in Seq(Keys) /\ Len(HeldNotes(t)) = Len(kept) + 1
       /\ \A i \in 1 .. Len(kept) + 1 : HeldNotes(t)[i] = t.pool[new[i]].note
  BY <1>6, <1>10 DEF Keeps
<1>12. HeldNotes(t)[1] = note
  BY <1>5, <1>8, <1>10, <1>11, StackTypeIs
<1>13. ASSUME NEW i \in 2 .. Len(kept) + 1 PROVE HeldNotes(t)[i] = w[i - 1]
  <2>1. i - 1 \in 1 .. Len(kept) /\ i \in 1 .. Len(kept) + 1
    BY <1>8
  <2>2. kept[i - 1] \in 1 .. K /\ kept[i - 1] \in ToSet(kept)
    <3>1. kept[i - 1] \in 1 .. K
      BY <1>8, <2>1, ElementOfSeq
    <3>2. i - 1 \in DOMAIN kept
      BY <1>8, <2>1
    <3>3. QED
      BY <3>1, <3>2 DEF ToSet
  <2>3. kept[i - 1] \in Pool /\ kept[i - 1] # slot
    BY <1>5, <2>2, StackTypeIs
  <2>4. t.pool[kept[i - 1]].note = w[i - 1]
    BY <1>4, <1>5, <2>1, <2>3
  <2>5. QED
    BY <1>10, <1>11, <2>1, <2>4
<1> DEFINE v == <<note>> \o w
           m == IF Len(v) < K THEN Len(v) ELSE K
<1>14. v \in Seq(Keys) /\ Len(v) = Len(w) + 1 /\ v[1] = note
       /\ \A i \in 2 .. Len(w) + 1 : v[i] = w[i - 1]
  BY <1>7
<1> HIDE DEF v
<1>15. m = Len(kept) + 1 /\ m <= Len(v) /\ m \in Nat /\ m >= 1
  BY <1>4, <1>7, <1>8, <1>14, Ranges
<1> HIDE DEF m
<1>16. /\ SubSeq(v, 1, m) \in Seq(Keys) /\ Len(SubSeq(v, 1, m)) = m
       /\ \A i \in 1 .. m : SubSeq(v, 1, m)[i] = v[i]
  BY <1>14, <1>15, SubSeqProperties
<1>17. ASSUME NEW i \in 1 .. m PROVE HeldNotes(t)[i] = SubSeq(v, 1, m)[i]
  <2>1. i = 1 \/ i \in 2 .. Len(kept) + 1
    BY <1>15
  <2>2. i \in 2 .. Len(kept) + 1 => i \in 2 .. Len(w) + 1
    BY <1>8, <1>7, <1>14, <1>15
  <2>3. QED
    BY <1>12, <1>13, <1>14, <1>16, <2>1, <2>2
<1>18. HeldNotes(t) = SubSeq(v, 1, m)
  BY <1>11, <1>15, <1>16, <1>17, SeqEqual
<1>19. HeldKeysSpec!First(v, K) = SubSeq(v, 1, m)
  BY DEF HeldKeysSpec!First, m
<1>20. Presses(s, t, new, note)
  BY <1>2, <1>5, <1>18, <1>19 DEF Presses, v, w
<1>21. QED
  BY <1>20 DEF t

(* What the two views of the stack answer is a key that is held. *)
LEMMA SortedIsHeld ==
  ASSUME NEW s, NEW order, StackRep(s, order), NEW i \in 0 .. Size(s) - 1
  PROVE  SortedNote(s, i) \in Keys /\ \E k \in DOMAIN HeldNotes(s) : HeldNotes(s)[k] = SortedNote(s, i)
<1>1. /\ order \in Seq(1 .. kNoteStackSize) /\ Len(order) \in Nat
      /\ s.sorted \in Seq(1 .. kNoteStackSize) /\ Len(s.sorted) = Len(order)
      /\ \A j \in 1 .. Len(order) :
           s.sorted[j] \in 1 .. kNoteStackSize /\ s.pool[s.sorted[j]].note \in Keys
  BY StackRepFacts
<1>2. /\ HeldNotes(s) = [k \in 1 .. Len(order) |-> s.pool[order[k]].note]
      /\ Size(s) = Len(order)
  <2>1. Keeps(s, order)
    BY HeldNotesAre
  <2>2. QED
    BY <2>1 DEF Keeps
<1>3. i + 1 \in 1 .. Len(order)
  BY <1>1, <1>2
<1> DEFINE x == s.sorted[i + 1]
<1>4. x \in 1 .. kNoteStackSize /\ s.pool[x].note \in Keys /\ x \in ToSet(s.sorted)
  <2>1. i + 1 \in DOMAIN s.sorted
    BY <1>1, <1>3
  <2>2. QED
    BY <1>1, <1>3, <2>1 DEF ToSet
<1>5. x \in ToSet(order)
  BY <1>4 DEF StackRep, Occupies
<1>6. PICK k \in 1 .. Len(order) : order[k] = x
  BY <1>1, <1>5 DEF ToSet
<1>7. HeldNotes(s)[k] = s.pool[x].note /\ k \in DOMAIN HeldNotes(s)
  BY <1>2, <1>6
<1>8. QED
  BY <1>4, <1>7 DEF SortedNote

LEMMA PlayedIsHeld ==
  ASSUME NEW s, NEW order, StackRep(s, order), Size(s) > 0, NEW index \in Int
  PROVE  /\ PlayedNote(s, index) \in Keys
         /\ \E k \in DOMAIN HeldNotes(s) : HeldNotes(s)[k] = PlayedNote(s, index)
<1>1. /\ PlayedSlots(s) = order /\ Len(order) \in Nat
      /\ \A i \in 1 .. Len(order) : s.pool[order[i]].note \in Keys
  BY StackRepFacts
<1>2. /\ HeldNotes(s) = [k \in 1 .. Len(order) |-> s.pool[order[k]].note]
      /\ Size(s) = Len(order)
  <2>1. Keeps(s, order)
    BY HeldNotesAre
  <2>2. QED
    BY <2>1 DEF Keeps
<1>3. Len(order) # 0 => s.root = order[1]
  BY DEF StackRep, StackChain
<1> DEFINE k == IF index \in 0 .. Size(s) - 1 THEN Size(s) - index ELSE 1
<1>4. k \in 1 .. Len(order)
  BY <1>1, <1>2
<1>5. PlayedNote(s, index) = s.pool[order[k]].note
  BY <1>1, <1>2, <1>3 DEF PlayedNote
<1> HIDE DEF k
<1>6. HeldNotes(s)[k] = s.pool[order[k]].note /\ k \in DOMAIN HeldNotes(s)
  BY <1>2, <1>4
<1>7. QED
  BY <1>1, <1>4, <1>5, <1>6

-----------------------------------------------------------------------------
(* The position in the arpeggio.  Without the rotating directions the first *)
(* key played stays the first.                                              *)
NoRotation == Directions \cap Rotating = {}
IsAt(p) == p \in Position /\ (NoRotation => p.start = 0)

LEMMA Transposed ==
  ASSUME NEW key \in Int, NEW up \in Int
  PROVE  LET note == Folded((key + up) % 256)
         IN  note \in Note /\ (key + up \in 0 .. 255 => \E c \in Int : note = key + up + 12 * c)
<1> DEFINE x == (key + up) % 256
<1>1. x \in 0 .. 255 /\ (key + up \in 0 .. 255 => x = key + up)
  <2>1. \A y \in Int : y % 256 \in 0 .. 255
    OBVIOUS
  <2>2. \A y \in 0 .. 255 : y % 256 = y
    OBVIOUS
  <2>3. key + up \in Int
    OBVIOUS
  <2>4. QED
    BY <2>1, <2>2, <2>3
<1> HIDE DEF x
<1>2. CASE x <= 127
  <2>1. Folded(x) = x
    BY <1>2 DEF Folded
  <2>2. Folded(x) \in Note /\ Folded(x) = x + 12 * 0 /\ 0 \in Int
    BY <1>1, <1>2, <2>1 DEF Note
  <2>3. key + up \in 0 .. 255 => \E c \in Int : Folded(x) = key + up + 12 * c
    BY <1>1, <2>2
  <2>4. QED
    BY <2>2, <2>3 DEF x
<1>3. CASE x > 127
  <2> DEFINE d == (x - 116) \div 12
  <2>1. d \in Int /\ 12 * d <= x - 116 /\ x - 116 < 12 * d + 12
    BY <1>1, <1>3
  <2>2. Folded(x) = x - 12 * d
    BY <1>1, <1>3 DEF Folded
  <2> HIDE DEF d
  <2>3. Folded(x) \in Note /\ Folded(x) = x + 12 * (-d) /\ -d \in Int
    BY <1>1, <2>1, <2>2 DEF Note
  <2>4. key + up \in 0 .. 255 => \E c \in Int : Folded(x) = key + up + 12 * c
    BY <1>1, <2>3
  <2>5. QED
    BY <2>3, <2>4 DEF x
<1>4. QED
  BY <1>1, <1>2, <1>3

LEMMA PositionIs ==
  ASSUME NEW p \in Position
  PROVE  /\ p = [step |-> p.step, start |-> p.start, octave |-> p.octave, direction |-> p.direction]
         /\ p.step \in 0 .. kNoteStackSize - 1 /\ p.start \in 0 .. kNoteStackSize - 1
         /\ p.octave \in (0 .. Octaves - 1) \cup {NotStarted} /\ p.direction \in {-1, 1}
  BY DEF Position

LEMMA StartArpeggioAt ==
  ASSUME NEW p, IsAt(p)
  PROVE  /\ IsAt(StartArpeggio(p)) /\ StartArpeggio(p).octave \in 0 .. Octaves - 1
         /\ StartArpeggio(p).step = 0 /\ StartArpeggio(p).start = 0
         /\ StartArpeggio(p).direction = p.direction
         /\ StartArpeggio(p).octave = IF p.direction = 1 THEN 0 ELSE Octaves - 1
<1>1. /\ p = [step |-> p.step, start |-> p.start, octave |-> p.octave, direction |-> p.direction]
      /\ p.direction \in {-1, 1}
  BY PositionIs DEF IsAt
<1>2. StartArpeggio(p) = [step |-> 0, start |-> 0, octave |-> IF p.direction = 1 THEN 0 ELSE Octaves - 1,
                          direction |-> p.direction]
  <2> DEFINE o == IF p.direction = 1 THEN 0 ELSE Octaves - 1
  <2>1. StartArpeggio(p) = [p EXCEPT !.step = 0, !.start = 0, !.octave = o]
    BY DEF StartArpeggio
  <2> HIDE DEF o
  <2>2. StartArpeggio(p) = [step |-> 0, start |-> 0, octave |-> o, direction |-> p.direction]
    BY <1>1, <2>1
  <2>3. QED
    BY <2>2 DEF o
<1>3. 0 \in 0 .. kNoteStackSize - 1 /\ 0 \in 0 .. Octaves - 1 /\ Octaves - 1 \in 0 .. Octaves - 1
  BY Ranges
<1>4. QED
  BY <1>1, <1>2, <1>3 DEF IsAt, Position

(* One step on, with n keys held. *)
LEMMA AdvancedIs ==
  ASSUME NEW p, IsAt(p), NEW n \in 1 .. kNoteStackSize, direction \in Directions
  PROVE  /\ Advanced(p, n) = [step |-> Advanced(p, n).step, start |-> Advanced(p, n).start,
                              octave |-> Advanced(p, n).octave, direction |-> p.direction]
         /\ Advanced(p, n).step \in 0 .. n - 1 /\ Advanced(p, n).start \in 0 .. kNoteStackSize - 1
         /\ Advanced(p, n).step = IF p.step + 1 >= n THEN 0 ELSE p.step + 1
         /\ Advanced(p, n).octave =
              IF p.step + 1 >= n /\ (direction \in Rotating => p.start + 1 >= n)
              THEN p.octave + p.direction ELSE p.octave
         /\ NoRotation => Advanced(p, n).start = 0
<1>1. /\ p = [step |-> p.step, start |-> p.start, octave |-> p.octave, direction |-> p.direction]
      /\ p.step \in Nat /\ p.start \in 0 .. kNoteStackSize - 1
  BY PositionIs DEF IsAt
<1>2. kNoteStackSize \in Nat /\ n \in Nat /\ n >= 1 /\ n <= kNoteStackSize
  BY Ranges
<1> DEFINE wraps == p.step + 1 >= n
           rotates == wraps /\ direction \in Rotating
           around == p.start + 1 >= n
           step == IF wraps THEN 0 ELSE p.step + 1
           start == IF ~rotates THEN p.start ELSE IF around THEN 0 ELSE p.start + 1
           octave == IF wraps /\ (rotates => around) THEN p.octave + p.direction ELSE p.octave
<1>3. Advanced(p, n) = [step |-> step, start |-> start, octave |-> octave, direction |-> p.direction]
  <2>1. Advanced(p, n) = [p EXCEPT !.step = IF wraps THEN 0 ELSE @ + 1,
                            !.start = IF ~rotates THEN @ ELSE IF around THEN 0 ELSE @ + 1,
                            !.octave = IF wraps /\ (rotates => around) THEN @ + p.direction ELSE @]
    BY DEF Advanced
  <2> HIDE DEF wraps, rotates, around
  <2>2. QED
    BY <1>1, <2>1
<1>4. step \in 0 .. n - 1
  BY <1>1, <1>2
<1>5. start \in 0 .. kNoteStackSize - 1
  BY <1>1, <1>2
<1>6. NoRotation => start = 0
  BY DEF IsAt, NoRotation
<1>7. octave = IF p.step + 1 >= n /\ (direction \in Rotating => p.start + 1 >= n)
               THEN p.octave + p.direction ELSE p.octave
  OBVIOUS
<1>8. step = IF p.step + 1 >= n THEN 0 ELSE p.step + 1
  OBVIOUS
<1> HIDE DEF step, start, octave
<1>9. QED
  BY <1>3, <1>4, <1>5, <1>6, <1>7, <1>8

(* Wherever the step leads, it leads into the range of octaves and of keys. *)
Reaches(next, n) ==
    /\ IsAt(next) /\ next.octave \in 0 .. Octaves - 1
    /\ NoRotation => next.step \in 0 .. n - 1

LEMMA StepArpeggioReaches ==
  ASSUME NEW p, IsAt(p), NEW n \in 1 .. kNoteStackSize, direction \in Directions,
         NEW next \in StepArpeggio(p, n)
  PROVE  Reaches(next, n)
<1>1. kNoteStackSize \in Nat /\ Octaves \in 1 .. 3 /\ n \in Nat /\ n >= 1 /\ n <= kNoteStackSize
  BY Ranges
<1>2. /\ p = [step |-> p.step, start |-> p.start, octave |-> p.octave, direction |-> p.direction]
      /\ p.direction \in {-1, 1} /\ p.start \in 0 .. kNoteStackSize - 1
      /\ p.octave \in (0 .. Octaves - 1) \cup {NotStarted}
  BY PositionIs DEF IsAt
<1> DEFINE on == Advanced(p, n)
<1>3. /\ on = [step |-> on.step, start |-> on.start, octave |-> on.octave, direction |-> p.direction]
      /\ on.step \in 0 .. n - 1 /\ on.start \in 0 .. kNoteStackSize - 1
      /\ NoRotation => on.start = 0
  BY AdvancedIs
<1> DEFINE back == [on EXCEPT !.direction = -@]
           turned == StartArpeggio(back)
<1> HIDE DEF on
<1>4. on.step \in 0 .. kNoteStackSize - 1 /\ 0 \in 0 .. n - 1 /\ 0 \in 0 .. Octaves - 1
  BY <1>1, <1>3
<1>5. ASSUME NEW x, IsAt(x) PROVE Reaches(StartArpeggio(x), n)
  BY <1>4, <1>5, StartArpeggioAt DEF Reaches
<1>6. CASE p.octave = NotStarted
  <2>1. next = StartArpeggio(p)
    BY <1>6 DEF StepArpeggio
  <2>2. QED
    BY <1>5, <2>1
<1>7. CASE p.octave # NotStarted /\ direction = "RANDOM"
  <2>1. next \in [step : 0 .. n - 1, start : {p.start}, octave : 0 .. Octaves - 1,
                  direction : {p.direction}]
    BY <1>7 DEF StepArpeggio
  <2>3. next = [step |-> next.step, start |-> p.start, octave |-> next.octave,
                direction |-> p.direction]
    BY <2>1
  <2>4. next.step \in 0 .. n - 1 /\ next.step \in 0 .. kNoteStackSize - 1
        /\ next.octave \in 0 .. Octaves - 1
    BY <1>1, <2>1
  <2>5. next \in Position
    BY <1>2, <2>3, <2>4 DEF Position
  <2>6. NoRotation => next.start = 0
    BY <2>3 DEF IsAt
  <2>7. QED
    BY <2>4, <2>5, <2>6 DEF Reaches, IsAt
<1>8. CASE on.octave \in 0 .. Octaves - 1 /\ next = on
  <2>1. on \in Position
    BY <1>2, <1>3, <1>4, <1>8 DEF Position
  <2>2. QED
    BY <1>3, <1>8, <2>1 DEF Reaches, IsAt
<1>9. p.octave # NotStarted => on.octave \in Int
  <2>1. p.octave # NotStarted => p.octave \in Int
    BY <1>2
  <2>2. on.octave = p.octave + p.direction \/ on.octave = p.octave
    BY AdvancedIs DEF on
  <2>3. QED
    BY <1>2, <2>1, <2>2
<1> DEFINE here == [on EXCEPT !.octave = 0]
<1>10. IsAt(here) /\ IsAt([here EXCEPT !.direction = -@])
  <2>1. here = [step |-> on.step, start |-> on.start, octave |-> 0, direction |-> p.direction]
    BY <1>3
  <2>2. [here EXCEPT !.direction = -@] =
          [step |-> on.step, start |-> on.start, octave |-> 0, direction |-> -p.direction]
    <3> HIDE DEF here
    <3>1. QED
      BY <2>1
  <2>3. -p.direction \in {-1, 1}
    BY <1>2
  <2> HIDE DEF here
  <2>4. QED
    BY <1>2, <1>3, <1>4, <2>1, <2>2, <2>3 DEF IsAt, Position
<1>11. /\ StartArpeggio(on) = StartArpeggio(here)
       /\ turned = StartArpeggio([here EXCEPT !.direction = -@])
  BY <1>3 DEF StartArpeggio
<1> HIDE DEF here
<1>12. Reaches(StartArpeggio(on), n) /\ Reaches(turned, n) /\ turned.step = 0 /\ turned.start = 0
       /\ turned.direction \in {-1, 1} /\ turned.octave = IF turned.direction = 1 THEN 0 ELSE Octaves - 1
  <2>1. IsAt(turned) /\ turned.step = 0 /\ turned.start = 0
    BY <1>10, <1>11, StartArpeggioAt
  <2>2. turned.octave = IF turned.direction = 1 THEN 0 ELSE Octaves - 1
    BY <1>10, <1>11, StartArpeggioAt
  <2>3. turned.direction \in {-1, 1}
    BY <2>1, PositionIs DEF IsAt
  <2> HIDE DEF turned
  <2>4. QED
    BY <1>5, <1>10, <1>11, <2>1, <2>2, <2>3
<1> HIDE DEF turned
<1>13. CASE next = Advanced(turned, n) /\ (n > 1 \/ Octaves > 1)
  <2>1. IsAt(turned)
    BY <1>12 DEF Reaches
  <2> DEFINE y == Advanced(turned, n)
  <2>2. /\ y = [step |-> y.step, start |-> y.start, octave |-> y.octave, direction |-> turned.direction]
        /\ y.step \in 0 .. n - 1 /\ y.start \in 0 .. kNoteStackSize - 1
        /\ NoRotation => y.start = 0
        /\ y.octave = IF turned.step + 1 >= n /\ (direction \in Rotating => turned.start + 1 >= n)
                      THEN turned.octave + turned.direction ELSE turned.octave
    BY <2>1, AdvancedIs
  <2> HIDE DEF y
  <2>3. y.octave \in 0 .. Octaves - 1
    <3>1. CASE n > 1
      <4>1. y.octave = turned.octave
        BY <1>12, <2>2, <3>1
      <4>2. QED
        BY <1>1, <1>12, <4>1
    <3>2. CASE n = 1
      <4>1. y.octave = turned.octave + turned.direction /\ Octaves > 1
        BY <1>1, <1>12, <1>13, <2>2, <3>2
      <4>2. CASE turned.direction = 1
        BY <1>1, <1>12, <4>1, <4>2
      <4>3. CASE turned.direction = -1
        BY <1>1, <1>12, <4>1, <4>3
      <4>4. QED
        BY <1>12, <4>2, <4>3
    <3>3. QED
      BY <1>1, <3>1, <3>2
  <2>4. y.step \in 0 .. kNoteStackSize - 1
    BY <1>1, <2>2
  <2>5. y \in Position
    BY <1>12, <2>2, <2>3, <2>4 DEF Position
  <2>6. next = y
    BY <1>13 DEF y
  <2>7. QED
    BY <2>2, <2>3, <2>5, <2>6 DEF Reaches, IsAt
<1>14. CASE p.octave # NotStarted /\ direction # "RANDOM"
  <2>1. \/ on.octave \in 0 .. Octaves - 1 /\ next = on
        \/ next = StartArpeggio(on)
        \/ next = Advanced(turned, n) /\ (n > 1 \/ Octaves > 1)
        \/ next = turned
    BY <1>14 DEF StepArpeggio, on, turned
  <2>2. QED
    BY <1>8, <1>12, <1>13, <2>1
<1>15. QED
  BY <1>6, <1>7, <1>14

-----------------------------------------------------------------------------
(* What may be played: without the rotating directions, held keys only, in  *)
(* whatever octave.                                                         *)
OfHeldKey(note) == \E k \in DOMAIN HeldNotes(stack) : (note - HeldNotes(stack)[k]) % 12 = 0
Playable == {note \in Note : NoRotation => OfHeldKey(note)}

LEMMA SortedPlayable ==
  ASSUME NEW order, StackRep(stack, order), NEW i \in 0 .. Size(stack) - 1
  PROVE  SortedNote(stack, i) \in Playable
<1>1. PICK k \in DOMAIN HeldNotes(stack) : HeldNotes(stack)[k] = SortedNote(stack, i)
  BY SortedIsHeld
<1>2. SortedNote(stack, i) \in Note
  BY SortedIsHeld, Ranges
<1>3. (SortedNote(stack, i) - HeldNotes(stack)[k]) % 12 = 0
  <2>1. \A x \in Note : (x - x) % 12 = 0
    BY DEF Note
  <2>2. QED
    BY <1>1, <1>2, <2>1
<1>4. QED
  BY <1>2, <1>3 DEF Playable, OfHeldKey

(* One note of a step, where it is not the whole chord. *)
LEMMA NotePlayable ==
  ASSUME NEW order, StackRep(stack, order), Size(stack) > 0, direction \in Directions,
         NEW p, Reaches(p, Size(stack)),
         NEW key \in KeysAt(Index(p, Size(stack)))
  PROVE  Folded((key + 12 * p.octave + Transposition(p, Size(stack))) % 256) \in Playable
<1> DEFINE n == Size(stack)
           T == Transposition(p, n)
           index == Index(p, n)
           up == 12 * p.octave + T
           note == Folded((key + up) % 256)
<1>1. /\ p.step \in Nat /\ p.start \in Nat /\ p.octave \in 0 .. 2 /\ p.direction \in {-1, 1}
      /\ NoRotation => p.start = 0 /\ p.step \in 0 .. n - 1
  <2>1. p \in Position /\ p.octave \in 0 .. Octaves - 1
        /\ (NoRotation => p.start = 0 /\ p.step \in 0 .. n - 1)
    BY DEF Reaches, IsAt
  <2>2. p.octave \in 0 .. 2
    BY <2>1, Ranges
  <2>3. QED
    BY <2>1, <2>2, PositionIs
<1>2. n \in Nat /\ n > 0
  <2>1. Keeps(stack, order)
    BY HeldNotesAre
  <2>2. QED
    BY <2>1, Ranges DEF Keeps
<1>3. T \in Int /\ (NoRotation => T = 0)
  <2>1. T \in {0, 12 * p.direction}
    BY DEF Transposition
  <2>2. CanTranspose \subseteq Rotating
    BY DEF CanTranspose, Rotating
  <2>3. NoRotation => direction \notin CanTranspose
    BY <2>2 DEF NoRotation
  <2>4. NoRotation => T = 0
    BY <2>3 DEF Transposition
  <2>5. 12 * p.direction \in Int
    BY <1>1
  <2>6. QED
    BY <2>1, <2>4, <2>5
<1>4. index \in Int /\ (NoRotation => index \in 0 .. n - 1)
  <2>1. index \in Int
    BY <1>1, <1>2 DEF Index
  <2>2. ASSUME NoRotation PROVE index \in 0 .. n - 1
    BY <1>1, <1>2, <2>2 DEF Index
  <2>3. QED
    BY <2>1, <2>2
<1> HIDE DEF T, index, n
<1>5. /\ key \in Int
      /\ NoRotation => key \in Note /\ \E k \in DOMAIN HeldNotes(stack) : HeldNotes(stack)[k] = key
  <2>1. CASE direction = "PLAYED"
    <3>1. key = PlayedNote(stack, index)
      BY <2>1 DEF KeysAt, index, n
    <3>2. key \in Keys /\ \E k \in DOMAIN HeldNotes(stack) : HeldNotes(stack)[k] = key
      BY <1>4, <3>1, PlayedIsHeld
    <3>3. key \in Note /\ key \in Int
      BY <3>2, Ranges DEF Note
    <3>4. QED
      BY <3>2, <3>3
  <2>2. CASE direction # "PLAYED" /\ index \in 0 .. Size(stack) - 1
    <3>1. key = SortedNote(stack, index)
      BY <2>2 DEF KeysAt, index, n
    <3>2. key \in Keys /\ \E k \in DOMAIN HeldNotes(stack) : HeldNotes(stack)[k] = key
      BY <2>2, <3>1, SortedIsHeld
    <3>3. key \in Note /\ key \in Int
      BY <3>2, Ranges DEF Note
    <3>4. QED
      BY <3>2, <3>3
  <2>3. CASE direction # "PLAYED" /\ index \notin 0 .. Size(stack) - 1
    <3>1. key \in Keys \cup {kFreeSlot}
      BY <2>3 DEF KeysAt, index, n
    <3>2. key \in Int
      BY <3>1, Ranges DEF Note, kFreeSlot
    <3>3. ~NoRotation
      BY <1>4, <2>3 DEF n
    <3>4. QED
      BY <3>2, <3>3
  <2>4. QED
    BY <2>1, <2>2, <2>3
<1>6. up \in Int
  BY <1>1, <1>3
<1>7. note \in Note /\ (key + up \in 0 .. 255 => \E c \in Int : note = key + up + 12 * c)
  BY <1>5, <1>6, Transposed
<1>8. note = Folded((key + 12 * p.octave + T) % 256)
  BY <1>1, <1>3, <1>5
<1>9. ASSUME NoRotation PROVE OfHeldKey(note)
  <2>1. up = 12 * p.octave /\ key \in 0 .. 127 /\ p.octave \in 0 .. 2
    BY <1>1, <1>3, <1>5, <1>9 DEF Note
  <2>2. key + up \in 0 .. 255
    BY <2>1
  <2> HIDE DEF up, note
  <2>3. PICK c \in Int : note = key + up + 12 * c
    BY <1>7, <2>2
  <2>a. \A x, y, z \in Int : x + 12 * y + 12 * z - x = 12 * (y + z) /\ y + z \in Int
    OBVIOUS
  <2>b. key \in Int /\ p.octave \in Int /\ note = key + 12 * p.octave + 12 * c
    BY <2>1, <2>3
  <2>4. note - key = 12 * (p.octave + c) /\ p.octave + c \in Int
    BY <2>a, <2>b
  <2>5. \A x \in Int : (12 * x) % 12 = 0
    OBVIOUS
  <2>6. (note - key) % 12 = 0
    BY <2>4, <2>5
  <2>7. QED
    BY <1>5, <1>9, <2>6 DEF OfHeldKey
<1> HIDE DEF note
<1>10. note \in Playable
  BY <1>7, <1>9 DEF Playable
<1>11. QED
  BY <1>8, <1>10 DEF T, n

(* A step of the pattern plays what may be played, and its note-offs wait.  *)
Plays(base, s) ==
    /\ IsOutput(s.out) /\ s.out.sounding \subseteq base \cup Playable /\ IsAt(s.at)

LEMMA ChordPlays ==
  ASSUME NEW order, StackRep(stack, order), NEW out, IsOutput(out), NEW duration \in Durations
  PROVE  LET chord[i \in 0 .. Size(stack)] ==
               IF i = 0 THEN out ELSE SendNote(chord[i - 1], SortedNote(stack, i - 1), duration)
         IN  /\ IsOutput(chord[Size(stack)])
             /\ chord[Size(stack)].sounding \subseteq out.sounding \cup Playable
<1> DEFINE n == Size(stack)
           chord[i \in 0 .. n] ==
               IF i = 0 THEN out ELSE SendNote(chord[i - 1], SortedNote(stack, i - 1), duration)
           Records == [queue : QueueType(Note, 0 .. Latest), sounding : SUBSET Note, lost : SUBSET Note]
           O == {o \in Records : IsOutput(o) /\ o.sounding \subseteq out.sounding \cup Playable}
           f == [x \in (0 .. n) \X O |->
                   IF x[1] < n THEN SendNote(x[2], SortedNote(stack, x[1]), duration) ELSE x[2]]
<1>1. n \in Nat
  <2>1. Keeps(stack, order)
    BY HeldNotesAre
  <2>2. QED
    BY <2>1, Ranges DEF Keeps
<1>2. ASSUME NEW o, IsOutput(o) PROVE o \in Records
  <2>1. PICK list : QueueRep(o.queue, list, Note, Latest)
    BY <1>2 DEF IsOutput
  <2>2. o.queue \in QueueType(Note, 0 .. Latest)
    BY <2>1 DEF QueueRep
  <2>3. QED
    BY <1>2, <2>2 DEF IsOutput
<1>3. out \in O
  BY <1>2
<1>4. ASSUME NEW o \in O, NEW i \in 0 .. n - 1
      PROVE  SendNote(o, SortedNote(stack, i), duration) \in O
  <2> DEFINE new == SendNote(o, SortedNote(stack, i), duration)
  <2>1. SortedNote(stack, i) \in Playable
    BY SortedPlayable
  <2>2. SortedNote(stack, i) \in Note
    BY <2>1 DEF Playable
  <2>3. IsOutput(o) /\ o.sounding \subseteq out.sounding \cup Playable
    OBVIOUS
  <2>4. IsOutput(new) /\ new.sounding = o.sounding \cup {SortedNote(stack, i)}
    BY <2>2, <2>3, SendNoteEnds
  <2>5. new \in Records
    BY <1>2, <2>4
  <2> HIDE DEF new
  <2>6. new.sounding \subseteq out.sounding \cup Playable
    BY <2>1, <2>3, <2>4
  <2>7. new \in O
    BY <2>4, <2>5, <2>6
  <2>8. QED
    BY <2>7 DEF new
<1> HIDE DEF O, n
<1>5. f \in [(0 .. n) \X O -> O]
  <2>1. SUFFICES ASSUME NEW x \in (0 .. n) \X O
                 PROVE (IF x[1] < n THEN SendNote(x[2], SortedNote(stack, x[1]), duration) ELSE x[2]) \in O
    OBVIOUS
  <2>2. x[1] \in 0 .. n /\ x[2] \in O
    OBVIOUS
  <2>3. x[1] < n => x[1] \in 0 .. n - 1
    BY <1>1, <2>2
  <2>4. QED
    BY <1>4, <2>2, <2>3
<1>6. \A i \in 0 .. n - 1, o \in O : f[<<i, o>>] = SendNote(o, SortedNote(stack, i), duration)
  <2>1. \A i \in 0 .. n - 1 : i \in 0 .. n /\ i < n
    BY <1>1
  <2>2. QED
    BY <2>1
<1> HIDE DEF f
<1>7. PICK g : Counts(g, n, O, out, f)
  BY <1>1, <1>3, <1>5, CountExists
<1>8. g \in [0 .. n -> O] /\ g[0] = out /\ \A k \in 1 .. n : g[k] = f[<<k - 1, g[k - 1]>>]
  BY <1>7 DEF Counts
<1>9. ASSUME NEW k \in 1 .. n PROVE g[k] = SendNote(g[k - 1], SortedNote(stack, k - 1), duration)
  <2>1. k - 1 \in 0 .. n - 1 /\ k - 1 \in 0 .. n
    BY <1>1
  <2>2. g[k - 1] \in O
    BY <1>8, <2>1
  <2>3. QED
    BY <1>6, <1>8, <2>1, <2>2
<1>10. g = [i \in 0 .. n |->
              IF i = 0 THEN out ELSE SendNote(g[i - 1], SortedNote(stack, i - 1), duration)]
  BY <1>1, <1>8, <1>9
<1>11. \E h : h = [i \in 0 .. n |->
              IF i = 0 THEN out ELSE SendNote(h[i - 1], SortedNote(stack, i - 1), duration)]
  BY <1>10
<1>12. chord = [i \in 0 .. n |->
              IF i = 0 THEN out ELSE SendNote(chord[i - 1], SortedNote(stack, i - 1), duration)]
  BY <1>11
<1> HIDE DEF chord
<1>13. chord[0] = out /\ \A k \in 1 .. n :
         chord[k] = SendNote(chord[k - 1], SortedNote(stack, k - 1), duration)
  BY <1>1, <1>12
<1> DEFINE good == {k \in 0 .. n : chord[k] \in O}
<1>14. good = 0 .. n
  <2>1. good \in SUBSET (0 .. n) /\ 0 \in good
    BY <1>1, <1>3, <1>13
  <2>2. ASSUME NEW k \in 1 .. n, k - 1 \in good PROVE k \in good
    <3>1. k - 1 \in 0 .. n - 1 /\ k \in 0 .. n
      BY <1>1
    <3>2. QED
      BY <1>4, <1>13, <2>2, <3>1
  <2> HIDE DEF good
  <2>3. QED
    BY <1>1, <2>1, <2>2, UpTo
<1>15. chord[n] \in O
  BY <1>1, <1>14
<1>16. IsOutput(chord[n]) /\ chord[n].sounding \subseteq out.sounding \cup Playable
  BY <1>15 DEF O
<1>17. QED
  BY <1>16 DEF chord, n

LEMMA StepsPlay ==
  ASSUME NEW order, StackRep(stack, order), direction \in Directions, IsAt(at),
         NEW out, IsOutput(out), NEW duration \in Durations, NEW s \in Steps(out, duration)
  PROVE  Plays(out.sounding, s)
<1> DEFINE n == Size(stack)
           chord[i \in 0 .. n] ==
               IF i = 0 THEN out ELSE SendNote(chord[i - 1], SortedNote(stack, i - 1), duration)
<1>1. n \in 0 .. kNoteStackSize
  <2>1. Keeps(stack, order)
    BY HeldNotesAre
  <2>2. QED
    BY <2>1 DEF Keeps
<1>2. IsOutput(chord[n]) /\ chord[n].sounding \subseteq out.sounding \cup Playable
  BY ChordPlays
<1> DEFINE note(p, key) == Folded((key + 12 * p.octave + Transposition(p, n)) % 256)
           single == UNION {{[out |-> SendNote(out, note(p, key), duration), at |-> p] :
                               key \in KeysAt(Index(p, n))} : p \in StepArpeggio(at, n)}
<1>3. Steps(out, duration) =
        IF n = 0 THEN {[out |-> out, at |-> at]}
        ELSE IF direction = "CHORD" THEN {[out |-> chord[n], at |-> at]} ELSE single
  BY Zenon DEF Steps
<1> HIDE DEF chord, n, single
<1>4. CASE n = 0
  <2>1. s.out = out /\ s.at = at
    BY <1>3, <1>4
  <2>2. QED
    BY <2>1 DEF Plays
<1>5. CASE n # 0 /\ direction = "CHORD"
  <2>1. s.out = chord[n] /\ s.at = at
    BY <1>3, <1>5
  <2>2. QED
    BY <1>2, <2>1 DEF Plays
<1>6. CASE n # 0 /\ direction # "CHORD"
  <2>0. s \in single /\ n \in 1 .. kNoteStackSize /\ n > 0
    BY <1>1, <1>3, <1>6, Ranges
  <2> HIDE DEF note
  <2>a. PICK p \in StepArpeggio(at, n) :
           s \in {[out |-> SendNote(out, note(p, key), duration), at |-> p] : key \in KeysAt(Index(p, n))}
    BY <2>0 DEF single
  <2>1. PICK key \in KeysAt(Index(p, n)) :
           s = [out |-> SendNote(out, note(p, key), duration), at |-> p]
    BY <2>a
  <2>2. Reaches(p, n)
    BY <2>0, StepArpeggioReaches
  <2>3. note(p, key) \in Playable
    BY <2>0, <2>2, NotePlayable DEF n, note
  <2>4. note(p, key) \in Note
    BY <2>3 DEF Playable
  <2>5. /\ IsOutput(SendNote(out, note(p, key), duration))
        /\ SendNote(out, note(p, key), duration).sounding = out.sounding \cup {note(p, key)}
    BY <2>4, SendNoteEnds
  <2>6. s.out = SendNote(out, note(p, key), duration) /\ s.at = p
    BY <2>1
  <2>7. QED
    BY <2>2, <2>3, <2>5, <2>6 DEF Plays, Reaches
<1>7. QED
  BY <1>4, <1>5, <1>6

-----------------------------------------------------------------------------
(* The invariant: both pools represent sequences, what sounds has its       *)
(* note-off waiting, and the position is one that a step may start from.    *)
Kept ==
    /\ clock \in {"OFF", "INTERNAL", "EXTERNAL"} /\ direction \in Directions
    /\ latch_ \in BOOLEAN /\ ignore_note_off_messages_ \in BOOLEAN
    /\ recording_ \in BOOLEAN /\ running_ \in BOOLEAN
    /\ idle_ticks_ \in 0 .. IdleTicks /\ tick_ \in 0 .. Division - 1 /\ edits \in 0 .. MaxEdits

ArpInv ==
    /\ \E order : StackRep(stack, order)
    /\ IsOutput(Current)
    /\ IsAt(at)
    /\ Kept

LEMMA WithoutIs ==
  ASSUME NEW keys, NEW key
  PROVE  HeldKeysSpec!Without(keys, key) = RemoveFirst(keys, key)
<1>1. \A q, i : HeldKeysSpec!RemoveAt(q, i) = RemoveAt(q, i)
  BY DEF HeldKeysSpec!RemoveAt, RemoveAt
<1>2. QED
  BY <1>1 DEF HeldKeysSpec!Without, HeldKeysSpec!RemoveFirst, RemoveFirst,
     HeldKeysSpec!SelectInSeq, SelectInSeq, HeldKeysSpec!Min, Min

LEMMA ClearHolds ==
  ASSUME NEW s \in StackType
  PROVE  HeldNotes(Clear(s)) = <<>>
<1>1. Keeps(Clear(s), <<>>)
  BY ClearRep, HeldNotesAre
<1>2. HeldNotes(Clear(s)) \in Seq(Keys) /\ Len(HeldNotes(Clear(s))) = 0
  BY <1>1 DEF Keeps
<1>3. QED
  BY <1>2

(* What an action does to the stack is what the keys it stands for do.      *)
StackMoves ==
    \/ stack' = stack \/ stack' = Clear(stack)
    \/ \E note \in Keys : \/ stack' = NoteOn(stack, note) \/ stack' = NoteOn(Clear(stack), note)
                          \/ stack' = NoteOff(stack, note)

LEMMA NextMoves ==
  ASSUME [Next]_vars PROVE StackMoves
<1>1. CASE InternalTick \/ ExternalTick
  BY <1>1 DEF InternalTick, ExternalTick, Tick, StackMoves
<1>2. ASSUME NEW note \in Keys, ArpeggiatorNoteOn(note) \/ ArpeggiatorNoteOff(note) PROVE StackMoves
  <2>1. CASE ArpeggiatorNoteOn(note)
    <3>1. \E fresh \in BOOLEAN : stack' = NoteOn(IF fresh THEN Clear(stack) ELSE stack, note)
      BY <2>1 DEF ArpeggiatorNoteOn
    <3>2. QED
      BY <3>1 DEF StackMoves
  <2>2. CASE ArpeggiatorNoteOff(note)
    BY <2>2 DEF ArpeggiatorNoteOff, StackMoves
  <2>3. QED
    BY <1>2, <2>1, <2>2
<1>3. CASE OnMidiStart \/ OnMidiContinue \/ OnMidiStop
  BY <1>3 DEF OnMidiStart, OnMidiContinue, OnMidiStop, StackMoves
<1>4. CASE SetArpeggiatorClock \/ SetDirection \/ SetLatchMode \/ SetHoldPedal \/ ResetArpeggiator
  BY <1>4 DEF SetArpeggiatorClock, SetDirection, SetLatchMode, SetHoldPedal, ResetArpeggiator, StackMoves
<1>5. CASE UNCHANGED vars
  BY <1>5 DEF vars, StackMoves
<1>6. QED
  BY <1>1, <1>2, <1>3, <1>4, <1>5 DEF Next

LEMMA StackStep ==
  ASSUME NEW order, StackRep(stack, order), StackMoves
  PROVE  /\ \E new : StackRep(stack', new)
         /\ HeldKeysSpec!Next \/ HeldNotes(stack)' = HeldNotes(stack)
<1>0. stack \in StackType
  BY DEF StackRep
<1>1. CASE stack' = stack
  BY <1>1
<1>2. CASE stack' = Clear(stack)
  <2>1. StackRep(stack', <<>>)
    BY <1>0, <1>2, ClearRep
  <2>2. HeldNotes(stack)' = <<>>
    BY <1>0, <1>2, ClearHolds
  <2>3. HeldKeysSpec!ReleaseAll
    BY <2>2 DEF HeldKeysSpec!ReleaseAll
  <2>4. QED
    BY <2>1, <2>3 DEF HeldKeysSpec!Next
<1>3. ASSUME NEW note \in Keys, stack' = NoteOn(stack, note)
      PROVE  (\E new : StackRep(stack', new)) /\ HeldKeysSpec!Next
  <2>1. PICK new : Presses(stack, NoteOn(stack, note), new, note)
    BY NoteOnPresses
  <2>2. HeldKeysSpec!Press(note)
    BY <1>3, <2>1, WithoutIs DEF Presses, HeldKeysSpec!Press
  <2>3. QED
    BY <1>3, <2>1, <2>2 DEF Presses, HeldKeysSpec!Next
<1>4. ASSUME NEW note \in Keys, stack' = NoteOn(Clear(stack), note)
      PROVE  (\E new : StackRep(stack', new)) /\ HeldKeysSpec!Next
  <2>1. StackRep(Clear(stack), <<>>)
    BY <1>0, ClearRep
  <2>2. PICK new : Presses(Clear(stack), NoteOn(Clear(stack), note), new, note)
    BY <2>1, NoteOnPresses
  <2>3. RemoveFirst(HeldNotes(Clear(stack)), note) = <<>>
    <3>1. HeldNotes(Clear(stack)) = <<>>
      BY <1>0, ClearHolds
    <3>2. <<>> \in Seq(Keys) /\ \A i \in 1 .. Len(<<>>) : <<>>[i] # note
      OBVIOUS
    <3>3. RemoveFirst(<<>>, note) = <<>>
      BY <3>2, RemoveFirstAbsent
    <3>4. QED
      BY <3>1, <3>3
  <2>4. HeldNotes(stack)' = HeldKeysSpec!First(<<note>> \o <<>>, kNoteStackSize)
    BY <1>4, <2>2, <2>3 DEF Presses
  <2>5. HeldKeysSpec!First(<<note>> \o <<>>, kNoteStackSize) = <<note>>
    <3>1. <<note>> \o <<>> = <<note>> /\ Len(<<note>>) = 1
      OBVIOUS
    <3>2. (IF 1 < kNoteStackSize THEN 1 ELSE kNoteStackSize) = 1
      BY Ranges
    <3>3. SubSeq(<<note>>, 1, 1) = <<note>>
      <4>1. /\ <<note>> \in Seq(Keys) /\ Len(<<note>>) = 1
            /\ SubSeq(<<note>>, 1, 1) \in Seq(Keys) /\ Len(SubSeq(<<note>>, 1, 1)) = 1
            /\ SubSeq(<<note>>, 1, 1)[1] = note
        BY SubSeqProperties
      <4>2. \A i \in 1 .. Len(<<note>>) : <<note>>[i] = SubSeq(<<note>>, 1, 1)[i]
        BY <4>1
      <4>3. QED
        BY <4>1, <4>2, SeqEqual
    <3>4. QED
      BY <3>1, <3>2, <3>3 DEF HeldKeysSpec!First
  <2>6. HeldKeysSpec!PressAlone(note)
    BY <2>4, <2>5 DEF HeldKeysSpec!PressAlone
  <2>7. QED
    BY <1>4, <2>2, <2>6 DEF Presses, HeldKeysSpec!Next
<1>5. ASSUME NEW note \in Keys, stack' = NoteOff(stack, note)
      PROVE  (\E new : StackRep(stack', new)) /\ HeldKeysSpec!Next
  <2>1. PICK rest : Releases(stack, NoteOff(stack, note), rest, note)
    BY NoteOffReleases
  <2>2. HeldKeysSpec!Release(note)
    BY <1>5, <2>1, WithoutIs DEF Releases, HeldKeysSpec!Release
  <2>3. QED
    BY <1>5, <2>1, <2>2 DEF Releases, HeldKeysSpec!Next
<1>6. QED
  BY <1>1, <1>2, <1>3, <1>4, <1>5 DEF StackMoves

(* What an action may do to the output and to the position. *)
Keeping == UNCHANGED output
Writes(o) == o.sounding \subseteq sounding \cup Playable /\ IsOutput(o) /\ Output(o)
Silences == sounding' = {} /\ lost' = {} /\ (queue' = queue \/ queue' = EmptyQueue)
OutputMoves == IsAt(at') /\ (Keeping \/ Silences \/ \E o : Writes(o))

LEMMA StartedIsAt ==
  ASSUME IsAt(at), direction \in Directions
  PROVE  IsAt(StartedAt)
<1> DEFINE d == DirectionOf(direction)
<1>1. /\ at = [step |-> at.step, start |-> at.start, octave |-> at.octave, direction |-> at.direction]
      /\ at.step \in 0 .. kNoteStackSize - 1 /\ at.start \in 0 .. kNoteStackSize - 1
  BY PositionIs DEF IsAt
<1>2. d \in {-1, 1}
  BY DEF DirectionOf
<1>3. StartedAt = [step |-> at.step, start |-> at.start, octave |-> NotStarted, direction |-> d]
  <2>1. StartedAt = [at EXCEPT !.octave = NotStarted, !.direction = d]
    BY DEF StartedAt
  <2> HIDE DEF d
  <2>2. QED
    BY <1>1, <2>1
<1> HIDE DEF d
<1>4. StartedAt \in Position
  BY <1>1, <1>2, <1>3 DEF Position
<1>5. QED
  BY <1>1, <1>3, <1>4 DEF IsAt

LEMMA TickMoves ==
  ASSUME ArpInv, Tick
  PROVE  OutputMoves
<1> DEFINE idle == (IF Size(stack) > 0 THEN 0 ELSE idle_ticks_) + 1
           stops == idle >= IdleTicks /\ clock = "INTERNAL"
           first == IF stops THEN Flushed(Current) ELSE Current
           ended == SendScheduledNotes(first)
<1>1. IsOutput(Current) /\ Current.sounding = sounding
  BY DEF ArpInv, Current
<1>2. IsOutput(Flushed(Current)) /\ Flushed(Current).sounding \subseteq sounding
  BY <1>1, FlushEnds
<1>3. IsOutput(first) /\ first.sounding \subseteq sounding
  BY <1>1, <1>2
<1> HIDE DEF first
<1>4. IsOutput(ended) /\ ended.sounding \subseteq sounding
  BY <1>3, TickEnds
<1>5. \/ Output(ended) /\ UNCHANGED at
      \/ \E duration \in Durations : \E s \in Steps(ended, duration) : Output(s.out) /\ at' = s.at
  BY DEF Tick, first
<1> HIDE DEF ended
<1>6. CASE Output(ended) /\ UNCHANGED at
  <2>1. Writes(ended) /\ IsAt(at')
    BY <1>4, <1>6 DEF Writes, ArpInv
  <2>2. QED
    BY <2>1 DEF OutputMoves
<1>7. ASSUME NEW duration \in Durations, NEW s \in Steps(ended, duration), Output(s.out), at' = s.at
      PROVE  OutputMoves
  <2>1. PICK order : StackRep(stack, order)
    BY DEF ArpInv
  <2>2. Plays(ended.sounding, s)
    BY <1>4, <2>1, StepsPlay DEF ArpInv, Kept
  <2>3. Writes(s.out) /\ IsAt(at')
    BY <1>4, <1>7, <2>2 DEF Writes, Plays
  <2>4. QED
    BY <2>3 DEF OutputMoves
<1>8. QED
  BY <1>5, <1>6, <1>7

LEMMA NextWrites ==
  ASSUME ArpInv, [Next]_vars
  PROVE  OutputMoves
<1>1. IsAt(at) /\ direction \in Directions
  BY DEF ArpInv, Kept
<1>2. IsAt(StartedAt)
  BY <1>1, StartedIsAt
<1>3. Writes(Flushed(Current)) \/ ~Output(Flushed(Current))
  <2>1. IsOutput(Current) /\ Current.sounding = sounding
    BY DEF ArpInv, Current
  <2>2. IsOutput(Flushed(Current)) /\ Flushed(Current).sounding \subseteq sounding
    BY <2>1, FlushEnds
  <2>3. QED
    BY <2>2 DEF Writes
<1>4. CASE InternalTick \/ ExternalTick
  BY <1>4, TickMoves DEF InternalTick, ExternalTick
<1>5. ASSUME NEW note \in Keys, ArpeggiatorNoteOn(note) \/ ArpeggiatorNoteOff(note)
      PROVE  OutputMoves
  BY <1>1, <1>2, <1>5 DEF ArpeggiatorNoteOn, ArpeggiatorNoteOff, OutputMoves, Keeping
<1>6. CASE OnMidiStart \/ OnMidiContinue
  BY <1>1, <1>2, <1>6 DEF OnMidiStart, OnMidiContinue, OutputMoves, Keeping
<1>7. CASE OnMidiStop
  BY <1>1, <1>3, <1>7 DEF OnMidiStop, OutputMoves
<1>8. CASE SetArpeggiatorClock
  <2>1. queue' = queue \/ queue' = EmptyQueue
    BY <1>8 DEF SetArpeggiatorClock
  <2>2. sounding' = {} /\ lost' = {} /\ at' = at
    BY <1>8 DEF SetArpeggiatorClock
  <2>3. QED
    BY <1>1, <2>1, <2>2 DEF OutputMoves, Silences
<1>9. CASE SetDirection
  <2>1. PICK d \in Directions : at' = StartArpeggio([at EXCEPT !.direction = DirectionOf(d)])
    BY <1>9 DEF SetDirection
  <2> DEFINE p == [at EXCEPT !.direction = DirectionOf(d)]
  <2>2. /\ at = [step |-> at.step, start |-> at.start, octave |-> at.octave, direction |-> at.direction]
        /\ at.step \in 0 .. kNoteStackSize - 1 /\ at.start \in 0 .. kNoteStackSize - 1
        /\ at.octave \in (0 .. Octaves - 1) \cup {NotStarted}
    BY <1>1, PositionIs DEF IsAt
  <2>3. p = [step |-> at.step, start |-> at.start, octave |-> at.octave, direction |-> DirectionOf(d)]
    BY <2>2
  <2>4. DirectionOf(d) \in {-1, 1}
    BY DEF DirectionOf
  <2>5. p \in Position
    BY <2>2, <2>3, <2>4 DEF Position
  <2>6. IsAt(p)
    BY <1>1, <2>3, <2>5 DEF IsAt
  <2> HIDE DEF p
  <2>7. IsAt(StartArpeggio(p))
    BY <2>6, StartArpeggioAt
  <2>8. IsAt(at')
    BY <2>1, <2>7 DEF p
  <2>9. UNCHANGED output
    BY <1>9 DEF SetDirection
  <2>10. QED
    BY <2>8, <2>9 DEF OutputMoves, Keeping
<1>10. CASE SetLatchMode \/ SetHoldPedal
  BY <1>1, <1>10 DEF SetLatchMode, SetHoldPedal, OutputMoves, Keeping
<1>11. CASE ResetArpeggiator
  BY <1>1, <1>3, <1>11 DEF ResetArpeggiator, OutputMoves
<1>12. CASE UNCHANGED vars
  BY <1>1, <1>12 DEF vars, OutputMoves, Keeping
<1>13. QED
  BY <1>4, <1>5, <1>6, <1>7, <1>8, <1>9, <1>10, <1>11, <1>12 DEF Next

LEMMA OutputStep ==
  ASSUME ArpInv, OutputMoves
  PROVE  IsOutput(Current') /\ sounding' \subseteq sounding \cup Playable
<1>1. /\ IsOutput(Current) /\ Current = [queue |-> queue, sounding |-> sounding, lost |-> lost]
      /\ Current' = [queue |-> queue', sounding |-> sounding', lost |-> lost']
  BY DEF ArpInv, Current
<1>2. CASE Keeping
  <2>1. Current' = Current /\ sounding' = sounding
    BY <1>1, <1>2 DEF Keeping, output
  <2>2. QED
    BY <1>1, <2>1
<1>3. CASE Silences
  <2>1. PICK order : QueueRep(queue, order, Note, Latest)
    BY <1>1 DEF IsOutput
  <2>2. \E new : QueueRep(queue', new, Note, Latest)
    BY <1>3, <2>1, EmptyQueueRep, Ranges DEF Silences
  <2>3. QED
    BY <1>1, <1>3, <2>2 DEF Silences, IsOutput, Ends
<1>4. ASSUME NEW o, Writes(o) PROVE IsOutput(Current') /\ sounding' \subseteq sounding \cup Playable
  <2>1. /\ o = [queue |-> o.queue, sounding |-> o.sounding, lost |-> o.lost] /\ IsOutput(o)
        /\ queue' = o.queue /\ sounding' = o.sounding /\ lost' = o.lost
        /\ o.sounding \subseteq sounding \cup Playable
    BY <1>4 DEF Writes, Output, IsOutput
  <2>2. Current' = o
    BY <1>1, <2>1
  <2>3. QED
    BY <2>1, <2>2
<1>5. QED
  BY <1>2, <1>3, <1>4 DEF OutputMoves

LEMMA KeptStep ==
  ASSUME Kept, [Next]_vars
  PROVE  Kept'
<1>1. /\ IdleTicks \in Nat /\ IdleTicks >= 1 /\ Division \in Nat /\ Division >= 1 /\ MaxEdits \in Nat
  BY Ranges, ArpeggiatorAssumption
<1>2. CASE InternalTick \/ ExternalTick
  <2>1. Tick
    BY <1>2 DEF InternalTick, ExternalTick
  <2> DEFINE idle == (IF Size(stack) > 0 THEN 0 ELSE idle_ticks_) + 1
  <2>2. idle \in Nat
    BY DEF Kept
  <2>3. idle_ticks_' = (IF idle >= IdleTicks THEN IdleTicks ELSE idle)
    BY <2>1 DEF Tick
  <2> HIDE DEF idle
  <2>4. idle_ticks_' \in 0 .. IdleTicks
    BY <1>1, <2>2, <2>3
  <2>5. tick_' = 0 \/ tick_' = (IF tick_ + 1 >= Division THEN 0 ELSE tick_ + 1)
    BY <2>1 DEF Tick
  <2>6. tick_' \in 0 .. Division - 1
    BY <1>1, <2>5 DEF Kept
  <2>7. running_' \in BOOLEAN /\ UNCHANGED <<settings, recording_>>
    BY <2>1 DEF Tick
  <2>8. QED
    BY <2>4, <2>6, <2>7 DEF Kept, settings
<1>3. ASSUME NEW note \in Keys, ArpeggiatorNoteOn(note) PROVE Kept'
  <2>1. UNCHANGED settings
    BY <1>3 DEF ArpeggiatorNoteOn
  <2>2. /\ idle_ticks_' = 0 \/ idle_ticks_' = idle_ticks_
        /\ tick_' = Division - 1 \/ tick_' = tick_
        /\ running_' = TRUE \/ running_' = running_
    BY <1>3 DEF ArpeggiatorNoteOn, ticks
  <2>3. recording_' \in BOOLEAN
    BY <1>3 DEF ArpeggiatorNoteOn
  <2>4. idle_ticks_' \in 0 .. IdleTicks /\ tick_' \in 0 .. Division - 1
    BY <1>1, <2>2 DEF Kept
  <2>5. QED
    BY <2>1, <2>2, <2>3, <2>4 DEF Kept, settings
<1>4. ASSUME NEW note \in Keys, ArpeggiatorNoteOff(note) PROVE Kept'
  BY <1>4 DEF ArpeggiatorNoteOff, Kept, settings, ticks
<1>5. CASE OnMidiStart
  <2>1. Division - 1 \in 0 .. Division - 1
    BY <1>1
  <2>2. QED
    BY <1>5, <2>1 DEF OnMidiStart, Kept, settings
<1>6. CASE OnMidiContinue \/ OnMidiStop \/ ResetArpeggiator
  BY <1>6 DEF OnMidiContinue, OnMidiStop, ResetArpeggiator, Kept, settings, ticks
<1>7. ASSUME Edit PROVE edits' \in 0 .. MaxEdits
  BY <1>1, <1>7 DEF Edit, Kept
<1>8. CASE SetArpeggiatorClock
  <2>1. clock' \in {"OFF", "INTERNAL", "EXTERNAL"} /\ running_' \in BOOLEAN
    BY <1>8 DEF SetArpeggiatorClock
  <2>2. UNCHANGED <<direction, latch_, ignore_note_off_messages_, recording_, ticks>> /\ Edit
    BY <1>8 DEF SetArpeggiatorClock
  <2>3. QED
    BY <1>7, <2>1, <2>2 DEF Kept, ticks
<1>9. CASE SetDirection \/ SetLatchMode \/ SetHoldPedal
  BY <1>7, <1>9 DEF SetDirection, SetLatchMode, SetHoldPedal, Kept, ticks
<1>10. CASE UNCHANGED vars
  BY <1>10 DEF vars, Kept, settings, ticks
<1>11. QED
  BY <1>2, <1>3, <1>4, <1>5, <1>6, <1>8, <1>9, <1>10 DEF Next

LEMMA ArpInit == Init => ArpInv
<1> SUFFICES ASSUME Init PROVE ArpInv
  OBVIOUS
<1>1. StackRep(stack, <<>>)
  BY EmptyStackRep DEF Init
<1>2. QueueRep(queue, <<>>, Note, Latest)
  BY EmptyQueueRep, Ranges DEF Init
<1>3. IsOutput(Current)
  BY <1>2 DEF Init, Current, IsOutput, Ends
<1>4. IsAt(at)
  <2>1. 0 \in 0 .. kNoteStackSize - 1
    BY Ranges
  <2>2. DirectionOf(direction) \in {-1, 1}
    BY DEF DirectionOf
  <2>3. at = [step |-> 0, start |-> 0, octave |-> NotStarted, direction |-> DirectionOf(direction)]
    BY DEF Init
  <2>4. QED
    BY <2>1, <2>2, <2>3 DEF IsAt, Position
<1>5. Kept
  <2>1. IdleTicks \in 0 .. IdleTicks /\ Division - 1 \in 0 .. Division - 1
    BY Ranges
  <2>2. 0 \in 0 .. MaxEdits
    BY ArpeggiatorAssumption
  <2>3. /\ clock = "INTERNAL" /\ direction \in Directions
        /\ latch_ = FALSE /\ ignore_note_off_messages_ = FALSE
        /\ recording_ = FALSE /\ running_ = TRUE
    BY DEF Init
  <2>4. idle_ticks_ = IdleTicks /\ tick_ = Division - 1 /\ edits = 0
    BY DEF Init
  <2>5. QED
    BY <2>1, <2>2, <2>3, <2>4 DEF Kept
<1>6. QED
  BY <1>1, <1>3, <1>4, <1>5 DEF ArpInv

LEMMA ArpStep ==
  ASSUME ArpInv, [Next]_vars
  PROVE  /\ ArpInv' /\ sounding' \subseteq sounding \cup Playable
         /\ HeldKeysSpec!Next \/ HeldNotes(stack)' = HeldNotes(stack)
<1>1. PICK order : StackRep(stack, order)
  BY DEF ArpInv
<1>2. (\E new : StackRep(stack', new)) /\ (HeldKeysSpec!Next \/ HeldNotes(stack)' = HeldNotes(stack))
  BY <1>1, NextMoves, StackStep
<1>3. OutputMoves
  BY NextWrites
<1>4. IsOutput(Current') /\ sounding' \subseteq sounding \cup Playable
  BY <1>3, OutputStep
<1>5. IsAt(at')
  BY <1>3 DEF OutputMoves
<1>6. Kept'
  BY KeptStep DEF ArpInv
<1>7. QED
  BY <1>2, <1>4, <1>5, <1>6 DEF ArpInv

(* Stack, queue, notes and position keep their types, for every size of     *)
(* both pools and every division: neither list ever leads out of its pool,  *)
(* and no note-off waits longer than the longest duration.                  *)
THEOREM ArpTypes == Spec => []TypeOK
<1>1. ASSUME ArpInv PROVE TypeOK
  <2>1. PICK order : StackRep(stack, order)
    BY <1>1 DEF ArpInv
  <2>2. PICK list : QueueRep(queue, list, Note, Latest)
    BY <1>1 DEF ArpInv, IsOutput, Current
  <2>3. stack \in StackType
    BY <2>1 DEF StackRep
  <2>4. queue \in QueueType(Note, 0 .. Max(Durations) - 1)
    BY <2>2 DEF QueueRep, Latest
  <2>5. sounding \subseteq Note /\ lost \subseteq Note
    BY <1>1 DEF ArpInv, IsOutput, Current
  <2>6. at \in Position
    BY <1>1 DEF ArpInv, IsAt
  <2>7. Kept
    BY <1>1 DEF ArpInv
  <2>8. QED
    BY <2>3, <2>4, <2>5, <2>6, <2>7 DEF TypeOK, Kept
<1>2. ArpInv /\ [Next]_vars => ArpInv'
  BY ArpStep
<1>3. QED
  BY <1>1, <1>2, ArpInit, PTL DEF Spec

(* Both views of the held keys agree and note-offs wait in order, after any *)
(* number of keys, steps, removals, flushes and resets.                     *)
THEOREM ArpLinksSound == Spec => []LinksSound
<1>1. ASSUME ArpInv PROVE LinksSound
  <2>1. PICK order : StackRep(stack, order)
    BY <1>1 DEF ArpInv
  <2>2. PICK list : QueueRep(queue, list, Note, Latest)
    BY <1>1 DEF ArpInv, IsOutput, Current
  <2>3. StackWellFormed(stack) /\ QueueWellFormed(queue)
    BY <2>1, <2>2, StackRepWellFormed, QueueRepWellFormed, Ranges
  <2>4. QED
    BY <2>3 DEF LinksSound
<1>2. ArpInv /\ [Next]_vars => ArpInv'
  BY ArpStep
<1>3. QED
  BY <1>1, <1>2, ArpInit, PTL DEF Spec

(* "Send a note on and schedule a note off later" (Timbre.cpp:2882): a note *)
(* that sounds has one note-off waiting, and none when its note-off met a   *)
(* full queue, however the two are interleaved with ticks and resets.       *)
THEOREM ArpEveryNoteEndsOnce == Spec => []EveryNoteEndsOnce
<1>1. ASSUME ArpInv PROVE EveryNoteEndsOnce
  <2>1. PICK list : QueueRep(queue, list, Note, Latest)
    BY <1>1 DEF ArpInv, IsOutput, Current
  <2>2. Order(queue) = list
    BY <2>1, QueueRepFacts, Ranges
  <2>3. \A note \in Note : Waiting(note) = Awaits(queue, note)
    BY <2>1, <2>2, AwaitsOnList DEF Waiting
  <2>4. /\ sounding \subseteq Note /\ lost \subseteq Note
        /\ \A note \in sounding \ lost : \E i : Awaits(queue, note) = {i}
        /\ \A note \in lost : Awaits(queue, note) = {}
    BY <1>1 DEF ArpInv, IsOutput, Ends, Current
  <2>5. \A i : Cardinality({i}) = 1
    BY FS_Singleton
  <2>6. Cardinality({}) = 0
    BY FS_EmptySet
  <2>7. ASSUME NEW note \in sounding \ lost PROVE Cardinality(Waiting(note)) = 1
    <3>1. PICK i : Waiting(note) = {i}
      BY <2>3, <2>4
    <3>2. QED
      BY <2>5, <3>1
  <2>8. ASSUME NEW note \in lost PROVE Cardinality(Waiting(note)) = 0
    <3>1. Waiting(note) = {}
      BY <2>3, <2>4
    <3>2. QED
      BY <2>6, <3>1
  <2>9. QED
    BY <2>7, <2>8 DEF EveryNoteEndsOnce
<1>2. ArpInv /\ [Next]_vars => ArpInv'
  BY ArpStep
<1>3. QED
  BY <1>1, <1>2, ArpInit, PTL DEF Spec

(* The linked pool of note_stack.cpp implements the list of held keys that  *)
(* note_stack.h promises: the most recent key first, each once, and with no *)
(* room the key that was pressed first is forgotten.                        *)
THEOREM ArpImplementsHeldKeys == Spec => ImplementsHeldKeys
<1>1. Init => HeldKeysSpec!Init
  <2> SUFFICES ASSUME Init PROVE HeldNotes(stack) = <<>>
    BY DEF HeldKeysSpec!Init
  <2>1. Keeps(stack, <<>>)
    BY EmptyStackRep, HeldNotesAre DEF Init
  <2>2. HeldNotes(stack) \in Seq(Keys) /\ Len(HeldNotes(stack)) = 0
    BY <2>1 DEF Keeps
  <2>3. QED
    BY <2>2
<1>2. ArpInv /\ [Next]_vars => ArpInv' /\ [HeldKeysSpec!Next]_(HeldKeysSpec!vars)
  BY ArpStep DEF HeldKeysSpec!vars
<1>3. QED
  BY <1>1, <1>2, ArpInit, PTL DEF Spec, ImplementsHeldKeys, HeldKeysSpec!Spec

(* Without the rotating directions only held keys are played, in whatever   *)
(* octave, whatever happened to the stack since the last step.  With them   *)
(* it is not so (Timbre.cpp:3014), as the run arp_rotate_claim shows.       *)
THEOREM ArpPlaysHeldKeys ==
  ASSUME Directions \cap Rotating = {}
  PROVE  Spec => PlaysHeldKeys
<1> DEFINE A == \A note \in sounding' \ sounding :
                  \E k \in DOMAIN HeldNotes(stack) : (note - HeldNotes(stack)[k]) % 12 = 0
<1>1. ArpInv /\ [Next]_vars => ArpInv' /\ [A]_vars
  <2> SUFFICES ASSUME ArpInv, [Next]_vars PROVE ArpInv' /\ A
    OBVIOUS
  <2>1. ArpInv' /\ sounding' \subseteq sounding \cup Playable
    BY ArpStep
  <2>2. \A note \in Playable : OfHeldKey(note)
    BY DEF Playable, NoRotation
  <2>3. QED
    BY <2>1, <2>2 DEF OfHeldKey
<1>2. QED
  BY <1>1, ArpInit, PTL DEF Spec, PlaysHeldKeys
=============================================================================
