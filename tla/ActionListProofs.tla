--------------------------- MODULE ActionListProofs ---------------------------
(***************************************************************************)
(* Theorems about ActionList and SequenceLoad, for every number of           *)
(* instruments, of slots and of timer values.                                *)
(***************************************************************************)
EXTENDS SequenceLoad, FiniteSetTheorems, WellFoundedInduction, TLAPS

(* The least element of a set of natural numbers. *)
LEMMA MinIsLeast ==
  ASSUME NEW S \in SUBSET Nat, S # {}
  PROVE  Min(S) \in S /\ \A y \in S : Min(S) <= y
<1> DEFINE R == {p \in Nat \X Nat : p[1] < p[2]}
<1>1. R = OpToRel(<, Nat)
  BY DEF OpToRel
<1>2. IsWellFoundedOn(R, Nat)
  BY <1>1, NatLessThanWellFounded
<1>3. PICK x \in S : \A y \in S : ~(<<y, x>> \in R)
  BY <1>2, WFMin
<1>4. \A y \in S : y \in Nat /\ x \in Nat /\ ~(y < x)
  BY <1>3
<1>5. \A y \in S : x <= y
  BY <1>4
<1>6. QED
  BY <1>5 DEF Min

LEMMA MaxIsIn ==
  ASSUME NEW N \in Nat, NEW S \in SUBSET (0 .. N), S # {}
  PROVE  Max(S) \in S /\ \A y \in S : y <= Max(S)
<1> DEFINE below == {N - x : x \in S}
<1>0. \A x \in S : x \in Nat /\ N - x \in Nat
  OBVIOUS
<1>1. below \in SUBSET Nat /\ below # {}
  BY <1>0
<1>2. Min(below) \in below /\ \A y \in below : Min(below) <= y
  BY <1>1, MinIsLeast
<1>3. PICK x \in S : Min(below) = N - x
  BY <1>2
<1>4. \A y \in S : N - y \in below
  OBVIOUS
<1> HIDE DEF below
<1>5. \A y \in S : N - x <= N - y
  BY <1>2, <1>3, <1>4
<1>6. \A y \in S : x >= y
  BY <1>0, <1>5
<1>7. Max(S) \in S /\ \A y \in S : Max(S) >= y
  BY <1>6 DEF Max
<1>8. QED
  <2>1. \A y \in S : y \in Int
    BY <1>0
  <2> DEFINE m == Max(S)
  <2>2. m \in S /\ \A y \in S : m >= y
    BY <1>7
  <2> HIDE DEF m
  <2>3. \A y \in S : y <= m
    BY <2>1, <2>2
  <2>4. QED
    BY <2>2, <2>3 DEF m

(* What holds at 0, and at the next number whenever it holds at one, holds  *)
(* up to any bound: the numbers at which it does not have no least one.     *)
LEMMA UpTo ==
  ASSUME NEW N \in Nat, NEW S \in SUBSET (0 .. N), 0 \in S,
         \A k \in 1 .. N : k - 1 \in S => k \in S
  PROVE  S = 0 .. N
<1> DEFINE bad == (0 .. N) \ S
<1> SUFFICES ASSUME bad # {} PROVE FALSE
  OBVIOUS
<1>1. bad \in SUBSET Nat
  OBVIOUS
<1>2. Min(bad) \in bad /\ \A y \in bad : Min(bad) <= y
  BY <1>1, MinIsLeast
<1>3. Min(bad) - 1 \notin bad /\ Min(bad) - 1 \in 0 .. N
  BY <1>2
<1>4. QED
  BY <1>2, <1>3

(* A function applied time and again: the walks along the links.            *)
Walks(g, n, S, first, f) ==
    g \in [0 .. n -> S] /\ g[0] = first /\ \A k \in 1 .. n : g[k] = f[g[k - 1]]

LEMMA WalkExists ==
  ASSUME NEW N \in Nat, NEW S, NEW first \in S, NEW f \in [S -> S]
  PROVE  \E g : Walks(g, N, S, first, f)
<1> DEFINE good == {n \in 0 .. N : \E g : Walks(g, n, S, first, f)}
<1>1. 0 \in good
  <2>1. Walks([k \in 0 .. 0 |-> first], 0, S, first, f)
    BY DEF Walks
  <2>2. QED
    BY <2>1
<1>2. \A n \in 1 .. N : n - 1 \in good => n \in good
  <2>1. SUFFICES ASSUME NEW n \in 1 .. N, NEW g, Walks(g, n - 1, S, first, f)
                 PROVE  \E h : Walks(h, n, S, first, f)
    OBVIOUS
  <2> DEFINE h == [k \in 0 .. n |-> IF k = n THEN f[g[n - 1]] ELSE g[k]]
  <2>2. h \in [0 .. n -> S]
    BY <2>1 DEF Walks
  <2>3. h[0] = first /\ \A k \in 1 .. n : h[k] = f[h[k - 1]]
    <3>1. h[0] = first
      BY <2>1 DEF Walks
    <3>2. \A k \in 1 .. n : k # n => h[k] = g[k] /\ h[k - 1] = g[k - 1] /\ k \in 1 .. n - 1
      OBVIOUS
    <3>3. h[n] = f[g[n - 1]] /\ h[n - 1] = g[n - 1]
      OBVIOUS
    <3>4. QED
      BY <2>1, <3>1, <3>2, <3>3 DEF Walks
  <2>4. Walks(h, n, S, first, f)
    BY <2>2, <2>3 DEF Walks
  <2>5. QED
    BY <2>4
<1>3. good = 0 .. N
  <2>1. good \in SUBSET (0 .. N)
    OBVIOUS
  <2> HIDE DEF good
  <2>2. QED
    BY <1>1, <1>2, <2>1, UpTo
<1>4. N \in good
  BY <1>3
<1>5. QED
  BY <1>4

-----------------------------------------------------------------------------
(* The slots that the links lead to.                                        *)
Follows(at, n, s) ==
    at \in [0 .. n -> Slot] /\ at[0] = s /\ \A k \in 1 .. n : at[k] = actions[at[k - 1]].next

Table == [Slot -> [when : Time, note : Note \cup {NONE}, next : Slot]]

LEMMA TableIs ==
  ASSUME NEW table \in Table, NEW s \in Slot
  PROVE  /\ table[s] = [when |-> table[s].when, note |-> table[s].note, next |-> table[s].next]
         /\ table[s].when \in Time /\ table[s].note \in Note \cup {NONE} /\ table[s].next \in Slot
  BY DEF Table

LEMMA SlotsAre ==
  /\ FirstDynamic \in Nat /\ SEQ_ACTION_SIZE \in Nat /\ FirstDynamic < SEQ_ACTION_SIZE
  /\ FirstDynamic >= 2
  /\ \A i \in Timbre : HeadOf(i) \in 0 .. FirstDynamic - 1 /\ TailOf(i) \in 0 .. FirstDynamic - 1
  /\ \A i \in Timbre : HeadOf(i) \in Slot /\ TailOf(i) \in Slot
  /\ \A s \in Slot : s \in 0 .. SEQ_ACTION_SIZE - 1 /\ s \in Nat
<1>1. NUMBER_OF_TIMBRES \in Nat \ {0} /\ SEQ_ACTION_SIZE \in Nat /\ SEQ_ACTION_SIZE > 2 * NUMBER_OF_TIMBRES
  BY SizesAssumption
<1>2. QED
  BY <1>1 DEF FirstDynamic, Slot, Timbre, HeadOf, TailOf

LEMMA TimesAre ==
  /\ Period \in Nat \ {0} /\ Period >= 2 /\ \A b \in Bars : b \in 1 .. Period
  /\ MaxTick \in 1 .. Period - 1
  /\ MaxNotes \in Nat /\ MaxEdits \in Nat /\ MaxWork \in Nat
  BY SizesAssumption

LEMMA PathFollows ==
  ASSUME TypeOK, NEW s \in Slot
  PROVE  HopBudget \in Nat /\ HopBudget >= 4 /\ Follows(Path(s), HopBudget + 1, s)
<1> DEFINE K == HopBudget + 1
           f == [x \in Slot |-> actions[x].next]
           at[k \in 0 .. K] == IF k = 0 THEN s ELSE actions[at[k - 1]].next
<1>1. HopBudget \in Nat /\ HopBudget >= 4 /\ K \in Nat /\ K >= 1
  BY SlotsAre DEF TypeOK, HopBudget
<1>2. f \in [Slot -> Slot]
  BY TableIs DEF TypeOK, Table
<1> HIDE DEF f
<1>3. PICK h : Walks(h, K, Slot, s, f)
  BY <1>1, <1>2, WalkExists
<1>4. PICK g \in [0 .. K -> Slot] : g[0] = s /\ \A k \in 1 .. K : g[k] = f[g[k - 1]]
  BY <1>3 DEF Walks
<1>5. \A k \in 1 .. K : g[k] = actions[g[k - 1]].next
  <2>1. \A k \in 1 .. K : k - 1 \in 0 .. K
    BY <1>1
  <2>2. QED
    BY <1>4, <2>1 DEF f
<1>6. g = [k \in 0 .. K |-> IF k = 0 THEN s ELSE actions[g[k - 1]].next]
  BY <1>1, <1>4, <1>5
<1>7. at = [k \in 0 .. K |-> IF k = 0 THEN s ELSE actions[at[k - 1]].next]
  BY <1>6
<1> HIDE DEF at
<1>8. Follows(at, K, s)
  <2> HIDE DEF K
  <2>1. \A k \in 0 .. K : at[k] = IF k = 0 THEN s ELSE actions[at[k - 1]].next
    BY <1>7
  <2>2. 0 \in 0 .. K /\ \A k \in 1 .. K : k \in 0 .. K /\ k # 0
    BY <1>1
  <2>3. at[0] = s /\ \A k \in 1 .. K : at[k] = actions[at[k - 1]].next
    BY <2>1, <2>2
  <2> DEFINE good == {k \in 0 .. K : at[k] \in Slot}
  <2>4. good = 0 .. K
    <3>1. good \in SUBSET (0 .. K) /\ 0 \in good
      BY <2>2, <2>3
    <3>2. ASSUME NEW k \in 1 .. K, k - 1 \in good PROVE k \in good
      <4>1. at[k - 1] \in Slot
        BY <3>2
      <4>2. at[k] \in Slot
        BY <2>3, <4>1, TableIs DEF TypeOK, Table
      <4>3. QED
        BY <2>2, <4>2
    <3> HIDE DEF good
    <3>3. QED
      BY <1>1, <3>1, <3>2, UpTo
  <2>5. at \in [0 .. K -> Slot]
    BY <1>7, <2>4
  <2>6. QED
    BY <2>3, <2>5 DEF Follows
<1>9. Path(s) = at
  BY DEF Path, at
<1>10. QED
  BY <1>1, <1>8, <1>9

LEMMA WalkerIs ==
  ASSUME NEW c \in Walker
  PROVE  /\ \A s \in Slot, r \in Slot : [c EXCEPT !.prev = r, !.next = s] \in Walker
         /\ \A s \in Slot : [c EXCEPT !.prev = s] \in Walker
         /\ \A t \in Time : [c EXCEPT !.last = t] \in Walker
         /\ \A t \in Time, b \in BOOLEAN : [c EXCEPT !.outOfSync = b, !.last = t] \in Walker
         /\ \A b \in BOOLEAN : /\ [c EXCEPT !.on = b] \in Walker
                               /\ [c EXCEPT !.poisoned = b] \in Walker
                               /\ [c EXCEPT !.outOfSync = b] \in Walker
         /\ c.last \in Time /\ c.next \in Slot /\ c.prev \in Slot /\ c.on \in BOOLEAN
  BY DEF Walker

LEMMA TripTypes ==
  ASSUME NEW c \in Walker, NEW i \in Timbre
  PROVE  Trip(c, i) \in Walker
  BY SlotsAre DEF Trip, Walker

(* Wherever a walk stops, it stops at a slot. *)
LEMMA ProcessTypes ==
  ASSUME TypeOK, NEW c \in Walker, NEW i \in Timbre, NEW start, NEW end
  PROVE  ProcessActionBetween(c, i, start, end).c \in Walker
<1> DEFINE at == Path(c.next)
           turns == {k \in 1 .. HopBudget + 1 : Stops(at, k, i, start, end)}
           n == Min(turns)
           here == at[n - 1]
           left == [c EXCEPT !.prev = IF n = 1 THEN @ ELSE at[n - 2], !.next = here]
           beyond == actions[at[n]].when > instrumentTimerMask_[i]
           moved == [c EXCEPT !.prev = IF beyond THEN HeadOf(i) ELSE here,
                              !.next = IF beyond THEN HeadOf(i) ELSE at[n]]
           result == ProcessActionBetween(c, i, start, end)
<1>1. /\ HopBudget \in Nat /\ at \in [0 .. HopBudget + 1 -> Slot]
  BY PathFollows, WalkerIs DEF Follows
<1>2. n \in 1 .. HopBudget + 1
  <2>1. HopBudget + 1 \in turns
    <3>1. HopBudget + 1 \in 1 .. HopBudget + 1 /\ HopBudget + 1 > HopBudget
      BY <1>1
    <3>2. QED
      BY <3>1 DEF Stops
  <2>2. turns \in SUBSET Nat /\ turns \subseteq 1 .. HopBudget + 1
    OBVIOUS
  <2> HIDE DEF turns
  <2>3. QED
    BY <2>1, <2>2, MinIsLeast
<1> HIDE DEF n, at
<1>3. here \in Slot /\ at[n] \in Slot /\ (n # 1 => at[n - 2] \in Slot)
  <2>1. n - 1 \in 0 .. HopBudget + 1 /\ n \in 0 .. HopBudget + 1
    BY <1>1, <1>2
  <2>2. n # 1 => n - 2 \in 0 .. HopBudget + 1
    BY <1>1, <1>2
  <2>3. QED
    BY <1>1, <2>1, <2>2
<1>4. left \in Walker
  <2> DEFINE r == IF n = 1 THEN c.prev ELSE at[n - 2]
  <2>1. r \in Slot
    BY <1>3, WalkerIs
  <2>2. left = [c EXCEPT !.prev = r, !.next = here]
    OBVIOUS
  <2> HIDE DEF r, left
  <2>3. QED
    BY <1>3, <2>1, <2>2, WalkerIs
<1>5. moved \in Walker
  <2> DEFINE r == IF beyond THEN HeadOf(i) ELSE here
             s == IF beyond THEN HeadOf(i) ELSE at[n]
  <2>1. r \in Slot /\ s \in Slot
    BY <1>3, SlotsAre
  <2>2. moved = [c EXCEPT !.prev = r, !.next = s]
    OBVIOUS
  <2> HIDE DEF r, s, moved
  <2>3. QED
    BY <2>1, <2>2, WalkerIs
<1>6. Trip(c, i) \in Walker
  BY TripTypes
<1>7. result.c \in {c, left, Trip(c, i), moved}
  BY DEF ProcessActionBetween, n, at
<1>8. QED
  BY <1>4, <1>5, <1>6, <1>7

LEMMA TimerTypes ==
  ASSUME NEW t \in Int, NEW mask \in Time
  PROVE  t % (mask + 1) \in Time
<1>1. mask \in Nat /\ mask + 1 \in Nat \ {0} /\ mask <= Period - 1 /\ Period \in Nat
  BY TimesAre DEF Time
<1> DEFINE m == mask + 1
<1>2. t % m \in 0 .. m - 1
  <2>1. m \in Nat \ {0}
    BY <1>1
  <2> HIDE DEF m
  <2>2. QED
    BY <2>1
<1>3. QED
  BY <1>1, <1>2 DEF Time

LEMMA ResyncTypes ==
  ASSUME TypeOK, NEW c \in Walker, NEW i \in Timbre, NEW timer \in Time
  PROVE  ResyncNextAction(c, i, timer) \in Walker
<1> DEFINE last == (timer - 1) % (instrumentTimerMask_[i] + 1)
           at == Path(HeadOf(i))
           turns == {k \in 0 .. HopBudget :
                       actions[at[k]].when >= last \/ ~WalkSafeLink(at[k + 1], i) \/ k = HopBudget}
           n == Min(turns)
           synced == [c EXCEPT !.outOfSync = FALSE, !.last = last]
           caught == [synced EXCEPT !.prev = IF n = 0 THEN HeadOf(i) ELSE at[n - 1], !.next = at[n]]
           result == ResyncNextAction(c, i, timer)
<1>1. /\ HopBudget \in Nat /\ at \in [0 .. HopBudget + 1 -> Slot]
  BY PathFollows, SlotsAre DEF Follows
<1>2. n \in 0 .. HopBudget
  <2>1. HopBudget \in turns
    BY <1>1
  <2>2. turns \in SUBSET Nat /\ turns \subseteq 0 .. HopBudget
    OBVIOUS
  <2> HIDE DEF turns
  <2>3. QED
    BY <2>1, <2>2, MinIsLeast
<1>3. last \in Time
  <2>1. timer - 1 \in Int /\ instrumentTimerMask_[i] \in Time
    BY TimesAre DEF Time, TypeOK
  <2>2. QED
    BY <2>1, TimerTypes
<1>4. synced \in Walker
  <2> HIDE DEF last
  <2>1. QED
    BY <1>3, WalkerIs
<1> HIDE DEF n, at, synced, last
<1>5. caught \in Walker
  <2> DEFINE r == IF n = 0 THEN HeadOf(i) ELSE at[n - 1]
  <2>1. n \in 0 .. HopBudget + 1 /\ (n # 0 => n - 1 \in 0 .. HopBudget + 1)
    BY <1>1, <1>2
  <2>2. r \in Slot /\ at[n] \in Slot
    BY <1>1, <2>1, SlotsAre
  <2>3. caught = [synced EXCEPT !.prev = r, !.next = at[n]]
    OBVIOUS
  <2> HIDE DEF r, caught
  <2>4. QED
    BY <1>4, <2>2, <2>3, WalkerIs
<1>6. Trip(synced, i) \in Walker
  BY <1>4, TripTypes
<1>7. result \in {Trip(synced, i), caught}
  BY DEF ResyncNextAction, n, at, synced, last
<1>8. QED
  BY <1>5, <1>6, <1>7

LEMMA WalkTypes ==
  ASSUME TypeOK, NEW i \in Timbre, NEW counter \in Time
  PROVE  Walk(i, counter).c \in Walker
<1> DEFINE c == cursor[i]
           timer == counter % (instrumentTimerMask_[i] + 1)
           synced == IF c.outOfSync THEN ResyncNextAction(c, i, timer) ELSE c
           before == IF synced.last <= timer THEN [c |-> synced, played |-> <<>>]
                     ELSE ProcessActionBetween(synced, i, synced.last, instrumentTimerMask_[i])
           after == ProcessActionBetween(before.c, i,
                      IF synced.last <= timer THEN synced.last ELSE 0, timer)
<1>1. timer \in Time
  <2>1. counter \in Int /\ instrumentTimerMask_[i] \in Time
    BY TimesAre DEF Time, TypeOK
  <2>2. QED
    BY <2>1, TimerTypes
<1>2. c \in Walker
  BY DEF TypeOK
<1> HIDE DEF timer, c
<1>3. synced \in Walker
  BY <1>1, <1>2, ResyncTypes
<1> HIDE DEF synced
<1>4. before.c \in Walker
  BY <1>3, ProcessTypes
<1> HIDE DEF before
<1>5. after.c \in Walker
  BY <1>4, ProcessTypes
<1>6. Walk(i, counter).c = [after.c EXCEPT !.last = timer]
  BY DEF Walk, after, before, synced, timer, c
<1> HIDE DEF after
<1>7. QED
  BY <1>1, <1>5, <1>6, WalkerIs
-----------------------------------------------------------------------------
(* The chain of a list. *)
ChainFrom(at, i) ==
    /\ at \in [0 .. SEQ_ACTION_SIZE -> Slot] /\ at[0] = actions[HeadOf(i)].next
    /\ \A k \in 1 .. SEQ_ACTION_SIZE :
         at[k] = IF at[k - 1] = TailOf(i) THEN at[k - 1] ELSE actions[at[k - 1]].next

LEMMA ChainFollows ==
  ASSUME actions \in Table, NEW i \in Timbre
  PROVE  ChainFrom(Chain(i), i)
<1> DEFINE K == SEQ_ACTION_SIZE
           first == actions[HeadOf(i)].next
           f == [x \in Slot |-> IF x = TailOf(i) THEN x ELSE actions[x].next]
           at[k \in 0 .. K] == IF k = 0 THEN first
                               ELSE LET s == at[k - 1] IN IF s = TailOf(i) THEN s ELSE actions[s].next
<1>1. K \in Nat /\ K >= 1 /\ first \in Slot
  <2>1. HeadOf(i) \in Slot /\ K \in Nat /\ K >= 1
    BY SlotsAre
  <2>2. QED
    BY <2>1, TableIs
<1>2. f \in [Slot -> Slot]
  BY TableIs
<1> HIDE DEF f, first
<1>3. PICK h : Walks(h, K, Slot, first, f)
  BY <1>1, <1>2, WalkExists
<1>4. PICK g \in [0 .. K -> Slot] : g[0] = first /\ \A k \in 1 .. K : g[k] = f[g[k - 1]]
  BY <1>3 DEF Walks
<1>5. \A k \in 1 .. K : g[k] = IF g[k - 1] = TailOf(i) THEN g[k - 1] ELSE actions[g[k - 1]].next
  <2>1. \A k \in 1 .. K : k - 1 \in 0 .. K
    BY <1>1
  <2>2. QED
    BY <1>4, <2>1 DEF f
<1>6. g = [k \in 0 .. K |-> IF k = 0 THEN first
                            ELSE IF g[k - 1] = TailOf(i) THEN g[k - 1] ELSE actions[g[k - 1]].next]
  BY <1>1, <1>4, <1>5
<1>7. at = [k \in 0 .. K |-> IF k = 0 THEN first
                             ELSE IF at[k - 1] = TailOf(i) THEN at[k - 1] ELSE actions[at[k - 1]].next]
  BY <1>6
<1> HIDE DEF at
<1>8. ChainFrom(at, i)
  <2> HIDE DEF K
  <2>1. \A k \in 0 .. K : at[k] = IF k = 0 THEN first
          ELSE IF at[k - 1] = TailOf(i) THEN at[k - 1] ELSE actions[at[k - 1]].next
    BY <1>7
  <2>2. 0 \in 0 .. K /\ \A k \in 1 .. K : k \in 0 .. K /\ k # 0
    BY <1>1
  <2>3. /\ at[0] = first
        /\ \A k \in 1 .. K : at[k] = IF at[k - 1] = TailOf(i) THEN at[k - 1] ELSE actions[at[k - 1]].next
    BY <2>1, <2>2
  <2> DEFINE good == {k \in 0 .. K : at[k] \in Slot}
  <2>4. good = 0 .. K
    <3>1. good \in SUBSET (0 .. K) /\ 0 \in good
      BY <1>1, <2>2, <2>3
    <3>2. ASSUME NEW k \in 1 .. K, k - 1 \in good PROVE k \in good
      <4>1. at[k - 1] \in Slot
        BY <3>2
      <4>2. at[k] \in Slot
        BY <2>3, <4>1, TableIs
      <4>3. QED
        BY <2>2, <4>2
    <3> HIDE DEF good
    <3>3. QED
      BY <1>1, <3>1, <3>2, UpTo
  <2>5. at \in [0 .. K -> Slot]
    BY <1>7, <2>4
  <2>6. QED
    BY <2>3, <2>5 DEF ChainFrom, K, first
<1>9. Chain(i) = at
  BY DEF Chain, at, first, K
<1>10. QED
  BY <1>8, <1>9

LEMMA ReachesDynamic ==
  ASSUME actions \in Table, lastFreeAction_ \in FirstDynamic .. SEQ_ACTION_SIZE, NEW i \in Timbre
  PROVE  ReachableFrom(i) \subseteq FirstDynamic .. lastFreeAction_ - 1
<1> SUFFICES ASSUME NEW s \in ReachableFrom(i) PROVE s \in FirstDynamic .. lastFreeAction_ - 1
  OBVIOUS
<1>1. PICK k \in 0 .. SEQ_ACTION_SIZE :
        (\A j \in 0 .. k : Dynamic(Chain(i)[j])) /\ s = Chain(i)[k]
  BY DEF ReachableFrom
<1>2. k \in 0 .. k
  BY SlotsAre
<1>3. Dynamic(s) /\ s \in Slot
  BY <1>1, <1>2, ChainFollows DEF ChainFrom
<1>4. QED
  BY <1>3, SlotsAre DEF Dynamic

(* Trimming brings the limit of the allocator back, but not into the        *)
(* sentinels.                                                               *)
LEMMA TrimTypes ==
  ASSUME lastFreeAction_ \in FirstDynamic .. SEQ_ACTION_SIZE,
         NEW used \in SUBSET (FirstDynamic .. lastFreeAction_ - 1)
  PROVE  /\ Max(used \cup {FirstDynamic - 1}) + 1 \in FirstDynamic .. lastFreeAction_
         /\ \A s \in used : s < Max(used \cup {FirstDynamic - 1}) + 1
<1> DEFINE all == used \cup {FirstDynamic - 1}
           last == Max(all)
<1>1. FirstDynamic \in Nat /\ FirstDynamic >= 2 /\ lastFreeAction_ \in Nat /\ lastFreeAction_ >= FirstDynamic
  BY SlotsAre
<1>2. all \in SUBSET (0 .. lastFreeAction_) /\ all # {} /\ all \subseteq FirstDynamic - 1 .. lastFreeAction_ - 1
  BY <1>1
<1>3. used \subseteq all
  OBVIOUS
<1> HIDE DEF all
<1>4. last \in all /\ \A s \in all : s <= last
  <2>1. Max(all) \in all /\ \A s \in all : s <= Max(all)
    BY <1>1, <1>2, MaxIsIn
  <2>2. QED
    BY <2>1
<1>5. last \in FirstDynamic - 1 .. lastFreeAction_ - 1
  BY <1>2, <1>4
<1> HIDE DEF last
<1>6. last + 1 \in FirstDynamic .. lastFreeAction_
  BY <1>1, <1>5
<1>7. \A s \in used : s <= last /\ s \in Int
  BY <1>2, <1>3, <1>4
<1>8. \A s \in used : s < last + 1
  BY <1>5, <1>7
<1>9. QED
  BY <1>6, <1>8 DEF last, all

LEMMA ResetTypes ==
  ASSUME TypeOK, NEW i \in Timbre, ResetList(i)
  PROVE  /\ actions' \in Table /\ lastFreeAction_' \in FirstDynamic .. lastFreeAction_
         /\ cursor' \in [Timbre -> Walker] /\ recorded' \in [Timbre -> SUBSET Note]
<1> DEFINE emptied == [s \in Slot |->
          CASE s = HeadOf(i) -> [when |-> 0, note |-> NONE, next |-> TailOf(i)]
            [] s = TailOf(i) -> [when |-> instrumentTimerMask_[i], note |-> NONE, next |-> HeadOf(i)]
            [] s \in ReachableFrom(i) -> [actions[s] EXCEPT !.note = NONE]
            [] OTHER -> actions[s]]
           needed == UNION {ReachableFrom(j) : j \in {j \in Timbre \ {i} : cursor[j].on}}
           used == {s \in FirstDynamic .. lastFreeAction_ - 1 : emptied[s].note # NONE} \cup needed
<1>1. /\ actions' = emptied /\ lastFreeAction_' = Max(used \cup {FirstDynamic - 1}) + 1
      /\ cursor' = [cursor EXCEPT ![i] = [AtRest(i) EXCEPT !.last = cursor[i].last]]
      /\ recorded' = [recorded EXCEPT ![i] = {}]
  BY DEF ResetList
<1>2. emptied \in Table
  <2>1. 0 \in Time /\ instrumentTimerMask_[i] \in Time /\ HeadOf(i) \in Slot /\ TailOf(i) \in Slot
    BY TimesAre, SlotsAre DEF Time, TypeOK
  <2>2. actions \in Table
    BY DEF TypeOK, Table
  <2>3. \A s \in Slot : [actions[s] EXCEPT !.note = NONE] \in [when : Time, note : Note \cup {NONE}, next : Slot]
    BY <2>2 DEF Table
  <2>4. \A s \in Slot : emptied[s] \in [when : Time, note : Note \cup {NONE}, next : Slot]
    BY <2>1, <2>2, <2>3 DEF Table
  <2>5. QED
    BY <2>4 DEF Table
<1>3. needed \subseteq FirstDynamic .. lastFreeAction_ - 1
  <2>1. actions \in Table /\ lastFreeAction_ \in FirstDynamic .. SEQ_ACTION_SIZE
    BY DEF TypeOK, Table
  <2>2. \A j \in Timbre : ReachableFrom(j) \subseteq FirstDynamic .. lastFreeAction_ - 1
    BY <2>1, ReachesDynamic
  <2>3. QED
    BY <2>2
<1> HIDE DEF emptied, needed
<1>4. used \in SUBSET (FirstDynamic .. lastFreeAction_ - 1)
  BY <1>3
<1> HIDE DEF used
<1>5. lastFreeAction_' \in FirstDynamic .. lastFreeAction_
  <2>1. lastFreeAction_ \in FirstDynamic .. SEQ_ACTION_SIZE
    BY DEF TypeOK
  <2>2. QED
    BY <1>1, <1>4, <2>1, TrimTypes
<1>6. [AtRest(i) EXCEPT !.last = cursor[i].last] \in Walker
  BY SlotsAre DEF AtRest, Walker, TypeOK
<1>7. QED
  BY <1>1, <1>2, <1>5, <1>6 DEF TypeOK
-----------------------------------------------------------------------------
(* Where main is, and what it holds there: the list and the place it works   *)
(* on, a free slot from the choice of the position to the publication, and   *)
(* a compaction that never moves a slot upwards.                             *)
Control ==
    /\ main.pc \in {"tailWhen", "outOfSync", "unlink"} =>
         main = [pc |-> main.pc, i |-> main.i] /\ main.i \in Timbre
    /\ main.pc = "position" =>
         /\ main.i \in Timbre /\ main.when \in Time
         /\ lastFreeAction_ < SEQ_ACTION_SIZE /\ notes \in Note
    /\ main.pc \in {"publish", "link", "cursor", "activate"} =>
         /\ main = [pc |-> main.pc, i |-> main.i, when |-> main.when, pred |-> main.pred]
         /\ main.i \in Timbre /\ main.when \in Time /\ main.pred \in Slot /\ notes \in Note
    /\ main.pc = "publish" => lastFreeAction_ < SEQ_ACTION_SIZE
    /\ main.pc \in {"link", "cursor"} => lastFreeAction_ > FirstDynamic
    /\ main.pc = "remap" => main = [pc |-> "remap", k |-> main.k] /\ main.k \in Slot
    /\ main.pc = "cursors" => main = [pc |-> "cursors", k |-> main.k] /\ main.k \in Timbre
    /\ main.pc = "compact" =>
         /\ main = [pc |-> "compact", k |-> main.k, to |-> main.to]
         /\ main.k \in FirstDynamic .. lastFreeAction_ /\ main.to \in FirstDynamic .. main.k
    /\ main.pc = "load" =>
         main = [pc |-> "load", at |-> main.at, adjusted |-> main.adjusted]

TypeInv == TypeOK /\ Control

Entry == [when : Time, note : Note \cup {NONE}, next : Slot]

LEMMA EntryIs ==
  /\ Table = [Slot -> Entry]
  /\ \A w \in Time, n \in Note \cup {NONE}, s \in Slot : [when |-> w, note |-> n, next |-> s] \in Entry
  /\ \A e \in Entry : /\ \A w \in Time : [e EXCEPT !.when = w] \in Entry
                      /\ \A n \in Note \cup {NONE} : [e EXCEPT !.note = n] \in Entry
                      /\ \A s \in Slot : [e EXCEPT !.next = s] \in Entry
  BY DEF Table, Entry

LEMMA SentinelsTypes ==
  ASSUME NEW mask \in [Timbre -> Time]
  PROVE  Sentinels(mask) \in Table
<1> SUFFICES ASSUME NEW s \in Slot PROVE Sentinels(mask)[s] \in Entry
  BY EntryIs DEF Sentinels
<1>1. s \in Nat /\ s < SEQ_ACTION_SIZE /\ 0 \in Time /\ 0 \in Slot
  BY SlotsAre, TimesAre DEF Time, Slot
<1>2. CASE s >= FirstDynamic
  BY <1>1, <1>2, EntryIs DEF Sentinels
<1>3. CASE s < FirstDynamic /\ s % 2 = 0
  <2>1. s + 1 \in Slot
    <3>1. s + 1 <= FirstDynamic
      BY <1>1, <1>3, SlotsAre
    <3>2. QED
      BY <1>1, <3>1, SlotsAre DEF Slot
  <2>2. Sentinels(mask)[s] = [when |-> 0, note |-> NONE, next |-> s + 1]
    BY <1>1, <1>3, SlotsAre DEF Sentinels
  <2>3. QED
    BY <1>1, <2>1, <2>2, EntryIs
<1>4. CASE s < FirstDynamic /\ s % 2 # 0
  <2>1. s >= 1 /\ s - 1 \in Slot
    BY <1>1, <1>4, SlotsAre DEF Slot
  <2>2. s \div 2 \in Timbre
    <3>1. NUMBER_OF_TIMBRES \in Nat
      BY SizesAssumption
    <3>2. QED
      BY <1>1, <1>4, <3>1 DEF Timbre, FirstDynamic
  <2>3. Sentinels(mask)[s] = [when |-> mask[s \div 2], note |-> NONE, next |-> s - 1]
    BY <1>1, <1>4, SlotsAre DEF Sentinels
  <2>4. QED
    BY <2>1, <2>2, <2>3, EntryIs
<1>5. QED
  BY <1>1, <1>2, <1>3, <1>4, SlotsAre

LEMMA CompactedTypes ==
  ASSUME TypeOK, NEW s \in Slot
  PROVE  Compacted(s) \in Slot
<1>1. CASE ~Dynamic(s)
  BY <1>1 DEF Compacted
<1>2. CASE Dynamic(s)
  <2> DEFINE used == {t \in FirstDynamic .. s - 1 : actions[t].note # NONE}
  <2>1. FirstDynamic \in Nat /\ s \in Nat /\ s >= FirstDynamic /\ s < SEQ_ACTION_SIZE /\ SEQ_ACTION_SIZE \in Nat
    BY <1>2, SlotsAre DEF Dynamic
  <2>2. IsFiniteSet(FirstDynamic .. s - 1)
        /\ Cardinality(FirstDynamic .. s - 1) = IF FirstDynamic > s - 1 THEN 0 ELSE s - 1 - FirstDynamic + 1
    BY <2>1, FS_Interval
  <2>3. used \in SUBSET (FirstDynamic .. s - 1)
    OBVIOUS
  <2> HIDE DEF used
  <2>4. Cardinality(used) <= Cardinality(FirstDynamic .. s - 1) /\ IsFiniteSet(used)
    BY <2>2, <2>3, FS_Subset
  <2>5. Cardinality(used) \in Nat
    BY <2>4, FS_CardinalityType
  <2>6. Cardinality(used) <= s - FirstDynamic
    BY <2>1, <2>2, <2>4, <2>5
  <2>7. Compacted(s) = FirstDynamic + Cardinality(used)
    BY <1>2 DEF Compacted, used
  <2>8. QED
    BY <2>1, <2>5, <2>6, <2>7 DEF Slot
<1>3. QED
  BY <1>1, <1>2

-----------------------------------------------------------------------------
(* Every step keeps the types.                                              *)
LEMMA TicTypes ==
  ASSUME TypeInv, MainSequencerTic
  PROVE  TypeInv'
<1>1. PICK counter \in {(current16bitTimer_ + d) % Period : d \in 0 .. MaxTick} :
         /\ current16bitTimer_' = counter /\ previousCurrent16bitTimer_' = counter
         /\ cursor' = [i \in Timbre |-> IF cursor[i].on THEN Walk(i, counter).c ELSE cursor[i]]
  BY DEF MainSequencerTic
<1>2. counter \in Time
  <2>1. PICK d \in 0 .. MaxTick : counter = (current16bitTimer_ + d) % Period
    BY <1>1
  <2>2. current16bitTimer_ + d \in Int /\ Period \in Nat \ {0}
    BY TimesAre DEF TypeInv, TypeOK, Time
  <2> DEFINE x == current16bitTimer_ + d
  <2>3. x \in Int /\ counter = x % Period
    BY <2>1, <2>2
  <2> HIDE DEF x
  <2>4. QED
    BY <2>2, <2>3 DEF Time
<1>3. \A i \in Timbre : Walk(i, counter).c \in Walker
  BY <1>2, WalkTypes DEF TypeInv
<1>4. cursor' \in [Timbre -> Walker]
  BY <1>1, <1>3 DEF TypeInv, TypeOK
<1>5. current16bitTimer_' \in Time /\ previousCurrent16bitTimer_' \in 0 .. Period
  BY <1>1, <1>2, TimesAre DEF Time
<1>6. QED
  BY <1>4, <1>5 DEF TypeInv, TypeOK, Control, MainSequencerTic

LEMMA TransportTypes ==
  ASSUME TypeInv, Start \/ Stop \/ Rewind
  PROVE  TypeInv'
<1>1. 0 \in Time /\ 1 \in 0 .. Period
  BY TimesAre DEF Time
<1>2. CASE Start
  <2>1. cursor' \in [Timbre -> Walker]
    <3>1. \A i \in Timbre : [cursor[i] EXCEPT !.last = 0] \in Walker
      BY <1>1, WalkerIs DEF TypeInv, TypeOK
    <3>2. QED
      BY <1>2, <3>1 DEF Start, TypeInv, TypeOK
  <2>2. QED
    BY <1>1, <1>2, <2>1 DEF Start, TypeInv, TypeOK, Control, lists
<1>3. CASE Stop
  BY <1>3 DEF Stop, TypeInv, TypeOK, Control, lists, transport
<1>4. CASE Rewind
  <2>1. edits' \in 0 .. MaxEdits
    BY <1>4, TimesAre DEF Rewind, Edit, TypeInv, TypeOK
  <2>2. QED
    BY <1>1, <1>4, <2>1 DEF Rewind, TypeInv, TypeOK, Control, lists
<1>5. QED
  BY <1>2, <1>3, <1>4

LEMMA IdleControls == ASSUME main' = idle PROVE Control'
  BY DEF Control, idle

LEMMA LengthTypes ==
  ASSUME TypeInv, Reset \/ SetMask \/ SetTailWhen \/ SetOutOfSync
  PROVE  TypeInv'
<1>1. CASE Reset
  <2>1. 0 \in Time /\ Period \in 0 .. Period
    BY TimesAre DEF Time
  <2>2. edits' \in 0 .. MaxEdits
    BY <1>1, TimesAre DEF Reset, Edit, TypeInv, TypeOK
  <2>3. actions' \in Table
    <3>1. Sentinels(instrumentTimerMask_) \in Table
      BY SentinelsTypes DEF TypeInv, TypeOK
    <3>2. \A s \in Slot : Sentinels(instrumentTimerMask_)[s] \in Entry /\ actions[s] \in Entry
      BY <3>1, EntryIs DEF TypeInv, TypeOK, Entry
    <3>3. QED
      BY <1>1, <3>2, EntryIs DEF Reset
  <2>4. cursor' \in [Timbre -> Walker]
    BY <1>1, <2>1, SlotsAre DEF Reset, AtRest, Walker
  <2>5. lastFreeAction_' \in FirstDynamic .. SEQ_ACTION_SIZE /\ recorded' \in [Timbre -> SUBSET Note]
    BY <1>1, SlotsAre DEF Reset
  <2>6. main' = idle
    BY <1>1 DEF Reset, Edit
  <2>7. QED
    BY <1>1, <2>1, <2>2, <2>3, <2>4, <2>5, <2>6, IdleControls DEF Reset, TypeInv, TypeOK, Table
<1>2. CASE SetMask
  <2>1. edits' \in 0 .. MaxEdits
    BY <1>2, TimesAre DEF SetMask, Edit, TypeInv, TypeOK
  <2>2. PICK i \in Timbre, b \in Bars :
          /\ instrumentTimerMask_' = [instrumentTimerMask_ EXCEPT ![i] = b - 1]
          /\ main' = [pc |-> "tailWhen", i |-> i]
    BY <1>2 DEF SetMask
  <2>3. b - 1 \in Time
    BY TimesAre DEF Time
  <2>4. instrumentTimerMask_' \in [Timbre -> Time]
    BY <2>2, <2>3 DEF TypeInv, TypeOK
  <2>5. Control'
    BY <2>2 DEF Control
  <2>6. QED
    BY <1>2, <2>1, <2>4, <2>5 DEF SetMask, TypeInv, TypeOK, lists, transport
<1>3. CASE SetTailWhen
  <2>1. main.i \in Timbre /\ main' = [pc |-> "outOfSync", i |-> main.i]
    BY <1>3 DEF SetTailWhen, TypeInv, Control
  <2>2. instrumentTimerMask_[main.i] \in Time /\ TailOf(main.i) \in Slot
    BY <2>1, SlotsAre DEF TypeInv, TypeOK
  <2>3. actions' \in Table
    <3>1. actions \in [Slot -> Entry]
      BY DEF TypeInv, TypeOK, Entry
    <3>2. [actions[TailOf(main.i)] EXCEPT !.when = instrumentTimerMask_[main.i]] \in Entry
      BY <2>2, <3>1, EntryIs
    <3>3. QED
      BY <1>3, <3>1, <3>2, EntryIs DEF SetTailWhen
  <2>4. Control'
    BY <2>1 DEF Control
  <2>5. QED
    BY <1>3, <2>3, <2>4 DEF SetTailWhen, TypeInv, TypeOK, Table, transport
<1>4. CASE SetOutOfSync
  <2>1. main.i \in Timbre
    BY <1>4 DEF SetOutOfSync, TypeInv, Control
  <2>2. cursor' \in [Timbre -> Walker]
    <3>1. [cursor[main.i] EXCEPT !.outOfSync = TRUE] \in Walker
      BY <2>1, WalkerIs DEF TypeInv, TypeOK
    <3>2. QED
      BY <1>4, <3>1 DEF SetOutOfSync, TypeInv, TypeOK
  <2>3. Control'
    BY <1>4, IdleControls DEF SetOutOfSync
  <2>4. QED
    BY <1>4, <2>2, <2>3 DEF SetOutOfSync, TypeInv, TypeOK, lists, transport
<1>5. QED
  BY <1>1, <1>2, <1>3, <1>4
LEMMA FoundSlot ==
  ASSUME TypeOK, NEW i \in Timbre, WellFormed(i), NEW when
  PROVE  FoundPosition(i, when) \in Slot
<1> DEFINE c == Chain(i)
           turns == {k \in 0 .. SEQ_ACTION_SIZE : c[k] = TailOf(i) \/ actions[c[k]].when > when}
           k == Min(turns)
<1>1. c \in [0 .. SEQ_ACTION_SIZE -> Slot]
  <2>1. actions \in Table
    BY DEF TypeOK, Table
  <2>2. QED
    BY <2>1, ChainFollows DEF ChainFrom
<1>2. k \in 0 .. SEQ_ACTION_SIZE
  <2>1. SEQ_ACTION_SIZE \in turns
    BY SlotsAre DEF WellFormed, Ends
  <2>2. turns \in SUBSET Nat /\ turns \subseteq 0 .. SEQ_ACTION_SIZE
    BY SlotsAre
  <2> HIDE DEF turns
  <2>3. QED
    BY <2>1, <2>2, MinIsLeast
<1>3. FoundPosition(i, when) = IF k = 0 THEN HeadOf(i) ELSE c[k - 1]
  BY DEF FoundPosition
<1> HIDE DEF k, c
<1>4. k # 0 => k - 1 \in 0 .. SEQ_ACTION_SIZE
  BY <1>2, SlotsAre
<1>5. QED
  BY <1>1, <1>3, <1>4, SlotsAre

LEMMA RepairTypes ==
  ASSUME TypeInv, RepairList \/ InsertNote
  PROVE  TypeInv'
<1>1. notes' \in 0 .. MaxNotes /\ notes' \in Note
  BY TimesAre DEF RepairList, InsertNote, TypeInv, TypeOK, Note
<1>2. CASE RepairList
  <2>1. PICK i \in Timbre : ResetList(i)
    BY <1>2 DEF RepairList
  <2>2. /\ actions' \in Table /\ lastFreeAction_' \in FirstDynamic .. lastFreeAction_
        /\ cursor' \in [Timbre -> Walker] /\ recorded' \in [Timbre -> SUBSET Note]
    BY <2>1, ResetTypes DEF TypeInv
  <2>3. lastFreeAction_' \in FirstDynamic .. SEQ_ACTION_SIZE
    BY <2>2, SlotsAre DEF TypeInv, TypeOK
  <2>4. Control'
    BY <1>2, IdleControls DEF RepairList
  <2>5. QED
    BY <1>1, <1>2, <2>2, <2>3, <2>4 DEF RepairList, TypeInv, TypeOK, Table, others, transport
<1>3. CASE InsertNote
  <2>1. PICK i \in Timbre :
         /\ cursor' = [cursor EXCEPT ![i].poisoned = FALSE]
         /\ main' = IF lastFreeAction_ = SEQ_ACTION_SIZE THEN idle
                    ELSE [pc |-> "position", i |-> i,
                          when |-> current16bitTimer_ % (instrumentTimerMask_[i] + 1)]
    BY <1>3 DEF InsertNote
  <2>2. cursor' \in [Timbre -> Walker]
    <3>1. [cursor[i] EXCEPT !.poisoned = FALSE] \in Walker
      BY WalkerIs DEF TypeInv, TypeOK
    <3>2. QED
      BY <2>1, <3>1 DEF TypeInv, TypeOK
  <2>3. lastFreeAction_' = lastFreeAction_ /\ lastFreeAction_ \in FirstDynamic .. SEQ_ACTION_SIZE
    BY <1>3 DEF InsertNote, lists, TypeInv, TypeOK
  <2>4. current16bitTimer_ % (instrumentTimerMask_[i] + 1) \in Time
    <3>1. current16bitTimer_ \in Int /\ instrumentTimerMask_[i] \in Time
      BY TimesAre DEF TypeInv, TypeOK, Time
    <3>2. QED
      BY <3>1, TimerTypes
  <2>5. Control'
    <3> DEFINE t == current16bitTimer_ % (instrumentTimerMask_[i] + 1)
    <3> HIDE DEF t
    <3>1. CASE lastFreeAction_ = SEQ_ACTION_SIZE
      BY <2>1, <3>1, IdleControls
    <3>2. CASE lastFreeAction_ # SEQ_ACTION_SIZE
      <4>1. main' = [pc |-> "position", i |-> i, when |-> t] /\ t \in Time
        BY <2>1, <2>4, <3>2 DEF t
      <4>2. lastFreeAction_' < SEQ_ACTION_SIZE
        BY <2>3, <3>2, SlotsAre
      <4>3. QED
        BY <1>1, <4>1, <4>2 DEF Control
    <3>3. QED
      BY <3>1, <3>2
  <2>6. QED
    BY <1>1, <1>3, <2>2, <2>5 DEF InsertNote, TypeInv, TypeOK, lists, others, transport
<1>4. QED
  BY <1>2, <1>3

LEMMA FindTypes ==
  ASSUME TypeInv, FindPosition
  PROVE  TypeInv'
<1> DEFINE i == main.i
           pred == cursor[i].prev
           wrap == pred = TailOf(i) /\ actions[TailOf(i)].next = HeadOf(i)
           when == IF wrap THEN 0 ELSE main.when
<1>1. i \in Timbre /\ main.when \in Time /\ lastFreeAction_ < SEQ_ACTION_SIZE /\ notes \in Note
  BY DEF FindPosition, TypeInv, Control
<1>2. when \in Time
  BY <1>1, TimesAre DEF Time
<1>3. pred \in Slot
  BY <1>1, WalkerIs DEF TypeInv, TypeOK
<1>4. \/ /\ main' = [pc |-> "publish", i |-> i, when |-> when, pred |-> pred]
         /\ UNCHANGED <<lists, cursor>>
      \/ /\ WellFormed(i)
         /\ main' = [pc |-> "publish", i |-> i, when |-> when, pred |-> FoundPosition(i, when)]
         /\ cursor' = [cursor EXCEPT ![i].poisoned = FALSE] /\ UNCHANGED lists
      \/ ResetList(i) /\ main' = idle
  BY DEF FindPosition
<1>5. UNCHANGED <<notes, others>>
  BY DEF FindPosition
<1> HIDE DEF when, pred, i
<1>6. ASSUME NEW p \in Slot, main' = [pc |-> "publish", i |-> i, when |-> when, pred |-> p],
             UNCHANGED lists
      PROVE  Control'
  BY <1>1, <1>2, <1>5, <1>6 DEF Control, lists
<1>7. CASE /\ main' = [pc |-> "publish", i |-> i, when |-> when, pred |-> pred]
           /\ UNCHANGED <<lists, cursor>>
  <2>1. Control'
    BY <1>3, <1>6, <1>7
  <2>2. QED
    BY <1>5, <1>7, <2>1 DEF TypeInv, TypeOK, lists, others, transport
<1>8. CASE /\ WellFormed(i)
           /\ main' = [pc |-> "publish", i |-> i, when |-> when, pred |-> FoundPosition(i, when)]
           /\ cursor' = [cursor EXCEPT ![i].poisoned = FALSE] /\ UNCHANGED lists
  <2>1. FoundPosition(i, when) \in Slot
    BY <1>1, <1>8, FoundSlot DEF TypeInv
  <2>2. Control'
    BY <1>6, <1>8, <2>1
  <2>3. cursor' \in [Timbre -> Walker]
    <3>1. [cursor[i] EXCEPT !.poisoned = FALSE] \in Walker
      BY <1>1, WalkerIs DEF TypeInv, TypeOK
    <3>2. QED
      BY <1>8, <3>1 DEF TypeInv, TypeOK
  <2>4. QED
    BY <1>5, <1>8, <2>2, <2>3 DEF TypeInv, TypeOK, lists, others, transport
<1>9. CASE ResetList(i) /\ main' = idle
  <2>1. /\ actions' \in Table /\ lastFreeAction_' \in FirstDynamic .. lastFreeAction_
        /\ cursor' \in [Timbre -> Walker] /\ recorded' \in [Timbre -> SUBSET Note]
    BY <1>1, <1>9, ResetTypes DEF TypeInv
  <2>2. lastFreeAction_' \in FirstDynamic .. SEQ_ACTION_SIZE
    BY <2>1, SlotsAre DEF TypeInv, TypeOK
  <2>3. Control'
    BY <1>9, IdleControls
  <2>4. QED
    BY <1>5, <2>1, <2>2, <2>3 DEF TypeInv, TypeOK, Table, others, transport
<1>10. QED
  BY <1>4, <1>7, <1>8, <1>9

LEMMA CommitTypes ==
  ASSUME TypeInv, Publish \/ LinkNote \/ SetPrevious \/ SetSeqActivated
  PROVE  TypeInv'
<1>1. /\ main = [pc |-> main.pc, i |-> main.i, when |-> main.when, pred |-> main.pred]
      /\ main.i \in Timbre /\ main.when \in Time /\ main.pred \in Slot /\ notes \in Note
  BY DEF Publish, LinkNote, SetPrevious, SetSeqActivated, TypeInv, Control
<1>2. actions \in [Slot -> Entry] /\ lastFreeAction_ \in FirstDynamic .. SEQ_ACTION_SIZE
  BY DEF TypeInv, TypeOK, Entry
<1>3. CASE Publish
  <2>1. main' = [pc |-> "link", i |-> main.i, when |-> main.when, pred |-> main.pred]
    BY <1>1, <1>3 DEF Publish
  <2>2. lastFreeAction_ < SEQ_ACTION_SIZE /\ lastFreeAction_ \in Nat
    BY <1>2, <1>3, SlotsAre DEF Publish, TypeInv, Control
  <2>3. lastFreeAction_' \in FirstDynamic .. SEQ_ACTION_SIZE /\ lastFreeAction_' > FirstDynamic
    BY <1>2, <1>3, <2>2, SlotsAre DEF Publish
  <2>4. actions' \in Table
    <3>1. actions[main.pred].next \in Slot
      BY <1>1, <1>2 DEF Entry
    <3>2. [when |-> main.when, note |-> notes, next |-> actions[main.pred].next] \in Entry
      BY <1>1, <3>1, EntryIs
    <3>3. QED
      BY <1>2, <1>3, <3>2, EntryIs DEF Publish
  <2>5. Control'
    BY <1>1, <1>3, <2>1, <2>3 DEF Control, Publish
  <2>6. QED
    BY <1>3, <2>3, <2>4, <2>5 DEF Publish, TypeInv, TypeOK, Table, others, transport
<1>4. CASE LinkNote
  <2>1. main' = [pc |-> "cursor", i |-> main.i, when |-> main.when, pred |-> main.pred]
    BY <1>1, <1>4 DEF LinkNote
  <2>2. lastFreeAction_ > FirstDynamic
    BY <1>4 DEF LinkNote, TypeInv, Control
  <2>3. lastFreeAction_ - 1 \in Slot
    BY <1>2, <2>2, SlotsAre DEF Slot
  <2>4. actions' \in Table
    <3>1. [actions[main.pred] EXCEPT !.next = lastFreeAction_ - 1] \in Entry
      BY <1>1, <1>2, <2>3, EntryIs
    <3>2. QED
      BY <1>2, <1>4, <3>1, EntryIs DEF LinkNote
  <2>5. recorded' \in [Timbre -> SUBSET Note]
    <3>1. recorded[main.i] \cup {notes} \in SUBSET Note
      BY <1>1 DEF TypeInv, TypeOK
    <3>2. QED
      BY <1>4, <3>1 DEF LinkNote, TypeInv, TypeOK
  <2>6. Control'
    BY <1>1, <1>4, <2>1, <2>2 DEF Control, LinkNote
  <2>7. QED
    BY <1>4, <2>4, <2>5, <2>6 DEF LinkNote, TypeInv, TypeOK, Table, others, transport
<1>5. CASE SetPrevious
  <2>1. main' = [pc |-> "activate", i |-> main.i, when |-> main.when, pred |-> main.pred]
    BY <1>1, <1>5 DEF SetPrevious
  <2>2. lastFreeAction_ > FirstDynamic
    BY <1>5 DEF SetPrevious, TypeInv, Control
  <2>3. lastFreeAction_ - 1 \in Slot
    BY <1>2, <2>2, SlotsAre DEF Slot
  <2>4. cursor' \in [Timbre -> Walker]
    <3>1. [cursor[main.i] EXCEPT !.prev = lastFreeAction_ - 1] \in Walker
      BY <1>1, <2>3, WalkerIs DEF TypeInv, TypeOK
    <3>2. QED
      BY <1>5, <3>1 DEF SetPrevious, TypeInv, TypeOK
  <2>5. Control'
    BY <1>1, <1>5, <2>1 DEF Control, SetPrevious
  <2>6. QED
    BY <1>5, <2>4, <2>5 DEF SetPrevious, TypeInv, TypeOK, lists, others, transport
<1>6. CASE SetSeqActivated
  <2>1. cursor' \in [Timbre -> Walker]
    <3>1. [cursor[main.i] EXCEPT !.on = TRUE] \in Walker
      BY <1>1, WalkerIs DEF TypeInv, TypeOK
    <3>2. QED
      BY <1>6, <3>1 DEF SetSeqActivated, TypeInv, TypeOK
  <2>2. Control'
    BY <1>6, IdleControls DEF SetSeqActivated
  <2>3. QED
    BY <1>6, <2>1, <2>2 DEF SetSeqActivated, TypeInv, TypeOK, lists, others, transport
<1>7. QED
  BY <1>3, <1>4, <1>5, <1>6
LEMMA UnlinkTypes ==
  ASSUME TypeInv, BeginClear \/ Unlink
  PROVE  TypeInv'
<1>1. actions \in [Slot -> Entry] /\ lastFreeAction_ \in FirstDynamic .. SEQ_ACTION_SIZE
  BY DEF TypeInv, TypeOK, Entry
<1>2. CASE BeginClear
  <2>1. edits' \in 0 .. MaxEdits
    BY <1>2, TimesAre DEF BeginClear, Edit, TypeInv, TypeOK
  <2>2. PICK i \in Timbre :
          /\ actions' = [s \in Slot |-> IF s \in Nodes(i) THEN [actions[s] EXCEPT !.note = NONE]
                                        ELSE actions[s]]
          /\ main' = [pc |-> "unlink", i |-> i]
    BY <1>2 DEF BeginClear
  <2>3. actions' \in Table
    <3>1. \A s \in Slot : actions[s] \in Entry /\ [actions[s] EXCEPT !.note = NONE] \in Entry
      BY <1>1, EntryIs
    <3>2. QED
      BY <2>2, <3>1, EntryIs
  <2>4. Control'
    BY <2>2 DEF Control
  <2>5. QED
    BY <1>2, <2>1, <2>3, <2>4 DEF BeginClear, TypeInv, TypeOK, Table, transport
<1>3. CASE Unlink
  <2>1. main.i \in Timbre
    BY <1>3 DEF Unlink, TypeInv, Control
  <2>2. /\ cursor' = [cursor EXCEPT ![main.i] = [AtRest(main.i) EXCEPT !.last = cursor[main.i].last]]
        /\ actions' = [actions EXCEPT ![HeadOf(main.i)].next = TailOf(main.i)]
        /\ recorded' = [recorded EXCEPT ![main.i] = {}]
        /\ \/ main' = [pc |-> "remap", k |-> 0] /\ UNCHANGED lastFreeAction_
           \/ main' = idle /\ lastFreeAction_' = FirstDynamic
    BY <1>3 DEF Unlink
  <2>3. cursor' \in [Timbre -> Walker]
    <3>1. [AtRest(main.i) EXCEPT !.last = cursor[main.i].last] \in Walker
      BY <2>1, SlotsAre DEF AtRest, Walker, TypeInv, TypeOK
    <3>2. QED
      BY <2>2, <3>1 DEF TypeInv, TypeOK
  <2>4. actions' \in Table
    <3>1. [actions[HeadOf(main.i)] EXCEPT !.next = TailOf(main.i)] \in Entry
      BY <1>1, <2>1, SlotsAre, EntryIs
    <3>2. QED
      BY <1>1, <2>2, <3>1, EntryIs
  <2>5. 0 \in Slot
    BY SlotsAre DEF Slot
  <2>6. Control' /\ lastFreeAction_' \in FirstDynamic .. SEQ_ACTION_SIZE
    <3>1. CASE main' = [pc |-> "remap", k |-> 0] /\ UNCHANGED lastFreeAction_
      BY <1>1, <2>5, <3>1 DEF Control
    <3>2. CASE main' = idle /\ lastFreeAction_' = FirstDynamic
      BY <3>2, IdleControls, SlotsAre
    <3>3. QED
      BY <2>2, <3>1, <3>2
  <2>7. QED
    BY <1>3, <2>2, <2>3, <2>4, <2>6 DEF Unlink, TypeInv, TypeOK, Table, others, transport
<1>4. QED
  BY <1>2, <1>3

LEMMA RemapTypes ==
  ASSUME TypeInv, RemapLink \/ RemapCursor
  PROVE  TypeInv'
<1>1. actions \in [Slot -> Entry] /\ lastFreeAction_ \in FirstDynamic .. SEQ_ACTION_SIZE
  BY DEF TypeInv, TypeOK, Entry
<1>2. CASE RemapLink
  <2>1. main = [pc |-> "remap", k |-> main.k] /\ main.k \in Slot
    BY <1>2 DEF RemapLink, TypeInv, Control
  <2>2. Compacted(actions[main.k].next) \in Slot
    <3>1. actions[main.k].next \in Slot
      BY <1>1, <2>1 DEF Entry
    <3>2. QED
      BY <3>1, CompactedTypes DEF TypeInv
  <2>3. actions' \in Table
    <3>1. [actions[main.k] EXCEPT !.next = Compacted(actions[main.k].next)] \in Entry
      BY <1>1, <2>1, <2>2, EntryIs
    <3>2. actions' \in {actions, [actions EXCEPT ![main.k] =
                                    [actions[main.k] EXCEPT !.next = Compacted(actions[main.k].next)]]}
      BY <1>2 DEF RemapLink
    <3>3. QED
      BY <1>1, <2>1, <3>1, <3>2, EntryIs
  <2>4. Control'
    <3>1. CASE main.k + 1 < lastFreeAction_
      <4>1. main' = [pc |-> "remap", k |-> main.k + 1]
        BY <1>2, <2>1, <3>1 DEF RemapLink
      <4>2. main.k + 1 \in Slot
        BY <1>1, <2>1, <3>1, SlotsAre DEF Slot
      <4>3. QED
        BY <4>1, <4>2 DEF Control
    <3>2. CASE ~(main.k + 1 < lastFreeAction_)
      <4>1. main' = [pc |-> "cursors", k |-> 0]
        BY <1>2, <3>2 DEF RemapLink
      <4>2. 0 \in Timbre
        BY SizesAssumption DEF Timbre
      <4>3. QED
        BY <4>1, <4>2 DEF Control
    <3>3. QED
      BY <3>1, <3>2
  <2>5. QED
    BY <1>2, <2>3, <2>4 DEF RemapLink, TypeInv, TypeOK, Table, others, transport
<1>3. CASE RemapCursor
  <2>1. main = [pc |-> "cursors", k |-> main.k] /\ main.k \in Timbre
    BY <1>3 DEF RemapCursor, TypeInv, Control
  <2> DEFINE c == cursor[main.k]
  <2>2. c \in Walker
    BY <2>1 DEF TypeInv, TypeOK
  <2>3. Compacted(c.next) \in Slot /\ Compacted(c.prev) \in Slot
    BY <2>2, WalkerIs, CompactedTypes DEF TypeInv
  <2>4. cursor' = [cursor EXCEPT ![main.k] = [c EXCEPT !.next = Compacted(c.next), !.prev = Compacted(c.prev)]]
    BY <1>3, <2>1, <2>2 DEF RemapCursor, TypeInv, TypeOK, Walker
  <2> HIDE DEF c
  <2>5. [c EXCEPT !.next = Compacted(c.next), !.prev = Compacted(c.prev)] \in Walker
    <3> DEFINE r == Compacted(c.prev)
               s == Compacted(c.next)
    <3>1. r \in Slot /\ s \in Slot
      BY <2>3
    <3> HIDE DEF r, s
    <3>2. [c EXCEPT !.next = s, !.prev = r] \in Walker
      BY <2>2, <3>1 DEF Walker
    <3>3. QED
      BY <3>2 DEF r, s
  <2>6. cursor' \in [Timbre -> Walker]
    BY <2>4, <2>5 DEF TypeInv, TypeOK
  <2>7. Control'
    <3>1. lastFreeAction_' = lastFreeAction_
      BY <1>3 DEF RemapCursor, lists
    <3>2. CASE main.k + 1 < NUMBER_OF_TIMBRES
      <4>1. main' = [pc |-> "cursors", k |-> main.k + 1]
        BY <1>3, <2>1, <3>2 DEF RemapCursor
      <4>2. main.k + 1 \in Timbre
        <5>1. NUMBER_OF_TIMBRES \in Nat
          BY SizesAssumption
        <5>2. QED
          BY <2>1, <3>2, <5>1 DEF Timbre
      <4>3. QED
        BY <4>1, <4>2 DEF Control
    <3>3. CASE ~(main.k + 1 < NUMBER_OF_TIMBRES)
      <4>1. main' = [pc |-> "compact", k |-> FirstDynamic, to |-> FirstDynamic]
        BY <1>3, <3>3 DEF RemapCursor
      <4>2. FirstDynamic \in FirstDynamic .. lastFreeAction_ /\ FirstDynamic \in FirstDynamic .. FirstDynamic
        BY <1>1, SlotsAre
      <4>3. QED
        BY <3>1, <4>1, <4>2 DEF Control
    <3>4. QED
      BY <3>2, <3>3
  <2>8. QED
    BY <1>3, <2>6, <2>7 DEF RemapCursor, TypeInv, TypeOK, lists, others, transport
<1>4. QED
  BY <1>2, <1>3

LEMMA CompactTypes ==
  ASSUME TypeInv, Compact \/ FinishClear
  PROVE  TypeInv'
<1>1. actions \in [Slot -> Entry] /\ lastFreeAction_ \in FirstDynamic .. SEQ_ACTION_SIZE
  BY DEF TypeInv, TypeOK, Entry
<1>2. /\ main = [pc |-> "compact", k |-> main.k, to |-> main.to]
      /\ main.k \in FirstDynamic .. lastFreeAction_ /\ main.to \in FirstDynamic .. main.k
  BY DEF Compact, FinishClear, TypeInv, Control
<1>3. FirstDynamic \in Nat /\ lastFreeAction_ \in Nat /\ lastFreeAction_ <= SEQ_ACTION_SIZE
      /\ SEQ_ACTION_SIZE \in Nat
  BY <1>1, SlotsAre
<1>4. CASE Compact
  <2>1. main.k < lastFreeAction_ /\ lastFreeAction_' = lastFreeAction_
    BY <1>4 DEF Compact
  <2>2. main.k \in Slot /\ main.to \in Slot
    BY <1>2, <1>3, <2>1 DEF Slot
  <2>3. CASE actions[main.k].note # NONE
    <3>1. /\ actions' = [actions EXCEPT ![main.to] = actions[main.k]]
          /\ main' = [pc |-> "compact", k |-> main.k + 1, to |-> main.to + 1]
      BY <1>2, <1>4, <2>3 DEF Compact
    <3>2. actions' \in Table
      BY <1>1, <2>2, <3>1, EntryIs
    <3>3. main.k + 1 \in FirstDynamic .. lastFreeAction_ /\ main.to + 1 \in FirstDynamic .. main.k + 1
      BY <1>2, <1>3, <2>1
    <3>4. Control'
      BY <2>1, <3>1, <3>3 DEF Control
    <3>5. QED
      BY <1>4, <2>1, <3>2, <3>4 DEF Compact, TypeInv, TypeOK, Table, others, transport
  <2>4. CASE ~(actions[main.k].note # NONE)
    <3>1. actions' = actions /\ main' = [pc |-> "compact", k |-> main.k + 1, to |-> main.to]
      BY <1>2, <1>4, <2>4 DEF Compact
    <3>2. main.k + 1 \in FirstDynamic .. lastFreeAction_ /\ main.to \in FirstDynamic .. main.k + 1
      BY <1>2, <1>3, <2>1
    <3>3. Control'
      BY <2>1, <3>1, <3>2 DEF Control
    <3>4. QED
      BY <1>4, <2>1, <3>1, <3>3 DEF Compact, TypeInv, TypeOK, others, transport
  <2>5. QED
    BY <2>3, <2>4
<1>5. CASE FinishClear
  <2>1. actions' \in Table
    <3>1. \A s \in Slot : actions[s] \in Entry /\ [actions[s] EXCEPT !.note = NONE] \in Entry
      BY <1>1, EntryIs
    <3>2. QED
      BY <1>5, <3>1, EntryIs DEF FinishClear
  <2>2. lastFreeAction_' \in FirstDynamic .. SEQ_ACTION_SIZE
    BY <1>2, <1>3, <1>5 DEF FinishClear
  <2>3. Control'
    BY <1>5, IdleControls DEF FinishClear
  <2>4. QED
    BY <1>5, <2>1, <2>2, <2>3 DEF FinishClear, TypeInv, TypeOK, Table, others, transport
<1>6. QED
  BY <1>4, <1>5

LEMMA ListTypesStep ==
  ASSUME TypeInv, [Next]_vars
  PROVE  TypeInv'
<1>1. CASE UNCHANGED vars
  BY <1>1 DEF vars, TypeInv, TypeOK, Control
<1>2. CASE Next
  BY <1>2, TicTypes, TransportTypes, LengthTypes, RepairTypes, FindTypes, CommitTypes, UnlinkTypes,
     RemapTypes, CompactTypes DEF Next, MainLoop, Insert, Clear
<1>3. QED
  BY <1>1, <1>2

LEMMA ListTypesInit == Init => TypeInv
<1> SUFFICES ASSUME Init PROVE TypeInv
  OBVIOUS
<1>1. 0 \in Time /\ Period - 1 \in Time /\ Period \in 0 .. Period /\ 0 \in 0 .. MaxNotes /\ 0 \in 0 .. MaxEdits
  BY TimesAre DEF Time
<1>2. instrumentTimerMask_ \in [Timbre -> Time]
  BY <1>1 DEF Init
<1>3. actions \in Table
  BY <1>2, SentinelsTypes DEF Init
<1>4. cursor \in [Timbre -> Walker]
  BY <1>1, SlotsAre DEF Init, AtRest, Walker
<1>5. lastFreeAction_ \in FirstDynamic .. SEQ_ACTION_SIZE
  BY SlotsAre DEF Init
<1>6. Control
  BY DEF Init, Control, idle
<1>7. QED
  BY <1>1, <1>2, <1>3, <1>4, <1>5, <1>6 DEF Init, TypeInv, TypeOK, Table
-----------------------------------------------------------------------------
(* The load. *)
LEMMA StoredSizes ==
  /\ NUMBER_OF_TIMBRES \in Nat /\ NUMBER_OF_TIMBRES >= 2
  /\ SEQ_ACTION_SIZE >= FirstDynamic + 2 /\ Period >= 2
  /\ MaxNotes >= 2 /\ MaxWork - MaxEdits \in 1 .. MaxNotes
  BY StoredAssumption, SizesAssumption

LEMMA StoredTypes ==
  ASSUME TypeOK, NEW heads \in [{HeadOf(i) : i \in Timbre} -> Links \ {HeadOf(0)}],
         NEW first \in FirstStored, NEW second \in SecondStored, NEW damage
  PROVE  Stored(heads, first, second, damage) \in Table
<1>1. 0 \in Time /\ 1 \in Time /\ MaxNotes - 1 \in Note /\ MaxNotes \in Note /\ 0 \in Slot
  BY StoredSizes, TimesAre, SlotsAre DEF Time, Note, Slot
<1>2. 0 \in Timbre /\ 1 \in Timbre /\ First \in Slot /\ Second \in Slot
  BY StoredSizes, SlotsAre DEF Timbre, Slot, First, Second
<1>3. Links \subseteq Slot
  BY <1>2, SlotsAre DEF Links
<1>4. first \in Entry /\ second \in Entry
  BY <1>1, <1>3 DEF FirstStored, SecondStored, Entry
<1>5. SUFFICES ASSUME NEW s \in Slot PROVE Stored(heads, first, second, damage)[s] \in Entry
  BY EntryIs DEF Stored
<1>6. s \in Nat /\ FirstDynamic \in Nat
  BY SlotsAre
<1>7. CASE s < FirstDynamic /\ s % 2 = 0
  <2>1. s \in {HeadOf(i) : i \in Timbre}
    <3>1. s \div 2 \in Timbre /\ s = HeadOf(s \div 2)
      BY <1>6, <1>7, StoredSizes DEF Timbre, HeadOf, FirstDynamic
    <3>2. QED
      BY <3>1
  <2>2. heads[s] \in Slot
    BY <1>3, <2>1
  <2> DEFINE w == IF s = 0 /\ damage = "sentinel" THEN 1 ELSE 0
  <2>3. Stored(heads, first, second, damage)[s] = [when |-> w, note |-> NONE, next |-> heads[s]]
    <3>1. s # First /\ s # Second /\ ~(s % 2 = 1)
      BY <1>6, <1>7 DEF First, Second
    <3>2. QED
      BY <1>7, <3>1 DEF Stored
  <2>4. w \in Time
    BY <1>1
  <2> HIDE DEF w
  <2>5. QED
    BY <2>2, <2>3, <2>4, EntryIs
<1>8. CASE s < FirstDynamic /\ s % 2 # 0
  <2>1. s % 2 = 1
    BY <1>6, <1>8
  <2>2. Stored(heads, first, second, damage)[s] = Sentinels(instrumentTimerMask_)[s]
    <3>1. s # First /\ s # Second /\ ~(s % 2 = 0)
      BY <1>6, <1>8, <2>1 DEF First, Second
    <3>2. QED
      BY <1>8, <2>1, <3>1 DEF Stored
  <2>3. Sentinels(instrumentTimerMask_) \in Table
    BY SentinelsTypes DEF TypeOK
  <2>4. QED
    BY <2>2, <2>3, EntryIs
<1>9. CASE s >= FirstDynamic
  <2>1. ~(s < FirstDynamic)
    BY <1>6, <1>9
  <2>2. Stored(heads, first, second, damage)[s] \in {first, second, [when |-> 0, note |-> NONE, next |-> 0]}
    BY <2>1 DEF Stored
  <2>3. QED
    BY <1>1, <1>4, <2>2, EntryIs
<1>10. QED
  BY <1>6, <1>7, <1>8, <1>9

LEMMA SanitizedTypes ==
  ASSUME NEW limit \in Nat
  PROVE  SanitizedLastFreeAction(limit) \in FirstDynamic .. SEQ_ACTION_SIZE
<1> DEFINE S == {limit, FirstDynamic}
           m == Max(S)
           T == {m, SEQ_ACTION_SIZE}
<1>1. FirstDynamic \in Nat /\ SEQ_ACTION_SIZE \in Nat /\ FirstDynamic < SEQ_ACTION_SIZE
  BY SlotsAre
<1>2. m \in S /\ \A y \in S : y <= m
  <2>1. S \in SUBSET (0 .. limit + FirstDynamic) /\ S # {} /\ limit + FirstDynamic \in Nat
    BY <1>1
  <2> HIDE DEF S
  <2>2. QED
    BY <2>1, MaxIsIn
<1>3. m \in Nat /\ FirstDynamic <= m
  BY <1>1, <1>2
<1> HIDE DEF m
<1>4. Min(T) \in T /\ \A y \in T : Min(T) <= y
  <2>1. T \in SUBSET Nat /\ T # {}
    BY <1>1, <1>3
  <2> HIDE DEF T
  <2>2. QED
    BY <2>1, MinIsLeast
<1>5. Min(T) \in FirstDynamic .. SEQ_ACTION_SIZE
  <2> DEFINE x == Min(T)
  <2>1. x \in T /\ x <= SEQ_ACTION_SIZE
    BY <1>4
  <2> HIDE DEF x
  <2>2. x \in FirstDynamic .. SEQ_ACTION_SIZE
    BY <1>1, <1>3, <2>1
  <2>3. QED
    BY <2>2 DEF x
<1>6. QED
  BY <1>5 DEF SanitizedLastFreeAction, m

LEMMA CopyTypes ==
  ASSUME TypeInv, CopySequence
  PROVE  TypeInv'
<1>1. PICK heads \in [{HeadOf(i) : i \in Timbre} -> Links \ {HeadOf(0)}],
           first \in FirstStored, second \in SecondStored, damage \in Damages :
         /\ actions' = Stored(heads, first, second, damage)
         /\ \E limit \in StoredLimits(damage) : lastFreeAction_' = SanitizedLastFreeAction(limit)
         /\ main' = [pc |-> "load", at |-> "copied", adjusted |-> damage = "limit"]
         /\ notes' = MaxWork - MaxEdits - (IF damage = "none" THEN 1 ELSE 0)
  BY DEF CopySequence
<1>2. actions' \in Table
  BY <1>1, StoredTypes DEF TypeInv
<1>3. lastFreeAction_' \in FirstDynamic .. SEQ_ACTION_SIZE
  <2>1. PICK limit \in StoredLimits(damage) : lastFreeAction_' = SanitizedLastFreeAction(limit)
    BY <1>1
  <2>2. limit \in {Second, SEQ_ACTION_SIZE, Second + 1, 0, SEQ_ACTION_SIZE + 1}
    BY <1>1, <2>1 DEF StoredLimits, Damages
  <2>3. limit \in Nat
    BY <2>2, SlotsAre DEF Second
  <2>4. QED
    BY <2>1, <2>3, SanitizedTypes
<1>4. notes' \in 0 .. MaxNotes
  <2>1. MaxWork - MaxEdits \in 1 .. MaxNotes /\ MaxNotes \in Nat
    BY StoredSizes, TimesAre
  <2> DEFINE x == MaxWork - MaxEdits
  <2>2. notes' = x - 1 \/ notes' = x - 0
    BY <1>1
  <2>3. x \in 1 .. MaxNotes
    BY <2>1
  <2> HIDE DEF x
  <2>4. QED
    BY <2>1, <2>2, <2>3
<1>5. cursor' \in [Timbre -> Walker]
  <2>1. PICK on \in (SUBSET Timbre) \ {{}} :
          cursor' = [i \in Timbre |-> [cursor[i] EXCEPT !.on = i \in on, !.poisoned = FALSE]]
    BY DEF CopySequence
  <2>2. ASSUME NEW i \in Timbre PROVE [cursor[i] EXCEPT !.on = i \in on, !.poisoned = FALSE] \in Walker
    <3> DEFINE b == i \in on
    <3>1. b \in BOOLEAN /\ cursor[i] \in Walker
      BY DEF TypeInv, TypeOK
    <3> HIDE DEF b
    <3>2. [cursor[i] EXCEPT !.on = b, !.poisoned = FALSE] \in Walker
      BY <3>1 DEF Walker
    <3>3. QED
      BY <3>2 DEF b
  <2>3. QED
    BY <2>1, <2>2
<1>6. edits' \in 0 .. MaxEdits
  <2>1. edits' = MaxEdits
    BY DEF CopySequence
  <2>2. QED
    BY <2>1, TimesAre
<1>7. Control'
  <2> DEFINE b == damage = "limit"
  <2>1. main' = [pc |-> "load", at |-> "copied", adjusted |-> b]
    BY <1>1
  <2> HIDE DEF b
  <2>2. QED
    BY <2>1 DEF Control
<1>8. QED
  BY <1>2, <1>3, <1>4, <1>5, <1>6, <1>7 DEF CopySequence, TypeInv, TypeOK, Table, transport

(* What validation writes, in parts. *)
Damaged == Losers(Sound)
Repaired == Healed(Damaged, Owned(Sound))
Reached == UNION {ReachableFrom(i) : i \in Damaged}
Freed == Reached \ Owned(Sound)

LEMMA HealedTypes ==
  ASSUME TypeOK, NEW losers, NEW owned
  PROVE  Healed(losers, owned) \in Table
<1> SUFFICES ASSUME NEW s \in Slot PROVE Healed(losers, owned)[s] \in Entry
  BY EntryIs DEF Healed
<1>1. actions[s] \in Entry /\ [actions[s] EXCEPT !.note = NONE] \in Entry
  BY EntryIs DEF TypeOK, Entry
<1>2. Sentinels(instrumentTimerMask_)[s] \in Entry
  BY SentinelsTypes, EntryIs DEF TypeOK
<1>3. QED
  BY <1>1, <1>2 DEF Healed

LEMMA TrimmedLimit ==
  ASSUME TypeOK, NEW table, NEW losers
  PROVE  /\ Trimmed(table, losers) \in FirstDynamic .. SEQ_ACTION_SIZE
         /\ \A s \in Slot : Dynamic(s) /\ table[s].note # NONE => s < Trimmed(table, losers)
<1> DEFINE live == {s \in Slot : Dynamic(s)}
           reached == UNION {ReachableFrom(i) : i \in {j \in Timbre : cursor[j].on} \ losers}
           used == {s \in live : table[s].note # NONE} \cup reached
<1>1. lastFreeAction_ \in FirstDynamic .. SEQ_ACTION_SIZE /\ actions \in Table
  BY DEF TypeOK, Table
<1>2. live \subseteq FirstDynamic .. lastFreeAction_ - 1
  BY <1>1, SlotsAre DEF Dynamic
<1>3. reached \subseteq FirstDynamic .. lastFreeAction_ - 1
  <2>1. \A i \in Timbre : ReachableFrom(i) \subseteq FirstDynamic .. lastFreeAction_ - 1
    BY <1>1, ReachesDynamic
  <2>2. QED
    BY <2>1
<1>4. used \in SUBSET (FirstDynamic .. lastFreeAction_ - 1)
  BY <1>2, <1>3
<1>5. \A s \in Slot : Dynamic(s) /\ table[s].note # NONE => s \in used
  OBVIOUS
<1>6. Trimmed(table, losers) = Max(used \cup {FirstDynamic - 1}) + 1
  BY DEF Trimmed
<1> HIDE DEF used
<1>7. /\ Max(used \cup {FirstDynamic - 1}) + 1 \in FirstDynamic .. lastFreeAction_
      /\ \A s \in used : s < Max(used \cup {FirstDynamic - 1}) + 1
  BY <1>1, <1>4, TrimTypes
<1>8. Trimmed(table, losers) \in FirstDynamic .. SEQ_ACTION_SIZE
  <2> DEFINE t == Max(used \cup {FirstDynamic - 1}) + 1
  <2>1. t \in FirstDynamic .. lastFreeAction_
    BY <1>7
  <2> HIDE DEF t
  <2>2. t \in FirstDynamic .. SEQ_ACTION_SIZE
    BY <1>1, <2>1, SlotsAre
  <2>3. QED
    BY <1>6, <2>2 DEF t
<1>9. QED
  BY <1>5, <1>6, <1>7, <1>8

LEMMA ValidationWrites ==
  ASSUME ValidateActionListsGlobalOnLoad
  PROVE  /\ actions' = Repaired
         /\ lastFreeAction_' \in {lastFreeAction_, Trimmed(Repaired, Damaged)}
         /\ cursor' = [i \in Timbre |-> IF i \in Damaged THEN [AtRest(i) EXCEPT !.last = cursor[i].last]
                                        ELSE cursor[i]]
         /\ recorded' = [i \in Timbre |->
                           IF i \in Sound \ Damaged THEN {actions[s].note : s \in Nodes(i)} ELSE {}]
  BY DEF ValidateActionListsGlobalOnLoad, Damaged, Repaired

LEMMA LoadTypes ==
  ASSUME TypeInv, ValidateActionListsGlobalOnLoad \/ FinishActionListLoad
  PROVE  TypeInv'
<1>1. TypeOK /\ actions \in Table /\ lastFreeAction_ \in FirstDynamic .. SEQ_ACTION_SIZE
  BY DEF TypeInv, TypeOK, Table
<1>2. CASE ValidateActionListsGlobalOnLoad
  <2>1. actions' \in Table
    BY <1>1, <1>2, ValidationWrites, HealedTypes DEF Repaired
  <2>2. lastFreeAction_' \in FirstDynamic .. SEQ_ACTION_SIZE
    BY <1>1, <1>2, ValidationWrites, TrimmedLimit
  <2>3. cursor' \in [Timbre -> Walker]
    <3>1. \A i \in Timbre : [AtRest(i) EXCEPT !.last = cursor[i].last] \in Walker /\ cursor[i] \in Walker
      BY <1>1, SlotsAre DEF AtRest, Walker, TypeOK
    <3>2. QED
      BY <1>2, <3>1, ValidationWrites
  <2>4. recorded' \in [Timbre -> SUBSET Note]
    <3>1. ASSUME NEW i \in Timbre, i \in Sound PROVE {actions[s].note : s \in Nodes(i)} \in SUBSET Note
      <4>1. \A s \in Nodes(i) : s \in Slot /\ actions[s].note # NONE
        <5>1. \A s \in Nodes(i) : actions[s].note # NONE
          BY <3>1 DEF Sound, WellFormed
        <5>2. Chain(i) \in [0 .. SEQ_ACTION_SIZE -> Slot]
          BY <1>1, ChainFollows DEF ChainFrom
        <5>3. Nodes(i) \subseteq Slot
          BY <5>2 DEF Nodes
        <5>4. QED
          BY <5>1, <5>3
      <4>2. \A s \in Nodes(i) : actions[s].note \in Note
        BY <1>1, <4>1, EntryIs DEF Entry
      <4>3. QED
        BY <4>2
    <3>2. QED
      BY <1>2, <3>1, ValidationWrites
  <2>5. Control'
    <3>1. main' = [pc |-> "load", at |-> "validated", adjusted |-> main.adjusted]
      BY <1>2 DEF ValidateActionListsGlobalOnLoad, LoadInProgress, TypeInv, Control
    <3>2. QED
      BY <3>1 DEF Control
  <2>6. QED
    BY <1>2, <2>1, <2>2, <2>3, <2>4, <2>5
       DEF ValidateActionListsGlobalOnLoad, TypeInv, TypeOK, Table, transport
<1>3. CASE FinishActionListLoad
  <2>1. ASSUME NEW i \in Timbre
        PROVE  [cursor[i] EXCEPT !.prev = HeadOf(i), !.next = TailOf(i),
                                 !.last = current16bitTimer_ % (instrumentTimerMask_[i] + 1),
                                 !.outOfSync = cursor[i].on] \in Walker
    <3> DEFINE t == current16bitTimer_ % (instrumentTimerMask_[i] + 1)
               c == cursor[i]
    <3>1. t \in Time
      <4>1. current16bitTimer_ \in Int /\ instrumentTimerMask_[i] \in Time
        BY <1>1, TimesAre DEF TypeOK, Time
      <4>2. QED
        BY <4>1, TimerTypes
    <3>2. c \in Walker /\ HeadOf(i) \in Slot /\ TailOf(i) \in Slot
      BY <1>1, SlotsAre DEF TypeOK
    <3> HIDE DEF t, c
    <3>3. [c EXCEPT !.prev = HeadOf(i), !.next = TailOf(i), !.last = t, !.outOfSync = c.on] \in Walker
      BY <3>1, <3>2 DEF Walker
    <3>4. QED
      BY <3>3 DEF t, c
  <2>2. cursor' \in [Timbre -> Walker]
    BY <1>3, <2>1 DEF FinishActionListLoad
  <2>3. Control'
    BY <1>3, IdleControls DEF FinishActionListLoad
  <2>4. QED
    BY <1>3, <2>2, <2>3 DEF FinishActionListLoad, TypeInv, TypeOK, lists, transport
<1>4. QED
  BY <1>2, <1>3

LEMMA LoadTypesStep ==
  ASSUME TypeInv, [LoadNext]_lvars
  PROVE  TypeInv'
<1>1. CASE UNCHANGED lvars
  BY <1>1 DEF lvars, vars, TypeInv, TypeOK, Control
<1>2. CASE CopySequence
  BY <1>2, CopyTypes
<1>3. CASE ValidateActionListsGlobalOnLoad \/ FinishActionListLoad
  BY <1>3, LoadTypes
<1>4. CASE Next
  BY <1>4, ListTypesStep
<1>5. QED
  BY <1>1, <1>2, <1>3, <1>4 DEF LoadNext

(* Every index stays in the table and every cursor in its types, for any     *)
(* number of notes, walks, clears, changes of length and repairs, before and *)
(* after a load, and at every interleaving of the walk with the steps of the *)
(* main loop; also with the windows open.                                    *)
THEOREM ListTypes == LoadSpec => []TypeOK
<1>1. LoadInit => TypeInv
  BY ListTypesInit DEF LoadInit
<1>2. TypeInv /\ [LoadNext]_lvars => TypeInv'
  BY LoadTypesStep
<1>3. TypeInv => TypeOK
  BY DEF TypeInv
<1>4. QED
  BY <1>1, <1>2, <1>3, PTL DEF LoadSpec

-----------------------------------------------------------------------------
(* Two well-formed lists have no slot in common: from a common slot on both  *)
(* chains would be the same, yet each ends at its own tail.                  *)
LEMMA ChainOfSound ==
  ASSUME TypeOK, NEW i \in Timbre, WellFormed(i)
  PROVE  /\ Chain(i) \in [0 .. SEQ_ACTION_SIZE -> Slot] /\ Chain(i)[SEQ_ACTION_SIZE] = TailOf(i)
         /\ \A k \in 0 .. SEQ_ACTION_SIZE : Chain(i)[k] = TailOf(i) \/ Chain(i)[k] >= FirstDynamic
         /\ \A k \in 1 .. SEQ_ACTION_SIZE :
              Chain(i)[k - 1] # TailOf(i) => Chain(i)[k] = actions[Chain(i)[k - 1]].next
<1>1. ChainFrom(Chain(i), i)
  <2>1. actions \in Table
    BY DEF TypeOK, Table
  <2>2. QED
    BY <2>1, ChainFollows
<1>2. \A k \in 0 .. SEQ_ACTION_SIZE : Chain(i)[k] = TailOf(i) \/ Chain(i)[k] \in Nodes(i)
  BY DEF Nodes
<1>3. \A s \in Nodes(i) : s >= FirstDynamic
  BY DEF WellFormed, Dynamic
<1>4. QED
  BY <1>1, <1>2, <1>3 DEF ChainFrom, WellFormed, Ends

LEMMA NotShared ==
  ASSUME TypeOK, NEW i \in Timbre, NEW j \in Timbre, i # j, WellFormed(i), WellFormed(j),
         NEW a \in 0 .. SEQ_ACTION_SIZE, NEW b \in 0 .. SEQ_ACTION_SIZE, b <= a
  PROVE  Chain(i)[a] # Chain(j)[b]
<1> DEFINE K == SEQ_ACTION_SIZE
           c == Chain(i)
           d == Chain(j)
           good == {k \in 0 .. K - a : c[a + k] = d[b + k]}
<1> SUFFICES ASSUME c[a] = d[b] PROVE FALSE
  OBVIOUS
<1>1. K \in Nat /\ K - a \in Nat /\ a \in Nat /\ b \in Nat
  BY SlotsAre
<1>2. /\ c \in [0 .. K -> Slot] /\ c[K] = TailOf(i)
      /\ \A k \in 0 .. K : c[k] = TailOf(i) \/ c[k] >= FirstDynamic
      /\ \A k \in 1 .. K : c[k - 1] # TailOf(i) => c[k] = actions[c[k - 1]].next
  BY ChainOfSound
<1>3. /\ \A k \in 0 .. K : d[k] = TailOf(j) \/ d[k] >= FirstDynamic
      /\ \A k \in 1 .. K : d[k - 1] # TailOf(j) => d[k] = actions[d[k - 1]].next
  BY ChainOfSound
<1>4. TailOf(i) # TailOf(j) /\ ~(TailOf(i) >= FirstDynamic) /\ ~(TailOf(j) >= FirstDynamic)
  <2>1. i \in Nat /\ j \in Nat
    BY SizesAssumption DEF Timbre
  <2>2. TailOf(i) # TailOf(j)
    BY <2>1 DEF TailOf
  <2>3. QED
    BY <2>2, SlotsAre
<1> HIDE DEF c, d
<1>5. \A k \in 0 .. K - a : a + k \in 0 .. K /\ b + k \in 0 .. K
  BY <1>1
<1>6. \A k \in 0 .. K - a : c[a + k] = d[b + k] => c[a + k] # TailOf(i) /\ d[b + k] # TailOf(j)
  BY <1>2, <1>3, <1>4, <1>5
<1>7. good = 0 .. K - a
  <2>1. good \in SUBSET (0 .. K - a) /\ 0 \in good
    BY <1>1
  <2>2. ASSUME NEW k \in 1 .. K - a, k - 1 \in good PROVE k \in good
    <3> DEFINE p == a + k
               q == b + k
    <3>1. p \in 1 .. K /\ q \in 1 .. K /\ p - 1 = a + (k - 1) /\ q - 1 = b + (k - 1)
          /\ k \in 0 .. K - a /\ k - 1 \in 0 .. K - a
      BY <1>1
    <3>2. c[p - 1] = d[q - 1]
      BY <2>2, <3>1
    <3>3. c[p - 1] # TailOf(i) /\ d[q - 1] # TailOf(j)
      BY <1>6, <3>1, <3>2
    <3>4. c[p] = actions[c[p - 1]].next /\ d[q] = actions[d[q - 1]].next
      BY <1>2, <1>3, <3>1, <3>3
    <3>5. c[a + k] = d[b + k]
      BY <3>2, <3>4
    <3>6. QED
      BY <3>1, <3>5
  <2> HIDE DEF good
  <2>3. QED
    BY <1>1, <2>1, <2>2, UpTo
<1>8. K - a \in good /\ K - a \in 0 .. K - a /\ a + (K - a) = K
  BY <1>1, <1>7
<1>9. c[a + (K - a)] # TailOf(i)
  BY <1>6, <1>8
<1>10. QED
  BY <1>2, <1>8, <1>9

LEMMA SoundListsApart ==
  ASSUME TypeOK, NEW i \in Timbre, NEW j \in Timbre, i # j, WellFormed(i), WellFormed(j)
  PROVE  Nodes(i) \cap Nodes(j) = {}
<1> SUFFICES ASSUME NEW s \in Nodes(i), s \in Nodes(j) PROVE FALSE
  OBVIOUS
<1>1. PICK a \in 0 .. SEQ_ACTION_SIZE : s = Chain(i)[a]
  BY DEF Nodes
<1>2. PICK b \in 0 .. SEQ_ACTION_SIZE : s = Chain(j)[b]
  BY DEF Nodes
<1>3. b <= a \/ a <= b
  BY SlotsAre
<1>4. QED
  BY <1>1, <1>2, <1>3, NotShared

(* Validation leaves a well-formed list alone, whatever the other lists are  *)
(* and whatever was stored: it is not demoted, its slots are nobody else's   *)
(* to free, and the limit stays above them.                                  *)
LEMMA ValidationKeeps ==
  ASSUME TypeOK, ValidateActionListsGlobalOnLoad, NEW i \in Timbre, WellFormed(i)
  PROVE  /\ cursor'[i].on = cursor[i].on
         /\ \A s \in Nodes(i) \cup {HeadOf(i), TailOf(i)} : actions'[s] = actions[s]
         /\ \A s \in Nodes(i) : s < lastFreeAction_'
<1>1. /\ actions' = Repaired
      /\ lastFreeAction_' \in {lastFreeAction_, Trimmed(Repaired, Damaged)}
      /\ cursor' = [j \in Timbre |-> IF j \in Damaged THEN [AtRest(j) EXCEPT !.last = cursor[j].last]
                                     ELSE cursor[j]]
  BY ValidationWrites
<1>2. i \in Sound /\ \A j \in Sound : j \in Timbre /\ WellFormed(j)
  BY DEF Sound
<1>3. Demoted(Sound) = {}
  <2>1. ASSUME NEW k \in Sound, NEW j \in Sound, j < k PROVE Nodes(k) \cap Nodes(j) = {}
    <3>1. j # k
      <4>1. \A n \in Timbre : ~(n < n)
        BY SizesAssumption DEF Timbre
      <4>2. QED
        BY <1>2, <2>1, <4>1
    <3>2. QED
      BY <1>2, <3>1, SoundListsApart
  <2>2. QED
    BY <2>1 DEF Demoted
<1>4. i \notin Damaged
  BY <1>2, <1>3 DEF Damaged, Losers
<1>5. Nodes(i) \subseteq Owned(Sound)
  BY <1>2, <1>3 DEF Owned
<1>6. \A s \in Nodes(i) : s \in Slot /\ Dynamic(s) /\ s >= FirstDynamic /\ actions[s].note # NONE
  <2>1. Chain(i) \in [0 .. SEQ_ACTION_SIZE -> Slot]
    BY ChainOfSound
  <2>2. Nodes(i) \subseteq Slot
    BY <2>1 DEF Nodes
  <2>3. QED
    BY <2>2 DEF WellFormed, Dynamic
<1>7. Repaired = [s \in Slot |->
           IF s < FirstDynamic /\ s \div 2 \in Damaged THEN Sentinels(instrumentTimerMask_)[s]
           ELSE IF s \in Freed THEN [actions[s] EXCEPT !.note = NONE] ELSE actions[s]]
  BY DEF Repaired, Healed, Freed, Reached
<1>8. \A s \in Nodes(i) : actions'[s] = actions[s]
  <2>1. \A s \in Nodes(i) : s \in Slot /\ ~(s < FirstDynamic)
    BY <1>6, SlotsAre
  <2>2. \A s \in Nodes(i) : s \notin Freed
    BY <1>5 DEF Freed
  <2>3. QED
    BY <1>1, <1>7, <2>1, <2>2
<1>9. \A s \in {HeadOf(i), TailOf(i)} : actions'[s] = actions[s]
  <2>1. SUFFICES ASSUME NEW s \in {HeadOf(i), TailOf(i)} PROVE actions'[s] = actions[s]
    OBVIOUS
  <2>2. s \in Slot /\ s \in 0 .. FirstDynamic - 1
    BY SlotsAre
  <2>3. s \div 2 = i
    <3>1. i \in Nat
      BY SizesAssumption DEF Timbre
    <3>2. QED
      BY <3>1 DEF HeadOf, TailOf
  <2>4. s \notin Freed
    <3>1. actions \in Table /\ lastFreeAction_ \in FirstDynamic .. SEQ_ACTION_SIZE
      BY DEF TypeOK, Table
    <3>2. \A j \in Damaged : j \in Timbre
      BY DEF Damaged, Losers, Demoted, Sound
    <3>3. \A j \in Damaged : ReachableFrom(j) \subseteq FirstDynamic .. lastFreeAction_ - 1
      BY <3>1, <3>2, ReachesDynamic
    <3>4. s \notin FirstDynamic .. lastFreeAction_ - 1
      BY <2>2, SlotsAre
    <3>5. QED
      BY <3>3, <3>4 DEF Freed, Reached
  <2>5. QED
    BY <1>1, <1>4, <1>7, <2>2, <2>3, <2>4
<1>10. \A s \in Nodes(i) : s < lastFreeAction_'
  <2>1. CASE lastFreeAction_' = lastFreeAction_
    BY <1>6, <2>1 DEF Dynamic
  <2>2. CASE lastFreeAction_' = Trimmed(Repaired, Damaged)
    <3>1. \A s \in Nodes(i) : s \in Slot /\ Dynamic(s) /\ Repaired[s].note # NONE
      BY <1>1, <1>6, <1>8
    <3>2. QED
      BY <2>2, <3>1, TrimmedLimit
  <2>3. QED
    BY <1>1, <2>1, <2>2
<1>11. cursor'[i].on = cursor[i].on
  BY <1>1, <1>4
<1>12. QED
  BY <1>8, <1>9, <1>10, <1>11

(* A load keeps every sound list whole: its slots, its order and whether it  *)
(* is active, although damaged lists lead into it and are emptied            *)
(* (Sequencer.cpp:890-920).  The step is proved for every table of the right *)
(* types, not only for those CopySequence stores.                            *)
THEOREM LoadKeepsSoundLists == LoadSpec => SoundListsSurvive
<1> DEFINE A == ValidateActionListsGlobalOnLoad =>
                  \A i \in Timbre : WellFormed(i) =>
                    /\ cursor'[i].on = cursor[i].on
                    /\ \A s \in Nodes(i) \cup {HeadOf(i), TailOf(i)} : actions'[s] = actions[s]
                    /\ \A s \in Nodes(i) : s < lastFreeAction_'
<1>1. LoadInit => TypeInv
  BY ListTypesInit DEF LoadInit
<1>2. TypeInv /\ [LoadNext]_lvars => TypeInv' /\ [A]_lvars
  <2>1. TypeInv /\ [LoadNext]_lvars => TypeInv'
    BY LoadTypesStep
  <2>2. TypeInv => A
    BY ValidationKeeps DEF TypeInv
  <2>3. QED
    BY <2>1, <2>2
<1>3. QED
  BY <1>1, <1>2, PTL DEF LoadSpec, SoundListsSurvive

(***************************************************************************)
(* What the lists hold.  Order(t, limit, i, n, o) says that o is the order  *)
(* of list i in table t: from its head through n notes in live slots, no    *)
(* note before an earlier one, to its tail.                                 *)
(***************************************************************************)
Order(t, limit, i, n, o) ==
    /\ o \in [0 .. n + 1 -> Slot] /\ o[0] = HeadOf(i) /\ o[n + 1] = TailOf(i)
    /\ \A k \in 1 .. n : o[k] >= FirstDynamic /\ o[k] < limit /\ t[o[k]].note # NONE
    /\ \A k \in 0 .. n : t[o[k]].next = o[k + 1]
    /\ \A k \in 1 .. n - 1 : t[o[k]].when <= t[o[k + 1]].when

LEMMA OrderIs ==
  ASSUME NEW t, NEW limit, NEW i \in Timbre, NEW n \in Nat, NEW o, Order(t, limit, i, n, o)
  PROVE  /\ \A k \in 0 .. n + 1 : o[k] \in Slot
         /\ \A k \in 0 .. n : o[k] # TailOf(i)
         /\ \A k \in 1 .. n + 1 : o[k] # HeadOf(i)
         /\ \A j \in Timbre, k \in 0 .. n : o[k] # TailOf(j)
<1>1. /\ \A j \in Timbre : HeadOf(i) # TailOf(j)
      /\ \A j \in Timbre : HeadOf(j) < FirstDynamic /\ TailOf(j) < FirstDynamic
      /\ \A k \in 1 .. n : o[k] >= FirstDynamic
      /\ \A k \in 0 .. n + 1 : o[k] \in Slot
      /\ \A k \in 0 .. n : k = 0 \/ k \in 1 .. n
      /\ \A k \in 1 .. n + 1 : k = n + 1 \/ k \in 1 .. n
      /\ o[0] = HeadOf(i) /\ o[n + 1] = TailOf(i)
  <2>1. \A j \in Timbre : j \in Nat /\ i \in Nat
    BY SizesAssumption DEF Timbre
  <2>2. \A j \in Timbre : HeadOf(i) # TailOf(j)
    BY <2>1 DEF HeadOf, TailOf
  <2>3. \A j \in Timbre : HeadOf(j) < FirstDynamic /\ TailOf(j) < FirstDynamic
    BY SlotsAre
  <2>4. QED
    BY <2>2, <2>3 DEF Order
<1>2. \A j \in Timbre : ~(HeadOf(j) >= FirstDynamic) /\ ~(TailOf(j) >= FirstDynamic)
  BY SlotsAre
<1>3. \A j \in Timbre, k \in 0 .. n : o[k] # TailOf(j)
  BY <1>1, <1>2
<1>4. \A k \in 1 .. n + 1 : o[k] # HeadOf(i)
  BY <1>1, <1>2
<1>5. QED
  BY <1>1, <1>3, <1>4 DEF Order

(* Two lists have no slot in common, and one list passes each slot once:    *)
(* from a common slot on, the two orders are the same.                      *)
LEMMA SameFromThere ==
  ASSUME NEW t, NEW l1, NEW l2, NEW i \in Timbre, NEW j \in Timbre, NEW n \in Nat, NEW m \in Nat,
         NEW o, NEW p, Order(t, l1, i, n, o), Order(t, l2, j, m, p),
         NEW a \in 0 .. n + 1, NEW b \in 0 .. m + 1, o[a] = p[b], n - a <= m - b
  PROVE  i = j /\ n - a = m - b
<1> DEFINE K == n + 1 - a
           good == {k \in 0 .. K : o[a + k] = p[b + k]}
<1>1. K \in Nat /\ a \in Nat /\ b \in Nat /\ a + K = n + 1 /\ b + K <= m + 1
  OBVIOUS
<1>2. good = 0 .. K
  <2>1. good \in SUBSET (0 .. K) /\ 0 \in good
    BY <1>1
  <2>2. ASSUME NEW k \in 1 .. K, k - 1 \in good PROVE k \in good
    <3> DEFINE x == a + (k - 1)
               y == b + (k - 1)
    <3>1. x \in 0 .. n /\ y \in 0 .. m /\ x + 1 = a + k /\ y + 1 = b + k /\ k \in 0 .. K
      BY <1>1
    <3>2. o[x] = p[y]
      BY <2>2
    <3> HIDE DEF x, y
    <3>3. t[o[x]].next = o[x + 1] /\ t[p[y]].next = p[y + 1]
      BY <3>1 DEF Order
    <3>4. QED
      BY <3>1, <3>2, <3>3
  <2> HIDE DEF good
  <2>3. QED
    BY <1>1, <2>1, <2>2, UpTo
<1>3. o[a + K] = p[b + K]
  <2>1. K \in 0 .. K
    BY <1>1
  <2>2. K \in good
    BY <1>2, <2>1
  <2>3. QED
    BY <2>2
<1>4. o[n + 1] = p[b + K] /\ o[n + 1] = TailOf(i)
  BY <1>1, <1>3 DEF Order
<1> HIDE DEF K, good
<1> DEFINE y == b + K
<1>5. y \in Nat /\ y <= m + 1 /\ p[y] = TailOf(i)
  BY <1>1, <1>4
<1>6. y = m + 1
  <2> HIDE DEF y
  <2>1. \A h \in Timbre, k \in 0 .. m : p[k] # TailOf(h)
    BY OrderIs
  <2>2. QED
    BY <1>5, <2>1
<1>7. TailOf(i) = TailOf(j)
  BY <1>5, <1>6 DEF Order
<1>8. i = j
  <2>1. i \in Nat /\ j \in Nat
    BY SizesAssumption DEF Timbre
  <2>2. QED
    BY <1>7, <2>1 DEF TailOf
<1>9. QED
  BY <1>1, <1>6, <1>8 DEF K

LEMMA SameSlot ==
  ASSUME NEW t, NEW l1, NEW l2, NEW i \in Timbre, NEW j \in Timbre, NEW n \in Nat, NEW m \in Nat,
         NEW o, NEW p, Order(t, l1, i, n, o), Order(t, l2, j, m, p),
         NEW a \in 0 .. n + 1, NEW b \in 0 .. m + 1, o[a] = p[b]
  PROVE  i = j /\ n - a = m - b
<1>1. n - a \in Int /\ m - b \in Int
  OBVIOUS
<1>2. CASE n - a <= m - b
  BY <1>2, SameFromThere
<1>3. CASE m - b <= n - a
  <2>1. p[b] = o[a]
    OBVIOUS
  <2>2. j = i /\ m - b = n - a
    BY <1>3, <2>1, SameFromThere
  <2>3. QED
    BY <2>2
<1>4. QED
  BY <1>1, <1>2, <1>3

LEMMA OncePerSlot ==
  ASSUME NEW t, NEW limit, NEW i \in Timbre, NEW n \in Nat, NEW o, Order(t, limit, i, n, o),
         NEW a \in 0 .. n + 1, NEW b \in 0 .. n + 1, o[a] = o[b]
  PROVE  a = b
<1>1. CASE a >= b
  <2>1. n - a <= n - b
    BY <1>1
  <2>2. i = i /\ n - a = n - b
    BY <2>1, SameFromThere
  <2>3. QED
    BY <2>2
<1>2. CASE b >= a
  <2>1. n - b <= n - a /\ o[b] = o[a]
    BY <1>2
  <2>2. i = i /\ n - b = n - a
    BY <2>1, SameFromThere
  <2>3. QED
    BY <2>2
<1>3. QED
  BY <1>1, <1>2

(* A list of n notes occupies n live slots.                                 *)
LEMMA OrderFits ==
  ASSUME NEW t, NEW limit \in Nat, limit >= FirstDynamic, NEW i \in Timbre, NEW n \in Nat, NEW o,
         Order(t, limit, i, n, o)
  PROVE  n <= limit - FirstDynamic
<1> DEFINE S == 1 .. n
           T == FirstDynamic .. limit - 1
           f == [k \in S |-> o[k]]
<1>1. FirstDynamic \in Nat
  BY SlotsAre
<1>2. f \in [S -> T]
  BY <1>1, SlotsAre DEF Order
<1>3. \A a \in S, b \in S : f[a] = f[b] => a = b
  <2> SUFFICES ASSUME NEW a \in S, NEW b \in S, o[a] = o[b] PROVE a = b
    OBVIOUS
  <2>1. a \in 0 .. n + 1 /\ b \in 0 .. n + 1
    OBVIOUS
  <2> HIDE DEF S, T, f
  <2>2. QED
    BY <2>1, OncePerSlot
<1>4. f \in Injection(S, T)
  BY <1>2, <1>3 DEF Injection, IsInjective
<1>5. IsFiniteSet(T) /\ Cardinality(T) = IF FirstDynamic > limit - 1 THEN 0 ELSE limit - 1 - FirstDynamic + 1
  BY <1>1, FS_Interval
<1>6. Cardinality(S) = IF 1 > n THEN 0 ELSE n - 1 + 1
  BY FS_Interval
<1>7. Cardinality(S) <= Cardinality(T)
  <2> HIDE DEF S, T, f
  <2>1. QED
    BY <1>4, <1>5, FS_Injection
<1>8. QED
  BY <1>1, <1>5, <1>6, <1>7

(* The chain that the main loop inspects is the order of the list.          *)
LEMMA ChainIsOrder ==
  ASSUME actions \in Table, NEW limit \in Nat, limit >= FirstDynamic, limit <= SEQ_ACTION_SIZE,
         NEW i \in Timbre, NEW n \in Nat, NEW o, Order(actions, limit, i, n, o)
  PROVE  /\ n < SEQ_ACTION_SIZE
         /\ \A k \in 0 .. SEQ_ACTION_SIZE : Chain(i)[k] = IF k <= n THEN o[k + 1] ELSE TailOf(i)
         /\ Ends(i) /\ Nodes(i) = {o[k] : k \in 1 .. n}
<1> DEFINE K == SEQ_ACTION_SIZE
           c == Chain(i)
           good == {k \in 0 .. K : c[k] = IF k <= n THEN o[k + 1] ELSE TailOf(i)}
<1>1. n <= limit - FirstDynamic /\ K \in Nat /\ FirstDynamic \in Nat /\ FirstDynamic >= 2
  BY OrderFits, SlotsAre
<1>2. n < K
  BY <1>1
<1>3. /\ c[0] = actions[HeadOf(i)].next
      /\ \A k \in 1 .. K : c[k] = IF c[k - 1] = TailOf(i) THEN c[k - 1] ELSE actions[c[k - 1]].next
  BY ChainFollows DEF ChainFrom
<1>4. /\ o[0] = HeadOf(i) /\ o[n + 1] = TailOf(i)
      /\ \A k \in 0 .. n : actions[o[k]].next = o[k + 1]
      /\ \A k \in 0 .. n : o[k] # TailOf(i)
  <2>1. \A k \in 0 .. n : o[k] # TailOf(i)
    BY OrderIs
  <2>2. QED
    BY <2>1 DEF Order
<1> HIDE DEF c
<1>5. good = 0 .. K
  <2>1. c[0] = o[1]
    <3>1. 0 \in 0 .. n /\ 0 + 1 = 1
      OBVIOUS
    <3>2. QED
      BY <1>3, <1>4, <3>1
  <2>2. good \in SUBSET (0 .. K) /\ 0 \in good
    BY <1>1, <2>1
  <2>3. ASSUME NEW k \in 1 .. K, k - 1 \in good PROVE k \in good
    <3>1. c[k - 1] = IF k - 1 <= n THEN o[(k - 1) + 1] ELSE TailOf(i)
      BY <2>3
    <3>2. (k - 1) + 1 = k /\ k \in 0 .. K
      OBVIOUS
    <3>3. CASE k <= n
      <4>1. c[k - 1] = o[k] /\ k \in 0 .. n
        BY <3>1, <3>2, <3>3
      <4>2. c[k] = o[k + 1]
        BY <1>3, <1>4, <4>1
      <4>3. QED
        BY <3>2, <3>3, <4>2
    <3>4. CASE k = n + 1
      <4>1. c[k - 1] = TailOf(i)
        BY <1>4, <3>1, <3>2, <3>4
      <4>2. c[k] = TailOf(i) /\ ~(k <= n)
        BY <1>3, <3>4, <4>1
      <4>3. QED
        BY <3>2, <4>2
    <3>5. CASE k > n + 1
      <4>1. c[k - 1] = TailOf(i)
        BY <3>1, <3>5
      <4>2. c[k] = TailOf(i) /\ ~(k <= n)
        BY <1>3, <3>5, <4>1
      <4>3. QED
        BY <3>2, <4>2
    <3>6. QED
      BY <3>3, <3>4, <3>5
  <2> HIDE DEF good
  <2>4. QED
    BY <1>1, <2>2, <2>3, UpTo
<1>6. \A k \in 0 .. K : c[k] = IF k <= n THEN o[k + 1] ELSE TailOf(i)
  BY <1>5
<1> HIDE DEF good
<1>7. c[K] = TailOf(i)
  BY <1>1, <1>2, <1>6
<1>8. \A k \in 1 .. n : k - 1 \in 0 .. K /\ k - 1 <= n /\ (k - 1) + 1 = k /\ o[k] # TailOf(i)
  BY <1>1, <1>2, <1>4
<1>9. \A s \in {c[k] : k \in 0 .. K} : s = TailOf(i) \/ s \in {o[k] : k \in 1 .. n}
  <2> SUFFICES ASSUME NEW k \in 0 .. K, c[k] # TailOf(i) PROVE c[k] \in {o[x] : x \in 1 .. n}
    OBVIOUS
  <2>1. k <= n /\ c[k] = o[k + 1]
    BY <1>6
  <2>2. k # n
    BY <1>4, <2>1
  <2>3. k + 1 \in 1 .. n
    BY <2>1, <2>2
  <2>4. QED
    BY <2>1, <2>3
<1>10. \A s \in {o[k] : k \in 1 .. n} : s # TailOf(i) /\ s \in {c[k] : k \in 0 .. K}
  <2> SUFFICES ASSUME NEW k \in 1 .. n PROVE o[k] # TailOf(i) /\ o[k] \in {c[x] : x \in 0 .. K}
    OBVIOUS
  <2>1. c[k - 1] = o[k] /\ k - 1 \in 0 .. K
    BY <1>6, <1>8
  <2>2. QED
    BY <1>8, <2>1
<1>11. Nodes(i) = {o[k] : k \in 1 .. n}
  BY <1>9, <1>10 DEF Nodes, c
<1>12. QED
  BY <1>2, <1>6, <1>7, <1>11 DEF Ends, c

(* The sentinels of a list, as inspectActionListStructure wants them.       *)
Sentry(t, i) ==
    /\ t[HeadOf(i)].when = 0 /\ t[HeadOf(i)].note = NONE
    /\ t[TailOf(i)].note = NONE /\ t[TailOf(i)].next = HeadOf(i)

SentryWhole(t, i, mask) == Sentry(t, i) /\ t[TailOf(i)].when = mask[i]

LEMMA OrderIsSound ==
  ASSUME actions \in Table, NEW limit \in Nat, limit >= FirstDynamic, limit <= lastFreeAction_,
         lastFreeAction_ \in FirstDynamic .. SEQ_ACTION_SIZE,
         NEW i \in Timbre, NEW n \in Nat, NEW o, Order(actions, limit, i, n, o)
  PROVE  /\ \A s \in Nodes(i) :
              /\ Dynamic(s) /\ actions[s].note # NONE
              /\ actions[s].next # TailOf(i) => actions[actions[s].next].when >= actions[s].when
         /\ SentryWhole(actions, i, instrumentTimerMask_) => WellFormed(i)
<1>1. Ends(i) /\ Nodes(i) = {o[k] : k \in 1 .. n}
  <2>1. limit <= SEQ_ACTION_SIZE
    BY SlotsAre
  <2>2. QED
    BY <2>1, ChainIsOrder
<1>2. ASSUME NEW s \in Nodes(i)
      PROVE  /\ Dynamic(s) /\ actions[s].note # NONE
             /\ actions[s].next # TailOf(i) => actions[actions[s].next].when >= actions[s].when
  <2>1. PICK k \in 1 .. n : s = o[k]
    BY <1>1
  <2>2. s >= FirstDynamic /\ s < limit /\ actions[s].note # NONE /\ s \in Slot
    BY <2>1 DEF Order
  <2>3. s < lastFreeAction_
    BY <2>2, SlotsAre
  <2>4. actions[s].next = o[k + 1] /\ k \in 0 .. n
    BY <2>1 DEF Order
  <2>5. ASSUME o[k + 1] # TailOf(i) PROVE actions[o[k + 1]].when >= actions[o[k]].when
    <3>1. k # n
      BY <2>5 DEF Order
    <3>2. k \in 1 .. n - 1
      BY <3>1
    <3>3. actions[o[k]].when <= actions[o[k + 1]].when
      BY <3>2 DEF Order
    <3>4. actions[o[k]].when \in Int /\ actions[o[k + 1]].when \in Int
      <4>1. o[k] \in Slot /\ o[k + 1] \in Slot
        <5>1. \A x \in 0 .. n + 1 : o[x] \in Slot
          BY OrderIs
        <5>2. QED
          BY <5>1
      <4>2. \A x \in Time : x \in Int
        BY TimesAre DEF Time
      <4>3. QED
        BY <4>1, <4>2, TableIs
    <3>5. QED
      BY <3>3, <3>4
  <2>6. QED
    BY <2>1, <2>2, <2>3, <2>4, <2>5 DEF Dynamic
<1>3. SentryWhole(actions, i, instrumentTimerMask_) =>
        actions[TailOf(i)] = [when |-> instrumentTimerMask_[i], note |-> NONE, next |-> HeadOf(i)]
  <2>1. TailOf(i) \in Slot
    BY SlotsAre
  <2>2. QED
    BY <2>1, TableIs DEF SentryWhole, Sentry
<1>4. QED
  BY <1>1, <1>2, <1>3 DEF WellFormed, SentryWhole, Sentry

-----------------------------------------------------------------------------
(* The walk over a list in order.                                           *)
Span(n, o) == {o[k] : k \in 0 .. n + 1}

LEMMA PathOnOrder ==
  ASSUME TypeOK, NEW limit \in Nat, limit >= FirstDynamic, limit <= lastFreeAction_,
         NEW i \in Timbre, NEW n \in Nat, NEW o, Order(actions, limit, i, n, o), NEW a \in 0 .. n + 1
  PROVE  /\ n + 4 <= HopBudget /\ HopBudget \in Nat
         /\ Follows(Path(o[a]), HopBudget + 1, o[a])
         /\ \A k \in 0 .. n + 1 - a : Path(o[a])[k] = o[a + k]
<1> DEFINE at == Path(o[a])
           K == n + 1 - a
           good == {k \in 0 .. K : at[k] = o[a + k]}
<1>1. n + 4 <= HopBudget
  <2>1. n <= limit - FirstDynamic
    BY OrderFits
  <2>2. lastFreeAction_ \in Nat /\ FirstDynamic \in Nat
    BY SlotsAre DEF TypeOK
  <2>3. QED
    BY <2>1, <2>2 DEF HopBudget
<1>2. o[a] \in Slot
  BY OrderIs
<1>3. HopBudget \in Nat /\ Follows(at, HopBudget + 1, o[a])
  BY <1>2, PathFollows
<1>4. /\ at[0] = o[a] /\ \A k \in 1 .. HopBudget + 1 : at[k] = actions[at[k - 1]].next
      /\ \A k \in 0 .. n : actions[o[k]].next = o[k + 1]
  BY <1>3 DEF Follows, Order
<1> HIDE DEF at
<1>5. K \in Nat /\ K <= HopBudget /\ a \in Nat
  BY <1>1, <1>3
<1>6. good = 0 .. K
  <2>1. good \in SUBSET (0 .. K) /\ 0 \in good
    BY <1>4, <1>5
  <2>2. ASSUME NEW k \in 1 .. K, k - 1 \in good PROVE k \in good
    <3> DEFINE x == a + (k - 1)
    <3>1. at[k - 1] = o[x]
      BY <2>2
    <3>2. x \in 0 .. n /\ x + 1 = a + k /\ k \in 0 .. K /\ k \in 1 .. HopBudget + 1
      BY <1>3, <1>5
    <3> HIDE DEF x
    <3>3. at[k] = o[x + 1]
      BY <1>4, <3>1, <3>2
    <3>4. QED
      BY <3>2, <3>3
  <2> HIDE DEF good
  <2>3. QED
    BY <1>5, <2>1, <2>2, UpTo
<1>7. QED
  BY <1>1, <1>3, <1>6 DEF at

(* From a slot of the list a walk may go on, and it comes to the next one.  *)
LEMMA AdvancesSafely ==
  ASSUME TypeOK, NEW limit \in Nat, limit >= FirstDynamic, limit <= lastFreeAction_,
         NEW i \in Timbre, NEW n \in Nat, NEW o, Order(actions, limit, i, n, o), NEW a \in 0 .. n + 1,
         Sentry(actions, i)
  PROVE  /\ SafeAdvance(o[a], i)
         /\ actions[o[a]].next \in Span(n, o)
         /\ a <= n => WalkSafeLink(o[a + 1], i)
<1>1. CASE a = n + 1
  <2>1. o[a] = TailOf(i) /\ o[0] = HeadOf(i) /\ actions[o[a]].next = HeadOf(i)
    BY <1>1 DEF Order, Sentry
  <2>2. 0 \in 0 .. n + 1
    OBVIOUS
  <2>3. QED
    BY <1>1, <2>1, <2>2 DEF SafeAdvance, Span
<1>2. CASE a <= n
  <2>1. a \in 0 .. n /\ a + 1 \in 0 .. n + 1 /\ (a + 1 = n + 1 \/ a + 1 \in 1 .. n)
    BY <1>2
  <2>2. actions[o[a]].next = o[a + 1]
    BY <2>1 DEF Order
  <2>3. o[a] # TailOf(i)
    <3>1. \A k \in 0 .. n : o[k] # TailOf(i)
      BY OrderIs
    <3>2. QED
      BY <2>1, <3>1
  <2>4. WalkSafeLink(o[a + 1], i)
    <3>1. CASE a + 1 = n + 1
      BY <3>1 DEF WalkSafeLink, Order
    <3>2. CASE a + 1 \in 1 .. n
      <4>1. o[a + 1] >= FirstDynamic /\ o[a + 1] < limit /\ o[a + 1] \in Slot
        BY <2>1, <3>2 DEF Order
      <4>2. o[a + 1] < lastFreeAction_
        BY <4>1, SlotsAre DEF TypeOK
      <4>3. QED
        BY <4>1, <4>2 DEF WalkSafeLink
    <3>3. QED
      BY <2>1, <3>1, <3>2
  <2>5. QED
    BY <2>1, <2>2, <2>3, <2>4 DEF SafeAdvance, Span
<1>3. QED
  BY <1>1, <1>2

(* What a walk plays: slots of the list, each once, in the window.          *)
Passes(p, n, o, start, end) ==
    /\ p \in Seq(Slot)
    /\ \A k \in 1 .. Len(p) : p[k] \in Span(n, o) /\ actions[p[k]].when \in start .. end
    /\ \A j \in 1 .. Len(p), k \in 1 .. Len(p) : j < k => p[j] # p[k]

(* A walk that has a list before it stays on it.                            *)
OnList(c, n, o) == c.next \in Span(n, o) /\ c.prev \in Span(n, o)

LEMMA ProcessKeeps ==
  ASSUME TypeOK, NEW limit \in Nat, limit >= FirstDynamic, limit <= lastFreeAction_,
         NEW i \in Timbre, NEW n \in Nat, NEW o, Order(actions, limit, i, n, o), Sentry(actions, i),
         NEW c \in Walker, c.on, OnList(c, n, o), NEW start, NEW end
  PROVE  LET r == ProcessActionBetween(c, i, start, end)
         IN  /\ OnList(r.c, n, o) /\ r.c.on /\ r.c.poisoned = c.poisoned /\ r.c.outOfSync = c.outOfSync
             /\ Passes(r.played, n, o, start, end)
<1>1. PICK a \in 0 .. n + 1 : c.next = o[a]
  BY DEF OnList, Span
<1> DEFINE at == Path(o[a])
           turns == {k \in 1 .. HopBudget + 1 : Stops(at, k, i, start, end)}
           m == Min(turns)
           x == a + m - 1
           beyond == actions[at[m]].when > instrumentTimerMask_[i]
           r == ProcessActionBetween(c, i, start, end)
<1>2. /\ n + 4 <= HopBudget /\ HopBudget \in Nat /\ Follows(at, HopBudget + 1, o[a])
      /\ \A k \in 0 .. n + 1 - a : at[k] = o[a + k]
  BY PathOnOrder
<1>3. o[n + 1] = TailOf(i) /\ o[0] = HeadOf(i) /\ \A k \in 0 .. n + 1 : o[k] \in Slot /\ o[k] \in Span(n, o)
  BY DEF Order, Span
<1> HIDE DEF at
<1>4. n + 2 - a \in turns
  <2>1. n + 2 - a \in 1 .. HopBudget + 1 /\ (n + 2 - a) - 1 = n + 1 - a /\ n + 1 - a \in 0 .. n + 1 - a
        /\ a + (n + 1 - a) = n + 1
    BY <1>2
  <2>2. at[(n + 2 - a) - 1] = TailOf(i)
    BY <1>2, <1>3, <2>1
  <2>3. QED
    BY <2>1, <2>2 DEF Stops
<1>5. m \in turns /\ m \in 1 .. n + 2 - a /\ \A k \in 1 .. m - 1 : ~Stops(at, k, i, start, end)
  <2>1. turns \in SUBSET Nat
    BY <1>2
  <2> HIDE DEF turns
  <2>2. m \in turns /\ \A y \in turns : m <= y
    BY <1>4, <2>1, MinIsLeast
  <2> HIDE DEF m
  <2>3. m \in Nat /\ m <= n + 2 - a
    BY <1>4, <2>1, <2>2
  <2>4. m \in 1 .. HopBudget + 1
    BY <2>2 DEF turns
  <2>5. \A k \in 1 .. m - 1 : k \notin turns
    BY <2>2, <2>3
  <2>6. \A k \in 1 .. m - 1 : k \in 1 .. HopBudget + 1
    BY <1>2, <2>4
  <2>7. \A k \in 1 .. m - 1 : ~Stops(at, k, i, start, end)
    BY <2>5, <2>6 DEF turns
  <2>8. QED
    BY <2>2, <2>3, <2>4, <2>7
<1> HIDE DEF m, turns
<1>6. /\ x \in a .. n + 1 /\ x \in 0 .. n + 1 /\ m <= HopBudget /\ m - 1 \in 0 .. n + 1 - a
      /\ a + (m - 1) = x
  BY <1>2, <1>5
<1>7. at[m - 1] = o[x]
  <2>1. at[m - 1] = o[a + (m - 1)]
    BY <1>2, <1>6
  <2>2. QED
    BY <1>6, <2>1
<1>8. at[m] \in Span(n, o)
  <2>1. m \in 1 .. HopBudget + 1
    BY <1>2, <1>5, <1>6
  <2>2. at[m] = actions[at[m - 1]].next
    BY <1>2, <2>1 DEF Follows
  <2>3. actions[o[x]].next \in Span(n, o)
    BY <1>6, AdvancesSafely
  <2>4. QED
    BY <1>7, <2>2, <2>3
<1>9. m # 1 => at[m - 2] \in Span(n, o)
  <2> SUFFICES ASSUME m # 1 PROVE at[m - 2] \in Span(n, o)
    OBVIOUS
  <2>1. m - 2 \in 0 .. n + 1 - a /\ a + (m - 2) \in 0 .. n + 1
    BY <1>5
  <2>2. at[m - 2] = o[a + (m - 2)]
    BY <1>2, <2>1
  <2>3. QED
    BY <1>3, <2>1, <2>2
<1>10. SafeAdvance(at[m - 1], i)
  BY <1>6, <1>7, AdvancesSafely
<1>11. \A y \in 0 .. m : y <= m - 1 \/ (y = m /\ actions[o[x]].when \in start .. end) =>
         Passes([k \in 1 .. y |-> at[k - 1]], n, o, start, end)
  <2> SUFFICES ASSUME NEW y \in 0 .. m, y <= m - 1 \/ (y = m /\ actions[o[x]].when \in start .. end)
               PROVE  Passes([k \in 1 .. y |-> at[k - 1]], n, o, start, end)
    OBVIOUS
  <2> DEFINE p == [k \in 1 .. y |-> at[k - 1]]
  <2>1. ASSUME NEW k \in 1 .. y
        PROVE  /\ a + (k - 1) \in 0 .. n + 1 /\ at[k - 1] = o[a + (k - 1)]
               /\ at[k - 1] \in Slot /\ at[k - 1] \in Span(n, o)
               /\ actions[at[k - 1]].when \in start .. end
    <3>1. k - 1 \in 0 .. n + 1 - a /\ a + (k - 1) \in 0 .. n + 1
      BY <1>5
    <3>2. at[k - 1] = o[a + (k - 1)]
      BY <1>2, <3>1
    <3>3. actions[at[k - 1]].when \in start .. end
      <4>1. CASE k = m
        <5>1. actions[o[x]].when \in start .. end
          BY <1>5, <4>1
        <5>2. QED
          BY <1>7, <4>1, <5>1
      <4>2. CASE k # m
        <5>1. k \in 1 .. m - 1
          BY <1>5, <4>2
        <5>2. QED
          BY <1>5, <5>1 DEF Stops
      <4>3. QED
        BY <4>1, <4>2
    <3>4. QED
      BY <1>3, <3>1, <3>2, <3>3
  <2>2. y \in Nat /\ p = [k \in 1 .. y |-> at[k - 1]]
    BY <1>5
  <2>3. \A k \in 1 .. y : p[k] = at[k - 1] /\ p[k] \in Slot
    BY <2>1
  <2>4. p \in Seq(Slot) /\ Len(p) = y
    BY <2>2, <2>3
  <2>5. ASSUME NEW j \in 1 .. y, NEW k \in 1 .. y, j < k PROVE p[j] # p[k]
    <3>1. p[j] = o[a + (j - 1)] /\ p[k] = o[a + (k - 1)] /\ a + (j - 1) \in 0 .. n + 1 /\ a + (k - 1) \in 0 .. n + 1
      BY <2>1, <2>3
    <3> DEFINE u == a + (j - 1)
               v == a + (k - 1)
    <3>2. u # v /\ u \in 0 .. n + 1 /\ v \in 0 .. n + 1 /\ p[j] = o[u] /\ p[k] = o[v]
      BY <2>5, <3>1
    <3> HIDE DEF u, v, p
    <3>3. o[u] # o[v]
      BY <3>2, OncePerSlot
    <3>4. QED
      BY <3>2, <3>3
  <2> HIDE DEF p
  <2>6. Passes(p, n, o, start, end)
    BY <2>1, <2>3, <2>4, <2>5 DEF Passes
  <2>7. QED
    BY <2>6 DEF p
<1>12. CASE actions[at[m - 1]].when \notin start .. end
  <2> DEFINE s == IF m = 1 THEN c.prev ELSE at[m - 2]
  <2>1. s \in Span(n, o)
    BY <1>9 DEF OnList
  <2>2. r = [c |-> [c EXCEPT !.prev = s, !.next = at[m - 1]], played |-> [k \in 1 .. m - 1 |-> at[k - 1]]]
    BY <1>1, <1>12 DEF ProcessActionBetween, at, m, turns
  <2> HIDE DEF s, r
  <2>3. r.c = [c EXCEPT !.prev = s, !.next = at[m - 1]] /\ r.played = [k \in 1 .. m - 1 |-> at[k - 1]]
    BY <2>2
  <2>4. /\ r.c.prev = s /\ r.c.next = at[m - 1] /\ r.c.on = c.on
        /\ r.c.poisoned = c.poisoned /\ r.c.outOfSync = c.outOfSync
    BY <2>3 DEF Walker
  <2>5. Passes(r.played, n, o, start, end)
    <3>1. m - 1 \in 0 .. m /\ m - 1 <= m - 1
      BY <1>5
    <3>2. QED
      BY <1>11, <2>3, <3>1
  <2>6. at[m - 1] \in Span(n, o)
    BY <1>3, <1>6, <1>7
  <2>7. QED
    BY <2>1, <2>4, <2>5, <2>6 DEF OnList, r
<1>13. CASE actions[at[m - 1]].when \in start .. end
  <2> DEFINE s == IF beyond THEN HeadOf(i) ELSE at[m - 1]
             h == IF beyond THEN HeadOf(i) ELSE at[m]
  <2>1. s \in Span(n, o) /\ h \in Span(n, o)
    <3>1. HeadOf(i) \in Span(n, o) /\ at[m - 1] \in Span(n, o)
      <4>1. 0 \in 0 .. n + 1
        OBVIOUS
      <4>2. QED
        BY <1>3, <1>6, <1>7, <4>1
    <3>2. QED
      BY <1>8, <3>1
  <2>2. r = [c |-> [c EXCEPT !.prev = s, !.next = h], played |-> [k \in 1 .. m |-> at[k - 1]]]
    <3>1. ~(m > HopBudget)
      BY <1>2, <1>5, <1>6
    <3>2. QED
      BY <1>1, <1>10, <1>13, <3>1 DEF ProcessActionBetween, at, m, turns
  <2> HIDE DEF s, h, r
  <2>3. r.c = [c EXCEPT !.prev = s, !.next = h] /\ r.played = [k \in 1 .. m |-> at[k - 1]]
    BY <2>2
  <2>4. /\ r.c.prev = s /\ r.c.next = h /\ r.c.on = c.on
        /\ r.c.poisoned = c.poisoned /\ r.c.outOfSync = c.outOfSync
    BY <2>3 DEF Walker
  <2>5. Passes(r.played, n, o, start, end)
    <3>1. m \in 0 .. m
      BY <1>5
    <3>2. actions[o[x]].when \in start .. end
      BY <1>7, <1>13
    <3>3. QED
      BY <1>11, <2>3, <3>1, <3>2
  <2>6. QED
    BY <2>1, <2>4, <2>5 DEF OnList, r
<1>14. QED
  BY <1>12, <1>13

LEMMA ResyncKeeps ==
  ASSUME TypeOK, NEW limit \in Nat, limit >= FirstDynamic, limit <= lastFreeAction_,
         NEW i \in Timbre, NEW n \in Nat, NEW o, Order(actions, limit, i, n, o),
         SentryWhole(actions, i, instrumentTimerMask_), NEW c \in Walker, NEW timer \in Time
  PROVE  LET r == ResyncNextAction(c, i, timer)
         IN  /\ OnList(r, n, o) /\ r.on = c.on /\ r.poisoned = c.poisoned /\ ~r.outOfSync
<1> DEFINE last == (timer - 1) % (instrumentTimerMask_[i] + 1)
           at == Path(HeadOf(i))
           turns == {k \in 0 .. HopBudget :
                       actions[at[k]].when >= last \/ ~WalkSafeLink(at[k + 1], i) \/ k = HopBudget}
           m == Min(turns)
           synced == [c EXCEPT !.outOfSync = FALSE, !.last = last]
           r == ResyncNextAction(c, i, timer)
<1>1. last \in Int /\ last <= instrumentTimerMask_[i]
  <2>1. timer - 1 \in Int /\ instrumentTimerMask_[i] \in Nat
    BY TimesAre DEF TypeOK, Time
  <2> DEFINE b == instrumentTimerMask_[i] + 1
             x == timer - 1
  <2>2. b \in Nat \ {0} /\ x \in Int
    BY <2>1
  <2> HIDE DEF b, x
  <2>3. x % b \in 0 .. b - 1
    BY <2>2
  <2>4. last \in 0 .. b - 1
    BY <2>3 DEF b, x
  <2> HIDE DEF last
  <2>5. QED
    BY <2>1, <2>4 DEF b
<1>2. 0 \in 0 .. n + 1 /\ o[0] = HeadOf(i) /\ o[n + 1] = TailOf(i)
      /\ \A k \in 0 .. n + 1 : o[k] \in Slot /\ o[k] \in Span(n, o)
  BY DEF Order, Span
<1>3. PICK z \in 0 .. n + 1 : z = 0
  BY <1>2
<1>4. /\ n + 4 <= HopBudget /\ HopBudget \in Nat
      /\ \A k \in 0 .. n + 1 : at[k] = o[k]
  <2>1. /\ n + 4 <= HopBudget /\ HopBudget \in Nat
        /\ \A k \in 0 .. n + 1 - z : Path(o[z])[k] = o[z + k]
    BY PathOnOrder
  <2>2. Path(o[z]) = at /\ n + 1 - z = n + 1 /\ \A k \in 0 .. n + 1 : z + k = k
    BY <1>2, <1>3
  <2>3. QED
    BY <2>1, <2>2
<1> HIDE DEF at, last
<1>5. n + 1 \in turns
  <2>1. n + 1 \in 0 .. HopBudget /\ n + 1 \in 0 .. n + 1
    BY <1>4
  <2>2. actions[at[n + 1]].when = instrumentTimerMask_[i]
    BY <1>2, <1>4, <2>1 DEF SentryWhole
  <2>3. instrumentTimerMask_[i] \in Int
    BY TimesAre DEF TypeOK, Time
  <2>4. QED
    BY <1>1, <2>1, <2>2, <2>3
<1>6. m \in turns /\ m \in 0 .. n + 1
  <2>1. turns \in SUBSET Nat
    BY <1>4
  <2> HIDE DEF turns
  <2>2. m \in turns /\ \A y \in turns : m <= y
    BY <1>5, <2>1, MinIsLeast
  <2> HIDE DEF m
  <2>3. QED
    BY <1>5, <2>1, <2>2
<1> HIDE DEF m
<1>7. at[m] = o[m] /\ at[m] \in Span(n, o)
  BY <1>2, <1>4, <1>6
<1>8. actions[at[m]].when >= last
  <2>1. CASE m = n + 1
    <3>1. actions[at[m]].when = instrumentTimerMask_[i]
      BY <1>2, <1>7, <2>1 DEF SentryWhole
    <3>2. instrumentTimerMask_[i] \in Int
      BY TimesAre DEF TypeOK, Time
    <3>3. QED
      BY <1>1, <3>1, <3>2
  <2>2. CASE m <= n
    <3>1. Sentry(actions, i)
      BY DEF SentryWhole
    <3>2. WalkSafeLink(o[m + 1], i)
      BY <1>6, <2>2, <3>1, AdvancesSafely
    <3>3. m + 1 \in 0 .. n + 1 /\ m # HopBudget
      BY <1>4, <1>6, <2>2
    <3>4. at[m + 1] = o[m + 1]
      BY <1>4, <3>3
    <3>5. QED
      BY <1>6, <3>2, <3>3, <3>4
  <2>3. QED
    BY <1>6, <2>1, <2>2
<1> DEFINE s == IF m = 0 THEN HeadOf(i) ELSE at[m - 1]
<1>9. s \in Span(n, o)
  <2>1. m # 0 => m - 1 \in 0 .. n + 1
    BY <1>6
  <2>2. QED
    BY <1>2, <1>4, <2>1
<1>10. r = [synced EXCEPT !.prev = s, !.next = at[m]]
  <2>1. ~(actions[at[m]].when < last)
    <3>1. actions[at[m]].when \in Int
      <4>1. at[m] \in Slot
        BY <1>2, <1>6, <1>7
      <4>2. \A x \in Time : x \in Int
        BY TimesAre DEF Time
      <4>3. QED
        BY <4>1, <4>2, TableIs DEF TypeOK, Table
    <3>2. QED
      BY <1>1, <1>8, <3>1
  <2>2. QED
    BY <2>1 DEF ResyncNextAction, at, last, m, turns
<1> HIDE DEF s, r
<1>11. /\ r.prev = s /\ r.next = at[m] /\ r.on = c.on /\ r.poisoned = c.poisoned /\ r.outOfSync = FALSE
  BY <1>10 DEF Walker
<1>12. QED
  BY <1>7, <1>9, <1>11 DEF OnList, r

LEMMA WalkKeeps ==
  ASSUME TypeOK, NEW limit \in Nat, limit >= FirstDynamic, limit <= lastFreeAction_,
         NEW i \in Timbre, NEW n \in Nat, NEW o, Order(actions, limit, i, n, o), Sentry(actions, i),
         cursor[i].on, OnList(cursor[i], n, o), NEW counter \in Time,
         cursor[i].outOfSync => SentryWhole(actions, i, instrumentTimerMask_)
  PROVE  LET w == Walk(i, counter)
         IN  /\ OnList(w.c, n, o) /\ w.c.on /\ w.c.poisoned = cursor[i].poisoned
             /\ w.c.outOfSync => cursor[i].outOfSync
             /\ w.played \in Seq(Slot)
             /\ \A k \in 1 .. Len(w.played) : w.played[k] \in Span(n, o)
             /\ \A j \in 1 .. Len(w.played), k \in 1 .. Len(w.played) :
                  j < k => w.played[j] # w.played[k]
<1> DEFINE c == cursor[i]
           timer == counter % (instrumentTimerMask_[i] + 1)
           synced == IF c.outOfSync THEN ResyncNextAction(c, i, timer) ELSE c
           first == synced.last <= timer
           mask == instrumentTimerMask_[i]
           start == IF first THEN synced.last ELSE 0
           before == IF first THEN [c |-> synced, played |-> <<>>]
                     ELSE ProcessActionBetween(synced, i, synced.last, mask)
           after == ProcessActionBetween(before.c, i, start, timer)
           w == Walk(i, counter)
<1>1. timer \in Time /\ mask \in Time
  <2>1. counter \in Int /\ instrumentTimerMask_[i] \in Time
    BY TimesAre DEF Time, TypeOK
  <2>2. QED
    BY <2>1, TimerTypes
<1>2. c \in Walker
  BY DEF TypeOK
<1> HIDE DEF timer
<1>3. synced \in Walker
  BY <1>1, <1>2, ResyncTypes
<1>4. /\ OnList(synced, n, o) /\ synced.on /\ synced.poisoned = c.poisoned
      /\ synced.outOfSync => c.outOfSync
  <2>1. CASE c.outOfSync
    <3> DEFINE r == ResyncNextAction(c, i, timer)
    <3>1. OnList(r, n, o) /\ r.on = c.on /\ r.poisoned = c.poisoned /\ ~r.outOfSync
      BY <1>1, <1>2, <2>1, ResyncKeeps
    <3> HIDE DEF r
    <3>2. synced = r
      BY <2>1 DEF r
    <3>3. QED
      BY <3>1, <3>2
  <2>2. CASE ~c.outOfSync
    BY <2>2
  <2>3. QED
    BY <2>1, <2>2
<1>5. synced.last \in Int /\ timer \in Int /\ mask \in Int
  BY <1>1, <1>3, TimesAre DEF Walker, Time
<1> HIDE DEF synced, mask
<1>6. /\ OnList(before.c, n, o) /\ before.c.on /\ before.c.poisoned = c.poisoned
      /\ before.c.outOfSync => c.outOfSync
      /\ before.played \in Seq(Slot)
      /\ IF first THEN before.played = <<>> ELSE Passes(before.played, n, o, synced.last, mask)
  <2>1. CASE first
    <3>1. before = [c |-> synced, played |-> <<>>]
      BY <2>1
    <3>2. before.c = synced /\ before.played = <<>>
      BY <3>1
    <3> HIDE DEF before
    <3>3. before.played \in Seq(Slot)
      BY <3>2
    <3>4. QED
      BY <1>4, <2>1, <3>2, <3>3
  <2>2. CASE ~first
    <3> DEFINE r == ProcessActionBetween(synced, i, synced.last, mask)
    <3>1. before = r
      BY <2>2
    <3>2. /\ OnList(r.c, n, o) /\ r.c.on /\ r.c.poisoned = synced.poisoned
          /\ r.c.outOfSync = synced.outOfSync
          /\ Passes(r.played, n, o, synced.last, mask)
      BY <1>3, <1>4, ProcessKeeps
    <3> HIDE DEF before, r
    <3>3. QED
      BY <1>4, <2>2, <3>1, <3>2 DEF Passes
  <2>3. QED
    BY <2>1, <2>2
<1>7. before.c \in Walker
  BY <1>3, ProcessTypes
<1> HIDE DEF before, first
<1>8. /\ OnList(after.c, n, o) /\ after.c.on /\ after.c.poisoned = before.c.poisoned
      /\ after.c.outOfSync = before.c.outOfSync
      /\ Passes(after.played, n, o, start, timer)
  BY <1>6, <1>7, ProcessKeeps
<1>9. after.c \in Walker
  BY <1>7, ProcessTypes
<1>10. w = [c |-> [after.c EXCEPT !.last = timer], played |-> before.played \o after.played]
  BY DEF Walk, after, before, synced, timer, first, mask
<1> DEFINE p == before.played
           q == after.played
<1>11. w.played = p \o q /\ w.c = [after.c EXCEPT !.last = timer]
  <2> DEFINE d == [after.c EXCEPT !.last = timer]
             r == before.played \o after.played
  <2>1. w = [c |-> d, played |-> r]
    BY <1>10
  <2> HIDE DEF d, r, w
  <2>2. w.c = d /\ w.played = r
    BY <2>1
  <2>3. QED
    BY <2>2 DEF d, r
<1> HIDE DEF after, start, w
<1>12. /\ w.c.next = after.c.next /\ w.c.prev = after.c.prev /\ w.c.on = after.c.on
       /\ w.c.poisoned = after.c.poisoned /\ w.c.outOfSync = after.c.outOfSync
  BY <1>9, <1>11 DEF Walker
<1>13. OnList(w.c, n, o) /\ w.c.on /\ w.c.poisoned = c.poisoned /\ (w.c.outOfSync => c.outOfSync)
  BY <1>6, <1>8, <1>12 DEF OnList
<1>14. p \in Seq(Slot) /\ q \in Seq(Slot)
  BY <1>6, <1>8 DEF Passes
<1> HIDE DEF p, q
<1>15. /\ w.played \in Seq(Slot) /\ Len(w.played) = Len(p) + Len(q)
       /\ \A k \in 1 .. Len(w.played) : w.played[k] = IF k <= Len(p) THEN p[k] ELSE q[k - Len(p)]
  BY <1>11, <1>14
<1>16. /\ \A k \in 1 .. Len(p) : ~first /\ p[k] \in Span(n, o) /\ actions[p[k]].when \in synced.last .. mask
       /\ \A j \in 1 .. Len(p), k \in 1 .. Len(p) : j < k => p[j] # p[k]
  <2>1. CASE first
    <3>1. p = <<>>
      BY <1>6, <2>1 DEF p
    <3>2. Len(p) = 0
      BY <3>1
    <3>3. QED
      BY <3>2
  <2>2. CASE ~first
    <3>1. Passes(p, n, o, synced.last, mask)
      BY <1>6, <2>2 DEF p
    <3>2. QED
      BY <2>2, <3>1 DEF Passes
  <2>3. QED
    BY <2>1, <2>2
<1>17. /\ \A k \in 1 .. Len(q) : q[k] \in Span(n, o) /\ actions[q[k]].when \in start .. timer
       /\ \A j \in 1 .. Len(q), k \in 1 .. Len(q) : j < k => q[j] # q[k]
  BY <1>8 DEF Passes, q
<1>18. \A j \in 1 .. Len(p), k \in 1 .. Len(q) : p[j] # q[k]
  <2> SUFFICES ASSUME NEW j \in 1 .. Len(p), NEW k \in 1 .. Len(q) PROVE p[j] # q[k]
    OBVIOUS
  <2>1. ~first /\ actions[p[j]].when \in synced.last .. mask
    BY <1>16
  <2>2. timer < synced.last
    BY <1>5, <2>1 DEF first
  <2>3. actions[q[k]].when \in start .. timer
    BY <1>17
  <2>4. actions[p[j]].when >= synced.last /\ actions[p[j]].when \in Int
    BY <1>5, <2>1
  <2>5. actions[q[k]].when <= timer
    <3>1. start \in Int
      BY <1>5 DEF start
    <3>2. QED
      BY <1>5, <2>3, <3>1
  <2>6. actions[p[j]].when # actions[q[k]].when
    BY <1>5, <2>2, <2>4, <2>5
  <2>7. QED
    BY <2>6
<1>19. Len(p) \in Nat /\ Len(q) \in Nat
  BY <1>14
<1>20. \A k \in 1 .. Len(w.played) : \/ k \in 1 .. Len(p) /\ w.played[k] = p[k]
                                     \/ k - Len(p) \in 1 .. Len(q) /\ w.played[k] = q[k - Len(p)] /\ k > Len(p)
  BY <1>15, <1>19
<1>21. \A k \in 1 .. Len(w.played) : w.played[k] \in Span(n, o)
  BY <1>16, <1>17, <1>20
<1>22. ASSUME NEW j \in 1 .. Len(w.played), NEW k \in 1 .. Len(w.played), j < k
       PROVE  w.played[j] # w.played[k]
  <2>1. CASE k <= Len(p)
    <3>1. j \in 1 .. Len(p) /\ k \in 1 .. Len(p)
      BY <1>19, <1>22, <2>1
    <3>2. w.played[j] = p[j] /\ w.played[k] = p[k]
      BY <1>15, <2>1, <3>1
    <3>3. QED
      BY <1>16, <1>22, <3>1, <3>2
  <2>2. CASE k > Len(p)
    <3>1. w.played[k] = q[k - Len(p)] /\ k - Len(p) \in 1 .. Len(q)
      BY <1>15, <1>19, <2>2
    <3>2. CASE j <= Len(p)
      <4>1. w.played[j] = p[j] /\ j \in 1 .. Len(p)
        BY <1>15, <1>19, <3>2
      <4>2. QED
        BY <1>18, <3>1, <4>1
    <3>3. CASE j > Len(p)
      <4>1. w.played[j] = q[j - Len(p)] /\ j - Len(p) \in 1 .. Len(q) /\ j - Len(p) < k - Len(p)
        BY <1>15, <1>19, <1>22, <3>3
      <4>2. QED
        BY <1>17, <3>1, <4>1
    <3>4. QED
      BY <1>19, <3>2, <3>3
  <2>3. QED
    BY <1>19, <2>1, <2>2
<1>23. QED
  BY <1>13, <1>15, <1>21, <1>22 DEF w

-----------------------------------------------------------------------------
(* The inductive invariant of the lists.  A list holds the notes `kept', and *)
(* the slots `refs', which somebody is about to use, are on it.              *)
NotesOn(t, n, o) == {t[o[k]].note : k \in 1 .. n}
Holds(t, limit, i, kept, refs) ==
    \E n \in Nat : \E o :
      Order(t, limit, i, n, o) /\ NotesOn(t, n, o) = kept /\ refs \subseteq Span(n, o)

(* A slot that is filled but not linked yet is on no list. *)
Live == IF main.pc = "link" THEN lastFreeAction_ - 1 ELSE lastFreeAction_
CursorRefs(i) == {cursor[i].next, cursor[i].prev}
Refs(i) ==
    CursorRefs(i)
      \cup (IF main.pc \in {"publish", "link"} /\ main.i = i THEN {main.pred} ELSE {})
      \cup (IF main.pc = "cursor" /\ main.i = i THEN {lastFreeAction_ - 1} ELSE {})

(* Between the stores of a length change only the time of the tail is not    *)
(* what an inspection would want, and no walk catches up meanwhile.          *)
TailOnTime(i) ==
    \/ actions[TailOf(i)].when = instrumentTimerMask_[i]
    \/ main.pc = "tailWhen" /\ main.i = i /\ ~cursor[i].outOfSync
ListSound(i) ==
    Holds(actions, Live, i, recorded[i], Refs(i)) /\ Sentry(actions, i) /\ TailOnTime(i)

(* A note is about to go where it belongs. *)
Placed ==
    LET succ == actions[main.pred].next
    IN  /\ main.pred # TailOf(main.i)
        /\ main.pred = HeadOf(main.i) \/ actions[main.pred].when <= main.when
        /\ succ = TailOf(main.i) \/ actions[succ].when >= main.when
Filled ==
    actions[lastFreeAction_ - 1] =
      [when |-> main.when, note |-> notes, next |-> actions[main.pred].next]
Settled ==
    ~Rebuilding =>
      /\ \A i \in Timbre : ListSound(i)
      /\ main.pc \in {"publish", "link"} => Placed
      /\ main.pc = "link" => Filled

Activated ==
    \A i \in Timbre : cursor[i].on \/ recorded[i] = {} \/ (main.pc \in {"cursor", "activate"} /\ main.i = i)
Unlinking ==
    main.pc = "unlink" =>
      /\ \A i \in Timbre : SentryWhole(actions, i, instrumentTimerMask_)
      /\ \A i \in Timbre \ {main.i} :
           Holds(actions, lastFreeAction_, i, recorded[i], CursorRefs(i))

(* While a compaction is under way there is a table that it leads to and     *)
(* that has all lists in order.                                              *)
Rank(t, k, to, s) == to + Cardinality({x \in k .. s - 1 : t[x].note # NONE})
Moves(s) == s < FirstDynamic \/ (Dynamic(s) /\ actions[s].note # NONE)
Translated(e) == [e EXCEPT !.next = Compacted(@)]
Promises(final, limit, refs) ==
    /\ final \in Table /\ limit \in FirstDynamic .. SEQ_ACTION_SIZE
    /\ \A i \in Timbre : /\ SentryWhole(final, i, instrumentTimerMask_)
                         /\ Holds(final, limit, i, recorded[i], refs[i])
CompactedRefs(i) == {Compacted(cursor[i].next), Compacted(cursor[i].prev)}
LeftInUse == Rank(actions, FirstDynamic, FirstDynamic, lastFreeAction_)
Remapping ==
    main.pc = "remap" =>
      \E final :
        /\ Promises(final, LeftInUse, [i \in Timbre |-> CompactedRefs(i)])
        /\ \A s \in Slot : Moves(s) =>
             final[Compacted(s)] = IF s < main.k THEN actions[s] ELSE Translated(actions[s])
Translating ==
    main.pc = "cursors" =>
      \E final :
        /\ Promises(final, LeftInUse,
                    [i \in Timbre |-> IF i < main.k THEN CursorRefs(i) ELSE CompactedRefs(i)])
        /\ \A s \in Slot : Moves(s) => final[Compacted(s)] = actions[s]
Compacting ==
    main.pc = "compact" =>
      \E final :
        /\ Promises(final, Rank(actions, main.k, main.to, lastFreeAction_),
                    [i \in Timbre |-> CursorRefs(i)])
        /\ \A s \in Slot : s < main.to => final[s] = actions[s]
        /\ \A s \in main.k .. lastFreeAction_ - 1 :
             actions[s].note # NONE => final[Rank(actions, main.k, main.to, s)] = actions[s]

Whole ==
    /\ TypeInv /\ main.pc # "load" /\ NeverTrips /\ Activated /\ (Rebuilding => ~running_)
    /\ Settled /\ Unlinking /\ Remapping /\ Translating /\ Compacting

(* An order depends on the slots of its list only. *)
LEMMA OrderSame ==
  ASSUME NEW t, NEW u, NEW limit, NEW other, NEW i \in Timbre, NEW n \in Nat, NEW o,
         Order(t, limit, i, n, o), \A k \in 0 .. n : u[o[k]] = t[o[k]], \A k \in 1 .. n : o[k] < other
  PROVE  /\ Order(u, other, i, n, o)
         /\ NotesOn(u, n, o) = NotesOn(t, n, o)
<1>1. \A k \in 1 .. n : u[o[k]] = t[o[k]]
  OBVIOUS
<1>2. \A k \in 1 .. n - 1 : u[o[k]].when = t[o[k]].when /\ u[o[k + 1]].when = t[o[k + 1]].when
  <2> SUFFICES ASSUME NEW k \in 1 .. n - 1
               PROVE  u[o[k]].when = t[o[k]].when /\ u[o[k + 1]].when = t[o[k + 1]].when
    OBVIOUS
  <2>1. k \in 1 .. n /\ k + 1 \in 1 .. n
    OBVIOUS
  <2>2. QED
    BY <1>1, <2>1
<1>3. \A k \in 1 .. n - 1 : u[o[k]].when <= u[o[k + 1]].when
  BY <1>2 DEF Order
<1>4. \A k \in 1 .. n : o[k] >= FirstDynamic /\ o[k] < other /\ u[o[k]].note # NONE
  BY <1>1 DEF Order
<1>5. \A k \in 0 .. n : u[o[k]].next = o[k + 1]
  BY DEF Order
<1>6. QED
  <2>1. NotesOn(u, n, o) = NotesOn(t, n, o)
    BY <1>1 DEF NotesOn
  <2>2. Order(u, other, i, n, o)
    BY <1>3, <1>4, <1>5 DEF Order
  <2>3. QED
    BY <2>1, <2>2

LEMMA HoldsSame ==
  ASSUME NEW t, NEW u, NEW limit \in Nat, NEW i \in Timbre, NEW kept, NEW refs, NEW some,
         some \subseteq refs, Holds(t, limit, i, kept, refs),
         \A s \in Slot : s = HeadOf(i) \/ (s >= FirstDynamic /\ s < limit) => u[s] = t[s]
  PROVE  Holds(u, limit, i, kept, some)
<1>1. PICK n, o : /\ n \in Nat /\ Order(t, limit, i, n, o) /\ NotesOn(t, n, o) = kept
                  /\ refs \subseteq Span(n, o)
  BY DEF Holds
<1> n \in Nat
  BY <1>1
<1>2. \A k \in 0 .. n : u[o[k]] = t[o[k]]
  <2>1. \A k \in 0 .. n : k = 0 \/ k \in 1 .. n
    OBVIOUS
  <2>2. o[0] = HeadOf(i) /\ \A k \in 1 .. n : o[k] >= FirstDynamic /\ o[k] < limit
    BY <1>1 DEF Order
  <2>3. \A k \in 0 .. n : o[k] \in Slot
    BY <1>1 DEF Order
  <2>4. QED
    BY <2>1, <2>2, <2>3
<1>3. \A k \in 1 .. n : o[k] < limit
  BY <1>1 DEF Order
<1>4. /\ Order(u, limit, i, n, o)
      /\ NotesOn(u, n, o) = NotesOn(t, n, o)
  <2>1. Order(t, limit, i, n, o)
    BY <1>1
  <2>2. QED
    BY <1>2, <1>3, <2>1, OrderSame
<1>5. QED
  BY <1>1, <1>4 DEF Holds

LEMMA LiveIs ==
  ASSUME TypeInv
  PROVE  /\ Live \in Nat /\ Live >= FirstDynamic /\ Live <= lastFreeAction_ /\ Live <= SEQ_ACTION_SIZE
         /\ lastFreeAction_ \in Nat
<1>1. lastFreeAction_ \in FirstDynamic .. SEQ_ACTION_SIZE /\ (main.pc = "link" => lastFreeAction_ > FirstDynamic)
  BY DEF TypeInv, TypeOK, Control
<1>2. QED
  BY <1>1, SlotsAre DEF Live

-----------------------------------------------------------------------------
(* Settled steps that leave the lists alone. *)
LEMMA SettledFrame ==
  ASSUME Whole, ~Rebuilding, ~Rebuilding', actions' = actions, Live' = Live, recorded' = recorded,
         \A i \in Timbre : Holds(actions, Live, i, recorded[i], Refs(i)'),
         \A i \in Timbre : TailOnTime(i)',
         main'.pc \in {"publish", "link"} => Placed', main'.pc = "link" => Filled'
  PROVE  Settled' /\ Unlinking' /\ Remapping' /\ Translating' /\ Compacting'
<1>1. ASSUME NEW i \in Timbre PROVE ListSound(i)'
  <2>1. ListSound(i)
    BY DEF Whole, Settled
  <2>2. Holds(actions, Live, i, recorded[i], Refs(i)') /\ Sentry(actions, i)
    BY <2>1 DEF ListSound
  <2>3. QED
    BY <2>2 DEF ListSound, Holds, Sentry
<1>2. Settled'
  BY <1>1 DEF Settled
<1>3. QED
  BY <1>2 DEF Rebuilding, Unlinking, Remapping, Translating, Compacting

LEMMA HoldsFewer ==
  ASSUME NEW t, NEW limit, NEW i, NEW kept, NEW refs, NEW some, some \subseteq refs,
         Holds(t, limit, i, kept, refs)
  PROVE  Holds(t, limit, i, kept, some)
BY DEF Holds

(* Main is at none of the steps for which the invariant says more. *)
Quiet == {"idle", "outOfSync", "position", "activate"}

LEMMA QuietStill ==
  ASSUME Whole, main.pc \in Quiet, main'.pc \in Quiet, TypeInv', NeverTrips', Activated',
         actions' = actions, lastFreeAction_' = lastFreeAction_, recorded' = recorded,
         instrumentTimerMask_' = instrumentTimerMask_,
         \A i \in Timbre : CursorRefs(i)' \subseteq CursorRefs(i)
  PROVE  Whole'
<1>1. ~Rebuilding /\ ~Rebuilding' /\ main'.pc # "load" /\ Live' = Live
  BY DEF Rebuilding, Quiet, Live
<1>2. main.pc \notin {"publish", "link", "cursor", "tailWhen"} /\ main'.pc \notin {"publish", "link", "cursor", "tailWhen"}
  BY DEF Quiet
<1>3. ASSUME NEW i \in Timbre PROVE Holds(actions, Live, i, recorded[i], Refs(i)') /\ TailOnTime(i)'
  <2>1. ListSound(i)
    BY <1>1 DEF Whole, Settled
  <2>2. Refs(i) = CursorRefs(i) /\ Refs(i)' = CursorRefs(i)'
    BY <1>2 DEF Refs
  <2>3. Holds(actions, Live, i, recorded[i], Refs(i)')
    <3>1. Refs(i)' \subseteq Refs(i)
      BY <2>2
    <3>2. Holds(actions, Live, i, recorded[i], Refs(i))
      BY <2>1 DEF ListSound
    <3>3. QED
      BY <3>1, <3>2, HoldsFewer
  <2>4. TailOnTime(i)'
    BY <1>2, <2>1 DEF ListSound, TailOnTime
  <2>5. QED
    BY <2>3, <2>4
<1>4. Settled' /\ Unlinking' /\ Remapping' /\ Translating' /\ Compacting'
  BY <1>1, <1>2, <1>3, SettledFrame
<1>5. QED
  BY <1>1, <1>4 DEF Whole

(* A walk over a list that is being played.                                 *)
LEMMA WalkOnList ==
  ASSUME Whole, ~Rebuilding, NEW i \in Timbre, cursor[i].on, NEW counter \in Time
  PROVE  \E n \in Nat : \E o :
           LET w == Walk(i, counter)
           IN  /\ Order(actions, Live, i, n, o) /\ NotesOn(actions, n, o) = recorded[i]
               /\ Refs(i) \subseteq Span(n, o) /\ OnList(w.c, n, o) /\ w.c.on /\ ~w.c.poisoned
               /\ w.c.outOfSync => cursor[i].outOfSync
               /\ w.played \in Seq(Slot)
               /\ \A k \in 1 .. Len(w.played) : w.played[k] \in Span(n, o)
               /\ \A j \in 1 .. Len(w.played), k \in 1 .. Len(w.played) :
                    j < k => w.played[j] # w.played[k]
<1>1. ListSound(i) /\ TypeOK /\ TypeInv /\ ~cursor[i].poisoned
  BY DEF Whole, Settled, TypeInv, NeverTrips
<1>2. PICK n, o : /\ n \in Nat /\ Order(actions, Live, i, n, o)
                  /\ NotesOn(actions, n, o) = recorded[i]
                  /\ Refs(i) \subseteq Span(n, o)
  BY <1>1 DEF ListSound, Holds
<1> n \in Nat
  BY <1>2
<1>3. OnList(cursor[i], n, o)
  BY <1>2 DEF Refs, CursorRefs, OnList
<1>4. Sentry(actions, i) /\ (cursor[i].outOfSync => SentryWhole(actions, i, instrumentTimerMask_))
  BY <1>1 DEF ListSound, TailOnTime, SentryWhole
<1>5. Live \in Nat /\ Live >= FirstDynamic /\ Live <= lastFreeAction_
  BY <1>1, LiveIs
<1>6. Order(actions, Live, i, n, o)
  BY <1>2
<1> DEFINE w == Walk(i, counter)
<1>7. /\ OnList(w.c, n, o) /\ w.c.on /\ w.c.poisoned = cursor[i].poisoned
      /\ w.c.outOfSync => cursor[i].outOfSync
      /\ w.played \in Seq(Slot)
      /\ \A k \in 1 .. Len(w.played) : w.played[k] \in Span(n, o)
      /\ \A j \in 1 .. Len(w.played), k \in 1 .. Len(w.played) :
           j < k => w.played[j] # w.played[k]
  <2> HIDE DEF w
  <2>1. QED
    BY <1>1, <1>3, <1>4, <1>5, <1>6, WalkKeeps DEF w
<1> HIDE DEF w
<1>8. ~w.c.poisoned
  BY <1>1, <1>7
<1>9. QED
  BY <1>2, <1>7, <1>8 DEF w

LEMMA TicKeeps ==
  ASSUME Whole, TypeInv', MainSequencerTic
  PROVE  Whole'
<1>1. /\ running_ /\ running_' = running_ /\ main' = main /\ actions' = actions
      /\ lastFreeAction_' = lastFreeAction_ /\ recorded' = recorded
      /\ instrumentTimerMask_' = instrumentTimerMask_ /\ notes' = notes
  BY DEF MainSequencerTic
<1>2. PICK counter \in Time :
        cursor' = [i \in Timbre |-> IF cursor[i].on THEN Walk(i, counter).c ELSE cursor[i]]
  <2>1. PICK counter \in {(current16bitTimer_ + d) % Period : d \in 0 .. MaxTick} :
         /\ current16bitTimer_' = counter /\ previousCurrent16bitTimer_' = counter
         /\ cursor' = [i \in Timbre |-> IF cursor[i].on THEN Walk(i, counter).c ELSE cursor[i]]
    BY DEF MainSequencerTic
  <2>2. counter \in Time
    BY <2>1 DEF TypeInv, TypeOK
  <2>3. QED
    BY <2>1, <2>2
<1>3. ~Rebuilding /\ ~Rebuilding' /\ Live' = Live
  BY <1>1 DEF Whole, Rebuilding, Live
<1>4. ASSUME NEW i \in Timbre
      PROVE  /\ Holds(actions, Live, i, recorded[i], Refs(i)')
             /\ cursor'[i].on = cursor[i].on /\ ~cursor'[i].poisoned
             /\ cursor'[i].outOfSync => cursor[i].outOfSync
  <2>1. ListSound(i) /\ ~cursor[i].poisoned
    BY <1>3 DEF Whole, Settled, NeverTrips
  <2>2. CASE ~cursor[i].on
    <3>1. cursor'[i] = cursor[i]
      BY <1>2, <2>2
    <3>2. Refs(i)' = Refs(i)
      BY <1>1, <3>1 DEF Refs, CursorRefs
    <3>3. QED
      BY <2>1, <3>1, <3>2 DEF ListSound
  <2>3. CASE cursor[i].on
    <3> DEFINE w == Walk(i, counter)
    <3>1. cursor'[i] = w.c
      BY <1>2, <2>3
    <3>2. PICK n, o :
               /\ n \in Nat
               /\ Order(actions, Live, i, n, o) /\ NotesOn(actions, n, o) = recorded[i]
               /\ Refs(i) \subseteq Span(n, o) /\ OnList(w.c, n, o) /\ w.c.on /\ ~w.c.poisoned
               /\ w.c.outOfSync => cursor[i].outOfSync
      BY <1>3, <2>3, WalkOnList
    <3> n \in Nat
      BY <3>2
    <3> HIDE DEF w
    <3>3. Refs(i)' \subseteq Refs(i) \cup {w.c.next, w.c.prev}
      BY <1>1, <3>1 DEF Refs, CursorRefs
    <3>4. Refs(i)' \subseteq Span(n, o)
      BY <3>2, <3>3 DEF OnList
    <3>5. Holds(actions, Live, i, recorded[i], Refs(i)')
      BY <3>2, <3>4 DEF Holds
    <3>6. cursor'[i].on = cursor[i].on
      BY <2>3, <3>1, <3>2, WalkerIs DEF Whole, TypeInv, TypeOK
    <3>7. QED
      BY <3>1, <3>2, <3>5, <3>6
  <2>4. QED
    BY <2>2, <2>3
<1>5. ASSUME NEW i \in Timbre PROVE TailOnTime(i)'
  <2>1. TailOnTime(i)
    BY <1>3 DEF Whole, Settled, ListSound
  <2>2. QED
    BY <1>1, <1>4, <2>1 DEF TailOnTime
<1>6. /\ main'.pc \in {"publish", "link"} => Placed'
      /\ main'.pc = "link" => Filled'
  BY <1>1, <1>3 DEF Whole, Settled, Placed, Filled
<1>7. Settled' /\ Unlinking' /\ Remapping' /\ Translating' /\ Compacting'
  BY <1>1, <1>3, <1>4, <1>5, <1>6, SettledFrame
<1>8. NeverTrips' /\ Activated'
  BY <1>1, <1>4 DEF NeverTrips, Activated, Whole
<1>9. QED
  BY <1>1, <1>3, <1>7, <1>8 DEF Whole

LEMMA TransportKeeps ==
  ASSUME Whole, TypeInv', Start \/ Stop \/ Rewind
  PROVE  Whole'
<1>1. /\ main = idle /\ main' = main /\ actions' = actions /\ lastFreeAction_' = lastFreeAction_
      /\ recorded' = recorded /\ instrumentTimerMask_' = instrumentTimerMask_
  BY DEF Start, Stop, Rewind, Edit, lists
<1>2. main.pc \in Quiet /\ main'.pc \in Quiet
  BY <1>1 DEF idle, Quiet
<1>3. ASSUME NEW i \in Timbre
      PROVE  /\ cursor'[i].next = cursor[i].next /\ cursor'[i].prev = cursor[i].prev
             /\ cursor'[i].on = cursor[i].on /\ cursor'[i].poisoned = cursor[i].poisoned
  <2>1. CASE cursor' = cursor
    BY <2>1
  <2>2. CASE cursor' = [j \in Timbre |-> [cursor[j] EXCEPT !.last = 0]]
    <3>1. cursor[i] \in Walker
      BY DEF Whole, TypeInv, TypeOK
    <3>2. QED
      BY <2>2, <3>1 DEF Walker
  <2>3. QED
    BY <2>1, <2>2 DEF Start, Stop, Rewind
<1>4. NeverTrips' /\ Activated' /\ \A i \in Timbre : CursorRefs(i)' \subseteq CursorRefs(i)
  BY <1>1, <1>3 DEF Whole, NeverTrips, Activated, CursorRefs
<1>5. QED
  BY <1>1, <1>2, <1>4, QuietStill

(* Every list empty. *)
LEMMA EmptyHolds ==
  ASSUME NEW t, NEW limit, NEW i \in Timbre, t[HeadOf(i)].next = TailOf(i)
  PROVE  Holds(t, limit, i, {}, {HeadOf(i), TailOf(i)})
<1> DEFINE o == [k \in 0 .. 0 + 1 |-> IF k = 0 THEN HeadOf(i) ELSE TailOf(i)]
<1>1. HeadOf(i) \in Slot /\ TailOf(i) \in Slot
  BY SlotsAre
<1>2. o \in [0 .. 0 + 1 -> Slot] /\ o[0] = HeadOf(i) /\ o[0 + 1] = TailOf(i)
  BY <1>1
<1> HIDE DEF o
<1>3. \A k \in 0 .. 0 : t[o[k]].next = o[k + 1]
  <2> SUFFICES ASSUME NEW k \in 0 .. 0 PROVE t[o[k]].next = o[k + 1]
    OBVIOUS
  <2>1. k = 0
    OBVIOUS
  <2>2. QED
    BY <1>2, <2>1
<1>4. Order(t, limit, i, 0, o)
  BY <1>2, <1>3 DEF Order
<1>5. {HeadOf(i), TailOf(i)} \subseteq Span(0, o)
  <2>1. 0 \in 0 .. 0 + 1 /\ 0 + 1 \in 0 .. 0 + 1
    OBVIOUS
  <2>2. QED
    BY <1>2, <2>1 DEF Span
<1>6. NotesOn(t, 0, o) = {}
  BY DEF NotesOn
<1>7. QED
  BY <1>4, <1>5, <1>6 DEF Holds

LEMMA SentinelsSound ==
  ASSUME NEW mask, NEW i \in Timbre
  PROVE  SentryWhole(Sentinels(mask), i, mask) /\ Sentinels(mask)[HeadOf(i)].next = TailOf(i)
<1>1. i \in Nat /\ HeadOf(i) \in Slot /\ TailOf(i) \in Slot /\ HeadOf(i) < FirstDynamic /\ TailOf(i) < FirstDynamic
  BY SlotsAre, SizesAssumption DEF Timbre
<1>2. HeadOf(i) % 2 = 0 /\ TailOf(i) % 2 # 0 /\ TailOf(i) \div 2 = i /\ TailOf(i) - 1 = HeadOf(i)
      /\ HeadOf(i) + 1 = TailOf(i) /\ HeadOf(i) \in Nat /\ TailOf(i) \in Nat
  BY <1>1 DEF HeadOf, TailOf
<1>3. ~(HeadOf(i) >= FirstDynamic) /\ ~(TailOf(i) >= FirstDynamic)
  BY SlotsAre
<1>4. Sentinels(mask)[HeadOf(i)] = [when |-> 0, note |-> NONE, next |-> TailOf(i)]
  BY <1>1, <1>2, <1>3 DEF Sentinels
<1>5. Sentinels(mask)[TailOf(i)] = [when |-> mask[i], note |-> NONE, next |-> HeadOf(i)]
  BY <1>1, <1>2, <1>3 DEF Sentinels
<1>6. QED
  BY <1>4, <1>5 DEF SentryWhole, Sentry

LEMMA ResetKeeps ==
  ASSUME main'.pc = "idle", NEW mask, instrumentTimerMask_' = mask,
         \A i \in Timbre : /\ SentryWhole(actions', i, mask)
                           /\ actions'[HeadOf(i)].next = TailOf(i),
         cursor' = [i \in Timbre |-> AtRest(i)], recorded' = [i \in Timbre |-> {}], TypeInv'
  PROVE  Whole'
<1>1. /\ ~Rebuilding' /\ main'.pc # "load" /\ Live' = lastFreeAction_'
      /\ main'.pc \notin {"publish", "link", "cursor", "tailWhen"}
  BY DEF Rebuilding, Live
<1>2. ASSUME NEW i \in Timbre PROVE ListSound(i)'
  <2>1. Holds(actions', Live', i, {}, {HeadOf(i), TailOf(i)})
    BY EmptyHolds
  <2>2. cursor'[i] = AtRest(i) /\ recorded'[i] = {}
    OBVIOUS
  <2>3. Refs(i)' = {HeadOf(i), TailOf(i)}
    BY <1>1, <2>2 DEF Refs, CursorRefs, AtRest
  <2>4. Holds(actions', Live', i, recorded'[i], Refs(i)')
    BY <2>1, <2>2, <2>3
  <2>5. Sentry(actions, i)' /\ TailOnTime(i)'
    BY DEF SentryWhole, Sentry, TailOnTime
  <2>6. QED
    BY <2>4, <2>5 DEF ListSound
<1>3. Settled'
  BY <1>1, <1>2 DEF Settled
<1>4. NeverTrips' /\ Activated'
  BY DEF NeverTrips, AtRest, Activated
<1>5. QED
  BY <1>1, <1>3, <1>4 DEF Whole, Rebuilding, Unlinking, Remapping, Translating, Compacting

LEMMA WholeInit == Init => Whole
<1> SUFFICES ASSUME Init PROVE Whole
  OBVIOUS
<1>1. TypeInv
  BY ListTypesInit
<1>2. ~Rebuilding /\ main.pc # "load" /\ main.pc \notin {"publish", "link", "cursor", "tailWhen"} /\ main.pc = "idle"
  BY DEF Init, idle, Rebuilding
<1>3. ASSUME NEW i \in Timbre PROVE ListSound(i)
  <2>1. SentryWhole(actions, i, instrumentTimerMask_) /\ actions[HeadOf(i)].next = TailOf(i)
    BY SentinelsSound DEF Init
  <2>2. Holds(actions, Live, i, {}, {HeadOf(i), TailOf(i)})
    BY <2>1, EmptyHolds
  <2>3. cursor[i] = AtRest(i) /\ recorded[i] = {}
    BY DEF Init
  <2>4. Refs(i) = {HeadOf(i), TailOf(i)}
    BY <1>2, <2>3 DEF Refs, CursorRefs, AtRest
  <2>5. QED
    BY <2>1, <2>2, <2>3, <2>4 DEF ListSound, TailOnTime, SentryWhole
<1>4. Settled
  BY <1>2, <1>3 DEF Settled
<1>5. NeverTrips /\ Activated
  BY DEF Init, NeverTrips, AtRest, Activated
<1>6. QED
  BY <1>1, <1>2, <1>4, <1>5 DEF Whole, Rebuilding, Unlinking, Remapping, Translating, Compacting

(* A step that writes the tail of one list only. *)
LEMMA LengthKeeps ==
  ASSUME Whole, TypeInv', ~ChangeWhilePending, Reset \/ SetMask \/ SetTailWhen \/ SetOutOfSync
  PROVE  Whole'
<1>1. CASE Reset
  <2> DEFINE mask == instrumentTimerMask_
  <2>1. main'.pc = "idle" /\ mask' = mask
    BY <1>1 DEF Reset, Edit, idle
  <2>2. ASSUME NEW i \in Timbre
        PROVE SentryWhole(actions', i, mask) /\ actions'[HeadOf(i)].next = TailOf(i)
    <3>1. HeadOf(i) \in Slot /\ TailOf(i) \in Slot /\ HeadOf(i) < FirstDynamic /\ TailOf(i) < FirstDynamic
      BY SlotsAre
    <3>2. actions'[HeadOf(i)] = Sentinels(mask)[HeadOf(i)] /\ actions'[TailOf(i)] = Sentinels(mask)[TailOf(i)]
      BY <1>1, <3>1 DEF Reset
    <3>3. SentryWhole(Sentinels(mask), i, mask) /\ Sentinels(mask)[HeadOf(i)].next = TailOf(i)
      BY SentinelsSound
    <3>4. QED
      BY <3>2, <3>3 DEF SentryWhole, Sentry
  <2>3. cursor' = [i \in Timbre |-> AtRest(i)] /\ recorded' = [i \in Timbre |-> {}]
    BY <1>1 DEF Reset
  <2> HIDE DEF mask
  <2>4. QED
    BY <2>1, <2>2, <2>3, ResetKeeps DEF mask
<1>2. CASE SetMask
  <2>1. PICK i \in Timbre, b \in Bars :
          /\ ~cursor[i].outOfSync /\ instrumentTimerMask_' = [instrumentTimerMask_ EXCEPT ![i] = b - 1]
          /\ main' = [pc |-> "tailWhen", i |-> i]
    BY <1>2 DEF SetMask
  <2>2. /\ main.pc = "idle" /\ actions' = actions /\ lastFreeAction_' = lastFreeAction_ /\ recorded' = recorded
        /\ cursor' = cursor
    BY <1>2 DEF SetMask, Edit, lists, idle
  <2>3. ~Rebuilding /\ ~Rebuilding' /\ main'.pc # "load" /\ Live' = Live /\ main'.pc = "tailWhen" /\ main'.i = i
    BY <2>1, <2>2 DEF Rebuilding, Live
  <2>4. ASSUME NEW j \in Timbre PROVE Holds(actions, Live, j, recorded[j], Refs(j)') /\ TailOnTime(j)'
    <3>1. ListSound(j)
      BY <2>3 DEF Whole, Settled
    <3>2. Refs(j)' = Refs(j)
      BY <2>2, <2>3 DEF Refs, CursorRefs
    <3>3. TailOnTime(j)'
      <4>1. CASE j = i
        BY <2>1, <2>2, <2>3, <4>1 DEF TailOnTime
      <4>2. CASE j # i
        <5>1. instrumentTimerMask_'[j] = instrumentTimerMask_[j]
          BY <2>1, <4>2 DEF Whole, TypeInv, TypeOK
        <5>2. actions[TailOf(j)].when = instrumentTimerMask_[j]
          BY <2>2, <3>1 DEF ListSound, TailOnTime
        <5>3. QED
          BY <2>2, <5>1, <5>2 DEF TailOnTime
      <4>3. QED
        BY <4>1, <4>2
    <3>4. QED
      BY <3>1, <3>2, <3>3 DEF ListSound
  <2>5. Settled' /\ Unlinking' /\ Remapping' /\ Translating' /\ Compacting'
    BY <2>2, <2>3, <2>4, SettledFrame
  <2>6. NeverTrips' /\ Activated'
    BY <2>2, <2>3 DEF Whole, NeverTrips, Activated
  <2>7. QED
    BY <2>3, <2>5, <2>6 DEF Whole
<1>3. CASE SetTailWhen
  <2> DEFINE h == main.i
  <2>1. /\ main.pc = "tailWhen" /\ h \in Timbre /\ main' = [pc |-> "outOfSync", i |-> h]
        /\ actions' = [actions EXCEPT ![TailOf(h)].when = instrumentTimerMask_[h]]
        /\ lastFreeAction_' = lastFreeAction_ /\ recorded' = recorded /\ cursor' = cursor
        /\ instrumentTimerMask_' = instrumentTimerMask_
    BY <1>3 DEF SetTailWhen, Whole, TypeInv, Control
  <2>2. ~Rebuilding /\ ~Rebuilding' /\ main'.pc # "load" /\ Live' = Live /\ main'.pc = "outOfSync"
    BY <2>1 DEF Rebuilding, Live
  <2>3. \A s \in Slot : s # TailOf(h) => actions'[s] = actions[s]
    BY <2>1 DEF Whole, TypeInv, TypeOK
  <2>4. /\ actions'[TailOf(h)].when = instrumentTimerMask_[h]
        /\ actions'[TailOf(h)].note = actions[TailOf(h)].note
        /\ actions'[TailOf(h)].next = actions[TailOf(h)].next
    <3>1. TailOf(h) \in Slot /\ actions \in Table
      BY <2>1, SlotsAre DEF Whole, TypeInv, TypeOK, Table
    <3>2. actions'[TailOf(h)] = [actions[TailOf(h)] EXCEPT !.when = instrumentTimerMask_[h]]
      BY <2>1, <3>1 DEF Table
    <3>3. QED
      BY <3>1, <3>2, TableIs
  <2> HIDE DEF h
  <2>5. ASSUME NEW i \in Timbre PROVE ListSound(i)'
    <3>1. ListSound(i)
      BY <2>2 DEF Whole, Settled
    <3>2. HeadOf(i) # TailOf(h) /\ HeadOf(i) \in Slot /\ TailOf(i) \in Slot /\ ~(TailOf(h) >= FirstDynamic)
      <4>1. i \in Nat /\ h \in Nat
        BY <2>1, SizesAssumption DEF Timbre
      <4>2. QED
        BY <2>1, <4>1, SlotsAre DEF HeadOf, TailOf
    <3>3. Refs(i)' = Refs(i)
      BY <2>1, <2>2 DEF Refs, CursorRefs
    <3>4. Holds(actions', Live, i, recorded[i], Refs(i))
      <4>1. \A s \in Slot : s = HeadOf(i) \/ (s >= FirstDynamic /\ s < Live) => actions'[s] = actions[s]
        BY <2>3, <3>2
      <4>2. Live \in Nat
        BY LiveIs DEF Whole
      <4>3. Holds(actions, Live, i, recorded[i], Refs(i))
        BY <3>1 DEF ListSound
      <4>4. QED
        BY <4>1, <4>2, <4>3, HoldsSame
    <3>5. Sentry(actions', i)
      BY <2>3, <2>4, <3>1, <3>2 DEF ListSound, Sentry
    <3>6. actions'[TailOf(i)].when = instrumentTimerMask_[i]
      <4>1. CASE i = h
        BY <2>4, <4>1
      <4>2. CASE i # h
        <5>1. TailOf(i) # TailOf(h)
          <6>1. i \in Nat /\ h \in Nat
            BY <2>1, SizesAssumption DEF Timbre
          <6>2. QED
            BY <4>2, <6>1 DEF TailOf
        <5>2. actions[TailOf(i)].when = instrumentTimerMask_[i]
          BY <3>1, <4>2 DEF ListSound, TailOnTime, h
        <5>3. QED
          BY <2>3, <3>2, <5>1, <5>2
      <4>3. QED
        BY <4>1, <4>2
    <3>7. Holds(actions', Live', i, recorded'[i], Refs(i)')
      BY <2>1, <2>2, <3>3, <3>4
    <3>8. Sentry(actions, i)' /\ TailOnTime(i)'
      BY <2>1, <3>5, <3>6 DEF Sentry, TailOnTime
    <3>9. QED
      BY <3>7, <3>8 DEF ListSound
  <2>6. Settled'
    BY <2>2, <2>5 DEF Settled
  <2>7. NeverTrips' /\ Activated'
    BY <2>1, <2>2 DEF Whole, NeverTrips, Activated
  <2>8. QED
    BY <2>2, <2>6, <2>7 DEF Whole, Rebuilding, Unlinking, Remapping, Translating, Compacting
<1>4. CASE SetOutOfSync
  <2>1. /\ main.pc = "outOfSync" /\ main'.pc = "idle" /\ main.i \in Timbre
        /\ cursor' = [cursor EXCEPT ![main.i].outOfSync = TRUE]
        /\ actions' = actions /\ lastFreeAction_' = lastFreeAction_ /\ recorded' = recorded
        /\ instrumentTimerMask_' = instrumentTimerMask_
    BY <1>4 DEF SetOutOfSync, lists, idle, Whole, TypeInv, Control
  <2>2. ASSUME NEW i \in Timbre
        PROVE  /\ cursor'[i].next = cursor[i].next /\ cursor'[i].prev = cursor[i].prev
               /\ cursor'[i].on = cursor[i].on /\ cursor'[i].poisoned = cursor[i].poisoned
    BY <2>1 DEF Whole, TypeInv, TypeOK, Walker
  <2>3. NeverTrips' /\ Activated' /\ \A i \in Timbre : CursorRefs(i)' \subseteq CursorRefs(i)
    BY <2>1, <2>2 DEF Whole, NeverTrips, Activated, CursorRefs
  <2>4. main.pc \in Quiet /\ main'.pc \in Quiet
    BY <2>1 DEF Quiet
  <2>5. QED
    BY <2>1, <2>3, <2>4, QuietStill
<1>5. QED
  BY <1>1, <1>2, <1>3, <1>4

-----------------------------------------------------------------------------
(* Recording a note.  No list is ever found damaged.                        *)
LEMMA SoundIsWellFormed ==
  ASSUME Whole, ~Rebuilding, main.pc # "tailWhen", NEW i \in Timbre
  PROVE  WellFormed(i)
<1>1. ListSound(i) /\ TypeInv
  BY DEF Whole, Settled
<1>2. PICK n, o : n \in Nat /\ Order(actions, Live, i, n, o)
  BY <1>1 DEF ListSound, Holds
<1> n \in Nat
  BY <1>2
<1>3. SentryWhole(actions, i, instrumentTimerMask_)
  BY <1>1 DEF ListSound, TailOnTime, SentryWhole
<1>4. actions \in Table /\ lastFreeAction_ \in FirstDynamic .. SEQ_ACTION_SIZE
  BY <1>1 DEF TypeInv, TypeOK, Table
<1>5. Live \in Nat /\ Live >= FirstDynamic /\ Live <= lastFreeAction_
  BY <1>1, LiveIs
<1>6. QED
  BY <1>2, <1>3, <1>4, <1>5, OrderIsSound

LEMMA InsertKeeps ==
  ASSUME Whole, TypeInv', RepairList \/ InsertNote
  PROVE  Whole'
<1>1. main.pc = "idle"
  BY DEF RepairList, InsertNote, idle
<1>2. ~Rebuilding
  BY <1>1 DEF Rebuilding
<1>3. \A i \in Timbre : WellFormed(i)
  BY <1>1, <1>2, SoundIsWellFormed
<1>4. InsertNote
  BY <1>3 DEF RepairList
<1>5. PICK i \in Timbre :
         /\ cursor' = [cursor EXCEPT ![i].poisoned = FALSE]
         /\ main' = IF lastFreeAction_ = SEQ_ACTION_SIZE THEN idle
                    ELSE [pc |-> "position", i |-> i,
                          when |-> current16bitTimer_ % (instrumentTimerMask_[i] + 1)]
  BY <1>4 DEF InsertNote
<1>6. main.pc \in Quiet /\ main'.pc \in Quiet
  BY <1>1, <1>5 DEF Quiet, idle
<1>7. /\ actions' = actions /\ lastFreeAction_' = lastFreeAction_ /\ recorded' = recorded
      /\ instrumentTimerMask_' = instrumentTimerMask_
  BY <1>4 DEF InsertNote, lists, others
<1>8. ASSUME NEW j \in Timbre
      PROVE  /\ cursor'[j].next = cursor[j].next /\ cursor'[j].prev = cursor[j].prev
             /\ cursor'[j].on = cursor[j].on /\ ~cursor'[j].poisoned
  BY <1>5 DEF Whole, NeverTrips, TypeInv, TypeOK, Walker
<1>9. NeverTrips' /\ Activated' /\ \A j \in Timbre : CursorRefs(j)' \subseteq CursorRefs(j)
  BY <1>1, <1>7, <1>8 DEF Whole, NeverTrips, Activated, CursorRefs
<1>10. QED
  BY <1>6, <1>7, <1>9, QuietStill

(* The place that is found is between an earlier and a later note.          *)
LEMMA FoundOnOrder ==
  ASSUME actions \in Table, NEW limit \in Nat, limit >= FirstDynamic, limit <= SEQ_ACTION_SIZE,
         NEW i \in Timbre, NEW n \in Nat, NEW o, Order(actions, limit, i, n, o), NEW when \in Time
  PROVE  \E a \in 0 .. n :
           /\ FoundPosition(i, when) = o[a]
           /\ a = 0 \/ actions[o[a]].when <= when
           /\ a = n \/ actions[o[a + 1]].when >= when
<1> DEFINE c == Chain(i)
           turns == {k \in 0 .. SEQ_ACTION_SIZE : c[k] = TailOf(i) \/ actions[c[k]].when > when}
           m == Min(turns)
<1>1. /\ n < SEQ_ACTION_SIZE /\ SEQ_ACTION_SIZE \in Nat
      /\ \A k \in 0 .. SEQ_ACTION_SIZE : c[k] = IF k <= n THEN o[k + 1] ELSE TailOf(i)
  BY ChainIsOrder, SlotsAre
<1>2. FoundPosition(i, when) = IF m = 0 THEN HeadOf(i) ELSE c[m - 1]
  BY DEF FoundPosition
<1> HIDE DEF c
<1>3. o[0] = HeadOf(i) /\ o[n + 1] = TailOf(i) /\ \A k \in 0 .. n + 1 : o[k] \in Slot
  BY DEF Order
<1>4. \A k \in 0 .. n : o[k] # TailOf(i)
  BY OrderIs
<1>5. n \in turns
  BY <1>1, <1>3
<1>6. turns \in SUBSET Nat
  BY <1>1
<1>7. m \in turns /\ \A y \in turns : m <= y
  <2> HIDE DEF turns
  <2>1. QED
    BY <1>5, <1>6, MinIsLeast
<1> HIDE DEF m
<1>8. m \in 0 .. n /\ m \in 0 .. SEQ_ACTION_SIZE
  BY <1>1, <1>5, <1>6, <1>7
<1>9. c[m] = o[m + 1] /\ (c[m] = TailOf(i) \/ actions[c[m]].when > when)
  BY <1>1, <1>7, <1>8
<1>10. \A s \in Slot : actions[s].when \in Int
  <2>1. \A x \in Time : x \in Int
    BY TimesAre DEF Time
  <2>2. QED
    BY <2>1, TableIs
<1>11. when \in Int
  BY TimesAre DEF Time
<1>12. m = n \/ actions[o[m + 1]].when >= when
  <2> SUFFICES ASSUME m # n PROVE actions[o[m + 1]].when >= when
    OBVIOUS
  <2>1. m + 1 \in 0 .. n /\ m + 1 \in 0 .. n + 1
    BY <1>8
  <2>2. o[m + 1] # TailOf(i) /\ o[m + 1] \in Slot
    BY <1>3, <1>4, <2>1
  <2> DEFINE x == actions[o[m + 1]].when
  <2>3. x > when /\ x \in Int
    BY <1>9, <1>10, <2>2
  <2> HIDE DEF x
  <2>4. x >= when
    BY <1>11, <2>3
  <2>5. QED
    BY <2>4 DEF x
<1>13. CASE m = 0
  <2>1. 0 \in 0 .. n
    OBVIOUS
  <2>2. FoundPosition(i, when) = o[m] /\ m \in 0 .. n
    BY <1>2, <1>3, <1>13, <2>1
  <2>3. QED
    BY <1>12, <1>13, <2>2
<1>14. CASE m # 0
  <2>1. m - 1 \in 0 .. SEQ_ACTION_SIZE /\ m - 1 <= n /\ (m - 1) + 1 = m /\ m \in 0 .. n + 1
    BY <1>1, <1>8, <1>14
  <2>2. c[m - 1] = o[m]
    BY <1>1, <2>1
  <2>3. m - 1 \notin turns
    BY <1>7, <1>8
  <2>4. ~(actions[o[m]].when > when)
    BY <2>1, <2>2, <2>3
  <2> DEFINE x == actions[o[m]].when
  <2>5. x \in Int /\ ~(x > when)
    BY <1>3, <1>10, <2>1, <2>4
  <2> HIDE DEF x
  <2>6. x <= when
    BY <1>11, <2>5
  <2>7. FoundPosition(i, when) = o[m]
    BY <1>2, <1>14, <2>2
  <2>8. QED
    BY <1>8, <1>12, <2>6, <2>7 DEF x
<1>15. QED
  BY <1>13, <1>14

LEMMA FindKeeps ==
  ASSUME Whole, TypeInv', FindPosition
  PROVE  Whole'
<1> DEFINE i == main.i
           pred == cursor[i].prev
           wrap == pred = TailOf(i) /\ actions[TailOf(i)].next = HeadOf(i)
           when == IF wrap THEN 0 ELSE main.when
<1>1. main.pc = "position" /\ i \in Timbre /\ main.when \in Time
  BY DEF FindPosition, Whole, TypeInv, Control
<1>2. ~Rebuilding /\ WellFormed(i)
  <2>1. ~Rebuilding
    BY <1>1 DEF Rebuilding
  <2>2. QED
    BY <1>1, <2>1, SoundIsWellFormed
<1>3. when \in Time
  BY <1>1, TimesAre DEF Time
<1>4. \/ /\ FastPosition(i, pred, when)
         /\ main' = [pc |-> "publish", i |-> i, when |-> when, pred |-> pred]
         /\ UNCHANGED <<lists, cursor>>
      \/ /\ main' = [pc |-> "publish", i |-> i, when |-> when, pred |-> FoundPosition(i, when)]
         /\ cursor' = [cursor EXCEPT ![i].poisoned = FALSE] /\ UNCHANGED lists
  BY <1>2 DEF FindPosition
<1>5. /\ actions' = actions /\ lastFreeAction_' = lastFreeAction_ /\ recorded' = recorded
      /\ instrumentTimerMask_' = instrumentTimerMask_ /\ main'.pc = "publish" /\ main'.i = i /\ main'.when = when
  BY <1>4 DEF lists, FindPosition, others
<1>6. ASSUME NEW j \in Timbre
      PROVE  /\ cursor'[j].next = cursor[j].next /\ cursor'[j].prev = cursor[j].prev
             /\ cursor'[j].on = cursor[j].on /\ ~cursor'[j].poisoned
  BY <1>1, <1>4 DEF Whole, NeverTrips, TypeInv, TypeOK, Walker
<1>7. ListSound(i) /\ TypeInv
  BY <1>1, <1>2 DEF Whole, Settled
<1>8. PICK n, o : /\ n \in Nat /\ Order(actions, Live, i, n, o)
                  /\ NotesOn(actions, n, o) = recorded[i]
                  /\ Refs(i) \subseteq Span(n, o)
  BY <1>7 DEF ListSound, Holds
<1> n \in Nat
  BY <1>8
<1>9. Live' = Live /\ ~Rebuilding' /\ main'.pc # "load" /\ main.pc # "tailWhen" /\ main'.pc # "tailWhen"
  BY <1>1, <1>5 DEF Live, Rebuilding
<1>10. i \in Timbre /\ main'.i = i /\ main'.when = when
  BY <1>1, <1>5
<1> DEFINE Good(p) == /\ p \in Span(n, o) /\ p # TailOf(i)
                      /\ p = HeadOf(i) \/ actions[p].when <= when
                      /\ actions[p].next = TailOf(i) \/ actions[actions[p].next].when >= when
<1>11. Good(main'.pred)
  <2>1. CASE FastPosition(i, pred, when) /\ main' = [pc |-> "publish", i |-> i, when |-> when, pred |-> pred]
    <3>1. main'.pred = pred
      BY <2>1
    <3>2. pred \in Span(n, o)
      BY <1>8 DEF Refs, CursorRefs
    <3>3. pred # TailOf(i)
      <4>1. HeadOf(i) # TailOf(i) /\ ~(TailOf(i) >= FirstDynamic)
        <5>1. i \in Nat
          BY <1>1, SizesAssumption DEF Timbre
        <5>2. QED
          BY <1>1, <5>1, SlotsAre DEF HeadOf, TailOf
      <4>2. QED
        BY <2>1, <4>1 DEF FastPosition, Dynamic
    <3> HIDE DEF pred, i, when
    <3>4. QED
      BY <2>1, <3>1, <3>2, <3>3 DEF FastPosition
  <2>2. CASE main' = [pc |-> "publish", i |-> i, when |-> when, pred |-> FoundPosition(i, when)]
    <3>1. main'.pred = FoundPosition(i, when)
      BY <2>2
    <3> HIDE DEF pred, i, when
    <3>2. actions \in Table /\ Live \in Nat /\ Live >= FirstDynamic /\ Live <= SEQ_ACTION_SIZE
      BY <1>7, LiveIs DEF TypeInv, TypeOK, Table
    <3>3. PICK a \in 0 .. n :
             /\ FoundPosition(i, when) = o[a]
             /\ a = 0 \/ actions[o[a]].when <= when
             /\ a = n \/ actions[o[a + 1]].when >= when
      <4>1. Order(actions, Live, i, n, o)
        BY <1>8
      <4>2. QED
        BY <1>3, <1>10, <3>2, <4>1, FoundOnOrder
    <3>4. o[a] # TailOf(i) /\ o[a] \in Span(n, o)
      <4>1. \A k \in 0 .. n : o[k] # TailOf(i)
        <5>1. Order(actions, Live, i, n, o)
          BY <1>8
        <5>2. QED
          BY <1>10, <5>1, OrderIs
      <4>2. a \in 0 .. n + 1
        OBVIOUS
      <4>3. QED
        BY <4>1, <4>2 DEF Span
    <3>5. actions[o[a]].next = o[a + 1] /\ o[0] = HeadOf(i) /\ o[n + 1] = TailOf(i)
      BY <1>8 DEF Order
    <3>6. QED
      BY <3>1, <3>3, <3>4, <3>5
  <2>3. QED
    BY <1>4, <2>1, <2>2
<1> HIDE DEF i, pred, when
<1>12. ASSUME NEW j \in Timbre
       PROVE  Holds(actions, Live, j, recorded[j], Refs(j)') /\ TailOnTime(j)'
  <2>1. ListSound(j)
    BY <1>2 DEF Whole, Settled
  <2>2. TailOnTime(j)'
    BY <1>5, <1>9, <2>1 DEF ListSound, TailOnTime
  <2>3. Refs(j) = CursorRefs(j) /\ CursorRefs(j)' = CursorRefs(j)
    BY <1>1, <1>6 DEF Refs, CursorRefs
  <2>4. CASE j = i
    <3>1. Refs(j)' = CursorRefs(j) \cup {main'.pred}
      BY <1>5, <2>3, <2>4 DEF Refs
    <3>2. Refs(j)' \subseteq Span(n, o)
      BY <1>8, <1>11, <2>3, <2>4, <3>1
    <3>3. Holds(actions, Live, j, recorded[j], Refs(j)')
      BY <1>8, <2>4, <3>2 DEF Holds
    <3>4. QED
      BY <2>2, <3>3
  <2>5. CASE j # i
    <3>1. Refs(j)' = CursorRefs(j)
      BY <1>5, <2>3, <2>5 DEF Refs
    <3>2. QED
      BY <2>1, <2>2, <2>3, <3>1 DEF ListSound
  <2>6. QED
    BY <2>4, <2>5
<1>13. Placed'
  BY <1>5, <1>10, <1>11 DEF Placed
<1>14. Settled' /\ Unlinking' /\ Remapping' /\ Translating' /\ Compacting'
  BY <1>2, <1>5, <1>9, <1>12, <1>13, SettledFrame
<1>15. NeverTrips' /\ Activated'
  BY <1>1, <1>5, <1>6 DEF Whole, NeverTrips, Activated
<1>16. QED
  BY <1>9, <1>14, <1>15 DEF Whole

(* A filled slot that is linked after o[a] becomes a note of the list.      *)
Fits(t, new, n, o, a) ==
    /\ t[new].note # NONE /\ t[new].next = o[a + 1]
    /\ a = 0 \/ t[o[a]].when <= t[new].when
    /\ a = n \/ t[o[a + 1]].when >= t[new].when

Linked(u, t, s, new) == u = [t EXCEPT ![s].next = new]

LEMMA OrderInsert ==
  ASSUME NEW t \in Table, NEW new \in Slot, new >= FirstDynamic, NEW i \in Timbre, NEW n \in Nat, NEW o,
         Order(t, new, i, n, o), NEW a \in 0 .. n, Fits(t, new, n, o, a),
         NEW u, Linked(u, t, o[a], new)
  PROVE  \E q : /\ Order(u, new + 1, i, n + 1, q)
                /\ NotesOn(u, n + 1, q) = NotesOn(t, n, o) \cup {t[new].note}
                /\ Span(n + 1, q) = Span(n, o) \cup {new}
<1> DEFINE m == n + 1
           q == [k \in 0 .. m + 1 |-> IF k <= a THEN o[k] ELSE IF k = a + 1 THEN new ELSE o[k - 1]]
<1>1. /\ \A k \in 0 .. n + 1 : o[k] \in Slot
      /\ o[0] = HeadOf(i) /\ o[n + 1] = TailOf(i) /\ new \in Nat
      /\ \A k \in 1 .. n : o[k] >= FirstDynamic /\ o[k] < new /\ t[o[k]].note # NONE
  BY SlotsAre DEF Order
<1>2. \A k \in 0 .. n + 1 : o[k] # new
  <2>1. HeadOf(i) # new /\ TailOf(i) # new
    BY <1>1, SlotsAre
  <2>2. \A k \in 0 .. n + 1 : k = 0 \/ k = n + 1 \/ k \in 1 .. n
    OBVIOUS
  <2>3. \A s \in Slot : s < new => s # new
    BY <1>1, SlotsAre
  <2>4. QED
    BY <1>1, <2>1, <2>2, <2>3
<1>3. m \in Nat /\ m = n + 1 /\ a <= n /\ a \in Nat
  OBVIOUS
<1>4. q \in [0 .. m + 1 -> Slot]
  <2>1. \A k \in 0 .. m + 1 : k <= a => k \in 0 .. n + 1
    BY <1>3
  <2>2. \A k \in 0 .. m + 1 : ~(k <= a) /\ k # a + 1 => k - 1 \in 0 .. n + 1
    BY <1>3
  <2>3. QED
    BY <1>1, <2>1, <2>2
<1>5. /\ \A k \in 0 .. a : q[k] = o[k]
      /\ q[a + 1] = new
      /\ \A k \in a + 2 .. m + 1 : q[k] = o[k - 1]
  BY <1>3
<1>6. /\ q[0] = HeadOf(i) /\ q[m + 1] = TailOf(i)
  <2>1. 0 \in 0 .. a /\ m + 1 \in a + 2 .. m + 1 /\ (m + 1) - 1 = n + 1
    BY <1>3
  <2>2. QED
    BY <1>1, <1>5, <2>1
<1> HIDE DEF q, m
<1>7. \A s \in Slot : /\ u[s].note = t[s].note /\ u[s].when = t[s].when
                      /\ u[s].next = IF s = o[a] THEN new ELSE t[s].next
  <2>1. a \in 0 .. n + 1
    OBVIOUS
  <2>2. o[a] \in Slot
    BY <1>1, <2>1
  <2>3. QED
    BY <2>2, TableIs DEF Table, Linked
<1>8. \A k \in 0 .. n : t[o[k]].next = o[k + 1]
  BY DEF Order
<1>9. \A k \in 0 .. n : k # a => o[k] # o[a]
  <2>1. ASSUME NEW k \in 0 .. n, o[k] = o[a] PROVE k = a
    <3>1. k \in 0 .. n + 1 /\ a \in 0 .. n + 1
      OBVIOUS
    <3>2. QED
      BY <2>1, <3>1, OncePerSlot
  <2>2. QED
    BY <2>1
<1>10. \A k \in 0 .. m : \/ k < a /\ k \in 0 .. n
                         \/ k = a
                         \/ k = a + 1
                         \/ k > a + 1 /\ k - 1 \in 0 .. n /\ k \in a + 2 .. m + 1 /\ k - 1 # a
  BY <1>3
<1>11. ASSUME NEW k \in 0 .. m PROVE u[q[k]].next = q[k + 1]
  <2>1. CASE k < a /\ k \in 0 .. n
    <3>1. k \in 0 .. a /\ k + 1 \in 0 .. a /\ k # a /\ k \in 0 .. n + 1
      BY <1>3, <2>1
    <3>2. q[k] = o[k] /\ q[k + 1] = o[k + 1] /\ o[k] # o[a] /\ o[k] \in Slot
      BY <1>1, <1>5, <1>9, <2>1, <3>1
    <3>3. t[o[k]].next = o[k + 1]
      BY <1>8, <2>1
    <3>4. QED
      BY <1>7, <3>2, <3>3
  <2>2. CASE k = a
    <3>1. k \in 0 .. a /\ k \in 0 .. n + 1
      BY <1>3, <2>2
    <3>2. q[k] = o[a] /\ o[a] \in Slot
      BY <1>1, <1>5, <2>2, <3>1
    <3>3. QED
      BY <1>5, <1>7, <2>2, <3>2
  <2>3. CASE k = a + 1
    <3>1. a + 2 \in a + 2 .. m + 1 /\ (a + 2) - 1 = a + 1 /\ k + 1 = a + 2 /\ a \in 0 .. n + 1
      BY <1>3, <2>3
    <3>2. q[a + 2] = o[a + 1]
      BY <1>5, <3>1
    <3>3. new # o[a]
      BY <1>2, <3>1
    <3>4. q[k] = new /\ q[k + 1] = o[a + 1] /\ t[new].next = o[a + 1]
      BY <1>5, <2>3, <3>1, <3>2 DEF Fits
    <3>5. QED
      BY <1>7, <3>3, <3>4
  <2>4. CASE k > a + 1 /\ k - 1 \in 0 .. n /\ k \in a + 2 .. m + 1 /\ k - 1 # a
    <3> DEFINE x == k - 1
    <3>1. x \in 0 .. n /\ x # a /\ k + 1 \in a + 2 .. m + 1 /\ (k + 1) - 1 = x + 1 /\ x \in 0 .. n + 1
      BY <1>3, <2>4
    <3>2. q[k] = o[x]
      BY <1>5, <2>4
    <3>3. q[k + 1] = o[(k + 1) - 1]
      BY <1>5, <3>1
    <3> HIDE DEF x
    <3>4. o[x] # o[a] /\ o[x] \in Slot /\ t[o[x]].next = o[x + 1]
      BY <1>1, <1>8, <1>9, <3>1
    <3>5. QED
      BY <1>7, <3>1, <3>2, <3>3, <3>4
  <2>5. QED
    BY <1>10, <2>1, <2>2, <2>3, <2>4
<1>12. \A k \in 1 .. m : \/ k \in 1 .. a /\ k \in 1 .. n /\ q[k] = o[k]
                         \/ k = a + 1 /\ q[k] = new
                         \/ k \in a + 2 .. m /\ k - 1 \in 1 .. n /\ q[k] = o[k - 1]
  <2> SUFFICES ASSUME NEW k \in 1 .. m
               PROVE  \/ k \in 1 .. a /\ k \in 1 .. n /\ q[k] = o[k]
                      \/ k = a + 1 /\ q[k] = new
                      \/ k \in a + 2 .. m /\ k - 1 \in 1 .. n /\ q[k] = o[k - 1]
    OBVIOUS
  <2>1. CASE k <= a
    <3>1. k \in 1 .. a /\ k \in 1 .. n /\ k \in 0 .. a
      BY <1>3, <2>1
    <3>2. QED
      BY <1>5, <3>1
  <2>2. CASE k = a + 1
    BY <1>5, <2>2
  <2>3. CASE k > a + 1
    <3>1. k \in a + 2 .. m /\ k - 1 \in 1 .. n /\ k \in a + 2 .. m + 1
      BY <1>3, <2>3
    <3>2. QED
      BY <1>5, <3>1
  <2>4. QED
    BY <1>3, <2>1, <2>2, <2>3
<1>13. ASSUME NEW k \in 1 .. m PROVE q[k] >= FirstDynamic /\ q[k] < new + 1 /\ u[q[k]].note # NONE
  <2>1. \A j \in 1 .. n : o[j] >= FirstDynamic /\ o[j] < new + 1 /\ u[o[j]].note # NONE
    <3> SUFFICES ASSUME NEW j \in 1 .. n
                 PROVE  o[j] >= FirstDynamic /\ o[j] < new + 1 /\ u[o[j]].note # NONE
      OBVIOUS
    <3>1. j \in 0 .. n + 1
      OBVIOUS
    <3>2. o[j] \in Slot /\ o[j] \in Nat
      BY <1>1, <3>1, SlotsAre
    <3>3. o[j] < new + 1
      BY <1>1, <3>2
    <3>4. QED
      BY <1>1, <1>7, <3>2, <3>3
  <2>2. new >= FirstDynamic /\ new < new + 1 /\ u[new].note # NONE
    BY <1>1, <1>7 DEF Fits
  <2>3. QED
    BY <1>12, <2>1, <2>2
<1>14. ASSUME NEW k \in 1 .. m - 1 PROVE u[q[k]].when <= u[q[k + 1]].when
  <2>1. \A j \in 1 .. n - 1 : t[o[j]].when <= t[o[j + 1]].when
    BY DEF Order
  <2>2. CASE k + 1 <= a
    <3>1. k \in 0 .. a /\ k + 1 \in 0 .. a /\ k \in 1 .. n - 1 /\ k \in 0 .. n + 1 /\ k + 1 \in 0 .. n + 1
      BY <1>3, <2>2
    <3>2. q[k] = o[k] /\ q[k + 1] = o[k + 1] /\ o[k] \in Slot /\ o[k + 1] \in Slot
      BY <1>1, <1>5, <3>1
    <3>3. t[o[k]].when <= t[o[k + 1]].when
      BY <2>1, <3>1
    <3>4. QED
      BY <1>7, <3>2, <3>3
  <2>3. CASE k = a
    <3>1. a # 0 /\ k \in 0 .. a /\ a \in 0 .. n + 1
      BY <1>3, <2>3
    <3>2. q[k] = o[a] /\ q[k + 1] = new /\ o[a] \in Slot
      BY <1>1, <1>5, <2>3, <3>1
    <3>3. QED
      BY <1>7, <3>1, <3>2 DEF Fits
  <2>4. CASE k = a + 1
    <3>1. a # n /\ k + 1 \in a + 2 .. m + 1 /\ (k + 1) - 1 = a + 1 /\ a + 1 \in 0 .. n + 1
      BY <1>3, <2>4
    <3>2. q[k + 1] = o[(k + 1) - 1]
      BY <1>5, <3>1
    <3>3. q[k] = new /\ q[k + 1] = o[a + 1] /\ o[a + 1] \in Slot
      BY <1>1, <1>5, <2>4, <3>1, <3>2
    <3>4. t[o[a + 1]].when >= t[new].when
      BY <3>1 DEF Fits
    <3>5. t[o[a + 1]].when \in Int /\ t[new].when \in Int
      <4>1. \A x \in Time : x \in Int
        BY TimesAre DEF Time
      <4>2. QED
        BY <3>3, <4>1, TableIs
    <3>6. t[new].when <= t[o[a + 1]].when
      BY <3>4, <3>5
    <3>7. QED
      BY <1>7, <3>3, <3>6
  <2>5. CASE k > a + 1
    <3> DEFINE x == k - 1
    <3>1. x \in 1 .. n - 1 /\ k \in a + 2 .. m + 1 /\ k + 1 \in a + 2 .. m + 1 /\ (k + 1) - 1 = x + 1
          /\ x \in 0 .. n + 1 /\ x + 1 \in 0 .. n + 1
      BY <1>3, <2>5
    <3>2. q[k] = o[x]
      BY <1>5, <3>1
    <3>3. q[k + 1] = o[(k + 1) - 1]
      BY <1>5, <3>1
    <3> HIDE DEF x
    <3>4. t[o[x]].when <= t[o[x + 1]].when /\ o[x] \in Slot /\ o[x + 1] \in Slot
      BY <1>1, <2>1, <3>1
    <3>5. QED
      BY <1>7, <3>1, <3>2, <3>3, <3>4
  <2>6. k + 1 <= a \/ k = a \/ k = a + 1 \/ k > a + 1
    BY <1>3
  <2>7. QED
    BY <2>2, <2>3, <2>4, <2>5, <2>6
<1>15. Order(u, new + 1, i, m, q)
  BY <1>4, <1>6, <1>11, <1>13, <1>14 DEF Order
<1>16. \A k \in 1 .. n : \E j \in 1 .. m : q[j] = o[k]
  <2> SUFFICES ASSUME NEW k \in 1 .. n PROVE \E j \in 1 .. m : q[j] = o[k]
    OBVIOUS
  <2>1. CASE k <= a
    <3>1. k \in 0 .. a /\ k \in 1 .. m
      BY <1>3, <2>1
    <3>2. QED
      BY <1>5, <3>1
  <2>2. CASE k > a
    <3>1. k + 1 \in a + 2 .. m + 1 /\ k + 1 \in 1 .. m /\ (k + 1) - 1 = k
      BY <1>3, <2>2
    <3>2. q[k + 1] = o[(k + 1) - 1]
      BY <1>5, <3>1
    <3>3. QED
      BY <3>1, <3>2
  <2>3. QED
    BY <1>3, <2>1, <2>2
<1>17. a + 1 \in 1 .. m /\ q[a + 1] = new
  BY <1>3, <1>5
<1>18. {q[k] : k \in 1 .. m} = {o[k] : k \in 1 .. n} \cup {new}
  <2>1. \A k \in 1 .. m : q[k] \in {o[j] : j \in 1 .. n} \cup {new}
    BY <1>12
  <2>2. \A k \in 1 .. n : o[k] \in {q[j] : j \in 1 .. m}
    BY <1>16
  <2>3. new \in {q[j] : j \in 1 .. m}
    BY <1>17
  <2>4. QED
    BY <2>1, <2>2, <2>3
<1>19. NotesOn(u, m, q) = NotesOn(t, n, o) \cup {t[new].note}
  <2>1. \A s \in {q[k] : k \in 1 .. m} : u[s].note \in NotesOn(t, n, o) \cup {t[new].note}
    <3>1. \A k \in 1 .. n : k \in 0 .. n + 1
      OBVIOUS
    <3>2. \A k \in 1 .. n : u[o[k]].note = t[o[k]].note
      BY <1>1, <1>7, <3>1
    <3>3. QED
      BY <1>7, <1>18, <3>2 DEF NotesOn
  <2>2. \A k \in 1 .. n : t[o[k]].note \in {u[s].note : s \in {q[k_1] : k_1 \in 1 .. m}}
    <3>1. \A k \in 1 .. n : k \in 0 .. n + 1
      OBVIOUS
    <3>2. \A k \in 1 .. n : u[o[k]].note = t[o[k]].note
      BY <1>1, <1>7, <3>1
    <3>3. QED
      BY <1>18, <3>2
  <2>3. t[new].note \in {u[s].note : s \in {q[k] : k \in 1 .. m}}
    BY <1>7, <1>18
  <2>4. {u[s].note : s \in {q[k] : k \in 1 .. m}} = NotesOn(u, m, q)
    BY DEF NotesOn
  <2>5. QED
    BY <2>1, <2>2, <2>3, <2>4 DEF NotesOn
<1>20. Span(m, q) = Span(n, o) \cup {new}
  <2>1. Span(m, q) = {q[k] : k \in 1 .. m} \cup {q[0], q[m + 1]}
    <3>1. \A k \in 0 .. m + 1 : k = 0 \/ k = m + 1 \/ k \in 1 .. m
      BY <1>3
    <3>2. 0 \in 0 .. m + 1 /\ m + 1 \in 0 .. m + 1 /\ \A k \in 1 .. m : k \in 0 .. m + 1
      BY <1>3
    <3>3. QED
      BY <3>1, <3>2 DEF Span
  <2>2. Span(n, o) = {o[k] : k \in 1 .. n} \cup {o[0], o[n + 1]}
    <3>1. \A k \in 0 .. n + 1 : k = 0 \/ k = n + 1 \/ k \in 1 .. n
      OBVIOUS
    <3>2. 0 \in 0 .. n + 1 /\ n + 1 \in 0 .. n + 1 /\ \A k \in 1 .. n : k \in 0 .. n + 1
      OBVIOUS
    <3>3. QED
      BY <3>1, <3>2 DEF Span
  <2>3. QED
    BY <1>1, <1>6, <1>18, <2>1, <2>2
<1>21. QED
  BY <1>15, <1>19, <1>20 DEF m

LEMMA PublishKeeps ==
  ASSUME Whole, TypeInv', Publish
  PROVE  Whole'
<1> DEFINE h == main.i
           p == main.pred
           new == lastFreeAction_
           entry == [when |-> main.when, note |-> notes, next |-> actions[p].next]
<1>1. /\ main.pc = "publish" /\ h \in Timbre /\ p \in Slot
      /\ main = [pc |-> main.pc, i |-> main.i, when |-> main.when, pred |-> main.pred]
  BY DEF Publish, Whole, TypeInv, Control
<1>2. /\ actions' = [actions EXCEPT ![new] = entry] /\ lastFreeAction_' = new + 1
      /\ main'.pc = "link" /\ main'.i = h /\ main'.pred = p /\ main'.when = main.when
      /\ recorded' = recorded /\ cursor' = cursor /\ notes' = notes /\ instrumentTimerMask_' = instrumentTimerMask_
  BY <1>1 DEF Publish, others
<1>3. /\ new \in Nat /\ new >= FirstDynamic /\ new \in Slot /\ Live = new
  <2>1. new \in FirstDynamic .. SEQ_ACTION_SIZE /\ new < SEQ_ACTION_SIZE
    BY <1>1 DEF Whole, TypeInv, TypeOK, Control
  <2>2. Live = new
    BY <1>1 DEF Live
  <2>3. QED
    BY <2>1, <2>2, SlotsAre DEF Slot
<1>4. Live' = Live /\ ~Rebuilding /\ ~Rebuilding' /\ main'.pc # "load"
  BY <1>1, <1>2, <1>3 DEF Live, Rebuilding
<1>5. actions \in Table
  BY DEF Whole, TypeInv, TypeOK, Table
<1>6. (\A s \in Slot : s # new => actions'[s] = actions[s]) /\ actions'[new] = entry
  BY <1>2, <1>3, <1>5 DEF Table
<1> HIDE DEF h, p, entry
<1>7. ASSUME NEW i \in Timbre PROVE ListSound(i)'
  <2>1. ListSound(i)
    BY <1>4 DEF Whole, Settled
  <2>2. HeadOf(i) \in Slot /\ TailOf(i) \in Slot /\ HeadOf(i) # new /\ TailOf(i) # new
    BY <1>3, SlotsAre
  <2>3. Refs(i)' = Refs(i)
    BY <1>1, <1>2 DEF Refs, CursorRefs, h, p
  <2>4. \A s \in Slot : s = HeadOf(i) \/ (s >= FirstDynamic /\ s < Live) => actions'[s] = actions[s]
    <3>1. \A s \in Slot : s < Live => s # new
      BY <1>3, SlotsAre
    <3>2. QED
      BY <1>6, <2>2, <3>1
  <2>5. Live \in Nat
    BY <1>3
  <2>6. Holds(actions, Live, i, recorded[i], Refs(i))
    BY <2>1 DEF ListSound
  <2>7. Holds(actions', Live, i, recorded[i], Refs(i))
    BY <2>4, <2>5, <2>6, HoldsSame
  <2>8. Holds(actions', Live', i, recorded'[i], Refs(i)')
    BY <1>2, <1>4, <2>3, <2>7
  <2>9. Sentry(actions, i)' /\ TailOnTime(i)'
    BY <1>1, <1>2, <1>6, <2>1, <2>2 DEF ListSound, Sentry, TailOnTime
  <2>10. QED
    BY <2>8, <2>9 DEF ListSound
<1>8. p # new /\ (actions[p].next = TailOf(h) \/ actions[p].next # new) /\ actions[p].next \in Slot
  <2>1. ListSound(h)
    BY <1>1, <1>4 DEF Whole, Settled
  <2>2. PICK n, o : n \in Nat /\ Order(actions, Live, h, n, o) /\ Refs(h) \subseteq Span(n, o)
    BY <2>1 DEF ListSound, Holds
  <2> n \in Nat
    BY <2>2
  <2>3. p \in Refs(h)
    BY <1>1 DEF Refs, h, p
  <2>4. PICK a \in 0 .. n + 1 : p = o[a]
    BY <2>2, <2>3 DEF Span
  <2>5. \A k \in 0 .. n + 1 : o[k] # new
    <3>1. \A k \in 0 .. n + 1 : k = 0 \/ k = n + 1 \/ k \in 1 .. n
      OBVIOUS
    <3>2. o[0] = HeadOf(h) /\ o[n + 1] = TailOf(h) /\ \A k \in 1 .. n : o[k] < new /\ o[k] \in Slot
      BY <1>3, <2>2 DEF Order
    <3>3. HeadOf(h) # new /\ TailOf(h) # new
      BY <1>1, <1>3, SlotsAre
    <3>4. \A s \in Slot : s < new => s # new
      BY <1>3, SlotsAre
    <3>5. QED
      BY <3>1, <3>2, <3>3, <3>4
  <2>6. p # TailOf(h)
    BY <1>1, <1>4 DEF Whole, Settled, Placed, h, p
  <2>7. a # n + 1
    BY <2>2, <2>4, <2>6 DEF Order
  <2>8. a \in 0 .. n /\ a + 1 \in 0 .. n + 1
    BY <2>7
  <2>9. actions[p].next = o[a + 1]
    BY <2>2, <2>4, <2>8 DEF Order
  <2>10. actions[p].next \in Slot
    BY <1>1, <1>5, TableIs DEF p
  <2>11. QED
    BY <2>4, <2>5, <2>8, <2>9, <2>10
<1>9. actions'[p] = actions[p]
  BY <1>1, <1>6, <1>8 DEF p
<1>10. Placed'
  <2>1. actions[p].next # TailOf(h) => actions'[actions[p].next] = actions[actions[p].next]
    BY <1>6, <1>8
  <2>2. Placed
    BY <1>1, <1>4 DEF Whole, Settled
  <2>3. /\ p # TailOf(h) /\ (p = HeadOf(h) \/ actions[p].when <= main.when)
        /\ actions[p].next = TailOf(h) \/ actions[actions[p].next].when >= main.when
    BY <2>2 DEF Placed, p, h
  <2>4. QED
    BY <1>2, <1>9, <2>1, <2>3 DEF Placed
<1>11. Filled'
  <2>1. (new + 1) - 1 = new
    BY <1>3
  <2>2. QED
    BY <1>2, <1>6, <1>9, <2>1 DEF Filled, entry
<1>12. Settled'
  BY <1>7, <1>10, <1>11 DEF Settled
<1>13. NeverTrips' /\ Activated'
  BY <1>1, <1>2 DEF Whole, NeverTrips, Activated
<1>14. QED
  BY <1>2, <1>4, <1>12, <1>13 DEF Whole, Rebuilding, Unlinking, Remapping, Translating, Compacting

LEMMA LinkKeeps ==
  ASSUME Whole, TypeInv', LinkNote
  PROVE  Whole'
<1>0. PICK h, p, new : h = main.i /\ p = main.pred /\ new = Live
  OBVIOUS
<1>1. /\ main.pc = "link" /\ h \in Timbre /\ p \in Slot /\ notes \in Note
      /\ main = [pc |-> main.pc, i |-> main.i, when |-> main.when, pred |-> main.pred]
      /\ lastFreeAction_ > FirstDynamic
  BY <1>0 DEF LinkNote, Whole, TypeInv, Control
<1>2. Live = lastFreeAction_ - 1
  BY <1>1 DEF Live
<1>3. /\ actions' = [actions EXCEPT ![p].next = new] /\ lastFreeAction_' = lastFreeAction_
      /\ main'.pc = "cursor" /\ main'.i = h
      /\ recorded' = [recorded EXCEPT ![h] = @ \cup {notes}]
      /\ cursor' = cursor /\ instrumentTimerMask_' = instrumentTimerMask_
  BY <1>0, <1>1, <1>2 DEF LinkNote, others
<1>4. /\ new \in Nat /\ new >= FirstDynamic /\ new \in Slot /\ new + 1 = lastFreeAction_
  <2>1. lastFreeAction_ \in FirstDynamic .. SEQ_ACTION_SIZE
    BY <1>1 DEF Whole, TypeInv, TypeOK
  <2>2. QED
    BY <1>0, <1>1, <1>2, <2>1, SlotsAre DEF Slot
<1>5. Live' = new + 1 /\ ~Rebuilding /\ ~Rebuilding' /\ main'.pc # "load"
  BY <1>0, <1>1, <1>3, <1>4 DEF Live, Rebuilding
<1>6. actions \in Table
  BY DEF Whole, TypeInv, TypeOK, Table
<1>7. /\ \A s \in Slot : s # p => actions'[s] = actions[s]
      /\ \A s \in Slot : actions'[s].when = actions[s].when /\ actions'[s].note = actions[s].note
  BY <1>1, <1>3, <1>6, TableIs DEF Table
<1>8. /\ Placed /\ actions[new] = [when |-> main.when, note |-> notes, next |-> actions[p].next]
  BY <1>0, <1>1, <1>2, <1>5 DEF Whole, Settled, Filled
<1>9. ListSound(h)
  BY <1>1, <1>5 DEF Whole, Settled
<1>10. p \in Refs(h)
  BY <1>0, <1>1 DEF Refs
<1>11. new \in Slot /\ lastFreeAction_ - 1 = new
  BY <1>0, <1>2, <1>4
<1>12. Linked(actions', actions, p, new)
  BY <1>3 DEF Linked
<1>13. /\ p # TailOf(h) /\ (p = HeadOf(h) \/ actions[p].when <= main.when)
       /\ actions[p].next = TailOf(h) \/ actions[actions[p].next].when >= main.when
  BY <1>0, <1>8 DEF Placed
<1>14. PICK n, o : /\ n \in Nat /\ Order(actions, new, h, n, o)
                   /\ NotesOn(actions, n, o) = recorded[h]
                   /\ Refs(h) \subseteq Span(n, o)
  BY <1>0, <1>9 DEF ListSound, Holds
<1> n \in Nat
  BY <1>14
<1>15. PICK a \in 0 .. n + 1 : p = o[a]
  BY <1>10, <1>14 DEF Span
<1>16. o[0] = HeadOf(h) /\ o[n + 1] = TailOf(h) /\ \A k \in 0 .. n : actions[o[k]].next = o[k + 1]
  BY <1>14 DEF Order
<1>17. a \in 0 .. n
  <2>1. a # n + 1
    BY <1>13, <1>15, <1>16
  <2>2. QED
    BY <2>1
<1>18. actions[p].next = o[a + 1]
  BY <1>15, <1>16, <1>17
<1>19. a = 0 \/ p # HeadOf(h)
  <2>1. \A k \in 1 .. n + 1 : o[k] # HeadOf(h)
    <3>1. Order(actions, new, h, n, o) /\ h \in Timbre
      BY <1>1, <1>14
    <3>2. QED
      BY <3>1, OrderIs
  <2>2. a # 0 => a \in 1 .. n + 1
    OBVIOUS
  <2>3. QED
    BY <1>15, <2>1, <2>2
<1>20. a = n \/ o[a + 1] # TailOf(h)
  <2>1. \A k \in 0 .. n : o[k] # TailOf(h)
    <3>1. Order(actions, new, h, n, o) /\ h \in Timbre
      BY <1>1, <1>14
    <3>2. QED
      BY <3>1, OrderIs
  <2>2. a # n => a + 1 \in 0 .. n
    BY <1>17
  <2>3. QED
    BY <2>1, <2>2
<1>21. Fits(actions, new, n, o, a)
  <2>1. actions[new].when = main.when /\ actions[new].note = notes /\ actions[new].next = o[a + 1]
    BY <1>8, <1>18
  <2>2. notes # NONE
    BY <1>1, TimesAre DEF Note, NONE
  <2>3. a = 0 \/ actions[o[a]].when <= actions[new].when
    BY <1>13, <1>15, <1>19, <2>1
  <2>4. a = n \/ actions[o[a + 1]].when >= actions[new].when
    BY <1>13, <1>18, <1>20, <2>1
  <2>5. QED
    BY <2>1, <2>2, <2>3, <2>4 DEF Fits
<1>22. PICK q : /\ Order(actions', new + 1, h, n + 1, q)
                /\ NotesOn(actions', n + 1, q) = NotesOn(actions, n, o) \cup {actions[new].note}
                /\ Span(n + 1, q) = Span(n, o) \cup {new}
  <2>1. Order(actions, new, h, n, o) /\ h \in Timbre /\ Linked(actions', actions, o[a], new)
        /\ a \in 0 .. n /\ new \in Slot /\ new >= FirstDynamic
    BY <1>1, <1>4, <1>12, <1>14, <1>15, <1>17
  <2>2. PICK t, u : t = actions /\ u = actions'
    OBVIOUS
  <2>3. PICK q : /\ Order(u, new + 1, h, n + 1, q)
                 /\ NotesOn(u, n + 1, q) = NotesOn(t, n, o) \cup {t[new].note}
                 /\ Span(n + 1, q) = Span(n, o) \cup {new}
    <3>1. /\ Order(t, new, h, n, o) /\ Linked(u, t, o[a], new) /\ t \in Table
          /\ Fits(t, new, n, o, a)
      BY <1>6, <1>21, <2>1, <2>2
    <3>2. QED
      BY <2>1, <3>1, OrderInsert
  <2>4. QED
    BY <2>2, <2>3
<1>23. Holds(actions', Live', h, recorded'[h], Refs(h)')
  <2>1. recorded'[h] = recorded[h] \cup {notes}
    BY <1>1, <1>3 DEF Whole, TypeInv, TypeOK
  <2>2. Refs(h)' \subseteq Refs(h) \cup {new}
    <3>1. lastFreeAction_' - 1 = new
      BY <1>3, <1>11
    <3>2. Refs(h)' = CursorRefs(h)' \cup {lastFreeAction_' - 1}
      BY <1>3 DEF Refs
    <3>3. CursorRefs(h)' = CursorRefs(h) /\ CursorRefs(h) \subseteq Refs(h)
      BY <1>3 DEF Refs, CursorRefs
    <3>4. QED
      BY <3>1, <3>2, <3>3
  <2>3. NotesOn(actions', n + 1, q) = recorded'[h]
    <3>1. NotesOn(actions', n + 1, q) = NotesOn(actions, n, o) \cup {actions[new].note}
      BY <1>22
    <3>2. NotesOn(actions, n, o) = recorded[h]
      BY <1>14
    <3>3. actions[new].note = notes
      BY <1>8
    <3>4. QED
      BY <2>1, <3>1, <3>2, <3>3
  <2>4. Refs(h)' \subseteq Span(n + 1, q) /\ n + 1 \in Nat
    BY <1>14, <1>22, <2>2
  <2>5. QED
    BY <1>5, <1>22, <2>3, <2>4 DEF Holds
<1>24. ASSUME NEW i \in Timbre, i # h PROVE Holds(actions', Live', i, recorded'[i], Refs(i)')
  <2>1. ListSound(i)
    BY <1>5 DEF Whole, Settled
  <2>2. PICK m, r : /\ m \in Nat /\ Order(actions, new, i, m, r)
                    /\ NotesOn(actions, m, r) = recorded[i]
                    /\ Refs(i) \subseteq Span(m, r)
    BY <1>0, <2>1 DEF ListSound, Holds
  <2> m \in Nat
    BY <2>2
  <2>3. ASSUME NEW k \in 0 .. m PROVE r[k] # p /\ r[k] \in Slot
    <3>1. k \in 0 .. m + 1 /\ a \in 0 .. n + 1
      OBVIOUS
    <3>2. r[k] \in Slot
      BY <2>2, <3>1 DEF Order
    <3>3. Order(actions, new, i, m, r) /\ Order(actions, new, h, n, o) /\ h \in Timbre
      BY <1>1, <1>14, <2>2
    <3>4. r[k] # o[a]
      BY <1>24, <3>1, <3>3, SameSlot
    <3>5. QED
      BY <1>15, <3>2, <3>4
  <2>4. \A k \in 0 .. m : actions'[r[k]] = actions[r[k]]
    BY <1>7, <2>3
  <2>5. \A k \in 1 .. m : r[k] < new + 1
    <3>1. \A k \in 1 .. m : r[k] < new /\ r[k] \in Slot
      BY <2>2 DEF Order
    <3>2. \A s \in Slot : s < new => s < new + 1
      BY <1>4, SlotsAre
    <3>3. QED
      BY <3>1, <3>2
  <2>6. /\ Order(actions', new + 1, i, m, r)
        /\ NotesOn(actions', m, r) = NotesOn(actions, m, r)
    <3>1. Order(actions, new, i, m, r)
      BY <2>2
    <3>2. QED
      BY <2>4, <2>5, <3>1, OrderSame
  <2>7. recorded'[i] = recorded[i]
    BY <1>3, <1>24 DEF Whole, TypeInv, TypeOK
  <2>8. Refs(i)' \subseteq Refs(i)
    BY <1>0, <1>3, <1>24 DEF Refs, CursorRefs
  <2>9. Refs(i)' \subseteq Span(m, r)
    BY <2>2, <2>8
  <2>10. QED
    BY <1>5, <2>2, <2>6, <2>7, <2>9 DEF Holds
<1>25. ASSUME NEW i \in Timbre PROVE ListSound(i)'
  <2>1. ListSound(i)
    BY <1>5 DEF Whole, Settled
  <2>2. Holds(actions', Live', i, recorded'[i], Refs(i)')
    <3>1. CASE i = h
      BY <1>23, <3>1
    <3>2. CASE i # h
      BY <1>24, <3>2
    <3>3. QED
      BY <3>1, <3>2
  <2>3. TailOf(i) # p
    <3>1. p # TailOf(h) /\ (p = o[0] \/ p >= FirstDynamic)
      <4>1. a = 0 \/ a \in 1 .. n
        BY <1>17
      <4>2. \A k \in 1 .. n : o[k] >= FirstDynamic
        BY <1>14 DEF Order
      <4>3. QED
        BY <1>13, <1>15, <4>1, <4>2
    <3>2. HeadOf(h) # TailOf(i) /\ ~(TailOf(i) >= FirstDynamic)
      <4>1. i \in Nat /\ h \in Nat
        BY <1>1, SizesAssumption DEF Timbre
      <4>2. QED
        BY <4>1, SlotsAre DEF HeadOf, TailOf
    <3>3. QED
      BY <1>16, <3>1, <3>2
  <2>4. HeadOf(i) \in Slot /\ TailOf(i) \in Slot
    BY SlotsAre
  <2>5. Sentry(actions, i)' /\ TailOnTime(i)'
    BY <1>0, <1>1, <1>3, <1>7, <2>1, <2>3, <2>4 DEF ListSound, Sentry, TailOnTime
  <2>6. QED
    BY <2>2, <2>5 DEF ListSound
<1>26. Settled'
  BY <1>3, <1>25 DEF Settled
<1>27. NeverTrips' /\ Activated'
  <2>1. \A i \in Timbre : i # h => recorded'[i] = recorded[i]
    BY <1>3 DEF Whole, TypeInv, TypeOK
  <2>2. QED
    BY <1>0, <1>1, <1>3, <2>1 DEF Whole, NeverTrips, Activated
<1>28. QED
  BY <1>3, <1>5, <1>26, <1>27 DEF Whole, Rebuilding, Unlinking, Remapping, Translating, Compacting

LEMMA ActivateKeeps ==
  ASSUME Whole, TypeInv', SetPrevious \/ SetSeqActivated
  PROVE  Whole'
<1>1. main.i \in Timbre /\ main = [pc |-> main.pc, i |-> main.i, when |-> main.when, pred |-> main.pred]
  BY DEF SetPrevious, SetSeqActivated, Whole, TypeInv, Control
<1>2. /\ actions' = actions /\ lastFreeAction_' = lastFreeAction_ /\ recorded' = recorded
      /\ instrumentTimerMask_' = instrumentTimerMask_
  BY DEF SetPrevious, SetSeqActivated, lists, others
<1>3. CASE SetPrevious
  <2>1. /\ main.pc = "cursor" /\ main'.pc = "activate" /\ main'.i = main.i
        /\ cursor' = [cursor EXCEPT ![main.i].prev = lastFreeAction_ - 1]
    BY <1>1, <1>3 DEF SetPrevious
  <2>2. ~Rebuilding /\ ~Rebuilding' /\ Live' = Live /\ main'.pc # "load"
    BY <1>2, <2>1 DEF Rebuilding, Live
  <2>3. ASSUME NEW i \in Timbre
        PROVE  /\ cursor'[i].next = cursor[i].next
               /\ cursor'[i].prev = IF i = main.i THEN lastFreeAction_ - 1 ELSE cursor[i].prev
               /\ cursor'[i].on = cursor[i].on /\ cursor'[i].poisoned = cursor[i].poisoned
    BY <1>1, <2>1 DEF Whole, TypeInv, TypeOK, Walker
  <2>4. ASSUME NEW i \in Timbre
        PROVE  Holds(actions, Live, i, recorded[i], Refs(i)') /\ TailOnTime(i)'
    <3>1. ListSound(i)
      BY <2>2 DEF Whole, Settled
    <3>2. Refs(i)' \subseteq Refs(i)
      BY <2>1, <2>3 DEF Refs, CursorRefs
    <3>3. Holds(actions, Live, i, recorded[i], Refs(i))
      BY <3>1 DEF ListSound
    <3>4. TailOnTime(i)'
      BY <1>2, <2>1, <3>1 DEF ListSound, TailOnTime
    <3>5. QED
      BY <3>2, <3>3, <3>4, HoldsFewer
  <2>5. Settled' /\ Unlinking' /\ Remapping' /\ Translating' /\ Compacting'
    BY <1>2, <2>1, <2>2, <2>4, SettledFrame
  <2>6. NeverTrips' /\ Activated'
    BY <1>2, <2>1, <2>3 DEF Whole, NeverTrips, Activated
  <2>7. QED
    BY <2>2, <2>5, <2>6 DEF Whole
<1>4. CASE SetSeqActivated
  <2>1. /\ main.pc = "activate" /\ main'.pc = "idle"
        /\ cursor' = [cursor EXCEPT ![main.i].on = TRUE]
    BY <1>4 DEF SetSeqActivated, idle
  <2>2. ASSUME NEW i \in Timbre
        PROVE  /\ cursor'[i].next = cursor[i].next /\ cursor'[i].prev = cursor[i].prev
               /\ cursor'[i].on = (cursor[i].on \/ i = main.i) /\ cursor'[i].poisoned = cursor[i].poisoned
    BY <1>1, <2>1 DEF Whole, TypeInv, TypeOK, Walker
  <2>3. NeverTrips' /\ Activated' /\ \A i \in Timbre : CursorRefs(i)' \subseteq CursorRefs(i)
    BY <1>2, <2>1, <2>2 DEF Whole, NeverTrips, Activated, CursorRefs
  <2>4. main.pc \in Quiet /\ main'.pc \in Quiet
    BY <2>1 DEF Quiet
  <2>5. QED
    BY <1>2, <2>3, <2>4, QuietStill
<1>5. QED
  BY <1>3, <1>4

-----------------------------------------------------------------------------
(* How many slots in use there are below a slot, and so where a compaction   *)
(* puts it.                                                                  *)
InUse(t, k, s) == {x \in k .. s - 1 : t[x].note # NONE}

LEMMA InUseIs ==
  ASSUME NEW t, NEW k \in Nat, NEW to \in Nat, NEW s \in Nat, k <= s
  PROVE  /\ IsFiniteSet(InUse(t, k, s)) /\ Cardinality(InUse(t, k, s)) \in 0 .. s - k
         /\ Rank(t, k, to, s) = to + Cardinality(InUse(t, k, s))
         /\ Rank(t, k, to, s) \in to .. to + (s - k)
<1> DEFINE used == InUse(t, k, s)
<1>1. IsFiniteSet(k .. s - 1) /\ Cardinality(k .. s - 1) = s - k
  <2>1. IsFiniteSet(k .. s - 1) /\ Cardinality(k .. s - 1) = IF k > s - 1 THEN 0 ELSE s - 1 - k + 1
    BY FS_Interval
  <2>2. QED
    BY <2>1
<1>2. used \in SUBSET (k .. s - 1)
  BY DEF InUse
<1> HIDE DEF used
<1>3. IsFiniteSet(used) /\ Cardinality(used) <= s - k
  BY <1>1, <1>2, FS_Subset
<1>4. Cardinality(used) \in Nat
  BY <1>3, FS_CardinalityType
<1>5. Rank(t, k, to, s) = to + Cardinality(used)
  BY DEF Rank, InUse, used
<1>6. QED
  BY <1>3, <1>4, <1>5 DEF used

LEMMA RankStarts ==
  ASSUME NEW t, NEW k \in Nat, NEW to \in Nat
  PROVE  Rank(t, k, to, k) = to
<1>1. Rank(t, k, to, k) \in to .. to + (k - k)
  BY InUseIs
<1>2. QED
  BY <1>1

(* One slot more above. *)
LEMMA RankNext ==
  ASSUME NEW t, NEW k \in Nat, NEW to \in Nat, NEW s \in Nat, k <= s
  PROVE  Rank(t, k, to, s + 1) = IF t[s].note # NONE THEN Rank(t, k, to, s) + 1 ELSE Rank(t, k, to, s)
<1>1. s + 1 \in Nat /\ k <= s + 1
  OBVIOUS
<1>2. /\ IsFiniteSet(InUse(t, k, s)) /\ Rank(t, k, to, s) = to + Cardinality(InUse(t, k, s))
      /\ Cardinality(InUse(t, k, s)) \in 0 .. s - k
  BY InUseIs
<1>3. Rank(t, k, to, s + 1) = to + Cardinality(InUse(t, k, s + 1))
  BY <1>1, InUseIs
<1>4. InUse(t, k, s + 1) = IF t[s].note # NONE THEN InUse(t, k, s) \cup {s} ELSE InUse(t, k, s)
  BY DEF InUse
<1>5. s \notin InUse(t, k, s)
  BY DEF InUse
<1>6. CASE t[s].note # NONE
  <2>1. Cardinality(InUse(t, k, s) \cup {s}) = Cardinality(InUse(t, k, s)) + 1
    BY <1>2, <1>5, FS_AddElement
  <2>2. Rank(t, k, to, s + 1) = to + (Cardinality(InUse(t, k, s)) + 1)
    BY <1>3, <1>4, <1>6, <2>1
  <2>3. QED
    BY <1>2, <1>6, <2>2
<1>7. CASE ~(t[s].note # NONE)
  BY <1>2, <1>3, <1>4, <1>7
<1>8. QED
  BY <1>6, <1>7

(* One slot less below. *)
LEMMA RankRest ==
  ASSUME NEW t, NEW k \in Nat, NEW to \in Nat, NEW s \in Nat, k < s
  PROVE  Rank(t, k, to, s) = IF t[k].note # NONE THEN Rank(t, k + 1, to + 1, s) ELSE Rank(t, k + 1, to, s)
<1>1. k + 1 \in Nat /\ to + 1 \in Nat /\ k + 1 <= s /\ k <= s
  OBVIOUS
<1>2. Rank(t, k, to, s) = to + Cardinality(InUse(t, k, s))
  BY <1>1, InUseIs
<1>3. /\ IsFiniteSet(InUse(t, k + 1, s)) /\ Cardinality(InUse(t, k + 1, s)) \in 0 .. s - (k + 1)
      /\ Rank(t, k + 1, to, s) = to + Cardinality(InUse(t, k + 1, s))
      /\ Rank(t, k + 1, to + 1, s) = to + 1 + Cardinality(InUse(t, k + 1, s))
  BY <1>1, InUseIs
<1>4. InUse(t, k, s) = IF t[k].note # NONE THEN InUse(t, k + 1, s) \cup {k} ELSE InUse(t, k + 1, s)
  BY DEF InUse
<1>5. k \notin InUse(t, k + 1, s)
  BY DEF InUse
<1>6. CASE t[k].note # NONE
  <2>1. Cardinality(InUse(t, k + 1, s) \cup {k}) = Cardinality(InUse(t, k + 1, s)) + 1
    BY <1>3, <1>5, FS_AddElement
  <2>2. QED
    BY <1>2, <1>3, <1>4, <1>6, <2>1
<1>7. CASE ~(t[k].note # NONE)
  BY <1>2, <1>3, <1>4, <1>7
<1>8. QED
  BY <1>6, <1>7

(* Slots in use keep their order, and no two of them go to one place.        *)
LEMMA RankGrows ==
  ASSUME NEW t, NEW k \in Nat, NEW to \in Nat, NEW a \in Nat, NEW b \in Nat, k <= a, a < b,
         t[a].note # NONE
  PROVE  Rank(t, k, to, a) < Rank(t, k, to, b)
<1>1. a + 1 \in Nat /\ k <= a + 1 /\ k <= b
  OBVIOUS
<1>2. Rank(t, k, to, a + 1) = Rank(t, k, to, a) + 1 /\ Rank(t, k, to, a) \in Int
  <2>1. Rank(t, k, to, a + 1) = Rank(t, k, to, a) + 1
    BY RankNext
  <2>2. Rank(t, k, to, a) \in to .. to + (a - k)
    BY InUseIs
  <2>3. QED
    BY <2>1, <2>2
<1>3. /\ Rank(t, k, to, a + 1) = to + Cardinality(InUse(t, k, a + 1))
      /\ IsFiniteSet(InUse(t, k, a + 1)) /\ Cardinality(InUse(t, k, a + 1)) \in 0 .. a + 1 - k
  BY <1>1, InUseIs
<1>4. /\ Rank(t, k, to, b) = to + Cardinality(InUse(t, k, b))
      /\ IsFiniteSet(InUse(t, k, b)) /\ Cardinality(InUse(t, k, b)) \in 0 .. b - k
  BY <1>1, InUseIs
<1>5. InUse(t, k, a + 1) \in SUBSET InUse(t, k, b)
  BY DEF InUse
<1>6. Cardinality(InUse(t, k, a + 1)) <= Cardinality(InUse(t, k, b))
  BY <1>4, <1>5, FS_Subset
<1>7. QED
  BY <1>2, <1>3, <1>4, <1>6

LEMMA RankSame ==
  ASSUME NEW t, NEW u, NEW k, NEW to, NEW s,
         \A x \in k .. s - 1 : (t[x].note # NONE) <=> (u[x].note # NONE)
  PROVE  Rank(t, k, to, s) = Rank(u, k, to, s)
<1>1. InUse(t, k, s) = InUse(u, k, s)
  BY DEF InUse
<1>2. QED
  BY <1>1 DEF Rank, InUse

(* The place of a slot, and the slots that have one.                         *)
Shift(t, limit, s) ==
    IF s >= FirstDynamic /\ s < limit THEN Rank(t, FirstDynamic, FirstDynamic, s) ELSE s
Stays(t, limit, s) == s < FirstDynamic \/ (s >= FirstDynamic /\ s < limit /\ t[s].note # NONE)

LEMMA ShiftApart ==
  ASSUME NEW t, NEW limit, NEW a \in Slot, NEW b \in Slot, Stays(t, limit, a), Stays(t, limit, b),
         Shift(t, limit, a) = Shift(t, limit, b)
  PROVE  a = b
<1>1. FirstDynamic \in Nat /\ a \in Nat /\ b \in Nat
  BY SlotsAre
<1>2. \A s \in {a, b} : s >= FirstDynamic => Shift(t, limit, s) = Rank(t, FirstDynamic, FirstDynamic, s)
  BY <1>1 DEF Stays, Shift
<1>3. \A s \in {a, b} : s < FirstDynamic => Shift(t, limit, s) = s
  BY <1>1 DEF Shift
<1>4. \A s \in {a, b} : s >= FirstDynamic =>
        Rank(t, FirstDynamic, FirstDynamic, s) >= FirstDynamic /\ Rank(t, FirstDynamic, FirstDynamic, s) \in Int
  <2>1. \A s \in {a, b} : s >= FirstDynamic =>
          Rank(t, FirstDynamic, FirstDynamic, s) \in FirstDynamic .. FirstDynamic + (s - FirstDynamic)
    BY <1>1, InUseIs
  <2>2. QED
    BY <1>1, <2>1
<1>5. \A x \in {a, b}, y \in {a, b} : x >= FirstDynamic /\ x < y =>
        Rank(t, FirstDynamic, FirstDynamic, x) < Rank(t, FirstDynamic, FirstDynamic, y)
  <2>1. \A s \in {a, b} : s >= FirstDynamic => t[s].note # NONE
    BY <1>1 DEF Stays
  <2>2. QED
    BY <1>1, <2>1, RankGrows
<1>6. CASE a < FirstDynamic /\ b < FirstDynamic
  BY <1>3, <1>6
<1>7. CASE a >= FirstDynamic /\ b >= FirstDynamic
  <2>1. Rank(t, FirstDynamic, FirstDynamic, a) = Rank(t, FirstDynamic, FirstDynamic, b)
    BY <1>2, <1>7
  <2>2. ~(a < b) /\ ~(b < a)
    BY <1>4, <1>5, <1>7, <2>1
  <2>3. QED
    BY <1>1, <2>2
<1>8. CASE (a < FirstDynamic /\ b >= FirstDynamic) \/ (a >= FirstDynamic /\ b < FirstDynamic)
  BY <1>1, <1>2, <1>3, <1>4, <1>8
<1>9. QED
  BY <1>1, <1>6, <1>7, <1>8

-----------------------------------------------------------------------------
(* What a compaction leads to.                                               *)
LEMMA ShiftTypes ==
  ASSUME NEW t, NEW limit, NEW s \in Slot
  PROVE  /\ Shift(t, limit, s) \in Slot
         /\ s < FirstDynamic => Shift(t, limit, s) = s
         /\ s >= FirstDynamic => Shift(t, limit, s) >= FirstDynamic
<1>1. FirstDynamic \in Nat /\ s \in Nat /\ SEQ_ACTION_SIZE \in Nat /\ s < SEQ_ACTION_SIZE
  BY SlotsAre
<1>2. CASE s >= FirstDynamic /\ s < limit
  <2>1. Rank(t, FirstDynamic, FirstDynamic, s) \in FirstDynamic .. FirstDynamic + (s - FirstDynamic)
    BY <1>1, <1>2, InUseIs
  <2>2. Rank(t, FirstDynamic, FirstDynamic, s) \in FirstDynamic .. s
    BY <1>1, <1>2, <2>1
  <2>3. QED
    BY <1>1, <1>2, <2>2 DEF Shift, Slot
<1>3. CASE ~(s >= FirstDynamic /\ s < limit)
  BY <1>1, <1>3 DEF Shift
<1>4. QED
  BY <1>2, <1>3

Led(t, limit, e) == [e EXCEPT !.next = Shift(t, limit, @)]
Leads(final, t, limit) ==
    /\ final \in Table
    /\ \A s \in Slot : Stays(t, limit, s) => final[Shift(t, limit, s)] = Led(t, limit, t[s])

LEMMA LedIs ==
  ASSUME NEW t \in Table, NEW limit, NEW s \in Slot
  PROVE  /\ Led(t, limit, t[s]) \in Entry
         /\ Led(t, limit, t[s]).when = t[s].when /\ Led(t, limit, t[s]).note = t[s].note
         /\ Led(t, limit, t[s]).next = Shift(t, limit, t[s].next)
<1>1. t[s].next \in Slot /\ t[s] \in Entry
  BY TableIs, EntryIs
<1> DEFINE r == Shift(t, limit, t[s].next)
<1>2. r \in Slot
  BY <1>1, ShiftTypes
<1>3. Led(t, limit, t[s]) = [t[s] EXCEPT !.next = r]
  BY DEF Led
<1> HIDE DEF r
<1>4. QED
  BY <1>1, <1>2, <1>3 DEF Entry, r

LEMMA FinalExists ==
  ASSUME NEW t \in Table, NEW limit
  PROVE  \E final : Leads(final, t, limit)
<1> DEFINE from(q) == CHOOSE s \in Slot : Stays(t, limit, s) /\ Shift(t, limit, s) = q
           final == [q \in Slot |->
                       IF \E s \in Slot : Stays(t, limit, s) /\ Shift(t, limit, s) = q
                         THEN Led(t, limit, t[from(q)]) ELSE t[q]]
<1>1. ASSUME NEW q \in Slot, NEW s \in Slot, Stays(t, limit, s), Shift(t, limit, s) = q
      PROVE  from(q) = s
  <2>1. from(q) \in Slot /\ Stays(t, limit, from(q)) /\ Shift(t, limit, from(q)) = q
    BY <1>1
  <2> HIDE DEF from
  <2>2. QED
    BY <1>1, <2>1, ShiftApart
<1> HIDE DEF from
<1>2. \A s \in Slot : Stays(t, limit, s) => final[Shift(t, limit, s)] = Led(t, limit, t[s])
  <2> SUFFICES ASSUME NEW s \in Slot, Stays(t, limit, s)
               PROVE  final[Shift(t, limit, s)] = Led(t, limit, t[s])
    OBVIOUS
  <2> DEFINE q == Shift(t, limit, s)
  <2>1. q \in Slot
    BY ShiftTypes
  <2>2. from(q) = s
    BY <1>1, <2>1
  <2>3. \E x \in Slot : Stays(t, limit, x) /\ Shift(t, limit, x) = q
    OBVIOUS
  <2> HIDE DEF q
  <2>4. final[q] = Led(t, limit, t[from(q)])
    BY <2>1, <2>3
  <2>5. QED
    BY <2>2, <2>4 DEF q
<1>3. final \in Table
  <2>1. ASSUME NEW q \in Slot PROVE final[q] \in Entry
    <3>1. CASE \E s \in Slot : Stays(t, limit, s) /\ Shift(t, limit, s) = q
      <4>1. PICK s \in Slot : Stays(t, limit, s) /\ Shift(t, limit, s) = q
        BY <3>1
      <4>2. final[q] = Led(t, limit, t[s])
        BY <1>2, <4>1
      <4>3. QED
        BY <4>2, LedIs
    <3>2. CASE ~(\E s \in Slot : Stays(t, limit, s) /\ Shift(t, limit, s) = q)
      <4>1. final[q] = t[q]
        BY <3>2
      <4>2. QED
        BY <4>1, EntryIs
    <3>3. QED
      BY <3>1, <3>2
  <2>2. QED
    BY <2>1, EntryIs
<1>4. Leads(final, t, limit)
  <2> HIDE DEF final
  <2>1. QED
    BY <1>2, <1>3 DEF Leads
<1>5. QED
  BY <1>4

(* A list comes through a compaction in its order, with its notes.           *)
LEMMA OrderLed ==
  ASSUME NEW t \in Table, NEW limit \in FirstDynamic .. SEQ_ACTION_SIZE, NEW final, Leads(final, t, limit),
         NEW i \in Timbre, NEW n \in Nat, NEW o, Order(t, limit, i, n, o)
  PROVE  \E p : /\ Order(final, Rank(t, FirstDynamic, FirstDynamic, limit), i, n, p)
                /\ NotesOn(final, n, p) = NotesOn(t, n, o)
                /\ \A r \in Span(n, o) : Shift(t, limit, r) \in Span(n, p)
<1> DEFINE p == [k \in 0 .. n + 1 |-> Shift(t, limit, o[k])]
           top == Rank(t, FirstDynamic, FirstDynamic, limit)
<1>1. /\ FirstDynamic \in Nat /\ limit \in Nat /\ limit >= FirstDynamic
      /\ \A k \in 0 .. n + 1 : o[k] \in Slot
      /\ o[0] = HeadOf(i) /\ o[n + 1] = TailOf(i)
      /\ HeadOf(i) \in Slot /\ TailOf(i) \in Slot /\ HeadOf(i) < FirstDynamic /\ TailOf(i) < FirstDynamic
  BY SlotsAre DEF Order
<1>2. /\ \A k \in 1 .. n : o[k] >= FirstDynamic /\ o[k] < limit /\ t[o[k]].note # NONE
      /\ \A k \in 1 .. n - 1 : t[o[k]].when <= t[o[k + 1]].when
  BY DEF Order
<1>3. \A k \in 0 .. n : o[k] \in Slot /\ Stays(t, limit, o[k])
  <2>1. \A k \in 0 .. n : k = 0 \/ k \in 1 .. n
    OBVIOUS
  <2>2. \A k \in 0 .. n : k \in 0 .. n + 1
    OBVIOUS
  <2>3. QED
    BY <1>1, <1>2, <2>1, <2>2 DEF Stays
<1>4. p \in [0 .. n + 1 -> Slot] /\ \A k \in 0 .. n + 1 : p[k] = Shift(t, limit, o[k])
  BY <1>1, ShiftTypes
<1> HIDE DEF p
<1>5. \A k \in 0 .. n : /\ final[p[k]].when = t[o[k]].when /\ final[p[k]].note = t[o[k]].note
                        /\ final[p[k]].next = Shift(t, limit, t[o[k]].next)
  <2> SUFFICES ASSUME NEW k \in 0 .. n
               PROVE  /\ final[p[k]].when = t[o[k]].when /\ final[p[k]].note = t[o[k]].note
                      /\ final[p[k]].next = Shift(t, limit, t[o[k]].next)
    OBVIOUS
  <2>1. k \in 0 .. n + 1
    OBVIOUS
  <2>2. final[p[k]] = Led(t, limit, t[o[k]])
    BY <1>3, <1>4, <2>1 DEF Leads
  <2>3. QED
    BY <1>3, <2>2, LedIs
<1>6. \A k \in 0 .. n : final[p[k]].next = p[k + 1]
  <2> SUFFICES ASSUME NEW k \in 0 .. n PROVE final[p[k]].next = p[k + 1]
    OBVIOUS
  <2>1. k + 1 \in 0 .. n + 1
    OBVIOUS
  <2>2. t[o[k]].next = o[k + 1]
    BY DEF Order
  <2>3. final[p[k]].next = Shift(t, limit, o[k + 1])
    BY <1>5, <2>2
  <2>4. p[k + 1] = Shift(t, limit, o[k + 1])
    BY <1>4, <2>1
  <2>5. QED
    BY <2>3, <2>4
<1>7. p[0] = HeadOf(i) /\ p[n + 1] = TailOf(i)
  <2>1. 0 \in 0 .. n + 1 /\ n + 1 \in 0 .. n + 1
    OBVIOUS
  <2>2. p[0] = Shift(t, limit, HeadOf(i)) /\ p[n + 1] = Shift(t, limit, TailOf(i))
    BY <1>1, <1>4, <2>1
  <2>3. QED
    BY <1>1, <2>2, ShiftTypes
<1>8. \A k \in 1 .. n : p[k] >= FirstDynamic /\ p[k] < top /\ final[p[k]].note # NONE
  <2> SUFFICES ASSUME NEW k \in 1 .. n PROVE p[k] >= FirstDynamic /\ p[k] < top /\ final[p[k]].note # NONE
    OBVIOUS
  <2>1. k \in 0 .. n /\ k \in 0 .. n + 1
    OBVIOUS
  <2>2. final[p[k]].note # NONE
    BY <1>2, <1>5, <2>1
  <2>3. PICK s \in Slot : s = o[k] /\ s >= FirstDynamic /\ s < limit /\ t[s].note # NONE
    BY <1>1, <1>2, <2>1
  <2>4. p[k] = Rank(t, FirstDynamic, FirstDynamic, s)
    BY <1>4, <2>1, <2>3 DEF Shift
  <2>5. s \in Nat
    BY SlotsAre
  <2>6. Rank(t, FirstDynamic, FirstDynamic, s) < top
    BY <1>1, <2>3, <2>5, RankGrows
  <2>7. p[k] >= FirstDynamic
    BY <1>4, <2>1, <2>3, ShiftTypes
  <2>8. QED
    BY <2>2, <2>4, <2>6, <2>7
<1>9. \A k \in 1 .. n - 1 : final[p[k]].when <= final[p[k + 1]].when
  <2> SUFFICES ASSUME NEW k \in 1 .. n - 1 PROVE final[p[k]].when <= final[p[k + 1]].when
    OBVIOUS
  <2>1. k \in 0 .. n /\ k + 1 \in 0 .. n
    OBVIOUS
  <2>2. final[p[k]].when = t[o[k]].when /\ final[p[k + 1]].when = t[o[k + 1]].when
    BY <1>5, <2>1
  <2>3. t[o[k]].when <= t[o[k + 1]].when
    BY <1>2
  <2>4. QED
    BY <2>2, <2>3
<1> HIDE DEF top
<1>10. Order(final, top, i, n, p)
  BY <1>4, <1>6, <1>7, <1>8, <1>9 DEF Order
<1>11. NotesOn(final, n, p) = NotesOn(t, n, o)
  <2>1. \A k \in 1 .. n : final[p[k]].note = t[o[k]].note
    <3>1. \A k \in 1 .. n : k \in 0 .. n
      OBVIOUS
    <3>2. QED
      BY <1>5, <3>1
  <2>2. QED
    BY <2>1 DEF NotesOn
<1>12. \A r \in Span(n, o) : Shift(t, limit, r) \in Span(n, p)
  BY <1>4 DEF Span
<1>13. QED
  BY <1>10, <1>11, <1>12 DEF top

LEMMA HoldsLed ==
  ASSUME NEW t \in Table, NEW limit \in FirstDynamic .. SEQ_ACTION_SIZE, NEW final, Leads(final, t, limit),
         NEW i \in Timbre, NEW kept, NEW a, NEW b, Holds(t, limit, i, kept, {a, b})
  PROVE  Holds(final, Rank(t, FirstDynamic, FirstDynamic, limit), i, kept,
               {Shift(t, limit, a), Shift(t, limit, b)})
<1>1. PICK n, o : /\ n \in Nat /\ Order(t, limit, i, n, o) /\ NotesOn(t, n, o) = kept
                  /\ {a, b} \subseteq Span(n, o)
  BY DEF Holds
<1> n \in Nat
  BY <1>1
<1>2. Order(t, limit, i, n, o)
  BY <1>1
<1>3. PICK p : /\ Order(final, Rank(t, FirstDynamic, FirstDynamic, limit), i, n, p)
               /\ NotesOn(final, n, p) = NotesOn(t, n, o)
               /\ \A r \in Span(n, o) : Shift(t, limit, r) \in Span(n, p)
  BY <1>2, OrderLed
<1>4. {Shift(t, limit, a), Shift(t, limit, b)} \subseteq Span(n, p)
  BY <1>1, <1>3
<1>5. QED
  BY <1>1, <1>3, <1>4 DEF Holds

LEMMA SentryLed ==
  ASSUME NEW t \in Table, NEW limit, NEW final, Leads(final, t, limit),
         NEW i \in Timbre, NEW mask, SentryWhole(t, i, mask)
  PROVE  SentryWhole(final, i, mask)
<1>1. HeadOf(i) \in Slot /\ TailOf(i) \in Slot /\ HeadOf(i) < FirstDynamic /\ TailOf(i) < FirstDynamic
  BY SlotsAre
<1>2. \A s \in {HeadOf(i), TailOf(i)} : final[s] = Led(t, limit, t[s])
  <2>1. \A s \in {HeadOf(i), TailOf(i)} : s \in Slot /\ Stays(t, limit, s) /\ Shift(t, limit, s) = s
    BY <1>1, ShiftTypes DEF Stays
  <2>2. QED
    BY <2>1 DEF Leads
<1>3. /\ final[HeadOf(i)].when = t[HeadOf(i)].when /\ final[HeadOf(i)].note = t[HeadOf(i)].note
      /\ final[TailOf(i)].when = t[TailOf(i)].when /\ final[TailOf(i)].note = t[TailOf(i)].note
      /\ final[TailOf(i)].next = Shift(t, limit, t[TailOf(i)].next)
  BY <1>1, <1>2, LedIs
<1>4. final[TailOf(i)].next = HeadOf(i)
  <2>1. t[TailOf(i)].next = HeadOf(i)
    BY DEF SentryWhole, Sentry
  <2>2. Shift(t, limit, HeadOf(i)) = HeadOf(i)
    BY <1>1, ShiftTypes
  <2>3. QED
    BY <1>3, <2>1, <2>2
<1>5. QED
  BY <1>3, <1>4 DEF SentryWhole, Sentry

LEMMA TopTypes ==
  ASSUME NEW t, NEW limit \in FirstDynamic .. SEQ_ACTION_SIZE
  PROVE  Rank(t, FirstDynamic, FirstDynamic, limit) \in FirstDynamic .. SEQ_ACTION_SIZE
<1>1. FirstDynamic \in Nat /\ limit \in Nat /\ FirstDynamic <= limit /\ limit <= SEQ_ACTION_SIZE
  BY SlotsAre
<1>2. Rank(t, FirstDynamic, FirstDynamic, limit) \in FirstDynamic .. FirstDynamic + (limit - FirstDynamic)
  BY <1>1, InUseIs
<1>3. QED
  BY <1>1, <1>2, SlotsAre

-----------------------------------------------------------------------------
(* Clearing a list.                                                          *)
LEMMA BeginClearKeeps ==
  ASSUME Whole, TypeInv', ~ClearWhileRunning, BeginClear
  PROVE  Whole'
<1>1. /\ main.pc = "idle" /\ ~running_ /\ running_' = running_ /\ lastFreeAction_' = lastFreeAction_
      /\ recorded' = recorded /\ cursor' = cursor /\ instrumentTimerMask_' = instrumentTimerMask_
  BY DEF BeginClear, Edit, idle, transport
<1>2. PICK i \in Timbre :
        /\ actions' = [s \in Slot |-> IF s \in Nodes(i) THEN [actions[s] EXCEPT !.note = NONE]
                                      ELSE actions[s]]
        /\ main' = [pc |-> "unlink", i |-> i]
  BY DEF BeginClear
<1>3. /\ ~Rebuilding /\ Rebuilding' /\ main'.pc = "unlink" /\ main'.i = i /\ Live = lastFreeAction_
  BY <1>1, <1>2 DEF Rebuilding, Live
<1>4. /\ actions \in Table /\ lastFreeAction_ \in Nat /\ lastFreeAction_ >= FirstDynamic
      /\ lastFreeAction_ <= SEQ_ACTION_SIZE
  BY SlotsAre DEF Whole, TypeInv, TypeOK, Table
<1>5. \A j \in Timbre : /\ Holds(actions, lastFreeAction_, j, recorded[j], CursorRefs(j))
                        /\ SentryWhole(actions, j, instrumentTimerMask_)
  <2> SUFFICES ASSUME NEW j \in Timbre
               PROVE  /\ Holds(actions, lastFreeAction_, j, recorded[j], CursorRefs(j))
                      /\ SentryWhole(actions, j, instrumentTimerMask_)
    OBVIOUS
  <2>1. ListSound(j)
    BY <1>3 DEF Whole, Settled
  <2>2. Refs(j) = CursorRefs(j)
    BY <1>1 DEF Refs
  <2>3. QED
    BY <1>1, <1>3, <2>1, <2>2 DEF ListSound, TailOnTime, SentryWhole
<1>6. PICK n, o : n \in Nat /\ Order(actions, lastFreeAction_, i, n, o)
  BY <1>5 DEF Holds
<1> n \in Nat
  BY <1>6
<1>7. Nodes(i) = {o[k] : k \in 1 .. n}
  <2>1. PICK limit : limit = lastFreeAction_
    OBVIOUS
  <2>2. /\ limit \in Nat /\ limit >= FirstDynamic /\ limit <= SEQ_ACTION_SIZE
        /\ Order(actions, limit, i, n, o)
    BY <1>4, <1>6, <2>1
  <2>3. QED
    BY <1>4, <2>2, ChainIsOrder
<1>8. \A s \in Slot : s \notin Nodes(i) => actions'[s] = actions[s]
  BY <1>2
<1>9. \A s \in Nodes(i) : s >= FirstDynamic
  BY <1>6, <1>7 DEF Order
<1>10. ASSUME NEW j \in Timbre PROVE SentryWhole(actions', j, instrumentTimerMask_)
  <2>1. HeadOf(j) \in Slot /\ TailOf(j) \in Slot /\ ~(HeadOf(j) >= FirstDynamic) /\ ~(TailOf(j) >= FirstDynamic)
    BY SlotsAre
  <2>2. actions'[HeadOf(j)] = actions[HeadOf(j)] /\ actions'[TailOf(j)] = actions[TailOf(j)]
    BY <1>8, <1>9, <2>1
  <2>3. QED
    BY <1>5, <2>2 DEF SentryWhole, Sentry
<1>11. ASSUME NEW j \in Timbre, j # i
       PROVE  Holds(actions', lastFreeAction_, j, recorded[j], CursorRefs(j))
  <2>1. PICK m, p : /\ m \in Nat /\ Order(actions, lastFreeAction_, j, m, p)
                    /\ NotesOn(actions, m, p) = recorded[j] /\ CursorRefs(j) \subseteq Span(m, p)
    BY <1>5 DEF Holds
  <2> m \in Nat
    BY <2>1
  <2>2. Order(actions, lastFreeAction_, j, m, p)
    BY <2>1
  <2>3. \A b \in 0 .. m : p[b] \notin Nodes(i)
    <3> SUFFICES ASSUME NEW b \in 0 .. m, p[b] \in Nodes(i) PROVE FALSE
      OBVIOUS
    <3>1. PICK a \in 1 .. n : o[a] = p[b]
      BY <1>7
    <3>2. a \in 0 .. n + 1 /\ b \in 0 .. m + 1
      OBVIOUS
    <3>3. i = j
      BY <1>6, <2>2, <3>1, <3>2, SameSlot
    <3>4. QED
      BY <1>11, <3>3
  <2>4. \A b \in 0 .. m : p[b] \in Slot
    BY <2>2 DEF Order
  <2>5. \A b \in 0 .. m : actions'[p[b]] = actions[p[b]]
    BY <1>8, <2>3, <2>4
  <2>6. \A b \in 1 .. m : p[b] < lastFreeAction_
    BY <2>2 DEF Order
  <2>7. Order(actions', lastFreeAction_, j, m, p) /\ NotesOn(actions', m, p) = NotesOn(actions, m, p)
    BY <2>2, <2>5, <2>6, OrderSame
  <2>8. QED
    BY <2>1, <2>7 DEF Holds
<1>12. Unlinking'
  <2>1. CursorRefs(i)' = CursorRefs(i) /\ \A j \in Timbre : CursorRefs(j)' = CursorRefs(j)
    BY <1>1 DEF CursorRefs
  <2>2. \A j \in Timbre \ {i} : Holds(actions', lastFreeAction_', j, recorded'[j], CursorRefs(j)')
    BY <1>1, <1>11, <2>1
  <2>3. \A j \in Timbre : SentryWhole(actions', j, instrumentTimerMask_')
    BY <1>1, <1>10
  <2>4. QED
    BY <1>3, <2>2, <2>3 DEF Unlinking
<1>13. NeverTrips' /\ Activated'
  BY <1>1 DEF Whole, NeverTrips, Activated
<1>14. QED
  BY <1>1, <1>3, <1>12, <1>13 DEF Whole, Settled, Remapping, Translating, Compacting

(* The compaction is planned in the table as it is when the list is unlinked. *)
LEMMA UnlinkKeeps ==
  ASSUME Whole, TypeInv', Unlink
  PROVE  Whole'
<1>0. PICK i : i = main.i
  OBVIOUS
<1>1. /\ main.pc = "unlink" /\ i \in Timbre
      /\ cursor' = [cursor EXCEPT ![i] = [AtRest(i) EXCEPT !.last = cursor[i].last]]
      /\ actions' = [actions EXCEPT ![HeadOf(i)].next = TailOf(i)]
      /\ recorded' = [recorded EXCEPT ![i] = {}]
      /\ running_' = running_ /\ instrumentTimerMask_' = instrumentTimerMask_
  BY <1>0 DEF Unlink, others, Whole, TypeInv, Control
<1>2. ~running_
  BY <1>1 DEF Whole, Rebuilding
<1>3. /\ actions \in Table /\ actions' \in Table /\ lastFreeAction_ \in FirstDynamic .. SEQ_ACTION_SIZE
      /\ lastFreeAction_ \in Nat /\ cursor \in [Timbre -> Walker] /\ recorded \in [Timbre -> SUBSET Note]
  BY SlotsAre DEF Whole, TypeInv, TypeOK, Table
<1>4. \A j \in Timbre : /\ HeadOf(j) \in Slot /\ TailOf(j) \in Slot
                        /\ ~(HeadOf(j) >= FirstDynamic) /\ ~(TailOf(j) >= FirstDynamic)
                        /\ TailOf(j) # HeadOf(i)
                        /\ j # i => HeadOf(j) # HeadOf(i)
  <2>1. i \in Nat /\ \A j \in Timbre : j \in Nat
    BY <1>1, SizesAssumption DEF Timbre
  <2>2. QED
    BY <2>1, SlotsAre DEF HeadOf, TailOf
<1>5. /\ \A s \in Slot : s # HeadOf(i) => actions'[s] = actions[s]
      /\ actions'[HeadOf(i)].next = TailOf(i)
      /\ actions'[HeadOf(i)].when = actions[HeadOf(i)].when /\ actions'[HeadOf(i)].note = actions[HeadOf(i)].note
  <2>1. \A s \in Slot : s # HeadOf(i) => actions'[s] = actions[s]
    BY <1>1, <1>3 DEF Table
  <2>2. actions'[HeadOf(i)] = [actions[HeadOf(i)] EXCEPT !.next = TailOf(i)] /\ actions[HeadOf(i)] \in Entry
    BY <1>1, <1>3, <1>4, EntryIs DEF Table
  <2>3. QED
    BY <2>1, <2>2 DEF Entry
<1>6. \A j \in Timbre : SentryWhole(actions', j, instrumentTimerMask_)
  <2> SUFFICES ASSUME NEW j \in Timbre PROVE SentryWhole(actions', j, instrumentTimerMask_)
    OBVIOUS
  <2>1. SentryWhole(actions, j, instrumentTimerMask_)
    BY <1>1 DEF Whole, Unlinking
  <2>2. actions'[TailOf(j)] = actions[TailOf(j)]
    BY <1>4, <1>5
  <2>3. actions'[HeadOf(j)].when = actions[HeadOf(j)].when /\ actions'[HeadOf(j)].note = actions[HeadOf(j)].note
    <3>1. CASE j = i
      BY <1>5, <3>1
    <3>2. CASE j # i
      <4>1. actions'[HeadOf(j)] = actions[HeadOf(j)]
        BY <1>4, <1>5, <3>2
      <4>2. QED
        BY <4>1
    <3>3. QED
      BY <3>1, <3>2
  <2>4. QED
    BY <2>1, <2>2, <2>3 DEF SentryWhole, Sentry
<1>7. \A j \in Timbre : j # i => cursor'[j] = cursor[j] /\ recorded'[j] = recorded[j]
  BY <1>1, <1>3
<1>8. cursor'[i] = [AtRest(i) EXCEPT !.last = cursor[i].last] /\ recorded'[i] = {}
  BY <1>1, <1>3
<1>9. \A j \in Timbre : Holds(actions', lastFreeAction_, j, recorded'[j], CursorRefs(j)')
  <2> SUFFICES ASSUME NEW j \in Timbre
               PROVE  Holds(actions', lastFreeAction_, j, recorded'[j], CursorRefs(j)')
    OBVIOUS
  <2>1. CASE j = i
    <3>1. Holds(actions', lastFreeAction_, i, {}, {HeadOf(i), TailOf(i)})
      BY <1>1, <1>5, EmptyHolds
    <3>2. CursorRefs(j)' = {HeadOf(i), TailOf(i)}
      BY <1>8, <2>1 DEF CursorRefs, AtRest
    <3>3. QED
      BY <1>8, <2>1, <3>1, <3>2
  <2>2. CASE j # i
    <3>1. Holds(actions, lastFreeAction_, j, recorded[j], CursorRefs(j))
      BY <1>0, <1>1, <2>2 DEF Whole, Unlinking
    <3>2. CursorRefs(j)' = CursorRefs(j)
      BY <1>7, <2>2 DEF CursorRefs
    <3>3. \A s \in Slot : s = HeadOf(j) \/ (s >= FirstDynamic /\ s < lastFreeAction_) => actions'[s] = actions[s]
      BY <1>1, <1>4, <1>5, <2>2
    <3>4. Holds(actions', lastFreeAction_, j, recorded[j], CursorRefs(j))
      BY <1>3, <3>1, <3>3, HoldsSame
    <3>5. QED
      BY <1>7, <2>2, <3>2, <3>4
  <2>3. QED
    BY <2>1, <2>2
<1>10. NeverTrips' /\ \A j \in Timbre : cursor'[j].on \/ recorded'[j] = {}
  <2> SUFFICES ASSUME NEW j \in Timbre
               PROVE  ~cursor'[j].poisoned /\ (cursor'[j].on \/ recorded'[j] = {})
    BY DEF NeverTrips
  <2>1. CASE j = i
    BY <1>8, <2>1 DEF AtRest
  <2>2. CASE j # i
    BY <1>1, <1>7, <2>2 DEF Whole, NeverTrips, Activated
  <2>3. QED
    BY <2>1, <2>2
<1>11. CASE \E j \in Timbre \ {i} : cursor[j].on
  <2>1. main' = [pc |-> "remap", k |-> 0] /\ lastFreeAction_' = lastFreeAction_
    BY <1>0, <1>11 DEF Unlink
  <2>2. main'.pc = "remap" /\ main'.k = 0
    BY <2>1
  <2>3. Remapping'
    <3>1. PICK t, limit : t = actions' /\ limit = lastFreeAction_'
      OBVIOUS
    <3>2. t \in Table /\ limit \in FirstDynamic .. SEQ_ACTION_SIZE
      BY <1>3, <2>1, <3>1
    <3>3. PICK final : Leads(final, t, limit)
      BY <3>2, FinalExists
    <3>4. \A s : Compacted(s)' = Shift(t, limit, s)
      BY <3>1 DEF Compacted, Dynamic, Shift, Rank
    <3>5. \A s : Moves(s)' <=> Stays(t, limit, s)
      BY <3>1 DEF Moves, Stays, Dynamic
    <3>6. LeftInUse' = Rank(t, FirstDynamic, FirstDynamic, limit)
      BY <3>1 DEF LeftInUse, Rank
    <3>7. ASSUME NEW j \in Timbre
          PROVE  /\ SentryWhole(final, j, instrumentTimerMask_')
                 /\ Holds(final, LeftInUse', j, recorded'[j], CompactedRefs(j)')
      <4>1. Holds(t, limit, j, recorded'[j], {cursor'[j].next, cursor'[j].prev})
        BY <1>9, <2>1, <3>1 DEF CursorRefs
      <4>2. Holds(final, Rank(t, FirstDynamic, FirstDynamic, limit), j, recorded'[j],
                  {Shift(t, limit, cursor'[j].next), Shift(t, limit, cursor'[j].prev)})
        BY <3>2, <3>3, <4>1, HoldsLed
      <4>3. CompactedRefs(j)' = {Shift(t, limit, cursor'[j].next), Shift(t, limit, cursor'[j].prev)}
        BY <3>4 DEF CompactedRefs
      <4>4. SentryWhole(t, j, instrumentTimerMask_')
        BY <1>1, <1>6, <3>1
      <4>5. SentryWhole(final, j, instrumentTimerMask_')
        BY <3>2, <3>3, <4>4, SentryLed
      <4>6. QED
        BY <3>6, <4>2, <4>3, <4>5
    <3>8. \A s \in Slot : Moves(s)' => final[Compacted(s)'] = Translated(actions[s])'
      <4>1. \A s \in Slot : Translated(actions[s])' = Led(t, limit, t[s])
        BY <3>1, <3>4 DEF Translated, Led
      <4>2. QED
        BY <3>3, <3>4, <3>5, <4>1 DEF Leads
    <3>9. \A s \in Slot : ~(s < 0)
      BY SlotsAre
    <3>10. LeftInUse' \in FirstDynamic .. SEQ_ACTION_SIZE
      BY <3>2, <3>6, TopTypes
    <3>11. final \in Table
      BY <3>3 DEF Leads
    <3>12. Promises(final, LeftInUse, [j \in Timbre |-> CompactedRefs(j)])'
      BY <3>7, <3>10, <3>11 DEF Promises
    <3>13. \A s \in Slot : Moves(s)' =>
             final[Compacted(s)'] = IF s < main'.k THEN actions'[s] ELSE Translated(actions[s])'
      BY <2>2, <3>8, <3>9
    <3>14. QED
      BY <3>12, <3>13 DEF Remapping
  <2>4. Activated'
    BY <1>10 DEF Activated
  <2>5. QED
    BY <1>1, <1>2, <1>10, <2>2, <2>3, <2>4 DEF Whole, Rebuilding, Settled, Unlinking, Translating, Compacting
<1>12. CASE ~(\E j \in Timbre \ {i} : cursor[j].on)
  <2>1. main' = idle /\ lastFreeAction_' = FirstDynamic
    BY <1>0, <1>12 DEF Unlink
  <2>2. /\ main'.pc = "idle" /\ ~Rebuilding' /\ main'.pc # "load" /\ Live' = FirstDynamic
        /\ main'.pc \notin {"publish", "link", "cursor", "tailWhen"}
    BY <2>1 DEF idle, Rebuilding, Live
  <2>3. ASSUME NEW j \in Timbre PROVE ListSound(j)'
    <3>1. recorded'[j] = {}
      <4>1. CASE j = i
        BY <1>8, <4>1
      <4>2. CASE j # i
        BY <1>7, <1>10, <1>12, <4>2
      <4>3. QED
        BY <4>1, <4>2
    <3>2. PICK n, o : /\ n \in Nat /\ Order(actions', lastFreeAction_, j, n, o)
                      /\ NotesOn(actions', n, o) = {} /\ CursorRefs(j)' \subseteq Span(n, o)
      BY <1>9, <3>1 DEF Holds
    <3> n \in Nat
      BY <3>2
    <3>3. n = 0
      <4> SUFFICES ASSUME n # 0 PROVE FALSE
        OBVIOUS
      <4>1. 1 \in 1 .. n
        OBVIOUS
      <4>2. actions'[o[1]].note \in NotesOn(actions', n, o)
        BY <4>1 DEF NotesOn
      <4>3. QED
        BY <3>2, <4>2
    <3>4. \A k \in 1 .. n : o[k] < FirstDynamic
      BY <3>3
    <3>5. Order(actions', lastFreeAction_, j, n, o)
      BY <3>2
    <3>6. Order(actions', FirstDynamic, j, n, o)
      BY <3>4, <3>5 DEF Order
    <3>7. Refs(j)' = CursorRefs(j)'
      BY <2>2 DEF Refs
    <3>8. Holds(actions', Live', j, recorded'[j], Refs(j)')
      BY <2>2, <3>1, <3>2, <3>6, <3>7 DEF Holds
    <3>9. Sentry(actions, j)' /\ TailOnTime(j)'
      BY <1>1, <1>6 DEF SentryWhole, Sentry, TailOnTime
    <3>10. QED
      BY <3>8, <3>9 DEF ListSound
  <2>4. Settled'
    BY <2>2, <2>3 DEF Settled
  <2>5. Activated'
    BY <1>10 DEF Activated
  <2>6. QED
    BY <1>10, <2>2, <2>4, <2>5 DEF Whole, Rebuilding, Unlinking, Remapping, Translating, Compacting
<1>13. QED
  BY <1>11, <1>12

(* Translating a link takes nothing into or out of use. *)
LEMMA SameUse ==
  ASSUME TypeOK, lastFreeAction_' = lastFreeAction_, \A s \in Slot : actions'[s].note = actions[s].note
  PROVE  /\ \A s \in Slot : Compacted(s)' = Compacted(s)
         /\ \A s \in Slot : Moves(s)' <=> Moves(s)
         /\ LeftInUse' = LeftInUse
<1>1. lastFreeAction_ \in Nat /\ lastFreeAction_ <= SEQ_ACTION_SIZE /\ FirstDynamic \in Nat
  BY SlotsAre DEF TypeOK
<1>2. ASSUME NEW s \in Nat, s <= SEQ_ACTION_SIZE
      PROVE  Rank(actions', FirstDynamic, FirstDynamic, s) = Rank(actions, FirstDynamic, FirstDynamic, s)
  <2>1. \A x \in FirstDynamic .. s - 1 : x \in Slot
    BY <1>1, <1>2, SlotsAre DEF Slot
  <2>2. \A x \in FirstDynamic .. s - 1 : (actions'[x].note # NONE) <=> (actions[x].note # NONE)
    BY <2>1
  <2>3. QED
    BY <2>2, RankSame
<1>3. ASSUME NEW s \in Slot PROVE Compacted(s)' = Compacted(s) /\ (Moves(s)' <=> Moves(s))
  <2>1. s \in Nat /\ s <= SEQ_ACTION_SIZE
    BY SlotsAre
  <2>2. Rank(actions', FirstDynamic, FirstDynamic, s) = Rank(actions, FirstDynamic, FirstDynamic, s)
    BY <1>2, <2>1
  <2>3. Compacted(s)' = Compacted(s)
    BY <2>2 DEF Compacted, Rank, Dynamic
  <2>4. QED
    BY <2>3 DEF Moves, Dynamic
<1>4. LeftInUse' = LeftInUse
  <2>1. Rank(actions', FirstDynamic, FirstDynamic, lastFreeAction_) = Rank(actions, FirstDynamic, FirstDynamic, lastFreeAction_)
    BY <1>1, <1>2
  <2>2. LeftInUse = Rank(actions, FirstDynamic, FirstDynamic, lastFreeAction_)
    BY DEF LeftInUse
  <2>3. LeftInUse' = Rank(actions', FirstDynamic, FirstDynamic, lastFreeAction_)
    BY DEF LeftInUse, Rank
  <2>4. QED
    BY <2>1, <2>2, <2>3
<1>5. QED
  BY <1>3, <1>4

LEMMA RemapLinkKeeps ==
  ASSUME Whole, TypeInv', RemapLink
  PROVE  Whole'
<1>0. PICK k : k = main.k
  OBVIOUS
<1>1. /\ main.pc = "remap" /\ k \in Slot /\ main = [pc |-> "remap", k |-> k]
      /\ lastFreeAction_' = lastFreeAction_ /\ recorded' = recorded /\ cursor' = cursor
      /\ running_' = running_ /\ instrumentTimerMask_' = instrumentTimerMask_
  BY <1>0 DEF RemapLink, others, Whole, TypeInv, Control
<1>2. /\ actions \in Table /\ cursor \in [Timbre -> Walker] /\ TypeOK
      /\ lastFreeAction_ \in Nat /\ lastFreeAction_ >= FirstDynamic
  BY SlotsAre DEF Whole, TypeInv, TypeOK, Table
<1>3. /\ \A s \in Slot : s # k => actions'[s] = actions[s]
      /\ actions'[k] = IF k < FirstDynamic \/ actions[k].note # NONE THEN Translated(actions[k]) ELSE actions[k]
  BY <1>0, <1>1, <1>2 DEF RemapLink, Translated, Table
<1>4. \A s \in Slot : actions'[s].note = actions[s].note /\ actions[s].next \in Slot
  <2>1. \A s \in Slot : actions[s].next \in Slot
    BY <1>2, TableIs
  <2>2. Translated(actions[k]).note = actions[k].note
    <3>1. actions[k] = [when |-> actions[k].when, note |-> actions[k].note, next |-> actions[k].next]
      BY <1>1, <1>2, TableIs
    <3>2. QED
      BY <3>1 DEF Translated
  <2>3. QED
    BY <1>3, <2>1, <2>2
<1>5. /\ \A s \in Slot : Compacted(s)' = Compacted(s)
      /\ \A s \in Slot : Moves(s)' <=> Moves(s)
      /\ LeftInUse' = LeftInUse
  BY <1>1, <1>2, <1>4, SameUse
<1>6. PICK final :
        /\ Promises(final, LeftInUse, [i \in Timbre |-> CompactedRefs(i)])
        /\ \A s \in Slot : Moves(s) =>
             final[Compacted(s)] = IF s < k THEN actions[s] ELSE Translated(actions[s])
  BY <1>0, <1>1 DEF Whole, Remapping
<1>7. \A i \in Timbre : CompactedRefs(i)' = CompactedRefs(i)
  <2>1. \A i \in Timbre : cursor[i].next \in Slot /\ cursor[i].prev \in Slot
    BY <1>2, WalkerIs
  <2>2. QED
    BY <1>1, <1>5, <2>1 DEF CompactedRefs
<1>8. /\ final \in Table /\ LeftInUse' \in FirstDynamic .. SEQ_ACTION_SIZE
      /\ \A i \in Timbre : /\ SentryWhole(final, i, instrumentTimerMask_')
                           /\ Holds(final, LeftInUse', i, recorded'[i], CompactedRefs(i)')
  BY <1>1, <1>5, <1>6, <1>7 DEF Promises
<1>9. \A s \in Slot : Moves(s)' =>
        final[Compacted(s)'] = IF s < k + 1 THEN actions'[s] ELSE Translated(actions[s])'
  <2> SUFFICES ASSUME NEW s \in Slot, Moves(s)'
               PROVE  final[Compacted(s)'] = IF s < k + 1 THEN actions'[s] ELSE Translated(actions[s])'
    OBVIOUS
  <2>1. s \in Nat /\ k \in Nat
    BY <1>1, SlotsAre
  <2>2. Moves(s) /\ Compacted(s)' = Compacted(s)
    BY <1>5
  <2>3. final[Compacted(s)'] = IF s < k THEN actions[s] ELSE Translated(actions[s])
    BY <1>6, <2>2
  <2>4. CASE s < k
    BY <1>3, <2>1, <2>3, <2>4
  <2>5. CASE s = k
    <3>1. k < FirstDynamic \/ actions[k].note # NONE
      BY <2>2, <2>5 DEF Moves
    <3>2. actions'[s] = Translated(actions[s])
      BY <1>3, <2>5, <3>1
    <3>3. QED
      BY <2>1, <2>3, <2>5, <3>2
  <2>6. CASE s > k
    <3>1. actions'[s] = actions[s] /\ ~(s < k) /\ ~(s < k + 1)
      BY <1>3, <2>1, <2>6
    <3>2. Compacted(actions[s].next)' = Compacted(actions[s].next)
      <4>1. PICK r \in Slot : r = actions[s].next
        BY <1>4
      <4>2. actions'[s].next = r
        BY <3>1, <4>1
      <4>3. Compacted(r)' = Compacted(r)
        BY <1>5
      <4>4. QED
        BY <4>1, <4>2, <4>3
    <3>3. Translated(actions[s])' = Translated(actions[s])
      BY <3>1, <3>2 DEF Translated
    <3>4. QED
      BY <2>3, <3>1, <3>3
  <2>7. QED
    BY <2>1, <2>4, <2>5, <2>6
<1>10. NeverTrips' /\ Activated'
  <2>1. \A i \in Timbre : cursor[i].on \/ recorded[i] = {}
    BY <1>1 DEF Whole, Activated
  <2>2. QED
    BY <1>1, <2>1 DEF Whole, NeverTrips, Activated
<1>11. ~running_
  BY <1>1 DEF Whole, Rebuilding
<1>12. CASE k + 1 < lastFreeAction_
  <2>1. main' = [main EXCEPT !.k = k + 1]
    BY <1>0, <1>12 DEF RemapLink
  <2>2. main'.pc = "remap" /\ main'.k = k + 1
    BY <1>1, <2>1
  <2>3. Promises(final, LeftInUse, [i \in Timbre |-> CompactedRefs(i)])'
    BY <1>8 DEF Promises
  <2>4. Remapping'
    BY <1>9, <2>2, <2>3 DEF Remapping
  <2>5. QED
    BY <1>1, <1>10, <1>11, <2>2, <2>4 DEF Whole, Rebuilding, Settled, Unlinking, Translating, Compacting
<1>13. CASE ~(k + 1 < lastFreeAction_)
  <2>1. main' = [pc |-> "cursors", k |-> 0]
    BY <1>0, <1>13 DEF RemapLink
  <2>2. main'.pc = "cursors" /\ main'.k = 0
    BY <2>1
  <2>3. \A s \in Slot : Moves(s)' => final[Compacted(s)'] = actions'[s]
    <3>1. \A s \in Slot : Moves(s)' => s < k + 1
      <4> SUFFICES ASSUME NEW s \in Slot, Moves(s)' PROVE s < k + 1
        OBVIOUS
      <4>1. Moves(s) /\ s \in Nat /\ k \in Nat
        BY <1>1, <1>5, SlotsAre
      <4>2. s < lastFreeAction_
        BY <1>2, <4>1, SlotsAre DEF Moves, Dynamic
      <4>3. QED
        BY <1>2, <1>13, <4>1, <4>2
    <3>2. QED
      BY <1>9, <3>1
  <2>4. \A i \in Timbre : ~(i < 0)
    BY SizesAssumption DEF Timbre
  <2>5. Promises(final, LeftInUse, [i \in Timbre |-> IF i < main.k THEN CursorRefs(i) ELSE CompactedRefs(i)])'
    BY <1>8, <2>2, <2>4 DEF Promises
  <2>6. Translating'
    BY <2>2, <2>3, <2>5 DEF Translating
  <2>7. QED
    BY <1>1, <1>10, <1>11, <2>2, <2>6 DEF Whole, Rebuilding, Settled, Unlinking, Remapping, Compacting
<1>14. QED
  BY <1>12, <1>13

LEMMA RemapCursorKeeps ==
  ASSUME Whole, TypeInv', RemapCursor
  PROVE  Whole'
<1>0. PICK k : k = main.k
  OBVIOUS
<1>1. /\ main.pc = "cursors" /\ k \in Timbre /\ main = [pc |-> "cursors", k |-> k]
      /\ actions' = actions /\ lastFreeAction_' = lastFreeAction_ /\ recorded' = recorded
      /\ cursor' = [cursor EXCEPT ![k].next = Compacted(@), ![k].prev = Compacted(@)]
      /\ running_' = running_ /\ instrumentTimerMask_' = instrumentTimerMask_
  BY <1>0 DEF RemapCursor, lists, others, Whole, TypeInv, Control
<1>2. cursor \in [Timbre -> Walker]
  BY DEF Whole, TypeInv, TypeOK
<1>3. /\ cursor'[k].next = Compacted(cursor[k].next) /\ cursor'[k].prev = Compacted(cursor[k].prev)
      /\ cursor'[k].on = cursor[k].on /\ cursor'[k].poisoned = cursor[k].poisoned
      /\ \A i \in Timbre : i # k => cursor'[i] = cursor[i]
  <2>1. cursor' = [cursor EXCEPT ![k] = [cursor[k] EXCEPT !.next = Compacted(cursor[k].next),
                                                          !.prev = Compacted(cursor[k].prev)]]
    BY <1>1, <1>2
  <2>2. cursor'[k] = [cursor[k] EXCEPT !.next = Compacted(cursor[k].next), !.prev = Compacted(cursor[k].prev)]
    BY <1>1, <1>2, <2>1
  <2>3. QED
    BY <1>1, <1>2, <2>1, <2>2 DEF Walker
<1>4. /\ \A s : Compacted(s)' = Compacted(s)
      /\ \A s : Moves(s)' <=> Moves(s)
      /\ LeftInUse' = LeftInUse
  BY <1>1 DEF Compacted, Moves, Dynamic, LeftInUse, Rank
<1>5. PICK final :
        /\ Promises(final, LeftInUse, [i \in Timbre |-> IF i < k THEN CursorRefs(i) ELSE CompactedRefs(i)])
        /\ \A s \in Slot : Moves(s) => final[Compacted(s)] = actions[s]
  BY <1>0, <1>1 DEF Whole, Translating
<1>6. ASSUME NEW i \in Timbre
      PROVE  (IF i < k + 1 THEN CursorRefs(i)' ELSE CompactedRefs(i)')
               = (IF i < k THEN CursorRefs(i) ELSE CompactedRefs(i))
  <2>1. i \in Nat /\ k \in Nat
    BY <1>1, SizesAssumption DEF Timbre
  <2>2. CASE i = k
    <3>1. CursorRefs(i)' = CompactedRefs(i)
      BY <1>3, <2>2 DEF CursorRefs, CompactedRefs
    <3>2. QED
      BY <2>1, <2>2, <3>1
  <2>3. CASE i # k
    <3>1. CursorRefs(i)' = CursorRefs(i)
      BY <1>3, <2>3 DEF CursorRefs
    <3>2. CompactedRefs(i)' = CompactedRefs(i)
      BY <1>3, <1>4, <2>3 DEF CompactedRefs
    <3>3. (i < k + 1) <=> (i < k)
      BY <2>1, <2>3
    <3>4. QED
      BY <3>1, <3>2, <3>3
  <2>4. QED
    BY <2>2, <2>3
<1>7. /\ final \in Table /\ LeftInUse' \in FirstDynamic .. SEQ_ACTION_SIZE
      /\ \A i \in Timbre :
           /\ SentryWhole(final, i, instrumentTimerMask_')
           /\ Holds(final, LeftInUse', i, recorded'[i],
                    IF i < k + 1 THEN CursorRefs(i)' ELSE CompactedRefs(i)')
  <2>1. final \in Table /\ LeftInUse' \in FirstDynamic .. SEQ_ACTION_SIZE
    BY <1>4, <1>5 DEF Promises
  <2>2. ASSUME NEW i \in Timbre
        PROVE  /\ SentryWhole(final, i, instrumentTimerMask_')
               /\ Holds(final, LeftInUse', i, recorded'[i],
                        IF i < k + 1 THEN CursorRefs(i)' ELSE CompactedRefs(i)')
    <3>1. /\ SentryWhole(final, i, instrumentTimerMask_)
          /\ Holds(final, LeftInUse, i, recorded[i], IF i < k THEN CursorRefs(i) ELSE CompactedRefs(i))
      BY <1>5 DEF Promises
    <3>2. QED
      BY <1>1, <1>4, <1>6, <3>1
  <2>3. QED
    BY <2>1, <2>2
<1>8. NeverTrips' /\ Activated'
  <2> SUFFICES ASSUME NEW i \in Timbre
               PROVE  ~cursor'[i].poisoned /\ (cursor'[i].on \/ recorded'[i] = {})
    BY DEF NeverTrips, Activated
  <2>1. ~cursor[i].poisoned /\ (cursor[i].on \/ recorded[i] = {})
    BY <1>1 DEF Whole, NeverTrips, Activated
  <2>2. QED
    BY <1>1, <1>3, <2>1
<1>9. ~running_
  BY <1>1 DEF Whole, Rebuilding
<1>10. CASE k + 1 < NUMBER_OF_TIMBRES
  <2>1. main' = [main EXCEPT !.k = k + 1]
    BY <1>0, <1>10 DEF RemapCursor
  <2>2. main'.pc = "cursors" /\ main'.k = k + 1
    BY <1>1, <2>1
  <2>3. Promises(final, LeftInUse, [i \in Timbre |-> IF i < main.k THEN CursorRefs(i) ELSE CompactedRefs(i)])'
    BY <1>7, <2>2 DEF Promises
  <2>4. \A s \in Slot : Moves(s)' => final[Compacted(s)'] = actions'[s]
    BY <1>1, <1>4, <1>5
  <2>5. Translating'
    BY <2>2, <2>3, <2>4 DEF Translating
  <2>6. QED
    BY <1>1, <1>8, <1>9, <2>2, <2>5 DEF Whole, Rebuilding, Settled, Unlinking, Remapping, Compacting
<1>11. CASE ~(k + 1 < NUMBER_OF_TIMBRES)
  <2>1. main' = [pc |-> "compact", k |-> FirstDynamic, to |-> FirstDynamic]
    BY <1>0, <1>11 DEF RemapCursor
  <2>2. main'.pc = "compact" /\ main'.k = FirstDynamic /\ main'.to = FirstDynamic
    BY <2>1
  <2>3. \A i \in Timbre : i < k + 1
    BY <1>1, <1>11, SizesAssumption DEF Timbre
  <2>4. LeftInUse' = Rank(actions', FirstDynamic, FirstDynamic, lastFreeAction_')
    BY DEF LeftInUse, Rank
  <2>5. Promises(final, Rank(actions, main.k, main.to, lastFreeAction_), [i \in Timbre |-> CursorRefs(i)])'
    <3>1. Rank(actions, main.k, main.to, lastFreeAction_)' = LeftInUse'
      BY <2>2, <2>4 DEF Rank
    <3>2. \A i \in Timbre : /\ SentryWhole(final, i, instrumentTimerMask_')
                            /\ Holds(final, LeftInUse', i, recorded'[i], CursorRefs(i)')
      BY <1>7, <2>3
    <3>3. QED
      BY <1>7, <3>1, <3>2 DEF Promises
  <2>6. \A s \in Slot : s < FirstDynamic => final[s] = actions'[s]
    <3> SUFFICES ASSUME NEW s \in Slot, s < FirstDynamic PROVE final[s] = actions[s]
      BY <1>1
    <3>1. Moves(s) /\ ~Dynamic(s)
      BY SlotsAre DEF Moves, Dynamic
    <3>2. Compacted(s) = s
      BY <3>1 DEF Compacted
    <3>3. QED
      BY <1>5, <3>1, <3>2
  <2>7. \A s \in FirstDynamic .. lastFreeAction_' - 1 :
          actions'[s].note # NONE => final[Rank(actions', FirstDynamic, FirstDynamic, s)] = actions'[s]
    <3> SUFFICES ASSUME NEW s \in FirstDynamic .. lastFreeAction_ - 1, actions[s].note # NONE
                 PROVE  final[Rank(actions, FirstDynamic, FirstDynamic, s)] = actions[s]
      BY <1>1
    <3>1. s \in Slot /\ Dynamic(s)
      BY SlotsAre DEF Dynamic, Whole, TypeInv, TypeOK, Slot
    <3>2. Moves(s)
      BY <3>1 DEF Moves
    <3>3. Compacted(s) = Rank(actions, FirstDynamic, FirstDynamic, s)
      BY <3>1 DEF Compacted, Rank
    <3>4. QED
      BY <1>5, <3>1, <3>2, <3>3
  <2>8. Compacting'
    <3>1. \A s \in Slot : s < main'.to => final[s] = actions'[s]
      BY <2>2, <2>6
    <3>2. \A s \in main'.k .. lastFreeAction_' - 1 :
            actions'[s].note # NONE => final[Rank(actions, main.k, main.to, s)'] = actions'[s]
      BY <2>2, <2>7 DEF Rank
    <3>3. QED
      BY <2>5, <3>1, <3>2 DEF Compacting
  <2>9. QED
    BY <1>1, <1>8, <1>9, <2>2, <2>8 DEF Whole, Rebuilding, Settled, Unlinking, Remapping, Translating
<1>12. QED
  BY <1>10, <1>11

LEMMA CompactKeeps ==
  ASSUME Whole, TypeInv', Compact
  PROVE  Whole'
<1>0. PICK k, to, limit : k = main.k /\ to = main.to /\ limit = lastFreeAction_
  OBVIOUS
<1>1. /\ main.pc = "compact" /\ main = [pc |-> "compact", k |-> k, to |-> to]
      /\ k \in FirstDynamic .. limit /\ to \in FirstDynamic .. k /\ k < limit
      /\ lastFreeAction_' = limit /\ recorded' = recorded /\ cursor' = cursor
      /\ running_' = running_ /\ instrumentTimerMask_' = instrumentTimerMask_
  BY <1>0 DEF Compact, others, Whole, TypeInv, Control
<1>2. /\ actions \in Table /\ FirstDynamic \in Nat /\ k \in Nat /\ to \in Nat /\ limit \in Nat
      /\ limit <= SEQ_ACTION_SIZE /\ k \in Slot /\ to \in Slot
  <2>1. actions \in Table /\ limit \in FirstDynamic .. SEQ_ACTION_SIZE
    BY <1>0 DEF Whole, TypeInv, TypeOK, Table
  <2>2. QED
    BY <1>1, <2>1, SlotsAre DEF Slot
<1>3. PICK final :
        /\ Promises(final, Rank(actions, k, to, limit), [i \in Timbre |-> CursorRefs(i)])
        /\ \A s \in Slot : s < to => final[s] = actions[s]
        /\ \A s \in k .. limit - 1 : actions[s].note # NONE => final[Rank(actions, k, to, s)] = actions[s]
  BY <1>0, <1>1 DEF Whole, Compacting
<1>4. PICK on : on = IF actions[k].note # NONE THEN to + 1 ELSE to
  OBVIOUS
<1>5. main' = [pc |-> "compact", k |-> k + 1, to |-> on]
  BY <1>0, <1>1, <1>4 DEF Compact
<1>6. /\ \A s \in Slot : s # to => actions'[s] = actions[s]
      /\ actions[k].note # NONE => actions'[to] = actions[k]
      /\ ~(actions[k].note # NONE) => actions' = actions
  BY <1>0, <1>2 DEF Compact, Table
<1>7. ASSUME NEW s \in Nat, k < s, s <= limit
      PROVE  Rank(actions', k + 1, on, s) = Rank(actions, k, to, s)
  <2>1. \A x \in k + 1 .. s - 1 : x \in Slot /\ x # to
    BY <1>1, <1>2, <1>7, SlotsAre DEF Slot
  <2>2. \A x \in k + 1 .. s - 1 : (actions'[x].note # NONE) <=> (actions[x].note # NONE)
    BY <1>6, <2>1
  <2>3. Rank(actions', k + 1, on, s) = Rank(actions, k + 1, on, s)
    BY <2>2, RankSame
  <2>4. Rank(actions, k, to, s) = IF actions[k].note # NONE THEN Rank(actions, k + 1, to + 1, s)
                                  ELSE Rank(actions, k + 1, to, s)
    BY <1>2, <1>7, RankRest
  <2>5. QED
    BY <1>4, <2>3, <2>4
<1>8. \A s \in Slot : s < on => final[s] = actions'[s]
  <2> SUFFICES ASSUME NEW s \in Slot, s < on PROVE final[s] = actions'[s]
    OBVIOUS
  <2>1. s \in Nat
    BY SlotsAre
  <2>2. CASE s < to
    BY <1>2, <1>3, <1>6, <2>1, <2>2
  <2>3. CASE ~(s < to)
    <3>1. actions[k].note # NONE /\ s = to
      BY <1>2, <1>4, <2>1, <2>3
    <3>2. Rank(actions, k, to, k) = to
      BY <1>2, RankStarts
    <3>3. k \in k .. limit - 1
      BY <1>1, <1>2
    <3>4. final[to] = actions[k]
      BY <1>3, <3>1, <3>2, <3>3
    <3>5. QED
      BY <1>6, <3>1, <3>4
  <2>4. QED
    BY <2>2, <2>3
<1>9. \A s \in k + 1 .. limit - 1 : actions'[s].note # NONE => final[Rank(actions', k + 1, on, s)] = actions'[s]
  <2> SUFFICES ASSUME NEW s \in k + 1 .. limit - 1, actions'[s].note # NONE
               PROVE  final[Rank(actions', k + 1, on, s)] = actions'[s]
    OBVIOUS
  <2>1. s \in Nat /\ k < s /\ s <= limit /\ s \in k .. limit - 1 /\ s \in Slot /\ s # to
    BY <1>1, <1>2, SlotsAre DEF Slot
  <2>2. actions'[s] = actions[s]
    BY <1>6, <2>1
  <2>3. Rank(actions', k + 1, on, s) = Rank(actions, k, to, s)
    BY <1>7, <2>1
  <2>4. QED
    BY <1>3, <2>1, <2>2, <2>3
<1>10. main'.pc = "compact" /\ main'.k = k + 1 /\ main'.to = on
  BY <1>5
<1>11. Compacting'
  <2>1. Rank(actions, main.k, main.to, lastFreeAction_)' = Rank(actions', k + 1, on, limit)
    BY <1>1, <1>10 DEF Rank
  <2>2. Rank(actions', k + 1, on, limit) = Rank(actions, k, to, limit)
    BY <1>1, <1>2, <1>7
  <2>3. \A i \in Timbre : CursorRefs(i)' = CursorRefs(i)
    BY <1>1 DEF CursorRefs
  <2>4. /\ final \in Table /\ Rank(actions, k, to, limit) \in FirstDynamic .. SEQ_ACTION_SIZE
        /\ \A i \in Timbre : /\ SentryWhole(final, i, instrumentTimerMask_)
                             /\ Holds(final, Rank(actions, k, to, limit), i, recorded[i], CursorRefs(i))
    BY <1>3 DEF Promises
  <2>5. \A i \in Timbre :
          /\ SentryWhole(final, i, instrumentTimerMask_')
          /\ Holds(final, Rank(actions, main.k, main.to, lastFreeAction_)', i, recorded'[i], CursorRefs(i)')
    BY <1>1, <2>1, <2>2, <2>3, <2>4
  <2>6. Promises(final, Rank(actions, main.k, main.to, lastFreeAction_), [i \in Timbre |-> CursorRefs(i)])'
    BY <2>1, <2>2, <2>4, <2>5 DEF Promises
  <2>7. \A s \in Slot : s < main'.to => final[s] = actions'[s]
    BY <1>8, <1>10
  <2>8. \A s \in main'.k .. lastFreeAction_' - 1 :
          actions'[s].note # NONE => final[Rank(actions, main.k, main.to, s)'] = actions'[s]
    BY <1>1, <1>9, <1>10 DEF Rank
  <2>9. QED
    BY <2>6, <2>7, <2>8 DEF Compacting
<1>12. NeverTrips' /\ Activated'
  <2>1. \A i \in Timbre : cursor[i].on \/ recorded[i] = {}
    BY <1>1 DEF Whole, Activated
  <2>2. QED
    BY <1>1, <2>1 DEF Whole, NeverTrips, Activated
<1>13. ~running_
  BY <1>1 DEF Whole, Rebuilding
<1>14. QED
  BY <1>1, <1>10, <1>11, <1>12, <1>13 DEF Whole, Rebuilding, Settled, Unlinking, Remapping, Translating

LEMMA FinishClearKeeps ==
  ASSUME Whole, TypeInv', FinishClear
  PROVE  Whole'
<1>0. PICK to, limit : to = main.to /\ limit = lastFreeAction_
  OBVIOUS
<1>1. /\ main.pc = "compact" /\ main.k = limit /\ main' = idle
      /\ to \in FirstDynamic .. limit
      /\ lastFreeAction_' = to /\ recorded' = recorded /\ cursor' = cursor
      /\ running_' = running_ /\ instrumentTimerMask_' = instrumentTimerMask_
      /\ actions' = [s \in Slot |-> IF s \in to .. limit - 1
                                    THEN [actions[s] EXCEPT !.note = NONE] ELSE actions[s]]
  BY <1>0 DEF FinishClear, others, Whole, TypeInv, Control
<1>2. /\ FirstDynamic \in Nat /\ to \in Nat /\ limit \in Nat /\ to >= FirstDynamic
  <2>1. limit \in FirstDynamic .. SEQ_ACTION_SIZE
    BY <1>0 DEF Whole, TypeInv, TypeOK
  <2>2. QED
    BY <1>1, <2>1, SlotsAre
<1>3. Rank(actions, limit, to, limit) = to
  BY <1>2, RankStarts
<1>4. PICK final :
        /\ Promises(final, to, [i \in Timbre |-> CursorRefs(i)])
        /\ \A s \in Slot : s < to => final[s] = actions[s]
  <2>1. \E final : /\ Promises(final, Rank(actions, limit, to, limit), [i \in Timbre |-> CursorRefs(i)])
                   /\ \A s \in Slot : s < to => final[s] = actions[s]
    BY <1>0, <1>1 DEF Whole, Compacting
  <2>2. QED
    BY <1>3, <2>1
<1>5. \A s \in Slot : s < to => actions'[s] = final[s]
  <2> SUFFICES ASSUME NEW s \in Slot, s < to PROVE actions'[s] = final[s]
    OBVIOUS
  <2>1. s \notin to .. limit - 1
    BY <1>2, SlotsAre
  <2>2. QED
    BY <1>1, <1>4, <2>1
<1>6. /\ main'.pc = "idle" /\ ~Rebuilding' /\ main'.pc # "load" /\ Live' = to
      /\ main'.pc \notin {"publish", "link", "cursor", "tailWhen"}
  BY <1>1 DEF idle, Rebuilding, Live
<1>7. ASSUME NEW i \in Timbre PROVE ListSound(i)'
  <2>1. SentryWhole(final, i, instrumentTimerMask_) /\ Holds(final, to, i, recorded[i], CursorRefs(i))
    BY <1>4 DEF Promises
  <2>2. HeadOf(i) \in Slot /\ TailOf(i) \in Slot /\ HeadOf(i) < to /\ TailOf(i) < to
    BY <1>2, SlotsAre
  <2>3. \A s \in Slot : s = HeadOf(i) \/ (s >= FirstDynamic /\ s < to) => actions'[s] = final[s]
    BY <1>5, <2>2
  <2>4. Holds(actions', to, i, recorded[i], CursorRefs(i))
    BY <1>2, <2>1, <2>3, HoldsSame
  <2>5. Refs(i)' = CursorRefs(i)
    BY <1>1, <1>6 DEF Refs, CursorRefs
  <2>6. Holds(actions', Live', i, recorded'[i], Refs(i)')
    BY <1>1, <1>6, <2>4, <2>5
  <2>7. SentryWhole(actions', i, instrumentTimerMask_)
    <3>1. actions'[HeadOf(i)] = final[HeadOf(i)] /\ actions'[TailOf(i)] = final[TailOf(i)]
      BY <1>5, <2>2
    <3>2. QED
      BY <2>1, <3>1 DEF SentryWhole, Sentry
  <2>8. Sentry(actions, i)' /\ TailOnTime(i)'
    BY <1>1, <2>7 DEF SentryWhole, Sentry, TailOnTime
  <2>9. QED
    BY <2>6, <2>8 DEF ListSound
<1>8. Settled'
  BY <1>6, <1>7 DEF Settled
<1>9. NeverTrips' /\ Activated'
  <2>1. \A i \in Timbre : cursor[i].on \/ recorded[i] = {}
    BY <1>1 DEF Whole, Activated
  <2>2. QED
    BY <1>1, <2>1 DEF Whole, NeverTrips, Activated
<1>10. QED
  BY <1>6, <1>8, <1>9 DEF Whole, Rebuilding, Unlinking, Remapping, Translating, Compacting

LEMMA ClearKeeps ==
  ASSUME Whole, TypeInv', ~ClearWhileRunning, Clear
  PROVE  Whole'
BY BeginClearKeeps, UnlinkKeeps, RemapLinkKeeps, RemapCursorKeeps, CompactKeeps, FinishClearKeeps DEF Clear

-----------------------------------------------------------------------------
(* Every step keeps the lists whole.                                         *)
LEMMA WholeStep ==
  ASSUME ~ClearWhileRunning, ~ChangeWhilePending, Whole, [Next]_vars
  PROVE  Whole'
<1>1. TypeInv'
  <2>1. CASE Next
    BY <2>1, ListTypesStep DEF Whole
  <2>2. CASE UNCHANGED vars
    BY <2>2 DEF Whole, vars, TypeInv, TypeOK, Control
  <2>3. QED
    BY <2>1, <2>2
<1>2. CASE UNCHANGED vars
  <2>1. /\ actions' = actions /\ lastFreeAction_' = lastFreeAction_ /\ cursor' = cursor
        /\ instrumentTimerMask_' = instrumentTimerMask_ /\ running_' = running_ /\ main' = main
        /\ notes' = notes /\ recorded' = recorded
    BY <1>2 DEF vars
  <2>2. NeverTrips' /\ Activated' /\ (Rebuilding => ~running_)' /\ main'.pc # "load"
    BY <2>1 DEF Whole, NeverTrips, Activated, Rebuilding
  <2>3. Rebuilding' = Rebuilding /\ Live' = Live /\ \A i : CursorRefs(i)' = CursorRefs(i)
    BY <2>1 DEF Rebuilding, Live, CursorRefs
  <2>4. \A i : Refs(i)' = Refs(i)
    BY <2>1, <2>3 DEF Refs
  <2>5. \A s : Compacted(s)' = Compacted(s) /\ (Moves(s)' <=> Moves(s))
    BY <2>1 DEF Compacted, Moves, Dynamic
  <2>6. LeftInUse' = LeftInUse /\ \A i : CompactedRefs(i)' = CompactedRefs(i)
    BY <2>1, <2>5 DEF LeftInUse, Rank, CompactedRefs
  <2>7. Settled'
    <3>1. \A i \in Timbre : ListSound(i)' <=> ListSound(i)
      BY <2>1, <2>3, <2>4 DEF ListSound, Holds, Sentry, TailOnTime
    <3>2. Placed' = Placed /\ Filled' = Filled
      BY <2>1 DEF Placed, Filled
    <3>3. QED
      BY <2>1, <2>3, <3>1, <3>2 DEF Whole, Settled
  <2>8. Unlinking'
    BY <2>1, <2>3 DEF Whole, Unlinking
  <2>9. Remapping'
    <3>1. SUFFICES ASSUME main.pc = "remap" PROVE Remapping'
      BY <2>1 DEF Remapping
    <3>2. PICK final :
            /\ Promises(final, LeftInUse, [i \in Timbre |-> CompactedRefs(i)])
            /\ \A s \in Slot : Moves(s) =>
                 final[Compacted(s)] = IF s < main.k THEN actions[s] ELSE Translated(actions[s])
      BY <3>1 DEF Whole, Remapping
    <3>3. Promises(final, LeftInUse, [i \in Timbre |-> CompactedRefs(i)])'
      BY <2>1, <2>6, <3>2 DEF Promises
    <3>4. \A s \in Slot : Moves(s)' =>
            final[Compacted(s)'] = IF s < main'.k THEN actions'[s] ELSE Translated(actions[s])'
      BY <2>1, <2>5, <3>2 DEF Translated
    <3>5. QED
      BY <3>3, <3>4 DEF Remapping
  <2>10. Translating'
    <3>1. SUFFICES ASSUME main.pc = "cursors" PROVE Translating'
      BY <2>1 DEF Translating
    <3>2. PICK final :
            /\ Promises(final, LeftInUse,
                        [i \in Timbre |-> IF i < main.k THEN CursorRefs(i) ELSE CompactedRefs(i)])
            /\ \A s \in Slot : Moves(s) => final[Compacted(s)] = actions[s]
      BY <3>1 DEF Whole, Translating
    <3>3. Promises(final, LeftInUse,
                   [i \in Timbre |-> IF i < main.k THEN CursorRefs(i) ELSE CompactedRefs(i)])'
      BY <2>1, <2>3, <2>6, <3>2 DEF Promises
    <3>4. \A s \in Slot : Moves(s)' => final[Compacted(s)'] = actions'[s]
      BY <2>1, <2>5, <3>2
    <3>5. QED
      BY <3>3, <3>4 DEF Translating
  <2>11. Compacting'
    BY <2>1, <2>3 DEF Whole, Compacting, Promises, Rank
  <2>12. QED
    BY <1>1, <2>2, <2>7, <2>8, <2>9, <2>10, <2>11 DEF Whole
<1>3. CASE MainSequencerTic
  BY <1>1, <1>3, TicKeeps
<1>4. CASE Start \/ Stop \/ Rewind
  BY <1>1, <1>4, TransportKeeps
<1>5. CASE Reset \/ SetMask \/ SetTailWhen \/ SetOutOfSync
  BY <1>1, <1>5, LengthKeeps
<1>6. CASE RepairList \/ InsertNote
  BY <1>1, <1>6, InsertKeeps
<1>7. CASE FindPosition
  BY <1>1, <1>7, FindKeeps
<1>8. CASE Publish
  BY <1>1, <1>8, PublishKeeps
<1>9. CASE LinkNote
  BY <1>1, <1>9, LinkKeeps
<1>10. CASE SetPrevious \/ SetSeqActivated
  BY <1>1, <1>10, ActivateKeeps
<1>11. CASE Clear
  BY <1>1, <1>11, ClearKeeps
<1>12. QED
  BY <1>2, <1>3, <1>4, <1>5, <1>6, <1>7, <1>8, <1>9, <1>10, <1>11 DEF Next, MainLoop, Insert

(* The invariant that a list in order satisfies. *)
LEMMA WholeHolds ==
  ASSUME Whole
  PROVE  ListsHoldWhatWasRecorded
<1> SUFFICES ASSUME ~Rebuilding, NEW i \in Timbre
             PROVE  /\ Ends(i)
                    /\ {actions[s].note : s \in Nodes(i)} = recorded[i]
                    /\ \A s \in Nodes(i) :
                         /\ Dynamic(s)
                         /\ actions[s].next # TailOf(i) => actions[actions[s].next].when >= actions[s].when
  BY DEF ListsHoldWhatWasRecorded
<1>1. PICK limit : limit = Live
  OBVIOUS
<1>2. PICK n, o : n \in Nat /\ Order(actions, limit, i, n, o) /\ NotesOn(actions, n, o) = recorded[i]
  BY <1>1 DEF Whole, Settled, ListSound, Holds
<1> n \in Nat
  BY <1>2
<1>3. /\ actions \in Table /\ lastFreeAction_ \in FirstDynamic .. SEQ_ACTION_SIZE
      /\ limit \in Nat /\ limit >= FirstDynamic /\ limit <= SEQ_ACTION_SIZE /\ limit <= lastFreeAction_
  BY <1>1, LiveIs DEF Whole, TypeInv, TypeOK, Table
<1>4. Order(actions, limit, i, n, o)
  BY <1>2
<1>5. Ends(i) /\ Nodes(i) = {o[k] : k \in 1 .. n}
  BY <1>3, <1>4, ChainIsOrder
<1>6. {actions[s].note : s \in Nodes(i)} = recorded[i]
  BY <1>2, <1>5 DEF NotesOn
<1>7. \A s \in Nodes(i) :
        /\ Dynamic(s) /\ actions[s].note # NONE
        /\ actions[s].next # TailOf(i) => actions[actions[s].next].when >= actions[s].when
  BY <1>3, <1>4, OrderIsSound
<1>8. QED
  BY <1>5, <1>6, <1>7

LEMMA WholeHears ==
  ASSUME Whole, TypeInv', MainSequencerTic, NEW i \in Timbre, cursor[i].on, NEW played \in Heard(i)
  PROVE  /\ \A j, k \in DOMAIN played :
              j < k /\ played[j] = played[k] => actions[played[j]].note = NONE
         /\ \A k \in DOMAIN played : actions[played[k]].note \in recorded[i] \cup {NONE}
<1>1. PICK counter \in Time : played = Walk(i, counter).played
  BY DEF Heard, TypeInv, TypeOK
<1>2. ~Rebuilding
  BY DEF MainSequencerTic, Whole
<1>3. PICK n, o :
        /\ n \in Nat
        /\ Order(actions, Live, i, n, o) /\ NotesOn(actions, n, o) = recorded[i]
        /\ played \in Seq(Slot)
        /\ \A k \in 1 .. Len(played) : played[k] \in Span(n, o)
        /\ \A j \in 1 .. Len(played), k \in 1 .. Len(played) : j < k => played[j] # played[k]
  BY <1>1, <1>2, WalkOnList
<1> n \in Nat
  BY <1>3
<1>4. DOMAIN played = 1 .. Len(played)
  BY <1>3
<1>5. \A s \in Span(n, o) : actions[s].note \in recorded[i] \cup {NONE}
  <2> SUFFICES ASSUME NEW k \in 0 .. n + 1 PROVE actions[o[k]].note \in recorded[i] \cup {NONE}
    BY DEF Span
  <2>1. o[0] = HeadOf(i) /\ o[n + 1] = TailOf(i)
    BY <1>3 DEF Order
  <2>2. Sentry(actions, i)
    BY <1>2 DEF Whole, Settled, ListSound
  <2>3. k = 0 \/ k = n + 1 \/ k \in 1 .. n
    OBVIOUS
  <2>4. \A x \in 1 .. n : actions[o[x]].note \in recorded[i]
    BY <1>3 DEF NotesOn
  <2>5. QED
    BY <2>1, <2>2, <2>3, <2>4 DEF Sentry
<1>6. QED
  BY <1>3, <1>4, <1>5

(* While the lists are only cleared with the walk stopped, and a length is   *)
(* only changed again once the walk has caught up with the last change:      *)
(* whatever the main loop is in the middle of, a list is a chain in time     *)
(* order over live slots from its head to its tail, and holds exactly the    *)
(* notes it accepted.  For any number of lists, slots, notes, clears and     *)
(* walks.                                                                    *)
THEOREM ListsAreKept ==
  ASSUME ~ClearWhileRunning, ~ChangeWhilePending
  PROVE  Spec => []ListsHoldWhatWasRecorded
<1>1. Init => Whole
  BY WholeInit
<1>2. Whole /\ [Next]_vars => Whole'
  BY WholeStep
<1>3. Whole => ListsHoldWhatWasRecorded
  BY WholeHolds
<1>4. QED
  BY <1>1, <1>2, <1>3, PTL DEF Spec

(* ... the bounds that stop a walk over a corrupted list never stop one over *)
(* a list that this program has built, ...                                   *)
THEOREM WalksNeverTrip ==
  ASSUME ~ClearWhileRunning, ~ChangeWhilePending
  PROVE  Spec => []NeverTrips
<1>1. Init => Whole
  BY WholeInit
<1>2. Whole /\ [Next]_vars => Whole'
  BY WholeStep
<1>3. Whole => NeverTrips
  BY DEF Whole
<1>4. QED
  BY <1>1, <1>2, <1>3, PTL DEF Spec

(* ... and a walk plays no slot twice, and only notes of the list, whatever  *)
(* the timer jumped.                                                         *)
THEOREM WalksPlayOnce ==
  ASSUME ~ClearWhileRunning, ~ChangeWhilePending
  PROVE  Spec => HeardOnce
<1> DEFINE A == MainSequencerTic =>
                  \A i \in Timbre : cursor[i].on =>
                    \A played \in Heard(i) :
                      /\ \A j, k \in DOMAIN played :
                           j < k /\ played[j] = played[k] => actions[played[j]].note = NONE
                      /\ \A k \in DOMAIN played :
                           actions[played[k]].note \in recorded[i] \cup {NONE}
<1>1. Init => Whole
  BY WholeInit
<1>2. Whole /\ [Next]_vars => Whole' /\ [A]_vars
  <2>1. Whole /\ [Next]_vars => Whole'
    BY WholeStep
  <2>2. Whole /\ Whole' => A
    BY WholeHears DEF Whole
  <2>3. QED
    BY <2>1, <2>2
<1>3. QED
  BY <1>1, <1>2, PTL DEF Spec, HeardOnce
=============================================================================
