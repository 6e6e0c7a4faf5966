---------------------------- MODULE VoicesProofs ----------------------------
(***************************************************************************)
(* Theorems about Voices for every set of keys, every number of voices and  *)
(* every size of the stack of keys, in every play mode and glide type.      *)
(***************************************************************************)
EXTENDS Voices, SequenceTheorems, FiniteSetTheorems, WellFoundedInduction, TLAPS

USE VoicesAssumption

(* The least element of a set of natural numbers. *)
LEMMA LeastExists ==
  ASSUME NEW S \in SUBSET Nat, S # {}
  PROVE  \E x \in S : \A y \in S : x <= y
<1> DEFINE R == {p \in Nat \X Nat : p[1] < p[2]}
<1>1. R = OpToRel(<, Nat)
  BY DEF OpToRel
<1>2. IsWellFoundedOn(R, Nat)
  BY <1>1, NatLessThanWellFounded
<1>3. PICK x \in S : \A y \in S : ~(<<y, x>> \in R)
  BY <1>2, WFMin
<1>4. \A y \in S : y \in Nat /\ x \in Nat /\ ~(y < x)
  BY <1>3
<1>5. \A y \in S : x <= y
  BY <1>4
<1>6. QED
  BY <1>5

LEMMA MinIsLeast ==
  ASSUME NEW S \in SUBSET Nat, S # {}
  PROVE  Min(S) \in S
  BY LeastExists DEF Min

-----------------------------------------------------------------------------
(* The operations of a voice keep its fields in their types: a pending note *)
(* is a key, with or without the mark of its early note-off.                *)
TypedVoice == {v \in VoiceType(Keys) : v.newNotePending => v.pendingNote # None}

LEMMA GlidesTyped ==
  ASSUME NEW v \in TypedVoice, NEW n \in Keys \cup {None}
  PROVE  GlideFirstNoteOff(v) \in TypedVoice /\ GlideToNote(v, n) \in TypedVoice
  BY DEF TypedVoice, VoiceType, GlideFirstNoteOff, GlideToNote, None

LEMMA NoteOnTyped ==
  ASSUME NEW v \in TypedVoice, NEW n \in Keys
  PROVE  NoteOn(v, n, how) \in TypedVoice
<1> DEFINE glide == [GlideToNote(v, n) EXCEPT !.newGlide = TRUE]
           from == IF how.mode # "POLY" /\ how.glide = "ALWAYS" THEN glide ELSE v
<1>1. glide \in TypedVoice
  <2>1. GlideToNote(v, n) \in TypedVoice
    BY GlidesTyped
  <2>2. QED
    BY <2>1 DEF TypedVoice, VoiceType
<1>2. from \in VoiceType(Keys)
  BY <1>1 DEF TypedVoice
<1> HIDE DEF from
<1>3. [from EXCEPT !.note = n, !.playing = TRUE, !.released = FALSE,
                   !.newNotePending = FALSE, !.pendingNote = None,
                   !.newNotePlayed = TRUE, !.noteAlreadyFinished = 0,
                   !.holdedByPedal = FALSE] \in TypedVoice
  BY <1>2 DEF TypedVoice, VoiceType
<1>4. QED
  BY <1>3 DEF NoteOn, from

LEMMA NoteOnWithoutPopTyped ==
  ASSUME NEW v \in TypedVoice, NEW n \in Keys
  PROVE  NoteOnWithoutPop(v, n, how) \in TypedVoice
<1> DEFINE g == GlideToNote(v, n)
<1>1. [g EXCEPT !.newGlide = FALSE, !.holdedByPedal = FALSE, !.noteAlreadyFinished = 0]
        \in TypedVoice
  <2>1. g \in TypedVoice
    BY GlidesTyped
  <2> HIDE DEF g
  <2>2. QED
    BY <2>1 DEF TypedVoice, VoiceType
<1>2. [v EXCEPT !.note = n, !.released = FALSE,
                !.newNotePending = TRUE, !.pendingNote = n,
                !.newNotePlayed = FALSE, !.noteAlreadyFinished = 0,
                !.env = "quick"] \in TypedVoice
  <2>1. n # None
    BY DEF None
  <2>2. QED
    BY <2>1 DEF TypedVoice, VoiceType, EnvStates
<1>3. QED
  BY <1>1, <1>2 DEF NoteOnWithoutPop

(* A second mark wipes out the first one. *)
LEMMA MarkTyped ==
  ASSUME NEW p \in Keys \cup {n + 128 : n \in Keys}
  PROVE  (p + 128) % 256 \in Keys \cup {n + 128 : n \in Keys}
<1>1. \A n \in 1 .. 127 : (n + 128) % 256 = n + 128 /\ ((n + 128) + 128) % 256 = n
  OBVIOUS
<1>2. QED
  BY <1>1

LEMMA NoteOffTyped ==
  ASSUME NEW v \in TypedVoice
  PROVE  NoteOff(v) \in TypedVoice
<1>1. CASE v.newNotePending /\ v.playing
  <2>1. v.pendingNote \in Keys \cup {n + 128 : n \in Keys}
    BY <1>1 DEF TypedVoice, VoiceType
  <2>2. (v.pendingNote + 128) % 256 \in Keys \cup {n + 128 : n \in Keys}
    BY <2>1, MarkTyped
  <2>3. NoteOff(v) = [v EXCEPT !.pendingNote = (v.pendingNote + 128) % 256]
    BY <1>1 DEF NoteOff
  <2>4. 0 \notin Keys \cup {n + 128 : n \in Keys}
    OBVIOUS
  <2>5. QED
    BY <2>2, <2>3, <2>4 DEF TypedVoice, VoiceType, None
<1>2. CASE ~v.newNotePending \/ ~v.playing
  <2>1. [v EXCEPT !.noteAlreadyFinished = 1] \in TypedVoice
    BY DEF TypedVoice, VoiceType
  <2>2. [v EXCEPT !.released = TRUE, !.holdedByPedal = FALSE, !.env = "release"] \in TypedVoice
    BY DEF TypedVoice, VoiceType, EnvStates
  <2>3. QED
    BY <1>2, <2>1, <2>2 DEF NoteOff
<1>3. QED
  BY <1>1, <1>2

LEMMA SilencedTyped ==
  ASSUME NEW v \in TypedVoice
  PROVE  /\ KillNow(v) \in TypedVoice /\ NoteOffQuick(v) \in TypedVoice
         /\ CancelPendingNoteOn(v) \in TypedVoice
<1>1. KillNow(v) \in TypedVoice
  BY DEF KillNow, TypedVoice, VoiceType
<1>2. [v EXCEPT !.released = TRUE, !.holdedByPedal = FALSE, !.env = "quick"] \in TypedVoice
  BY DEF TypedVoice, VoiceType, EnvStates
<1>3. CancelPendingNoteOn(v) \in TypedVoice
  BY DEF CancelPendingNoteOn, TypedVoice, VoiceType
<1>4. QED
  BY <1>1, <1>2, <1>3 DEF NoteOffQuick

LEMMA RenderedTyped ==
  ASSUME NEW v \in TypedVoice, NEW dies
  PROVE  Rendered(v, dies, how) \in TypedVoice
<1>1. ASSUME NEW w \in TypedVoice PROVE EndNoteOrBeginNextOne(w, how) \in TypedVoice
  <2>1. CASE ~w.newNotePending
    <3>1. [w EXCEPT !.playing = FALSE, !.released = FALSE] \in TypedVoice
      BY DEF TypedVoice, VoiceType
    <3>2. QED
      BY <2>1, <3>1 DEF EndNoteOrBeginNextOne, Flagged
  <2>2. CASE w.newNotePending /\ Flagged(w)
    <3>1. w.pendingNote - 128 \in Keys
      <4>1. w.pendingNote \in Keys \cup {n + 128 : n \in Keys} /\ w.pendingNote > 127
        BY <2>2 DEF Flagged, TypedVoice, VoiceType
      <4>0. \A n \in Keys : ~(n > 127)
        OBVIOUS
      <4>2. ~(w.pendingNote \in Keys)
        BY <4>0, <4>1
      <4>3. PICK n \in Keys : w.pendingNote = n + 128
        BY <4>1, <4>2
      <4>4. QED
        BY <4>3
    <3>2. NoteOn(w, w.pendingNote - 128, how) \in TypedVoice
      BY <3>1, NoteOnTyped
    <3>3. [NoteOn(w, w.pendingNote - 128, how) EXCEPT !.noteAlreadyFinished = 1] \in TypedVoice
      BY <3>2 DEF TypedVoice, VoiceType
    <3>4. QED
      BY <2>2, <3>3 DEF EndNoteOrBeginNextOne
  <2>3. CASE w.newNotePending /\ ~Flagged(w)
    <3>1. w.pendingNote \in Keys
      BY <2>3 DEF Flagged, TypedVoice, VoiceType, None
    <3>2. QED
      BY <2>3, <3>1, NoteOnTyped DEF EndNoteOrBeginNextOne
  <2>4. QED
    BY <2>1, <2>2, <2>3
<1>2. Rendered(v, dies, how) \in TypedVoice
  <2> DEFINE started == IF v.newNotePlayed THEN [v EXCEPT !.newNotePlayed = FALSE, !.env = "on"] ELSE v
  <2>1. started \in TypedVoice
    <3>1. [v EXCEPT !.newNotePlayed = FALSE, !.env = "on"] \in TypedVoice
      BY DEF TypedVoice, VoiceType, EnvStates
    <3>2. QED
      BY <3>1
  <2> HIDE DEF started
  <2>2. [started EXCEPT !.env = "dead"] \in TypedVoice
    BY <2>1 DEF TypedVoice, VoiceType, EnvStates
  <2>3. QED
    BY <1>1, <2>1, <2>2 DEF Rendered, started
<1>3. QED
  BY <1>2

LEMMA NextBlockTyped ==
  ASSUME NEW v \in TypedVoice, NEW dies
  PROVE  NextBlock(v, dies, how) \in TypedVoice
<1> DEFINE w == Rendered(v, dies, how)
<1> HIDE DEF w
<1>3. w \in TypedVoice
  BY RenderedTyped DEF w
<1>4. [w EXCEPT !.noteAlreadyFinished = 0] \in TypedVoice
  BY <1>3 DEF TypedVoice, VoiceType
<1>5. w.noteAlreadyFinished = 1 => [w EXCEPT !.noteAlreadyFinished = @ + 1] \in TypedVoice
  BY <1>3 DEF TypedVoice, VoiceType
<1>6. w.noteAlreadyFinished \in {0, 1, 2}
  BY <1>3 DEF TypedVoice, VoiceType
<1>7. QED
  BY <1>3, <1>4, <1>5, <1>6, NoteOffTyped DEF NextBlock, w

-----------------------------------------------------------------------------
(* The stack of MONO mode: no key twice, and no more than it has places. *)
StackType == {s \in Seq(Keys) : IsInjective(s) /\ Len(s) <= MonoStackSize}

LEMMA RemoveTyped ==
  ASSUME NEW s \in StackType, NEW k
  PROVE  /\ MonoNoteRemove(s, k) \in StackType
         /\ ToSet(MonoNoteRemove(s, k)) = ToSet(s) \ {k}
<1> DEFINE r == MonoNoteRemove(s, k)
<1>s. s \in Seq(Keys) /\ DOMAIN s = 1 .. Len(s) /\ Len(s) \in Nat /\ Len(s) <= MonoStackSize
      /\ \A a, b \in 1 .. Len(s) : s[a] = s[b] => a = b
  BY DEF StackType, IsInjective
<1>1. CASE k \notin ToSet(s)
  BY <1>1 DEF MonoNoteRemove
<1>2. CASE k \in ToSet(s)
  <2> DEFINE i == CHOOSE j \in DOMAIN s : s[j] = k
             shift == [j \in 1 .. Len(s) - 1 |-> IF j < i THEN s[j] ELSE s[j + 1]]
  <2>1. i \in 1 .. Len(s) /\ s[i] = k
    BY <1>2, <1>s DEF ToSet
  <2> HIDE DEF i
  <2>2. r = shift
    BY <1>2 DEF MonoNoteRemove, i
  <2>3. \A j \in 1 .. Len(s) - 1 : shift[j] \in Keys
    BY <1>s, <2>1, ElementOfSeq
  <2>4. shift \in Seq(Keys) /\ Len(shift) = Len(s) - 1
    BY <1>s, <2>1, <2>3, IsASeq
  <2>5. IsInjective(shift)
    BY <1>s, <2>1 DEF IsInjective
  <2>6. ToSet(shift) = ToSet(s) \ {k}
    <3>1. ASSUME NEW j \in 1 .. Len(s) - 1 PROVE shift[j] \in ToSet(s) \ {k}
      <4>1. CASE j < i
        BY <1>s, <2>1, <4>1 DEF ToSet
      <4>2. CASE ~(j < i)
        BY <1>s, <2>1, <4>2 DEF ToSet
      <4>3. QED
        BY <4>1, <4>2
    <3>2. ASSUME NEW a \in 1 .. Len(s), s[a] # k PROVE \E j \in 1 .. Len(s) - 1 : shift[j] = s[a]
      <4>1. CASE a < i
        <5>1. a \in 1 .. Len(s) - 1 /\ shift[a] = s[a]
          BY <1>s, <2>1, <4>1
        <5>2. QED
          BY <5>1
      <4>2. CASE a > i
        <5>1. a - 1 \in 1 .. Len(s) - 1 /\ shift[a - 1] = s[a]
          BY <1>s, <2>1, <4>2
        <5>2. QED
          BY <5>1
      <4>3. QED
        BY <1>s, <2>1, <3>2, <4>1, <4>2
    <3>3. DOMAIN shift = 1 .. Len(s) - 1
      OBVIOUS
    <3> HIDE DEF shift
    <3>4. ToSet(shift) \subseteq ToSet(s) \ {k}
      BY <3>1, <3>3 DEF ToSet
    <3>5. ASSUME NEW x \in ToSet(s), x # k PROVE x \in ToSet(shift)
      <4>1. PICK a \in 1 .. Len(s) : s[a] = x
        BY <1>s, <3>5 DEF ToSet
      <4>2. QED
        BY <3>2, <3>3, <3>5, <4>1 DEF ToSet
    <3>6. QED
      BY <3>4, <3>5
  <2> HIDE DEF shift, r
  <2>7. Len(shift) <= MonoStackSize
    BY <1>s, <2>4
  <2>8. r \in StackType /\ ToSet(r) = ToSet(s) \ {k}
    BY <2>2, <2>4, <2>5, <2>6, <2>7 DEF StackType
  <2>9. QED
    BY <2>8 DEF r
<1>3. QED
  BY <1>1, <1>2

LEMMA PushTyped ==
  ASSUME NEW s \in StackType, NEW k \in Keys
  PROVE  /\ MonoNotePush(s, k) \in StackType
         /\ ToSet(MonoNotePush(s, k)) \subseteq ToSet(s) \cup {k}
         /\ MonoNotePush(s, k) # <<>> /\ Last(MonoNotePush(s, k)) = k
<1> DEFINE others == MonoNoteRemove(s, k)
           rest == IF Len(others) >= MonoStackSize THEN Tail(others) ELSE others
<1>1. others \in StackType /\ ToSet(others) = ToSet(s) \ {k}
  BY RemoveTyped
<1> HIDE DEF others
<1>2. /\ rest \in Seq(Keys) /\ Len(rest) \in Nat /\ Len(rest) < MonoStackSize
      /\ \A a, b \in 1 .. Len(rest) : rest[a] = rest[b] => a = b
      /\ \A a \in 1 .. Len(rest) : rest[a] \in ToSet(s) \ {k}
  <2>0. /\ others \in Seq(Keys) /\ DOMAIN others = 1 .. Len(others) /\ Len(others) \in Nat
        /\ Len(others) <= MonoStackSize
        /\ \A a, b \in 1 .. Len(others) : others[a] = others[b] => a = b
    BY <1>1 DEF StackType, IsInjective
  <2>4. \A a \in 1 .. Len(others) : others[a] \in ToSet(others)
    BY <2>0 DEF ToSet
  <2>1. \A a \in 1 .. Len(others) : others[a] \in ToSet(s) \ {k}
    BY <1>1, <2>4
  <2>2. CASE Len(others) >= MonoStackSize
    <3>1. others # <<>>
      BY <2>0, <2>2
    <3>2. /\ Tail(others) \in Seq(Keys) /\ Len(Tail(others)) = Len(others) - 1
          /\ \A a \in 1 .. Len(others) - 1 : Tail(others)[a] = others[a + 1]
      BY <2>0, <3>1, HeadTailProperties
    <3>3. QED
      BY <2>0, <2>1, <2>2, <3>2
  <2>3. CASE ~(Len(others) >= MonoStackSize)
    BY <2>0, <2>1, <2>3
  <2>5. QED
    BY <2>2, <2>3
<1> HIDE DEF rest
<1> DEFINE top == Append(rest, k)
<1>3. /\ top \in Seq(Keys) /\ Len(top) = Len(rest) + 1
      /\ \A a \in 1 .. Len(rest) : top[a] = rest[a]
      /\ top[Len(rest) + 1] = k
  BY <1>2, AppendProperties
<1> HIDE DEF top
<1>4. IsInjective(top)
  <2>1. DOMAIN top = 1 .. Len(rest) + 1
    BY <1>2, <1>3
  <2>2. \A a \in 1 .. Len(rest) + 1 : a \in 1 .. Len(rest) \/ a = Len(rest) + 1
    BY <1>2
  <2>3. QED
    BY <1>2, <1>3, <2>1, <2>2 DEF IsInjective
<1>5. ToSet(top) \subseteq ToSet(s) \cup {k}
  <2>1. DOMAIN top = 1 .. Len(rest) + 1
    BY <1>2, <1>3
  <2>2. \A a \in 1 .. Len(rest) + 1 : a \in 1 .. Len(rest) \/ a = Len(rest) + 1
    BY <1>2
  <2>3. \A a \in 1 .. Len(rest) + 1 : top[a] \in ToSet(s) \cup {k}
    BY <1>2, <1>3, <2>2
  <2>4. QED
    BY <2>1, <2>3 DEF ToSet
<1>6. MonoNotePush(s, k) = top
  BY DEF MonoNotePush, top, rest, others
<1>7. QED
  BY <1>2, <1>3, <1>4, <1>5, <1>6 DEF StackType, Last

LEMMA LastOfStack ==
  ASSUME NEW s \in StackType, s # <<>>
  PROVE  Last(s) \in ToSet(s) /\ Last(s) \in Keys
  BY DEF StackType, Last, ToSet

-----------------------------------------------------------------------------
(* The operations of the instrument keep the types of its voices, its index *)
(* and its stack.                                                           *)
IndexType == {x \in [Voice_ -> Voice_] : IsInjective(x)}
TimbreType == [voices : [Voice_ -> TypedVoice], index : IndexType, stack : StackType]

LEMMA YoungestTyped ==
  ASSUME NEW t \in TimbreType, NEW v \in Voice_
  PROVE  Youngest(t, v) \in IndexType
<1> DEFINE x == t.index
           y == Youngest(t, v)
<1>1. x \in [Voice_ -> Voice_] /\ \A a, b \in Voice_ : x[a] = x[b] => a = b
  BY DEF TimbreType, IndexType, IsInjective
<1>2. CASE how.mode = "UNISON"
  BY <1>2 DEF Youngest, IndexType, IsInjective
<1>3. CASE how.mode # "UNISON"
  <2>1. y = [w \in Voice_ |-> IF w = v THEN NumberOfVoices ELSE IF x[w] > x[v] THEN x[w] - 1 ELSE x[w]]
    BY <1>3 DEF Youngest
  <2> HIDE DEF x, y
  <2>2. \A w \in Voice_ : x[w] \in 1 .. NumberOfVoices
    BY <1>1 DEF Voice_
  <2>3. ASSUME NEW w \in Voice_
        PROVE  /\ w = v => y[w] = NumberOfVoices
               /\ w # v /\ x[w] > x[v] => y[w] = x[w] - 1
               /\ w # v /\ ~(x[w] > x[v]) => y[w] = x[w] /\ x[w] < x[v]
    <3>1. w # v => x[w] # x[v]
      BY <1>1
    <3>2. QED
      BY <2>1, <2>2, <3>1
  <2>4. \A w \in Voice_ : y[w] \in 1 .. NumberOfVoices /\ (w # v => y[w] < NumberOfVoices)
    <3> TAKE w \in Voice_
    <3>1. x[w] \in 1 .. NumberOfVoices /\ x[v] \in 1 .. NumberOfVoices
      BY <2>2
    <3>2. QED
      BY <2>3, <3>1
  <2>5. ASSUME NEW a \in Voice_, NEW b \in Voice_, y[a] = y[b] PROVE a = b
    <3>1. CASE a = v \/ b = v
      BY <2>3, <2>4, <2>5, <3>1
    <3>2. CASE a # v /\ b # v
      <4>1. x[a] \in 1 .. NumberOfVoices /\ x[b] \in 1 .. NumberOfVoices /\ x[v] \in 1 .. NumberOfVoices
        BY <2>2
      <4>2. x[a] = x[b]
        BY <2>3, <2>5, <3>2, <4>1
      <4>3. QED
        BY <1>1, <4>2
    <3>3. QED
      BY <3>1, <3>2
  <2>6. y \in [Voice_ -> Voice_]
    BY <2>1, <2>4 DEF Voice_
  <2>7. y \in IndexType
    BY <2>5, <2>6 DEF IndexType, IsInjective
  <2>8. QED
    BY <2>7 DEF y
<1>4. QED
  BY <1>2, <1>3

LEMMA TakeTyped ==
  ASSUME NEW t \in TimbreType, NEW v \in Voice_, NEW k \in Keys
  PROVE  Start(t, v, k) \in TimbreType /\ Take(t, v, k) \in TimbreType
<1>1. Youngest(t, v) \in IndexType
  BY YoungestTyped
<1>2. \A w \in Voice_ : t.voices[w] \in TypedVoice
  BY DEF TimbreType
<1>3. \A w \in Voice_ : /\ NoteOn(t.voices[w], k, how) \in TypedVoice
                        /\ NoteOnWithoutPop(t.voices[w], k, how) \in TypedVoice
  BY <1>2, NoteOnTyped, NoteOnWithoutPopTyped
<1> DEFINE started == [w \in Voice_ |-> IF w \in Taken(v) THEN NoteOn(t.voices[w], k, how) ELSE t.voices[w]]
           taken == [w \in Voice_ |-> IF w \in Taken(v) THEN NoteOnWithoutPop(t.voices[w], k, how) ELSE t.voices[w]]
<1>4. started \in [Voice_ -> TypedVoice] /\ taken \in [Voice_ -> TypedVoice]
  BY <1>2, <1>3
<1>5. /\ Start(t, v, k) = [t EXCEPT !.voices = started, !.index = Youngest(t, v)]
      /\ Take(t, v, k) = [t EXCEPT !.voices = taken, !.index = Youngest(t, v)]
  BY DEF Start, Take
<1> HIDE DEF started, taken
<1>6. QED
  BY <1>1, <1>4, <1>5 DEF TimbreType

(* A choice among voices finds one of them. *)
LEMMA OldestIsOne ==
  ASSUME NEW t \in TimbreType, NEW vs \in SUBSET Voice_, vs # {}
  PROVE  Oldest(t, vs) \in vs /\ Min(vs) \in vs
<1>1. Min(vs) \in vs
  BY MinIsLeast DEF Voice_
<1> DEFINE places == {t.index[v] : v \in vs}
<1>2. \A v \in vs : t.index[v] \in Nat
  BY DEF TimbreType, IndexType, Voice_
<1>3. places \in SUBSET Nat /\ places # {}
  BY <1>2
<1>4. PICK x \in places : \A y \in places : x <= y
  BY <1>3, LeastExists
<1>5. \E v \in vs : \A w \in vs : t.index[v] <= t.index[w]
  BY <1>4
<1>6. QED
  BY <1>1, <1>5 DEF Oldest

(* Another stack. *)
LEMMA StackChanged ==
  ASSUME NEW t \in TimbreType, NEW s \in StackType
  PROVE  [t EXCEPT !.stack = s] \in TimbreType
  BY DEF TimbreType

LEMMA PreenNoteOnTyped ==
  ASSUME NEW t \in TimbreType, NEW k \in Keys
  PROVE  PreenNoteOn(t, k) \in TimbreType
<1> DEFINE s == IF how.mode = "MONO" THEN MonoNotePush(t.stack, k) ELSE <<>>
           u == [t EXCEPT !.stack = s]
           open == Candidates(t)
           same == {v \in open : t.voices[v].playing /\ t.voices[v].note = k}
           free == {v \in open : ~t.voices[v].playing}
           released == {v \in open : t.voices[v].released}
<1>1. s \in StackType
  <2>1. MonoNotePush(t.stack, k) \in StackType
    BY PushTyped DEF TimbreType
  <2>2. <<>> \in StackType
    BY DEF StackType, IsInjective
  <2>3. QED
    BY <2>1, <2>2
<1>2. u \in TimbreType
  BY <1>1, StackChanged
<1>3. open \in SUBSET Voice_
  BY DEF Candidates, Considered, Voice_
<1>4. PreenNoteOn(t, k) =
        CASE same # {} -> Take(u, Min(same), k)
          [] same = {} /\ free # {} -> Start(u, Min(free), k)
          [] same = {} /\ free = {} /\ released # {} -> Take(u, Oldest(t, released), k)
          [] open # {} /\ open \cap (same \cup free \cup released) = {} -> Take(u, Oldest(t, open), k)
          [] open = {} -> u
  BY DEF PreenNoteOn
<1>5. same \in SUBSET Voice_ /\ free \in SUBSET Voice_ /\ released \in SUBSET Voice_
  BY <1>3
<1>6. same \subseteq open /\ free \subseteq open /\ released \subseteq open
  OBVIOUS
<1> HIDE DEF u, open, same, free, released
<1>7. CASE same # {}
  <2>1. open # {} /\ open \cap (same \cup free \cup released) # {}
    BY <1>6, <1>7
  <2>2. PreenNoteOn(t, k) = Take(u, Min(same), k)
    BY <1>4, <1>7, <2>1
  <2>3. Min(same) \in Voice_
    BY <1>5, <1>7, OldestIsOne
  <2>4. QED
    BY <1>2, <2>2, <2>3, TakeTyped
<1>8. CASE same = {} /\ free # {}
  <2>1. open # {} /\ open \cap (same \cup free \cup released) # {}
    BY <1>6, <1>8
  <2>2. PreenNoteOn(t, k) = Start(u, Min(free), k)
    BY <1>4, <1>8, <2>1
  <2>3. Min(free) \in Voice_
    BY <1>5, <1>8, OldestIsOne
  <2>4. QED
    BY <1>2, <2>2, <2>3, TakeTyped
<1>9. CASE same = {} /\ free = {} /\ released # {}
  <2>1. open # {} /\ open \cap (same \cup free \cup released) # {}
    BY <1>6, <1>9
  <2>2. PreenNoteOn(t, k) = Take(u, Oldest(t, released), k)
    BY <1>4, <1>9, <2>1
  <2>3. Oldest(t, released) \in Voice_
    BY <1>5, <1>9, OldestIsOne
  <2>4. QED
    BY <1>2, <2>2, <2>3, TakeTyped
<1>10. CASE same = {} /\ free = {} /\ released = {} /\ open # {}
  <2>1. open \cap (same \cup free \cup released) = {}
    BY <1>10
  <2>2. PreenNoteOn(t, k) = Take(u, Oldest(t, open), k)
    BY <1>4, <1>10, <2>1
  <2>3. QED
    BY <1>2, <1>3, <1>10, <2>2, OldestIsOne, TakeTyped
<1>11. CASE same = {} /\ free = {} /\ released = {} /\ open = {}
  BY <1>2, <1>4, <1>11
<1>12. QED
  BY <1>7, <1>8, <1>9, <1>10, <1>11

LEMMA ReleasedTyped ==
  ASSUME NEW v \in TypedVoice, NEW k, NEW back \in StackType
  PROVE  ReleasedVoice(v, k, back) \in TypedVoice
<1> DEFINE n == IF back = <<>> THEN v.note ELSE Last(back)
<1>1. n \in Keys \cup {None}
  <2>1. v.note \in Keys \cup {None}
    BY DEF TypedVoice, VoiceType
  <2>2. QED
    BY <2>1, LastOfStack
<1> HIDE DEF n
<1>2. GlideFirstNoteOff(v) \in TypedVoice /\ GlideToNote(v, n) \in TypedVoice
  BY <1>1, GlidesTyped
<1>3. GlideFirstNoteOff(GlideToNote(v, n)) \in TypedVoice
  BY <1>2, GlidesTyped DEF None
<1>4. [v EXCEPT !.holdedByPedal = TRUE] \in TypedVoice
  BY DEF TypedVoice, VoiceType
<1>5. QED
  BY <1>2, <1>3, <1>4, NoteOffTyped DEF ReleasedVoice, n

LEMMA AfterNoteOffTyped ==
  ASSUME NEW t \in TimbreType, NEW k \in Keys
  PROVE  AfterNoteOff(t, k) \in TimbreType
<1> DEFINE s == IF how.mode = "MONO" THEN MonoNoteRemove(t.stack, k) ELSE <<>>
           hit == ReachedVoices(t, k)
           left == [v \in Voice_ |-> IF v \in hit THEN ReleasedVoice(t.voices[v], k, s) ELSE t.voices[v]]
<1>1. s \in StackType
  <2>1. MonoNoteRemove(t.stack, k) \in StackType
    BY RemoveTyped DEF TimbreType
  <2>2. <<>> \in StackType
    BY DEF StackType, IsInjective
  <2>3. QED
    BY <2>1, <2>2
<1>2. AfterNoteOff(t, k) = [t EXCEPT !.stack = s, !.voices = left]
  BY DEF AfterNoteOff
<1> HIDE DEF s, hit
<1>3. \A v \in Voice_ : t.voices[v] \in TypedVoice
  BY DEF TimbreType
<1>4. left \in [Voice_ -> TypedVoice]
  BY <1>1, <1>3, ReleasedTyped
<1> HIDE DEF left
<1>5. QED
  BY <1>1, <1>2, <1>4 DEF TimbreType

LEMMA PreenNoteOffTyped ==
  ASSUME NEW t \in TimbreType, NEW k \in Keys
  PROVE  PreenNoteOff(t, k) \in TimbreType
<1> DEFINE a == AfterNoteOff(t, k)
<1>1. a \in TimbreType
  BY AfterNoteOffTyped
<1>2. CASE Recalls(t, k)
  <2>1. a.stack # <<>>
    <3>1. a.stack = MonoNoteRemove(t.stack, k)
      BY <1>2 DEF Recalls, AfterNoteOff, TimbreType
    <3>2. QED
      BY <1>2, <3>1 DEF Recalls
  <2> HIDE DEF a
  <2>2. Last(a.stack) \in Keys
    BY <1>1, <2>1, LastOfStack DEF TimbreType
  <2>3. 1 \in Voice_
    BY DEF Voice_
  <2>4. MonoNoteRecall(a) \in TimbreType
    BY <1>1, <2>2, <2>3, TakeTyped, PreenNoteOnTyped DEF MonoNoteRecall
  <2>5. QED
    BY <1>2, <2>4 DEF PreenNoteOff, a
<1>3. QED
  BY <1>1, <1>2 DEF PreenNoteOff

-----------------------------------------------------------------------------
(* The types, in the form that a step keeps. *)
TypeInv ==
    /\ how \in [mode : Modes, glide : Glides_]
    /\ voices \in [Voice_ -> TypedVoice] /\ index \in IndexType /\ monoStack_ \in StackType
    /\ holdPedal_ \in BOOLEAN /\ down \subseteq Keys /\ muted \subseteq down

LEMMA BecomeTyped ==
  ASSUME NEW t \in TimbreType, Become(t)
  PROVE  voices' \in [Voice_ -> TypedVoice] /\ index' \in IndexType /\ monoStack_' \in StackType
  BY DEF Become, TimbreType

LEMMA TypeInit == Init => TypeInv
<1> SUFFICES ASSUME Init PROVE TypeInv
  OBVIOUS
<1>1. Silent \in TypedVoice
  BY DEF Silent, TypedVoice, VoiceType, EnvStates, None
<1>2. [v \in Voice_ |-> Silent] \in [Voice_ -> TypedVoice]
  BY <1>1
<1>3. [v \in Voice_ |-> v] \in IndexType
  BY DEF IndexType, IsInjective
<1>4. <<>> \in StackType
  BY DEF StackType, IsInjective
<1>5. QED
  BY <1>2, <1>3, <1>4 DEF Init, TypeInv

LEMMA TypeStep == TypeInv /\ [Next]_vars => TypeInv'
<1> SUFFICES ASSUME TypeInv, [Next]_vars PROVE TypeInv'
  OBVIOUS
<1>t. Timbre_ \in TimbreType
  BY DEF Timbre_, TimbreType, TypeInv
<1>v. \A v \in Voice_ : voices[v] \in TypedVoice
  BY DEF TypeInv
<1>1. ASSUME NEW k \in Keys, KeyDown(k) PROVE TypeInv'
  <2>1. PreenNoteOn(Timbre_, k) \in TimbreType
    BY <1>t, PreenNoteOnTyped
  <2>2. voices' \in [Voice_ -> TypedVoice] /\ index' \in IndexType /\ monoStack_' \in StackType
    BY <1>1, <2>1, BecomeTyped DEF KeyDown
  <2>3. down' \subseteq Keys /\ muted' \subseteq down'
    BY <1>1 DEF KeyDown, TypeInv
  <2>4. QED
    BY <1>1, <2>2, <2>3 DEF KeyDown, TypeInv
<1>2. ASSUME NEW k \in Keys, KeyUp(k) PROVE TypeInv'
  <2>1. PreenNoteOff(Timbre_, k) \in TimbreType
    BY <1>t, PreenNoteOffTyped
  <2>2. voices' \in [Voice_ -> TypedVoice] /\ index' \in IndexType /\ monoStack_' \in StackType
    BY <1>2, <2>1, BecomeTyped DEF KeyUp
  <2>3. down' \subseteq Keys /\ muted' \subseteq down'
    BY <1>2 DEF KeyUp, TypeInv
  <2>4. QED
    BY <1>2, <2>2, <2>3 DEF KeyUp, TypeInv
<1>3. CASE SetHoldPedal
  <2>1. voices' \in [Voice_ -> TypedVoice]
    BY <1>3, <1>v, NoteOffTyped DEF SetHoldPedal, TypeInv
  <2>2. QED
    BY <1>3, <2>1 DEF SetHoldPedal, TypeInv
<1>4. CASE AllNoteOff
  <2>1. voices' \in [Voice_ -> TypedVoice]
    BY <1>4, <1>v, NoteOffTyped DEF AllNoteOff
  <2>2. QED
    BY <1>4, <2>1 DEF AllNoteOff, TypeInv
<1>5. CASE AllSoundOff
  <2>1. voices' \in [Voice_ -> TypedVoice]
    BY <1>5, <1>v, SilencedTyped DEF AllSoundOff
  <2>2. QED
    BY <1>5, <2>1 DEF AllSoundOff, TypeInv
<1>6. ASSUME NEW ended \in [Voice_ -> TypedVoice], Orphaned(ended) PROVE TypeInv'
  <2>1. \A v \in Voice_ : CancelPendingNoteOn(ended[v]) \in TypedVoice
    BY SilencedTyped
  <2>2. voices' \in [Voice_ -> TypedVoice]
    BY <1>6, <2>1 DEF Orphaned
  <2>3. <<>> \in StackType
    BY DEF StackType, IsInjective
  <2>4. QED
    BY <1>6, <2>2, <2>3 DEF Orphaned, TypeInv
<1>7. CASE RoutingChanged
  <2>1. [v \in Voice_ |-> IF v \in Unreleased THEN NoteOff(voices[v]) ELSE voices[v]]
          \in [Voice_ -> TypedVoice]
    BY <1>v, NoteOffTyped
  <2>2. QED
    BY <1>6, <1>7, <2>1 DEF RoutingChanged
<1>8. CASE SequenceLoaded
  <2>1. [v \in Voice_ |-> NoteOffQuick(voices[v])] \in [Voice_ -> TypedVoice]
    BY <1>v, SilencedTyped
  <2>2. QED
    BY <1>6, <1>8, <2>1 DEF SequenceLoaded
<1>9. ASSUME NEW dead \in SUBSET Voice_, NextBlockOf(dead) PROVE TypeInv'
  <2>1. \A v \in Voice_ : NextBlock(voices[v], v \in dead, how) \in TypedVoice
    BY <1>v, NextBlockTyped
  <2>2. voices' \in [Voice_ -> TypedVoice]
    BY <1>9, <1>v, <2>1 DEF NextBlockOf
  <2>3. QED
    BY <1>9, <2>2 DEF NextBlockOf, TypeInv
<1>10. CASE UNCHANGED vars
  BY <1>10 DEF vars, timbre, TypeInv
<1>11. QED
  BY <1>1, <1>2, <1>3, <1>4, <1>5, <1>7, <1>8, <1>9, <1>10 DEF Next, VoicesNextBlock

(* Whatever is played, pressed, silenced or loaded, and in whatever order:   *)
(* the fields of a voice stay in their types, its pending note is a key with *)
(* at most one mark, no two voices have one age, and the stack of MONO mode  *)
(* holds no key twice and no more keys than it has places.                   *)
THEOREM VoicesTypes == Spec => []TypeOK
<1>1. TypeInv => TypeOK
  BY DEF TypeInv, TypeOK, TypedVoice, IndexType, StackType
<1>2. QED
  BY <1>1, TypeInit, TypeStep, PTL DEF Spec

-----------------------------------------------------------------------------
(* What the flags of one voice say of one another, in play mode p.  A note   *)
(* that is pending waits for a voice that is released quickly, with or       *)
(* without the mark of an early note-off.  A voice that is between the two   *)
(* notes of a glide sounds.                                                  *)
Sound(v, p) ==
    /\ v.released \/ v.newNotePending \/ v.newNotePlayed => v.playing
    /\ v.newNotePending =>
         /\ ~v.released /\ ~v.newNotePlayed
         /\ v.noteAlreadyFinished = 0 /\ v.env = "quick"
         /\ v.note # None /\ v.pendingNote \in {v.note, v.note + 128}
    /\ v.newNotePlayed => ~v.released
    /\ v.released => v.env \in {"release", "quick"}
    /\ ~Settled(v) =>
         /\ Glides(p) /\ Sustains(v)
         /\ ~v.newNotePending /\ ~v.released /\ ~v.holdedByPedal
         /\ v.nextGlidingNote # v.note

(* With the keys d down and the pedal at h: a voice that sustains plays a    *)
(* key that is down, or is held; one that glides does so between two keys    *)
(* that are down.                                                            *)
Anchored(v, d, h) ==
    /\ Sustains(v) => v.note \in d \/ (h /\ v.holdedByPedal /\ ~v.newNotePending)
    /\ ~Settled(v) => v.note \in d /\ v.nextGlidingNote \in d

(* How the voices share the instrument: POLY gives a note to one voice,      *)
(* MONO uses the first voice, and UNISON all of them alike.                  *)
Shared(vs, p) ==
    /\ p.mode = "POLY" =>
         \A v, w \in Voice_ : v # w /\ vs[v].playing /\ vs[w].playing => vs[v].note # vs[w].note
    /\ p.mode = "MONO" => \A v \in Voice_ \ {1} : ~vs[v].playing
    /\ p.mode = "UNISON" => \A v \in Voice_ : vs[v] = vs[1]

VoicesInv ==
    /\ TypeInv
    /\ ToSet(monoStack_) \subseteq down
    /\ \A v \in Voice_ : Sound(voices[v], how) /\ Anchored(voices[v], down, holdPedal_)
    /\ Shared(voices, how)
    /\ MonoSounds

(* A note that starts sounds, and nothing of the glide before it remains. *)
LEMMA NoteOnSounds ==
  ASSUME NEW v \in TypedVoice, Settled(v), NEW n \in Keys, NEW d, n \in d, NEW h
  PROVE  LET w == NoteOn(v, n, how)
         IN  /\ Sound(w, how) /\ Anchored(w, d, h) /\ Settled(w) /\ Sustains(w)
             /\ w.playing /\ w.note = n /\ ~w.newNotePending
<1> DEFINE w == NoteOn(v, n, how)
<1>1. /\ w.note = n /\ w.playing = TRUE /\ w.released = FALSE /\ w.newNotePending = FALSE
      /\ w.newNotePlayed = TRUE /\ w.noteAlreadyFinished = 0 /\ w.holdedByPedal = FALSE
  BY DEF NoteOn, GlideToNote, GlideFirstNoteOff, TypedVoice, VoiceType
<1>2. Settled(w)
  BY DEF NoteOn, GlideToNote, GlideFirstNoteOff, TypedVoice, VoiceType, Settled
<1> HIDE DEF w
<1>3. Sustains(w)
  BY <1>1 DEF Sustains
<1>4. Sound(w, how) /\ Anchored(w, d, h)
  BY <1>1, <1>2 DEF Sound, Anchored
<1>5. QED
  BY <1>1, <1>2, <1>3, <1>4 DEF w

(* A note that takes a voice: the voice glides to it from a key that is      *)
(* down, or dies with the note pending.                                      *)
LEMMA NoteOnWithoutPopSounds ==
  ASSUME NEW v \in TypedVoice, Sound(v, how), v.playing, NEW n \in Keys,
         NEW d, n \in d, NEW h, Anchored(v, d, h),
         Glides(how) /\ ~v.released => Sustains(v) /\ ~v.newNotePending /\ (v.note # n \/ v.holdedByPedal)
  PROVE  LET w == NoteOnWithoutPop(v, n, how)
         IN  /\ Sound(w, how) /\ Anchored(w, d, h) /\ Sustains(w) /\ w.playing
             /\ ~Glides(how) => w.note = n
<1> DEFINE w == NoteOnWithoutPop(v, n, how)
<1>n. n # None /\ ~(n > 127)
  BY DEF None
<1>1. CASE Glides(how) /\ ~v.released
  <2>1. /\ w.playing = v.playing /\ w.released = v.released /\ w.newNotePending = v.newNotePending
        /\ w.newNotePlayed = v.newNotePlayed /\ w.env = v.env /\ w.pendingNote = v.pendingNote
        /\ w.noteAlreadyFinished = 0 /\ w.holdedByPedal = FALSE /\ w.newGlide = FALSE
        /\ w.note = (IF v.holdedByPedal THEN n ELSE v.note)
        /\ w.nextGlidingNote = (IF v.holdedByPedal THEN None ELSE n)
    BY <1>1 DEF NoteOnWithoutPop, GlideToNote, GlideFirstNoteOff, TypedVoice, VoiceType
  <2> HIDE DEF w
  <2>2. Sustains(w)
    BY <1>1, <2>1 DEF Sustains
  <2>3. CASE v.holdedByPedal
    <3>1. Settled(w) /\ w.note = n
      BY <2>1, <2>3 DEF Settled
    <3>2. QED
      BY <1>1, <2>1, <2>2, <3>1 DEF Sound, Anchored, w
  <2>4. CASE ~v.holdedByPedal
    <3>1. v.note \in d /\ v.note # n
      BY <1>1, <2>4 DEF Anchored
    <3>2. w.note = v.note /\ w.nextGlidingNote = n
      BY <2>1, <2>4
    <3>3. Sound(w, how)
      BY <1>1, <2>1, <2>2, <3>1, <3>2 DEF Sound
    <3>4. Anchored(w, d, h)
      BY <3>1, <3>2 DEF Anchored
    <3>5. QED
      BY <1>1, <2>1, <2>2, <3>3, <3>4 DEF w
  <2>5. QED
    BY <2>3, <2>4
<1>2. CASE ~(Glides(how) /\ ~v.released)
  <2>1. /\ w.playing = v.playing /\ w.released = FALSE /\ w.newNotePending = TRUE
        /\ w.newNotePlayed = FALSE /\ w.env = "quick" /\ w.pendingNote = n
        /\ w.noteAlreadyFinished = 0 /\ w.note = n
        /\ w.nextGlidingNote = v.nextGlidingNote /\ w.newGlide = v.newGlide
    BY <1>2 DEF NoteOnWithoutPop, TypedVoice, VoiceType
  <2>2. Settled(v)
    BY <1>2 DEF Sound
  <2> HIDE DEF w
  <2>3. Settled(w)
    BY <2>1, <2>2 DEF Settled
  <2>4. Sustains(w)
    BY <1>n, <2>1 DEF Sustains, Flagged
  <2>5. Sound(w, how) /\ Anchored(w, d, h)
    BY <1>n, <2>1, <2>3 DEF Sound, Anchored
  <2>6. QED
    BY <2>1, <2>4, <2>5 DEF w
<1>3. QED
  BY <1>1, <1>2

(* A note-off ends the note: the voice no longer sustains. *)
LEMMA NoteOffEnds ==
  ASSUME NEW v \in TypedVoice, Sound(v, how), Settled(v), ~Flagged(v)
  PROVE  LET w == NoteOff(v)
         IN  /\ Sound(w, how) /\ Settled(w) /\ ~Sustains(w)
             /\ w.playing = v.playing /\ w.note = v.note
<1> DEFINE w == NoteOff(v)
<1>0. /\ w.playing = v.playing /\ w.note = v.note
      /\ w.nextGlidingNote = v.nextGlidingNote /\ w.newGlide = v.newGlide
      /\ w.newNotePending = v.newNotePending /\ w.newNotePlayed = v.newNotePlayed
  BY DEF NoteOff, TypedVoice, VoiceType
<1>1. CASE ~v.playing
  <2>1. w = v
    BY <1>1 DEF NoteOff
  <2>2. QED
    BY <1>0, <1>1, <2>1 DEF Sustains
<1>2. CASE v.playing /\ v.newNotePending
  <2>1. v.note \in Keys /\ v.pendingNote = v.note
    <3>1. v.note \in Keys /\ v.pendingNote \in {v.note, v.note + 128}
      BY <1>2 DEF Sound, TypedVoice, VoiceType
    <3>2. ~(v.pendingNote > 127)
      BY <1>2 DEF Flagged
    <3>3. \A n \in Keys : n + 128 > 127
      OBVIOUS
    <3>4. QED
      BY <3>1, <3>2, <3>3
  <2>2. /\ w.released = v.released /\ w.env = v.env /\ w.holdedByPedal = v.holdedByPedal
        /\ w.noteAlreadyFinished = v.noteAlreadyFinished
        /\ w.pendingNote = (v.pendingNote + 128) % 256
    BY <1>2 DEF NoteOff, TypedVoice, VoiceType
  <2>3. \A n \in Keys : (n + 128) % 256 = n + 128 /\ n + 128 > 127
    OBVIOUS
  <2> HIDE DEF w
  <2>4. w.pendingNote = v.note + 128 /\ w.pendingNote > 127
    <3>1. (v.note + 128) % 256 = v.note + 128 /\ v.note + 128 > 127
      BY <2>1, <2>3
    <3>2. QED
      BY <2>1, <2>2, <3>1
  <2>5. ~Sustains(w) /\ Settled(w)
    BY <1>0, <1>2, <2>4 DEF Sustains, Flagged, Settled
  <2>6. Sound(w, how)
    BY <1>0, <1>2, <2>2, <2>4, <2>5 DEF Sound
  <2>7. QED
    BY <1>0, <2>5, <2>6 DEF w
<1>3. CASE v.playing /\ ~v.newNotePending /\ v.newNotePlayed
  <2>1. /\ w.released = v.released /\ w.env = v.env /\ w.holdedByPedal = v.holdedByPedal
        /\ w.noteAlreadyFinished = 1 /\ w.pendingNote = v.pendingNote
    BY <1>3 DEF NoteOff, TypedVoice, VoiceType
  <2> HIDE DEF w
  <2>2. ~Sustains(w) /\ Settled(w)
    BY <1>0, <1>3, <2>1 DEF Sustains, Settled
  <2>3. Sound(w, how)
    BY <1>0, <1>3, <2>1, <2>2 DEF Sound
  <2>4. QED
    BY <1>0, <2>2, <2>3 DEF w
<1>4. CASE v.playing /\ ~v.newNotePending /\ ~v.newNotePlayed
  <2>1. w.released = TRUE /\ w.env = "release" /\ w.holdedByPedal = FALSE
    BY <1>4 DEF NoteOff, TypedVoice, VoiceType
  <2> HIDE DEF w
  <2>2. ~Sustains(w) /\ Settled(w)
    BY <1>0, <1>4, <2>1 DEF Sustains, Settled
  <2>3. Sound(w, how)
    BY <1>0, <1>4, <2>1, <2>2 DEF Sound
  <2>4. QED
    BY <1>0, <2>2, <2>3 DEF w
<1>5. QED
  BY <1>1, <1>2, <1>3, <1>4

(* A voice that is silenced, with whatever was pending or gliding. *)
LEMMA KillNowEnds ==
  ASSUME NEW v \in TypedVoice
  PROVE  /\ Sound(KillNow(v), how) /\ Settled(KillNow(v)) /\ ~Sustains(KillNow(v))
         /\ ~KillNow(v).playing
<1> DEFINE w == KillNow(v)
<1>1. /\ w.playing = FALSE /\ w.released = FALSE /\ w.newNotePending = FALSE
      /\ w.newNotePlayed = FALSE /\ w.nextGlidingNote = None
  BY DEF KillNow, TypedVoice, VoiceType
<1> HIDE DEF w
<1>2. Settled(w) /\ ~Sustains(w)
  BY <1>1 DEF Settled, Sustains
<1>3. Sound(w, how)
  BY <1>1, <1>2 DEF Sound
<1>4. QED
  BY <1>1, <1>2, <1>3 DEF w

(* What an orphaned voice must be like before its pending note is dropped. *)
Orphan(v) ==
    /\ v.playing => (v.noteAlreadyFinished # 0 \/ (~v.newNotePlayed /\ v.env \in {"release", "quick"}))
    /\ v.released => v.playing /\ ~v.newNotePlayed /\ v.env \in {"release", "quick"}
    /\ v.newNotePlayed => v.playing

LEMMA CancelEnds ==
  ASSUME NEW v \in TypedVoice, Orphan(v)
  PROVE  LET w == CancelPendingNoteOn(v)
         IN  /\ Sound(w, how) /\ Settled(w) /\ ~Sustains(w)
             /\ w.playing = v.playing /\ w.note = v.note
<1> DEFINE w == CancelPendingNoteOn(v)
<1>1. /\ w.newNotePending = FALSE /\ w.nextGlidingNote = None
      /\ w.playing = v.playing /\ w.note = v.note /\ w.released = v.released /\ w.env = v.env
      /\ w.newNotePlayed = v.newNotePlayed /\ w.noteAlreadyFinished = v.noteAlreadyFinished
  BY DEF CancelPendingNoteOn, TypedVoice, VoiceType
<1> HIDE DEF w
<1>2. Settled(w) /\ ~Sustains(w)
  BY <1>1 DEF Settled, Sustains, Orphan
<1>3. Sound(w, how)
  BY <1>1, <1>2 DEF Sound, Orphan
<1>4. QED
  BY <1>1, <1>2, <1>3 DEF w

LEMMA OrphanOfNoteOff ==
  ASSUME NEW v \in TypedVoice, Sound(v, how)
  PROVE  /\ Orphan(NoteOff(v))
         /\ NoteOff(v).playing = v.playing /\ NoteOff(v).note = v.note
         /\ ~(v.playing /\ ~v.released) => Orphan(v)
<1> DEFINE w == NoteOff(v)
<1>0. /\ w.playing = v.playing /\ w.note = v.note
      /\ w.newNotePending = v.newNotePending /\ w.newNotePlayed = v.newNotePlayed
  BY DEF NoteOff, TypedVoice, VoiceType
<1>1. CASE ~v.playing
  <2>1. w = v
    BY <1>1 DEF NoteOff
  <2>2. QED
    BY <1>0, <1>1, <2>1 DEF Sound, Orphan
<1>2. CASE v.playing /\ v.newNotePending
  <2>1. w.released = v.released /\ w.env = v.env /\ w.noteAlreadyFinished = v.noteAlreadyFinished
    BY <1>2 DEF NoteOff, TypedVoice, VoiceType
  <2> HIDE DEF w
  <2>2. QED
    BY <1>0, <1>2, <2>1 DEF Sound, Orphan, w
<1>3. CASE v.playing /\ ~v.newNotePending /\ v.newNotePlayed
  <2>1. w.released = v.released /\ w.noteAlreadyFinished = 1
    BY <1>3 DEF NoteOff, TypedVoice, VoiceType
  <2> HIDE DEF w
  <2>2. QED
    BY <1>0, <1>3, <2>1 DEF Sound, Orphan, w
<1>4. CASE v.playing /\ ~v.newNotePending /\ ~v.newNotePlayed
  <2>1. w.released = TRUE /\ w.env = "release"
    BY <1>4 DEF NoteOff, TypedVoice, VoiceType
  <2> HIDE DEF w
  <2>2. QED
    BY <1>0, <1>4, <2>1 DEF Sound, Orphan, w
<1>5. QED
  BY <1>1, <1>2, <1>3, <1>4

LEMMA OrphanOfNoteOffQuick ==
  ASSUME NEW v \in TypedVoice, Sound(v, how)
  PROVE  /\ Orphan(NoteOffQuick(v))
         /\ NoteOffQuick(v).playing => v.playing
         /\ NoteOffQuick(v).note = v.note
<1> DEFINE w == NoteOffQuick(v)
<1>1. CASE ~v.playing
  <2>1. w = v
    BY <1>1 DEF NoteOffQuick
  <2>2. QED
    BY <1>1, <2>1 DEF Sound, Orphan
<1>2. CASE v.playing /\ v.newNotePlayed
  <2>1. w.playing = FALSE /\ w.released = FALSE /\ w.newNotePlayed = FALSE /\ w.note = v.note
    BY <1>2 DEF NoteOffQuick, KillNow, TypedVoice, VoiceType
  <2> HIDE DEF w
  <2>2. QED
    BY <2>1 DEF Orphan, w
<1>3. CASE v.playing /\ ~v.newNotePlayed
  <2>1. /\ w.playing = v.playing /\ w.note = v.note /\ w.newNotePlayed = v.newNotePlayed
        /\ w.released = TRUE /\ w.env = "quick"
    BY <1>3 DEF NoteOffQuick, TypedVoice, VoiceType
  <2> HIDE DEF w
  <2>2. QED
    BY <1>3, <2>1 DEF Orphan, w
<1>4. QED
  BY <1>1, <1>2, <1>3


(* A block of samples changes neither the note of a voice nor whether it     *)
(* will sound until somebody ends its note: a note that was pending starts,  *)
(* and one that carries a mark ends.                                         *)
LEMMA RenderedKeeps ==
  ASSUME NEW v \in TypedVoice, Sound(v, how), v.playing, NEW dies, dies => Dying(v),
         NEW d, NEW h, Anchored(v, d, h)
  PROVE  LET r == Rendered(v, dies, how)
         IN  /\ Sound(r, how) /\ Anchored(r, d, h) /\ (Sustains(v) => Sustains(r))
             /\ r.note = v.note /\ (r.noteAlreadyFinished = 2 => ~r.newNotePlayed)
<1> DEFINE s == IF v.newNotePlayed THEN [v EXCEPT !.newNotePlayed = FALSE, !.env = "on"] ELSE v
           e == [s EXCEPT !.env = "dead"]
           r == Rendered(v, dies, how)
<1>1. /\ s.playing = v.playing /\ s.released = v.released /\ s.note = v.note
      /\ s.newNotePending = v.newNotePending /\ s.pendingNote = v.pendingNote
      /\ s.newNotePlayed = FALSE /\ s.noteAlreadyFinished = v.noteAlreadyFinished
      /\ s.nextGlidingNote = v.nextGlidingNote /\ s.newGlide = v.newGlide
      /\ s.holdedByPedal = v.holdedByPedal
      /\ s.env = (IF v.newNotePlayed THEN "on" ELSE v.env)
  BY DEF TypedVoice, VoiceType
<1>2. s \in TypedVoice
  <2>1. [v EXCEPT !.newNotePlayed = FALSE, !.env = "on"] \in TypedVoice
    BY DEF TypedVoice, VoiceType, EnvStates
  <2>2. QED
    BY <2>1
<1>3. r = IF dies \/ s.env = "dead" THEN EndNoteOrBeginNextOne(e, how) ELSE s
  BY DEF Rendered
<1> HIDE DEF s, r
<1>4. e \in TypedVoice
  BY <1>2 DEF TypedVoice, VoiceType, EnvStates
<1>5. /\ e.playing = s.playing /\ e.released = s.released /\ e.note = s.note
      /\ e.newNotePending = s.newNotePending /\ e.pendingNote = s.pendingNote
      /\ e.newNotePlayed = FALSE /\ e.noteAlreadyFinished = s.noteAlreadyFinished
      /\ e.nextGlidingNote = s.nextGlidingNote /\ e.newGlide = s.newGlide
  BY <1>1, <1>2 DEF TypedVoice, VoiceType
<1> HIDE DEF e
<1>6. CASE ~(dies \/ s.env = "dead")
  <2>1. r = s
    BY <1>3, <1>6
  <2>2. Sustains(s) = Sustains(v) /\ Settled(s) = Settled(v)
    BY <1>1 DEF Sustains, Flagged, Settled, Sound
  <2>3. Sound(s, how) /\ Anchored(s, d, h)
    BY <1>1, <2>2 DEF Sound, Anchored
  <2>4. QED
    BY <1>1, <2>1, <2>2, <2>3 DEF r
<1>7. CASE (dies \/ s.env = "dead") /\ ~v.newNotePending
  <2>1. r = [e EXCEPT !.playing = FALSE, !.released = FALSE]
    BY <1>1, <1>3, <1>5, <1>7 DEF EndNoteOrBeginNextOne, Flagged
  <2>2. /\ r.playing = FALSE /\ r.released = FALSE /\ r.newNotePending = FALSE /\ r.note = v.note
        /\ r.newNotePlayed = FALSE
        /\ r.nextGlidingNote = v.nextGlidingNote /\ r.newGlide = v.newGlide
    BY <1>1, <1>4, <1>5, <1>7, <2>1 DEF TypedVoice, VoiceType
  <2>3. ~Sustains(v)
    BY <1>1, <1>7 DEF Sustains, Dying
  <2>4. Settled(r)
    BY <2>2, <2>3 DEF Settled, Sound
  <2>5. ~Sustains(r)
    BY <2>2 DEF Sustains
  <2>6. Sound(r, how) /\ Anchored(r, d, h)
    BY <2>2, <2>4, <2>5 DEF Sound, Anchored
  <2>7. QED
    BY <2>2, <2>3, <2>6 DEF r
<1>8. CASE (dies \/ s.env = "dead") /\ v.newNotePending
  <2>1. v.note \in Keys /\ Settled(v) /\ Settled(e)
    BY <1>1, <1>5, <1>8 DEF Sound, Settled, TypedVoice, VoiceType
  <2>2. \A n \in Keys : n + 128 > 127 /\ ~(n > 127) /\ (n + 128) - 128 = n
    OBVIOUS
  <2>3. v.note + 128 > 127 /\ ~(v.note > 127) /\ (v.note + 128) - 128 = v.note
    BY <2>1, <2>2
  <2>4. CASE Flagged(v)
    <3>1. v.pendingNote = v.note + 128
      BY <1>8, <2>3, <2>4 DEF Flagged, Sound
    <3>2. Flagged(e) /\ e.pendingNote - 128 = v.note
      BY <1>1, <1>5, <2>3, <2>4, <3>1 DEF Flagged
    <3> DEFINE w == NoteOn(e, v.note, how)
    <3>3. r = [w EXCEPT !.noteAlreadyFinished = 1]
      BY <1>1, <1>3, <1>5, <1>8, <3>2 DEF EndNoteOrBeginNextOne
    <3>4. w \in TypedVoice
      BY <1>4, <2>1, NoteOnTyped
    <3>5. Sound(w, how) /\ Settled(w) /\ w.playing /\ w.note = v.note /\ ~w.newNotePending
      BY <1>4, <2>1, NoteOnSounds
    <3> HIDE DEF w
    <3>6. /\ r.playing = w.playing /\ r.released = w.released /\ r.newNotePending = w.newNotePending
          /\ r.newNotePlayed = w.newNotePlayed /\ r.env = w.env /\ r.note = w.note
          /\ r.nextGlidingNote = w.nextGlidingNote /\ r.newGlide = w.newGlide
          /\ r.noteAlreadyFinished = 1
      BY <3>3, <3>4 DEF TypedVoice, VoiceType
    <3>7. ~Sustains(r) /\ Settled(r) /\ ~Sustains(v)
      BY <1>8, <2>4, <3>5, <3>6 DEF Sustains, Settled
    <3>8. Sound(r, how) /\ Anchored(r, d, h)
      BY <3>5, <3>6, <3>7 DEF Sound, Anchored
    <3>9. QED
      BY <3>5, <3>6, <3>7, <3>8 DEF r
  <2>5. CASE ~Flagged(v)
    <3>1. v.pendingNote = v.note
      BY <1>8, <2>3, <2>5 DEF Flagged, Sound
    <3>2. ~Flagged(e) /\ e.pendingNote = v.note
      BY <1>1, <1>5, <1>8, <2>5, <3>1 DEF Flagged
    <3>3. r = NoteOn(e, v.note, how)
      BY <1>1, <1>3, <1>5, <1>8, <3>2 DEF EndNoteOrBeginNextOne
    <3>4. v.note \in d
      BY <1>8, <2>5 DEF Anchored, Sustains, Sound
    <3>5. /\ Sound(r, how) /\ Anchored(r, d, h) /\ Sustains(r) /\ r.note = v.note
      BY <1>4, <2>1, <3>3, <3>4, NoteOnSounds
    <3>6. r.noteAlreadyFinished # 2
      BY <3>5 DEF Sustains
    <3>7. QED
      BY <3>5, <3>6 DEF r
  <2>6. QED
    BY <2>4, <2>5
<1>9. QED
  BY <1>6, <1>7, <1>8

LEMMA NextBlockKeeps ==
  ASSUME NEW v \in TypedVoice, Sound(v, how), v.playing, NEW dies, dies => Dying(v),
         NEW d, NEW h, Anchored(v, d, h)
  PROVE  LET w == NextBlock(v, dies, how)
         IN  /\ Sound(w, how) /\ Anchored(w, d, h) /\ (Sustains(v) => Sustains(w))
             /\ w.note = v.note
<1> DEFINE r == Rendered(v, dies, how)
           w == NextBlock(v, dies, how)
<1>1. /\ Sound(r, how) /\ Anchored(r, d, h) /\ (Sustains(v) => Sustains(r))
      /\ r.note = v.note /\ (r.noteAlreadyFinished = 2 => ~r.newNotePlayed)
  BY RenderedKeeps
<1>2. r \in TypedVoice /\ r.noteAlreadyFinished \in {0, 1, 2}
  <2>1. r \in TypedVoice
    BY RenderedTyped
  <2>2. QED
    BY <2>1 DEF TypedVoice, VoiceType
<1>3. w = CASE r.noteAlreadyFinished = 0 -> r
            [] r.noteAlreadyFinished = 2 -> NoteOff([r EXCEPT !.noteAlreadyFinished = 0])
            [] OTHER -> [r EXCEPT !.noteAlreadyFinished = @ + 1]
  BY DEF NextBlock
<1> HIDE DEF r, w
<1>4. CASE r.noteAlreadyFinished = 0
  <2>1. w = r
    BY <1>3, <1>4
  <2>2. QED
    BY <1>1, <2>1 DEF w
<1>5. r.noteAlreadyFinished # 0 => ~Sustains(r) /\ Settled(r) /\ ~r.newNotePending
  BY <1>1 DEF Sound, Sustains
<1>6. CASE r.noteAlreadyFinished = 1
  <2>1. w = [r EXCEPT !.noteAlreadyFinished = r.noteAlreadyFinished + 1]
    BY <1>3, <1>6
  <2>2. /\ w.playing = r.playing /\ w.released = r.released /\ w.newNotePending = r.newNotePending
        /\ w.newNotePlayed = r.newNotePlayed /\ w.env = r.env /\ w.note = r.note
        /\ w.nextGlidingNote = r.nextGlidingNote /\ w.newGlide = r.newGlide
        /\ w.noteAlreadyFinished = 2
    BY <1>2, <1>6, <2>1 DEF TypedVoice, VoiceType
  <2>3. ~Sustains(w) /\ Settled(w)
    BY <1>5, <1>6, <2>2 DEF Sustains, Settled
  <2>4. Sound(w, how) /\ Anchored(w, d, h)
    BY <1>1, <1>5, <1>6, <2>2, <2>3 DEF Sound, Anchored
  <2>5. QED
    BY <1>1, <1>5, <1>6, <2>2, <2>3, <2>4 DEF w
<1>7. CASE r.noteAlreadyFinished = 2
  <2> DEFINE u == [r EXCEPT !.noteAlreadyFinished = 0]
  <2>1. u \in TypedVoice
    BY <1>2 DEF TypedVoice, VoiceType
  <2>2. w = NoteOff(u)
    BY <1>3, <1>7
  <2>3. /\ u.playing = r.playing /\ u.released = r.released /\ u.newNotePending = r.newNotePending
        /\ u.newNotePlayed = r.newNotePlayed /\ u.env = r.env /\ u.note = r.note
        /\ u.nextGlidingNote = r.nextGlidingNote /\ u.newGlide = r.newGlide
    BY <1>2 DEF TypedVoice, VoiceType
  <2> HIDE DEF u
  <2>4. ~Flagged(u) /\ Settled(u)
    BY <1>5, <1>7, <2>3 DEF Flagged, Settled
  <2>5. Sound(u, how)
    BY <1>1, <1>5, <1>7, <2>3, <2>4 DEF Sound
  <2>6. Sound(w, how) /\ Settled(w) /\ ~Sustains(w) /\ w.note = u.note
    BY <2>1, <2>2, <2>4, <2>5, NoteOffEnds
  <2>7. Anchored(w, d, h)
    BY <2>6 DEF Anchored
  <2>8. QED
    BY <1>1, <1>5, <1>7, <2>3, <2>6, <2>7 DEF w
<1>8. QED
  BY <1>2, <1>4, <1>6, <1>7

-----------------------------------------------------------------------------
(* The instrument: what a note-on leaves. *)
TimbreSound(t, d, h) ==
    /\ \A v \in Voice_ : Sound(t.voices[v], how) /\ Anchored(t.voices[v], d, h)
    /\ Shared(t.voices, how)

(* Note k is the note of no voice but v. *)
Free(t, v, k) ==
    how.mode = "POLY" => \A x \in Voice_ \ {v} : t.voices[x].playing => t.voices[x].note # k

(* The voices of t become vs when v is taken for note k. *)
Struck(t, v, k, vs, d, h) ==
    /\ \A x \in Voice_ : x \notin Taken(v) => vs[x] = t.voices[x]
    /\ \A x \in Taken(v) : Sound(vs[x], how) /\ Anchored(vs[x], d, h)
    /\ how.mode = "POLY" => vs[v].note = k
    /\ how.mode = "UNISON" => \A x \in Voice_ : vs[x] = vs[1]

LEMMA TakenSounds ==
  ASSUME NEW t, NEW d, NEW h, TimbreSound(t, d, h), how.mode \in PlayModes,
         NEW v \in Considered, NEW k, Free(t, v, k),
         NEW vs, Struck(t, v, k, vs, d, h)
  PROVE  /\ \A x \in Voice_ : Sound(vs[x], how) /\ Anchored(vs[x], d, h)
         /\ Shared(vs, how)
<1>1. \A x \in Voice_ : Sound(vs[x], how) /\ Anchored(vs[x], d, h)
  BY DEF TimbreSound, Struck
<1>2. CASE how.mode = "POLY"
  <2>1. \A x \in Voice_ : x # v => vs[x] = t.voices[x]
    BY <1>2 DEF Taken, Struck
  <2>2. ASSUME NEW a \in Voice_, NEW b \in Voice_, a # b, vs[a].playing, vs[b].playing
        PROVE  vs[a].note # vs[b].note
    <3>1. CASE a = v
      BY <1>2, <2>1, <2>2, <3>1 DEF Free, Struck
    <3>2. CASE b = v
      BY <1>2, <2>1, <2>2, <3>2 DEF Free, Struck
    <3>3. CASE a # v /\ b # v
      BY <1>2, <2>1, <2>2, <3>3 DEF TimbreSound, Shared
    <3>4. QED
      BY <3>1, <3>2, <3>3
  <2>3. QED
    BY <1>1, <1>2, <2>2 DEF Shared
<1>3. CASE how.mode = "MONO"
  <2>1. v = 1
    BY <1>3 DEF Considered
  <2>2. \A x \in Voice_ \ {1} : vs[x] = t.voices[x]
    BY <1>3, <2>1 DEF Taken, Struck
  <2>3. \A x \in Voice_ \ {1} : ~vs[x].playing
    BY <1>3, <2>2 DEF TimbreSound, Shared
  <2>4. QED
    BY <1>1, <1>3, <2>3 DEF Shared
<1>4. CASE how.mode = "UNISON"
  BY <1>1, <1>4 DEF Shared, Struck
<1>5. QED
  BY <1>2, <1>3, <1>4 DEF PlayModes

(* A voice that does not play is given the note. *)
LEMMA StartSounds ==
  ASSUME NEW t \in TimbreType, NEW d, NEW h, TimbreSound(t, d, h), how.mode \in PlayModes,
         NEW v \in Considered, ~t.voices[v].playing, NEW k \in Keys, k \in d,
         Free(t, v, k)
  PROVE  /\ TimbreSound(Start(t, v, k), d, h)
         /\ how.mode = "MONO" => Sustains(Start(t, v, k).voices[1])
<1> DEFINE vs == [w \in Voice_ |-> IF w \in Taken(v) THEN NoteOn(t.voices[w], k, how) ELSE t.voices[w]]
<1>0. v \in Voice_ /\ 1 \in Voice_
  BY DEF Considered, Voice_
<1>1. \A x \in Voice_ : t.voices[x] \in TypedVoice
  BY DEF TimbreType
<1>2. \A x \in Taken(v) : x \in Voice_ /\ ~t.voices[x].playing
  <2>1. CASE how.mode = "UNISON"
    <3>1. v = 1 /\ \A x \in Voice_ : t.voices[x] = t.voices[1]
      BY <2>1 DEF Considered, TimbreSound, Shared
    <3>2. QED
      BY <2>1, <3>1 DEF Taken
  <2>2. CASE how.mode # "UNISON"
    BY <1>0, <2>2 DEF Taken
  <2>3. QED
    BY <2>1, <2>2
<1>3. \A x \in Taken(v) : Settled(t.voices[x])
  BY <1>2 DEF TimbreSound, Sound, Sustains
<1>4. ASSUME NEW x \in Taken(v)
      PROVE  Sound(vs[x], how) /\ Anchored(vs[x], d, h) /\ Sustains(vs[x]) /\ vs[x].note = k
  <2>1. x \in Voice_ /\ t.voices[x] \in TypedVoice /\ Settled(t.voices[x])
    BY <1>1, <1>2, <1>3
  <2>2. vs[x] = NoteOn(t.voices[x], k, how)
    BY <2>1
  <2>3. LET w == NoteOn(t.voices[x], k, how)
        IN  Sound(w, how) /\ Anchored(w, d, h) /\ Sustains(w) /\ w.note = k
    BY <2>1, NoteOnSounds
  <2> HIDE DEF vs
  <2>4. QED
    BY <2>2, <2>3
<1>5. v \in Taken(v)
  BY <1>0 DEF Taken
<1>6. how.mode = "UNISON" => \A x \in Voice_ : vs[x] = vs[1]
  BY <1>0 DEF Taken, TimbreSound, Shared
<1>7. \A x \in Voice_ : x \notin Taken(v) => vs[x] = t.voices[x]
  OBVIOUS
<1>8. Start(t, v, k).voices = vs
  BY DEF Start, TimbreType
<1> HIDE DEF vs
<1>9. /\ \A x \in Voice_ : Sound(vs[x], how) /\ Anchored(vs[x], d, h)
      /\ Shared(vs, how)
  <2>1. how.mode = "POLY" => vs[v].note = k
    BY <1>4, <1>5
  <2>2. \A x \in Taken(v) : Sound(vs[x], how) /\ Anchored(vs[x], d, h)
    BY <1>4
  <2>3. Struck(t, v, k, vs, d, h)
    BY <1>6, <1>7, <2>1, <2>2 DEF Struck
  <2>4. QED
    BY <2>3, TakenSounds
<1>10. how.mode = "MONO" => Sustains(vs[1])
  BY <1>4, <1>5 DEF Considered
<1>11. QED
  BY <1>8, <1>9, <1>10 DEF TimbreSound

(* A voice that plays is taken. *)
LEMMA TakeSounds ==
  ASSUME NEW t \in TimbreType, NEW d, NEW h, TimbreSound(t, d, h), how.mode \in PlayModes,
         NEW v \in Considered, t.voices[v].playing, NEW k \in Keys, k \in d,
         Free(t, v, k),
         Glides(how) /\ ~t.voices[v].released =>
             /\ Sustains(t.voices[v]) /\ ~t.voices[v].newNotePending
             /\ t.voices[v].note # k \/ t.voices[v].holdedByPedal
  PROVE  /\ TimbreSound(Take(t, v, k), d, h)
         /\ how.mode = "MONO" => Sustains(Take(t, v, k).voices[1])
<1> DEFINE vs == [w \in Voice_ |-> IF w \in Taken(v) THEN NoteOnWithoutPop(t.voices[w], k, how) ELSE t.voices[w]]
<1>0. v \in Voice_ /\ 1 \in Voice_
  BY DEF Considered, Voice_
<1>1. \A x \in Voice_ : t.voices[x] \in TypedVoice
  BY DEF TimbreType
<1>2. \A x \in Taken(v) : x \in Voice_ /\ t.voices[x] = t.voices[v]
  <2>1. CASE how.mode = "UNISON"
    <3>1. v = 1 /\ \A x \in Voice_ : t.voices[x] = t.voices[1]
      BY <2>1 DEF Considered, TimbreSound, Shared
    <3>2. QED
      BY <2>1, <3>1 DEF Taken
  <2>2. CASE how.mode # "UNISON"
    BY <1>0, <2>2 DEF Taken
  <2>3. QED
    BY <2>1, <2>2
<1>3. LET w == NoteOnWithoutPop(t.voices[v], k, how)
      IN  /\ Sound(w, how) /\ Anchored(w, d, h) /\ Sustains(w) /\ w.playing
          /\ ~Glides(how) => w.note = k
  BY <1>0, <1>1, NoteOnWithoutPopSounds DEF TimbreSound
<1>4. \A x \in Taken(v) : vs[x] = NoteOnWithoutPop(t.voices[v], k, how)
  BY <1>2
<1>5. v \in Taken(v)
  BY <1>0 DEF Taken
<1>6. how.mode = "UNISON" => \A x \in Voice_ : vs[x] = vs[1]
  BY <1>0, <1>4 DEF Taken
<1>7. \A x \in Voice_ : x \notin Taken(v) => vs[x] = t.voices[x]
  OBVIOUS
<1>8. Take(t, v, k).voices = vs
  BY DEF Take, TimbreType
<1> HIDE DEF vs
<1>9. how.mode = "POLY" => vs[v].note = k
  BY <1>3, <1>4, <1>5 DEF Glides
<1>10. \A x \in Taken(v) : Sound(vs[x], how) /\ Anchored(vs[x], d, h)
  BY <1>3, <1>4
<1>11. /\ \A x \in Voice_ : Sound(vs[x], how) /\ Anchored(vs[x], d, h)
       /\ Shared(vs, how)
  <2>1. Struck(t, v, k, vs, d, h)
    BY <1>6, <1>7, <1>9, <1>10 DEF Struck
  <2>2. QED
    BY <2>1, TakenSounds
<1>12. how.mode = "MONO" => Sustains(vs[1])
  BY <1>3, <1>4, <1>5 DEF Considered
<1>13. QED
  BY <1>8, <1>11, <1>12 DEF TimbreSound

(* A note-on: whichever voice is chosen. *)
LEMMA PreenNoteOnSounds ==
  ASSUME NEW t \in TimbreType, NEW d, NEW h, TimbreSound(t, d, h), how.mode \in PlayModes,
         NEW k \in Keys, k \in d,
         \A v \in Voice_ : ~(t.voices[v].newNotePending /\ t.voices[v].note = k),
         Glides(how) => \A v \in Candidates(t) : t.voices[v].playing /\ ~t.voices[v].released =>
             Sustains(t.voices[v]) /\ (t.voices[v].note # k \/ t.voices[v].holdedByPedal)
  PROVE  LET w == PreenNoteOn(t, k)
         IN  /\ TimbreSound(w, d, h)
             /\ w.stack = IF how.mode = "MONO" THEN MonoNotePush(t.stack, k) ELSE <<>>
             /\ Candidates(t) = {} => w.voices = t.voices
             /\ Candidates(t) # {} /\ how.mode = "MONO" => Sustains(w.voices[1])
<1> DEFINE s == IF how.mode = "MONO" THEN MonoNotePush(t.stack, k) ELSE <<>>
           u == [t EXCEPT !.stack = s]
           open == Candidates(t)
           same == {v \in open : t.voices[v].playing /\ t.voices[v].note = k}
           free == {v \in open : ~t.voices[v].playing}
           released == {v \in open : t.voices[v].released}
           w == PreenNoteOn(t, k)
<1>1. u \in TimbreType /\ u.voices = t.voices /\ u.stack = s
  <2>1. MonoNotePush(t.stack, k) \in StackType
    BY PushTyped DEF TimbreType
  <2>2. <<>> \in StackType
    BY DEF StackType, IsInjective
  <2>3. s \in StackType
    BY <2>1, <2>2
  <2> HIDE DEF s
  <2>4. QED
    BY <2>3, StackChanged DEF TimbreType
<1>2. w =
        CASE same # {} -> Take(u, Min(same), k)
          [] same = {} /\ free # {} -> Start(u, Min(free), k)
          [] same = {} /\ free = {} /\ released # {} -> Take(u, Oldest(t, released), k)
          [] open # {} /\ open \cap (same \cup free \cup released) = {} -> Take(u, Oldest(t, open), k)
          [] open = {} -> u
  BY DEF PreenNoteOn
<1>3. /\ open \subseteq Considered /\ open \in SUBSET Voice_
      /\ \A v \in open : v \in Voice_ /\ ~t.voices[v].newNotePending
  BY DEF Candidates, Considered, Voice_
<1>4. same \subseteq open /\ free \subseteq open /\ released \subseteq open
  OBVIOUS
<1>5. \A v \in same : t.voices[v].playing /\ t.voices[v].note = k
  OBVIOUS
<1>6. \A v \in free : ~t.voices[v].playing
  OBVIOUS
<1>7. TimbreSound(u, d, h)
  BY <1>1 DEF TimbreSound
<1>8. ASSUME NEW v \in open, same = {} \/ v \in same PROVE Free(u, v, k)
  <2>1. CASE how.mode = "POLY"
    <3> SUFFICES ASSUME NEW x \in Voice_ \ {v}, t.voices[x].playing, t.voices[x].note = k PROVE FALSE
      BY <1>1 DEF Free
    <3>1. x \in open
      BY <2>1 DEF Candidates, Considered
    <3>2. x \in same
      BY <3>1
    <3>3. v \in same
      BY <1>8, <3>2
    <3>4. v \in Voice_ /\ t.voices[v].playing /\ t.voices[v].note = k
      BY <1>3, <3>3
    <3>5. QED
      BY <2>1, <3>4 DEF TimbreSound, Shared
  <2>2. QED
    BY <2>1 DEF Free
<1>9. ASSUME NEW v \in open, t.voices[v].playing, same = {} \/ v \in same, w = Take(u, v, k)
      PROVE  TimbreSound(w, d, h) /\ w.stack = s /\ (how.mode = "MONO" => Sustains(w.voices[1]))
  <2>1. /\ v \in Considered /\ u.voices[v].playing /\ Free(u, v, k)
        /\ Glides(how) /\ ~u.voices[v].released =>
             /\ Sustains(u.voices[v]) /\ ~u.voices[v].newNotePending
             /\ u.voices[v].note # k \/ u.voices[v].holdedByPedal
    BY <1>1, <1>3, <1>8, <1>9
  <2>2. w.stack = s
    BY <1>1, <1>9 DEF Take, TimbreType
  <2> HIDE DEF u, w
  <2>3. TimbreSound(Take(u, v, k), d, h) /\ (how.mode = "MONO" => Sustains(Take(u, v, k).voices[1]))
    BY <1>1, <1>7, <2>1, TakeSounds
  <2>4. QED
    BY <1>9, <2>2, <2>3
<1>10. ASSUME NEW v \in open, ~t.voices[v].playing, same = {}, w = Start(u, v, k)
       PROVE  TimbreSound(w, d, h) /\ w.stack = s /\ (how.mode = "MONO" => Sustains(w.voices[1]))
  <2>1. v \in Considered /\ ~u.voices[v].playing /\ Free(u, v, k)
    BY <1>1, <1>3, <1>8, <1>10
  <2>2. w.stack = s
    BY <1>1, <1>10 DEF Start, TimbreType
  <2> HIDE DEF u, w
  <2>3. TimbreSound(Start(u, v, k), d, h) /\ (how.mode = "MONO" => Sustains(Start(u, v, k).voices[1]))
    BY <1>1, <1>7, <2>1, StartSounds
  <2>4. QED
    BY <1>10, <2>2, <2>3
<1>11. \A v \in open : v \in free \/ t.voices[v].playing
  OBVIOUS
<1> HIDE DEF u, open, same, free, released, w
<1>g. ASSUME open # {},
             TimbreSound(w, d, h) /\ w.stack = s /\ (how.mode = "MONO" => Sustains(w.voices[1]))
      PROVE  /\ TimbreSound(w, d, h) /\ w.stack = s
             /\ open = {} => w.voices = t.voices
             /\ open # {} /\ how.mode = "MONO" => Sustains(w.voices[1])
  BY <1>g
<1>12. CASE same # {}
  <2>1. open # {} /\ open \cap (same \cup free \cup released) # {}
    BY <1>4, <1>12
  <2>2. w = Take(u, Min(same), k)
    BY <1>2, <1>12, <2>1
  <2>3. Min(same) \in same /\ Min(same) \in open
    BY <1>3, <1>4, <1>12, OldestIsOne
  <2>4. t.voices[Min(same)].playing
    BY <1>5, <2>3
  <2>5. QED
    BY <1>9, <1>g, <2>1, <2>2, <2>3, <2>4 DEF w, open
<1>13. CASE same = {} /\ free # {}
  <2>1. open # {} /\ open \cap (same \cup free \cup released) # {}
    BY <1>4, <1>13
  <2>2. w = Start(u, Min(free), k)
    BY <1>2, <1>13, <2>1
  <2>3. Min(free) \in free /\ Min(free) \in open
    BY <1>3, <1>4, <1>13, OldestIsOne
  <2>4. ~t.voices[Min(free)].playing
    BY <1>6, <2>3
  <2>5. QED
    BY <1>10, <1>13, <1>g, <2>1, <2>2, <2>3, <2>4 DEF w, open
<1>14. CASE same = {} /\ free = {} /\ released # {}
  <2>1. open # {} /\ open \cap (same \cup free \cup released) # {}
    BY <1>4, <1>14
  <2>2. w = Take(u, Oldest(t, released), k)
    BY <1>2, <1>14, <2>1
  <2>3. Oldest(t, released) \in open
    BY <1>3, <1>4, <1>14, OldestIsOne
  <2>4. t.voices[Oldest(t, released)].playing
    BY <1>11, <1>14, <2>3
  <2>5. QED
    BY <1>9, <1>14, <1>g, <2>1, <2>2, <2>3, <2>4 DEF w, open
<1>15. CASE same = {} /\ free = {} /\ released = {} /\ open # {}
  <2>1. open \cap (same \cup free \cup released) = {}
    BY <1>15
  <2>2. w = Take(u, Oldest(t, open), k)
    BY <1>2, <1>15, <2>1
  <2>3. Oldest(t, open) \in open
    BY <1>3, <1>15, OldestIsOne
  <2>4. t.voices[Oldest(t, open)].playing
    BY <1>11, <1>15, <2>3
  <2>5. QED
    BY <1>9, <1>15, <1>g, <2>2, <2>3, <2>4 DEF w, open
<1>16. CASE same = {} /\ free = {} /\ released = {} /\ open = {}
  <2>1. w = u
    BY <1>2, <1>16
  <2>2. QED
    BY <1>1, <1>7, <1>16, <2>1 DEF w, open
<1>17. QED
  BY <1>12, <1>13, <1>14, <1>15, <1>16

(* A note-off that reaches a voice, with `back' the keys left in the stack. *)
LEMMA ReleasedVoiceSounds ==
  ASSUME NEW v \in TypedVoice, Sound(v, how), NEW d, Anchored(v, d, holdPedal_),
         NEW k, Reached(v, k), NEW back \in StackType, ToSet(back) \subseteq d \ {k},
         holdPedal_ => ~v.newNotePending, ~holdPedal_ => ~Flagged(v)
  PROVE  LET w == ReleasedVoice(v, k, back)
         IN  /\ Sound(w, how) /\ Anchored(w, d \ {k}, holdPedal_) /\ Settled(w)
             /\ w.playing = v.playing /\ (Settled(v) => w.note = v.note)
             /\ (~Settled(v) \/ holdPedal_) /\ Sustains(v) => Sustains(w)
             /\ ~(~Settled(v) \/ holdPedal_) => w = NoteOff(v) /\ ~Sustains(w)
<1> DEFINE w == ReleasedVoice(v, k, back)
<1>1. CASE Settled(v) /\ holdPedal_
  <2>1. w = [v EXCEPT !.holdedByPedal = TRUE]
    BY <1>1 DEF ReleasedVoice
  <2>2. /\ w.playing = v.playing /\ w.released = v.released /\ w.note = v.note
        /\ w.newNotePending = v.newNotePending /\ w.pendingNote = v.pendingNote
        /\ w.newNotePlayed = v.newNotePlayed /\ w.noteAlreadyFinished = v.noteAlreadyFinished
        /\ w.nextGlidingNote = v.nextGlidingNote /\ w.newGlide = v.newGlide
        /\ w.holdedByPedal = TRUE /\ w.env = v.env
    BY <2>1 DEF TypedVoice, VoiceType
  <2> HIDE DEF w
  <2>3. Settled(w) /\ Sustains(w) = Sustains(v)
    BY <1>1, <2>2 DEF Settled, Sustains, Flagged
  <2>4. Sound(w, how) /\ Anchored(w, d \ {k}, holdPedal_)
    BY <1>1, <2>2, <2>3 DEF Sound, Anchored
  <2>5. QED
    BY <1>1, <2>2, <2>3, <2>4 DEF w
<1>2. CASE Settled(v) /\ ~holdPedal_
  <2>1. w = NoteOff(v)
    BY <1>2 DEF ReleasedVoice
  <2>2. Sound(w, how) /\ Settled(w) /\ ~Sustains(w) /\ w.playing = v.playing /\ w.note = v.note
    BY <1>2, <2>1, NoteOffEnds
  <2>3. Anchored(w, d \ {k}, holdPedal_)
    BY <2>2 DEF Anchored
  <2>4. QED
    BY <1>2, <2>1, <2>2, <2>3
<1>3. CASE ~Settled(v)
  <2> DEFINE n == IF v.note = k THEN v.nextGlidingNote ELSE IF back = <<>> THEN v.note ELSE Last(back)
  <2>1. n \in d \ {k}
    <3>1. v.note \in d /\ v.nextGlidingNote \in d /\ v.nextGlidingNote # v.note
      BY <1>3 DEF Anchored, Sound
    <3>2. back # <<>> => Last(back) \in d \ {k}
      BY LastOfStack
    <3>3. QED
      BY <3>1, <3>2
  <2>2. ~v.holdedByPedal
    BY <1>3 DEF Sound
  <2> DEFINE g == GlideToNote(v, IF back = <<>> THEN v.note ELSE Last(back))
  <2>3. w = GlideFirstNoteOff(IF v.note = k THEN v ELSE g)
    BY <1>3 DEF ReleasedVoice
  <2> HIDE DEF w
  <2>4. /\ w.playing = v.playing /\ w.released = v.released /\ w.note = n
        /\ w.newNotePending = v.newNotePending /\ w.pendingNote = v.pendingNote
        /\ w.newNotePlayed = v.newNotePlayed /\ w.noteAlreadyFinished = v.noteAlreadyFinished
        /\ w.nextGlidingNote = None /\ w.holdedByPedal = v.holdedByPedal /\ w.env = v.env
    BY <2>2, <2>3 DEF TypedVoice, VoiceType, GlideFirstNoteOff, GlideToNote
  <2> HIDE DEF n, g
  <2>5. Settled(w) /\ Sustains(w) /\ Sustains(v) /\ ~v.newNotePending
    BY <1>3, <2>4 DEF Settled, Sustains, Flagged, Sound
  <2>6. Sound(w, how) /\ Anchored(w, d \ {k}, holdPedal_)
    BY <1>3, <2>1, <2>4, <2>5 DEF Sound, Anchored
  <2>7. QED
    BY <1>3, <2>4, <2>5, <2>6 DEF w
<1>4. QED
  BY <1>1, <1>2, <1>3

(* A note-off, before MONO mode goes back to a key. *)
LEMMA AfterNoteOffSounds ==
  ASSUME NEW t \in TimbreType, NEW d, TimbreSound(t, d, holdPedal_), how.mode \in PlayModes,
         NEW k \in Keys, ToSet(t.stack) \subseteq d,
         holdPedal_ => \A v \in ReachedVoices(t, k) : ~t.voices[v].newNotePending,
         ~holdPedal_ => \A v \in ReachedVoices(t, k) : ~Flagged(t.voices[v])
  PROVE  LET a == AfterNoteOff(t, k)
         IN  /\ TimbreSound(a, d \ {k}, holdPedal_)
             /\ a.stack = IF how.mode = "MONO" THEN MonoNoteRemove(t.stack, k) ELSE <<>>
             /\ ToSet(a.stack) \subseteq ToSet(t.stack) \ {k}
             /\ 1 \notin ReachedVoices(t, k) => a.voices[1] = t.voices[1]
             /\ 1 \in ReachedVoices(t, k) =>
                  /\ (~Settled(t.voices[1]) \/ holdPedal_) /\ Sustains(t.voices[1]) => Sustains(a.voices[1])
                  /\ ~(~Settled(t.voices[1]) \/ holdPedal_) =>
                        ~Sustains(a.voices[1]) /\ a.voices[1].playing
<1> DEFINE s == IF how.mode = "MONO" THEN MonoNoteRemove(t.stack, k) ELSE <<>>
           hit == ReachedVoices(t, k)
           vs == [v \in Voice_ |-> IF v \in hit THEN ReleasedVoice(t.voices[v], k, s) ELSE t.voices[v]]
           a == AfterNoteOff(t, k)
<1>1. s \in StackType /\ ToSet(s) \subseteq ToSet(t.stack) \ {k}
  <2>1. /\ MonoNoteRemove(t.stack, k) \in StackType
        /\ ToSet(MonoNoteRemove(t.stack, k)) = ToSet(t.stack) \ {k}
    BY RemoveTyped DEF TimbreType
  <2>2. <<>> \in StackType /\ ToSet(<<>>) = {}
    BY DEF StackType, IsInjective, ToSet
  <2>3. QED
    BY <2>1, <2>2
<1>2. a.voices = vs /\ a.stack = s
  BY DEF AfterNoteOff, TimbreType
<1>0. 1 \in Voice_ /\ \A v \in Voice_ : t.voices[v] \in TypedVoice
  BY DEF Voice_, TimbreType
<1>3. \A v \in hit : v \in Voice_ /\ Reached(t.voices[v], k)
  <2> DEFINE all == {v \in (IF how.mode = "MONO" THEN {1} ELSE Voice_) : Reached(t.voices[v], k)}
  <2>1. all \in SUBSET Voice_ /\ \A v \in all : Reached(t.voices[v], k)
    BY <1>0
  <2>2. hit = IF how.mode = "UNISON" \/ all = {} THEN all ELSE {Min(all)}
    BY DEF ReachedVoices
  <2> HIDE DEF all, hit
  <2>3. all # {} => Min(all) \in all
    BY <2>1, OldestIsOne
  <2>4. QED
    BY <2>1, <2>2, <2>3
<1>4. ASSUME NEW v \in Voice_, Reached(t.voices[v], k) PROVE v \in hit
  <2>1. CASE how.mode = "POLY"
    <3> DEFINE all == {x \in Voice_ : Reached(t.voices[x], k)}
    <3>1. hit = IF all = {} THEN all ELSE {Min(all)}
      BY <2>1 DEF ReachedVoices
    <3>2. \A x \in all : x \in Voice_ /\ t.voices[x].playing /\ t.voices[x].note = k
      BY <2>1 DEF Reached, TimbreSound, Sound, Glides
    <3>3. v \in all
      BY <1>4
    <3> HIDE DEF all, hit
    <3>4. Min(all) \in all
      <4>1. all \in SUBSET Voice_ /\ all # {}
        BY <3>2, <3>3
      <4>2. QED
        BY <4>1, OldestIsOne
    <3>5. Min(all) = v
      BY <2>1, <3>2, <3>3, <3>4 DEF TimbreSound, Shared
    <3>6. QED
      BY <3>1, <3>3, <3>5
  <2>2. CASE how.mode = "MONO"
    <3> DEFINE all == {x \in {1} : Reached(t.voices[x], k)}
    <3>1. v = 1
      BY <1>4, <2>2 DEF Reached, TimbreSound, Shared
    <3>2. all = {1}
      BY <1>4, <3>1
    <3>3. hit = {Min(all)} /\ all \in SUBSET Voice_ /\ all # {}
      BY <1>0, <2>2, <3>2 DEF ReachedVoices
    <3> HIDE DEF all, hit
    <3>4. Min(all) \in all
      BY <3>3, OldestIsOne
    <3>5. QED
      BY <3>1, <3>2, <3>3, <3>4
  <2>3. CASE how.mode = "UNISON"
    BY <1>4, <2>3 DEF ReachedVoices
  <2>4. QED
    BY <2>1, <2>2, <2>3 DEF PlayModes
<1>5. \A v \in hit : /\ holdPedal_ => ~t.voices[v].newNotePending
                     /\ ~holdPedal_ => ~Flagged(t.voices[v])
  OBVIOUS
<1> HIDE DEF s, hit, a
<1>6. ASSUME NEW v \in hit
      PROVE  /\ Sound(vs[v], how) /\ Anchored(vs[v], d \ {k}, holdPedal_)
             /\ vs[v].playing = t.voices[v].playing
             /\ how.mode = "POLY" => vs[v].note = t.voices[v].note
             /\ (~Settled(t.voices[v]) \/ holdPedal_) /\ Sustains(t.voices[v]) => Sustains(vs[v])
             /\ ~(~Settled(t.voices[v]) \/ holdPedal_) => ~Sustains(vs[v])
  <2>1. /\ t.voices[v] \in TypedVoice /\ Sound(t.voices[v], how) /\ Anchored(t.voices[v], d, holdPedal_)
        /\ Reached(t.voices[v], k) /\ ToSet(s) \subseteq d \ {k}
        /\ holdPedal_ => ~t.voices[v].newNotePending
        /\ ~holdPedal_ => ~Flagged(t.voices[v])
    BY <1>0, <1>1, <1>3, <1>5 DEF TimbreSound
  <2>2. LET w == ReleasedVoice(t.voices[v], k, s)
        IN  /\ Sound(w, how) /\ Anchored(w, d \ {k}, holdPedal_)
            /\ w.playing = t.voices[v].playing /\ (Settled(t.voices[v]) => w.note = t.voices[v].note)
            /\ (~Settled(t.voices[v]) \/ holdPedal_) /\ Sustains(t.voices[v]) => Sustains(w)
            /\ ~(~Settled(t.voices[v]) \/ holdPedal_) => ~Sustains(w)
    BY <1>1, <2>1, ReleasedVoiceSounds
  <2>3. how.mode = "POLY" => Settled(t.voices[v])
    BY <2>1 DEF Sound, Glides
  <2>4. vs[v] = ReleasedVoice(t.voices[v], k, s)
    BY <1>3
  <2> HIDE DEF vs
  <2>5. QED
    BY <2>2, <2>3, <2>4
<1>7. ASSUME NEW v \in Voice_, v \notin hit
      PROVE  vs[v] = t.voices[v] /\ Sound(vs[v], how) /\ Anchored(vs[v], d \ {k}, holdPedal_)
  <2>1. vs[v] = t.voices[v]
    BY <1>7
  <2>2. ~Reached(t.voices[v], k)
    BY <1>4, <1>7
  <2>3. QED
    BY <2>1, <2>2 DEF TimbreSound, Sound, Anchored, Reached, Sustains
<1>8. Shared(vs, how)
  <2>1. CASE how.mode = "POLY"
    <3>1. \A v \in Voice_ : vs[v].playing = t.voices[v].playing /\ vs[v].note = t.voices[v].note
      BY <1>6, <1>7, <2>1
    <3> HIDE DEF vs
    <3>2. QED
      BY <2>1, <3>1 DEF TimbreSound, Shared
  <2>2. CASE how.mode = "MONO"
    <3>1. \A v \in Voice_ : vs[v].playing = t.voices[v].playing
      BY <1>6, <1>7
    <3> HIDE DEF vs
    <3>2. QED
      BY <2>2, <3>1 DEF TimbreSound, Shared
  <2>3. CASE how.mode = "UNISON"
    <3>1. \A v \in Voice_ : t.voices[v] = t.voices[1]
      BY <2>3 DEF TimbreSound, Shared
    <3>2. \A v \in Voice_ : v \in hit <=> 1 \in hit
      BY <1>0, <1>3, <1>4, <3>1
    <3>3. \A v \in Voice_ : vs[v] = vs[1]
      BY <1>0, <3>1, <3>2
    <3>4. QED
      BY <2>3, <3>3 DEF Shared
  <2>4. QED
    BY <2>1, <2>2, <2>3 DEF PlayModes
<1>9. 1 \in hit /\ ~(~Settled(t.voices[1]) \/ holdPedal_) => vs[1].playing
  BY <1>3, <1>6 DEF Reached
<1> HIDE DEF vs
<1>10. TimbreSound(a, d \ {k}, holdPedal_)
  BY <1>2, <1>6, <1>7, <1>8 DEF TimbreSound
<1>11. QED
  BY <1>0, <1>1, <1>2, <1>6, <1>7, <1>9, <1>10 DEF s, hit, a

(* A note-off, with the key that MONO mode goes back to. *)
LEMMA PreenNoteOffSounds ==
  ASSUME NEW t \in TimbreType, NEW d, TimbreSound(t, d, holdPedal_), how.mode \in PlayModes,
         NEW k \in Keys, ToSet(t.stack) \subseteq d,
         holdPedal_ => \A v \in ReachedVoices(t, k) : ~t.voices[v].newNotePending,
         ~holdPedal_ => \A v \in ReachedVoices(t, k) : ~Flagged(t.voices[v]),
         Glides(how) /\ Recalls(t, k) => ~Ending(AfterNoteOff(t, k).voices[1]),
         NEW m, how.mode = "MONO" /\ ToSet(t.stack) \ m # {} => Sustains(t.voices[1])
  PROVE  LET w == PreenNoteOff(t, k)
         IN  /\ TimbreSound(w, d \ {k}, holdPedal_)
             /\ ToSet(w.stack) \subseteq d \ {k}
             /\ how.mode = "MONO" /\ ToSet(w.stack) \ (m \ {k}) # {} => Sustains(w.voices[1])
<1> DEFINE a == AfterNoteOff(t, k)
           n == Last(a.stack)
           w == PreenNoteOff(t, k)
<1>1. a \in TimbreType
  BY AfterNoteOffTyped
<1>2. /\ TimbreSound(a, d \ {k}, holdPedal_)
      /\ a.stack = IF how.mode = "MONO" THEN MonoNoteRemove(t.stack, k) ELSE <<>>
      /\ ToSet(a.stack) \subseteq ToSet(t.stack) \ {k}
      /\ 1 \notin ReachedVoices(t, k) => a.voices[1] = t.voices[1]
      /\ 1 \in ReachedVoices(t, k) =>
           /\ (~Settled(t.voices[1]) \/ holdPedal_) /\ Sustains(t.voices[1]) => Sustains(a.voices[1])
           /\ ~(~Settled(t.voices[1]) \/ holdPedal_) => ~Sustains(a.voices[1]) /\ a.voices[1].playing
  BY AfterNoteOffSounds
<1>3. how.mode = "MONO" => \A v \in ReachedVoices(t, k) : v = 1
  <2> SUFFICES ASSUME how.mode = "MONO" PROVE \A v \in ReachedVoices(t, k) : v = 1
    OBVIOUS
  <2> DEFINE all == {v \in {1} : Reached(t.voices[v], k)}
  <2>1. all = {} \/ all = {1}
    OBVIOUS
  <2>2. ReachedVoices(t, k) = IF all = {} THEN all ELSE {Min(all)}
    BY DEF ReachedVoices
  <2> HIDE DEF all
  <2>3. all # {} => Min(all) \in all
    BY <2>1, MinIsLeast
  <2>4. QED
    BY <2>1, <2>2, <2>3
<1>4. CASE ~Recalls(t, k)
  <2>1. w = a
    BY <1>4 DEF PreenNoteOff
  <2> HIDE DEF a
  <2>2. ToSet(a.stack) \subseteq d \ {k}
    BY <1>2
  <2>3. ASSUME how.mode = "MONO", ToSet(a.stack) \ (m \ {k}) # {} PROVE Sustains(a.voices[1])
    <3>1. ToSet(t.stack) \ m # {}
      BY <1>2, <2>3
    <3>2. Sustains(t.voices[1])
      BY <2>3, <3>1
    <3>3. a.stack # <<>>
      <4>1. ToSet(<<>>) = {}
        BY DEF ToSet
      <4>2. QED
        BY <2>3, <4>1
    <3>4. 1 \in ReachedVoices(t, k) => ~Settled(t.voices[1]) \/ holdPedal_
      BY <1>2, <1>4, <2>3, <3>3 DEF Recalls
    <3>5. QED
      BY <1>2, <3>2, <3>4
  <2> HIDE DEF w
  <2>4. QED
    BY <1>2, <2>1, <2>2, <2>3 DEF w
<1>5. CASE Recalls(t, k)
  <2>1. how.mode = "MONO" /\ ~holdPedal_ /\ a.stack # <<>>
    BY <1>2, <1>5 DEF Recalls
  <2>2. 1 \in ReachedVoices(t, k) /\ Settled(t.voices[1])
    BY <1>3, <1>5, <2>1 DEF Recalls
  <2>3. ~Sustains(a.voices[1]) /\ a.voices[1].playing
    BY <1>2, <2>1, <2>2
  <2>4. Glides(how) => a.voices[1].released
    BY <1>5, <2>3 DEF Ending
  <2>5. w = MonoNoteRecall(a)
    BY <1>5 DEF PreenNoteOff
  <2> HIDE DEF a
  <2>6. n \in ToSet(a.stack) /\ n \in Keys
    BY <1>1, <2>1, LastOfStack DEF TimbreType
  <2>7. n \in d \ {k} /\ ToSet(a.stack) \subseteq d \ {k}
    BY <1>2, <2>6
  <2> HIDE DEF n
  <2>8. 1 \in Considered /\ 1 \in Voice_
    BY <2>1 DEF Considered, Voice_
  <2>9. CASE a.voices[1].newNotePending
    <3>1. w = Take(a, 1, n)
      BY <2>5, <2>9 DEF MonoNoteRecall, n
    <3>2. Free(a, 1, n)
      BY <2>1 DEF Free
    <3> HIDE DEF w
    <3>3. w.stack = a.stack
      BY <1>1, <3>1 DEF Take, TimbreType
    <3> DEFINE dd == d \ {k}
    <3>4. n \in dd /\ TimbreSound(a, dd, holdPedal_)
      BY <1>2, <2>7
    <3> HIDE DEF dd
    <3>5. /\ TimbreSound(Take(a, 1, n), dd, holdPedal_)
          /\ how.mode = "MONO" => Sustains(Take(a, 1, n).voices[1])
      BY <1>1, <2>3, <2>4, <2>6, <2>8, <3>2, <3>4, TakeSounds
    <3>6. QED
      BY <2>7, <3>1, <3>3, <3>5 DEF w, dd
  <2>10. CASE ~a.voices[1].newNotePending
    <3>1. w = PreenNoteOn(a, n)
      BY <2>5, <2>10 DEF MonoNoteRecall, n
    <3>2. Candidates(a) = {1}
      BY <2>1, <2>10 DEF Candidates, Considered
    <3>3. \A v \in Voice_ : ~(a.voices[v].newNotePending /\ a.voices[v].note = n)
      BY <1>2, <2>1, <2>10 DEF TimbreSound, Shared, Sound
    <3> HIDE DEF w
    <3> DEFINE dd == d \ {k}
    <3>4. n \in dd /\ TimbreSound(a, dd, holdPedal_)
      BY <1>2, <2>7
    <3> HIDE DEF dd
    <3>5. Glides(how) => \A v \in Candidates(a) : a.voices[v].playing /\ ~a.voices[v].released =>
             Sustains(a.voices[v]) /\ (a.voices[v].note # n \/ a.voices[v].holdedByPedal)
      BY <2>4, <3>2
    <3>6. LET x == PreenNoteOn(a, n)
          IN  /\ TimbreSound(x, dd, holdPedal_)
              /\ x.stack = IF how.mode = "MONO" THEN MonoNotePush(a.stack, n) ELSE <<>>
              /\ Candidates(a) # {} /\ how.mode = "MONO" => Sustains(x.voices[1])
      BY <1>1, <2>6, <3>3, <3>4, <3>5, PreenNoteOnSounds
    <3>7. /\ TimbreSound(w, dd, holdPedal_) /\ w.stack = MonoNotePush(a.stack, n)
          /\ Sustains(w.voices[1])
      BY <2>1, <3>1, <3>2, <3>6
    <3>8. ToSet(MonoNotePush(a.stack, n)) \subseteq ToSet(a.stack) \cup {n}
      BY <1>1, <2>6, PushTyped DEF TimbreType
    <3>9. QED
      BY <2>7, <3>7, <3>8 DEF w, dd
  <2>11. QED
    BY <2>9, <2>10
<1>6. QED
  BY <1>4, <1>5

LEMMA KeyDownSounds ==
  ASSUME VoicesInv, Windows = {}, NEW k \in Keys, KeyDown(k)
  PROVE  /\ how' = how /\ ToSet(monoStack_') \subseteq down'
         /\ \A v \in Voice_ : Sound(voices'[v], how) /\ Anchored(voices'[v], down', holdPedal_')
         /\ Shared(voices', how)
         /\ how.mode = "MONO" /\ ToSet(monoStack_') \ muted' # {} => Sustains(voices'[1])
<1> DEFINE t == Timbre_
           d == down \cup {k}
           w == PreenNoteOn(t, k)
<1>1. t \in TimbreType /\ t.voices = voices /\ t.stack = monoStack_ /\ how.mode \in PlayModes
  BY DEF VoicesInv, TypeInv, Timbre_, TimbreType
<1>2. TimbreSound(t, d, holdPedal_)
  BY <1>1 DEF VoicesInv, TimbreSound, Anchored
<1>3. \A v \in Voice_ : ~(t.voices[v].newNotePending /\ t.voices[v].note = k)
  BY <1>1 DEF KeyDown, Lets
<1>4. Glides(how) => \A v \in Candidates(t) : t.voices[v].playing /\ ~t.voices[v].released =>
             Sustains(t.voices[v]) /\ (t.voices[v].note # k \/ t.voices[v].holdedByPedal)
  <2> SUFFICES ASSUME Glides(how), NEW v \in Candidates(t), voices[v].playing, ~voices[v].released
               PROVE  Sustains(voices[v]) /\ (voices[v].note # k \/ voices[v].holdedByPedal)
    BY <1>1
  <2>1. v \in Voice_
    BY DEF Candidates, Considered, Voice_
  <2>2. Sustains(voices[v])
    BY DEF KeyDown, Lets, Ending
  <2>3. QED
    BY <2>1, <2>2 DEF VoicesInv, Anchored, KeyDown
<1>5. voices' = w.voices /\ monoStack_' = w.stack
  BY DEF KeyDown, Become
<1> HIDE DEF t
<1>6. /\ TimbreSound(w, d, holdPedal_)
      /\ w.stack = IF how.mode = "MONO" THEN MonoNotePush(t.stack, k) ELSE <<>>
      /\ Candidates(t) = {} => w.voices = t.voices
      /\ Candidates(t) # {} /\ how.mode = "MONO" => Sustains(w.voices[1])
  <2>1. k \in d
    OBVIOUS
  <2> HIDE DEF d
  <2>2. QED
    BY <1>1, <1>2, <1>3, <1>4, <2>1, PreenNoteOnSounds
<1> HIDE DEF w
<1>7. ToSet(monoStack_') \subseteq ToSet(monoStack_) \cup {k}
  <2>1. ToSet(MonoNotePush(monoStack_, k)) \subseteq ToSet(monoStack_) \cup {k}
    BY <1>1, PushTyped DEF TimbreType
  <2>2. ToSet(<<>>) = {}
    BY DEF ToSet
  <2>3. QED
    BY <1>1, <1>5, <1>6, <2>1, <2>2
<1>8. ASSUME how.mode = "MONO", ToSet(monoStack_') \ muted' # {} PROVE Sustains(voices'[1])
  <2>1. CASE Candidates(t) = {}
    <3>1. muted' = muted \cup {k} /\ voices' = voices
      BY <1>1, <1>5, <1>6, <2>1 DEF KeyDown, t
    <3>2. ToSet(monoStack_) \ muted # {}
      BY <1>7, <1>8, <3>1
    <3>3. QED
      BY <1>8, <3>1, <3>2 DEF VoicesInv, MonoSounds
  <2>2. CASE Candidates(t) # {}
    BY <1>5, <1>6, <1>8, <2>2
  <2>3. QED
    BY <2>1, <2>2
<1>9. how' = how /\ holdPedal_' = holdPedal_ /\ down' = d
  BY DEF KeyDown
<1>10. ToSet(monoStack_') \subseteq down'
  BY <1>7, <1>9 DEF VoicesInv
<1> HIDE DEF d
<1>11. QED
  BY <1>5, <1>6, <1>8, <1>9, <1>10 DEF TimbreSound

LEMMA KeyUpSounds ==
  ASSUME VoicesInv, Windows = {}, NEW k \in Keys, KeyUp(k)
  PROVE  /\ how' = how /\ ToSet(monoStack_') \subseteq down'
         /\ \A v \in Voice_ : Sound(voices'[v], how) /\ Anchored(voices'[v], down', holdPedal_')
         /\ Shared(voices', how)
         /\ how.mode = "MONO" /\ ToSet(monoStack_') \ muted' # {} => Sustains(voices'[1])
<1> DEFINE t == Timbre_
           w == PreenNoteOff(t, k)
<1>1. t \in TimbreType /\ t.voices = voices /\ t.stack = monoStack_ /\ how.mode \in PlayModes
  BY DEF VoicesInv, TypeInv, Timbre_, TimbreType
<1>2. TimbreSound(t, down, holdPedal_) /\ ToSet(t.stack) \subseteq down
  BY <1>1 DEF VoicesInv, TimbreSound
<1>3. /\ holdPedal_ => \A v \in ReachedVoices(t, k) : ~t.voices[v].newNotePending
      /\ ~holdPedal_ => \A v \in ReachedVoices(t, k) : ~Flagged(t.voices[v])
  BY <1>1 DEF KeyUp, Lets, NotTwice
<1>4. Glides(how) /\ Recalls(t, k) => ~Ending(AfterNoteOff(t, k).voices[1])
  BY DEF KeyUp, Lets
<1>5. voices' = w.voices /\ monoStack_' = w.stack
  BY DEF KeyUp, Become
<1>6. how.mode = "MONO" /\ ToSet(t.stack) \ muted # {} => Sustains(t.voices[1])
  BY <1>1 DEF VoicesInv, MonoSounds
<1> HIDE DEF t
<1>7. /\ TimbreSound(w, down \ {k}, holdPedal_)
      /\ ToSet(w.stack) \subseteq down \ {k}
      /\ how.mode = "MONO" /\ ToSet(w.stack) \ (muted \ {k}) # {} => Sustains(w.voices[1])
  BY <1>1, <1>2, <1>3, <1>4, <1>6, PreenNoteOffSounds
<1>8. how' = how /\ holdPedal_' = holdPedal_ /\ down' = down \ {k} /\ muted' = muted \ {k}
  BY DEF KeyUp
<1> HIDE DEF w
<1>9. QED
  BY <1>5, <1>7, <1>8 DEF TimbreSound

(* The notes of some voices end, and the others hold no note of their own. *)
LEMMA EndedSounds ==
  ASSUME VoicesInv, NEW vs, NEW d, NEW h, NEW ended \in SUBSET Voice_,
         \A v \in Voice_ : vs[v] = IF v \in ended THEN NoteOff(voices[v]) ELSE voices[v],
         \A v \in ended : Settled(voices[v]) /\ ~Flagged(voices[v]),
         \A v \in Voice_ \ ended : Anchored(voices[v], d, h),
         how.mode = "UNISON" => ended \in {{}, Voice_}
  PROVE  /\ \A v \in Voice_ : Sound(vs[v], how) /\ Anchored(vs[v], d, h)
         /\ Shared(vs, how)
<1>1. ASSUME NEW v \in ended
      PROVE  /\ Sound(vs[v], how) /\ Settled(vs[v]) /\ ~Sustains(vs[v])
             /\ vs[v].playing = voices[v].playing /\ vs[v].note = voices[v].note
  <2>1. voices[v] \in TypedVoice /\ Sound(voices[v], how)
    BY DEF VoicesInv, TypeInv
  <2>2. vs[v] = NoteOff(voices[v])
    OBVIOUS
  <2>3. QED
    BY <2>1, <2>2, NoteOffEnds
<1>2. \A v \in Voice_ \ ended : vs[v] = voices[v]
  OBVIOUS
<1>3. \A v \in Voice_ : Sound(vs[v], how) /\ Anchored(vs[v], d, h)
  BY <1>1, <1>2 DEF Anchored, VoicesInv
<1>4. \A v \in Voice_ : vs[v].playing = voices[v].playing /\ vs[v].note = voices[v].note
  BY <1>1, <1>2
<1>5. CASE how.mode = "UNISON"
  <2>1. 1 \in Voice_ /\ \A v \in Voice_ : voices[v] = voices[1]
    BY <1>5 DEF VoicesInv, Shared, Voice_
  <2>2. \A v \in Voice_ : vs[v] = vs[1]
    BY <1>5, <2>1
  <2>3. QED
    BY <1>3, <1>5, <2>2 DEF Shared
<1>6. CASE how.mode # "UNISON"
  BY <1>3, <1>4, <1>6 DEF VoicesInv, Shared
<1>7. QED
  BY <1>5, <1>6

(* Every voice is orphaned. *)
LEMMA OrphanedSounds ==
  ASSUME VoicesInv, NEW ended \in [Voice_ -> TypedVoice],
         \A v \in Voice_ : Orphan(ended[v]),
         \A v \in Voice_ : ended[v].note = voices[v].note /\ (ended[v].playing => voices[v].playing),
         how.mode = "UNISON" => \A v \in Voice_ : ended[v] = ended[1],
         NEW vs, vs = [v \in Voice_ |-> CancelPendingNoteOn(ended[v])]
  PROVE  /\ \A v \in Voice_ : Sound(vs[v], how) /\ Anchored(vs[v], {}, holdPedal_)
         /\ Shared(vs, how)
<1>0. 1 \in Voice_
  BY DEF Voice_
<1>1. ASSUME NEW v \in Voice_
      PROVE  /\ Sound(vs[v], how) /\ Anchored(vs[v], {}, holdPedal_)
             /\ (vs[v].playing => voices[v].playing) /\ vs[v].note = voices[v].note
  <2>1. LET w == CancelPendingNoteOn(ended[v])
        IN  /\ Sound(w, how) /\ Settled(w) /\ ~Sustains(w)
            /\ w.playing = ended[v].playing /\ w.note = ended[v].note
    BY CancelEnds
  <2>2. vs[v] = CancelPendingNoteOn(ended[v])
    OBVIOUS
  <2>3. QED
    BY <2>1, <2>2 DEF Anchored
<1>2. how.mode = "UNISON" => \A v \in Voice_ : vs[v] = vs[1]
  BY <1>0
<1>3. QED
  BY <1>1, <1>2 DEF VoicesInv, Shared

LEMMA NextBlockSounds ==
  ASSUME VoicesInv, Windows = {}, NEW dead \in SUBSET Voice_, NextBlockOf(dead)
  PROVE  /\ \A v \in Voice_ : Sound(voices'[v], how) /\ Anchored(voices'[v], down, holdPedal_)
         /\ \A v \in Voice_ : Sustains(voices[v]) => Sustains(voices'[v])
         /\ Shared(voices', how)
<1> DEFINE computed == IF how.mode = "UNISON" THEN IF voices[1].playing THEN Voice_ ELSE {}
                                              ELSE {v \in Voice_ : voices[v].playing}
           dying == {v \in computed : Dying(voices[v])}
<1>0. 1 \in Voice_
  BY DEF Voice_
<1>1. /\ dead \subseteq dying
      /\ how.mode = "UNISON" => dead \in {{}, dying}
      /\ \A v \in Voice_ : voices'[v] = IF v \in computed THEN NextBlock(voices[v], v \in dead, how)
                                                          ELSE voices[v]
  BY DEF NextBlockOf, Lets
<1>2. how.mode = "UNISON" => \A v \in Voice_ : voices[v] = voices[1]
  BY DEF VoicesInv, Shared
<1>3. \A v \in Voice_ : v \in computed <=> voices[v].playing
  BY <1>2
<1>4. \A v \in dead : Dying(voices[v])
  BY <1>1
<1>5. how.mode = "UNISON" => dead \in {{}, Voice_}
  <2>1. how.mode = "UNISON" => dying \in {{}, Voice_}
    BY <1>2
  <2>2. QED
    BY <1>1, <2>1
<1> HIDE DEF computed, dying
<1>6. ASSUME NEW v \in Voice_
      PROVE  /\ Sound(voices'[v], how) /\ Anchored(voices'[v], down, holdPedal_)
             /\ Sustains(voices[v]) => Sustains(voices'[v])
             /\ voices'[v].note = voices[v].note
             /\ ~voices[v].playing => voices'[v] = voices[v]
  <2>1. /\ voices[v] \in TypedVoice /\ Sound(voices[v], how)
        /\ Anchored(voices[v], down, holdPedal_)
    BY DEF VoicesInv, TypeInv
  <2>2. CASE ~voices[v].playing
    BY <1>1, <1>3, <2>1, <2>2
  <2>3. CASE voices[v].playing
    <3> DEFINE dies == v \in dead
    <3>1. voices'[v] = NextBlock(voices[v], dies, how)
      BY <1>1, <1>3, <2>3
    <3>2. dies => Dying(voices[v])
      BY <1>4
    <3> HIDE DEF dies
    <3>3. LET w == NextBlock(voices[v], dies, how)
          IN  /\ Sound(w, how) /\ Anchored(w, down, holdPedal_) /\ (Sustains(voices[v]) => Sustains(w))
              /\ w.note = voices[v].note
      BY <2>1, <2>3, <3>2, NextBlockKeeps
    <3>4. QED
      BY <2>3, <3>1, <3>3
  <2>4. QED
    BY <2>2, <2>3
<1>7. how.mode = "UNISON" => \A v \in Voice_ : voices'[v] = voices'[1]
  <2> SUFFICES ASSUME how.mode = "UNISON", NEW v \in Voice_ PROVE voices'[v] = voices'[1]
    OBVIOUS
  <2>1. voices[v] = voices[1]
    BY <1>2
  <2>2. dead = {} \/ dead = Voice_
    BY <1>5
  <2>3. CASE dead = {}
    BY <1>0, <1>1, <1>3, <2>1, <2>3
  <2>4. CASE dead = Voice_
    BY <1>0, <1>1, <1>3, <2>1, <2>4
  <2>5. QED
    BY <2>2, <2>3, <2>4
<1>8. Shared(voices', how)
  <2>1. \A v \in Voice_ : /\ voices'[v].note = voices[v].note
                          /\ ~voices[v].playing => voices'[v] = voices[v]
    BY <1>6
  <2>2. \A v \in Voice_ : voices'[v].playing => voices[v].playing
    BY <2>1
  <2>3. QED
    BY <1>7, <2>1, <2>2 DEF VoicesInv, Shared
<1>9. QED
  BY <1>6, <1>8

-----------------------------------------------------------------------------
LEMMA VoicesInit == Init => VoicesInv
<1> SUFFICES ASSUME Init PROVE VoicesInv
  OBVIOUS
<1>1. \A v \in Voice_ : voices[v] = Silent
  BY DEF Init
<1>2. Sound(Silent, how) /\ Anchored(Silent, down, holdPedal_) /\ ~Silent.playing
  BY DEF Silent, Sound, Anchored, Settled, Sustains, None
<1>3. ToSet(monoStack_) = {}
  BY DEF Init, ToSet
<1>4. 1 \in Voice_
  BY DEF Voice_
<1>5. Shared(voices, how) /\ MonoSounds
  BY <1>1, <1>2, <1>3, <1>4 DEF Shared, MonoSounds
<1>6. QED
  BY <1>1, <1>2, <1>3, <1>5, TypeInit DEF VoicesInv

LEMMA VoicesStep == Windows = {} /\ VoicesInv /\ [Next]_vars => VoicesInv'
<1> SUFFICES ASSUME Windows = {}, VoicesInv, [Next]_vars PROVE VoicesInv'
  OBVIOUS
<1>t. TypeInv'
  BY TypeStep DEF VoicesInv
<1>a. ASSUME how' = how, ToSet(monoStack_') \subseteq down',
             \A v \in Voice_ : Sound(voices'[v], how) /\ Anchored(voices'[v], down', holdPedal_'),
             Shared(voices', how),
             how.mode = "MONO" /\ ToSet(monoStack_') \ muted' # {} => Sustains(voices'[1])
      PROVE  VoicesInv'
  BY <1>t, <1>a DEF VoicesInv, MonoSounds
<1>u. how.mode = "UNISON" => \A v \in Voice_ : voices[v] = voices[1]
  BY DEF VoicesInv, Shared
<1>v. 1 \in Voice_ /\ \A v \in Voice_ : voices[v] \in TypedVoice
  BY DEF VoicesInv, TypeInv, Voice_
<1>e. ToSet(<<>>) = {}
  BY DEF ToSet
<1>1. ASSUME NEW k \in Keys, KeyDown(k) PROVE VoicesInv'
  BY <1>1, <1>a, KeyDownSounds
<1>2. ASSUME NEW k \in Keys, KeyUp(k) PROVE VoicesInv'
  BY <1>2, <1>a, KeyUpSounds
<1>3. CASE SetHoldPedal /\ holdPedal_
  <2>1. /\ how' = how /\ monoStack_' = monoStack_ /\ down' = down /\ NotTwice(HeldVoices)
        /\ \A v \in Voice_ : voices'[v] = IF v \in HeldVoices THEN NoteOff(voices[v]) ELSE voices[v]
        /\ muted' = IF HeldVoices # {} THEN down ELSE muted
    BY <1>3 DEF SetHoldPedal
  <2>2. \A v \in HeldVoices : v \in Voice_ /\ Settled(voices[v]) /\ ~Flagged(voices[v])
    BY <2>1 DEF VoicesInv, Sound, HeldVoices, NotTwice, Lets
  <2>3. \A v \in Voice_ \ HeldVoices : Anchored(voices[v], down', holdPedal_')
    BY <2>1 DEF VoicesInv, Anchored, HeldVoices
  <2>4. how.mode = "UNISON" => HeldVoices \in {{}, Voice_}
    BY <1>u DEF HeldVoices
  <2>5. /\ \A v \in Voice_ : Sound(voices'[v], how) /\ Anchored(voices'[v], down', holdPedal_')
        /\ Shared(voices', how)
    <3> DEFINE vs == voices'
               d == down'
               h == holdPedal_'
    <3>1. /\ \A v \in Voice_ : vs[v] = IF v \in HeldVoices THEN NoteOff(voices[v]) ELSE voices[v]
          /\ \A v \in Voice_ \ HeldVoices : Anchored(voices[v], d, h)
          /\ HeldVoices \in SUBSET Voice_
      BY <2>1, <2>3 DEF HeldVoices
    <3> HIDE DEF vs, d, h
    <3>2. /\ \A v \in Voice_ : Sound(vs[v], how) /\ Anchored(vs[v], d, h)
          /\ Shared(vs, how)
      BY <2>2, <2>4, <3>1, EndedSounds
    <3>3. QED
      BY <3>2 DEF vs, d, h
  <2>6. ASSUME how.mode = "MONO", ToSet(monoStack_') \ muted' # {} PROVE Sustains(voices'[1])
    <3>1. HeldVoices = {}
      BY <2>1, <2>6 DEF VoicesInv
    <3>2. QED
      BY <1>v, <2>1, <2>6, <3>1 DEF VoicesInv, MonoSounds
  <2>7. ToSet(monoStack_') \subseteq down'
    BY <2>1 DEF VoicesInv
  <2>8. QED
    BY <1>a, <2>1, <2>5, <2>6, <2>7
<1>4. CASE SetHoldPedal /\ ~holdPedal_
  <2>1. UNCHANGED <<how, voices, monoStack_, down, muted>>
    BY <1>4 DEF SetHoldPedal
  <2>2. \A v \in Voice_ : Sound(voices[v], how) /\ Anchored(voices[v], down, holdPedal_')
    BY <1>4 DEF VoicesInv, Anchored
  <2>3. QED
    BY <1>a, <2>1, <2>2 DEF VoicesInv, MonoSounds
<1>5. CASE AllNoteOff
  <2>1. /\ how' = how /\ monoStack_' = <<>> /\ down' = {} /\ holdPedal_' = holdPedal_
        /\ \A v \in Voice_ : voices'[v] = IF v \in Unreleased THEN NoteOff(voices[v]) ELSE voices[v]
        /\ \A v \in Voice_ : Settled(voices[v])
        /\ \A v \in Unreleased : v \in Voice_ /\ ~Flagged(voices[v])
    BY <1>5 DEF AllNoteOff, Lets, NotTwice, Whole, Unreleased
  <2>2. \A v \in Voice_ \ Unreleased : Anchored(voices[v], {}, holdPedal_)
    BY <2>1 DEF VoicesInv, Anchored, Sound, Unreleased, Sustains
  <2>3. how.mode = "UNISON" => Unreleased \in {{}, Voice_}
    BY <1>u DEF Unreleased
  <2>4. Unreleased \in SUBSET Voice_
    BY DEF Unreleased
  <2>5. /\ \A v \in Voice_ : Sound(voices'[v], how) /\ Anchored(voices'[v], {}, holdPedal_)
        /\ Shared(voices', how)
    BY <2>1, <2>2, <2>3, <2>4, EndedSounds
  <2>6. QED
    BY <1>a, <1>e, <2>1, <2>5
<1>6. CASE AllSoundOff
  <2>1. /\ how' = how /\ monoStack_' = <<>> /\ down' = {} /\ holdPedal_' = holdPedal_
        /\ \A v \in Voice_ : voices'[v] = KillNow(voices[v])
    BY <1>6 DEF AllSoundOff, Lets
  <2>2. \A v \in Voice_ : /\ Sound(voices'[v], how) /\ Settled(voices'[v]) /\ ~Sustains(voices'[v])
                          /\ ~voices'[v].playing
    BY <1>v, <2>1, KillNowEnds
  <2>3. \A v \in Voice_ : Sound(voices'[v], how) /\ Anchored(voices'[v], {}, holdPedal_)
    BY <2>2 DEF Anchored
  <2>4. Shared(voices', how)
    BY <1>u, <1>v, <2>1, <2>2 DEF Shared
  <2>5. QED
    BY <1>a, <1>e, <2>1, <2>3, <2>4
<1>7. ASSUME NEW ended \in [Voice_ -> TypedVoice],
             \A v \in Voice_ : Orphan(ended[v]),
             \A v \in Voice_ : ended[v].note = voices[v].note /\ (ended[v].playing => voices[v].playing),
             how.mode = "UNISON" => \A v \in Voice_ : ended[v] = ended[1],
             Orphaned(ended)
      PROVE  VoicesInv'
  <2>1. /\ how' = how /\ monoStack_' = <<>> /\ down' = {} /\ holdPedal_' = holdPedal_
        /\ voices' = [v \in Voice_ |-> CancelPendingNoteOn(ended[v])]
    BY <1>7 DEF Orphaned
  <2>2. /\ \A v \in Voice_ : Sound(voices'[v], how) /\ Anchored(voices'[v], {}, holdPedal_)
        /\ Shared(voices', how)
    BY <1>7, <2>1, OrphanedSounds
  <2>3. QED
    BY <1>a, <1>e, <2>1, <2>2
<1>8. CASE RoutingChanged
  <2> DEFINE ended == [v \in Voice_ |-> IF v \in Unreleased THEN NoteOff(voices[v]) ELSE voices[v]]
  <2>1. ended \in [Voice_ -> TypedVoice]
    BY <1>v, NoteOffTyped
  <2>2. ASSUME NEW v \in Voice_
        PROVE  /\ Orphan(ended[v]) /\ ended[v].note = voices[v].note
               /\ ended[v].playing => voices[v].playing
    <3>1. /\ Orphan(NoteOff(voices[v]))
          /\ NoteOff(voices[v]).playing = voices[v].playing /\ NoteOff(voices[v]).note = voices[v].note
          /\ ~(voices[v].playing /\ ~voices[v].released) => Orphan(voices[v])
      BY <1>v, OrphanOfNoteOff DEF VoicesInv
    <3>2. v \in Unreleased <=> voices[v].playing /\ ~voices[v].released
      BY DEF Unreleased
    <3>3. QED
      BY <3>1, <3>2
  <2>3. how.mode = "UNISON" => \A v \in Voice_ : ended[v] = ended[1]
    BY <1>u, <1>v DEF Unreleased
  <2>4. Orphaned(ended)
    BY <1>8 DEF RoutingChanged
  <2> HIDE DEF ended
  <2>5. QED
    BY <1>7, <2>1, <2>2, <2>3, <2>4
<1>9. CASE SequenceLoaded
  <2> DEFINE ended == [v \in Voice_ |-> NoteOffQuick(voices[v])]
  <2>1. ended \in [Voice_ -> TypedVoice]
    BY <1>v, SilencedTyped
  <2>2. ASSUME NEW v \in Voice_
        PROVE  /\ Orphan(ended[v]) /\ ended[v].note = voices[v].note
               /\ ended[v].playing => voices[v].playing
    BY <1>v, OrphanOfNoteOffQuick DEF VoicesInv
  <2>3. how.mode = "UNISON" => \A v \in Voice_ : ended[v] = ended[1]
    BY <1>u, <1>v
  <2>4. Orphaned(ended)
    BY <1>9 DEF SequenceLoaded
  <2> HIDE DEF ended
  <2>5. QED
    BY <1>7, <2>1, <2>2, <2>3, <2>4
<1>10. ASSUME NEW dead \in SUBSET Voice_, NextBlockOf(dead) PROVE VoicesInv'
  <2>1. UNCHANGED <<how, monoStack_, holdPedal_, down, muted>>
    BY <1>10 DEF NextBlockOf
  <2>2. /\ \A v \in Voice_ : Sound(voices'[v], how) /\ Anchored(voices'[v], down, holdPedal_)
        /\ \A v \in Voice_ : Sustains(voices[v]) => Sustains(voices'[v])
        /\ Shared(voices', how)
    BY <1>10, NextBlockSounds
  <2>3. how.mode = "MONO" /\ ToSet(monoStack_) \ muted # {} => Sustains(voices'[1])
    BY <1>v, <2>2 DEF VoicesInv, MonoSounds
  <2>4. QED
    BY <1>a, <2>1, <2>2, <2>3 DEF VoicesInv
<1>11. CASE UNCHANGED vars
  BY <1>11, <1>a DEF vars, timbre, VoicesInv, MonoSounds
<1>12. QED
  BY <1>1, <1>2, <1>3, <1>4, <1>5, <1>6, <1>8, <1>9, <1>10, <1>11 DEF Next, VoicesNextBlock

(* As long as none of the named windows is entered: a voice that will sound  *)
(* until its note is ended plays, or glides to, a key whose note-off is      *)
(* still to come, or is held by the pedal.  For every number of voices and   *)
(* of keys, every play mode and glide type (preenNoteOn, preenNoteOff,       *)
(* endNoteOrBeginNextOne).                                                   *)
THEOREM VoicesNoteNeverHangs ==
  ASSUME Windows = {}
  PROVE  Spec => []NoteNeverHangs
<1>1. VoicesInv => NoteNeverHangs
  <2> SUFFICES ASSUME VoicesInv, NEW v \in Voice_, Sustains(voices[v])
               PROVE  NotesOf(voices[v]) \cap down # {} \/ (holdPedal_ /\ voices[v].holdedByPedal)
    BY DEF NoteNeverHangs
  <2>1. voices[v].note \in down \/ (holdPedal_ /\ voices[v].holdedByPedal)
    BY DEF VoicesInv, Anchored
  <2>2. None \notin down
    BY DEF VoicesInv, TypeInv, None
  <2>3. QED
    BY <2>1, <2>2 DEF NotesOf
<1>2. VoicesInv /\ [Next]_vars => VoicesInv'
  BY VoicesStep
<1>3. QED
  BY <1>1, <1>2, VoicesInit, PTL DEF Spec

(* Outside the same windows: in MONO mode the instrument sounds as long as a *)
(* key of the stack is down whose note was neither refused nor ended by the  *)
(* pedal; stealing, gliding and recalling never lose the last key            *)
(* (monoNotePush, monoNoteRemove, monoNoteRecall).                           *)
THEOREM VoicesMonoSounds ==
  ASSUME Windows = {}
  PROVE  Spec => []MonoSounds
<1>1. VoicesInv => MonoSounds
  BY DEF VoicesInv
<1>2. VoicesInv /\ [Next]_vars => VoicesInv'
  BY VoicesStep
<1>3. QED
  BY <1>1, <1>2, VoicesInit, PTL DEF Spec

-----------------------------------------------------------------------------
(* With fewer keys down than there are voices, some voice sounds for no key: *)
(* two voices that play different notes are more than one key.               *)
LEMMA OneToSpare ==
  ASSUME VoicesInv, how.mode = "POLY", ~holdPedal_, Cardinality(down) < NumberOfVoices
  PROVE  \E v \in Voice_ : ~Sustains(voices[v])
<1> SUFFICES ASSUME \A v \in Voice_ : Sustains(voices[v]) PROVE FALSE
  OBVIOUS
<1> DEFINE f == [v \in Voice_ |-> voices[v].note]
<1>1. \A v \in Voice_ : voices[v].playing /\ voices[v].note \in down
  BY DEF VoicesInv, Anchored, Sustains
<1>2. f \in [Voice_ -> down]
  BY <1>1
<1>3. IsFiniteSet(Voice_) /\ Cardinality(Voice_) = NumberOfVoices
  BY FS_Interval DEF Voice_
<1>4. IsFiniteSet(down)
  <2>1. down \in SUBSET Nat /\ \A k \in down : k <= 127
    BY DEF VoicesInv, TypeInv
  <2>2. QED
    BY <2>1, FS_BoundedSetOfNaturals
<1>5. \A v, w \in Voice_ : v # w => f[v] # f[w]
  BY <1>1 DEF VoicesInv, Shared
<1> HIDE DEF f
<1>6. \E v, w \in Voice_ : v # w /\ f[v] = f[w]
  BY <1>2, <1>3, <1>4, FS_PigeonHole
<1>7. QED
  BY <1>5, <1>6

(* The order of choice: a voice that sounds for no key comes first. *)
LEMMA KeyDownSpares ==
  ASSUME VoicesInv, NEW k \in Keys, KeyDown(k),
         how.mode = "POLY", ~holdPedal_, Cardinality(down) < NumberOfVoices,
         \A v \in Voice_ : ~voices[v].newNotePending /\ ~Ending(voices[v]),
         NEW x \in Voice_, Sustains(voices[x])
  PROVE  voices'[x] = voices[x]
<1> DEFINE t == Timbre_
           u == [t EXCEPT !.stack = <<>>]
           same == {v \in Voice_ : t.voices[v].playing /\ t.voices[v].note = k}
           free == {v \in Voice_ : ~t.voices[v].playing}
           released == {v \in Voice_ : t.voices[v].released}
           w == PreenNoteOn(t, k)
<1>1. t \in TimbreType /\ t.voices = voices
  BY DEF VoicesInv, TypeInv, Timbre_, TimbreType
<1>2. Candidates(t) = Voice_
  BY <1>1 DEF Candidates, Considered
<1>3. /\ same # {} => w = Take(u, Min(same), k)
      /\ same = {} /\ free # {} => w = Start(u, Min(free), k)
      /\ same = {} /\ free = {} /\ released # {} => w = Take(u, Oldest(t, released), k)
  <2> DEFINE open == Candidates(t)
             sam == {v \in open : t.voices[v].playing /\ t.voices[v].note = k}
             fre == {v \in open : ~t.voices[v].playing}
             rel == {v \in open : t.voices[v].released}
  <2>1. w = CASE sam # {} -> Take(u, Min(sam), k)
              [] sam = {} /\ fre # {} -> Start(u, Min(fre), k)
              [] sam = {} /\ fre = {} /\ rel # {} -> Take(u, Oldest(t, rel), k)
              [] open # {} /\ open \cap (sam \cup fre \cup rel) = {} -> Take(u, Oldest(t, open), k)
              [] open = {} -> u
    BY DEF PreenNoteOn
  <2>2. open = Voice_ /\ sam = same /\ fre = free /\ rel = released
    BY <1>2
  <2>3. /\ (same # {} \/ free # {} \/ released # {}) => open \cap (sam \cup fre \cup rel) # {}
        /\ open # {}
    BY <2>2 DEF Voice_
  <2> HIDE DEF w, u, t, open, sam, fre, rel, same, free, released
  <2>4. QED
    BY <2>1, <2>2, <2>3
<1>4. ASSUME NEW v \in Voice_, v # x
      PROVE  Take(u, v, k).voices[x] = voices[x] /\ Start(u, v, k).voices[x] = voices[x]
  <2>1. u.voices = voices /\ u \in [voices : {voices}, index : {t.index}, stack : {<<>>}]
    BY <1>1 DEF TimbreType
  <2> HIDE DEF u
  <2>2. QED
    BY <1>4, <2>1 DEF Take, Start, Taken
<1>5. voices' = w.voices
  BY DEF KeyDown, Become
<1>6. x \notin same /\ x \notin free /\ x \notin released
  <2>1. voices[x].note \in down /\ k \notin down
    BY DEF VoicesInv, Anchored, KeyDown
  <2>2. voices[x].playing /\ ~voices[x].released
    BY DEF VoicesInv, Sound, Sustains
  <2>3. QED
    BY <1>1, <2>1, <2>2
<1>7. free = {} => released # {}
  <2>1. PICK v \in Voice_ : ~Sustains(voices[v])
    BY OneToSpare
  <2>2. ~voices[v].playing \/ voices[v].released
    BY <2>1 DEF Ending
  <2>3. QED
    BY <1>1, <2>2
<1>8. same \in SUBSET Voice_ /\ free \in SUBSET Voice_ /\ released \in SUBSET Voice_
  OBVIOUS
<1> HIDE DEF t, u, same, free, released, w
<1>9. CASE same # {}
  <2>1. Min(same) \in same
    BY <1>1, <1>8, <1>9, OldestIsOne
  <2>2. QED
    BY <1>3, <1>4, <1>5, <1>6, <1>8, <1>9, <2>1
<1>10. CASE same = {} /\ free # {}
  <2>1. Min(free) \in free
    BY <1>1, <1>8, <1>10, OldestIsOne
  <2>2. QED
    BY <1>3, <1>4, <1>5, <1>6, <1>8, <1>10, <2>1
<1>11. CASE same = {} /\ free = {}
  <2>1. Oldest(t, released) \in released
    BY <1>1, <1>7, <1>8, <1>11, OldestIsOne
  <2>2. QED
    BY <1>3, <1>4, <1>5, <1>6, <1>7, <1>8, <1>11, <2>1
<1>12. QED
  BY <1>9, <1>10, <1>11

(* Outside the same windows: in POLY mode a note-on takes no voice whose key *)
(* is down while fewer keys are down than there are voices, none of them is  *)
(* pending and none is between its end and its release (the order of choice  *)
(* in preenNoteOn).                                                          *)
THEOREM VoicesNoNeedlessSteal ==
  ASSUME Windows = {}
  PROVE  Spec => NoNeedlessSteal
<1> DEFINE A ==
      \A k \in down' \ down :
        /\ how.mode = "POLY" /\ ~holdPedal_ /\ Cardinality(down) < NumberOfVoices
        /\ \A v \in Voice_ : ~voices[v].newNotePending /\ ~Ending(voices[v])
        => \A v \in Voice_ : Sustains(voices[v]) => voices'[v] = voices[v]
<1>1. ASSUME VoicesInv, [Next]_vars PROVE [A]_vars
  <2> SUFFICES ASSUME NEW k \in down' \ down,
                      how.mode = "POLY", ~holdPedal_, Cardinality(down) < NumberOfVoices,
                      \A v \in Voice_ : ~voices[v].newNotePending /\ ~Ending(voices[v]),
                      NEW v \in Voice_, Sustains(voices[v])
               PROVE  voices'[v] = voices[v]
    OBVIOUS
  <2>1. \E n \in Keys : KeyDown(n)
    BY <1>1 DEF Next, KeyUp, SetHoldPedal, AllNoteOff, AllSoundOff, RoutingChanged, SequenceLoaded,
                Orphaned, VoicesNextBlock, NextBlockOf, vars
  <2>2. PICK n \in Keys : KeyDown(n)
    BY <2>1
  <2>3. QED
    BY <1>1, <2>2, KeyDownSpares
<1>2. VoicesInv /\ [Next]_vars => VoicesInv'
  BY VoicesStep
<1>3. QED
  BY <1>1, <1>2, VoicesInit, PTL DEF Spec, NoNeedlessSteal
=============================================================================
