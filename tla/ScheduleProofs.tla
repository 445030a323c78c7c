--------------------------- MODULE ScheduleProofs ---------------------------
(***************************************************************************)
(* The two parts of internal/read that schedule CPU work, in one module.   *)
(*                                                                         *)
(* First the Stream: what it keeps from frame to frame, for every set of   *)
(* frames, codes and routes and every bound - the type invariant with the  *)
(* three bounds of its memory, one correction per frame, and evidence that *)
(* counts once.  Then the concurrent region search, for every number of    *)
(* regions and of CPU bodies: the bodies come back, and no step is one the *)
(* sequential ladder could not take.                                       *)
(***************************************************************************)
EXTENDS Stream, RouteSlots, WellFoundedInduction, FiniteSetTheorems, TLAPS

Observations == [route : Routes, sight : Sights, side : Nat, native : BOOLEAN]
Priors == [side : Nat, pos : Int, layout : Nat, size : Seq(Nat \ {0}), family : Range(Family)]
Hypotheses == [side : Nat, enlarged : BOOLEAN]

Evidence == [Bits -> Int]
\* A correction was tried on what some window weighed.
AttemptOn(w) == [made |-> TRUE, hard |-> Hard(Signed(w)), units |-> Units(w)]
GroupTypes ==
  [snaps : Seq(Evidence), anchor : Int, fix : Int, reanchored : BOOLEAN, layout : Nat,
   rejects : 0 .. ResetAfter - 1, fresh : BOOLEAN,
   attempt : {NoAttempt} \cup {AttemptOn(w) : w \in Seq(Evidence)},
   confirmed : Codes \cup {NoCode}, signature : SUBSET Bits, disabled : BOOLEAN]

TypeOK ==
  /\ frame \in Frames \cup {NoFrame}
  /\ stage \in DOMAIN Following
  /\ obs \in Observations \cup {NoObs}
  /\ tried \in SUBSET Nat /\ chains \in Nat /\ banked \in BOOLEAN
  /\ out \in Codes \cup {NoCode}
  /\ ring \in Seq(Priors) /\ pending \in Seq(Hypotheses) /\ group \in GroupTypes
  /\ cursor \in Routes /\ failures \in 0 .. 1 /\ age \in 0 .. Period

\* What outlives a frame is bounded, however long the stream runs.
MemoryBounded ==
  Len(ring) <= RingCap /\ Len(pending) <= PendingCap /\ Len(group.snaps) <= GroupCap

\* A frame goes on only while it has spent no correction.
Unspent ==
  /\ chains <= 1
  /\ stage # "idle" => chains = 0
  /\ obs # NoObs => stage # "idle"

\* The replay slot is entered only with something to replay.
Replayable == stage \in {"seed", "rescan"} => ring # <<>>

\* The ring remembers one hypothesis for a scale.
OncePerScale == \A i, j \in DOMAIN ring : i # j => ring[i].side # ring[j].side

\* What holds of the group between any two of its operations.
Distinct(snaps) == \A i, j \in DOMAIN snaps : i # j => snaps[i] # snaps[j]
GroupSound(g) ==
  /\ g \in GroupTypes
  /\ Len(g.snaps) <= GroupCap
  /\ Distinct(g.snaps)
  /\ g.confirmed # NoCode => g.snaps # <<>>

\* A payload the frame did not show by itself is the group's confirmed one.
AnswersConfirmed == out # NoCode => out = frame.code \/ out = group.confirmed

IInv == /\ TypeOK /\ MemoryBounded /\ Unspent /\ Replayable /\ OncePerScale
        /\ GroupSound(group) /\ AnswersConfirmed

-----------------------------------------------------------------------------
(* Canvases and routes. *)

\* A set of natural numbers has a least one.
LEMMA NatMinimum ==
  ASSUME NEW T \in SUBSET Nat, T # {}
  PROVE  \E m \in T : \A n \in T : m <= n
<1> DEFINE R == {p \in Nat \X Nat : p[1] < p[2]}
<1>1. IsWellFoundedOn(R, Nat)
  BY NatLessThanWellFounded DEF OpToRel
<1> HIDE DEF R
<1>2. PICK m \in T : \A n \in T : ~ (<<n, m>> \in R)
  BY <1>1, WFMin
<1>3. \A n \in T : ~ (n < m)
  BY <1>2 DEF R
<1> QED
  BY <1>3

\* A frame that is read has a level, a sight for every level, and a code.
LEMMA FrameTypes ==
  ASSUME NEW f \in Frames \cup {NoFrame}
  PROVE  /\ f.sides \in Seq(Nat \ {0}) /\ f.sides # <<>>
         /\ f.code \in Codes \cup {NoCode}
         /\ f.view \in Seq(Sights) /\ Len(f.view) = Len(f.sides)
         /\ f.enlarged \in Sights
<1>1. NoEvidence \in [Bits -> Int] \cup {NoEvidence}
  OBVIOUS
<1>2. Blank \in Sights
  BY <1>1 DEF Blank, Sights
<1>3. <<1>> \in Seq(Nat \ {0}) /\ <<1>> # <<>> /\ <<Blank>> \in Seq(Sights)
      /\ Len(<<Blank>>) = 1 /\ Len(<<1>>) = 1
  BY <1>2
<1>4. CASE f = NoFrame
  BY <1>2, <1>3, <1>4 DEF NoFrame
<1>5. CASE f \in Frames
  BY <1>5, FramesAssumption
<1> QED
  BY <1>4, <1>5

\* The nearest level is one of the frame's levels.
LEMMA NearestIsLevel ==
  ASSUME NEW f, f.sides \in Seq(Nat \ {0}), f.sides # <<>>, NEW side \in Nat
  PROVE  Nearest(f, side) \in DOMAIN f.sides
<1> DEFINE Off(i) == Magnitude(f.sides[i] - side)
           offs == {Off(i) : i \in DOMAIN f.sides}
<1>1. \A i \in DOMAIN f.sides : i \in Nat /\ Off(i) \in Nat
  BY DEF Magnitude
<1>2. DOMAIN f.sides = 1 .. Len(f.sides) /\ Len(f.sides) \in Nat \ {0}
  OBVIOUS
<1> HIDE DEF Off
<1>3. offs \in SUBSET Nat /\ offs # {}
  <2>1. 1 \in DOMAIN f.sides
    BY <1>2
  <2> QED
    BY <1>1, <2>1
<1>4. PICK m \in offs : \A n \in offs : m <= n
  BY <1>3, NatMinimum
<1> DEFINE closest == {i \in DOMAIN f.sides : Off(i) = m}
<1>5. closest \in SUBSET Nat /\ closest # {}
  BY <1>1, <1>4
<1>6. PICK k \in closest : \A j \in closest : k <= j
  BY <1>5, NatMinimum
<1>7. \A j \in DOMAIN f.sides : Off(k) < Off(j) \/ (Off(k) = Off(j) /\ k <= j)
  <2> SUFFICES ASSUME NEW j \in DOMAIN f.sides
               PROVE  Off(k) < Off(j) \/ (Off(k) = Off(j) /\ k <= j)
    OBVIOUS
  <2>1. Off(k) = m /\ m <= Off(j) /\ Off(k) \in Nat /\ Off(j) \in Nat
    BY <1>1, <1>4, <1>6
  <2>2. CASE Off(j) = m
    BY <1>6, <2>1, <2>2
  <2>3. CASE Off(j) # m
    BY <2>1, <2>3
  <2> QED
    BY <2>2, <2>3
<1>8. k \in DOMAIN f.sides
  BY <1>6
<1>9. \E i \in DOMAIN f.sides :
        \A j \in DOMAIN f.sides : Off(i) < Off(j) \/ (Off(i) = Off(j) /\ i <= j)
  BY <1>7, <1>8
<1> QED
  BY <1>9 DEF Nearest, Off

\* A canvas has a side, and what is seen on it is a sight.
LEMMA CanvasTypes ==
  ASSUME NEW f \in Frames \cup {NoFrame}, NEW h \in Hypotheses
  PROVE  CanvasSide(f, h) \in Nat /\ CanvasSight(f, h) \in Sights
<1>1. Nearest(f, h.side) \in DOMAIN f.sides
  BY FrameTypes, NearestIsLevel DEF Hypotheses
<1>2. f.sides[Nearest(f, h.side)] \in Nat /\ f.view[Nearest(f, h.side)] \in Sights
  BY <1>1, FrameTypes
<1>3. f.enlarged \in Sights /\ EnlargeFactor * Base(f) \in Nat
  <2>1. Base(f) \in Nat
    BY FrameTypes DEF Base, Last
  <2> QED
    BY <2>1, FrameTypes, StreamAssumption
<1> QED
  BY <1>2, <1>3 DEF CanvasSide, CanvasSight

\* Some turn from the cursor comes to every route, and the first admitted one
\* is a route.
LEMMA FirstTurnIsRoute ==
  ASSUME cursor \in Routes, NEW s \in Sights, s.plausible # {}
  PROVE  FirstTurn(s) \in Routes /\ Turn(FirstTurn(s)) \in Routes
<1> DEFINE n == Cardinality(Routes)
<1>1. n \in Nat \ {0} /\ Routes = 0 .. n - 1 /\ cursor \in 0 .. n - 1
  BY StreamAssumption, FS_CardinalityType, FS_EmptySet
<1>2. PICK r \in s.plausible : r \in 0 .. n - 1
  BY <1>1 DEF Sights
<1> HIDE DEF n
<1>3. \E i \in Routes : Turn(i) = r
  <2>1. CASE cursor <= r
    <3>1. r - cursor \in 0 .. n - 1 /\ (cursor + (r - cursor)) % n = r
      BY <1>1, <1>2, <2>1
    <3> QED
      BY <1>1, <3>1 DEF Turn, n
  <2>2. CASE r < cursor
    <3>1. (r - cursor) + n \in 0 .. n - 1 /\ cursor + ((r - cursor) + n) = r + n
      BY <1>1, <1>2, <2>2
    <3>2. (r + n) % n = r
      BY <1>1, <1>2
    <3> QED
      BY <1>1, <3>1, <3>2 DEF Turn, n
  <2> QED
    BY <1>1, <1>2, <2>1, <2>2
<1> DEFINE turns == {i \in Routes : Turn(i) \in s.plausible}
<1>4. turns \in SUBSET Nat /\ turns # {}
  BY <1>1, <1>2, <1>3
<1>5. PICK k \in turns : \A i \in turns : k <= i
  BY <1>4, NatMinimum
<1>6. \A j \in Routes : j < k => Turn(j) \notin s.plausible
  BY <1>1, <1>5
<1>7. FirstTurn(s) \in Routes /\ Turn(FirstTurn(s)) \in s.plausible
  BY <1>5, <1>6 DEF FirstTurn
<1> QED
  BY <1>7 DEF Sights

\* A route stays one when the cursor passes it.
LEMMA NextRoute ==
  ASSUME NEW r \in Routes
  PROVE  (r + 1) % Cardinality(Routes) \in Routes
<1>1. Cardinality(Routes) \in Nat \ {0} /\ Routes = 0 .. Cardinality(Routes) - 1
  BY StreamAssumption, FS_CardinalityType, FS_EmptySet
<1> QED
  BY <1>1
-----------------------------------------------------------------------------
(* The queue and the ring. *)

\* What is taken of a sequence is of its kind and within the bound.
LEMMA UpToTypes ==
  ASSUME NEW S, NEW seq \in Seq(S), NEW n \in Nat
  PROVE  UpTo(n, seq) \in Seq(S) /\ Len(UpTo(n, seq)) <= n
<1>1. Min({n, Len(seq)}) \in {n, Len(seq)} /\ Min({n, Len(seq)}) <= n
      /\ Min({n, Len(seq)}) <= Len(seq)
  <2>1. \E x \in {n, Len(seq)} : \A y \in {n, Len(seq)} : x =< y
    <3>1. n <= Len(seq) \/ Len(seq) <= n
      OBVIOUS
    <3> QED
      BY <3>1
  <2> QED
    BY <2>1 DEF Min
<1>2. Min({n, Len(seq)}) \in Nat
  BY <1>1
<1> DEFINE k == Min({n, Len(seq)})
<1> HIDE DEF k
<1>3. k \in 0 .. Len(seq) /\ k <= n
  BY <1>1, <1>2 DEF k
<1>4. \A i \in 1 .. k : seq[i] \in S
  BY <1>3
<1>5. SubSeq(seq, 1, k) \in Seq(S) /\ Len(SubSeq(seq, 1, k)) = k
  BY <1>3, <1>4
<1> QED
  BY <1>3, <1>5 DEF UpTo, k

\* A refilled queue holds hypotheses, no more than its bound.
LEMMA RefillTypes ==
  ASSUME NEW f \in Frames \cup {NoFrame}
  PROVE  Refill(f) \in Seq(Hypotheses) /\ Len(Refill(f)) <= PendingCap
<1> DEFINE finer == [i \in 1 .. Len(f.sides) - 1 |-> Native(f.sides[i + 1])]
<1>1. PendingCap \in Nat \ {0} /\ EnlargeFactor \in Nat
  BY StreamAssumption
<1>2. finer \in Seq(Hypotheses)
  <2>1. Len(f.sides) - 1 \in Nat
    BY FrameTypes
  <2>2. \A i \in 1 .. Len(f.sides) - 1 : Native(f.sides[i + 1]) \in Hypotheses
    BY FrameTypes DEF Native, Hypotheses
  <2> QED
    BY <2>1, <2>2
<1>3. UpTo(PendingCap, finer) \in Seq(Hypotheses) /\ Len(UpTo(PendingCap, finer)) <= PendingCap
  BY <1>1, <1>2, UpToTypes
<1>4. [side |-> EnlargeFactor * Base(f), enlarged |-> TRUE] \in Hypotheses
  <2>1. Base(f) \in Nat
    BY FrameTypes DEF Base, Last
  <2>2. EnlargeFactor * Base(f) \in Nat
    BY <1>1, <2>1
  <2> QED
    BY <2>2 DEF Hypotheses
<1> QED
  BY <1>1, <1>3, <1>4 DEF Refill

\* The loop of remember, as the function whose last value is the new ring.
Kept(old, p, side, F) ==
  F = [n \in 0 .. Len(old) |->
        IF n = 0 THEN <<p>>
        ELSE IF old[n].side # side /\ Len(F[n - 1]) < RingCap
             THEN Append(F[n - 1], old[n])
             ELSE F[n - 1]]

\* The loop has a result after every number of rounds.
LEMMA KeptExists ==
  ASSUME NEW old, Len(old) \in Nat, NEW p, NEW side
  PROVE  \E F : Kept(old, p, side, F)
<1> DEFINE N == Len(old)
           Round(n, x) == IF old[n].side # side /\ Len(x) < RingCap THEN Append(x, old[n]) ELSE x
           Good(m, F) == F = [n \in 0 .. m |-> IF n = 0 THEN <<p>> ELSE Round(n, F[n - 1])]
           bad == {m \in 0 .. N : ~ \E F : Good(m, F)}
<1> SUFFICES bad = {}
  <2>1. \E F : Good(N, F)
    BY SMTT(30) DEF N
  <2> QED
    BY <2>1 DEF Kept
<1> SUFFICES ASSUME bad # {} PROVE FALSE
  OBVIOUS
<1>1. bad \in SUBSET Nat
  OBVIOUS
<1>2. PICK m \in bad : \A n \in bad : m <= n
  BY <1>1, NatMinimum
<1> HIDE DEF Round
<1>3. m # 0
  <2>1. Good(0, [n \in 0 .. 0 |-> <<p>>])
    OBVIOUS
  <2> QED
    BY <2>1
<1>4. PICK F : Good(m - 1, F)
  <2>1. m - 1 \in 0 .. N /\ ~ (m <= m - 1)
    BY <1>3
  <2> QED
    BY <1>2, <2>1
<1> DEFINE H == [n \in 0 .. m |-> IF n = m THEN Round(m, F[m - 1]) ELSE F[n]]
<1>5. Good(m, H)
  <2>1. ASSUME NEW n \in 0 .. m
        PROVE  H[n] = IF n = 0 THEN <<p>> ELSE Round(n, H[n - 1])
    <3>1. CASE n = m
      <4>1. H[n] = Round(m, F[m - 1]) /\ H[m - 1] = F[m - 1]
        BY <1>3, <3>1
      <4> QED
        BY <1>3, <3>1, <4>1
    <3>2. CASE n # m
      <4>1. n \in 0 .. m - 1 /\ H[n] = F[n]
        BY <3>2
      <4>2. F[n] = IF n = 0 THEN <<p>> ELSE Round(n, F[n - 1])
        BY <1>4, <4>1
      <4>3. n # 0 => H[n - 1] = F[n - 1]
        BY <3>2, <4>1
      <4> QED
        BY <4>1, <4>2, <4>3
    <3> QED
      BY <3>1, <3>2
  <2> QED
    BY <2>1
<1> QED
  BY <1>2, <1>5

\* The loop keeps the ring's types, bound and one entry for a scale.
LEMMA KeptSound ==
  ASSUME NEW old \in Seq(Priors), NEW p \in Priors, NEW F, Kept(old, p, p.side, F),
         \A i, j \in DOMAIN old : i # j => old[i].side # old[j].side
  PROVE  LET r == F[Len(old)]
         IN  /\ r \in Seq(Priors) /\ r # <<>> /\ Len(r) <= RingCap
             /\ \A i, j \in DOMAIN r : i # j => r[i].side # r[j].side
<1> DEFINE N == Len(old)
           Sound(n) ==
             /\ F[n] \in Seq(Priors) /\ F[n] # <<>> /\ Len(F[n]) <= RingCap
             /\ \A i, j \in DOMAIN F[n] : i # j => F[n][i].side # F[n][j].side
             /\ \A i \in DOMAIN F[n] : F[n][i].side = p.side
                                       \/ \E j \in 1 .. n : F[n][i].side = old[j].side
           bad == {n \in 0 .. N : ~ Sound(n)}
<1>1. /\ F[0] = <<p>>
      /\ \A n \in 1 .. N :
           F[n] = IF old[n].side # p.side /\ Len(F[n - 1]) < RingCap
                  THEN Append(F[n - 1], old[n]) ELSE F[n - 1]
  <2>1. \A n \in 0 .. N :
          F[n] = IF n = 0 THEN <<p>>
                 ELSE IF old[n].side # p.side /\ Len(F[n - 1]) < RingCap
                      THEN Append(F[n - 1], old[n]) ELSE F[n - 1]
    BY DEF Kept
  <2>2. N \in Nat /\ \A n \in 1 .. N : n \in 0 .. N /\ n # 0
    OBVIOUS
  <2>3. 0 \in 0 .. N
    BY <2>2
  <2> HIDE DEF N
  <2> QED
    BY <2>1, <2>2, <2>3
<1>2. RingCap \in Nat \ {0}
  BY StreamAssumption
<1>3. Sound(0)
  BY <1>1, <1>2
<1>4. ASSUME NEW n \in 1 .. N, Sound(n - 1) PROVE Sound(n)
  <2>1. CASE ~ (old[n].side # p.side /\ Len(F[n - 1]) < RingCap)
    <3>1. F[n] = F[n - 1]
      BY <1>1, <2>1
    <3>2. 1 .. n - 1 \in SUBSET (1 .. n)
      OBVIOUS
    <3> QED
      BY <1>4, <3>1, <3>2
  <2>2. CASE old[n].side # p.side /\ Len(F[n - 1]) < RingCap
    <3> DEFINE r == F[n - 1]
    <3>1. F[n] = Append(r, old[n])
      BY <1>1, <2>2
    <3>2. r \in Seq(Priors) /\ old[n] \in Priors /\ Len(r) < RingCap
      BY <1>4, <2>2
    <3>3. /\ \A i, j \in DOMAIN r : i # j => r[i].side # r[j].side
          /\ \A i \in DOMAIN r : r[i].side = p.side \/ \E j \in 1 .. n - 1 : r[i].side = old[j].side
      BY <1>4
    <3> HIDE DEF r
    <3> DEFINE a == Append(r, old[n])
    <3>4. /\ a \in Seq(Priors) /\ a # <<>> /\ Len(a) = Len(r) + 1 /\ Len(r) \in Nat
          /\ \A i \in DOMAIN r : a[i] = r[i]
          /\ a[Len(r) + 1] = old[n]
          /\ DOMAIN a = 1 .. Len(r) + 1 /\ DOMAIN r = 1 .. Len(r)
      <4>1. a \in Seq(Priors) /\ Len(a) = Len(r) + 1 /\ Len(r) \in Nat
        BY <3>2
      <4>2. a[Len(r) + 1] = old[n] /\ DOMAIN r = 1 .. Len(r)
        BY <3>2
      <4>3. \A i \in DOMAIN r : a[i] = r[i]
        BY <3>2
      <4>4. DOMAIN a = 1 .. Len(r) + 1 /\ a # <<>>
        BY <4>1
      <4> QED
        BY <4>1, <4>2, <4>3, <4>4
    <3>5. \A i \in DOMAIN r : r[i].side # old[n].side
      <4>1. \A j \in 1 .. n - 1 : j \in DOMAIN old /\ n \in DOMAIN old /\ j # n
        OBVIOUS
      <4> QED
        BY <2>2, <3>3, <4>1
    <3> HIDE DEF a
    <3>6. \A i, j \in DOMAIN a : i # j => a[i].side # a[j].side
      <4> SUFFICES ASSUME NEW i \in DOMAIN a, NEW j \in DOMAIN a, i # j
                   PROVE  a[i].side # a[j].side
        OBVIOUS
      <4>1. \A k \in DOMAIN a : k = Len(r) + 1 \/ k \in DOMAIN r
        BY <3>4
      <4>2. CASE i = Len(r) + 1
        BY <3>4, <3>5, <4>1, <4>2
      <4>3. CASE j = Len(r) + 1
        BY <3>4, <3>5, <4>1, <4>3
      <4>4. CASE i \in DOMAIN r /\ j \in DOMAIN r
        BY <3>3, <3>4, <4>4
      <4> QED
        BY <4>1, <4>2, <4>3, <4>4
    <3>7. \A i \in DOMAIN a : a[i].side = p.side \/ \E j \in 1 .. n : a[i].side = old[j].side
      <4>1. \A i \in DOMAIN a : i = Len(r) + 1 \/ i \in DOMAIN r
        BY <3>4
      <4>2. n \in 1 .. n /\ 1 .. n - 1 \in SUBSET (1 .. n)
        OBVIOUS
      <4> QED
        BY <3>3, <3>4, <4>1, <4>2
    <3>8. F[n] = a /\ Len(a) <= RingCap
      BY <1>2, <3>1, <3>2, <3>4 DEF a
    <3> QED
      BY <3>4, <3>6, <3>7, <3>8
  <2> QED
    BY <2>1, <2>2
<1> HIDE DEF Sound
<1>5. bad = {}
  <2> SUFFICES ASSUME bad # {} PROVE FALSE
    OBVIOUS
  <2>1. bad \in SUBSET Nat
    OBVIOUS
  <2>2. PICK n \in bad : \A m \in bad : n <= m
    BY <2>1, NatMinimum
  <2>3. n # 0
    BY <1>3
  <2>4. n - 1 \in 0 .. N /\ n \in 1 .. N /\ ~ (n <= n - 1)
    BY <2>3
  <2>5. Sound(n - 1)
    BY <2>2, <2>4
  <2> QED
    BY <1>4, <2>4, <2>5
<1>6. N \in 0 .. N
  OBVIOUS
<1>7. Sound(N)
  BY <1>5, <1>6
<1> QED
  BY <1>7 DEF Sound

\* What is remembered is a ring again, the newest hypothesis among it.
LEMMA RememberSound ==
  ASSUME ring \in Seq(Priors), OncePerScale, obs \in Observations, frame \in Frames \cup {NoFrame}
  PROVE  /\ Remember \in Seq(Priors) /\ Remember # <<>> /\ Len(Remember) <= RingCap
         /\ \A i, j \in DOMAIN Remember : i # j => Remember[i].side # Remember[j].side
<1>1. Prior \in Priors /\ Prior.side = obs.side
  <2>1. obs.route \in Routes /\ obs.sight \in Sights /\ obs.side \in Nat
    BY DEF Observations
  <2>2. Family[obs.route] \in Range(Family)
    BY <2>1 DEF Range, Routes
  <2>3. obs.sight.pos \in Int /\ obs.sight.layout \in Nat
    BY <2>1 DEF Sights
  <2> QED
    BY <2>1, <2>2, <2>3, FrameTypes DEF Prior, Priors
<1> DEFINE F == CHOOSE G : Kept(ring, Prior, obs.side, G)
<1>2. Remember = F[Len(ring)]
  BY DEF Remember, Kept
<1>3. Kept(ring, Prior, obs.side, F)
  <2>1. Len(ring) \in Nat
    OBVIOUS
  <2> QED
    BY <2>1, KeptExists
<1> HIDE DEF F
<1> QED
  BY <1>1, <1>2, <1>3, KeptSound DEF OncePerScale
-----------------------------------------------------------------------------
(* The evidence group. *)

\* The hard bits of a window are bits.
LEMMA WindowTypes ==
  ASSUME NEW w
  PROVE  Hard(Signed(w)) \in SUBSET Bits
BY DEF Hard, Signed

\* A sight's evidence is absent or a value for every bit.
LEMMA SightTypes ==
  ASSUME NEW s \in Sights, s.ev # NoEvidence
  PROVE  s.ev \in Evidence /\ s.pos \in Int /\ s.fix \in Int /\ s.layout \in Nat
BY DEF Sights, Evidence

\* The empty group is sound.
LEMMA EmptyGroupSound ==
  GroupSound(EmptyGroup)
<1>1. 0 \in 0 .. ResetAfter - 1 /\ GroupCap \in Nat
  BY EvidenceAssumption
<1>2. EmptyGroup \in GroupTypes
  BY <1>1 DEF EmptyGroup, GroupTypes
<1> QED
  BY <1>1, <1>2 DEF EmptyGroup, GroupSound, Distinct

\* A group anchored on one observation is sound.
LEMMA AnchoredSound ==
  ASSUME NEW s \in Sights, s.ev # NoEvidence
  PROVE  GroupSound(Anchored(s)) /\ Anchored(s).snaps # <<>>
<1>1. EmptyGroup \in GroupTypes
  BY EmptyGroupSound DEF GroupSound
<1>2. <<s.ev>> \in Seq(Evidence) /\ Len(<<s.ev>>) = 1 /\ <<s.ev>> # <<>> /\ Distinct(<<s.ev>>)
  BY SightTypes DEF Distinct
<1> DEFINE a == Anchored(s)
<1>3. a \in GroupTypes
  BY <1>1, <1>2, SightTypes DEF Anchored, GroupTypes
<1>4. a.snaps = <<s.ev>>
  BY <1>1 DEF Anchored, GroupTypes
<1>5. 1 <= GroupCap
  BY EvidenceAssumption
<1> HIDE DEF a
<1> QED
  BY <1>2, <1>3, <1>4, <1>5 DEF GroupSound, a

\* A mismatch leaves the group, or an empty one, sound.
LEMMA RejectSound ==
  ASSUME NEW g, GroupSound(g)
  PROVE  GroupSound(Reject(g))
<1>1. CASE g.rejects + 1 >= ResetAfter
  BY <1>1, EmptyGroupSound DEF Reject
<1>2. CASE ~ (g.rejects + 1 >= ResetAfter)
  <2>1. g \in GroupTypes /\ g.rejects + 1 \in 0 .. ResetAfter - 1
    BY <1>2, EvidenceAssumption DEF GroupSound, GroupTypes
  <2> DEFINE r == [g EXCEPT !.rejects = @ + 1]
  <2>2. r \in GroupTypes /\ r.snaps = g.snaps /\ r.confirmed = g.confirmed
    BY <2>1 DEF GroupTypes
  <2> HIDE DEF r
  <2>3. GroupSound(r)
    BY <2>2 DEF GroupSound
  <2> QED
    BY <1>2, <2>3 DEF Reject, r
<1> QED
  BY <1>1, <1>2

\* A new observation joins the window, which stays bounded and distinct.
LEMMA JoinedSound ==
  ASSUME NEW g, GroupSound(g), NEW s \in Sights, s.ev # NoEvidence,
         g.snaps # <<>>, ~ Known(g, s.ev)
  PROVE  GroupSound(Joined(g, s)) /\ Joined(g, s).snaps # <<>>
<1> DEFINE kept   == IF Len(g.snaps) >= GroupCap THEN Tail(g.snaps) ELSE g.snaps
           better == s.fix > g.fix /\ ~g.reanchored
           window == Append(kept, s.ev)
           j      == [g EXCEPT !.snaps = window,
                               !.rejects = 0,
                               !.fresh = TRUE,
                               !.anchor = IF better THEN s.pos ELSE @,
                               !.fix = IF better THEN s.fix ELSE @,
                               !.reanchored = @ \/ better]
<1>1. /\ g \in GroupTypes /\ g.snaps \in Seq(Evidence) /\ Len(g.snaps) \in Nat \ {0}
      /\ Len(g.snaps) <= GroupCap /\ Distinct(g.snaps) /\ GroupCap \in Nat \ {0}
  BY EvidenceAssumption DEF GroupSound, GroupTypes
<1>2. s.ev \in Evidence /\ s.pos \in Int /\ s.fix \in Int
  BY SightTypes
<1>3. \A i \in DOMAIN g.snaps : g.snaps[i] # s.ev
  BY DEF Known, ToSet
<1>4. /\ kept \in Seq(Evidence) /\ Len(kept) < GroupCap /\ Len(kept) \in Nat
      /\ \A i \in DOMAIN kept : kept[i] # s.ev
      /\ Distinct(kept)
  <2>1. CASE Len(g.snaps) >= GroupCap
    <3>1. kept = Tail(g.snaps) /\ kept \in Seq(Evidence) /\ Len(kept) = Len(g.snaps) - 1
          /\ \A i \in 1 .. Len(kept) : kept[i] = g.snaps[i + 1]
      BY <1>1, <2>1
    <3>2. DOMAIN kept = 1 .. Len(kept) /\ \A i \in DOMAIN kept : i + 1 \in DOMAIN g.snaps
      BY <1>1, <3>1
    <3>3. Len(kept) < GroupCap /\ Len(kept) \in Nat
      BY <1>1, <3>1
    <3> HIDE DEF kept
    <3>4. \A i \in DOMAIN kept : kept[i] # s.ev
      BY <1>3, <3>1, <3>2
    <3>5. \A i, k \in DOMAIN kept : i # k => kept[i] # kept[k]
      <4> SUFFICES ASSUME NEW i \in DOMAIN kept, NEW k \in DOMAIN kept, i # k
                   PROVE  kept[i] # kept[k]
        OBVIOUS
      <4>1. i + 1 # k + 1 /\ i + 1 \in DOMAIN g.snaps /\ k + 1 \in DOMAIN g.snaps
        BY <3>2
      <4>2. g.snaps[i + 1] # g.snaps[k + 1]
        BY <1>1, <4>1 DEF Distinct
      <4> QED
        BY <3>1, <3>2, <4>2
    <3> QED
      BY <3>1, <3>3, <3>4, <3>5 DEF Distinct
  <2>2. CASE ~ (Len(g.snaps) >= GroupCap)
    <3>1. kept = g.snaps /\ Len(g.snaps) < GroupCap
      BY <1>1, <2>2
    <3> QED
      BY <1>1, <1>3, <3>1
  <2> QED
    BY <2>1, <2>2
<1> HIDE DEF kept
<1>5. window \in Seq(Evidence) /\ Len(window) <= GroupCap /\ window # <<>> /\ Distinct(window)
  <2>1. /\ window \in Seq(Evidence) /\ Len(window) = Len(kept) + 1
        /\ DOMAIN window = 1 .. Len(kept) + 1 /\ DOMAIN kept = 1 .. Len(kept)
    BY <1>2, <1>4
  <2>2. \A i \in DOMAIN kept : window[i] = kept[i]
    BY <1>2, <1>4
  <2>3. window[Len(kept) + 1] = s.ev
    BY <1>2, <1>4
  <2>4. Len(window) <= GroupCap
    BY <1>1, <1>4, <2>1
  <2> HIDE DEF window
  <2>5. window # <<>>
    BY <1>4, <2>1
  <2>6. \A i \in DOMAIN window : i = Len(kept) + 1 \/ i \in DOMAIN kept
    BY <1>4, <2>1
  <2>7. Distinct(window)
    <3> SUFFICES ASSUME NEW i \in DOMAIN window, NEW k \in DOMAIN window, i # k
                 PROVE  window[i] # window[k]
      BY DEF Distinct
    <3>1. CASE i = Len(kept) + 1
      BY <1>4, <2>2, <2>3, <2>6, <3>1
    <3>2. CASE k = Len(kept) + 1
      BY <1>4, <2>2, <2>3, <2>6, <3>2
    <3>3. CASE i \in DOMAIN kept /\ k \in DOMAIN kept
      BY <1>4, <2>2, <3>3 DEF Distinct
    <3> QED
      BY <2>6, <3>1, <3>2, <3>3
  <2> QED
    BY <2>1, <2>4, <2>5, <2>7
<1> HIDE DEF window, better
<1>6. better \in BOOLEAN
  BY DEF better
<1>7. 0 \in 0 .. ResetAfter - 1
  BY EvidenceAssumption
<1>8. j \in GroupTypes
  BY <1>1, <1>2, <1>5, <1>6, <1>7 DEF GroupTypes
<1>9. j.snaps = window
  BY <1>1 DEF GroupTypes
<1> HIDE DEF j
<1>10. GroupSound(j) /\ j.snaps # <<>>
  BY <1>5, <1>8, <1>9 DEF GroupSound
<1> QED
  BY <1>10 DEF Joined, j, window, kept, better

\* Admission keeps the group sound, and an admitting group is not empty.
LEMMA AdmitSound ==
  ASSUME NEW g, GroupSound(g), NEW s \in Sights
  PROVE  LET a == Admit(g, s)
         IN  /\ GroupSound(a.group) /\ a.admitted \in BOOLEAN
             /\ a.admitted => s.ev # NoEvidence /\ a.group.snaps # <<>>
<1>1. CASE s.ev = NoEvidence
  BY <1>1 DEF Admit, Admission
<1>2. CASE s.ev # NoEvidence /\ g.snaps = <<>>
  BY <1>2, AnchoredSound DEF Admit, Admission
<1>3. CASE s.ev # NoEvidence /\ g.snaps # <<>> /\ Foreign(g, s)
  BY <1>3, RejectSound DEF Admit, Admission
<1>4. CASE s.ev # NoEvidence /\ g.snaps # <<>> /\ ~ Foreign(g, s) /\ Known(g, s.ev)
  <2> DEFINE r == [g EXCEPT !.rejects = 0]
  <2>1. 0 \in 0 .. ResetAfter - 1 /\ g \in GroupTypes
    BY EvidenceAssumption DEF GroupSound
  <2>2. r \in GroupTypes /\ r.snaps = g.snaps /\ r.confirmed = g.confirmed
    BY <2>1 DEF GroupTypes
  <2>3. Admit(g, s) = Admission(r, TRUE, FALSE)
    BY <1>4 DEF Admit
  <2> HIDE DEF r
  <2>4. GroupSound(r)
    BY <2>2 DEF GroupSound
  <2> QED
    BY <1>4, <2>2, <2>3, <2>4 DEF Admission
<1>5. CASE s.ev # NoEvidence /\ g.snaps # <<>> /\ ~ Foreign(g, s) /\ ~ Known(g, s.ev)
  <2>1. Admit(g, s) = Admission(Joined(g, s), TRUE, TRUE)
    BY <1>5 DEF Admit
  <2> QED
    BY <1>5, <2>1, JoinedSound DEF Admission
<1> QED
  BY <1>1, <1>2, <1>3, <1>4, <1>5

\* A recorded attempt, a confirmation and a disabled aggregate leave the window.
LEMMA RecordSound ==
  ASSUME NEW g, GroupSound(g)
  PROVE  GroupSound(RecordAttempt(g)) /\ RecordAttempt(g).snaps = g.snaps
<1> DEFINE a == AttemptOn(g.snaps)
           r == [g EXCEPT !.fresh = FALSE, !.attempt = a]
<1>1. g \in GroupTypes /\ g.snaps \in Seq(Evidence)
  BY DEF GroupSound, GroupTypes
<1>2. a \in {AttemptOn(w) : w \in Seq(Evidence)}
  BY <1>1
<1> HIDE DEF a
<1>3. r \in GroupTypes /\ r.snaps = g.snaps /\ r.confirmed = g.confirmed
  BY <1>1, <1>2 DEF GroupTypes
<1> HIDE DEF r
<1>4. GroupSound(r)
  BY <1>3 DEF GroupSound
<1> QED
  BY <1>3, <1>4 DEF RecordAttempt, AttemptOn, r, a

\* Only a group that holds an observation is confirmed.
LEMMA ConfirmSound ==
  ASSUME NEW g, GroupSound(g), g.snaps # <<>>, NEW c \in Codes
  PROVE  GroupSound(Confirm(g, c))
<1> DEFINE r == [g EXCEPT !.confirmed = c, !.signature = Hard(Signed(g.snaps))]
<1>1. g \in GroupTypes /\ g.snaps \in Seq(Evidence)
  BY DEF GroupSound, GroupTypes
<1>2. Hard(Signed(g.snaps)) \in SUBSET Bits
  BY <1>1, WindowTypes
<1>3. r \in GroupTypes /\ r.snaps = g.snaps
  BY <1>1, <1>2 DEF GroupTypes
<1> HIDE DEF r
<1>4. GroupSound(r)
  BY <1>3 DEF GroupSound
<1> QED
  BY <1>4 DEF Confirm, r

\* A group whose aggregate is disabled keeps what it holds.
LEMMA DisabledSound ==
  ASSUME NEW g, GroupSound(g)
  PROVE  GroupSound([g EXCEPT !.disabled = TRUE])
<1> DEFINE r == [g EXCEPT !.disabled = TRUE]
<1>1. r \in GroupTypes /\ r.snaps = g.snaps /\ r.confirmed = g.confirmed
  BY DEF GroupSound, GroupTypes
<1> HIDE DEF r
<1>2. GroupSound(r)
  BY <1>1 DEF GroupSound
<1> QED
  BY <1>2 DEF r

\* A frame decoded by itself leaves a sound group of its own.
LEMMA RestartSound ==
  ASSUME NEW g, NEW s \in Sights, NEW c \in Codes
  PROVE  GroupSound(Restart(g, s, c))
<1> DEFINE a == Admit(EmptyGroup, s)
<1>1. GroupSound(a.group) /\ (a.admitted => a.group.snaps # <<>>)
  BY EmptyGroupSound, AdmitSound
<1> HIDE DEF a
<1>2. a.admitted => GroupSound(Confirm(a.group, c))
  BY <1>1, ConfirmSound
<1> QED
  BY <1>1, <1>2 DEF Restart, a
-----------------------------------------------------------------------------
(* The steps of a frame. *)

\* The attempt after a miss: none once a correction is spent, and never the
\* replay slot anew.
LEMMA AfterMissTypes ==
  ASSUME NEW spent \in Nat, stage \in DOMAIN Following
  PROVE  /\ AfterMiss(spent) \in DOMAIN Following
         /\ AfterMiss(spent) \in {"seed", "rescan"} => stage = "seed"
         /\ AfterMiss(spent) # "idle" => spent = 0 /\ stage # "idle"
<1>1. DOMAIN Following = {"seed", "rescan", "fresh", "queued", "idle"}
  BY DEF Following
<1>2. CASE stage = "seed"
  BY <1>2 DEF AfterMiss, Following
<1>3. CASE stage = "rescan"
  BY <1>3 DEF AfterMiss, Following
<1>4. CASE stage = "fresh"
  BY <1>4 DEF AfterMiss, Following
<1>5. CASE stage = "queued"
  BY <1>5 DEF AfterMiss, Following
<1>6. CASE stage = "idle"
  BY <1>6 DEF AfterMiss, Following
<1> QED
  BY <1>1, <1>2, <1>3, <1>4, <1>5, <1>6

\* Initially nothing is remembered.
LEMMA InitSound ==
  ASSUME Init
  PROVE  IInv
<1>1. 0 \in Routes /\ Period \in Nat
  BY StreamAssumption, FS_CardinalityType, FS_EmptySet DEF Period
<1>2. RingCap \in Nat /\ PendingCap \in Nat /\ GroupCap \in Nat
  BY StreamAssumption, EvidenceAssumption
<1>3. "idle" \in DOMAIN Following
  BY DEF Following
<1>4. GroupSound(group)
  BY EmptyGroupSound DEF Init
<1>5. <<>> \in Seq(Priors) /\ <<>> \in Seq(Hypotheses) /\ Len(<<>>) = 0
  OBVIOUS
<1>6. TypeOK
  <2>1. group \in GroupTypes
    BY <1>4 DEF GroupSound
  <2>2. cursor \in Routes /\ failures \in 0 .. 1 /\ age \in 0 .. Period
    BY <1>1 DEF Init
  <2>3. chains \in Nat /\ banked \in BOOLEAN /\ tried \in SUBSET Nat
    BY DEF Init
  <2> QED
    BY <1>3, <1>5, <2>1, <2>2, <2>3 DEF Init, TypeOK
<1>7. MemoryBounded
  BY <1>2, <1>4, <1>5 DEF Init, MemoryBounded, GroupSound
<1>8. Unspent /\ Replayable /\ OncePerScale /\ AnswersConfirmed
  BY DEF Init, Unspent, Replayable, OncePerScale, AnswersConfirmed
<1> QED
  BY <1>4, <1>6, <1>7, <1>8 DEF IInv

\* A frame is taken up with nothing spent.
LEMMA SupplySound ==
  ASSUME IInv, NEW f \in Frames, Supply(f)
  PROVE  IInv'
<1>1. Period \in Nat
  BY StreamAssumption DEF Period
<1>2. {"seed", "fresh"} \subseteq DOMAIN Following
  BY DEF Following
<1>3. age' \in 0 .. Period
  BY <1>1 DEF IInv, TypeOK, Supply
<1>4. TypeOK'
  BY <1>2, <1>3 DEF IInv, TypeOK, Supply, search, route
<1>5. MemoryBounded' /\ OncePerScale' /\ GroupSound(group)'
  BY DEF IInv, MemoryBounded, OncePerScale, GroupSound, Distinct, Supply, search, route
<1>6. Unspent' /\ AnswersConfirmed'
  BY DEF IInv, Unspent, AnswersConfirmed, Supply
<1>7. Replayable'
  BY DEF Replayable, Supply, search, route
<1> QED
  BY <1>4, <1>5, <1>6, <1>7 DEF IInv

\* A reset stream remembers nothing.
LEMMA ResetSound ==
  ASSUME IInv, Reset
  PROVE  IInv'
<1>1. 0 \in Routes /\ Period \in Nat
  BY StreamAssumption, FS_CardinalityType, FS_EmptySet DEF Period
<1>2. RingCap \in Nat /\ PendingCap \in Nat /\ GroupCap \in Nat
  BY StreamAssumption, EvidenceAssumption
<1>3. GroupSound(group')
  BY EmptyGroupSound DEF Reset
<1>4. GroupSound(group)'
  BY <1>3 DEF GroupSound, Distinct
<1>5. <<>> \in Seq(Priors) /\ <<>> \in Seq(Hypotheses) /\ Len(<<>>) = 0
  OBVIOUS
<1>6. TypeOK'
  <2>1. group' \in GroupTypes
    BY <1>3 DEF GroupSound
  <2>2. cursor' \in Routes /\ failures' \in 0 .. 1 /\ age' \in 0 .. Period
    BY <1>1 DEF Reset
  <2>3. chains' \in Nat /\ banked' \in BOOLEAN /\ tried' \in SUBSET Nat
    BY DEF Reset
  <2>4. stage' \in DOMAIN Following /\ obs' \in Observations \cup {NoObs}
    BY DEF IInv, TypeOK, Reset
  <2> QED
    BY <1>5, <2>1, <2>2, <2>3, <2>4 DEF Reset, TypeOK
<1>7. MemoryBounded'
  BY <1>2, <1>3, <1>5 DEF Reset, MemoryBounded, GroupSound
<1>8. Unspent' /\ Replayable' /\ OncePerScale' /\ AnswersConfirmed'
  BY DEF IInv, Reset, Unspent, Replayable, OncePerScale, AnswersConfirmed
<1> QED
  BY <1>4, <1>6, <1>7, <1>8 DEF IInv

\* A frame goes on, with or without an observation, and touches no group, ring
\* or route; the callers say what it did to the queue.
LEMMA GoingOnSound ==
  ASSUME IInv, obs = NoObs, stage # "idle",
         \/ obs' \in Observations /\ stage' = stage
         \/ obs' = NoObs /\ stage' = AfterMiss(chains),
         tried' \in SUBSET Nat, pending' \in Seq(Hypotheses), Len(pending') <= PendingCap,
         age' \in 0 .. Period,
         UNCHANGED <<frame, chains, banked, out, ring, group, route>>
  PROVE  IInv'
<1>1. chains = 0 /\ stage \in DOMAIN Following
  BY DEF IInv, Unspent, TypeOK
<1>2. /\ stage' \in DOMAIN Following
      /\ stage' \in {"seed", "rescan"} => stage \in {"seed", "rescan"}
  BY <1>1, AfterMissTypes
<1>3. TypeOK'
  <2>1. obs' \in Observations \cup {NoObs}
    OBVIOUS
  <2> QED
    BY <1>2, <2>1 DEF IInv, TypeOK, route
<1>4. MemoryBounded' /\ OncePerScale' /\ GroupSound(group)' /\ AnswersConfirmed'
  BY DEF IInv, MemoryBounded, OncePerScale, GroupSound, Distinct, AnswersConfirmed
<1>5. Unspent'
  BY <1>1 DEF Unspent
<1>6. Replayable'
  BY <1>2 DEF IInv, Replayable
<1> QED
  BY <1>3, <1>4, <1>5, <1>6 DEF IInv

\* An observation of a sight that admits some route.
LEMMA ObservationTypes ==
  ASSUME cursor \in Routes, NEW s \in Sights, s.plausible # {}, NEW side \in Nat,
         NEW native \in BOOLEAN
  PROVE  Observation(s, Turn(FirstTurn(s)), side, native) \in Observations
BY FirstTurnIsRoute DEF Observation, Observations

\* A seeded replay.
LEMMA SeedSound ==
  ASSUME IInv, Seed
  PROVE  IInv'
<1> DEFINE p == Head(ring)
           s == CanvasSight(frame, Native(p.side))
<1>1. p \in Priors /\ p.side \in Nat
  <2>1. ring \in Seq(Priors) /\ ring # <<>>
    BY DEF IInv, TypeOK, Replayable, Seed
  <2>2. p \in Priors
    BY <2>1
  <2> QED
    BY <2>2 DEF Priors
<1>2. s \in Sights
  <2>1. Native(p.side) \in Hypotheses
    BY <1>1 DEF Native, Hypotheses
  <2> QED
    BY <2>1, CanvasTypes DEF IInv, TypeOK
<1> HIDE DEF p, s
<1>3. \/ obs' \in Observations /\ stage' = stage
      \/ obs' = NoObs /\ stage' = AfterMiss(chains)
  <2>1. CASE SeedObserved(p, s)
    <3>1. obs' = Observation(s, Turn(FirstTurn(s)), p.side, TRUE) /\ stage' = stage
      BY <2>1 DEF Seed, p, s
    <3>2. s.plausible # {}
      BY <2>1 DEF SeedObserved
    <3> QED
      BY <1>1, <1>2, <3>1, <3>2, ObservationTypes DEF IInv, TypeOK
  <2>2. CASE ~ SeedObserved(p, s)
    BY <2>2 DEF Seed, p, s
  <2> QED
    BY <2>1, <2>2
<1>4. /\ tried' \in SUBSET Nat /\ pending' \in Seq(Hypotheses) /\ Len(pending') <= PendingCap
      /\ age' \in 0 .. Period
      /\ UNCHANGED <<frame, chains, banked, out, ring, group, route>>
  BY DEF IInv, TypeOK, MemoryBounded, Seed, search
<1> QED
  BY <1>3, <1>4, GoingOnSound DEF Seed

\* A scan of one canvas, whatever hypothesis it is.
LEMMA ScanGoesOn ==
  ASSUME IInv, obs = NoObs, NEW h \in Hypotheses, Scan(h)
  PROVE  /\ \/ obs' \in Observations /\ stage' = stage
            \/ obs' = NoObs /\ stage' = AfterMiss(chains)
         /\ tried' \in SUBSET Nat
         /\ UNCHANGED <<frame, chains, banked, out, ring, group, route>>
<1> DEFINE side == CanvasSide(frame, h)
           s    == CanvasSight(frame, h)
<1>1. side \in Nat /\ s \in Sights
  BY CanvasTypes DEF IInv, TypeOK
<1> HIDE DEF side, s
<1>2. \/ obs' \in Observations /\ stage' = stage
      \/ obs' = NoObs /\ stage' = AfterMiss(chains)
  <2>1. CASE side \notin tried /\ s.plausible # {}
    <3>1. obs' = Observation(s, Turn(FirstTurn(s)), side, ~h.enlarged) /\ stage' = stage
      BY <2>1 DEF Scan, side, s
    <3>2. (~h.enlarged) \in BOOLEAN
      OBVIOUS
    <3> QED
      BY <1>1, <2>1, <3>1, <3>2, ObservationTypes DEF IInv, TypeOK
  <2>2. CASE ~ (side \notin tried /\ s.plausible # {})
    BY <2>2 DEF Scan, side, s
  <2> QED
    BY <2>1, <2>2
<1>3. tried' \in SUBSET Nat
  BY <1>1 DEF IInv, TypeOK, Scan, side
<1> QED
  BY <1>2, <1>3 DEF Scan

\* The replay slot's scan and the frame's own.
LEMMA RescanSound ==
  ASSUME IInv, Rescan
  PROVE  IInv'
<1>1. Head(ring) \in Priors
  BY DEF IInv, TypeOK, Replayable, Rescan
<1>2. Native(Head(ring).side) \in Hypotheses
  BY <1>1 DEF Native, Hypotheses, Priors
<1>3. Scan(Native(Head(ring).side)) /\ obs = NoObs /\ stage # "idle"
      /\ pending' = pending /\ age' = age
  BY DEF Rescan
<1>4. /\ \/ obs' \in Observations /\ stage' = stage
         \/ obs' = NoObs /\ stage' = AfterMiss(chains)
      /\ tried' \in SUBSET Nat
      /\ UNCHANGED <<frame, chains, banked, out, ring, group, route>>
  BY <1>2, <1>3, ScanGoesOn
<1>5. pending' \in Seq(Hypotheses) /\ Len(pending') <= PendingCap /\ age' \in 0 .. Period
  BY <1>3 DEF IInv, TypeOK, MemoryBounded
<1> QED
  BY <1>3, <1>4, <1>5, GoingOnSound

\* The scan of the coarsest level.
LEMMA FrameScanSound ==
  ASSUME IInv, FrameScan
  PROVE  IInv'
<1>1. Native(Head(frame.sides)) \in Hypotheses
  <2>1. frame.sides \in Seq(Nat \ {0}) /\ frame.sides # <<>>
    BY FrameTypes DEF IInv, TypeOK
  <2>2. Head(frame.sides) \in Nat \ {0}
    BY <2>1
  <2> QED
    BY <2>2 DEF Native, Hypotheses
<1>2. Scan(Native(Head(frame.sides))) /\ obs = NoObs /\ stage # "idle"
      /\ pending' = pending /\ age' = age
  BY DEF FrameScan
<1>3. /\ \/ obs' \in Observations /\ stage' = stage
         \/ obs' = NoObs /\ stage' = AfterMiss(chains)
      /\ tried' \in SUBSET Nat
      /\ UNCHANGED <<frame, chains, banked, out, ring, group, route>>
  BY <1>1, <1>2, ScanGoesOn
<1>4. pending' \in Seq(Hypotheses) /\ Len(pending') <= PendingCap /\ age' \in 0 .. Period
  BY <1>2 DEF IInv, TypeOK, MemoryBounded
<1> QED
  BY <1>2, <1>3, <1>4, GoingOnSound

\* The scan of what was queued, and its leaving the queue.
LEMMA QueuedScanSound ==
  ASSUME IInv, QueuedScan
  PROVE  IInv'
<1> DEFINE queue == IF pending = <<>> THEN Refill(frame) ELSE pending
<1>1. queue \in Seq(Hypotheses) /\ Len(queue) <= PendingCap /\ queue # <<>>
  <2>1. Refill(frame) \in Seq(Hypotheses) /\ Len(Refill(frame)) <= PendingCap
    BY RefillTypes DEF IInv, TypeOK
  <2> QED
    BY <2>1 DEF IInv, TypeOK, MemoryBounded, QueuedScan
<1>2. /\ Scan(Head(queue)) /\ obs = NoObs /\ stage # "idle"
      /\ pending' = Tail(queue)
      /\ age' = IF Head(queue).enlarged THEN 0 ELSE age
  BY DEF QueuedScan
<1> HIDE DEF queue
<1>3. /\ \/ obs' \in Observations /\ stage' = stage
         \/ obs' = NoObs /\ stage' = AfterMiss(chains)
      /\ tried' \in SUBSET Nat
      /\ UNCHANGED <<frame, chains, banked, out, ring, group, route>>
  <2>1. Head(queue) \in Hypotheses
    BY <1>1
  <2> QED
    BY <1>2, <2>1, ScanGoesOn
<1>4. pending' \in Seq(Hypotheses) /\ Len(pending') <= PendingCap
  <2>1. PendingCap \in Nat
    BY StreamAssumption
  <2> QED
    BY <1>1, <1>2, <2>1
<1>5. age' \in 0 .. Period
  <2>1. Period \in Nat
    BY StreamAssumption DEF Period
  <2> QED
    BY <1>2, <2>1 DEF IInv, TypeOK
<1> QED
  BY <1>2, <1>3, <1>4, <1>5, GoingOnSound

\* Nothing queued ends the frame.
LEMMA NothingQueuedSound ==
  ASSUME IInv, NothingQueued
  PROVE  IInv'
<1>1. stage' = "idle" /\ "idle" \in DOMAIN Following
  BY DEF NothingQueued, Following
<1>2. TypeOK'
  BY <1>1 DEF IInv, TypeOK, NothingQueued, search, route
<1>3. MemoryBounded' /\ OncePerScale' /\ GroupSound(group)'
  BY DEF IInv, MemoryBounded, OncePerScale, GroupSound, Distinct, NothingQueued, search
<1>4. Unspent' /\ Replayable' /\ AnswersConfirmed'
  BY <1>1 DEF IInv, Unspent, Replayable, AnswersConfirmed, NothingQueued
<1> QED
  BY <1>2, <1>3, <1>4 DEF IInv

-----------------------------------------------------------------------------
(* The end of an observation. *)

\* What the evidence group makes of an observation.
LEMMA OfferSound ==
  ASSUME IInv, obs # NoObs
  PROVE  /\ GroupSound(Offer.group)
         /\ Offer.admitted => Offer.group.snaps # <<>>
<1>1. obs.sight \in Sights /\ GroupSound(group)
  BY DEF IInv, TypeOK, Observations
<1>2. CASE Offered
  <2>1. Offer = Admit(group, obs.sight)
    BY <1>2 DEF Offer
  <2> QED
    BY <1>1, <2>1, AdmitSound
<1>3. CASE ~Offered
  <2>1. Offer = Admission(group, FALSE, FALSE)
    BY <1>3 DEF Offer
  <2> QED
    BY <1>1, <2>1 DEF Admission
<1> QED
  BY <1>2, <1>3

\* Every way an observation ends, with a sound group and at most one correction.
LEMMA SettleSound ==
  ASSUME IInv, obs # NoObs, NEW code \in Codes \cup {NoCode}, NEW g, GroupSound(g),
         NEW spent \in {0, 1}, Settle(code, g, spent),
         code # NoCode => code = frame.code \/ code = g.confirmed
  PROVE  IInv'
<1>1. stage # "idle" /\ chains = 0 /\ stage \in DOMAIN Following
  BY DEF IInv, Unspent, TypeOK
<1>2. obs \in Observations /\ obs.route \in Routes
  BY DEF IInv, TypeOK, Observations
<1>3. /\ group' = g /\ chains' = spent /\ banked' = (banked \/ Offered) /\ out' = code
      /\ obs' = NoObs /\ UNCHANGED <<frame, tried, pending, age>>
  BY <1>1 DEF Settle
<1>4. GroupSound(group)'
  <2>1. GroupSound(group')
    BY <1>3
  <2> QED
    BY <2>1 DEF GroupSound, Distinct
<1>5. /\ stage' \in DOMAIN Following
      /\ stage' \in {"seed", "rescan"} => stage = "seed" /\ code = NoCode
      /\ stage' # "idle" => spent = 0
  <2>1. CASE code # NoCode
    <3>1. stage' = "idle" /\ "idle" \in DOMAIN Following
      BY <2>1 DEF Settle, Following
    <3> QED
      BY <3>1
  <2>2. CASE code = NoCode
    <3>1. stage' = AfterMiss(spent) /\ spent \in Nat
      BY <1>1, <2>2 DEF Settle
    <3> QED
      BY <1>1, <2>2, <3>1, AfterMissTypes
  <2> QED
    BY <2>1, <2>2
<1>6. cursor' \in Routes /\ failures' \in 0 .. 1
  <2>1. CASE code # NoCode
    BY <1>2, <2>1 DEF Settle
  <2>2. CASE code = NoCode /\ spent > 0
    <3>1. FailRoute(g)
      BY <2>2 DEF Settle
    <3>2. (obs.route + 1) % Cardinality(Routes) \in Routes
      BY <1>2, NextRoute
    <3> QED
      BY <3>1, <3>2 DEF FailRoute, IInv, TypeOK
  <2>3. CASE code = NoCode /\ ~ (spent > 0)
    BY <2>3 DEF Settle, route, IInv, TypeOK
  <2> QED
    BY <2>1, <2>2, <2>3
<1>7. /\ ring' \in Seq(Priors) /\ Len(ring') <= RingCap /\ OncePerScale'
      /\ code = NoCode => ring' = ring
  <2>1. ring' \in {ring, Remember} /\ (code = NoCode => ring' = ring)
    BY DEF Settle
  <2>2. CASE ring' = ring
    BY <2>1, <2>2 DEF IInv, TypeOK, MemoryBounded, OncePerScale
  <2>3. CASE ring' = Remember
    <3>1. /\ Remember \in Seq(Priors) /\ Len(Remember) <= RingCap
          /\ \A i, j \in DOMAIN Remember : i # j => Remember[i].side # Remember[j].side
      BY <1>2, RememberSound DEF IInv, TypeOK
    <3> QED
      BY <2>1, <2>3, <3>1 DEF OncePerScale
  <2> QED
    BY <2>1, <2>2, <2>3
<1>8. TypeOK'
  <2>1. group' \in GroupTypes /\ chains' \in Nat /\ banked' \in BOOLEAN
    BY <1>3 DEF GroupSound, IInv, TypeOK
  <2>2. /\ frame' \in Frames \cup {NoFrame} /\ tried' \in SUBSET Nat
        /\ pending' \in Seq(Hypotheses) /\ age' \in 0 .. Period
    BY <1>3 DEF IInv, TypeOK
  <2> QED
    BY <1>3, <1>5, <1>6, <1>7, <2>1, <2>2 DEF TypeOK
<1>9. MemoryBounded'
  BY <1>3, <1>7 DEF IInv, MemoryBounded, GroupSound
<1>10. Unspent'
  BY <1>3, <1>5 DEF Unspent
<1>11. Replayable'
  BY <1>5, <1>7 DEF IInv, Replayable
<1>12. AnswersConfirmed'
  BY <1>3 DEF AnswersConfirmed
<1> QED
  BY <1>4, <1>7, <1>8, <1>9, <1>10, <1>11, <1>12 DEF IInv

\* What error correction returns is one of the codes, or none.
LEMMA CorrectedTypes ==
  ASSUME NEW ev
  PROVE  Corrected(ev) \in Codes \cup {NoCode}
BY DEF Corrected

\* A confirmed payload is reused without a correction.
LEMMA ReuseConfirmedSound ==
  ASSUME IInv, ReuseConfirmed
  PROVE  IInv'
<1>1. GroupSound(Offer.group)
  BY OfferSound DEF ReuseConfirmed
<1>2. Offer.group.confirmed \in Codes \cup {NoCode}
  BY <1>1 DEF GroupSound, GroupTypes
<1> QED
  BY <1>1, <1>2, SettleSound DEF ReuseConfirmed

\* Evidence withheld leaves the frame going on.
LEMMA WithholdSound ==
  ASSUME IInv, Withhold
  PROVE  IInv'
<1>1. GroupSound(Offer.group)
  BY OfferSound DEF Withhold
<1> QED
  BY <1>1, SettleSound DEF Withhold

\* The aggregate's correction, recorded before it runs.
LEMMA CorrectAggregateSound ==
  ASSUME IInv, CorrectAggregate
  PROVE  IInv'
<1> DEFINE g == RecordAttempt(Offer.group)
           c == Corrected(Signed(g.snaps))
<1>1. GroupSound(Offer.group) /\ Offer.group.snaps # <<>>
  <2>1. GroupSound(Offer.group)
    BY OfferSound DEF CorrectAggregate
  <2>2. Len(Offer.group.snaps) >= 2
    BY DEF CorrectAggregate, Due, CorrectionDue
  <2> QED
    BY <2>1, <2>2 DEF GroupSound, GroupTypes
<1>2. GroupSound(g) /\ g.snaps # <<>>
  BY <1>1, RecordSound
<1>3. c \in Codes \cup {NoCode}
  BY CorrectedTypes
<1>4. \/ Settle(NoCode, g, 1)
      \/ Settle(NoCode, [g EXCEPT !.disabled = TRUE], 1)
      \/ c # NoCode /\ Settle(c, Confirm(g, c), 1)
  BY DEF CorrectAggregate
<1> HIDE DEF g, c
<1>5. CASE Settle(NoCode, g, 1)
  BY <1>2, <1>5, SettleSound DEF CorrectAggregate
<1>6. CASE Settle(NoCode, [g EXCEPT !.disabled = TRUE], 1)
  <2>1. GroupSound([g EXCEPT !.disabled = TRUE])
    BY <1>2, DisabledSound
  <2> QED
    BY <1>6, <2>1, SettleSound DEF CorrectAggregate
<1>7. CASE c # NoCode /\ Settle(c, Confirm(g, c), 1)
  <2>1. c \in Codes /\ GroupSound(Confirm(g, c))
    BY <1>2, <1>3, <1>7, ConfirmSound
  <2>2. Confirm(g, c).confirmed = c
    BY <1>2 DEF Confirm, GroupSound, GroupTypes
  <2> QED
    BY <1>7, <2>1, <2>2, SettleSound DEF CorrectAggregate
<1> QED
  BY <1>4, <1>5, <1>6, <1>7

\* The frame's own modules decode to its code or to none.
LEMMA OwnCodeTypes ==
  ASSUME IInv
  PROVE  OwnCode \in Codes \cup {NoCode} /\ (OwnCode # NoCode => OwnCode = frame.code)
BY FrameTypes DEF OwnCode, IInv, TypeOK

\* The current observation corrected by itself.
LEMMA CorrectAloneSound ==
  ASSUME IInv, CorrectAlone
  PROVE  IInv'
<1> DEFINE g == IF OwnCode = NoCode THEN Offer.group
                ELSE IF OwnCode \in DockedCodes THEN EmptyGroup
                ELSE IF obs.route \in IsoRoutes THEN Restart(group, obs.sight, OwnCode)
                ELSE EmptyGroup
<1>1. Settle(OwnCode, g, 1) /\ obs # NoObs
  BY DEF CorrectAlone
<1>2. /\ OwnCode \in Codes \cup {NoCode} /\ obs.sight \in Sights
      /\ OwnCode # NoCode => OwnCode = frame.code
  BY <1>1, OwnCodeTypes DEF IInv, TypeOK, Observations
<1>3. OwnCode # NoCode => GroupSound(Restart(group, obs.sight, OwnCode))
  BY <1>2, RestartSound
<1>4. GroupSound(Offer.group) /\ GroupSound(EmptyGroup)
  BY <1>1, OfferSound, EmptyGroupSound
<1>5. GroupSound(g)
  BY <1>3, <1>4
<1> HIDE DEF g
<1> QED
  BY <1>1, <1>2, <1>5, SettleSound

\* The current observation corrected under a historical route.
LEMMA CorrectHistoricalSound ==
  ASSUME IInv, CorrectHistorical
  PROVE  IInv'
<1> DEFINE g == IF OwnCode = NoCode THEN group ELSE EmptyGroup
<1>1. Settle(OwnCode, g, 1) /\ obs # NoObs
  BY DEF CorrectHistorical
<1>2. /\ OwnCode \in Codes \cup {NoCode} /\ GroupSound(g)
      /\ OwnCode # NoCode => OwnCode = frame.code
  BY OwnCodeTypes, EmptyGroupSound DEF IInv
<1> HIDE DEF g
<1> QED
  BY <1>1, <1>2, SettleSound

-----------------------------------------------------------------------------
(* The theorems. *)

\* Every step of a stream keeps the invariant.
LEMMA StepSound ==
  ASSUME IInv, [Next]_vars
  PROVE  IInv'
<1>1. CASE UNCHANGED vars
  <2>1. UNCHANGED <<frame, stage, obs, tried, chains, banked, out, ring, pending, group,
                    cursor, failures, age>>
    BY <1>1 DEF vars
  <2>2. TypeOK' /\ MemoryBounded' /\ Unspent'
    BY <2>1 DEF IInv, TypeOK, MemoryBounded, Unspent
  <2>3. Replayable' /\ OncePerScale' /\ GroupSound(group)' /\ AnswersConfirmed'
    BY <2>1 DEF IInv, Replayable, OncePerScale, GroupSound, Distinct, AnswersConfirmed
  <2> QED
    BY <2>2, <2>3 DEF IInv
<1>2. CASE Next
  BY <1>2, SupplySound, ResetSound, SeedSound, RescanSound, FrameScanSound, QueuedScanSound,
     NothingQueuedSound, ReuseConfirmedSound, CorrectAggregateSound, WithholdSound,
     CorrectAloneSound, CorrectHistoricalSound DEF Next
<1> QED
  BY <1>1, <1>2

\* The invariant holds in every state of every stream.
LEMMA InvariantHolds ==
  Spec => []IInv
<1>1. Init => IInv
  BY InitSound
<1>2. IInv /\ [Next]_vars => IInv'
  BY StepSound
<1> QED
  BY <1>1, <1>2, PTL DEF Spec

\* The variables have their types, and what a stream keeps between frames is
\* bounded, however many frames it is given: the ring by streamRingCap, the
\* queue by streamPendingCap, the evidence window by evidenceGroupCap.
THEOREM MemoryCorrect ==
  Spec => [](TypeOK /\ MemoryBounded /\ OncePerScale)
<1>1. IInv => TypeOK /\ MemoryBounded /\ OncePerScale
  BY DEF IInv
<1> QED
  BY <1>1, InvariantHolds, PTL

\* A frame pays for at most one payload correction, on whichever of its four
\* attempts it comes (stream.go:436-487, finishObservation).
THEOREM OneChainCorrect ==
  Spec => []OneChainPerFrame
<1>1. IInv => OneChainPerFrame
  BY DEF IInv, Unspent, OneChainPerFrame
<1> QED
  BY <1>1, InvariantHolds, PTL

\* A frame is answered with what its own modules decode to, or with the payload
\* its group stands confirmed for when the frame ends (finishObservation).
THEOREM AnswersCorrect ==
  Spec => []AnswersConfirmed
<1>1. IInv => AnswersConfirmed
  BY DEF IInv
<1> QED
  BY <1>1, InvariantHolds, PTL

\* The window never holds an observation twice: neither a repeated frame nor a
\* second scan of one frame weighs again (evidencegroup.go:136-152, 393).
THEOREM CountedOnceCorrect ==
  Spec => []EvidenceCountedOnce
<1>1. IInv => EvidenceCountedOnce
  BY DEF IInv, GroupSound, Distinct, EvidenceCountedOnce
<1> QED
  BY <1>1, InvariantHolds, PTL

-----------------------------------------------------------------------------
(***************************************************************************)
(* The concurrent region search.                                           *)
(***************************************************************************)
Stages == {"none", "located", "decoded"}

\* The types of what the proofs read.
SearchTypes ==
  /\ outcome \in [Slots -> Stages]
  /\ outerQuit \in BOOLEAN
  /\ pc \in [Slots -> {"start", "acquire", "recheck", "run", "load", "cas", "end"}]
  /\ loaded \in [Slots -> Slots \cup {NoWinner}]
  /\ results \in [Slots -> Stages \cup {"unset"}]
  /\ winner \in Slots \cup {NoWinner}
  /\ next \in Slots \cup {Count + 1}
  /\ finding \in Slots \cup {NoFinding, PriorFinding}
  /\ verdict \in Slots \cup {Searching, Failed}

\* A result is stored once, by the route that leaves its body.
StoredOnce ==
  \A s \in Slots :
    /\ (results[s] = "unset") = (pc[s] \in {"start", "acquire", "recheck", "run"})
    /\ pc[s] \in {"load", "cas"} => results[s] = "decoded"

\* The slot the routes poll decoded.
WinnerDecoded == winner \in Slots => results[winner] = "decoded"

\* What a route may leave behind when it stops early.
Less(s) == {"none"} \cup (IF outcome[s] = "none" THEN {} ELSE {"located"})

\* A result falls short of its route's only behind a lower slot that decoded, or
\* after the caller quit.
FullOrCancelled ==
  \A s \in Slots : results[s] # "unset" =>
    \/ results[s] = outcome[s]
    \/ /\ results[s] \in Less(s)
       /\ outerQuit \/ \E t \in 1 .. (s - 1) : results[t] = "decoded"

\* What was joined before did not decode.
JoinedMissed ==
  verdict = Searching =>
    \A t \in 1 .. (next - 1) : results[t] \notin {"unset", "decoded"}

SearchInv == SearchTypes /\ StoredOnce /\ WinnerDecoded /\ FullOrCancelled /\ JoinedMissed

-----------------------------------------------------------------------------
LEMMA SearchTypesInit == SearchInit => SearchTypes
<1> SUFFICES ASSUME SearchInit PROVE SearchTypes
  OBVIOUS
<1> USE DEF SearchInit, Slots, Stages
<1>1. next \in Slots \cup {Count + 1} /\ winner \in Slots \cup {NoWinner}
  BY CountAssumption DEF NoWinner
<1>2. /\ outcome \in [Slots -> Stages] /\ outerQuit \in BOOLEAN
      /\ pc \in [Slots -> {"start", "acquire", "recheck", "run", "load", "cas", "end"}]
      /\ loaded \in [Slots -> Slots \cup {NoWinner}]
      /\ results \in [Slots -> Stages \cup {"unset"}]
  OBVIOUS
<1>3. finding \in Slots \cup {NoFinding, PriorFinding} /\ verdict \in Slots \cup {Searching, Failed}
  OBVIOUS
<1> QED
  BY <1>1, <1>2, <1>3 DEF SearchTypes

LEMMA SearchTypesNext == SearchTypes /\ [SearchNext]_searchVars => SearchTypes'
<1> SUFFICES ASSUME SearchTypes, [SearchNext]_searchVars PROVE SearchTypes'
  OBVIOUS
<1> USE CountAssumption DEF SearchTypes, Slots, Stages, NoWinner, Searching, Failed,
        NoFinding, PriorFinding
<1>1. ASSUME NEW s \in Slots, StartSlot(s) PROVE SearchTypes'
  BY <1>1 DEF StartSlot, Store, Goto
<1>2. ASSUME NEW s \in Slots, AcquireBody(s) PROVE SearchTypes'
  BY <1>2 DEF AcquireBody, Goto
<1>3. ASSUME NEW s \in Slots, RecheckQuit(s) PROVE SearchTypes'
  BY <1>3 DEF RecheckQuit, Store, Goto
<1>4. ASSUME NEW s \in Slots, RunBody(s) PROVE SearchTypes'
  BY <1>4 DEF RunBody, Store, Goto
<1>5. ASSUME NEW s \in Slots, CommitLoad(s) PROVE SearchTypes'
  BY <1>5 DEF CommitLoad, Goto
<1>6. ASSUME NEW s \in Slots, CommitSwap(s) PROVE SearchTypes'
  BY <1>6 DEF CommitSwap, Goto
<1>7. CASE JoinSlot
  BY <1>7 DEF JoinSlot
<1>8. CASE JoinedAll \/ CallerQuit \/ UNCHANGED searchVars
  BY <1>8, ZenonT(30) DEF JoinedAll, CallerQuit, searchVars
<1> QED
  BY <1>1, <1>2, <1>3, <1>4, <1>5, <1>6, <1>7, <1>8 DEF SearchNext, Slot, Terminated

\* What a step does to the results: it stores one that was unset, or none.
LEMMA ResultsGrow ==
  ASSUME SearchTypes, StoredOnce, [SearchNext]_searchVars
  PROVE  \/ UNCHANGED results
         \/ \E s \in Slots, r \in Stages :
              /\ results[s] = "unset"
              /\ results' = [results EXCEPT ![s] = r]
              /\ \/ r = outcome[s]
                 \/ r \in Less(s) /\ SlotQuit(s)
              /\ pc' = [pc EXCEPT ![s] = IF r = "decoded" THEN "load" ELSE "end"]
              /\ UNCHANGED <<outcome, outerQuit, winner, next, verdict>>
<1>1. ASSUME NEW s \in Slots, StartSlot(s) \/ RecheckQuit(s), results' # results
      PROVE  /\ results[s] = "unset" /\ SlotQuit(s)
             /\ results' = [results EXCEPT ![s] = "none"]
             /\ pc' = [pc EXCEPT ![s] = "end"]
             /\ UNCHANGED <<outcome, outerQuit, winner, next, verdict>>
  BY <1>1 DEF StartSlot, RecheckQuit, Store, Goto, StoredOnce
<1>2. ASSUME NEW s \in Slots, RunBody(s)
      PROVE  \E r \in Stages :
              /\ results[s] = "unset"
              /\ results' = [results EXCEPT ![s] = r]
              /\ \/ r = outcome[s]
                 \/ r \in Less(s) /\ SlotQuit(s)
              /\ pc' = [pc EXCEPT ![s] = IF r = "decoded" THEN "load" ELSE "end"]
              /\ UNCHANGED <<outcome, outerQuit, winner, next, verdict>>
  <2>1. results[s] = "unset" /\ outcome[s] \in Stages
    BY <1>2 DEF RunBody, StoredOnce, SearchTypes
  <2>2. PICK r \in Stages : /\ results' = [results EXCEPT ![s] = r]
                            /\ r = outcome[s] \/ (r \in Less(s) /\ SlotQuit(s))
    BY <1>2, <2>1 DEF RunBody, Store, Less, Stages
  <2>3. results'[s] = r
    BY <2>2 DEF SearchTypes
  <2> QED
    BY <1>2, <2>1, <2>2, <2>3 DEF RunBody, Goto
<1>3. ASSUME NEW s \in Slots, AcquireBody(s) \/ CommitLoad(s) \/ CommitSwap(s)
      PROVE  UNCHANGED results
  BY <1>3 DEF AcquireBody, CommitLoad, CommitSwap
<1>4. ASSUME JoinSlot \/ JoinedAll \/ CallerQuit \/ UNCHANGED searchVars
      PROVE  UNCHANGED results
  BY <1>4 DEF JoinSlot, JoinedAll, CallerQuit, searchVars
<1>5. \A s \in Slots : "none" \in Less(s) /\ "none" \in Stages
  BY DEF Less, Stages
<1>6. ASSUME NEW s \in Slots, StartSlot(s) \/ RecheckQuit(s), results' # results
      PROVE \E r \in Stages :
              /\ results[s] = "unset"
              /\ results' = [results EXCEPT ![s] = r]
              /\ \/ r = outcome[s]
                 \/ r \in Less(s) /\ SlotQuit(s)
              /\ pc' = [pc EXCEPT ![s] = IF r = "decoded" THEN "load" ELSE "end"]
              /\ UNCHANGED <<outcome, outerQuit, winner, next, verdict>>
  <2>1. "none" \in Stages /\ "none" \in Less(s)
    BY <1>5
  <2> QED
    BY <1>1, <1>6, <2>1
<1> QED
  BY <1>2, <1>3, <1>4, <1>6 DEF SearchNext, Slot, Terminated

LEMMA StoredNext == SearchTypes /\ StoredOnce /\ [SearchNext]_searchVars => StoredOnce'
<1> SUFFICES ASSUME SearchTypes, StoredOnce, [SearchNext]_searchVars PROVE StoredOnce'
  OBVIOUS
<1>1. CASE results' # results
  <2>1. PICK s \in Slots, r \in Stages :
          /\ results' = [results EXCEPT ![s] = r]
          /\ pc' = [pc EXCEPT ![s] = IF r = "decoded" THEN "load" ELSE "end"]
    BY <1>1, ResultsGrow
  <2> QED
    BY <2>1 DEF StoredOnce, SearchTypes, Stages
<1>2. CASE UNCHANGED results
  <2>1. ASSUME NEW s \in Slots, StartSlot(s) \/ RecheckQuit(s) \/ RunBody(s)
        PROVE StoredOnce'
    <3>1. results[s] = "unset"
      BY <2>1 DEF StartSlot, RecheckQuit, RunBody, StoredOnce
    <3>2. pc' = [pc EXCEPT ![s] = "acquire"] \/ pc' = [pc EXCEPT ![s] = "run"]
      <4>1. ASSUME NEW r, results' = [results EXCEPT ![s] = r] PROVE r = "unset"
        BY <1>2, <3>1, <4>1 DEF SearchTypes
      <4>2. outcome[s] # "unset"
        BY DEF SearchTypes, Stages
      <4> QED
        BY <2>1, <4>1, <4>2 DEF StartSlot, RecheckQuit, RunBody, Store, Goto
    <3> QED
      BY <1>2, <2>1, <3>1, <3>2 DEF StoredOnce, SearchTypes
  <2>2. ASSUME NEW s \in Slots, AcquireBody(s) PROVE StoredOnce'
    BY <2>2 DEF AcquireBody, Goto, StoredOnce, SearchTypes
  <2>3. ASSUME NEW s \in Slots, CommitLoad(s) PROVE StoredOnce'
    BY <2>3 DEF CommitLoad, Goto, StoredOnce, SearchTypes
  <2>4. ASSUME NEW s \in Slots, CommitSwap(s) PROVE StoredOnce'
    BY <2>4 DEF CommitSwap, Goto, StoredOnce, SearchTypes
  <2>5. CASE JoinSlot \/ JoinedAll \/ CallerQuit \/ UNCHANGED searchVars
    BY <2>5 DEF JoinSlot, JoinedAll, CallerQuit, searchVars, StoredOnce
  <2> QED
    BY <2>1, <2>2, <2>3, <2>4, <2>5 DEF SearchNext, Slot, Terminated
<1> QED
  BY <1>1, <1>2

LEMMA WinnerNext ==
  SearchTypes /\ StoredOnce /\ WinnerDecoded /\ [SearchNext]_searchVars => WinnerDecoded'
<1> SUFFICES ASSUME SearchTypes, StoredOnce, WinnerDecoded, [SearchNext]_searchVars
             PROVE  WinnerDecoded'
  OBVIOUS
<1>1. ASSUME NEW s \in Slots, CommitSwap(s) PROVE WinnerDecoded'
  BY <1>1 DEF CommitSwap, StoredOnce, WinnerDecoded
<1>2. CASE UNCHANGED winner
  <2> SUFFICES ASSUME winner \in Slots PROVE results'[winner] = "decoded"
    BY <1>2 DEF WinnerDecoded
  <2>1. results[winner] = "decoded"
    BY DEF WinnerDecoded
  <2> QED
    BY <2>1, ResultsGrow DEF SearchTypes
<1>3. ASSUME NEW s \in Slots, Slot(s), ~CommitSwap(s) PROVE UNCHANGED winner
  BY <1>3 DEF Slot, StartSlot, AcquireBody, RecheckQuit, RunBody, CommitLoad
<1>4. ASSUME JoinSlot \/ JoinedAll \/ CallerQuit \/ UNCHANGED searchVars
      PROVE  UNCHANGED winner
  BY <1>4 DEF JoinSlot, JoinedAll, CallerQuit, searchVars
<1> QED
  BY <1>1, <1>2, <1>3, <1>4 DEF SearchNext, Terminated

LEMMA FullNext ==
  /\ SearchTypes /\ StoredOnce /\ WinnerDecoded /\ FullOrCancelled /\ [SearchNext]_searchVars
  => FullOrCancelled'
<1> SUFFICES ASSUME SearchTypes, StoredOnce, WinnerDecoded, FullOrCancelled, [SearchNext]_searchVars,
                    NEW s \in Slots, results'[s] # "unset"
             PROVE  \/ results'[s] = outcome'[s]
                    \/ /\ results'[s] \in Less(s)'
                       /\ \/ outerQuit'
                          \/ \E t \in 1 .. (s - 1) : results'[t] = "decoded"
  BY DEF FullOrCancelled
<1>1. outcome' = outcome /\ Less(s)' = Less(s)
  BY DEF SearchNext, Slot, StartSlot, AcquireBody, RecheckQuit, RunBody, CommitLoad,
         CommitSwap, JoinSlot, JoinedAll, CallerQuit, Terminated, searchVars, Less
<1>2. outerQuit => outerQuit'
  BY DEF SearchNext, Slot, StartSlot, AcquireBody, RecheckQuit, RunBody, CommitLoad,
         CommitSwap, JoinSlot, JoinedAll, CallerQuit, Terminated, searchVars
<1>3. \A t \in Slots : results[t] # "unset" => results'[t] = results[t]
  BY ResultsGrow DEF SearchTypes
<1>4. 1 .. (s - 1) \subseteq Slots
  BY CountAssumption DEF Slots
<1>5. CASE results[s] # "unset"
  BY <1>1, <1>2, <1>3, <1>4, <1>5 DEF FullOrCancelled
<1>6. CASE results[s] = "unset"
  <2>1. PICK u \in Slots, r \in Stages :
          /\ results' = [results EXCEPT ![u] = r]
          /\ r = outcome[u] \/ (r \in Less(u) /\ SlotQuit(u))
    BY <1>6, ResultsGrow
  <2>2. u = s /\ results'[s] = r
    BY <1>6, <2>1 DEF SearchTypes
  <2>3. CASE r = outcome[s]
    BY <1>1, <2>2, <2>3
  <2>4. CASE r \in Less(s) /\ outerQuit
    BY <1>1, <1>2, <2>2, <2>4
  <2>5. CASE r \in Less(s) /\ winner < s
    <3>1. winner \in 1 .. (s - 1) /\ winner \in Slots
      BY <2>5, CountAssumption DEF SearchTypes, Slots, NoWinner
    <3>2. results'[winner] = "decoded"
      BY <1>3, <3>1 DEF WinnerDecoded
    <3> QED
      BY <1>1, <2>2, <2>5, <3>1, <3>2
  <2> QED
    BY <2>1, <2>2, <2>3, <2>4, <2>5 DEF SlotQuit
<1> QED
  BY <1>5, <1>6

LEMMA JoinedNext ==
  SearchTypes /\ StoredOnce /\ JoinedMissed /\ [SearchNext]_searchVars => JoinedMissed'
<1> SUFFICES ASSUME SearchTypes, StoredOnce, JoinedMissed, [SearchNext]_searchVars,
                    verdict' = Searching, NEW t \in 1 .. (next' - 1)
             PROVE  results'[t] \notin {"unset", "decoded"}
  BY DEF JoinedMissed
<1> USE CountAssumption DEF Slots
<1>1. \A s \in Slots : results[s] # "unset" => results'[s] = results[s]
  BY ResultsGrow DEF SearchTypes
<1>2. CASE JoinSlot
  <2>1. next \in Slots /\ verdict = Searching /\ results' = results
    BY <1>2 DEF JoinSlot
  <2>2. results[next] # "unset"
    BY <1>2 DEF JoinSlot, StoredOnce
  <2>3. results[next] # "decoded" /\ next' = next + 1
    BY <1>2, <2>1 DEF JoinSlot, Searching
  <2>4. t \in 1 .. (next - 1) \/ t = next
    BY <2>1, <2>3
  <2> QED
    BY <2>1, <2>2, <2>3, <2>4 DEF JoinedMissed
<1>3. CASE UNCHANGED <<next, verdict>>
  <2>1. t \in Slots /\ t \in 1 .. (next - 1)
    BY <1>3 DEF SearchTypes
  <2> QED
    BY <1>1, <1>3, <2>1 DEF JoinedMissed
<1>4. ~JoinedAll
  BY DEF JoinedAll, Searching, Failed
<1> QED
  BY <1>2, <1>3, <1>4
  DEF SearchNext, Slot, StartSlot, AcquireBody, RecheckQuit, RunBody, CommitLoad,
      CommitSwap, CallerQuit, Terminated, searchVars

\* The inductive invariant of the search.
LEMMA SearchInvariant == SearchSpec => []SearchInv
<1>1. SearchInit => SearchInv
  <2> SUFFICES ASSUME SearchInit PROVE SearchInv
    OBVIOUS
  <2>1. SearchTypes
    BY SearchTypesInit
  <2>2. StoredOnce /\ FullOrCancelled
    BY DEF SearchInit, StoredOnce, FullOrCancelled
  <2>3. WinnerDecoded
    BY CountAssumption DEF SearchInit, WinnerDecoded, NoWinner, Slots
  <2>4. JoinedMissed
    BY DEF SearchInit, JoinedMissed
  <2> QED
    BY <2>1, <2>2, <2>3, <2>4 DEF SearchInv
<1>2. SearchInv /\ [SearchNext]_searchVars => SearchInv'
  BY SearchTypesNext, StoredNext, WinnerNext, FullNext, JoinedNext DEF SearchInv
<1> QED
  BY <1>1, <1>2, PTL DEF SearchSpec

-----------------------------------------------------------------------------
\* Each step of the search is a step of the sequential ladder or leaves what the
\* ladder sees alone.
LEMMA StepIsLadderStep == SearchInv /\ [SearchNext]_searchVars => [Ladder!Next]_(Ladder!vars)
<1> SUFFICES ASSUME SearchInv, [SearchNext]_searchVars PROVE [Ladder!Next]_(Ladder!vars)
  OBVIOUS
<1> USE DEF SearchInv
<1>1. CASE JoinSlot
  <2>1. /\ verdict = Searching /\ next \in Slots /\ pc[next] = "end"
        /\ UNCHANGED <<outcome, outerQuit, results>>
    BY <1>1 DEF JoinSlot
  <2>2. next <= Count
    BY <2>1, CountAssumption DEF Slots
  <2>3. results[next] # "unset"
    BY <2>1 DEF StoredOnce
  <2>4. ~\E t \in 1 .. (next - 1) : results[t] = "decoded"
    BY <2>1 DEF JoinedMissed
  <2>5. results[next] \in Ladder!Results(next)
    <3>1. results[next] = outcome[next] \/ (results[next] \in Less(next) /\ outerQuit)
      BY <2>1, <2>3, <2>4 DEF FullOrCancelled
    <3> QED
      BY <3>1 DEF Ladder!Results, Less
  <2>6. /\ finding' = IF Ladder!Replaces(results[next], finding) THEN next ELSE finding
        /\ IF results[next] = "decoded" THEN verdict' = next /\ UNCHANGED next
                                        ELSE next' = next + 1 /\ UNCHANGED verdict
    BY <1>1 DEF JoinSlot, Ladder!Replaces, NoFinding, Ladder!NoFinding
  <2>7. Ladder!TryNext
    BY <2>1, <2>2, <2>5, <2>6 DEF Ladder!TryNext, Searching, Ladder!Searching
  <2> QED
    BY <2>7 DEF Ladder!Next
<1>2. CASE JoinedAll
  BY <1>2 DEF JoinedAll, Ladder!Next, Ladder!GiveUp, Searching, Ladder!Searching,
     Failed, Ladder!Failed
<1>3. CASE CallerQuit
  BY <1>3 DEF CallerQuit, Ladder!Next, Ladder!CallerQuits
<1>4. ASSUME NEW s \in Slots, Slot(s) PROVE UNCHANGED Ladder!vars
  BY <1>4 DEF Slot, StartSlot, AcquireBody, RecheckQuit, RunBody, CommitLoad,
     CommitSwap, Ladder!vars
<1>5. CASE UNCHANGED searchVars
  BY <1>5 DEF searchVars, Ladder!vars
<1> QED
  BY <1>1, <1>2, <1>3, <1>4, <1>5 DEF SearchNext, Terminated

\* ARCHITECTURE.md:649-652, as far as it is about safety: for every number of
\* regions and of CPU bodies the concurrent search takes no step the sequential
\* ladder could not take; what a cancelled route failed to find is never missed.
THEOREM SearchIsSequential == SearchSpec => Ladder!Init /\ [][Ladder!Next]_(Ladder!vars)
<1>1. SearchInit => Ladder!Init
  BY DEF SearchInit, Ladder!Init, Slots, NoFinding, Ladder!NoFinding, PriorFinding, Ladder!Prior,
     Searching, Ladder!Searching
<1> QED
  BY <1>1, SearchInvariant, StepIsLadderStep, PTL DEF SearchSpec

-----------------------------------------------------------------------------
\* Whatever is cancelled when, a CPU body is held exactly while its route is
\* inside it: no route that lost takes a body with it.
THEOREM BodiesReturned == SearchSpec => []BodiesHeldByRunning
<1> DEFINE BInv == SearchTypes /\ BodiesHeldByRunning
<1>1. SearchInit => BInv
  BY SearchTypesInit DEF SearchInit, BodiesHeldByRunning
<1>2. BInv /\ [SearchNext]_searchVars => BInv'
  <2> SUFFICES ASSUME BInv, [SearchNext]_searchVars PROVE BodiesHeldByRunning'
    BY SearchTypesNext
  <2>1. ASSUME NEW s \in Slots, StartSlot(s) PROVE BodiesHeldByRunning'
    BY <2>1 DEF StartSlot, Goto, BodiesHeldByRunning, SearchTypes
  <2>2. ASSUME NEW s \in Slots, AcquireBody(s) PROVE BodiesHeldByRunning'
    BY <2>2 DEF AcquireBody, Goto, BodiesHeldByRunning, SearchTypes
  <2>3. ASSUME NEW s \in Slots, RecheckQuit(s) PROVE BodiesHeldByRunning'
    BY <2>3 DEF RecheckQuit, Goto, BodiesHeldByRunning, SearchTypes
  <2>4. ASSUME NEW s \in Slots, RunBody(s) PROVE BodiesHeldByRunning'
    BY <2>4 DEF RunBody, Goto, BodiesHeldByRunning, SearchTypes
  <2>5. ASSUME NEW s \in Slots, CommitLoad(s) PROVE BodiesHeldByRunning'
    BY <2>5 DEF CommitLoad, Goto, BodiesHeldByRunning, SearchTypes
  <2>6. ASSUME NEW s \in Slots, CommitSwap(s) PROVE BodiesHeldByRunning'
    BY <2>6 DEF CommitSwap, Goto, BodiesHeldByRunning, SearchTypes
  <2>7. CASE JoinSlot \/ JoinedAll \/ CallerQuit \/ UNCHANGED searchVars
    BY <2>7 DEF JoinSlot, JoinedAll, CallerQuit, searchVars, BodiesHeldByRunning
  <2> QED
    BY <2>1, <2>2, <2>3, <2>4, <2>5, <2>6, <2>7 DEF SearchNext, Slot, Terminated
<1> QED
  BY <1>1, <1>2, PTL DEF SearchSpec
=============================================================================
