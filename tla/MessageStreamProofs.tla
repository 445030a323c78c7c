------------------------ MODULE MessageStreamProofs ------------------------
(***************************************************************************)
(* Proofs about the message stream (MessageStream): whatever bits the ISO  *)
(* reader is given, what it accepts is well formed, and its transmission   *)
(* tells its receiver the data with the controls in their places.          *)
(*                                                                         *)
(* Both rest on one invariant of the output under construction (Sound):    *)
(* the transmission tells it so far (Tells), its controls stand at places  *)
(* of the data (Placed, Separated), taken out of the data they are what    *)
(* EncodeStructured checks (Stripped), that check passes so far and stands *)
(* where the reader stands (Judged), and a 15434 message is the only one   *)
(* of its kind (Bracketed).  Each operation of messageOutput keeps it.     *)
(*                                                                         *)
(* The receiver, the check of the controls and the flattening of texts are *)
(* folds of the community modules.  A fold is brought to what one more     *)
(* element does (ReceivedNext, CheckedNext, FlatNext): a table of it for   *)
(* every set of positions exists (StagesExist), so the one the module      *)
(* CHOOSEs is one, and all agree on prefixes (PrefixInduction).            *)
(***************************************************************************)
EXTENDS MessageStream, FiniteSetTheorems, SequenceTheorems, WellFoundedInduction, TLAPS

-----------------------------------------------------------------------------
(* Sequences: induction over their prefixes, stated for a set so that first- *)
(* order provers can use it, and the folds of the community modules.         *)

LEMMA PrefixInduction ==
  ASSUME NEW N \in Nat, NEW P, 0 \in P, \A n \in 0 .. N - 1 : n \in P => n + 1 \in P
  PROVE  \A n \in 0 .. N : n \in P
<1> DEFINE R == {p \in Nat \X Nat : p[1] < p[2]}
           T == {n \in 0 .. N : n \notin P}
<1>1. SUFFICES ASSUME T # {} PROVE FALSE
  OBVIOUS
<1>2. IsWellFoundedOn(R, Nat)
  BY NatLessThanWellFounded DEF OpToRel
<1>3. T \subseteq Nat
  OBVIOUS
<1> HIDE DEF R, T
<1>4. PICK m \in T : \A n \in T : ~ (<<n, m>> \in R)
  BY <1>1, <1>2, <1>3, WFMin
<1>5. m \in 0 .. N /\ m \notin P
  BY <1>4 DEF T
<1>6. m # 0 /\ m - 1 \in 0 .. N - 1
  BY <1>5
<1>7. \A n \in T : ~ (n < m)
  BY <1>3, <1>4 DEF R
<1> QED
  BY <1>5, <1>6, <1>7 DEF T

\* The last of a prefix, and what is before it.
LEMMA PrefixLast ==
  ASSUME NEW n \in Nat
  PROVE  /\ 1 .. n + 1 # {}
         /\ Max(1 .. n + 1) = n + 1
         /\ (1 .. n + 1) \ {n + 1} = 1 .. n
<1>1. n + 1 \in 1 .. n + 1 /\ \A k \in 1 .. n + 1 : n + 1 >= k
  OBVIOUS
<1>2. \A m \in 1 .. n + 1 : (\A k \in 1 .. n + 1 : m >= k) => m = n + 1
  OBVIOUS
<1> QED
  BY <1>1, <1>2 DEF Max

LEMMA PrefixSize ==
  ASSUME NEW n \in Nat
  PROVE  IsFiniteSet(1 .. n) /\ Cardinality(1 .. n) = n
<1>1. IsFiniteSet(1 .. n) /\ Cardinality(1 .. n) = IF 1 > n THEN 0 ELSE n - 1 + 1
  BY FS_Interval
<1> QED
  BY <1>1

\* A set of positions has a last one.
LEMMA LastOf ==
  ASSUME NEW n \in Nat, NEW u \in SUBSET (1 .. n), u # {}
  PROVE  Max(u) \in u
<1> DEFINE P == {k \in 0 .. n : (\E i \in u : i <= k) => \E m \in u : \A i \in u : i <= k => i <= m}
<1>1. 0 \in P
  OBVIOUS
<1>2. ASSUME NEW k \in 0 .. n - 1, k \in P PROVE k + 1 \in P
  <2>1. CASE k + 1 \in u
    <3>1. \A i \in u : i <= k + 1 => i <= k + 1
      OBVIOUS
    <3> QED
      BY <2>1, <3>1
  <2>2. CASE k + 1 \notin u
    <3>1. \A i \in u : i <= k + 1 <=> i <= k
      BY <2>2
    <3> QED
      BY <1>2, <3>1
  <2> QED
    BY <2>1, <2>2
<1> HIDE DEF P
<1>3. n \in P
  BY <1>1, <1>2, PrefixInduction
<1>4. \A i \in u : i <= n
  OBVIOUS
<1> USE <1>4
<1>5. PICK m \in u : \A i \in u : i <= n => i <= m
  BY <1>3 DEF P
<1>6. \A i \in u : m >= i
  BY <1>4, <1>5
<1> QED
  BY <1>6 DEF Max

\* A fold is the last of its stages, one for every set of positions.
Folding(S, Items, G) == G \in [S \X Items -> S]
Stages(S, G, b, s, F) ==
  /\ F \in [SUBSET DOMAIN s -> S]
  /\ \A u \in SUBSET DOMAIN s :
       F[u] = IF u = {} THEN b ELSE G[<<F[u \ {Max(u)}], s[Max(u)]>>]

LEMMA StagesExist ==
  ASSUME NEW S, NEW Items, NEW G, Folding(S, Items, G), NEW b \in S, NEW s \in Seq(Items)
  PROVE  \E F : Stages(S, G, b, s, F)
<1> USE DEF Folding
<1> DEFINE D == DOMAIN s
           Stage(F, u) == IF u = {} THEN b ELSE G[<<F[u \ {Max(u)}], s[Max(u)]>>]
           P == {n \in Nat : \E F \in [SUBSET D -> S] :
                   \A u \in SUBSET D : Cardinality(u) <= n => F[u] = Stage(F, u)}
<1>1. D = 1 .. Len(s) /\ Len(s) \in Nat /\ IsFiniteSet(D) /\ Cardinality(D) = Len(s)
  <2>1. D = 1 .. Len(s) /\ Len(s) \in Nat
    BY LenProperties
  <2>2. IsFiniteSet(1 .. Len(s)) /\ Cardinality(1 .. Len(s)) = Len(s)
    BY <2>1, PrefixSize
  <2> QED
    BY <2>1, <2>2
<1>2. \A u \in SUBSET D : IsFiniteSet(u) /\ Cardinality(u) \in 0 .. Len(s)
                          /\ (Cardinality(u) = 0 => u = {})
  BY <1>1, FS_Subset, FS_CardinalityType, FS_EmptySet
<1>3. \A u \in SUBSET D : u # {} => /\ Max(u) \in u /\ s[Max(u)] \in Items
                                    /\ Cardinality(u \ {Max(u)}) = Cardinality(u) - 1
  <2> TAKE u \in SUBSET D
  <2> HAVE u # {}
  <2>1. Max(u) \in u
    BY <1>1, LastOf
  <2>2. s[Max(u)] \in Items
    BY <2>1
  <2> QED
    BY <1>2, <2>1, <2>2, FS_RemoveElement
<1>4. 0 \in P
  <2>1. [u \in SUBSET D |-> b] \in [SUBSET D -> S]
    OBVIOUS
  <2>2. \A u \in SUBSET D : Cardinality(u) <= 0 => u = {}
    BY <1>2
  <2> HIDE DEF D
  <2> QED
    BY <2>1, <2>2
<1>5. ASSUME NEW n \in 0 .. Len(s) - 1, n \in P PROVE n + 1 \in P
  <2>1. PICK F \in [SUBSET D -> S] :
               \A u \in SUBSET D : Cardinality(u) <= n => F[u] = Stage(F, u)
    BY <1>5
  <2> DEFINE H == [u \in SUBSET D |-> Stage(F, u)]
  <2>2. \A u \in SUBSET D : Stage(F, u) \in S
    BY <1>3
  <2>3. H \in [SUBSET D -> S]
    BY <2>2
  <2>4. \A u \in SUBSET D : Cardinality(u) <= n => H[u] = F[u]
    BY <2>1
  <2>5. ASSUME NEW u \in SUBSET D, Cardinality(u) <= n + 1 PROVE H[u] = Stage(H, u)
    <3>1. CASE u = {}
      BY <3>1
    <3>2. CASE u # {}
      <4>1. Cardinality(u \ {Max(u)}) <= n
        <5>1. Cardinality(u) \in 0 .. Len(s) /\ Len(s) \in Nat
          BY <1>1, <1>2
        <5>2. Cardinality(u \ {Max(u)}) = Cardinality(u) - 1
          BY <1>3, <3>2
        <5> QED
          BY <2>5, <5>1, <5>2
      <4>2. H[u \ {Max(u)}] = F[u \ {Max(u)}]
        BY <2>4, <4>1
      <4> QED
        BY <3>2, <4>2
    <3> QED
      BY <3>1, <3>2
  <2>6. \A u \in SUBSET D : Cardinality(u) <= n + 1 => H[u] = Stage(H, u)
    BY <2>5
  <2> HIDE DEF H, D, Stage
  <2> QED
    BY <2>3, <2>6
<1> HIDE DEF P
<1>6. Len(s) \in P
  <2>1. \A n \in 0 .. Len(s) - 1 : n \in P => n + 1 \in P
    BY <1>5
  <2>2. Len(s) \in Nat
    BY <1>1
  <2>3. \A n \in 0 .. Len(s) : n \in P
    BY <1>4, <2>1, <2>2, PrefixInduction
  <2> QED
    BY <2>2, <2>3
<1>7. PICK F \in [SUBSET D -> S] :
             \A u \in SUBSET D : Cardinality(u) <= Len(s) => F[u] = Stage(F, u)
  BY <1>6 DEF P
<1> HIDE DEF Stage
<1>8. \A u \in SUBSET D : F[u] = Stage(F, u)
  BY <1>2, <1>7
<1> QED
  BY <1>8 DEF Stage, Stages

LEMMA ConcatAppend ==
  ASSUME NEW S, NEW s \in Seq(S), NEW t \in Seq(S), NEW x \in S
  PROVE  s \o Append(t, x) = Append(s \o t, x)
<1>1. t \o <<x>> = Append(t, x) /\ (s \o t) \o <<x>> = Append(s \o t, x)
  BY ConcatProperties, AppendIsConcat
<1>2. <<x>> \in Seq(S)
  OBVIOUS
<1>3. (s \o t) \o <<x>> = s \o (t \o <<x>>)
  BY <1>2, ConcatAssociative
<1> QED
  BY <1>1, <1>3

-----------------------------------------------------------------------------
(* What a receiver makes of a transmission, one character after the other.   *)

Receivers == [got : Seq(Int), wait : Int, eci : Int]
Ready == [got |-> <<>>, wait |-> 0, eci |-> 0]

ReceivedIn(s, F) ==
  F = [u \in SUBSET DOMAIN s |->
        IF u = {} THEN Ready ELSE Receive(F[u \ {Max(u)}], s[Max(u)])]

LEMMA ReceiveTypes ==
  /\ Ready \in Receivers
  /\ \A st \in Receivers, c \in Int : Receive(st, c) \in Receivers
<1>1. <<>> \in Seq(Int)
  OBVIOUS
<1>2. ASSUME NEW st \in Receivers, NEW c \in Int PROVE Receive(st, c) \in Receivers
  <2> DEFINE n == 10 * st.eci + (c - 48)
             w == IF st.wait = 7 THEN 5 ELSE st.wait - 1
  <2>1. st.got \in Seq(Int) /\ st.wait \in Int /\ st.eci \in Int
    BY DEF Receivers
  <2>2. n \in Int /\ w \in Int
    BY <2>1
  <2>3. \A g \in Seq(Int), v, e \in Int : [got |-> g, wait |-> v, eci |-> e] \in Receivers
    BY DEF Receivers
  <2>4. Receive(st, c) \in {[got |-> Append(st.got, c), wait |-> 0, eci |-> 0],
                           [got |-> st.got, wait |-> 7, eci |-> 0],
                           [got |-> Append(st.got, -1 - n), wait |-> 0, eci |-> 0],
                           [got |-> st.got, wait |-> w, eci |-> n]}
    BY DEF Receive
  <2> HIDE DEF n, w
  <2>5. Append(st.got, c) \in Seq(Int) /\ Append(st.got, -1 - n) \in Seq(Int)
    BY <2>1, <2>2
  <2>6. /\ [got |-> Append(st.got, c), wait |-> 0, eci |-> 0] \in Receivers
        /\ [got |-> st.got, wait |-> 7, eci |-> 0] \in Receivers
        /\ [got |-> Append(st.got, -1 - n), wait |-> 0, eci |-> 0] \in Receivers
        /\ [got |-> st.got, wait |-> w, eci |-> n] \in Receivers
    BY <2>1, <2>2, <2>5 DEF Receivers
  <2> QED
    BY <2>4, <2>6
<1> QED
  BY <1>1, <1>2 DEF Ready, Receivers

LEMMA ReceivedStages ==
  ASSUME NEW s \in Seq(Int)
  PROVE  \E F : ReceivedIn(s, F) /\ Received(s) = F[DOMAIN s]
<1> DEFINE G == [p \in Receivers \X Int |-> Receive(p[1], p[2])]
           H == CHOOSE F : ReceivedIn(s, F)
<1>1. Folding(Receivers, Int, G)
  BY ReceiveTypes DEF Folding
<1>2. PICK F : Stages(Receivers, G, Ready, s, F)
  <2> HIDE DEF G
  <2> QED
    <3>1. Ready \in Receivers
      BY ReceiveTypes
    <3> HIDE DEF Receivers, Ready
    <3> QED
      BY <1>1, <3>1, StagesExist
<1>3. ASSUME NEW u \in SUBSET DOMAIN s, u # {}
      PROVE  F[u] = Receive(F[u \ {Max(u)}], s[Max(u)])
  <2>1. s[Max(u)] \in Int
    <3>1. DOMAIN s = 1 .. Len(s) /\ Len(s) \in Nat
      BY LenProperties
    <3>2. Max(u) \in DOMAIN s
      BY <1>3, <3>1, LastOf
    <3> QED
      BY <3>1, <3>2
  <2>2. F[u \ {Max(u)}] \in Receivers
    BY <1>2 DEF Stages
  <2>3. F[u] = G[<<F[u \ {Max(u)}], s[Max(u)]>>]
    BY <1>2, <1>3 DEF Stages
  <2> QED
    BY <2>1, <2>2, <2>3
<1>4. ReceivedIn(s, F)
  <2> HIDE DEF G
  <2> QED
    BY <1>2, <1>3 DEF ReceivedIn, Stages
<1>5. ReceivedIn(s, H)
  BY <1>4
<1>6. Received(s) = H[DOMAIN s]
  BY DEF Received, FoldLeft, MapThenFoldSet, ReceivedIn, Ready
<1> QED
  BY <1>5, <1>6

LEMMA ReceivedPrefix ==
  ASSUME NEW s, NEW F, ReceivedIn(s, F), NEW k \in Nat, 1 .. k + 1 \in SUBSET DOMAIN s
  PROVE  F[1 .. k + 1] = Receive(F[1 .. k], s[k + 1])
<1> DEFINE u == 1 .. k + 1
<1>1. u # {} /\ Max(u) = k + 1 /\ u \ {Max(u)} = 1 .. k
  BY PrefixLast
<1>2. u \in SUBSET DOMAIN s
  OBVIOUS
<1> HIDE DEF u
<1>3. F[u] = Receive(F[u \ {Max(u)}], s[Max(u)])
  BY <1>1, <1>2 DEF ReceivedIn
<1> QED
  BY <1>1, <1>3 DEF u

\* The receiver starts with nothing, and goes on where it was.
LEMMA ReceivedNext ==
  /\ Received(<<>>) = Ready
  /\ \A s \in Seq(Int), c \in Int : Received(Append(s, c)) = Receive(Received(s), c)
<1>1. Received(<<>>) = Ready
  <2>1. <<>> \in Seq(Int) /\ DOMAIN <<>> = {}
    OBVIOUS
  <2>2. PICK F : ReceivedIn(<<>>, F) /\ Received(<<>>) = F[DOMAIN <<>>]
    BY <2>1, ReceivedStages
  <2> QED
    BY <2>1, <2>2 DEF ReceivedIn
<1>2. ASSUME NEW s \in Seq(Int), NEW c \in Int
      PROVE  Received(Append(s, c)) = Receive(Received(s), c)
  <2> DEFINE t == Append(s, c)
             n == Len(s)
  <2>1. /\ t \in Seq(Int) /\ n \in Nat /\ DOMAIN s = 1 .. n /\ DOMAIN t = 1 .. n + 1
        /\ t[n + 1] = c /\ \A i \in 1 .. n : t[i] = s[i]
    OBVIOUS
  <2> HIDE DEF t, n
  <2>2. PICK F : ReceivedIn(s, F) /\ Received(s) = F[DOMAIN s]
    BY ReceivedStages
  <2>3. PICK H : ReceivedIn(t, H) /\ Received(t) = H[DOMAIN t]
    BY <2>1, ReceivedStages
  <2>4. ASSUME NEW k \in 0 .. n - 1
        PROVE  /\ F[1 .. k + 1] = Receive(F[1 .. k], s[k + 1])
               /\ H[1 .. k + 1] = Receive(H[1 .. k], s[k + 1])
    <3>1. /\ 1 .. k + 1 \in SUBSET DOMAIN s /\ 1 .. k + 1 \in SUBSET DOMAIN t
          /\ t[k + 1] = s[k + 1] /\ k \in Nat
      BY <2>1
    <3>2. F[1 .. k + 1] = Receive(F[1 .. k], s[k + 1])
      BY <2>2, <3>1, ReceivedPrefix
    <3>3. H[1 .. k + 1] = Receive(H[1 .. k], t[k + 1])
      BY <2>3, <3>1, ReceivedPrefix
    <3> QED
      BY <3>1, <3>2, <3>3
  <2> DEFINE P == {k \in 0 .. n : F[1 .. k] = H[1 .. k]}
  <2>5. 0 \in P
    <3>1. 1 .. 0 = {} /\ 0 \in 0 .. n
      BY <2>1
    <3> QED
      BY <2>2, <2>3, <3>1 DEF ReceivedIn
  <2>6. \A k \in 0 .. n - 1 : k \in P => k + 1 \in P
    BY <2>1, <2>4
  <2> HIDE DEF P
  <2>7. n \in P
    <3>1. \A k \in 0 .. n : k \in P
      BY <2>1, <2>5, <2>6, PrefixInduction
    <3> QED
      BY <2>1, <3>1
  <2>8. F[1 .. n] = H[1 .. n]
    BY <2>7 DEF P
  <2>9. H[1 .. n + 1] = Receive(H[1 .. n], t[n + 1])
    <3>1. 1 .. n + 1 \in SUBSET DOMAIN t
      BY <2>1
    <3> QED
      BY <2>1, <2>3, <3>1, ReceivedPrefix
  <2> QED
    BY <2>1, <2>2, <2>3, <2>8, <2>9 DEF t
<1> QED
  BY <1>1, <1>2

\* A receiver that has got this, between two characters.
Got(g) == [got |-> g, wait |-> 0, eci |-> 0]
Waits(g, w, n) == [got |-> g, wait |-> w, eci |-> n]

LEMMA GotNext ==
  ASSUME NEW g, NEW c \in Int
  PROVE  /\ c # Backslash => Receive(Got(g), c) = Got(Append(g, c))
         /\ c = Backslash => Receive(Got(g), c) = Waits(g, 7, 0)
         /\ c = Backslash => Receive(Waits(g, 7, 0), c) = Got(Append(g, c))
<1>1. CASE c = Backslash
  BY <1>1 DEF Got, Waits, Receive
<1>2. CASE c # Backslash
  <2>1. Receive(Got(g), c) = Got(Append(g, c))
    BY <1>2 DEF Got, Receive
  <2> QED
    BY <1>2, <2>1
<1> QED
  BY <1>1, <1>2

\* The first digit of an assignment, one of the next four, and the last.
Follows(n, c, m) == n \in Int /\ c \in Int /\ c # Backslash /\ m = 10 * n + (c - 48)

LEMMA WaitsNext ==
  ASSUME NEW g, NEW n, NEW c, NEW m, Follows(n, c, m)
  PROVE  /\ Receive(Waits(g, 7, n), c) = Waits(g, 5, m)
         /\ Receive(Waits(g, 5, n), c) = Waits(g, 4, m)
         /\ Receive(Waits(g, 4, n), c) = Waits(g, 3, m)
         /\ Receive(Waits(g, 3, n), c) = Waits(g, 2, m)
         /\ Receive(Waits(g, 2, n), c) = Waits(g, 1, m)
<1> USE DEF Waits, Receive, Follows
<1>1. Receive(Waits(g, 7, n), c) = Waits(g, 5, m)
  OBVIOUS
<1>2. Receive(Waits(g, 5, n), c) = Waits(g, 4, m)
  OBVIOUS
<1>3. Receive(Waits(g, 4, n), c) = Waits(g, 3, m)
  OBVIOUS
<1>4. Receive(Waits(g, 3, n), c) = Waits(g, 2, m)
  OBVIOUS
<1>5. Receive(Waits(g, 2, n), c) = Waits(g, 1, m)
  OBVIOUS
<1> QED
  BY <1>1, <1>2, <1>3, <1>4, <1>5

LEMMA WaitsLast ==
  ASSUME NEW g, NEW n, NEW c, NEW m, Follows(n, c, m)
  PROVE  Receive(Waits(g, 1, n), c) = Got(Append(g, -1 - m))
BY DEF Waits, Got, Receive, Follows

DigitOf(a, i) == 48 + ((a \div Places[i]) % 10)

LEMMA AssignmentNat == MaxAssignment \in Nat
BY SMT DEF MaxAssignment

LEMMA AssignmentBound == MaxAssignment < 1000000
BY SMT DEF MaxAssignment

\* What the first digits of an assignment are worth.
Leading(a, i) == a \div Places[i]

LEMMA DigitShift ==
  ASSUME NEW a \in Nat
  PROVE  /\ 10 * (a \div 100000) + ((a \div 10000) % 10) = a \div 10000
         /\ 10 * (a \div 10000) + ((a \div 1000) % 10) = a \div 1000
         /\ 10 * (a \div 1000) + ((a \div 100) % 10) = a \div 100
         /\ 10 * (a \div 100) + ((a \div 10) % 10) = a \div 10
         /\ 10 * (a \div 10) + (a % 10) = a
<1>1. 10 * (a \div 100000) + ((a \div 10000) % 10) = a \div 10000
  BY Z3
<1>2. 10 * (a \div 10000) + ((a \div 1000) % 10) = a \div 1000
  BY Z3
<1>3. 10 * (a \div 1000) + ((a \div 100) % 10) = a \div 100
  BY Z3
<1>4. 10 * (a \div 100) + ((a \div 10) % 10) = a \div 10
  BY Z3
<1>5. 10 * (a \div 10) + (a % 10) = a
  BY Z3
<1> QED
  BY <1>1, <1>2, <1>3, <1>4, <1>5, SMT

LEMMA AssignmentDigits ==
  ASSUME NEW a \in 0 .. MaxAssignment
  PROVE  /\ \A i \in 1 .. 6 : /\ DigitOf(a, i) \in Int /\ DigitOf(a, i) # Backslash
                             /\ Leading(a, i) \in Int
         /\ DigitOf(a, 1) - 48 = Leading(a, 1)
         /\ \A i \in 1 .. 5 : 10 * Leading(a, i) + (DigitOf(a, i + 1) - 48) = Leading(a, i + 1)
         /\ Leading(a, 6) = a
<1>1. a \in Nat /\ a \div 100000 \in 0 .. 9
  <2>1. a \in Nat /\ a < 1000000
    BY AssignmentNat, AssignmentBound, SMT
  <2>2. ASSUME NEW n \in Nat, n < 1000000 PROVE n \div 100000 \in 0 .. 9
    BY <2>2, Z3
  <2> QED
    BY <2>1, <2>2, SMT
<1>2. /\ Leading(a, 1) = a \div 100000 /\ Leading(a, 2) = a \div 10000
      /\ Leading(a, 3) = a \div 1000 /\ Leading(a, 4) = a \div 100
      /\ Leading(a, 5) = a \div 10 /\ Leading(a, 6) = a
  BY <1>1, SMT DEF Leading, Places
<1>3. \A i \in 1 .. 6 : DigitOf(a, i) = 48 + (Leading(a, i) % 10)
  BY SMT DEF DigitOf, Leading
<1>4. \A i \in 1 .. 6 : i \in {1, 2, 3, 4, 5, 6}
  OBVIOUS
<1>5. ASSUME NEW i \in 1 .. 6 PROVE DigitOf(a, i) \in 48 .. 57 /\ Leading(a, i) \in Int
  <2>1. Leading(a, i) \in Int
    BY <1>1, <1>2, <1>4, SMT
  <2> QED
    BY <1>3, <2>1
<1>6. /\ 10 * Leading(a, 1) + (Leading(a, 2) % 10) = Leading(a, 2)
      /\ 10 * Leading(a, 2) + (Leading(a, 3) % 10) = Leading(a, 3)
      /\ 10 * Leading(a, 3) + (Leading(a, 4) % 10) = Leading(a, 4)
      /\ 10 * Leading(a, 4) + (Leading(a, 5) % 10) = Leading(a, 5)
      /\ 10 * Leading(a, 5) + (Leading(a, 6) % 10) = Leading(a, 6)
  <2> HIDE DEF Leading
  <2> QED
    BY <1>1, <1>2, DigitShift, SMT
<1>11. Leading(a, 1) % 10 = Leading(a, 1)
  BY <1>1, <1>2, Z3
<1>12. ASSUME NEW i \in 1 .. 5
       PROVE  10 * Leading(a, i) + (DigitOf(a, i + 1) - 48) = Leading(a, i + 1)
  <2>1. i \in {1, 2, 3, 4, 5}
    OBVIOUS
  <2>2. DigitOf(a, i + 1) - 48 = Leading(a, i + 1) % 10
    BY <1>3, <1>5
  <2> QED
    BY <1>6, <2>1, <2>2
<1>13. DigitOf(a, 1) - 48 = Leading(a, 1)
  BY <1>3, <1>5, <1>11
<1>14. Leading(a, 6) = a
  BY <1>2, SMT
<1>15. \A d \in 48 .. 57 : d \in Int /\ d # Backslash
  BY DEF Backslash
<1> QED
  BY <1>5, <1>12, <1>13, <1>14, <1>15

LEMMA ConcatAppendInt ==
  ASSUME NEW s \in Seq(Int), NEW t \in Seq(Int), NEW x \in Int
  PROVE  s \o Append(t, x) = Append(s \o t, x)
BY ConcatAppend, SMT

LEMMA DigitsAppended ==
  ASSUME NEW v \in Seq(Int), NEW d \in [1 .. 6 -> Int]
  PROVE  v \o d = Append(Append(Append(Append(Append(Append(v, d[1]), d[2]), d[3]), d[4]), d[5]),
                         d[6])
<1> DEFINE h(n) == [i \in 1 .. n |-> d[i]]
<1>1. /\ d[1] \in Int /\ d[2] \in Int /\ d[3] \in Int /\ d[4] \in Int /\ d[5] \in Int
      /\ d[6] \in Int
  OBVIOUS
<1>2. /\ h(1) \in Seq(Int) /\ h(2) \in Seq(Int) /\ h(3) \in Seq(Int) /\ h(4) \in Seq(Int)
      /\ h(5) \in Seq(Int)
  OBVIOUS
<1>3. /\ h(2) = Append(h(1), d[2]) /\ h(3) = Append(h(2), d[3]) /\ h(4) = Append(h(3), d[4])
      /\ h(5) = Append(h(4), d[5]) /\ h(6) = Append(h(5), d[6])
  OBVIOUS
<1>4. v \o h(1) = Append(v, d[1])
  OBVIOUS
<1>5. h(6) = d
  OBVIOUS
<1> HIDE DEF h
<1>6. ASSUME NEW w \in Seq(Int), NEW x \in Int PROVE v \o Append(w, x) = Append(v \o w, x)
  BY ConcatAppendInt
<1>7. /\ v \o h(2) = Append(v \o h(1), d[2]) /\ v \o h(3) = Append(v \o h(2), d[3])
      /\ v \o h(4) = Append(v \o h(3), d[4]) /\ v \o h(5) = Append(v \o h(4), d[5])
      /\ v \o h(6) = Append(v \o h(5), d[6])
  BY <1>1, <1>2, <1>3, <1>6, ZenonT(30)
<1> QED
  BY <1>4, <1>5, <1>7, Zenon

\* An assignment in a transmission is received as one.
LEMMA AssignmentReceived ==
  ASSUME NEW s \in Seq(Int), NEW g, Received(s) = Got(g), NEW a \in 0 .. MaxAssignment,
         NEW t, t = s \o <<Backslash>> \o [i \in DOMAIN Places |-> DigitOf(a, i)]
  PROVE  t \in Seq(Int) /\ Received(t) = Got(Append(g, -1 - a))
<1> DEFINE d  == [i \in DOMAIN Places |-> DigitOf(a, i)]
           b  == Append(s, Backslash)
           s1 == Append(b, DigitOf(a, 1))
           s2 == Append(s1, DigitOf(a, 2))
           s3 == Append(s2, DigitOf(a, 3))
           s4 == Append(s3, DigitOf(a, 4))
           s5 == Append(s4, DigitOf(a, 5))
           s6 == Append(s5, DigitOf(a, 6))
<1>0. DOMAIN Places = 1 .. 6
  BY DEF Places
<1>1. /\ DigitOf(a, 1) \in Int /\ DigitOf(a, 2) \in Int /\ DigitOf(a, 3) \in Int
      /\ DigitOf(a, 4) \in Int /\ DigitOf(a, 5) \in Int /\ DigitOf(a, 6) \in Int
      /\ Backslash \in Int /\ a \in Int
  <2>1. \A i \in 1 .. 6 : DigitOf(a, i) \in Int
    BY AssignmentDigits
  <2> QED
    BY <2>1, AssignmentNat DEF Backslash
<1>2. /\ b \in Seq(Int) /\ s1 \in Seq(Int) /\ s2 \in Seq(Int) /\ s3 \in Seq(Int)
      /\ s4 \in Seq(Int) /\ s5 \in Seq(Int) /\ s6 \in Seq(Int)
  BY <1>1
<1>3. t = s6
  <2>1. /\ d \in [1 .. 6 -> Int]
        /\ d[1] = DigitOf(a, 1) /\ d[2] = DigitOf(a, 2) /\ d[3] = DigitOf(a, 3)
        /\ d[4] = DigitOf(a, 4) /\ d[5] = DigitOf(a, 5) /\ d[6] = DigitOf(a, 6)
    BY <1>0, <1>1, AssignmentDigits
  <2>2. t = (s \o <<Backslash>>) \o d
    OBVIOUS
  <2>3. s \o <<Backslash>> = b
    BY <1>1
  <2> HIDE DEF b, d
  <2>4. b \o d = Append(Append(Append(Append(Append(Append(b, d[1]), d[2]), d[3]), d[4]), d[5]),
                        d[6])
    BY <1>2, <2>1, DigitsAppended
  <2> QED
    BY <2>1, <2>2, <2>3, <2>4, Zenon
<1>4. /\ Received(b) = Receive(Got(g), Backslash)
      /\ Received(s1) = Receive(Received(b), DigitOf(a, 1))
      /\ Received(s2) = Receive(Received(s1), DigitOf(a, 2))
      /\ Received(s3) = Receive(Received(s2), DigitOf(a, 3))
      /\ Received(s4) = Receive(Received(s3), DigitOf(a, 4))
      /\ Received(s5) = Receive(Received(s4), DigitOf(a, 5))
      /\ Received(s6) = Receive(Received(s5), DigitOf(a, 6))
  BY <1>1, <1>2, ReceivedNext
<1> HIDE DEF b, s1, s2, s3, s4, s5, s6
<1>5. /\ DigitOf(a, 1) # Backslash /\ DigitOf(a, 2) # Backslash /\ DigitOf(a, 3) # Backslash
      /\ DigitOf(a, 4) # Backslash /\ DigitOf(a, 5) # Backslash /\ DigitOf(a, 6) # Backslash
      /\ Leading(a, 1) \in Int /\ Leading(a, 2) \in Int /\ Leading(a, 3) \in Int
      /\ Leading(a, 4) \in Int /\ Leading(a, 5) \in Int
  BY AssignmentDigits
<1>6. Follows(0, DigitOf(a, 1), Leading(a, 1))
  <2>1. DigitOf(a, 1) - 48 = Leading(a, 1)
    BY AssignmentDigits
  <2> QED
    BY <1>1, <1>5, <2>1 DEF Follows
<1>7. ASSUME NEW i \in 1 .. 5 PROVE Follows(Leading(a, i), DigitOf(a, i + 1), Leading(a, i + 1))
  <2>1. 10 * Leading(a, i) + (DigitOf(a, i + 1) - 48) = Leading(a, i + 1)
    BY AssignmentDigits
  <2>2. /\ DigitOf(a, i + 1) \in Int /\ DigitOf(a, i + 1) # Backslash /\ Leading(a, i) \in Int
    <3>1. i \in 1 .. 6 /\ i + 1 \in 1 .. 6
      OBVIOUS
    <3> QED
      BY <3>1, AssignmentDigits
  <2> QED
    BY <2>1, <2>2 DEF Follows
<1>8. /\ Follows(Leading(a, 1), DigitOf(a, 2), Leading(a, 2))
      /\ Follows(Leading(a, 2), DigitOf(a, 3), Leading(a, 3))
      /\ Follows(Leading(a, 3), DigitOf(a, 4), Leading(a, 4))
      /\ Follows(Leading(a, 4), DigitOf(a, 5), Leading(a, 5))
      /\ Follows(Leading(a, 5), DigitOf(a, 6), Leading(a, 6))
  BY <1>7
<1>9. Leading(a, 6) = a
  BY AssignmentDigits
<1>10. Received(b) = Waits(g, 7, 0)
  BY <1>1, <1>4, GotNext
<1>11. Received(s1) = Waits(g, 5, Leading(a, 1))
  <2>1. Receive(Waits(g, 7, 0), DigitOf(a, 1)) = Waits(g, 5, Leading(a, 1))
    BY <1>6, WaitsNext
  <2> QED
    BY <1>4, <1>10, <2>1
<1>12. Received(s2) = Waits(g, 4, Leading(a, 2))
  <2>1. Receive(Waits(g, 5, Leading(a, 1)), DigitOf(a, 2)) = Waits(g, 4, Leading(a, 2))
    BY <1>8, WaitsNext, ZenonT(30)
  <2> QED
    BY <1>4, <1>11, <2>1
<1>13. Received(s3) = Waits(g, 3, Leading(a, 3))
  <2>1. Receive(Waits(g, 4, Leading(a, 2)), DigitOf(a, 3)) = Waits(g, 3, Leading(a, 3))
    BY <1>8, WaitsNext, ZenonT(30)
  <2> QED
    BY <1>4, <1>12, <2>1
<1>14. Received(s4) = Waits(g, 2, Leading(a, 4))
  <2>1. Receive(Waits(g, 3, Leading(a, 3)), DigitOf(a, 4)) = Waits(g, 2, Leading(a, 4))
    BY <1>8, WaitsNext, ZenonT(30)
  <2> QED
    BY <1>4, <1>13, <2>1
<1>15. Received(s5) = Waits(g, 1, Leading(a, 5))
  <2>1. Receive(Waits(g, 2, Leading(a, 4)), DigitOf(a, 5)) = Waits(g, 1, Leading(a, 5))
    BY <1>8, WaitsNext, ZenonT(30)
  <2> QED
    BY <1>4, <1>14, <2>1
<1>16. Received(s6) = Got(Append(g, -1 - a))
  <2>1. Receive(Waits(g, 1, Leading(a, 5)), DigitOf(a, 6)) = Got(Append(g, -1 - a))
    BY <1>8, <1>9, WaitsLast
  <2> QED
    BY <1>4, <1>15, <2>1
<1> QED
  BY <1>2, <1>3, <1>16

-----------------------------------------------------------------------------
(* Flattening a sequence of texts, one text after the other.                 *)

Texts == Seq(Int)

\* What the first i texts make together.
FlatStages(s, f) ==
  f = [i \in 1 .. Len(s) |-> IF i = 1 THEN s[i] ELSE f[i - 1] \o s[i]]

LEMMA FlatStagesExist ==
  ASSUME NEW s \in Seq(Texts), NEW n \in 1 .. Len(s)
  PROVE  \E f \in [1 .. n -> Texts] : \A i \in 1 .. n : f[i] = IF i = 1 THEN s[i] ELSE f[i - 1] \o s[i]
<1> DEFINE N == Len(s)
           Ok(k, f) == \A i \in 1 .. k : f[i] = IF i = 1 THEN s[i] ELSE f[i - 1] \o s[i]
           P == {k \in 0 .. N : k = 0 \/ \E f \in [1 .. k -> Texts] : Ok(k, f)}
<1>1. N \in Nat /\ \A i \in 1 .. N : s[i] \in Texts
  OBVIOUS
<1>2. 0 \in P
  BY <1>1
<1>3. ASSUME NEW k \in 0 .. N - 1, k \in P PROVE k + 1 \in P
  <2>1. CASE k = 0
    <3>1. [i \in 1 .. 1 |-> s[i]] \in [1 .. 1 -> Texts]
      BY <1>1
    <3>2. Ok(1, [i \in 1 .. 1 |-> s[i]])
      OBVIOUS
    <3>3. \E f \in [1 .. 1 -> Texts] : Ok(1, f)
      BY <3>1, <3>2
    <3>4. k + 1 = 1 /\ k + 1 \in 0 .. N
      BY <1>1, <2>1
    <3> QED
      BY <3>3, <3>4
  <2>2. CASE k # 0
    <3>1. PICK f \in [1 .. k -> Texts] : Ok(k, f)
      BY <1>3, <2>2
    <3> DEFINE h == [i \in 1 .. k + 1 |-> IF i = k + 1 THEN f[k] \o s[k + 1] ELSE f[i]]
    <3>2. f[k] \o s[k + 1] \in Texts
      <4>1. f[k] \in Texts /\ s[k + 1] \in Texts
        BY <1>1, <2>2
      <4> QED
        BY <4>1 DEF Texts
    <3>3. h \in [1 .. k + 1 -> Texts]
      BY <3>2
    <3>4. ASSUME NEW i \in 1 .. k + 1 PROVE h[i] = IF i = 1 THEN s[i] ELSE h[i - 1] \o s[i]
      <4>1. CASE i = k + 1
        <5>1. k \in 1 .. k + 1 /\ k + 1 \in 1 .. k + 1 /\ k # k + 1 /\ k + 1 # 1 /\ (k + 1) - 1 = k
          BY <2>2
        <5>2. h[k + 1] = f[k] \o s[k + 1]
          BY <5>1
        <5>3. h[k] = f[k]
          BY <5>1
        <5> HIDE DEF h
        <5> QED
          BY <4>1, <5>1, <5>2, <5>3
      <4>2. CASE i # k + 1
        <5>1. i \in 1 .. k /\ h[i] = f[i]
          BY <4>2
        <5>2. i # 1 => h[i - 1] = f[i - 1]
          BY <5>1
        <5> QED
          BY <3>1, <5>1, <5>2
      <4> QED
        BY <4>1, <4>2
    <3>5. k + 1 \in 0 .. N
      BY <1>1
    <3>6. Ok(k + 1, h)
      BY <3>4
    <3> HIDE DEF h, Ok
    <3> QED
      BY <3>3, <3>5, <3>6
  <2> QED
    BY <2>1, <2>2
<1> HIDE DEF P
<1>4. n \in P
  <2>1. \A k \in 0 .. N : k \in P
    BY <1>1, <1>2, <1>3, PrefixInduction
  <2> QED
    BY <1>1, <2>1
<1> QED
  BY <1>1, <1>4 DEF P

\* The stages of the definition are those, and the last of them is the text.
LEMMA FlatFold ==
  ASSUME NEW s \in Seq(Texts), s # <<>>
  PROVE  \E f \in [1 .. Len(s) -> Texts] : FlatStages(s, f) /\ FlattenSeq(s) = f[Len(s)]
<1> DEFINE N == Len(s)
           h == CHOOSE f : FlatStages(s, f)
<1>1. N \in Nat /\ N # 0 /\ N \in 1 .. N
  OBVIOUS
<1>2. PICK f \in [1 .. N -> Texts] : \A i \in 1 .. N : f[i] = IF i = 1 THEN s[i] ELSE f[i - 1] \o s[i]
  BY <1>1, FlatStagesExist
<1>3. FlatStages(s, f)
  BY <1>2 DEF FlatStages
<1>4. FlatStages(s, h)
  BY <1>3
<1>5. FlattenSeq(s) = h[N]
  BY <1>1 DEF FlattenSeq, FlatStages
<1> HIDE DEF h
<1> DEFINE P == {i \in 0 .. N : i = 0 \/ h[i] = f[i]}
<1>6. 0 \in P
  BY <1>1
<1>7. ASSUME NEW k \in 0 .. N - 1, k \in P PROVE k + 1 \in P
  <2>1. k + 1 \in 1 .. N
    BY <1>1
  <2>2. (k + 1) - 1 = k
    OBVIOUS
  <2>3. h[k + 1] = IF k + 1 = 1 THEN s[k + 1] ELSE h[(k + 1) - 1] \o s[k + 1]
    BY <1>4, <2>1 DEF FlatStages
  <2>4. f[k + 1] = IF k + 1 = 1 THEN s[k + 1] ELSE f[(k + 1) - 1] \o s[k + 1]
    BY <1>2, <2>1
  <2> QED
    BY <1>7, <2>1, <2>2, <2>3, <2>4
<1> HIDE DEF P
<1>8. \A i \in 0 .. N : i \in P
  BY <1>1, <1>6, <1>7, PrefixInduction
<1>9. h[N] = f[N]
  BY <1>1, <1>8 DEF P
<1> QED
  BY <1>2, <1>3, <1>5, <1>9

\* One more text is put behind the others.
LEMMA FlatNext ==
  ASSUME NEW s \in Seq(Texts), NEW x \in Texts
  PROVE  FlattenSeq(Append(s, x)) = FlattenSeq(s) \o x
<1> DEFINE t == Append(s, x)
           N == Len(s)
<1>1. /\ t \in Seq(Texts) /\ N \in Nat /\ Len(t) = N + 1 /\ t # <<>> /\ t[N + 1] = x
      /\ \A i \in 1 .. N : t[i] = s[i]
  OBVIOUS
<1> HIDE DEF t
<1>2. PICK f \in [1 .. N + 1 -> Texts] : FlatStages(t, f) /\ FlattenSeq(t) = f[N + 1]
  BY <1>1, FlatFold
<1>3. CASE N = 0
  <2>1. s = <<>>
    BY <1>3
  <2>2. FlattenSeq(s) = <<>>
    BY <2>1 DEF FlattenSeq
  <2>3. f[1] = t[1]
    BY <1>1, <1>2, <1>3 DEF FlatStages
  <2>4. <<>> \o x = x
    BY DEF Texts
  <2> QED
    BY <1>1, <1>2, <1>3, <2>2, <2>3, <2>4 DEF t
<1>4. CASE N # 0
  <2>1. s # <<>>
    BY <1>4
  <2>2. PICK h \in [1 .. N -> Texts] : FlatStages(s, h) /\ FlattenSeq(s) = h[N]
    BY <2>1, FlatFold
  <2> DEFINE P == {i \in 0 .. N : i = 0 \/ h[i] = f[i]}
  <2>3. 0 \in P
    BY <1>1
  <2>4. ASSUME NEW k \in 0 .. N - 1, k \in P PROVE k + 1 \in P
    <3>1. k + 1 \in 1 .. N /\ k + 1 \in 1 .. N + 1
      BY <1>1
    <3>2. h[k + 1] = IF k + 1 = 1 THEN s[k + 1] ELSE h[(k + 1) - 1] \o s[k + 1]
      BY <2>2, <3>1 DEF FlatStages
    <3>3. f[k + 1] = IF k + 1 = 1 THEN t[k + 1] ELSE f[(k + 1) - 1] \o t[k + 1]
      BY <1>1, <1>2, <3>1 DEF FlatStages
    <3>4. (k + 1) - 1 = k
      OBVIOUS
    <3> QED
      BY <1>1, <2>4, <3>1, <3>2, <3>3, <3>4
  <2> HIDE DEF P
  <2>5. \A i \in 0 .. N : i \in P
    BY <1>1, <2>3, <2>4, PrefixInduction
  <2>6. h[N] = f[N]
    BY <1>1, <1>4, <2>5 DEF P
  <2>7. f[N + 1] = f[N] \o t[N + 1]
    <3>1. f[N + 1] = IF N + 1 = 1 THEN t[N + 1] ELSE f[(N + 1) - 1] \o t[N + 1]
      <4>1. N + 1 \in 1 .. Len(t)
        BY <1>1
      <4> HIDE DEF N
      <4> QED
        BY <1>2, <4>1 DEF FlatStages
    <3>2. (N + 1) - 1 = N /\ N + 1 # 1
      BY <1>1, <1>4
    <3> QED
      BY <3>1, <3>2
  <2> QED
    BY <1>1, <1>2, <2>2, <2>6, <2>7 DEF t
<1> QED
  BY <1>3, <1>4

LEMMA FlatEmpty == FlattenSeq(<<>>) = <<>>
BY DEF FlattenSeq

LEMMA FlatText ==
  ASSUME NEW s \in Seq(Texts)
  PROVE  FlattenSeq(s) \in Texts
<1>1. CASE s = <<>>
  <2>1. <<>> \in Seq(Int)
    OBVIOUS
  <2> QED
    BY <1>1, <2>1, FlatEmpty DEF Texts
<1>2. CASE s # <<>>
  <2>1. PICK f \in [1 .. Len(s) -> Texts] : FlattenSeq(s) = f[Len(s)]
    BY <1>2, FlatFold
  <2> QED
    BY <1>2, <2>1
<1> QED
  BY <1>1, <1>2

LEMMA TextsJoined ==
  ASSUME NEW s \in Texts, NEW t \in Texts, NEW u \in Texts
  PROVE  s \o t \in Texts /\ s \o (t \o u) = (s \o t) \o u
<1>1. s \in Seq(Int) /\ t \in Seq(Int) /\ u \in Seq(Int)
  BY DEF Texts
<1>2. s \o t \in Seq(Int)
  BY <1>1, ConcatProperties
<1>3. (s \o t) \o u = s \o (t \o u)
  BY <1>1, ConcatAssociative, SMTT(30)
<1> QED
  BY <1>2, <1>3 DEF Texts

LEMMA FlatOne ==
  ASSUME NEW x \in Texts
  PROVE  FlattenSeq(<<x>>) = x
<1>1. <<>> \in Seq(Texts) /\ <<x>> = Append(<<>>, x)
  OBVIOUS
<1>2. FlattenSeq(<<x>>) = FlattenSeq(<<>>) \o x
  BY <1>1, FlatNext
<1>3. <<>> \o x = x
  BY DEF Texts
<1> QED
  BY <1>2, <1>3, FlatEmpty

\* The same, for a sequence known by its places.
LEMMA FlatLast ==
  ASSUME NEW s \in Seq(Texts), NEW t \in Seq(Texts), Len(t) = Len(s) + 1,
         \A i \in 1 .. Len(s) : t[i] = s[i]
  PROVE  FlattenSeq(t) = FlattenSeq(s) \o t[Len(s) + 1]
<1> DEFINE x == t[Len(s) + 1]
<1>1. x \in Texts
  OBVIOUS
<1>2. Append(s, x) \in Seq(Texts) /\ Len(Append(s, x)) = Len(t)
      /\ \A i \in 1 .. Len(t) : Append(s, x)[i] = t[i]
  OBVIOUS
<1> HIDE DEF x
<1>3. t = Append(s, x)
  BY <1>1, <1>2, SeqEqual
<1> QED
  BY <1>1, <1>3, FlatNext DEF x

\* Texts without characters make none.
LEMMA FlatNothing ==
  ASSUME NEW s \in Seq(Texts), \A i \in 1 .. Len(s) : s[i] = <<>>
  PROVE  FlattenSeq(s) = <<>>
<1>1. CASE s = <<>>
  BY <1>1, FlatEmpty
<1>2. CASE s # <<>>
  <2> DEFINE N == Len(s)
  <2>0. N \in Nat /\ N # 0
    BY <1>2
  <2>1. PICK f \in [1 .. N -> Texts] : FlatStages(s, f) /\ FlattenSeq(s) = f[N]
    BY <1>2, FlatFold
  <2> DEFINE P == {i \in 0 .. N : i = 0 \/ f[i] = <<>>}
  <2>2. 0 \in P
    BY <2>0
  <2>3. ASSUME NEW k \in 0 .. N - 1, k \in P PROVE k + 1 \in P
    <3>1. k + 1 \in 1 .. N /\ (k + 1) - 1 = k /\ (k + 1 = 1 <=> k = 0)
      BY <2>0
    <3>2. f[k + 1] = IF k + 1 = 1 THEN s[k + 1] ELSE f[(k + 1) - 1] \o s[k + 1]
      BY <2>1, <3>1 DEF FlatStages
    <3>3. s[k + 1] = <<>>
      BY <3>1
    <3>4. <<>> \o <<>> = <<>>
      OBVIOUS
    <3> QED
      BY <2>0, <2>3, <3>1, <3>2, <3>3, <3>4
  <2> HIDE DEF P
  <2>4. \A i \in 0 .. N : i \in P
    BY <2>0, <2>2, <2>3, PrefixInduction
  <2> QED
    BY <2>0, <2>1, <2>4 DEF P
<1> QED
  BY <1>1, <1>2

-----------------------------------------------------------------------------
(* A field of the stream is a number, whatever the stream holds.             *)

ValueIn(s, F) ==
  F = [u \in SUBSET DOMAIN s |->
        IF u = {} THEN 0 ELSE 2 * F[u \ {Max(u)}] + (IF s[Max(u)] = 1 THEN 1 ELSE 0)]

LEMMA ValueNat ==
  ASSUME NEW Items, NEW s \in Seq(Items)
  PROVE  ValueOf(s) \in Nat
<1> DEFINE G == [p \in Nat \X Items |-> 2 * p[1] + (IF p[2] = 1 THEN 1 ELSE 0)]
           H == CHOOSE F : ValueIn(s, F)
           N == Len(s)
<1>0. DOMAIN s = 1 .. N /\ N \in Nat /\ \A i \in 1 .. N : s[i] \in Items
  BY LenProperties
<1>1. Folding(Nat, Items, G)
  BY DEF Folding
<1>2. PICK F : Stages(Nat, G, 0, s, F)
  <2> HIDE DEF G
  <2> QED
    BY <1>1, StagesExist
<1>3. ASSUME NEW u \in SUBSET DOMAIN s, u # {}
      PROVE  F[u] = 2 * F[u \ {Max(u)}] + (IF s[Max(u)] = 1 THEN 1 ELSE 0)
  <2>1. s[Max(u)] \in Items
    <3>1. Max(u) \in DOMAIN s
      BY <1>0, <1>3, LastOf
    <3> QED
      BY <1>0, <3>1
  <2>2. F[u \ {Max(u)}] \in Nat
    BY <1>2 DEF Stages
  <2>3. F[u] = G[<<F[u \ {Max(u)}], s[Max(u)]>>]
    BY <1>2, <1>3 DEF Stages
  <2> QED
    BY <2>1, <2>2, <2>3
<1>4. ValueIn(s, F)
  <2> HIDE DEF G
  <2> QED
    BY <1>2, <1>3 DEF ValueIn, Stages
<1>5. ValueIn(s, H)
  BY <1>4
<1>6. ValueOf(s) = H[DOMAIN s]
  BY DEF ValueOf, FoldLeft, MapThenFoldSet, ValueIn
<1> HIDE DEF H
<1> DEFINE P == {k \in 0 .. N : H[1 .. k] \in Nat}
<1>7. 0 \in P
  <2>1. 1 .. 0 = {} /\ 0 \in 0 .. N
    BY <1>0
  <2> QED
    BY <1>5, <2>1 DEF ValueIn
<1>8. ASSUME NEW k \in 0 .. N - 1, k \in P PROVE k + 1 \in P
  <2> DEFINE u == 1 .. k + 1
  <2>1. u \in SUBSET DOMAIN s /\ k + 1 \in 0 .. N
    BY <1>0
  <2>2. u # {} /\ Max(u) = k + 1 /\ u \ {Max(u)} = 1 .. k
    <3>1. k \in Nat
      OBVIOUS
    <3> QED
      BY <3>1, PrefixLast
  <2> HIDE DEF u
  <2>3. H[u] = 2 * H[u \ {Max(u)}] + (IF s[Max(u)] = 1 THEN 1 ELSE 0)
    BY <1>5, <2>1, <2>2 DEF ValueIn
  <2>4. H[1 .. k] \in Nat
    BY <1>8
  <2>5. H[u] \in Nat
    <3>1. ASSUME NEW v \in Nat, NEW b PROVE 2 * v + (IF b = 1 THEN 1 ELSE 0) \in Nat
      OBVIOUS
    <3>2. H[u \ {Max(u)}] \in Nat
      BY <2>2, <2>4
    <3> QED
      BY <2>3, <3>1, <3>2
  <2> QED
    BY <2>1, <2>5 DEF u
<1> HIDE DEF P
<1>9. N \in P
  <2>1. \A k \in 0 .. N : k \in P
    BY <1>0, <1>7, <1>8, PrefixInduction
  <2> QED
    BY <1>0, <2>1
<1> QED
  BY <1>0, <1>6, <1>9 DEF P

LEMMA FieldNat ==
  ASSUME NEW at \in Int, NEW width \in Int
  PROVE  Field(at, width) \in Nat
<1> DEFINE Items == {bits[i] : i \in Int}
           m == at + 1
           n == at + width
<1>1. m \in Int /\ n \in Int /\ \A i \in m .. n : bits[i] \in Items
  OBVIOUS
<1> HIDE DEF Items, m, n
<1>2. SubSeq(bits, m, n) \in Seq(Items)
  BY <1>1, SubSeqProperties
<1> QED
  BY <1>2, ValueNat DEF Field, m, n

-----------------------------------------------------------------------------
(* What the writer finds of a message, control after control.                *)

Kinds == {"eci", "fnc1start", "fnc1separator", "fnc1end", "iso15434start", "iso15434end"}
Controls == [kind : Kinds, offset : Nat, assignment : Int]

CheckStates == [ok : BOOLEAN, cursor : Nat, active : BOOLEAN, sent : Seq(Int)]
Unchecked == [ok |-> TRUE, cursor |-> 0, active |-> FALSE, sent |-> <<>>]

Checked(data, controls) ==
  FoldLeft(LAMBDA s, c : CheckControl(data, s, c),
           [ok |-> TRUE, cursor |-> 0, active |-> FALSE, sent |-> <<>>], controls)

LEMMA StructuredChecked ==
  ASSUME NEW data, NEW controls
  PROVE  Structured(data, controls) <=> Checked(data, controls).ok /\ ~Checked(data, controls).active
BY DEF Structured, Checked

\* The data up to a control, as it was sent.
Sent(data, st, c) == st.sent \o SubSeq(data, st.cursor + 1, c.offset)

LEMMA CheckTypes ==
  ASSUME NEW data \in Seq(Int), NEW st \in CheckStates, NEW c \in Controls
  PROVE  CheckControl(data, st, c) \in CheckStates
<1>1. /\ st.ok \in BOOLEAN /\ st.cursor \in Nat /\ st.active \in BOOLEAN /\ st.sent \in Seq(Int)
      /\ st = [ok |-> st.ok, cursor |-> st.cursor, active |-> st.active, sent |-> st.sent]
  BY DEF CheckStates
<1>2. c.kind \in Kinds /\ c.offset \in Nat
  BY DEF Controls
<1>3. CASE ~st.ok \/ c.offset \notin st.cursor .. Len(data)
  <2>1. CheckControl(data, st, c) = [st EXCEPT !.ok = FALSE]
    BY <1>3 DEF CheckControl
  <2> QED
    BY <1>1, <2>1 DEF CheckStates
<1>4. CASE ~(~st.ok \/ c.offset \notin st.cursor .. Len(data))
  <2>1. SubSeq(data, st.cursor + 1, c.offset) \in Seq(Int)
    <3>1. \A i \in st.cursor + 1 .. c.offset : data[i] \in Int
      BY <1>1, <1>2, <1>4
    <3> QED
      BY <1>1, <1>2, <3>1, SubSeqProperties
  <2>2. Sent(data, st, c) \in Seq(Int) /\ Append(Sent(data, st, c), 0) \in Seq(Int)
    BY <1>1, <2>1 DEF Sent
  <2> DEFINE ok == CASE c.kind = "eci"       -> c.assignment \in 0 .. MaxAssignment
                     [] c.kind = "fnc1start" -> ~st.active /\ MayStart(Sent(data, st, c))
                     [] OTHER                -> st.active
             active == c.kind = "fnc1start" \/ (st.active /\ c.kind # "fnc1end")
             sent == IF c.kind = "fnc1separator" THEN Append(Sent(data, st, c), 0)
                     ELSE Sent(data, st, c)
  <2>3. CheckControl(data, st, c) = [ok |-> ok, cursor |-> c.offset, active |-> active, sent |-> sent]
    BY <1>4 DEF CheckControl, Sent
  <2>4. ok \in BOOLEAN
    <3>1. MayStart(Sent(data, st, c)) \in BOOLEAN
      BY DEF MayStart
    <3>2. CASE c.kind = "eci"
      BY <3>2
    <3>3. CASE c.kind = "fnc1start"
      <4>1. ok = (~st.active /\ MayStart(Sent(data, st, c)))
        BY <3>3
      <4> QED
        BY <3>1, <4>1
    <3>4. CASE c.kind # "eci" /\ c.kind # "fnc1start"
      BY <1>1, <3>4
    <3> QED
      BY <3>2, <3>3, <3>4
  <2>5. active \in BOOLEAN
    BY <1>1
  <2>6. sent \in Seq(Int)
    BY <2>2
  <2> HIDE DEF ok, active, sent
  <2> QED
    BY <1>2, <2>3, <2>4, <2>5, <2>6 DEF CheckStates
<1> QED
  BY <1>3, <1>4

LEMMA UncheckedType == Unchecked \in CheckStates
<1>1. <<>> \in Seq(Int)
  OBVIOUS
<1> QED
  BY <1>1 DEF Unchecked, CheckStates

CheckedIn(data, s, F) ==
  F = [u \in SUBSET DOMAIN s |->
        IF u = {} THEN Unchecked ELSE CheckControl(data, F[u \ {Max(u)}], s[Max(u)])]

LEMMA CheckedStages ==
  ASSUME NEW data \in Seq(Int), NEW s \in Seq(Controls)
  PROVE  \E F : CheckedIn(data, s, F) /\ Checked(data, s) = F[DOMAIN s]
<1> DEFINE G == [p \in CheckStates \X Controls |-> CheckControl(data, p[1], p[2])]
           H == CHOOSE F : CheckedIn(data, s, F)
<1>1. Folding(CheckStates, Controls, G)
  BY CheckTypes DEF Folding
<1>2. PICK F : Stages(CheckStates, G, Unchecked, s, F)
  <2> HIDE DEF G
  <2> QED
    BY <1>1, UncheckedType, StagesExist
<1>3. ASSUME NEW u \in SUBSET DOMAIN s, u # {}
      PROVE  F[u] = CheckControl(data, F[u \ {Max(u)}], s[Max(u)])
  <2>1. s[Max(u)] \in Controls
    <3>1. DOMAIN s = 1 .. Len(s) /\ Len(s) \in Nat
      BY LenProperties
    <3>2. Max(u) \in DOMAIN s
      BY <1>3, <3>1, LastOf
    <3> QED
      BY <3>1, <3>2
  <2>2. F[u \ {Max(u)}] \in CheckStates
    BY <1>2 DEF Stages
  <2>3. F[u] = G[<<F[u \ {Max(u)}], s[Max(u)]>>]
    BY <1>2, <1>3 DEF Stages
  <2> QED
    BY <2>1, <2>2, <2>3
<1>4. CheckedIn(data, s, F)
  <2> HIDE DEF G
  <2> QED
    BY <1>2, <1>3 DEF CheckedIn, Stages
<1>5. CheckedIn(data, s, H)
  BY <1>4
<1>6. Checked(data, s) = H[DOMAIN s]
  BY DEF Checked, FoldLeft, MapThenFoldSet, CheckedIn, Unchecked
<1> QED
  BY <1>5, <1>6

LEMMA CheckedPrefix ==
  ASSUME NEW data, NEW s, NEW F, CheckedIn(data, s, F), NEW k \in Nat, 1 .. k + 1 \in SUBSET DOMAIN s
  PROVE  F[1 .. k + 1] = CheckControl(data, F[1 .. k], s[k + 1])
<1> DEFINE u == 1 .. k + 1
<1>1. u # {} /\ Max(u) = k + 1 /\ u \ {Max(u)} = 1 .. k
  BY PrefixLast
<1>2. u \in SUBSET DOMAIN s
  OBVIOUS
<1> HIDE DEF u
<1>3. F[u] = CheckControl(data, F[u \ {Max(u)}], s[Max(u)])
  BY <1>1, <1>2 DEF CheckedIn
<1> QED
  BY <1>1, <1>3 DEF u

\* Controls t that begin with s, all of them within the data.
Begins(data, s, t) ==
  /\ Len(s) <= Len(t)
  /\ \A i \in 1 .. Len(s) : t[i] = s[i] /\ s[i].offset <= Len(data)

\* Data behind the controls changes nothing, and one more control is checked
\* where the others left it.
LEMMA CheckedAgain ==
  ASSUME NEW data \in Seq(Int), NEW more \in Seq(Int), NEW s \in Seq(Controls), NEW t \in Seq(Controls),
         Begins(data, s, t), NEW F, CheckedIn(data, s, F), NEW H, CheckedIn(data \o more, t, H),
         NEW k \in 0 .. Len(s)
  PROVE  F[1 .. k] \in CheckStates /\ H[1 .. k] = F[1 .. k]
<1> DEFINE N == Len(s)
           d == data \o more
           P == {n \in 0 .. N : F[1 .. n] \in CheckStates /\ H[1 .. n] = F[1 .. n]}
<1>0. /\ N \in Nat /\ DOMAIN s = 1 .. N /\ Len(t) \in Nat /\ DOMAIN t = 1 .. Len(t)
      /\ \A i \in 1 .. N : s[i] \in Controls
      /\ N <= Len(t) /\ \A i \in 1 .. N : t[i] = s[i] /\ s[i].offset <= Len(data)
  BY DEF Begins
<1>1. 0 \in P
  <2>1. 1 .. 0 = {} /\ 0 \in 0 .. N
    BY <1>0
  <2> QED
    BY <2>1, UncheckedType DEF CheckedIn
<1>2. ASSUME NEW n \in 0 .. N - 1, n \in P PROVE n + 1 \in P
  <2>1. /\ 1 .. n + 1 \in SUBSET DOMAIN s /\ 1 .. n + 1 \in SUBSET DOMAIN t
        /\ t[n + 1] = s[n + 1] /\ n \in Nat /\ n + 1 \in 1 .. N /\ s[n + 1] \in Controls
        /\ s[n + 1].offset <= Len(data)
    <3> HIDE DEF N
    <3>1. n \in Nat /\ n + 1 \in 1 .. N /\ n + 1 <= Len(t)
      BY <1>0
    <3>2. 1 .. n + 1 \in SUBSET DOMAIN s /\ 1 .. n + 1 \in SUBSET DOMAIN t
      BY <1>0, <3>1
    <3> QED
      BY <1>0, <3>1, <3>2
  <2>2. F[1 .. n + 1] = CheckControl(data, F[1 .. n], s[n + 1])
    BY <2>1, CheckedPrefix
  <2>3. H[1 .. n + 1] = CheckControl(d, H[1 .. n], t[n + 1])
    <3> HIDE DEF d
    <3>1. CheckedIn(d, t, H)
      BY DEF d
    <3> QED
      BY <2>1, <3>1, CheckedPrefix
  <2>4. F[1 .. n] \in CheckStates /\ H[1 .. n] = F[1 .. n]
    BY <1>2
  <2>5. F[1 .. n + 1] \in CheckStates
    BY <2>1, <2>2, <2>4, CheckTypes
  <2>6. CheckControl(d, F[1 .. n], s[n + 1]) = CheckControl(data, F[1 .. n], s[n + 1])
    <3> DEFINE st == F[1 .. n]
               c == s[n + 1]
    <3>1. /\ st.cursor \in Nat /\ c.offset \in Nat /\ Len(data) \in Nat /\ Len(d) \in Nat
          /\ Len(d) >= Len(data) /\ c.offset <= Len(data)
          /\ \A i \in 1 .. Len(data) : d[i] = data[i]
      <4>1. st.cursor \in Nat
        BY <2>4 DEF CheckStates
      <4>2. c.offset \in Nat /\ c.offset <= Len(data)
        BY <2>1 DEF Controls
      <4> QED
        BY <4>1, <4>2
    <3> HIDE DEF st, c, d
    <3>2. c.offset \in st.cursor .. Len(d) <=> c.offset \in st.cursor .. Len(data)
      BY <3>1
    <3>3. SubSeq(d, st.cursor + 1, c.offset) = SubSeq(data, st.cursor + 1, c.offset)
      <4> DEFINE from == st.cursor + 1
                 upto == c.offset
      <4>0. from \in Nat \ {0} /\ upto \in Nat /\ upto <= Len(data) /\ Len(data) \in Nat
        BY <3>1, SMTT(30)
      <4> HIDE DEF from, upto
      <4>1. CASE upto < from
        <5>1. SubSeq(d, from, upto) = <<>>
          BY <4>0, <4>1, SubSeqEmpty
        <5>2. SubSeq(data, from, upto) = <<>>
          BY <4>0, <4>1, SubSeqEmpty
        <5> QED
          BY <5>1, <5>2 DEF from, upto
      <4>2. CASE ~(upto < from)
        <5>1. from \in 1 .. Len(data) /\ upto \in 1 .. Len(data)
          BY <4>0, <4>2
        <5>2. SubSeq(data \o more, from, upto) = SubSeq(data, from, upto)
          BY <5>1, SubSeqOfConcat1
        <5> QED
          BY <5>2 DEF d, from, upto
      <4> QED
        BY <4>1, <4>2
    <3>4. CheckControl(d, st, c) = CheckControl(data, st, c)
      BY <3>2, <3>3, Zenon DEF CheckControl
    <3> QED
      BY <3>4 DEF st, c
  <2> QED
    BY <2>1, <2>2, <2>3, <2>4, <2>5, <2>6
<1> HIDE DEF P
<1>3. \A n \in 0 .. N : n \in P
  BY <1>0, <1>1, <1>2, PrefixInduction
<1> QED
  BY <1>0, <1>3 DEF P

LEMMA CheckedNext ==
  ASSUME NEW data \in Seq(Int), NEW s \in Seq(Controls), \A i \in 1 .. Len(s) : s[i].offset <= Len(data)
  PROVE  /\ Checked(data, s) \in CheckStates
         /\ \A c \in Controls : Checked(data, Append(s, c)) = CheckControl(data, Checked(data, s), c)
         /\ \A more \in Seq(Int) : Checked(data \o more, s) = Checked(data, s)
<1> DEFINE N == Len(s)
<1>0. N \in 0 .. N /\ DOMAIN s = 1 .. N /\ N \in Nat
  OBVIOUS
<1>1. PICK F : CheckedIn(data, s, F) /\ Checked(data, s) = F[DOMAIN s]
  BY CheckedStages
<1>2. ASSUME NEW t \in Seq(Controls), N <= Len(t), \A i \in 1 .. N : t[i] = s[i],
             NEW more \in Seq(Int), NEW H, CheckedIn(data \o more, t, H)
      PROVE  F[1 .. N] \in CheckStates /\ H[1 .. N] = F[1 .. N]
  <2>1. Begins(data, s, t)
    BY <1>2 DEF Begins
  <2> QED
    BY <1>0, <1>1, <1>2, <2>1, CheckedAgain
<1>3. data \o <<>> = data /\ <<>> \in Seq(Int)
  BY ConcatEmptySeq
<1>4. Checked(data, s) \in CheckStates
  <2>1. CheckedIn(data \o <<>>, s, F)
    BY <1>1, <1>3
  <2> QED
    <3>0. N <= Len(s) /\ \A i \in 1 .. N : s[i] = s[i]
      BY <1>0
    <3>1. F[1 .. N] \in CheckStates
      BY <1>2, <1>3, <2>1, <3>0
    <3> QED
      BY <1>0, <1>1, <3>1
<1>5. ASSUME NEW more \in Seq(Int) PROVE Checked(data \o more, s) = Checked(data, s)
  <2>1. data \o more \in Seq(Int)
    OBVIOUS
  <2>2. PICK H : CheckedIn(data \o more, s, H) /\ Checked(data \o more, s) = H[DOMAIN s]
    BY <2>1, CheckedStages
  <2>3. H[1 .. N] = F[1 .. N]
    BY <1>0, <1>2, <2>2
  <2> QED
    BY <1>0, <1>1, <2>2, <2>3
<1>6. ASSUME NEW c \in Controls
      PROVE  Checked(data, Append(s, c)) = CheckControl(data, Checked(data, s), c)
  <2> DEFINE t == Append(s, c)
  <2>1. /\ t \in Seq(Controls) /\ Len(t) = N + 1 /\ t[N + 1] = c /\ DOMAIN t = 1 .. N + 1
        /\ \A i \in 1 .. N : t[i] = s[i]
    OBVIOUS
  <2> HIDE DEF t
  <2>2. PICK H : CheckedIn(data, t, H) /\ Checked(data, t) = H[DOMAIN t]
    BY <2>1, CheckedStages
  <2>3. H[1 .. N] = F[1 .. N]
    <3>1. CheckedIn(data \o <<>>, t, H) /\ N <= Len(t)
      BY <1>0, <1>3, <2>1, <2>2
    <3> QED
      BY <1>0, <1>2, <1>3, <2>1, <3>1
  <2>4. H[1 .. N + 1] = CheckControl(data, H[1 .. N], t[N + 1])
    <3>1. 1 .. N + 1 \in SUBSET DOMAIN t
      BY <2>1
    <3> QED
      BY <1>0, <2>2, <3>1, CheckedPrefix
  <2> QED
    BY <1>0, <1>1, <2>1, <2>2, <2>3, <2>4 DEF t
<1> QED
  BY <1>4, <1>5, <1>6

LEMMA CheckedEmpty == Checked(<<>>, <<>>) = Unchecked
<1>1. <<>> \in Seq(Int) /\ <<>> \in Seq(Controls) /\ DOMAIN <<>> = {}
  OBVIOUS
<1>2. PICK F : CheckedIn(<<>>, <<>>, F) /\ Checked(<<>>, <<>>) = F[DOMAIN <<>>]
  BY <1>1, CheckedStages
<1> QED
  BY <1>1, <1>2 DEF CheckedIn

-----------------------------------------------------------------------------
(* What an output tells, as its data and its controls are put behind what    *)
(* it holds.                                                                 *)

Outputs ==
  [raw : Seq(Int), transmission : Seq(Int), controls : Seq(Controls), fnc1Active : BOOLEAN,
   fnc1Modifier : Int, iso15434Active : BOOLEAN, iso15434Used : BOOLEAN]

\* No control is beyond the data, and 15434 messages have ended with their format.
Placed(o) ==
  \A i \in 1 .. Len(o.controls) :
    /\ o.controls[i].offset <= Len(o.raw)
    /\ o.controls[i].kind = "iso15434end" => Len(o.raw) >= 2

LEMMA MarkText ==
  ASSUME NEW o, NEW c \in Controls
  PROVE  Mark(o, c) \in Texts
<1>1. -1 - c.assignment \in Int
  BY DEF Controls
<1>2. << -1 - c.assignment >> \in Seq(Int) /\ <<91, 41, 62, 30>> \in Seq(Int) /\ <<4>> \in Seq(Int)
      /\ <<>> \in Seq(Int)
  BY <1>1
<1> QED
  BY <1>2 DEF Mark, Texts

MarkList(o, i) ==
  [j \in DOMAIN o.controls |-> IF o.controls[j].offset = i THEN Mark(o, o.controls[j]) ELSE <<>>]

LEMMA MarksText ==
  ASSUME NEW o \in Outputs, NEW i \in Int
  PROVE  /\ MarkList(o, i) \in Seq(Texts) /\ Len(MarkList(o, i)) = Len(o.controls)
         /\ MarksAt(o, i) = FlattenSeq(MarkList(o, i))
         /\ MarksAt(o, i) \in Texts
<1>1. o.controls \in Seq(Controls)
  BY DEF Outputs
<1>2. <<>> \in Texts
  BY DEF Texts
<1>3. \A j \in DOMAIN o.controls : Mark(o, o.controls[j]) \in Texts
  BY <1>1, MarkText
<1>4. MarkList(o, i) \in Seq(Texts) /\ Len(MarkList(o, i)) = Len(o.controls)
  <2> DEFINE e(j) == IF o.controls[j].offset = i THEN Mark(o, o.controls[j]) ELSE <<>>
             N == Len(o.controls)
  <2>1. N \in Nat /\ DOMAIN o.controls = 1 .. N
    BY <1>1
  <2>2. \A j \in 1 .. N : e(j) \in Texts
    BY <1>2, <1>3, <2>1
  <2>3. MarkList(o, i) = [j \in 1 .. N |-> e(j)]
    BY <2>1 DEF MarkList
  <2> HIDE DEF e, N
  <2>4. [j \in 1 .. N |-> e(j)] \in Seq(Texts) /\ Len([j \in 1 .. N |-> e(j)]) = N
    BY <2>1, <2>2
  <2> QED
    BY <2>3, <2>4 DEF N
<1>5. MarksAt(o, i) = FlattenSeq(MarkList(o, i))
  BY DEF MarksAt, MarkList
<1> QED
  BY <1>4, <1>5, FlatText

\* Everything but the controls behind the last character.
ToldList(o) == [i \in 1 .. Len(o.raw) |-> MarksAt(o, i - 1) \o <<o.raw[i]>>]

LEMMA ToldParts ==
  ASSUME NEW o \in Outputs
  PROVE  /\ ToldList(o) \in Seq(Texts) /\ Len(ToldList(o)) = Len(o.raw)
         /\ Told(o) = FlattenSeq(ToldList(o)) \o MarksAt(o, Len(o.raw))
         /\ Told(o) \in Texts
<1> DEFINE n == Len(o.raw)
           e(i) == MarksAt(o, i - 1) \o IF i <= n THEN <<o.raw[i]>> ELSE <<>>
           l == [i \in 1 .. n + 1 |-> e(i)]
           h == [i \in 1 .. n |-> e(i)]
<1>1. n \in Nat /\ \A i \in 1 .. n : o.raw[i] \in Int
  BY DEF Outputs
<1>2. \A i \in 1 .. n + 1 : e(i) \in Texts
  <2> TAKE i \in 1 .. n + 1
  <2>1. MarksAt(o, i - 1) \in Texts
    BY MarksText
  <2>2. (IF i <= n THEN <<o.raw[i]>> ELSE <<>>) \in Texts
    <3>1. CASE i <= n
      <4>1. o.raw[i] \in Int
        BY <1>1, <3>1
      <4> QED
        BY <3>1, <4>1 DEF Texts
    <3>2. CASE ~(i <= n)
      BY <3>2 DEF Texts
    <3> QED
      BY <3>1, <3>2
  <2> QED
    BY <2>1, <2>2 DEF Texts
<1>3. e(n + 1) = MarksAt(o, n)
  <2>1. MarksAt(o, n) \in Texts
    BY <1>1, MarksText
  <2>2. (n + 1) - 1 = n /\ ~(n + 1 <= n)
    BY <1>1
  <2>3. MarksAt(o, n) \o <<>> = MarksAt(o, n)
    BY <2>1 DEF Texts
  <2> QED
    BY <2>2, <2>3
<1>4. h = ToldList(o)
  <2>1. \A i \in 1 .. n : e(i) = MarksAt(o, i - 1) \o <<o.raw[i]>>
    OBVIOUS
  <2> QED
    BY <2>1 DEF ToldList
<1>5. Told(o) = FlattenSeq(l)
  BY DEF Told
<1> HIDE DEF e
<1>6. l \in Seq(Texts) /\ h \in Seq(Texts) /\ Len(l) = n + 1 /\ Len(h) = n
      /\ l[n + 1] = e(n + 1) /\ \A i \in 1 .. n : l[i] = h[i]
  BY <1>1, <1>2
<1> HIDE DEF l, h, n
<1>7. FlattenSeq(l) = FlattenSeq(h) \o e(n + 1)
  BY <1>6, FlatLast
<1>8. FlattenSeq(l) \in Texts
  BY <1>6, FlatText
<1> QED
  BY <1>3, <1>4, <1>5, <1>6, <1>7, <1>8 DEF n

\* A character behind the data is told behind it.
LEMMA ToldData ==
  ASSUME NEW o \in Outputs, Placed(o), NEW p \in Outputs, NEW x \in Int,
         p.raw = Append(o.raw, x), p.controls = o.controls
  PROVE  Told(p) = Append(Told(o), x)
<1> DEFINE n == Len(o.raw)
<1>1. n \in Nat /\ Len(p.raw) = n + 1 /\ p.raw[n + 1] = x /\ \A i \in 1 .. n : p.raw[i] = o.raw[i]
  BY DEF Outputs
<1>2. o.controls \in Seq(Controls)
  BY DEF Outputs
<1>3. ASSUME NEW j \in 1 .. Len(o.controls)
      PROVE  Mark(p, p.controls[j]) = Mark(o, o.controls[j])
  <2>1. CASE o.controls[j].kind = "iso15434end"
    <3>1. n >= 2
      BY <2>1 DEF Placed
    <3>2. p.raw[1] = o.raw[1] /\ p.raw[2] = o.raw[2] /\ Len(p.raw) >= 2
      BY <1>1, <3>1
    <3>3. EndsUnmarked(p.raw) <=> EndsUnmarked(o.raw)
      BY <3>1, <3>2 DEF EndsUnmarked, HasFormat
    <3> QED
      BY <2>1, <3>3 DEF Mark
  <2>2. CASE o.controls[j].kind # "iso15434end"
    BY <2>2 DEF Mark
  <2> QED
    BY <2>1, <2>2
<1>4. ASSUME NEW i \in Int PROVE MarksAt(p, i) = MarksAt(o, i)
  BY <1>2, <1>3, SMTT(30) DEF MarksAt
<1>5. MarksAt(p, n + 1) = <<>>
  <2>1. MarkList(p, n + 1) \in Seq(Texts) /\ Len(MarkList(p, n + 1)) = Len(p.controls)
        /\ MarksAt(p, n + 1) = FlattenSeq(MarkList(p, n + 1))
    BY <1>1, MarksText
  <2>2. \A j \in 1 .. Len(p.controls) : p.controls[j].offset # n + 1
    <3>1. \A j \in 1 .. Len(o.controls) : o.controls[j].offset <= n /\ o.controls[j].offset \in Nat
      <4> TAKE j \in 1 .. Len(o.controls)
      <4>1. o.controls[j] \in Controls
        BY <1>2
      <4>2. o.controls[j].offset <= n
        BY DEF Placed
      <4> QED
        BY <4>1, <4>2 DEF Controls
    <3> QED
      BY <1>1, <3>1
  <2>3. \A j \in 1 .. Len(p.controls) : MarkList(p, n + 1)[j] = <<>>
    BY <1>2, <2>2 DEF MarkList
  <2> QED
    BY <2>1, <2>3, FlatNothing
<1>6. /\ ToldList(o) \in Seq(Texts) /\ Len(ToldList(o)) = n
      /\ Told(o) = FlattenSeq(ToldList(o)) \o MarksAt(o, n)
      /\ ToldList(p) \in Seq(Texts) /\ Len(ToldList(p)) = n + 1
      /\ Told(p) = FlattenSeq(ToldList(p)) \o MarksAt(p, n + 1)
  BY <1>1, ToldParts
<1>7. /\ \A i \in 1 .. n : ToldList(p)[i] = ToldList(o)[i]
      /\ ToldList(p)[n + 1] = MarksAt(o, n) \o <<x>>
  <2>1. \A i \in 1 .. n : MarksAt(p, i - 1) = MarksAt(o, i - 1)
    BY <1>4
  <2>2. MarksAt(p, n) = MarksAt(o, n) /\ (n + 1) - 1 = n
    BY <1>1, <1>4
  <2>3. ToldList(p)[n + 1] = MarksAt(p, (n + 1) - 1) \o <<p.raw[n + 1]>>
    BY <1>1 DEF ToldList
  <2>4. ToldList(p)[n + 1] = MarksAt(o, n) \o <<x>>
    BY <1>1, <2>2, <2>3
  <2>5. \A i \in 1 .. n : ToldList(p)[i] = ToldList(o)[i]
    <3> TAKE i \in 1 .. n
    <3>1. i \in 1 .. n + 1
      BY <1>1
    <3>2. ToldList(p)[i] = MarksAt(p, i - 1) \o <<p.raw[i]>>
      BY <1>1, <3>1 DEF ToldList
    <3>3. ToldList(o)[i] = MarksAt(o, i - 1) \o <<o.raw[i]>>
      BY DEF ToldList
    <3> HIDE DEF n
    <3> QED
      BY <1>1, <2>1, <3>2, <3>3
  <2> QED
    BY <2>4, <2>5
<1>8. FlattenSeq(ToldList(p)) = FlattenSeq(ToldList(o)) \o (MarksAt(o, n) \o <<x>>)
  <2> HIDE DEF n
  <2> QED
    BY <1>6, <1>7, FlatLast
<1>9. FlattenSeq(ToldList(o)) \in Texts /\ MarksAt(o, n) \in Texts /\ FlattenSeq(ToldList(p)) \in Texts
  BY <1>1, <1>6, FlatText, MarksText
<1> HIDE DEF n
<1>10. FlattenSeq(ToldList(p)) \o <<>> = FlattenSeq(ToldList(p))
  BY <1>9 DEF Texts
<1>11. FlattenSeq(ToldList(o)) \o (MarksAt(o, n) \o <<x>>) = Append(FlattenSeq(ToldList(o)) \o MarksAt(o, n), x)
  <2>1. MarksAt(o, n) \o <<x>> = Append(MarksAt(o, n), x)
    BY <1>9 DEF Texts
  <2> QED
    BY <1>9, <2>1, ConcatAppendInt, SMTT(30) DEF Texts
<1> QED
  BY <1>5, <1>6, <1>8, <1>10, <1>11

\* A control behind the data is told behind it.
LEMMA ToldControl ==
  ASSUME NEW o \in Outputs, NEW p \in Outputs, NEW c \in Controls, c.offset = Len(o.raw),
         p.raw = o.raw, p.controls = Append(o.controls, c)
  PROVE  Told(p) = Told(o) \o Mark(p, c)
<1> DEFINE n == Len(o.raw)
           m == Len(o.controls)
<1>1. n \in Nat /\ m \in Nat /\ Len(p.raw) = n /\ DOMAIN o.controls = 1 .. m
      /\ DOMAIN p.controls = 1 .. m + 1 /\ Len(p.controls) = m + 1
      /\ p.controls[m + 1] = c /\ \A j \in 1 .. m : p.controls[j] = o.controls[j]
  BY DEF Outputs
<1>2. \A d : Mark(p, d) = Mark(o, d)
  BY DEF Mark
<1>3. ASSUME NEW i \in Int
      PROVE  MarksAt(p, i) = MarksAt(o, i) \o (IF n = i THEN Mark(p, c) ELSE <<>>)
  <2>1. /\ MarkList(o, i) \in Seq(Texts) /\ Len(MarkList(o, i)) = m
        /\ MarksAt(o, i) = FlattenSeq(MarkList(o, i))
        /\ MarkList(p, i) \in Seq(Texts) /\ Len(MarkList(p, i)) = m + 1
        /\ MarksAt(p, i) = FlattenSeq(MarkList(p, i))
    BY <1>1, MarksText
  <2>2. \A j \in 1 .. m : MarkList(p, i)[j] = MarkList(o, i)[j]
    BY <1>1, <1>2 DEF MarkList
  <2>3. MarkList(p, i)[m + 1] = IF n = i THEN Mark(p, c) ELSE <<>>
    BY <1>1 DEF MarkList
  <2> HIDE DEF m, n
  <2> QED
    BY <2>1, <2>2, <2>3, FlatLast
<1>4. ToldList(p) = ToldList(o)
  <2>1. \A i \in 1 .. n : MarksAt(p, i - 1) = MarksAt(o, i - 1)
    <3> TAKE i \in 1 .. n
    <3>0. i - 1 \in Int
      OBVIOUS
    <3>1. MarksAt(p, i - 1) = MarksAt(o, i - 1) \o (IF n = i - 1 THEN Mark(p, c) ELSE <<>>)
      BY <1>3, <3>0, Zenon
    <3>2. n # i - 1
      BY <1>1
    <3>3. MarksAt(o, i - 1) \o <<>> = MarksAt(o, i - 1)
      BY MarksText DEF Texts
    <3> QED
      BY <3>1, <3>2, <3>3
  <2> QED
    BY <1>1, <2>1 DEF ToldList
<1>5. /\ ToldList(o) \in Seq(Texts)
      /\ Told(o) = FlattenSeq(ToldList(o)) \o MarksAt(o, n)
      /\ Told(p) = FlattenSeq(ToldList(p)) \o MarksAt(p, n)
  BY <1>1, ToldParts
<1>6. MarksAt(p, n) = MarksAt(o, n) \o Mark(p, c)
  <2>1. n \in Int
    BY <1>1
  <2> HIDE DEF n
  <2> QED
    BY <1>3, <2>1, Zenon
<1>7. FlattenSeq(ToldList(o)) \in Texts /\ MarksAt(o, n) \in Texts /\ Mark(p, c) \in Texts
  BY <1>1, <1>5, FlatText, MarksText, MarkText
<1> HIDE DEF n, m
<1>8. FlattenSeq(ToldList(o)) \o (MarksAt(o, n) \o Mark(p, c))
        = (FlattenSeq(ToldList(o)) \o MarksAt(o, n)) \o Mark(p, c)
  BY <1>7, TextsJoined, ZenonT(30)
<1> QED
  BY <1>4, <1>5, <1>6, <1>8

-----------------------------------------------------------------------------
(* The data of an output without its separators, and its controls at their   *)
(* places in that data.                                                      *)

LEMMA MarkedPlaces ==
  ASSUME NEW o \in Outputs, NEW i
  PROVE  Marked(o, i) <=> \E j \in 1 .. Len(o.controls) :
                             o.controls[j].kind = "fnc1separator" /\ o.controls[j].offset + 1 = i
<1>1. DOMAIN o.controls = 1 .. Len(o.controls)
  BY DEF Outputs
<1> QED
  BY <1>1 DEF Marked, ToSet

DataList(o) == [i \in 1 .. Len(o.raw) |-> IF Marked(o, i) THEN <<>> ELSE <<o.raw[i]>>]

LEMMA DataParts ==
  ASSUME NEW o \in Outputs
  PROVE  /\ DataList(o) \in Seq(Texts) /\ Len(DataList(o)) = Len(o.raw)
         /\ DataOf(o) = FlattenSeq(DataList(o))
         /\ DataOf(o) \in Texts
<1> DEFINE n == Len(o.raw)
           e(i) == IF Marked(o, i) THEN <<>> ELSE <<o.raw[i]>>
<1>1. n \in Nat /\ DOMAIN o.raw = 1 .. n /\ \A i \in 1 .. n : o.raw[i] \in Int
  BY DEF Outputs
<1>2. \A i \in 1 .. n : e(i) \in Texts
  <2> TAKE i \in 1 .. n
  <2>1. <<o.raw[i]>> \in Texts /\ <<>> \in Texts
    BY <1>1 DEF Texts
  <2> QED
    BY <2>1
<1>3. DataOf(o) = FlattenSeq(DataList(o))
  BY <1>1 DEF DataOf, DataList
<1>4. DataList(o) = [i \in 1 .. n |-> e(i)]
  BY DEF DataList
<1> HIDE DEF e, n
<1>5. [i \in 1 .. n |-> e(i)] \in Seq(Texts) /\ Len([i \in 1 .. n |-> e(i)]) = n
  BY <1>1, <1>2
<1> QED
  BY <1>3, <1>4, <1>5, FlatText DEF n

\* A character, its place marked by a separator or not.
LEMMA DataNext ==
  ASSUME NEW o \in Outputs, NEW p \in Outputs, NEW x \in Int, p.raw = Append(o.raw, x),
         \A i \in 1 .. Len(o.raw) : Marked(p, i) <=> Marked(o, i)
  PROVE  DataOf(p) = IF Marked(p, Len(o.raw) + 1) THEN DataOf(o) ELSE Append(DataOf(o), x)
<1> DEFINE n == Len(o.raw)
<1>1. n \in Nat /\ Len(p.raw) = n + 1 /\ p.raw[n + 1] = x /\ \A i \in 1 .. n : p.raw[i] = o.raw[i]
  BY DEF Outputs
<1>2. /\ DataList(o) \in Seq(Texts) /\ Len(DataList(o)) = n
      /\ DataOf(o) = FlattenSeq(DataList(o)) /\ DataOf(o) \in Texts
      /\ DataList(p) \in Seq(Texts) /\ Len(DataList(p)) = n + 1
      /\ DataOf(p) = FlattenSeq(DataList(p))
  BY <1>1, DataParts
<1>3. \A i \in 1 .. n : DataList(p)[i] = DataList(o)[i]
  <2> TAKE i \in 1 .. n
  <2>1. i \in 1 .. n + 1
    BY <1>1
  <2>2. DataList(p)[i] = IF Marked(p, i) THEN <<>> ELSE <<p.raw[i]>>
    BY <1>1, <2>1 DEF DataList
  <2>3. DataList(o)[i] = IF Marked(o, i) THEN <<>> ELSE <<o.raw[i]>>
    BY DEF DataList
  <2> QED
    BY <1>1, <2>2, <2>3
<1>4. DataList(p)[n + 1] = IF Marked(p, n + 1) THEN <<>> ELSE <<x>>
  BY <1>1 DEF DataList
<1> HIDE DEF n
<1>5. DataOf(p) = DataOf(o) \o DataList(p)[n + 1]
  BY <1>2, <1>3, FlatLast
<1>6. DataOf(o) \o <<>> = DataOf(o) /\ DataOf(o) \o <<x>> = Append(DataOf(o), x)
  BY <1>2 DEF Texts
<1> QED
  BY <1>4, <1>5, <1>6 DEF n

LEMMA DataSame ==
  ASSUME NEW o \in Outputs, NEW p \in Outputs, p.raw = o.raw,
         \A i \in 1 .. Len(o.raw) : Marked(p, i) <=> Marked(o, i)
  PROVE  DataOf(p) = DataOf(o)
<1>1. DataList(p) = DataList(o)
  BY DEF DataList
<1> QED
  BY <1>1, DataParts

Separators(s) == SeparatorsBefore(s, Len(s) + 1)

LEMMA SeparatorsNext ==
  ASSUME NEW s \in Seq(Controls), NEW c \in Controls, NEW t, t = Append(s, c)
  PROVE  /\ \A i \in 1 .. Len(s) + 1 : /\ SeparatorsBefore(s, i) \in Nat
                                       /\ SeparatorsBefore(t, i) = SeparatorsBefore(s, i)
         /\ Separators(t) = Separators(s) + (IF c.kind = "fnc1separator" THEN 1 ELSE 0)
         /\ Separators(s) \in Nat
<1> DEFINE n == Len(s)
           J(u, i) == {j \in 1 .. i - 1 : u[j].kind = "fnc1separator"}
<1>1. /\ n \in Nat /\ Len(t) = n + 1 /\ t[n + 1] = c /\ \A j \in 1 .. n : t[j] = s[j]
  OBVIOUS
<1>2. ASSUME NEW u, NEW i \in 1 .. n + 2
      PROVE  IsFiniteSet(J(u, i)) /\ Cardinality(J(u, i)) \in Nat
  <2>1. i - 1 \in Nat
    BY <1>1
  <2>2. IsFiniteSet(1 .. i - 1) /\ J(u, i) \subseteq 1 .. i - 1
    BY <2>1, PrefixSize
  <2> QED
    BY <2>2, FS_Subset, FS_CardinalityType
<1>3. ASSUME NEW i \in 1 .. n + 1
      PROVE  SeparatorsBefore(s, i) \in Nat /\ SeparatorsBefore(t, i) = SeparatorsBefore(s, i)
  <2>1. J(t, i) = J(s, i)
    BY <1>1
  <2>2. SeparatorsBefore(s, i) = Cardinality(J(s, i)) /\ SeparatorsBefore(t, i) = Cardinality(J(t, i))
    BY DEF SeparatorsBefore
  <2>3. i \in 1 .. n + 2
    BY <1>1
  <2> HIDE DEF J
  <2> QED
    BY <1>2, <2>1, <2>2, <2>3
<1>4. n + 1 \in 1 .. n + 1 /\ n + 2 \in 1 .. n + 2 /\ n + 1 \in 1 .. n + 2 /\ Len(t) + 1 = n + 2
  BY <1>1
<1>5. Separators(s) = Cardinality(J(s, n + 1)) /\ Separators(t) = Cardinality(J(t, n + 2))
  BY <1>4 DEF Separators, SeparatorsBefore
<1>6. CASE c.kind = "fnc1separator"
  <2>1. J(t, n + 2) = J(s, n + 1) \cup {n + 1} /\ n + 1 \notin J(s, n + 1)
    BY <1>1, <1>6
  <2>2. IsFiniteSet(J(s, n + 1)) /\ Cardinality(J(s, n + 1)) \in Nat
    BY <1>2, <1>4
  <2> HIDE DEF J
  <2>3. Cardinality(J(s, n + 1) \cup {n + 1}) = Cardinality(J(s, n + 1)) + 1
    BY <2>1, <2>2, FS_AddElement
  <2> QED
    BY <1>5, <1>6, <2>1, <2>3, <2>2, <1>3, <1>4
<1>7. CASE c.kind # "fnc1separator"
  <2>1. J(t, n + 2) = J(s, n + 1)
    BY <1>1, <1>7
  <2>2. Cardinality(J(s, n + 1)) \in Nat
    BY <1>2, <1>4
  <2> HIDE DEF J
  <2> QED
    BY <1>3, <1>4, <1>5, <1>7, <2>1, <2>2
<1>8. Separators(s) \in Nat
  BY <1>3, <1>4 DEF Separators
<1> QED
  BY <1>3, <1>6, <1>7, <1>8

LEMMA SeparatorsNat ==
  ASSUME NEW s \in Seq(Controls)
  PROVE  Separators(s) \in Nat
<1> DEFINE c == [kind |-> "eci", offset |-> 0, assignment |-> 0]
<1>1. c \in Controls
  BY DEF Controls, Kinds
<1> HIDE DEF c
<1> QED
  BY <1>1, SeparatorsNext

LEMMA SeparatorsNone == Separators(<<>>) = 0
<1>1. Len(<<>>) + 1 = 1 /\ 1 .. 1 - 1 = {}
  OBVIOUS
<1>2. {j \in 1 .. 1 - 1 : <<>>[j].kind = "fnc1separator"} = {}
  BY <1>1
<1> QED
  BY <1>1, <1>2, FS_EmptySet DEF Separators, SeparatorsBefore

\* The controls at their places, one more control behind the data.
LEMMA ControlsNext ==
  ASSUME NEW s \in Seq(Controls), NEW c \in Controls, NEW o, o.controls = s, NEW p,
         p.controls = Append(s, c), c.offset - Separators(s) \in Nat, ControlsOf(o) \in Seq(Controls)
  PROVE  /\ [c EXCEPT !.offset = @ - Separators(s)] \in Controls
         /\ ControlsOf(p) = Append(ControlsOf(o), [c EXCEPT !.offset = @ - Separators(s)])
<1> DEFINE n == Len(s)
           t == p.controls
           k == [c EXCEPT !.offset = @ - Separators(s)]
           e(u, i) == [u[i] EXCEPT !.offset = @ - SeparatorsBefore(u, i)]
<1>1. /\ n \in Nat /\ Len(t) = n + 1 /\ t[n + 1] = c /\ \A j \in 1 .. n : t[j] = s[j]
      /\ DOMAIN s = 1 .. n /\ DOMAIN t = 1 .. n + 1
  OBVIOUS
<1>2. k \in Controls
  <2>1. c = [kind |-> c.kind, offset |-> c.offset, assignment |-> c.assignment]
        /\ c.kind \in Kinds /\ c.assignment \in Int
    BY DEF Controls
  <2>2. k = [kind |-> c.kind, offset |-> c.offset - Separators(s), assignment |-> c.assignment]
    BY <2>1
  <2> QED
    BY <2>1, <2>2 DEF Controls
<1>3. \A i \in 1 .. n + 1 : SeparatorsBefore(t, i) = SeparatorsBefore(s, i)
  BY SeparatorsNext
<1>4. ControlsOf(o) = [i \in 1 .. n |-> e(s, i)] /\ ControlsOf(p) = [i \in 1 .. n + 1 |-> e(t, i)]
  BY <1>1 DEF ControlsOf
<1>5. e(t, n + 1) = k
  <2>1. SeparatorsBefore(t, n + 1) = Separators(s)
    BY <1>1, <1>3 DEF Separators
  <2> QED
    BY <1>1, <2>1
<1>6. \A i \in 1 .. n : e(t, i) = e(s, i)
  BY <1>1, <1>3
<1> HIDE DEF e, k, t, n
<1>7. Len(ControlsOf(o)) = n
  BY <1>1, <1>4
<1>8. [i \in 1 .. n + 1 |-> e(t, i)] = Append([i \in 1 .. n |-> e(s, i)], k)
  BY <1>1, <1>5, <1>6
<1> QED
  BY <1>2, <1>4, <1>8 DEF k

-----------------------------------------------------------------------------
(* The invariant of an output the ISO reader builds: what it has sent tells  *)
(* what it holds, and the writer would take what it holds so far.            *)

Tells(o) == Received(o.transmission) = Got(Told(o))

\* A separator stands in the data as well.
Separated(o) ==
  \A i \in 1 .. Len(o.controls) : o.controls[i].kind = "fnc1separator" =>
    o.controls[i].offset < Len(o.raw)

Stripped(o) ==
  /\ ControlsOf(o) \in Seq(Controls)
  /\ \A i \in 1 .. Len(ControlsOf(o)) : ControlsOf(o)[i].offset <= Len(DataOf(o))
  /\ Len(o.raw) = Len(DataOf(o)) + Separators(o.controls)
  /\ Separators(o.controls) = 0 => DataOf(o) = o.raw
  /\ Separators(o.controls) # 0 => \E i \in 1 .. Len(o.raw) : o.raw[i] = 29

Verdict(o) == Checked(DataOf(o), ControlsOf(o))

\* Outside a 15434 message the writer has nothing against the controls, and would
\* take an FNC1 start where the reader takes one.
Judged(o) ==
  ~o.iso15434Used =>
    /\ Verdict(o).ok
    /\ Verdict(o).active = o.fnc1Active
    /\ Verdict(o).cursor <= Len(DataOf(o))
    /\ Separators(o.controls) = 0 => Verdict(o).sent = SubSeq(o.raw, 1, Verdict(o).cursor)

\* A 15434 message is the only one of its kind, and at most assignments stand
\* beside its start and its end.
Started(o, i) == o.controls[i].kind = "iso15434start" /\ o.controls[i].offset = 0
Ended(o, j)   == o.controls[j].kind = "iso15434end" /\ o.controls[j].offset >= 2

Bracketed(o) ==
  /\ ~o.iso15434Used =>
       /\ ~o.iso15434Active
       /\ \A i \in 1 .. Len(o.controls) : o.controls[i].kind \notin {"iso15434start", "iso15434end"}
       /\ o.fnc1Modifier = 0 =>
            ~o.fnc1Active /\ \A i \in 1 .. Len(o.controls) : o.controls[i].kind = "eci"
  /\ o.iso15434Used =>
       /\ ~o.fnc1Active
       /\ \E i \in 1 .. Len(o.controls) :
            /\ Started(o, i)
            /\ o.iso15434Active =>
                 \A k \in 1 .. Len(o.controls) \ {i} : o.controls[k].kind = "eci"
            /\ ~o.iso15434Active =>
                 /\ HasFormat(o.raw)
                 /\ \E j \in 1 .. Len(o.controls) :
                      /\ i < j /\ Ended(o, j)
                      /\ \A k \in 1 .. Len(o.controls) \ {i, j} : o.controls[k].kind = "eci"

Sound(o) ==
  /\ o \in Outputs
  /\ Placed(o)
  /\ Tells(o)
  /\ Separated(o)
  /\ Stripped(o)
  /\ Judged(o)
  /\ Bracketed(o)

SameFlags(o, p) ==
  /\ p.fnc1Active = o.fnc1Active
  /\ p.fnc1Modifier = o.fnc1Modifier
  /\ p.iso15434Active = o.iso15434Active
  /\ p.iso15434Used = o.iso15434Used

\* A character as it is sent.
Escaped(x) == IF x = Backslash THEN <<Backslash, Backslash>> ELSE <<x>>

LEMMA EscapedReceived ==
  ASSUME NEW s \in Seq(Int), NEW g, Received(s) = Got(g), NEW x \in Int
  PROVE  s \o Escaped(x) \in Seq(Int) /\ Received(s \o Escaped(x)) = Got(Append(g, x))
<1>1. Backslash \in Int
  BY DEF Backslash
<1>2. CASE x = Backslash
  <2>1. s \o Escaped(x) = Append(Append(s, x), x)
    BY <1>1, <1>2 DEF Escaped
  <2>2. Append(s, x) \in Seq(Int) /\ Append(Append(s, x), x) \in Seq(Int)
    OBVIOUS
  <2>3. Received(Append(s, x)) = Waits(g, 7, 0)
    <3>1. Received(Append(s, x)) = Receive(Got(g), x)
      BY ReceivedNext
    <3>2. Receive(Got(g), x) = Waits(g, 7, 0)
      BY <1>2, GotNext
    <3> QED
      BY <3>1, <3>2
  <2>4. Received(Append(Append(s, x), x)) = Receive(Waits(g, 7, 0), x)
    BY <2>2, <2>3, ReceivedNext
  <2>5. Receive(Waits(g, 7, 0), x) = Got(Append(g, x))
    BY <1>2, GotNext
  <2> QED
    BY <2>1, <2>2, <2>4, <2>5
<1>3. CASE x # Backslash
  <2>1. s \o Escaped(x) = Append(s, x) /\ Append(s, x) \in Seq(Int)
    BY <1>3 DEF Escaped
  <2>2. Received(Append(s, x)) = Receive(Got(g), x)
    BY ReceivedNext
  <2>3. Receive(Got(g), x) = Got(Append(g, x))
    BY <1>3, GotNext
  <2> QED
    BY <2>1, <2>2, <2>3
<1> QED
  BY <1>2, <1>3

LEMMA FlagsSame ==
  ASSUME NEW o, NEW p, SameFlags(o, p), Bracketed(o), o \in Outputs, p \in Outputs,
         p.controls = o.controls, NEW x, p.raw = Append(o.raw, x)
  PROVE  Bracketed(p)
<1>1. HasFormat(o.raw) => HasFormat(p.raw)
  <2>1. /\ Len(p.raw) = Len(o.raw) + 1 /\ Len(o.raw) \in Nat
        /\ \A i \in 1 .. Len(o.raw) : p.raw[i] = o.raw[i]
    BY DEF Outputs
  <2> QED
    BY <2>1 DEF HasFormat
<1> QED
  BY <1>1 DEF SameFlags, Bracketed, Started, Ended

\* A character is put behind the data.
LEMMA SoundData ==
  ASSUME NEW o, Sound(o), NEW x \in Int, NEW p \in Outputs, SameFlags(o, p),
         p.raw = Append(o.raw, x), p.transmission = o.transmission \o Escaped(x),
         p.controls = o.controls
  PROVE  Sound(p)
<1> DEFINE n == Len(o.raw)
<1>1. o \in Outputs /\ Placed(o) /\ Tells(o) /\ Separated(o) /\ Stripped(o) /\ Judged(o) /\ Bracketed(o)
  BY DEF Sound
<1>2. /\ n \in Nat /\ Len(p.raw) = n + 1 /\ p.raw[n + 1] = x /\ \A i \in 1 .. n : p.raw[i] = o.raw[i]
      /\ o.raw \in Seq(Int) /\ o.transmission \in Seq(Int) /\ o.controls \in Seq(Controls)
  BY <1>1 DEF Outputs
<1>3. \A i \in 1 .. Len(o.controls) : o.controls[i].offset \in Nat
  <2> TAKE i \in 1 .. Len(o.controls)
  <2>1. o.controls[i] \in Controls
    BY <1>2
  <2> QED
    BY <2>1 DEF Controls
<1>4. Placed(p)
  BY <1>1, <1>2, <1>3 DEF Placed
<1>5. Separated(p)
  BY <1>1, <1>2, <1>3 DEF Separated
<1>6. Tells(p)
  <2>1. Told(p) = Append(Told(o), x)
    BY <1>1, ToldData
  <2>2. Received(p.transmission) = Got(Append(Told(o), x))
    BY <1>1, <1>2, EscapedReceived DEF Tells
  <2> QED
    BY <2>1, <2>2 DEF Tells
<1>7. DataOf(p) = Append(DataOf(o), x) /\ ControlsOf(p) = ControlsOf(o) /\ DataOf(o) \in Seq(Int)
  <2>1. \A i : Marked(p, i) <=> Marked(o, i)
    BY DEF Marked
  <2>2. ~Marked(p, n + 1)
    <3>1. \A j \in 1 .. Len(o.controls) : o.controls[j].kind = "fnc1separator" => o.controls[j].offset < n
      BY <1>1 DEF Separated
    <3>2. \A j \in 1 .. Len(o.controls) :
            ~(o.controls[j].kind = "fnc1separator" /\ o.controls[j].offset + 1 = n + 1)
      BY <1>2, <1>3, <3>1
    <3> QED
      BY <3>2, MarkedPlaces
  <2>3. DataOf(p) = Append(DataOf(o), x)
    BY <1>1, <2>1, <2>2, DataNext
  <2>4. ControlsOf(p) = ControlsOf(o)
    BY DEF ControlsOf
  <2>5. DataOf(o) \in Seq(Int)
    BY <1>1, DataParts DEF Texts
  <2> QED
    BY <2>3, <2>4, <2>5
<1>8. /\ Len(DataOf(p)) = Len(DataOf(o)) + 1 /\ Len(DataOf(o)) \in Nat
      /\ DataOf(p) = DataOf(o) \o <<x>> /\ <<x>> \in Seq(Int)
  BY <1>7
<1>9. Stripped(p)
  <2>1. \A i \in 1 .. Len(ControlsOf(o)) : ControlsOf(o)[i].offset \in Nat
    <3>1. ControlsOf(o) \in Seq(Controls)
      BY <1>1 DEF Stripped
    <3> TAKE i \in 1 .. Len(ControlsOf(o))
    <3>2. ControlsOf(o)[i] \in Controls
      BY <3>1
    <3> QED
      BY <3>2 DEF Controls
  <2>2. \A i \in 1 .. Len(ControlsOf(p)) : ControlsOf(p)[i].offset <= Len(DataOf(p))
    BY <1>1, <1>7, <1>8, <2>1 DEF Stripped
  <2>3. Separators(o.controls) \in Nat
    BY <1>2, SeparatorsNat
  <2>4. Separators(o.controls) # 0 => \E i \in 1 .. Len(p.raw) : p.raw[i] = 29
    <3>1. SUFFICES ASSUME Separators(o.controls) # 0 PROVE \E i \in 1 .. Len(p.raw) : p.raw[i] = 29
      OBVIOUS
    <3>2. PICK i \in 1 .. n : o.raw[i] = 29
      BY <1>1, <3>1 DEF Stripped
    <3>3. i \in 1 .. Len(p.raw) /\ p.raw[i] = 29
      BY <1>2, <3>2
    <3> QED
      BY <3>3
  <2>5. n = Len(DataOf(o)) + Separators(o.controls)
    BY <1>1 DEF Stripped
  <2>6. Len(p.raw) = Len(DataOf(p)) + Separators(o.controls)
    BY <1>2, <1>8, <2>3, <2>5
  <2>7. Separators(o.controls) = 0 => DataOf(p) = p.raw
    BY <1>1, <1>7 DEF Stripped
  <2>8. ControlsOf(p) \in Seq(Controls)
    BY <1>1, <1>7 DEF Stripped
  <2> QED
    BY <2>2, <2>4, <2>6, <2>7, <2>8 DEF Stripped
<1>10. Judged(p)
  <2>1. SUFFICES ASSUME ~o.iso15434Used PROVE Judged(p)
    BY DEF Judged, SameFlags
  <2>2. ControlsOf(o) \in Seq(Controls) /\ \A i \in 1 .. Len(ControlsOf(o)) : ControlsOf(o)[i].offset <= Len(DataOf(o))
    BY <1>1 DEF Stripped
  <2>3. Verdict(p) = Verdict(o) /\ Verdict(o) \in CheckStates
    BY <1>7, <1>8, <2>2, CheckedNext DEF Verdict
  <2>4. Verdict(o).cursor \in Nat
    BY <2>3 DEF CheckStates
  <2>5. Verdict(o).cursor <= Len(DataOf(o))
    BY <1>1, <2>1 DEF Judged
  <2>8. Verdict(p).ok /\ Verdict(p).active = p.fnc1Active /\ Verdict(p).cursor <= Len(DataOf(p))
    <3>1. Verdict(o).ok /\ Verdict(o).active = o.fnc1Active
      BY <1>1, <2>1 DEF Judged
    <3>2. p.fnc1Active = o.fnc1Active
      BY DEF SameFlags
    <3>3. Verdict(o).cursor <= Len(DataOf(p))
      BY <1>8, <2>4, <2>5
    <3> QED
      BY <2>3, <3>1, <3>2, <3>3
  <2>6. CASE Separators(o.controls) = 0
    <3>1. Len(DataOf(o)) = n
      BY <1>1, <2>6 DEF Stripped
    <3>2. SubSeq(p.raw, 1, Verdict(o).cursor) = SubSeq(o.raw, 1, Verdict(o).cursor)
      BY <1>2, <2>4, <2>5, <3>1
    <3>3. Verdict(p).sent = SubSeq(p.raw, 1, Verdict(p).cursor)
      BY <1>1, <2>1, <2>3, <2>6, <3>2 DEF Judged
    <3> QED
      BY <2>8, <3>3 DEF Judged
  <2>7. CASE Separators(o.controls) # 0
    BY <2>7, <2>8 DEF Judged
  <2> QED
    BY <2>6, <2>7
<1>11. Bracketed(p)
  BY <1>1, FlagsSame
<1> QED
  BY <1>4, <1>5, <1>6, <1>9, <1>10, <1>11 DEF Sound

\* What the writer makes of a control behind the data.
LEMMA VerdictNext ==
  ASSUME NEW data \in Seq(Int), NEW st \in CheckStates, NEW k \in Controls, k.offset = Len(data),
         st.ok, st.cursor <= Len(data), NEW v, v = CheckControl(data, st, k)
  PROVE  /\ k.kind = "eci" => v.ok = (k.assignment \in 0 .. MaxAssignment)
         /\ k.kind = "fnc1start" => v.ok = (~st.active /\ MayStart(Sent(data, st, k)))
         /\ k.kind \in {"fnc1separator", "fnc1end"} => v.ok = st.active
         /\ v.cursor = Len(data)
         /\ v.active = (k.kind = "fnc1start" \/ (st.active /\ k.kind # "fnc1end"))
         /\ k.kind # "fnc1separator" => v.sent = Sent(data, st, k)
         /\ st.sent = SubSeq(data, 1, st.cursor) => Sent(data, st, k) = data
<1>1. st.cursor \in Nat /\ st.active \in BOOLEAN /\ st.sent \in Seq(Int) /\ Len(data) \in Nat
  BY DEF CheckStates
<1>2. ~(~st.ok \/ k.offset \notin st.cursor .. Len(data))
  BY <1>1
<1> DEFINE ok == CASE k.kind = "eci"       -> k.assignment \in 0 .. MaxAssignment
                   [] k.kind = "fnc1start" -> ~st.active /\ MayStart(Sent(data, st, k))
                   [] OTHER                -> st.active
           active == k.kind = "fnc1start" \/ (st.active /\ k.kind # "fnc1end")
           sent == IF k.kind = "fnc1separator" THEN Append(Sent(data, st, k), 0) ELSE Sent(data, st, k)
<1>3. v = [ok |-> ok, cursor |-> k.offset, active |-> active, sent |-> sent]
  BY <1>2 DEF CheckControl, Sent
<1>4. v.ok = ok /\ v.cursor = k.offset /\ v.active = active /\ v.sent = sent
  <2> HIDE DEF ok, active, sent
  <2> QED
    BY <1>3
<1>5. st.sent = SubSeq(data, 1, st.cursor) => Sent(data, st, k) = data
  <2>1. SUFFICES ASSUME st.sent = SubSeq(data, 1, st.cursor) PROVE Sent(data, st, k) = data
    OBVIOUS
  <2>2. SubSeq(data, 1, st.cursor) \o SubSeq(data, st.cursor + 1, Len(data)) = SubSeq(data, 1, Len(data))
    <3>1. /\ 1 \in 1 .. Len(data) + 1 /\ st.cursor \in 1 - 1 .. Len(data)
          /\ Len(data) \in st.cursor .. Len(data)
      BY <1>1
    <3> QED
      BY <3>1, ConcatAdjacentSubSeq
  <2>3. SubSeq(data, 1, Len(data)) = data
    BY SubSeqFull
  <2> QED
    BY <2>1, <2>2, <2>3 DEF Sent
<1>6. k.kind = "eci" => ok = (k.assignment \in 0 .. MaxAssignment)
  OBVIOUS
<1>7. k.kind = "fnc1start" => ok = (~st.active /\ MayStart(Sent(data, st, k)))
  OBVIOUS
<1>8. k.kind \in {"fnc1separator", "fnc1end"} => ok = st.active
  OBVIOUS
<1> QED
  BY <1>4, <1>5, <1>6, <1>7, <1>8

\* A control behind the data, other than a separator.
Behind(o, p, c) ==
  /\ c \in Controls /\ c.offset = Len(o.raw)
  /\ c.kind = "iso15434end" => Len(o.raw) >= 2
  /\ p \in Outputs /\ p.raw = o.raw /\ p.controls = Append(o.controls, c)
  /\ Received(p.transmission) = Got(Told(o) \o Mark(p, c))

\* A control at its place in the data.
Put(o, c) == [c EXCEPT !.offset = @ - Separators(o.controls)]

LEMMA PutType ==
  ASSUME NEW o, o \in Outputs, Stripped(o), NEW c \in Controls, c.offset = Len(o.raw)
  PROVE  /\ Put(o, c) \in Controls /\ Put(o, c).kind = c.kind /\ Put(o, c).assignment = c.assignment
         /\ Put(o, c).offset = Len(DataOf(o)) /\ c.offset - Separators(o.controls) \in Nat
         /\ Len(DataOf(o)) \in Nat /\ DataOf(o) \in Seq(Int)
<1>1. o.controls \in Seq(Controls) /\ Len(o.raw) \in Nat
  BY DEF Outputs
<1>2. Separators(o.controls) \in Nat
  BY <1>1, SeparatorsNat
<1>3. DataOf(o) \in Seq(Int)
  BY DataParts DEF Texts
<1>4. Len(DataOf(o)) \in Nat
  BY <1>3
<1>5. Len(o.raw) = Len(DataOf(o)) + Separators(o.controls)
  BY DEF Stripped
<1>6. c.offset - Separators(o.controls) = Len(DataOf(o))
  BY <1>1, <1>2, <1>4, <1>5
<1>7. c = [kind |-> c.kind, offset |-> c.offset, assignment |-> c.assignment]
      /\ c.kind \in Kinds /\ c.assignment \in Int
  BY DEF Controls
<1>8. Put(o, c) = [kind |-> c.kind, offset |-> Len(DataOf(o)), assignment |-> c.assignment]
  BY <1>6, <1>7 DEF Put
<1>9. Put(o, c) \in Controls
  BY <1>4, <1>7, <1>8 DEF Controls
<1> QED
  BY <1>3, <1>4, <1>6, <1>8, <1>9

LEMMA ControlBehind ==
  ASSUME NEW o, Sound(o), NEW c, c.kind # "fnc1separator", NEW p, Behind(o, p, c)
  PROVE  /\ Placed(p) /\ Tells(p) /\ Separated(p) /\ Stripped(p)
         /\ Put(o, c) \in Controls /\ DataOf(p) = DataOf(o) /\ DataOf(o) \in Seq(Int)
         /\ Separators(p.controls) = Separators(o.controls)
         /\ Verdict(o) \in CheckStates
         /\ Verdict(p) = CheckControl(DataOf(o), Verdict(o), Put(o, c))
<1> DEFINE n == Len(o.raw)
           m == Len(o.controls)
<1>1. o \in Outputs /\ Placed(o) /\ Tells(o) /\ Separated(o) /\ Stripped(o)
  BY DEF Sound
<1>2. /\ n \in Nat /\ m \in Nat /\ o.controls \in Seq(Controls)
  BY <1>1 DEF Outputs
<1>3. /\ c \in Controls /\ c.offset = n /\ p \in Outputs /\ p.raw = o.raw
      /\ p.controls = Append(o.controls, c)
      /\ c.kind = "iso15434end" => Len(o.raw) >= 2
      /\ Received(p.transmission) = Got(Told(o) \o Mark(p, c))
  BY DEF Behind
<1>4. /\ Len(p.controls) = m + 1 /\ p.controls[m + 1] = c
      /\ \A j \in 1 .. m : p.controls[j] = o.controls[j]
  BY <1>2, <1>3
<1>5. \A j \in 1 .. m + 1 : j \in 1 .. m \/ j = m + 1
  BY <1>2
<1>6. Placed(p)
  <2> SUFFICES ASSUME NEW j \in 1 .. m + 1
               PROVE  /\ p.controls[j].offset <= n
                      /\ p.controls[j].kind = "iso15434end" => n >= 2
    BY <1>3, <1>4 DEF Placed
  <2>1. CASE j \in 1 .. m
    BY <1>1, <1>4, <2>1 DEF Placed
  <2>2. CASE j = m + 1
    BY <1>2, <1>3, <1>4, <2>2
  <2> QED
    BY <1>5, <2>1, <2>2
<1>7. Tells(p)
  <2>1. Told(p) = Told(o) \o Mark(p, c)
    BY <1>1, <1>3, ToldControl
  <2> QED
    BY <1>3, <2>1 DEF Tells
<1>8. Separated(p)
  <2> SUFFICES ASSUME NEW j \in 1 .. m + 1, p.controls[j].kind = "fnc1separator"
               PROVE  p.controls[j].offset < n
    BY <1>3, <1>4 DEF Separated
  <2>1. j \in 1 .. m
    BY <1>4, <1>5
  <2> QED
    BY <1>1, <1>4, <2>1 DEF Separated
<1>9. DataOf(p) = DataOf(o) /\ DataOf(o) \in Seq(Int)
  <2>1. \A i : Marked(p, i) <=> Marked(o, i)
    <3> TAKE i
    <3>1. Marked(p, i) <=> \E j \in 1 .. m + 1 :
                             p.controls[j].kind = "fnc1separator" /\ p.controls[j].offset + 1 = i
      BY <1>3, <1>4, MarkedPlaces, SMTT(30)
    <3>2. Marked(o, i) <=> \E j \in 1 .. m :
                             o.controls[j].kind = "fnc1separator" /\ o.controls[j].offset + 1 = i
      BY <1>1, MarkedPlaces
    <3>3. 1 .. m \subseteq 1 .. m + 1
      BY <1>2
    <3> QED
      BY <1>4, <1>5, <3>1, <3>2, <3>3, Zenon
  <2>2. DataOf(p) = DataOf(o)
    BY <1>1, <1>3, <2>1, DataSame
  <2> QED
    BY <1>1, <2>2, DataParts DEF Texts
<1>10. /\ Put(o, c) \in Controls /\ Put(o, c).offset = Len(DataOf(o))
       /\ c.offset - Separators(o.controls) \in Nat /\ Len(DataOf(o)) \in Nat
  BY <1>1, <1>3, PutType
<1>11. ControlsOf(p) = Append(ControlsOf(o), Put(o, c)) /\ ControlsOf(o) \in Seq(Controls)
  <2>1. ControlsOf(o) \in Seq(Controls)
    BY <1>1 DEF Stripped
  <2> QED
    BY <1>2, <1>3, <1>10, <2>1, ControlsNext DEF Put
<1>12. Separators(p.controls) = Separators(o.controls)
  <2>1. Separators(p.controls) = Separators(o.controls) + (IF c.kind = "fnc1separator" THEN 1 ELSE 0)
    BY <1>2, <1>3, SeparatorsNext
  <2>2. Separators(o.controls) \in Nat
    BY <1>2, SeparatorsNat
  <2> QED
    BY <2>1, <2>2
<1>13. \A i \in 1 .. Len(ControlsOf(o)) : ControlsOf(o)[i].offset <= Len(DataOf(o))
  BY <1>1 DEF Stripped
<1>14. Stripped(p)
  <2> DEFINE s == ControlsOf(o)
             k == Put(o, c)
  <2>1. s \in Seq(Controls) /\ k \in Controls /\ k.offset = Len(DataOf(o)) /\ Len(DataOf(o)) \in Nat
    BY <1>10, <1>11
  <2>2. \A i \in 1 .. Len(s) : s[i].offset <= Len(DataOf(o))
    BY <1>13
  <2> HIDE DEF s, k
  <2>3. Append(s, k) \in Seq(Controls) /\ \A i \in 1 .. Len(Append(s, k)) : Append(s, k)[i].offset <= Len(DataOf(o))
    BY <2>1, <2>2
  <2>4. ControlsOf(p) = Append(s, k)
    BY <1>11 DEF s, k
  <2> QED
    BY <1>1, <1>3, <1>9, <1>12, <2>3, <2>4 DEF Stripped
<1>15. Verdict(o) \in CheckStates /\ Verdict(p) = CheckControl(DataOf(o), Verdict(o), Put(o, c))
  BY <1>9, <1>10, <1>11, <1>13, CheckedNext DEF Verdict
<1> QED
  BY <1>6, <1>7, <1>8, <1>9, <1>10, <1>12, <1>14, <1>15

-----------------------------------------------------------------------------
(* The operations of the reader's output.                                    *)

LEMMA OutputFields ==
  ASSUME NEW o \in Outputs
  PROVE  /\ o.raw \in Seq(Int) /\ o.transmission \in Seq(Int) /\ o.controls \in Seq(Controls)
         /\ o.fnc1Active \in BOOLEAN /\ o.fnc1Modifier \in Int
         /\ o.iso15434Active \in BOOLEAN /\ o.iso15434Used \in BOOLEAN
         /\ Len(o.raw) \in Nat /\ Len(o.controls) \in Nat
         /\ o = [raw |-> o.raw, transmission |-> o.transmission, controls |-> o.controls,
                 fnc1Active |-> o.fnc1Active, fnc1Modifier |-> o.fnc1Modifier,
                 iso15434Active |-> o.iso15434Active, iso15434Used |-> o.iso15434Used]
BY DEF Outputs

LEMMA ControlType ==
  ASSUME NEW kind \in Kinds, NEW offset \in Nat, NEW a \in Int
  PROVE  /\ Control(kind, offset, a) \in Controls /\ Control(kind, offset, a).kind = kind
         /\ Control(kind, offset, a).offset = offset /\ Control(kind, offset, a).assignment = a
BY DEF Control, Controls

\* An output of these parts.
Parts(r, t, c, a, m, b, u) ==
  [raw |-> r, transmission |-> t, controls |-> c, fnc1Active |-> a, fnc1Modifier |-> m,
   iso15434Active |-> b, iso15434Used |-> u]

LEMMA PartsNoted ==
  ASSUME NEW r, NEW t, NEW c, NEW a, NEW m, NEW b, NEW u, NEW d
  PROVE  [Parts(r, t, c, a, m, b, u) EXCEPT !.controls = Append(@, d)]
           = Parts(r, t, Append(c, d), a, m, b, u)
BY DEF Parts

LEMMA NotedOutput ==
  ASSUME NEW o \in Outputs, NEW kind, NEW a
  PROVE  Noted(o, kind, a) =
           Parts(o.raw, o.transmission, Append(o.controls, Control(kind, Len(o.raw), a)),
                 o.fnc1Active, o.fnc1Modifier, o.iso15434Active, o.iso15434Used)
<1> DEFINE d == Control(kind, Len(o.raw), a)
           q == Parts(o.raw, o.transmission, o.controls, o.fnc1Active, o.fnc1Modifier,
                      o.iso15434Active, o.iso15434Used)
<1>1. o = q
  BY OutputFields DEF Parts
<1>2. Noted(o, kind, a) = [o EXCEPT !.controls = Append(@, d)]
  BY DEF Noted
<1> HIDE DEF d
<1>3. [q EXCEPT !.controls = Append(@, d)]
        = Parts(o.raw, o.transmission, Append(o.controls, d), o.fnc1Active, o.fnc1Modifier,
                o.iso15434Active, o.iso15434Used)
  BY PartsNoted, SMTT(30)
<1> HIDE DEF q
<1>4. Noted(o, kind, a) = [q EXCEPT !.controls = Append(@, d)]
  BY <1>1, <1>2
<1> QED
  BY <1>3, <1>4 DEF d

Made(q) ==
  q = Parts(q.raw, q.transmission, q.controls, q.fnc1Active, q.fnc1Modifier, q.iso15434Active,
            q.iso15434Used)

LEMMA NotedFields ==
  ASSUME NEW o \in Outputs, NEW kind, NEW a, NEW q, q = Noted(o, kind, a)
  PROVE  /\ Made(q)
         /\ q.raw = o.raw /\ q.transmission = o.transmission
         /\ q.controls = Append(o.controls, Control(kind, Len(o.raw), a))
         /\ q.fnc1Active = o.fnc1Active /\ q.fnc1Modifier = o.fnc1Modifier
         /\ q.iso15434Active = o.iso15434Active /\ q.iso15434Used = o.iso15434Used
<1>1. q = Parts(o.raw, o.transmission, Append(o.controls, Control(kind, Len(o.raw), a)),
                o.fnc1Active, o.fnc1Modifier, o.iso15434Active, o.iso15434Used)
  BY NotedOutput
<1>2. /\ q.raw = o.raw /\ q.transmission = o.transmission
      /\ q.controls = Append(o.controls, Control(kind, Len(o.raw), a))
      /\ q.fnc1Active = o.fnc1Active /\ q.fnc1Modifier = o.fnc1Modifier
      /\ q.iso15434Active = o.iso15434Active /\ q.iso15434Used = o.iso15434Used
  BY <1>1 DEF Parts
<1> QED
  BY <1>1, <1>2 DEF Made

LEMMA JudgedNext ==
  ASSUME NEW o, Sound(o), NEW c, c.kind # "fnc1separator", NEW p, Behind(o, p, c),
         p.iso15434Used = o.iso15434Used, ~o.iso15434Used,
         c.kind = "eci" => c.assignment \in 0 .. MaxAssignment /\ p.fnc1Active = o.fnc1Active,
         c.kind = "fnc1start" => ~o.fnc1Active /\ MayStart(o.raw) /\ p.fnc1Active,
         c.kind = "fnc1end" => o.fnc1Active /\ ~p.fnc1Active,
         c.kind \in {"eci", "fnc1start", "fnc1end"}
  PROVE  Judged(p)
<1> DEFINE data == DataOf(o)
           st == Verdict(o)
           k == Put(o, c)
           v == CheckControl(data, st, k)
<1>1. o \in Outputs /\ Stripped(o) /\ Judged(o)
  BY DEF Sound
<1>2. c \in Controls /\ c.offset = Len(o.raw) /\ p.raw = o.raw /\ p \in Outputs
  BY DEF Behind
<1>3. /\ k \in Controls /\ k.offset = Len(data) /\ k.kind = c.kind /\ k.assignment = c.assignment
      /\ data \in Seq(Int) /\ Len(data) \in Nat
  BY <1>1, <1>2, PutType
<1>4. /\ DataOf(p) = data /\ st \in CheckStates /\ Verdict(p) = v
      /\ Separators(p.controls) = Separators(o.controls)
  BY ControlBehind
<1>5. /\ st.ok /\ st.active = o.fnc1Active /\ st.cursor <= Len(data)
      /\ Separators(o.controls) = 0 => st.sent = SubSeq(o.raw, 1, st.cursor)
  BY <1>1 DEF Judged
<1>6. Separators(o.controls) = 0 => data = o.raw
  BY <1>1 DEF Stripped
<1>7. MayStart(o.raw) => Separators(o.controls) = 0
  <2>1. SUFFICES ASSUME MayStart(o.raw), Separators(o.controls) # 0 PROVE FALSE
    OBVIOUS
  <2>2. PICK i \in 1 .. Len(o.raw) : o.raw[i] = 29
    BY <1>1, <2>1 DEF Stripped
  <2>3. o.raw \in Seq(Int) /\ Len(o.raw) \in Nat /\ o.raw # <<>>
    BY <1>1, <2>2, OutputFields
  <2>4. ~Letter(29) /\ ~Digit(29)
    BY DEF Letter, Digit
  <2>5. CASE Len(o.raw) = 1
    <3>1. Letter(o.raw[1]) /\ i = 1
      BY <2>1, <2>3, <2>5 DEF MayStart
    <3> QED
      BY <2>2, <2>4, <3>1
  <2>6. CASE Len(o.raw) = 2
    <3>1. Digit(o.raw[1]) /\ Digit(o.raw[2]) /\ (i = 1 \/ i = 2)
      BY <2>1, <2>3, <2>6 DEF MayStart
    <3> QED
      BY <2>2, <2>4, <3>1
  <2> QED
    BY <2>1, <2>3, <2>5, <2>6 DEF MayStart
<1> HIDE DEF data, st, k, v
<1>8. /\ k.kind = "eci" => v.ok = (k.assignment \in 0 .. MaxAssignment)
      /\ k.kind = "fnc1start" => v.ok = (~st.active /\ MayStart(Sent(data, st, k)))
      /\ k.kind \in {"fnc1separator", "fnc1end"} => v.ok = st.active
      /\ v.cursor = Len(data)
      /\ v.active = (k.kind = "fnc1start" \/ (st.active /\ k.kind # "fnc1end"))
      /\ k.kind # "fnc1separator" => v.sent = Sent(data, st, k)
      /\ st.sent = SubSeq(data, 1, st.cursor) => Sent(data, st, k) = data
  BY <1>3, <1>4, <1>5, VerdictNext DEF v
<1>9. Separators(o.controls) = 0 => Sent(data, st, k) = data /\ data = o.raw
  BY <1>5, <1>6, <1>8
<1>10. v.ok
  <2>1. CASE c.kind = "eci"
    BY <1>3, <1>8, <2>1
  <2>2. CASE c.kind = "fnc1start"
    BY <1>3, <1>5, <1>7, <1>8, <1>9, <2>2
  <2>3. CASE c.kind = "fnc1end"
    BY <1>3, <1>5, <1>8, <2>3
  <2> QED
    BY <2>1, <2>2, <2>3
<1>11. v.active = p.fnc1Active
  <2>1. o.fnc1Active \in BOOLEAN /\ p.fnc1Active \in BOOLEAN
    BY <1>1, <1>2, OutputFields
  <2>2. CASE c.kind = "eci"
    BY <1>3, <1>5, <1>8, <2>1, <2>2
  <2>3. CASE c.kind = "fnc1start"
    BY <1>3, <1>8, <2>1, <2>3
  <2>4. CASE c.kind = "fnc1end"
    BY <1>3, <1>8, <2>1, <2>4
  <2> QED
    BY <2>2, <2>3, <2>4
<1>12. Separators(p.controls) = 0 => v.sent = SubSeq(p.raw, 1, v.cursor)
  <2>1. SUFFICES ASSUME Separators(p.controls) = 0 PROVE v.sent = SubSeq(p.raw, 1, v.cursor)
    OBVIOUS
  <2>2. v.sent = data /\ data = o.raw
    BY <1>3, <1>4, <1>8, <1>9, <2>1
  <2>3. SubSeq(data, 1, Len(data)) = data
    BY <1>3, SubSeqFull
  <2> QED
    BY <1>2, <1>8, <2>2, <2>3
<1>13. v.cursor <= Len(DataOf(p))
  BY <1>3, <1>4, <1>8
<1> QED
  BY <1>4, <1>10, <1>11, <1>12, <1>13 DEF Judged

LEMMA PartsType ==
  ASSUME NEW r \in Seq(Int), NEW t \in Seq(Int), NEW c \in Seq(Controls), NEW a \in BOOLEAN,
         NEW m \in Int, NEW b \in BOOLEAN, NEW u \in BOOLEAN
  PROVE  Parts(r, t, c, a, m, b, u) \in Outputs
BY DEF Parts, Outputs

LEMMA PartsFields ==
  ASSUME NEW r, NEW t, NEW c, NEW a, NEW m, NEW b, NEW u, NEW p, p = Parts(r, t, c, a, m, b, u)
  PROVE  /\ p.raw = r /\ p.transmission = t /\ p.controls = c /\ p.fnc1Active = a
         /\ p.fnc1Modifier = m /\ p.iso15434Active = b /\ p.iso15434Used = u
BY DEF Parts

LEMMA ActiveChanged ==
  ASSUME NEW q, Made(q), NEW x
  PROVE  [q EXCEPT !.fnc1Active = x]
           = Parts(q.raw, q.transmission, q.controls, x, q.fnc1Modifier, q.iso15434Active, q.iso15434Used)
BY DEF Made, Parts

LEMMA FNC1Changed ==
  ASSUME NEW q, Made(q), NEW x, NEW y
  PROVE  [q EXCEPT !.fnc1Active = x, !.fnc1Modifier = y]
           = Parts(q.raw, q.transmission, q.controls, x, y, q.iso15434Active, q.iso15434Used)
<1> DEFINE p == [q EXCEPT !.fnc1Active = x]
<1>1. [q EXCEPT !.fnc1Active = x, !.fnc1Modifier = y] = [p EXCEPT !.fnc1Modifier = y]
  OBVIOUS
<1>2. p
        = Parts(q.raw, q.transmission, q.controls, x, q.fnc1Modifier, q.iso15434Active, q.iso15434Used)
  BY DEF Made, Parts
<1> HIDE DEF p
<1>3. [p EXCEPT !.fnc1Modifier = y]
        = Parts(q.raw, q.transmission, q.controls, x, y, q.iso15434Active, q.iso15434Used)
  BY <1>2 DEF Parts
<1> QED
  BY <1>1, <1>3 DEF p

LEMMA InsideChanged ==
  ASSUME NEW q, Made(q), NEW x
  PROVE  [q EXCEPT !.iso15434Active = x]
           = Parts(q.raw, q.transmission, q.controls, q.fnc1Active, q.fnc1Modifier, x, q.iso15434Used)
BY DEF Made, Parts

LEMMA TransmissionChanged ==
  ASSUME NEW q, Made(q), NEW x
  PROVE  [q EXCEPT !.transmission = x]
           = Parts(q.raw, x, q.controls, q.fnc1Active, q.fnc1Modifier, q.iso15434Active, q.iso15434Used)
BY DEF Made, Parts

LEMMA AppendECIOutput ==
  ASSUME NEW o \in Outputs, NEW a
  PROVE  AppendECI(o, a) =
           Parts(o.raw, o.transmission \o <<Backslash>> \o [i \in DOMAIN Places |-> DigitOf(a, i)],
                 Append(o.controls, Control("eci", Len(o.raw), a)),
                 o.fnc1Active, o.fnc1Modifier, o.iso15434Active, o.iso15434Used)
<1> DEFINE q == Noted(o, "eci", a)
           w == [i \in DOMAIN Places |-> DigitOf(a, i)]
<1>1. q = Parts(o.raw, o.transmission, Append(o.controls, Control("eci", Len(o.raw), a)),
                o.fnc1Active, o.fnc1Modifier, o.iso15434Active, o.iso15434Used)
  BY NotedOutput
<1>2. q.transmission = o.transmission
  BY <1>1, PartsFields
<1>3. AppendECI(o, a) = [q EXCEPT !.transmission = q.transmission \o <<Backslash>> \o w]
  BY DEF AppendECI, DigitOf
<1> HIDE DEF q, w
<1>4. AppendECI(o, a) = [q EXCEPT !.transmission = o.transmission \o <<Backslash>> \o w]
  BY <1>2, <1>3
<1> QED
  BY <1>1, <1>4 DEF Parts, w

LEMMA BracketedECI ==
  ASSUME NEW o \in Outputs, Bracketed(o), NEW p \in Outputs, NEW c \in Controls, c.kind = "eci",
         p.controls = Append(o.controls, c), p.raw = o.raw, SameFlags(o, p)
  PROVE  Bracketed(p)
<1> DEFINE m == Len(o.controls)
<1>1. /\ m \in Nat /\ Len(p.controls) = m + 1 /\ p.controls[m + 1] = c
      /\ \A j \in 1 .. m : p.controls[j] = o.controls[j]
      /\ \A j \in 1 .. m + 1 : j \in 1 .. m \/ j = m + 1
      /\ \A j \in 1 .. m : j \in 1 .. m + 1
  BY OutputFields
<1>2. /\ p.fnc1Active = o.fnc1Active /\ p.fnc1Modifier = o.fnc1Modifier
      /\ p.iso15434Active = o.iso15434Active /\ p.iso15434Used = o.iso15434Used
  BY DEF SameFlags
<1>3. ~o.iso15434Used =>
        /\ ~p.iso15434Active
        /\ \A i \in 1 .. m + 1 : p.controls[i].kind \notin {"iso15434start", "iso15434end"}
        /\ p.fnc1Modifier = 0 => ~p.fnc1Active /\ \A i \in 1 .. m + 1 : p.controls[i].kind = "eci"
  BY <1>1, <1>2 DEF Bracketed
<1>4. ASSUME o.iso15434Used
      PROVE  /\ ~p.fnc1Active
             /\ \E i \in 1 .. m + 1 :
                  /\ Started(p, i)
                  /\ p.iso15434Active => \A k \in 1 .. m + 1 \ {i} : p.controls[k].kind = "eci"
                  /\ ~p.iso15434Active =>
                       /\ HasFormat(p.raw)
                       /\ \E j \in 1 .. m + 1 :
                            /\ i < j /\ Ended(p, j)
                            /\ \A k \in 1 .. m + 1 \ {i, j} : p.controls[k].kind = "eci"
  <2>1. PICK i \in 1 .. m :
            /\ Started(o, i)
            /\ o.iso15434Active => \A k \in 1 .. m \ {i} : o.controls[k].kind = "eci"
            /\ ~o.iso15434Active =>
                 /\ HasFormat(o.raw)
                 /\ \E j \in 1 .. m :
                      /\ i < j /\ Ended(o, j)
                      /\ \A k \in 1 .. m \ {i, j} : o.controls[k].kind = "eci"
    BY <1>4 DEF Bracketed
  <2>2. i \in 1 .. m + 1 /\ Started(p, i)
    BY <1>1, <2>1 DEF Started
  <2>3. p.iso15434Active => \A k \in 1 .. m + 1 \ {i} : p.controls[k].kind = "eci"
    BY <1>1, <1>2, <2>1
  <2>4. ASSUME ~p.iso15434Active
        PROVE  /\ HasFormat(p.raw)
               /\ \E j \in 1 .. m + 1 :
                    /\ i < j /\ Ended(p, j)
                    /\ \A k \in 1 .. m + 1 \ {i, j} : p.controls[k].kind = "eci"
    <3>1. PICK j \in 1 .. m : /\ i < j /\ Ended(o, j)
                              /\ \A k \in 1 .. m \ {i, j} : o.controls[k].kind = "eci"
      BY <1>2, <2>1, <2>4
    <3>2. j \in 1 .. m + 1 /\ Ended(p, j)
      BY <1>1, <3>1 DEF Ended
    <3>3. \A k \in 1 .. m + 1 \ {i, j} : p.controls[k].kind = "eci"
      BY <1>1, <3>1
    <3>4. HasFormat(p.raw)
      BY <1>2, <2>1, <2>4
    <3> QED
      BY <3>1, <3>2, <3>3, <3>4
  <2>5. ~p.fnc1Active
    BY <1>2, <1>4 DEF Bracketed
  <2> QED
    BY <2>2, <2>3, <2>4, <2>5
<1> HIDE DEF m
<1> QED
  BY <1>1, <1>2, <1>3, <1>4 DEF Bracketed

\* An assignment of an extended channel.
LEMMA SoundECI ==
  ASSUME NEW o, Sound(o), NEW a \in 0 .. MaxAssignment
  PROVE  Sound(AppendECI(o, a))
<1> DEFINE p == AppendECI(o, a)
           c == Control("eci", Len(o.raw), a)
           t == o.transmission \o <<Backslash>> \o [i \in DOMAIN Places |-> DigitOf(a, i)]
<1>1. o \in Outputs /\ Tells(o) /\ Bracketed(o)
  BY DEF Sound
<1>2. p = Parts(o.raw, t, Append(o.controls, c), o.fnc1Active, o.fnc1Modifier,
                o.iso15434Active, o.iso15434Used)
  BY <1>1, AppendECIOutput
<1>3. a \in Int /\ "eci" \in Kinds
  BY AssignmentNat DEF Kinds
<1>4. c \in Controls /\ c.kind = "eci" /\ c.offset = Len(o.raw) /\ c.assignment = a
  <2>1. Len(o.raw) \in Nat
    BY <1>1, OutputFields
  <2> QED
    BY <1>3, <2>1, ControlType
<1>5. t \in Seq(Int) /\ Received(t) = Got(Append(Told(o), -1 - a))
  BY <1>1, OutputFields, AssignmentReceived DEF Tells
<1> HIDE DEF p, c, t
<1>6. Append(o.controls, c) \in Seq(Controls)
  BY <1>1, <1>4, OutputFields
<1>7. p \in Outputs
  BY <1>1, <1>2, <1>5, <1>6, OutputFields, PartsType
<1>8. /\ p.raw = o.raw /\ p.transmission = t /\ p.controls = Append(o.controls, c)
      /\ p.fnc1Active = o.fnc1Active /\ p.fnc1Modifier = o.fnc1Modifier
      /\ p.iso15434Active = o.iso15434Active /\ p.iso15434Used = o.iso15434Used
  BY <1>2 DEF Parts
<1>9. Append(Told(o), -1 - a) = Told(o) \o Mark(p, c)
  <2>1. Mark(p, c) = << -1 - a >>
    BY <1>4 DEF Mark
  <2>2. Told(o) \in Seq(Int) /\ -1 - a \in Int
    BY <1>1, <1>3, ToldParts DEF Texts
  <2> QED
    BY <2>1, <2>2, SMTT(30)
<1>10. Behind(o, p, c)
  BY <1>4, <1>5, <1>7, <1>8, <1>9 DEF Behind
<1>11. Placed(p) /\ Tells(p) /\ Separated(p) /\ Stripped(p)
  BY <1>4, <1>10, ControlBehind
<1>12. Judged(p)
  <2>1. CASE o.iso15434Used
    BY <1>8, <2>1 DEF Judged
  <2>2. CASE ~o.iso15434Used
    BY <1>4, <1>8, <1>10, <2>2, JudgedNext
  <2> QED
    BY <2>1, <2>2
<1>13. Bracketed(p)
  BY <1>1, <1>4, <1>7, <1>8, BracketedECI DEF SameFlags
<1> QED
  BY <1>7, <1>11, <1>12, <1>13 DEF Sound, p

\* A control other than those of the 15434 message, behind outputs of its kind.
LEMMA BracketedFNC1 ==
  ASSUME NEW o \in Outputs, Bracketed(o), ~o.iso15434Used, NEW p \in Outputs, NEW c \in Controls,
         c.kind \in {"fnc1start", "fnc1separator", "fnc1end"}, p.controls = Append(o.controls, c),
         p.iso15434Active = o.iso15434Active, p.iso15434Used = o.iso15434Used, p.fnc1Modifier # 0
  PROVE  Bracketed(p)
<1> DEFINE m == Len(o.controls)
<1>0. o.controls \in Seq(Controls)
  BY OutputFields
<1>1. /\ m \in Nat /\ Len(p.controls) = m + 1 /\ p.controls[m + 1] = c
      /\ \A j \in 1 .. m : p.controls[j] = o.controls[j]
      /\ \A j \in 1 .. m + 1 : j \in 1 .. m \/ j = m + 1
  BY <1>0
<1>2. ~o.iso15434Active
      /\ \A i \in 1 .. m : o.controls[i].kind \notin {"iso15434start", "iso15434end"}
  BY DEF Bracketed
<1>3. \A i \in 1 .. m + 1 : p.controls[i].kind \notin {"iso15434start", "iso15434end"}
  BY <1>1, <1>2
<1> HIDE DEF m
<1> QED
  BY <1>1, <1>2, <1>3 DEF Bracketed

LEMMA FNC1Output ==
  ASSUME NEW o \in Outputs, ~o.fnc1Active
  PROVE  FNC1(o) =
           Parts(o.raw, o.transmission, Append(o.controls, Control("fnc1start", Len(o.raw), 0)),
                 TRUE, (IF o.raw = <<>> THEN 4 ELSE 5), o.iso15434Active, o.iso15434Used)
<1> DEFINE q == Noted(o, "fnc1start", 0)
<1>1. /\ Made(q)
      /\ q.raw = o.raw /\ q.transmission = o.transmission
      /\ q.controls = Append(o.controls, Control("fnc1start", Len(o.raw), 0))
      /\ q.iso15434Active = o.iso15434Active /\ q.iso15434Used = o.iso15434Used
  BY NotedFields
<1>2. FNC1(o) = [q EXCEPT !.fnc1Active = TRUE, !.fnc1Modifier = IF o.raw = <<>> THEN 4 ELSE 5]
  BY DEF FNC1
<1> HIDE DEF q
<1>3. FNC1(o) = Parts(q.raw, q.transmission, q.controls, TRUE, (IF o.raw = <<>> THEN 4 ELSE 5),
                      q.iso15434Active, q.iso15434Used)
  BY <1>1, <1>2, FNC1Changed, ZenonT(30)
<1> QED
  BY <1>1, <1>3

\* A message of the FNC1 kind starts.
LEMMA SoundFNC1 ==
  ASSUME NEW o, Sound(o), AllowsFNC1(o), ~o.fnc1Active
  PROVE  Sound(FNC1(o))
<1> DEFINE p == FNC1(o)
           c == Control("fnc1start", Len(o.raw), 0)
           x == TRUE
           y == IF o.raw = <<>> THEN 4 ELSE 5
<1>1. o \in Outputs /\ Tells(o) /\ Bracketed(o)
  BY DEF Sound
<1>2. p = Parts(o.raw, o.transmission, Append(o.controls, c), x, y, o.iso15434Active, o.iso15434Used)
  BY <1>1, FNC1Output
<1>3. Len(o.raw) \in Nat /\ 0 \in Int /\ "fnc1start" \in Kinds
  BY <1>1, OutputFields DEF Kinds
<1>4. c \in Controls /\ c.kind = "fnc1start" /\ c.offset = Len(o.raw)
  BY <1>3, ControlType
<1>5. x \in BOOLEAN /\ x /\ y \in Int /\ y # 0
  OBVIOUS
<1> HIDE DEF p, c, x, y
<1>6. Append(o.controls, c) \in Seq(Controls)
  BY <1>1, <1>4, OutputFields
<1>7. p \in Outputs
  BY <1>1, <1>2, <1>5, <1>6, OutputFields, PartsType
<1>8. /\ p.raw = o.raw /\ p.transmission = o.transmission /\ p.controls = Append(o.controls, c)
      /\ p.fnc1Active = x /\ p.fnc1Modifier = y
      /\ p.iso15434Active = o.iso15434Active /\ p.iso15434Used = o.iso15434Used
  BY <1>2 DEF Parts
<1>9. Told(o) = Told(o) \o Mark(p, c)
  <2>1. Mark(p, c) = <<>>
    BY <1>4 DEF Mark
  <2>2. Told(o) \in Seq(Int)
    BY <1>1, ToldParts DEF Texts
  <2> QED
    BY <2>1, <2>2, ConcatEmptySeq
<1>10. Behind(o, p, c)
  BY <1>1, <1>4, <1>7, <1>8, <1>9 DEF Behind, Tells
<1>11. Placed(p) /\ Tells(p) /\ Separated(p) /\ Stripped(p)
  BY <1>4, <1>10, ControlBehind
<1>12. ~o.iso15434Used /\ MayStart(o.raw)
  BY DEF AllowsFNC1
<1>13. Judged(p)
  BY <1>4, <1>5, <1>8, <1>10, <1>12, JudgedNext
<1>14. Bracketed(p)
  BY <1>1, <1>4, <1>5, <1>7, <1>8, <1>12, BracketedFNC1
<1> QED
  BY <1>7, <1>11, <1>13, <1>14 DEF Sound, p

LEMMA EOTOutput ==
  ASSUME NEW o \in Outputs, o.fnc1Active
  PROVE  EOT(o) =
           Parts(o.raw, o.transmission, Append(o.controls, Control("fnc1end", Len(o.raw), 0)),
                 FALSE, o.fnc1Modifier, o.iso15434Active, o.iso15434Used)
<1> DEFINE q == Noted(o, "fnc1end", 0)
<1>1. /\ Made(q)
      /\ q.raw = o.raw /\ q.transmission = o.transmission
      /\ q.controls = Append(o.controls, Control("fnc1end", Len(o.raw), 0))
      /\ q.fnc1Modifier = o.fnc1Modifier
      /\ q.iso15434Active = o.iso15434Active /\ q.iso15434Used = o.iso15434Used
  BY NotedFields
<1>2. EOT(o) = [q EXCEPT !.fnc1Active = FALSE]
  BY DEF EOT
<1> HIDE DEF q
<1>3. EOT(o) = Parts(q.raw, q.transmission, q.controls, FALSE, q.fnc1Modifier,
                     q.iso15434Active, q.iso15434Used)
  BY <1>1, <1>2, ActiveChanged
<1> QED
  BY <1>1, <1>3

\* A message of the FNC1 kind ends.
LEMMA SoundEOT ==
  ASSUME NEW o, Sound(o), o.fnc1Active
  PROVE  Sound(EOT(o))
<1> DEFINE p == EOT(o)
           c == Control("fnc1end", Len(o.raw), 0)
           x == FALSE
<1>1. o \in Outputs /\ Tells(o) /\ Bracketed(o)
  BY DEF Sound
<1>2. p = Parts(o.raw, o.transmission, Append(o.controls, c), x, o.fnc1Modifier,
                o.iso15434Active, o.iso15434Used)
  BY <1>1, EOTOutput
<1>3. Len(o.raw) \in Nat /\ 0 \in Int /\ "fnc1end" \in Kinds
  BY <1>1, OutputFields DEF Kinds
<1>4. c \in Controls /\ c.kind = "fnc1end" /\ c.offset = Len(o.raw)
  BY <1>3, ControlType
<1>5. x \in BOOLEAN /\ ~x
  OBVIOUS
<1> HIDE DEF p, c, x
<1>6. Append(o.controls, c) \in Seq(Controls)
  BY <1>1, <1>4, OutputFields
<1>7. p \in Outputs
  BY <1>1, <1>2, <1>5, <1>6, OutputFields, PartsType
<1>8. /\ p.raw = o.raw /\ p.transmission = o.transmission /\ p.controls = Append(o.controls, c)
      /\ p.fnc1Active = x /\ p.fnc1Modifier = o.fnc1Modifier
      /\ p.iso15434Active = o.iso15434Active /\ p.iso15434Used = o.iso15434Used
  BY <1>2 DEF Parts
<1>9. Told(o) = Told(o) \o Mark(p, c)
  <2>1. Mark(p, c) = <<>>
    BY <1>4 DEF Mark
  <2>2. Told(o) \in Seq(Int)
    BY <1>1, ToldParts DEF Texts
  <2> QED
    BY <2>1, <2>2, ConcatEmptySeq
<1>10. Behind(o, p, c)
  BY <1>1, <1>4, <1>7, <1>8, <1>9 DEF Behind, Tells
<1>11. Placed(p) /\ Tells(p) /\ Separated(p) /\ Stripped(p)
  BY <1>4, <1>10, ControlBehind
<1>12. ~o.iso15434Used /\ o.fnc1Modifier # 0
  BY <1>1 DEF Bracketed
<1>13. Judged(p)
  BY <1>4, <1>5, <1>8, <1>10, <1>12, JudgedNext
<1>14. Bracketed(p)
  BY <1>1, <1>4, <1>5, <1>7, <1>8, <1>12, BracketedFNC1
<1> QED
  BY <1>7, <1>11, <1>13, <1>14 DEF Sound, p

\* A character that is no backslash is received as itself.
LEMMA PlainReceived ==
  ASSUME NEW s \in Seq(Int), NEW g \in Seq(Int), Received(s) = Got(g), NEW x \in Int, x # Backslash
  PROVE  /\ Append(s, x) \in Seq(Int) /\ Append(g, x) \in Seq(Int)
         /\ Received(Append(s, x)) = Got(Append(g, x))
<1>1. Received(Append(s, x)) = Receive(Got(g), x)
  BY ReceivedNext
<1>2. Receive(Got(g), x) = Got(Append(g, x))
  BY GotNext
<1> QED
  BY <1>1, <1>2

LEMMA FourAppended ==
  ASSUME NEW t \in Seq(Int)
  PROVE  /\ t \o <<91, 41, 62, 30>> = Append(Append(Append(Append(t, 91), 41), 62), 30)
         /\ t \o <<4>> = Append(t, 4)
<1> DEFINE w1 == <<91>>  w2 == <<91, 41>>  w3 == <<91, 41, 62>>  w4 == <<91, 41, 62, 30>>
<1>1. w1 \in Seq(Int) /\ w2 \in Seq(Int) /\ w3 \in Seq(Int)
  OBVIOUS
<1>2. w2 = Append(w1, 41) /\ w3 = Append(w2, 62) /\ w4 = Append(w3, 30)
  OBVIOUS
<1>3. t \o w1 = Append(t, 91) /\ t \o <<4>> = Append(t, 4)
  OBVIOUS
<1>4. 41 \in Int /\ 62 \in Int /\ 30 \in Int
  OBVIOUS
<1> HIDE DEF w1, w2, w3, w4
<1>5. t \o w2 = Append(t \o w1, 41)
  BY <1>1, <1>2, <1>4, ConcatAppendInt, SMTT(30)
<1>6. t \o w3 = Append(t \o w2, 62)
  BY <1>1, <1>2, <1>4, ConcatAppendInt, SMTT(30)
<1>7. t \o w4 = Append(t \o w3, 30)
  BY <1>1, <1>2, <1>4, ConcatAppendInt, SMTT(30)
<1> QED
  BY <1>3, <1>5, <1>6, <1>7, SMTT(30) DEF w4

\* The start of a 15434 message, and its end, as they are sent.
LEMMA StartReceived ==
  ASSUME NEW s \in Seq(Int), NEW g \in Seq(Int), Received(s) = Got(g)
  PROVE  /\ s \o <<91, 41, 62, 30>> \in Seq(Int) /\ s \o <<4>> \in Seq(Int)
         /\ Received(s \o <<91, 41, 62, 30>>) = Got(g \o <<91, 41, 62, 30>>)
         /\ Received(s \o <<4>>) = Got(g \o <<4>>)
<1>1. /\ 91 # Backslash /\ 41 # Backslash /\ 62 # Backslash /\ 30 # Backslash /\ 4 # Backslash
      /\ 91 \in Int /\ 41 \in Int /\ 62 \in Int /\ 30 \in Int /\ 4 \in Int
  BY DEF Backslash
<1>2. ASSUME NEW t \in Seq(Int)
      PROVE  /\ t \o <<91, 41, 62, 30>> = Append(Append(Append(Append(t, 91), 41), 62), 30)
             /\ t \o <<4>> = Append(t, 4)
  BY FourAppended
<1> DEFINE s1 == Append(s, 91)  g1 == Append(g, 91)
           s2 == Append(s1, 41) g2 == Append(g1, 41)
           s3 == Append(s2, 62) g3 == Append(g2, 62)
           s4 == Append(s3, 30) g4 == Append(g3, 30)
<1>3. s1 \in Seq(Int) /\ g1 \in Seq(Int) /\ Received(s1) = Got(g1)
  BY <1>1, PlainReceived
<1>4. s2 \in Seq(Int) /\ g2 \in Seq(Int) /\ Received(s2) = Got(g2)
  <2> HIDE DEF s1, g1
  <2> QED
    BY <1>1, <1>3, PlainReceived
<1>5. s3 \in Seq(Int) /\ g3 \in Seq(Int) /\ Received(s3) = Got(g3)
  <2> HIDE DEF s2, g2
  <2> QED
    BY <1>1, <1>4, PlainReceived
<1>6. s4 \in Seq(Int) /\ g4 \in Seq(Int) /\ Received(s4) = Got(g4)
  <2> HIDE DEF s3, g3
  <2> QED
    BY <1>1, <1>5, PlainReceived
<1>7. Append(s, 4) \in Seq(Int) /\ Received(Append(s, 4)) = Got(Append(g, 4))
  BY <1>1, PlainReceived
<1>8. s \o <<91, 41, 62, 30>> = s4 /\ g \o <<91, 41, 62, 30>> = g4
  BY <1>2
<1>9. s \o <<4>> = Append(s, 4) /\ g \o <<4>> = Append(g, 4)
  BY <1>2
<1> HIDE DEF s4, g4
<1> QED
  BY <1>6, <1>7, <1>8, <1>9

LEMMA ISO15434Output ==
  ASSUME NEW o \in Outputs
  PROVE  ISO15434(o) =
           Parts(o.raw, o.transmission \o <<91, 41, 62, 30>>,
                 Append(o.controls, Control("iso15434start", Len(o.raw), 0)),
                 o.fnc1Active, o.fnc1Modifier, TRUE, TRUE)
<1> DEFINE q == Noted(o, "iso15434start", 0)
           w == <<91, 41, 62, 30>>
<1>1. /\ Made(q)
      /\ q.raw = o.raw /\ q.transmission = o.transmission
      /\ q.controls = Append(o.controls, Control("iso15434start", Len(o.raw), 0))
      /\ q.fnc1Active = o.fnc1Active /\ q.fnc1Modifier = o.fnc1Modifier
      /\ q.iso15434Used = o.iso15434Used
  BY NotedFields
<1>2. ISO15434(o) = [q EXCEPT !.iso15434Active = TRUE, !.iso15434Used = TRUE,
                              !.transmission = q.transmission \o w]
  BY DEF ISO15434
<1> HIDE DEF q, w
<1> DEFINE x == TRUE
           y == q.transmission \o w
<1>3. ISO15434(o) = [q EXCEPT !.iso15434Active = x, !.iso15434Used = x, !.transmission = y]
  BY <1>2
<1> HIDE DEF x, y
<1> DEFINE e == [q EXCEPT !.iso15434Active = x]
<1>4. ISO15434(o) = [[e EXCEPT !.iso15434Used = x] EXCEPT !.transmission = y]
  BY <1>3
<1>5. e = Parts(q.raw, q.transmission, q.controls, q.fnc1Active, q.fnc1Modifier, x, q.iso15434Used)
  BY <1>1, InsideChanged
<1> HIDE DEF e
<1> DEFINE v == [e EXCEPT !.iso15434Used = x]
<1>6. v = Parts(q.raw, q.transmission, q.controls, q.fnc1Active, q.fnc1Modifier, x, x)
  BY <1>5 DEF Parts
<1>7. ISO15434(o) = [v EXCEPT !.transmission = y]
  BY <1>4
<1> HIDE DEF v
<1>8. ISO15434(o) = Parts(q.raw, y, q.controls, q.fnc1Active, q.fnc1Modifier, x, x)
  BY <1>6, <1>7 DEF Parts
<1> QED
  BY <1>1, <1>8 DEF w, x, y

\* A 15434 message starts.
LEMMA SoundStart ==
  ASSUME NEW o, Sound(o), AllowsISO15434(o)
  PROVE  Sound(ISO15434(o))
<1> DEFINE p == ISO15434(o)
           c == Control("iso15434start", Len(o.raw), 0)
           w == <<91, 41, 62, 30>>
           x == TRUE
           m == Len(o.controls)
<1>1. o \in Outputs /\ Tells(o) /\ Bracketed(o)
  BY DEF Sound
<1>2. p = Parts(o.raw, o.transmission \o w, Append(o.controls, c), o.fnc1Active, o.fnc1Modifier, x, x)
  BY <1>1, ISO15434Output
<1>3. Len(o.raw) \in Nat /\ 0 \in Int /\ "iso15434start" \in Kinds
  BY <1>1, OutputFields DEF Kinds
<1>4. c \in Controls /\ c.kind = "iso15434start" /\ c.offset = Len(o.raw)
  BY <1>3, ControlType
<1>5. x \in BOOLEAN /\ x
  OBVIOUS
<1>6. Told(o) \in Seq(Int) /\ o.transmission \in Seq(Int)
  BY <1>1, OutputFields, ToldParts DEF Texts
<1>7. o.transmission \o w \in Seq(Int) /\ Received(o.transmission \o w) = Got(Told(o) \o w)
  BY <1>1, <1>6, StartReceived DEF Tells
<1>8. Mark(p, c) = w
  BY <1>4 DEF Mark
<1> HIDE DEF p, c, x, w
<1>9. /\ Append(o.controls, c) \in Seq(Controls) /\ m \in Nat
      /\ Len(Append(o.controls, c)) = m + 1 /\ Append(o.controls, c)[m + 1] = c
      /\ \A i \in 1 .. m : Append(o.controls, c)[i] = o.controls[i]
  <2>1. o.controls \in Seq(Controls)
    BY <1>1, OutputFields
  <2> QED
    BY <1>4, <2>1
<1>10. p \in Outputs
  BY <1>1, <1>2, <1>5, <1>7, <1>9, OutputFields, PartsType
<1>11. /\ p.raw = o.raw /\ p.transmission = o.transmission \o w /\ p.controls = Append(o.controls, c)
       /\ p.fnc1Active = o.fnc1Active /\ p.fnc1Modifier = o.fnc1Modifier
       /\ p.iso15434Active = x /\ p.iso15434Used = x
  BY <1>2 DEF Parts
<1>12. Behind(o, p, c)
  BY <1>4, <1>7, <1>8, <1>10, <1>11 DEF Behind
<1>13. Placed(p) /\ Tells(p) /\ Separated(p) /\ Stripped(p)
  BY <1>4, <1>12, ControlBehind
<1>14. Judged(p)
  BY <1>5, <1>11 DEF Judged
<1>15. Bracketed(p)
  <2>1. ~o.iso15434Used /\ o.fnc1Modifier = 0 /\ Len(o.raw) = 0
    <3>1. o.raw = <<>> => Len(o.raw) = 0
      OBVIOUS
    <3> QED
      BY <3>1 DEF AllowsISO15434
  <2>2. ~o.fnc1Active /\ \A i \in 1 .. m : o.controls[i].kind = "eci"
    BY <1>1, <2>1 DEF Bracketed
  <2>3. m + 1 \in 1 .. m + 1 /\ Started(p, m + 1)
    BY <1>4, <1>9, <1>11, <2>1 DEF Started
  <2>4. \A k \in 1 .. m + 1 \ {m + 1} : p.controls[k].kind = "eci"
    <3>1. \A k \in 1 .. m + 1 \ {m + 1} : k \in 1 .. m
      BY <1>9
    <3> QED
      BY <1>9, <1>11, <2>2, <3>1
  <2>5. Len(p.controls) = m + 1
    BY <1>9, <1>11
  <2> HIDE DEF m
  <2> QED
    BY <1>5, <1>11, <2>2, <2>3, <2>4, <2>5 DEF Bracketed
<1> QED
  BY <1>10, <1>13, <1>14, <1>15 DEF Sound, p

LEMMA EndOutput ==
  ASSUME NEW o \in Outputs, ~o.fnc1Active
  PROVE  EOT(o) =
           Parts(o.raw, o.transmission \o (IF EndsUnmarked(o.raw) THEN <<>> ELSE <<4>>),
                 Append(o.controls, Control("iso15434end", Len(o.raw), 0)),
                 o.fnc1Active, o.fnc1Modifier, FALSE, o.iso15434Used)
<1> DEFINE q == Noted(o, "iso15434end", 0)
           w == IF EndsUnmarked(o.raw) THEN <<>> ELSE <<4>>
<1>1. /\ Made(q)
      /\ q.raw = o.raw /\ q.transmission = o.transmission
      /\ q.controls = Append(o.controls, Control("iso15434end", Len(o.raw), 0))
      /\ q.fnc1Active = o.fnc1Active /\ q.fnc1Modifier = o.fnc1Modifier
      /\ q.iso15434Used = o.iso15434Used
  BY NotedFields
<1>2. EOT(o) = [q EXCEPT !.iso15434Active = FALSE, !.transmission = q.transmission \o w]
  BY DEF EOT
<1> HIDE DEF q, w
<1> DEFINE x == FALSE
           y == q.transmission \o w
<1>3. EOT(o) = [q EXCEPT !.iso15434Active = x, !.transmission = y]
  BY <1>2
<1> HIDE DEF x, y
<1> DEFINE v == [q EXCEPT !.iso15434Active = x]
<1>4. EOT(o) = [v EXCEPT !.transmission = y]
  BY <1>3
<1>5. v = Parts(q.raw, q.transmission, q.controls, q.fnc1Active, q.fnc1Modifier, x, q.iso15434Used)
  BY <1>1, InsideChanged
<1> HIDE DEF v
<1>6. EOT(o) = Parts(q.raw, y, q.controls, q.fnc1Active, q.fnc1Modifier, x, q.iso15434Used)
  BY <1>4, <1>5 DEF Parts
<1> QED
  BY <1>1, <1>6 DEF w, x, y

\* A 15434 message ends.
LEMMA SoundEnd ==
  ASSUME NEW o, Sound(o), AllowsEOT(o), ~o.fnc1Active
  PROVE  Sound(EOT(o))
<1> DEFINE p == EOT(o)
           c == Control("iso15434end", Len(o.raw), 0)
           w == IF EndsUnmarked(o.raw) THEN <<>> ELSE <<4>>
           x == FALSE
           m == Len(o.controls)
<1>1. o \in Outputs /\ Tells(o) /\ Bracketed(o)
  BY DEF Sound
<1>2. p = Parts(o.raw, o.transmission \o w, Append(o.controls, c), o.fnc1Active, o.fnc1Modifier, x,
                o.iso15434Used)
  BY <1>1, EndOutput
<1>3. Len(o.raw) \in Nat /\ 0 \in Int /\ "iso15434end" \in Kinds
  BY <1>1, OutputFields DEF Kinds
<1>4. c \in Controls /\ c.kind = "iso15434end" /\ c.offset = Len(o.raw)
  BY <1>3, ControlType
<1>5. x \in BOOLEAN /\ ~x
  OBVIOUS
<1>6. Told(o) \in Seq(Int) /\ o.transmission \in Seq(Int)
  BY <1>1, OutputFields, ToldParts DEF Texts
<1>7. o.transmission \o w \in Seq(Int) /\ Received(o.transmission \o w) = Got(Told(o) \o w)
  <2>1. CASE EndsUnmarked(o.raw)
    <3>1. o.transmission \o <<>> = o.transmission /\ Told(o) \o <<>> = Told(o)
      BY <1>6, ConcatEmptySeq
    <3> QED
      BY <1>1, <1>6, <2>1, <3>1 DEF Tells
  <2>2. CASE ~EndsUnmarked(o.raw)
    BY <1>1, <1>6, <2>2, StartReceived DEF Tells
  <2> QED
    BY <2>1, <2>2
<1>8. p.raw = o.raw
  BY <1>2 DEF Parts
<1>9. Mark(p, c) = w
  BY <1>4, <1>8 DEF Mark
<1> HIDE DEF p, c, x, w
<1>10. /\ Append(o.controls, c) \in Seq(Controls) /\ m \in Nat
       /\ Len(Append(o.controls, c)) = m + 1 /\ Append(o.controls, c)[m + 1] = c
       /\ \A i \in 1 .. m : Append(o.controls, c)[i] = o.controls[i]
  <2>1. o.controls \in Seq(Controls)
    BY <1>1, OutputFields
  <2> QED
    BY <1>4, <2>1
<1>11. p \in Outputs
  BY <1>1, <1>2, <1>5, <1>7, <1>10, OutputFields, PartsType
<1>12. /\ p.transmission = o.transmission \o w /\ p.controls = Append(o.controls, c)
       /\ p.fnc1Active = o.fnc1Active /\ p.fnc1Modifier = o.fnc1Modifier
       /\ p.iso15434Active = x /\ p.iso15434Used = o.iso15434Used
  BY <1>2 DEF Parts
<1>13. o.iso15434Active /\ HasFormat(o.raw) /\ Len(o.raw) >= 2
  BY DEF AllowsEOT, HasFormat
<1>14. o.iso15434Used
  BY <1>1, <1>13 DEF Bracketed
<1>15. Behind(o, p, c)
  BY <1>4, <1>7, <1>8, <1>9, <1>11, <1>12, <1>13 DEF Behind
<1>16. Placed(p) /\ Tells(p) /\ Separated(p) /\ Stripped(p)
  BY <1>4, <1>15, ControlBehind
<1>17. Judged(p)
  BY <1>12, <1>14 DEF Judged
<1>18. Bracketed(p)
  <2>1. PICK i \in 1 .. m : /\ Started(o, i)
                            /\ \A k \in 1 .. m \ {i} : o.controls[k].kind = "eci"
    BY <1>1, <1>13, <1>14 DEF Bracketed
  <2>2. i \in 1 .. m + 1 /\ Started(p, i) /\ i < m + 1 /\ m + 1 \in 1 .. m + 1
    BY <1>10, <1>12, <2>1 DEF Started
  <2>3. Ended(p, m + 1)
    BY <1>4, <1>10, <1>12, <1>13 DEF Ended
  <2>4. \A k \in 1 .. m + 1 \ {i, m + 1} : p.controls[k].kind = "eci"
    <3>1. \A k \in 1 .. m + 1 \ {i, m + 1} : k \in 1 .. m \ {i}
      BY <1>10
    <3> QED
      BY <1>10, <1>12, <2>1, <3>1
  <2>5. Len(p.controls) = m + 1 /\ HasFormat(p.raw)
    BY <1>8, <1>10, <1>12, <1>13
  <2>6. ~p.fnc1Active
    BY <1>12
  <2> HIDE DEF m
  <2> QED
    BY <1>5, <1>12, <1>14, <2>2, <2>3, <2>4, <2>5, <2>6 DEF Bracketed
<1> QED
  BY <1>11, <1>16, <1>17, <1>18 DEF Sound, p

\* What is sent of some characters.
Escapes(values) == FlattenSeq([i \in DOMAIN values |-> Escaped(values[i])])

LEMMA RawChanged ==
  ASSUME NEW q, Made(q), NEW x
  PROVE  [q EXCEPT !.raw = x]
           = Parts(x, q.transmission, q.controls, q.fnc1Active, q.fnc1Modifier, q.iso15434Active,
                   q.iso15434Used)
BY DEF Made, Parts

LEMMA AppendDataOutput ==
  ASSUME ISO, NEW q, Made(q), NEW values
  PROVE  AppendData(q, values) =
           Parts(q.raw \o values, q.transmission \o Escapes(values), q.controls, q.fnc1Active,
                 q.fnc1Modifier, q.iso15434Active, q.iso15434Used)
<1> DEFINE x == q.raw \o values
           y == q.transmission \o Escapes(values)
           e == [q EXCEPT !.raw = x]
<1>1. Escapes(values) =
        FlattenSeq([i \in DOMAIN values |->
          IF ISO /\ values[i] = Backslash THEN <<Backslash, Backslash>> ELSE <<values[i]>>])
  BY DEF Escapes, Escaped
<1>2. AppendData(q, values) = [q EXCEPT !.raw = x, !.transmission = y]
  BY <1>1 DEF AppendData
<1> HIDE DEF x, y
<1>3. AppendData(q, values) = [e EXCEPT !.transmission = y]
  BY <1>2
<1>4. e = Parts(x, q.transmission, q.controls, q.fnc1Active, q.fnc1Modifier, q.iso15434Active,
                q.iso15434Used)
  BY RawChanged
<1> HIDE DEF e
<1>5. AppendData(q, values) =
        Parts(x, y, q.controls, q.fnc1Active, q.fnc1Modifier, q.iso15434Active, q.iso15434Used)
  BY <1>3, <1>4 DEF Parts
<1> QED
  BY <1>5 DEF x, y

LEMMA SeparatorOutput ==
  ASSUME ISO, NEW o \in Outputs, o.fnc1Active
  PROVE  FNC1(o) =
           Parts(Append(o.raw, 29), Append(o.transmission, 29),
                 Append(o.controls, Control("fnc1separator", Len(o.raw), 0)),
                 o.fnc1Active, o.fnc1Modifier, o.iso15434Active, o.iso15434Used)
<1> DEFINE q == Noted(o, "fnc1separator", 0)
<1>1. q = Noted(o, "fnc1separator", 0) /\ FNC1(o) = AppendData(q, <<29>>)
  BY DEF FNC1
<1> HIDE DEF q
<1>2. /\ Made(q)
      /\ q.raw = o.raw /\ q.transmission = o.transmission
      /\ q.controls = Append(o.controls, Control("fnc1separator", Len(o.raw), 0))
      /\ q.fnc1Active = o.fnc1Active /\ q.fnc1Modifier = o.fnc1Modifier
      /\ q.iso15434Active = o.iso15434Active /\ q.iso15434Used = o.iso15434Used
  <2>1. q = Parts(o.raw, o.transmission, Append(o.controls, Control("fnc1separator", Len(o.raw), 0)),
                  o.fnc1Active, o.fnc1Modifier, o.iso15434Active, o.iso15434Used)
    BY <1>1, NotedOutput
  <2> DEFINE d == Append(o.controls, Control("fnc1separator", Len(o.raw), 0))
  <2> HIDE DEF d
  <2>2. /\ q.raw = o.raw /\ q.transmission = o.transmission /\ q.controls = d
        /\ q.fnc1Active = o.fnc1Active /\ q.fnc1Modifier = o.fnc1Modifier
        /\ q.iso15434Active = o.iso15434Active /\ q.iso15434Used = o.iso15434Used
    BY <2>1 DEF Parts, d
  <2>3. q = Parts(q.raw, q.transmission, q.controls, q.fnc1Active, q.fnc1Modifier,
                  q.iso15434Active, q.iso15434Used)
    BY <2>1, <2>2 DEF d
  <2> QED
    BY <2>2, <2>3 DEF Made, d
<1>3. Escapes(<<29>>) = <<29>>
  <2>1. [i \in DOMAIN <<29>> |-> Escaped(<<29>>[i])] = << <<29>> >>
    <3>1. 29 # Backslash /\ DOMAIN <<29>> = 1 .. 1 /\ <<29>>[1] = 29
      BY DEF Backslash
    <3> QED
      BY <3>1 DEF Escaped
  <2>2. <<29>> \in Texts
    BY DEF Texts
  <2> QED
    BY <2>1, <2>2, FlatOne DEF Escapes
<1>4. FNC1(o) = Parts(q.raw \o <<29>>, q.transmission \o <<29>>, q.controls, q.fnc1Active,
                      q.fnc1Modifier, q.iso15434Active, q.iso15434Used)
  BY <1>1, <1>2, <1>3, AppendDataOutput
<1>5. q.raw \o <<29>> = Append(o.raw, 29) /\ q.transmission \o <<29>> = Append(o.transmission, 29)
  <2>1. o.raw \in Seq(Int) /\ o.transmission \in Seq(Int)
    BY OutputFields
  <2> QED
    BY <1>2, <2>1
<1> QED
  BY <1>2, <1>4, <1>5

\* A field separator inside an FNC1 message: a control, and a character of the data.
LEMMA SoundSeparator ==
  ASSUME ISO, NEW o, Sound(o), AllowsFNC1(o), o.fnc1Active
  PROVE  Sound(FNC1(o))
<1> DEFINE p == FNC1(o)
           q == Noted(o, "fnc1separator", 0)
           c == Control("fnc1separator", Len(o.raw), 0)
           n == Len(o.raw)
           m == Len(o.controls)
           k == Put(o, c)
           s == ControlsOf(o)
           data == DataOf(o)
<1>1. o \in Outputs /\ Placed(o) /\ Tells(o) /\ Separated(o) /\ Stripped(o) /\ Judged(o) /\ Bracketed(o)
  BY DEF Sound
<1>2. p = Parts(Append(o.raw, 29), Append(o.transmission, 29), Append(o.controls, c),
                o.fnc1Active, o.fnc1Modifier, o.iso15434Active, o.iso15434Used)
  BY <1>1, SeparatorOutput
<1>3. /\ n \in Nat /\ m \in Nat /\ o.raw \in Seq(Int) /\ o.transmission \in Seq(Int)
      /\ o.controls \in Seq(Controls) /\ o.fnc1Active \in BOOLEAN /\ o.fnc1Modifier \in Int
      /\ o.iso15434Active \in BOOLEAN /\ o.iso15434Used \in BOOLEAN
  BY <1>1, OutputFields
<1>4. c \in Controls /\ c.kind = "fnc1separator" /\ c.offset = n
  <2>1. 0 \in Int /\ "fnc1separator" \in Kinds
    BY DEF Kinds
  <2> QED
    BY <1>3, <2>1, ControlType
<1>5. /\ q.raw = o.raw /\ q.transmission = o.transmission /\ q.controls = Append(o.controls, c)
      /\ q = Parts(o.raw, o.transmission, Append(o.controls, c), o.fnc1Active, o.fnc1Modifier,
                   o.iso15434Active, o.iso15434Used)
  <2>1. q = Noted(o, "fnc1separator", 0) /\ c = Control("fnc1separator", Len(o.raw), 0)
    OBVIOUS
  <2> HIDE DEF q, c
  <2>2. /\ q.raw = o.raw /\ q.transmission = o.transmission
        /\ q.controls = Append(o.controls, Control("fnc1separator", Len(o.raw), 0))
    BY <1>1, <2>1, NotedFields
  <2>3. q = Parts(o.raw, o.transmission, Append(o.controls, Control("fnc1separator", Len(o.raw), 0)),
                  o.fnc1Active, o.fnc1Modifier, o.iso15434Active, o.iso15434Used)
    BY <1>1, <2>1, NotedOutput
  <2> QED
    BY <2>1, <2>2, <2>3
<1>6. /\ p.raw = Append(o.raw, 29) /\ p.transmission = Append(o.transmission, 29)
      /\ p.controls = Append(o.controls, c)
      /\ p.fnc1Active = o.fnc1Active /\ p.fnc1Modifier = o.fnc1Modifier
      /\ p.iso15434Active = o.iso15434Active /\ p.iso15434Used = o.iso15434Used
  BY <1>2 DEF Parts
<1> HIDE DEF p, q, c
<1>7. /\ Append(o.controls, c) \in Seq(Controls) /\ Len(p.controls) = m + 1 /\ p.controls[m + 1] = c
      /\ \A j \in 1 .. m : p.controls[j] = o.controls[j]
  BY <1>3, <1>4, <1>6
<1>8. /\ Append(o.raw, 29) \in Seq(Int) /\ Append(o.transmission, 29) \in Seq(Int)
      /\ Len(p.raw) = n + 1 /\ p.raw[n + 1] = 29
      /\ \A i \in 1 .. n : p.raw[i] = o.raw[i]
  BY <1>3, <1>6
<1>9. p \in Outputs /\ q \in Outputs
  <2>1. p \in Outputs
    <3>1. Append(o.raw, 29) \in Seq(Int) /\ Append(o.transmission, 29) \in Seq(Int)
      BY <1>8
    <3>2. Append(o.controls, c) \in Seq(Controls)
      BY <1>7
    <3> QED
      BY <1>2, <1>3, <3>1, <3>2, PartsType, ZenonT(30)
  <2>2. q \in Outputs
    BY <1>3, <1>5, <1>7, PartsType, ZenonT(30)
  <2> QED
    BY <2>1, <2>2
<1>10. \A j \in 1 .. m + 1 : j \in 1 .. m \/ j = m + 1
  BY <1>3
<1>11. \A j \in 1 .. m : o.controls[j].offset \in Nat /\ o.controls[j].offset <= n
  <2> TAKE j \in 1 .. m
  <2>1. o.controls[j] \in Controls
    BY <1>3
  <2>2. o.controls[j].offset <= n
    BY <1>1 DEF Placed
  <2> QED
    BY <2>1, <2>2 DEF Controls
<1>12. Placed(q) /\ Placed(p)
  <2>1. SUFFICES ASSUME NEW j \in 1 .. m + 1
                 PROVE  /\ p.controls[j].offset <= n /\ p.controls[j].offset <= n + 1
                        /\ p.controls[j].kind = "iso15434end" => n >= 2 /\ n + 1 >= 2
    BY <1>5, <1>6, <1>7, <1>8, SMTT(30) DEF Placed
  <2>2. CASE j \in 1 .. m
    <3>1. o.controls[j].kind = "iso15434end" => n >= 2
      BY <1>1, <2>2 DEF Placed
    <3>2. p.controls[j] = o.controls[j]
      BY <1>7, <2>2
    <3>3. o.controls[j].offset \in Nat /\ o.controls[j].offset <= n
      BY <1>11, <2>2
    <3>4. o.controls[j].offset <= n + 1 /\ (n >= 2 => n + 1 >= 2)
      BY <1>3, <3>3
    <3> QED
      BY <3>1, <3>2, <3>3, <3>4
  <2>3. CASE j = m + 1
    BY <1>3, <1>4, <1>7, <2>3, SMTT(30)
  <2> QED
    BY <1>10, <2>2, <2>3
<1>13. Tells(p)
  <2>1. Told(q) = Told(o) \o Mark(q, c)
    BY <1>1, <1>4, <1>5, <1>9, ToldControl
  <2>2. Mark(q, c) = <<>>
    BY <1>4 DEF Mark
  <2>3. Told(o) \in Seq(Int)
    BY <1>1, ToldParts DEF Texts
  <2>4. Told(q) = Told(o)
    BY <2>1, <2>2, <2>3, ConcatEmptySeq
  <2>5. Told(p) = Append(Told(q), 29)
    <3>1. 29 \in Int
      OBVIOUS
    <3>2. p.raw = Append(q.raw, 29) /\ p.controls = q.controls
      BY <1>5, <1>6
    <3> QED
      BY <1>9, <1>12, <3>1, <3>2, ToldData
  <2>6. Received(Append(o.transmission, 29)) = Got(Append(Told(o), 29))
    <3>1. 29 \in Int /\ 29 # Backslash
      BY DEF Backslash
    <3> QED
      BY <1>1, <1>3, <2>3, <3>1, PlainReceived DEF Tells
  <2> QED
    BY <1>6, <2>4, <2>5, <2>6 DEF Tells
<1>14. Separated(p)
  <2> SUFFICES ASSUME NEW j \in 1 .. m + 1, p.controls[j].kind = "fnc1separator"
               PROVE  p.controls[j].offset < n + 1
    BY <1>7, <1>8 DEF Separated
  <2>1. CASE j \in 1 .. m
    <3>1. p.controls[j].offset = o.controls[j].offset
      BY <1>7, <2>1
    <3>2. o.controls[j].offset \in Nat /\ o.controls[j].offset <= n
      BY <1>11, <2>1
    <3> QED
      BY <1>3, <3>1, <3>2
  <2>2. CASE j = m + 1
    BY <1>3, <1>4, <1>7, <2>2
  <2> QED
    BY <1>10, <2>1, <2>2
<1>15. DataOf(p) = data /\ data \in Seq(Int) /\ Len(data) \in Nat
  <2>1. \A i \in 1 .. n : Marked(p, i) <=> Marked(o, i)
    <3> TAKE i \in 1 .. n
    <3>1. Marked(p, i) <=> \E j \in 1 .. m + 1 :
                             p.controls[j].kind = "fnc1separator" /\ p.controls[j].offset + 1 = i
      BY <1>7, <1>9, MarkedPlaces
    <3>2. Marked(o, i) <=> \E j \in 1 .. m :
                             o.controls[j].kind = "fnc1separator" /\ o.controls[j].offset + 1 = i
      BY <1>1, MarkedPlaces
    <3>3. p.controls[m + 1].offset + 1 # i
      BY <1>3, <1>4, <1>7
    <3>4. \A j \in 1 .. m : j \in 1 .. m + 1
      BY <1>3
    <3> QED
      BY <1>7, <1>10, <3>1, <3>2, <3>3, <3>4
  <2>2. Marked(p, n + 1)
    <3>1. m + 1 \in 1 .. m + 1
      BY <1>3
    <3> QED
      BY <1>4, <1>7, <1>9, <3>1, MarkedPlaces
  <2>3. DataOf(p) = data
    <3>1. 29 \in Int
      OBVIOUS
    <3> QED
      BY <1>1, <1>6, <1>9, <2>1, <2>2, <3>1, DataNext
  <2>4. data \in Seq(Int)
    BY <1>1, DataParts DEF Texts
  <2> QED
    BY <2>3, <2>4
<1>16. /\ k \in Controls /\ k.kind = "fnc1separator" /\ k.offset = Len(data)
       /\ c.offset - Separators(o.controls) \in Nat
  BY <1>1, <1>4, PutType
<1>17. ControlsOf(p) = Append(s, k) /\ s \in Seq(Controls)
  <2>1. s \in Seq(Controls)
    BY <1>1 DEF Stripped
  <2>2. o.controls \in Seq(Controls) /\ c \in Controls /\ p.controls = Append(o.controls, c)
    BY <1>3, <1>4, <1>6
  <2>3. c.offset - Separators(o.controls) \in Nat
    BY <1>16
  <2> HIDE DEF m, n
  <2>4. ControlsOf(p) = Append(ControlsOf(o), Put(o, c))
    BY <2>1, <2>2, <2>3, ControlsNext DEF Put
  <2> QED
    BY <2>1, <2>4
<1>18. /\ Separators(p.controls) = Separators(o.controls) + 1 /\ Separators(o.controls) \in Nat
  BY <1>3, <1>4, <1>6, SeparatorsNext
<1>19. \A i \in 1 .. Len(s) : s[i].offset <= Len(data)
  BY <1>1 DEF Stripped
<1> HIDE DEF s, k, data, m, n
<1>20. Stripped(p)
  <2>1. Append(s, k) \in Seq(Controls)
        /\ \A i \in 1 .. Len(Append(s, k)) : Append(s, k)[i].offset <= Len(data)
    BY <1>15, <1>16, <1>17, <1>19
  <2>2. n = Len(data) + Separators(o.controls)
    BY <1>1 DEF Stripped, n, data
  <2>3. Len(p.raw) = Len(DataOf(p)) + Separators(p.controls)
    BY <1>3, <1>8, <1>15, <1>18, <2>2
  <2>4. \E i \in 1 .. Len(p.raw) : p.raw[i] = 29
    BY <1>3, <1>8
  <2>5. Separators(p.controls) # 0
    BY <1>18
  <2> QED
    BY <1>15, <1>17, <2>1, <2>3, <2>4, <2>5 DEF Stripped
<1>21. Judged(p)
  <2>1. ~o.iso15434Used
    BY DEF AllowsFNC1
  <2> DEFINE st == Verdict(o)
             v == CheckControl(data, st, k)
  <2>2. Verdict(p) = v /\ st \in CheckStates
    BY <1>15, <1>16, <1>17, <1>19, CheckedNext DEF Verdict, s, data
  <2>3. st.ok /\ st.active = o.fnc1Active /\ st.cursor <= Len(data)
    BY <1>1, <2>1 DEF Judged, data
  <2> HIDE DEF v, st
  <2>4. /\ k.kind \in {"fnc1separator", "fnc1end"} => v.ok = st.active
        /\ v.cursor = Len(data)
        /\ v.active = (k.kind = "fnc1start" \/ (st.active /\ k.kind # "fnc1end"))
    BY <1>15, <1>16, <2>2, <2>3, VerdictNext DEF v
  <2>5. v.ok /\ v.active /\ v.cursor <= Len(data)
    <3>1. k.kind \in {"fnc1separator", "fnc1end"} /\ k.kind # "fnc1end"
      BY <1>16
    <3>2. st.active /\ v.ok = st.active /\ v.active = (k.kind = "fnc1start" \/ (st.active /\ k.kind # "fnc1end"))
      BY <2>3, <2>4, <3>1
    <3>3. v.ok
      BY <3>2
    <3>4. v.active
      BY <3>1, <3>2
    <3>5. v.cursor <= Len(data)
      BY <1>15, <2>4
    <3> QED
      BY <3>3, <3>4, <3>5
  <2>6. v.active \in BOOLEAN
    BY <1>15, <1>16, <2>2, CheckTypes DEF v, CheckStates
  <2>7. v.active = p.fnc1Active
    BY <1>3, <1>6, <2>5, <2>6
  <2>8. Separators(p.controls) # 0
    BY <1>18
  <2> QED
    BY <1>15, <2>2, <2>5, <2>7, <2>8 DEF Judged
<1>22. Bracketed(p)
  <2>1. ~o.iso15434Used
    BY DEF AllowsFNC1
  <2>2. p.fnc1Modifier # 0
    BY <1>1, <1>6, <2>1 DEF Bracketed
  <2> QED
    BY <1>1, <1>4, <1>6, <1>9, <2>1, <2>2, BracketedFNC1
<1> QED
  BY <1>9, <1>12, <1>13, <1>14, <1>20, <1>21, <1>22 DEF Sound, p

LEMMA OutputMade ==
  ASSUME NEW o \in Outputs
  PROVE  Made(o)
BY OutputFields DEF Made, Parts

\* What is sent of some characters and one more.
LEMMA EscapesNext ==
  /\ Escapes(<<>>) = <<>>
  /\ \A s \in Seq(Int), x \in Int :
       /\ Escapes(s) \in Seq(Int)
       /\ Escapes(Append(s, x)) = Escapes(s) \o Escaped(x)
<1>1. Escapes(<<>>) = <<>>
  <2>1. [i \in DOMAIN <<>> |-> Escaped(<<>>[i])] = <<>>
    OBVIOUS
  <2> QED
    BY <2>1, FlatEmpty DEF Escapes
<1>2. ASSUME NEW s \in Seq(Int), NEW x \in Int
      PROVE  Escapes(s) \in Seq(Int) /\ Escapes(Append(s, x)) = Escapes(s) \o Escaped(x)
  <2> DEFINE t == Append(s, x)
             n == Len(s)
             a == [i \in 1 .. n |-> Escaped(s[i])]
             b == [i \in 1 .. n + 1 |-> Escaped(t[i])]
  <2>1. /\ t \in Seq(Int) /\ n \in Nat /\ DOMAIN s = 1 .. n /\ DOMAIN t = 1 .. n + 1
        /\ t[n + 1] = x /\ \A i \in 1 .. n : t[i] = s[i]
    OBVIOUS
  <2> HIDE DEF t, n
  <2>2. \A y \in Int : Escaped(y) \in Texts
    <3>1. Backslash \in Int
      BY DEF Backslash
    <3> TAKE y \in Int
    <3> QED
      BY <3>1 DEF Escaped, Texts
  <2>3. (\A i \in 1 .. n : s[i] \in Int) /\ (\A i \in 1 .. n + 1 : t[i] \in Int)
    BY <2>1 DEF n
  <2>4. a \in Seq(Texts) /\ b \in Seq(Texts) /\ Len(a) = n /\ Len(b) = n + 1
    BY <2>1, <2>2, <2>3
  <2>5. (\A i \in 1 .. n : b[i] = a[i]) /\ b[n + 1] = Escaped(x)
    BY <2>1
  <2>6. Escapes(s) = FlattenSeq(a) /\ Escapes(t) = FlattenSeq(b)
    BY <2>1 DEF Escapes
  <2> HIDE DEF a, b
  <2>7. FlattenSeq(a) \in Texts
    BY <2>4, FlatText
  <2>8. FlattenSeq(b) = FlattenSeq(a) \o b[n + 1]
    BY <2>1, <2>4, <2>5, FlatLast
  <2> QED
    BY <2>5, <2>6, <2>7, <2>8 DEF t, Texts
<1> QED
  BY <1>1, <1>2

\* Some characters are put behind the data.
LEMMA SoundAppend ==
  ASSUME ISO, NEW o, Sound(o), NEW values \in Seq(Int)
  PROVE  Sound(AppendData(o, values))
<1> DEFINE n == Len(values)
           v(k) == [i \in 1 .. k |-> values[i]]
           P == {k \in 0 .. n : Sound(AppendData(o, v(k)))}
<1>1. o \in Outputs /\ Made(o)
  BY OutputMade DEF Sound
<1>2. /\ o.raw \in Seq(Int) /\ o.transmission \in Seq(Int) /\ o.controls \in Seq(Controls)
      /\ o.fnc1Active \in BOOLEAN /\ o.fnc1Modifier \in Int
      /\ o.iso15434Active \in BOOLEAN /\ o.iso15434Used \in BOOLEAN
  BY <1>1, OutputFields
<1>3. n \in Nat /\ v(n) = values /\ v(0) = <<>> /\ \A k \in 0 .. n : v(k) \in Seq(Int)
  BY SMTT(30)
<1>4. 0 \in P
  <2>1. AppendData(o, <<>>) = Parts(o.raw \o <<>>, o.transmission \o Escapes(<<>>), o.controls,
                                    o.fnc1Active, o.fnc1Modifier, o.iso15434Active, o.iso15434Used)
    BY <1>1, AppendDataOutput
  <2>2. o.raw \o <<>> = o.raw /\ o.transmission \o Escapes(<<>>) = o.transmission
    BY <1>2, EscapesNext, ConcatEmptySeq
  <2>3. AppendData(o, <<>>) = o
    BY <1>1, <2>1, <2>2 DEF Made
  <2> QED
    BY <1>3, <2>3
<1>5. ASSUME NEW k \in 0 .. n - 1, k \in P PROVE k + 1 \in P
  <2> DEFINE s == v(k)
             x == values[k + 1]
             q == AppendData(o, s)
             p == AppendData(o, v(k + 1))
  <2>1. k \in 0 .. n /\ k + 1 \in 0 .. n /\ s \in Seq(Int) /\ x \in Int /\ Sound(q)
    BY <1>3, <1>5
  <2>2. v(k + 1) = Append(s, x)
    BY <1>3
  <2> HIDE DEF v, P, s, x, n
  <2>3. q = Parts(o.raw \o s, o.transmission \o Escapes(s), o.controls, o.fnc1Active,
                  o.fnc1Modifier, o.iso15434Active, o.iso15434Used)
    BY <1>1, AppendDataOutput
  <2>4. p = Parts(o.raw \o Append(s, x), o.transmission \o Escapes(Append(s, x)), o.controls,
                  o.fnc1Active, o.fnc1Modifier, o.iso15434Active, o.iso15434Used)
    BY <1>1, <2>2, AppendDataOutput
  <2>5. o.raw \o Append(s, x) = Append(o.raw \o s, x) /\ o.raw \o s \in Seq(Int)
        /\ Append(o.raw \o s, x) \in Seq(Int)
    <3>1. o.raw \o Append(s, x) = Append(o.raw \o s, x)
      BY <1>2, <2>1, ConcatAppendInt
    <3>2. o.raw \o s \in Seq(Int)
      BY <1>2, <2>1
    <3> QED
      BY <2>1, <3>1, <3>2
  <2>6. Escapes(s) \in Seq(Int) /\ Escapes(Append(s, x)) = Escapes(s) \o Escaped(x)
    BY <2>1, EscapesNext
  <2>7. Escaped(x) \in Seq(Int)
    BY <2>1 DEF Escaped, Backslash
  <2>8. /\ o.transmission \o Escapes(Append(s, x)) = (o.transmission \o Escapes(s)) \o Escaped(x)
        /\ o.transmission \o Escapes(Append(s, x)) \in Seq(Int)
    <3> DEFINE a == Escapes(s)
               b == Escaped(x)
    <3>1. a \in Texts /\ b \in Texts /\ o.transmission \in Texts /\ Escapes(Append(s, x)) = a \o b
      BY <1>2, <2>6, <2>7 DEF Texts
    <3> HIDE DEF a, b
    <3>2. o.transmission \o (a \o b) = (o.transmission \o a) \o b /\ a \o b \in Texts
      BY <3>1, TextsJoined
    <3>3. o.transmission \o (a \o b) \in Texts
      BY <3>1, <3>2, TextsJoined
    <3> QED
      BY <3>1, <3>2, <3>3 DEF Texts, a, b
  <2> HIDE DEF p, q
  <2>9. /\ q.raw = o.raw \o s /\ q.transmission = o.transmission \o Escapes(s)
        /\ q.controls = o.controls
        /\ q.fnc1Active = o.fnc1Active /\ q.fnc1Modifier = o.fnc1Modifier
        /\ q.iso15434Active = o.iso15434Active /\ q.iso15434Used = o.iso15434Used
    BY <2>3 DEF Parts
  <2>10. /\ p.raw = Append(q.raw, x) /\ p.transmission = q.transmission \o Escaped(x)
         /\ p.controls = q.controls
         /\ p.fnc1Active = o.fnc1Active /\ p.fnc1Modifier = o.fnc1Modifier
         /\ p.iso15434Active = o.iso15434Active /\ p.iso15434Used = o.iso15434Used
    BY <2>4, <2>5, <2>8, <2>9 DEF Parts
  <2>11. p \in Outputs
    BY <1>2, <2>4, <2>5, <2>8, PartsType
  <2>12. SameFlags(q, p)
    BY <2>9, <2>10 DEF SameFlags
  <2>13. Sound(p)
    BY <2>1, <2>10, <2>11, <2>12, SoundData
  <2> QED
    BY <2>1, <2>13 DEF P, p
<1> HIDE DEF P, v
<1>6. \A k \in 0 .. n - 1 : k \in P => k + 1 \in P
  BY <1>5
<1>7. n \in Nat
  BY <1>3
<1> HIDE DEF n
<1>8. \A k \in 0 .. n : k \in P
  BY <1>4, <1>6, <1>7, PrefixInduction
<1>9. n \in P
  BY <1>7, <1>8
<1> QED
  BY <1>3, <1>9 DEF P

\* Nothing is an output the invariant holds of.
LEMMA SoundNothing == Sound(NoOutput)
<1> DEFINE o == NoOutput
<1>1. <<>> \in Seq(Int) /\ <<>> \in Seq(Controls) /\ Len(<<>>) = 0 /\ 1 .. 0 = {} /\ 0 \in Int
      /\ TRUE \in BOOLEAN /\ FALSE \in BOOLEAN
  OBVIOUS
<1>2. /\ o.raw = <<>> /\ o.transmission = <<>> /\ o.controls = <<>> /\ o.fnc1Modifier = 0
      /\ ~o.fnc1Active /\ ~o.iso15434Active /\ ~o.iso15434Used
  BY DEF NoOutput
<1>3. o \in Outputs
  BY <1>1 DEF NoOutput, Outputs
<1>4. DataOf(o) = <<>>
  <2>1. DataOf(o) = FlattenSeq(DataList(o)) /\ Len(DataList(o)) = 0 /\ DataList(o) \in Seq(Texts)
    BY <1>1, <1>2, <1>3, DataParts
  <2>2. DataList(o) = <<>>
    BY <2>1
  <2> QED
    BY <2>1, <2>2, FlatEmpty
<1>5. ControlsOf(o) = <<>>
  BY <1>2 DEF ControlsOf
<1>6. Told(o) = <<>>
  <2>1. /\ ToldList(o) \in Seq(Texts) /\ Len(ToldList(o)) = 0
        /\ Told(o) = FlattenSeq(ToldList(o)) \o MarksAt(o, 0)
    BY <1>1, <1>2, <1>3, ToldParts
  <2>2. /\ MarkList(o, 0) \in Seq(Texts) /\ Len(MarkList(o, 0)) = 0
        /\ MarksAt(o, 0) = FlattenSeq(MarkList(o, 0))
    BY <1>1, <1>2, <1>3, MarksText
  <2>3. ToldList(o) = <<>> /\ MarkList(o, 0) = <<>>
    BY <2>1, <2>2
  <2>4. Told(o) = <<>> \o <<>>
    BY <2>1, <2>2, <2>3, FlatEmpty
  <2> QED
    BY <2>4
<1> HIDE DEF o
<1>7. Tells(o)
  <2>1. Received(<<>>) = Ready
    BY ReceivedNext
  <2> QED
    BY <1>2, <1>6, <2>1 DEF Tells, Got, Ready
<1>8. Placed(o) /\ Separated(o)
  BY <1>1, <1>2 DEF Placed, Separated
<1>9. Separators(o.controls) = 0
  BY <1>2, SeparatorsNone
<1>10. Stripped(o)
  BY <1>1, <1>2, <1>4, <1>5, <1>9 DEF Stripped
<1>11. Judged(o)
  <2>1. Verdict(o) = Unchecked
    BY <1>4, <1>5, CheckedEmpty DEF Verdict
  <2>2. /\ Unchecked.ok /\ Unchecked.active = FALSE /\ Unchecked.cursor = 0 /\ Unchecked.sent = <<>>
    BY DEF Unchecked
  <2>3. SubSeq(<<>>, 1, 0) = <<>>
    OBVIOUS
  <2>4. o.fnc1Active = FALSE
    BY <1>2, <1>3, OutputFields
  <2>5. Verdict(o).ok /\ Verdict(o).active = o.fnc1Active /\ Verdict(o).cursor = 0
        /\ Verdict(o).sent = SubSeq(o.raw, 1, 0)
    BY <1>2, <2>1, <2>2, <2>3, <2>4
  <2>6. 0 <= Len(DataOf(o))
    BY <1>1, <1>4
  <2> QED
    BY <2>5, <2>6 DEF Judged
<1>12. Bracketed(o)
  BY <1>1, <1>2 DEF Bracketed
<1> QED
  BY <1>3, <1>7, <1>8, <1>10, <1>11, <1>12 DEF Sound, o

-----------------------------------------------------------------------------
(* What the fields of the stream give the output.                            *)

LEMMA SizeNat ==
  ASSUME NEW m \in Upper .. Alphanumeric
  PROVE  Size(m) \in Nat
BY DEF Size, CharacterSize, Upper, Alphanumeric

LEMMA AlphabetText ==
  ASSUME NEW m \in Upper .. Alphanumeric
  PROVE  DecodingTable[m] \in Seq(Int)
<1> USE DEF Upper, Alphanumeric, Lower, Numeric, Punct, Mixed
<1>1. \A f \in Int : Letters(f) \in Seq(Int)
  BY DEF Letters
<1>2. Digits \in Seq(Int)
  BY DEF Digits
<1>3. <<SP>> \in Seq(Int) /\ 65 \in Int /\ 97 \in Int /\ <<44, 46>> \in Seq(Int)
  BY DEF SP
<1>4. CASE m = Upper
  BY <1>1, <1>3, <1>4 DEF DecodingTable
<1>5. CASE m = Lower
  BY <1>1, <1>3, <1>5 DEF DecodingTable
<1>6. CASE m = Numeric
  BY <1>2, <1>3, <1>6 DEF DecodingTable
<1>7. CASE m = Punct
  BY <1>7 DEF DecodingTable
<1>8. CASE m = Mixed
  BY <1>8 DEF DecodingTable, LF, CR
<1>9. CASE m = Alphanumeric
  BY <1>1, <1>2, <1>3, <1>9 DEF DecodingTable
<1> QED
  BY <1>4, <1>5, <1>6, <1>7, <1>8, <1>9

LEMMA CharacterText ==
  ASSUME NEW m \in Upper .. Alphanumeric, NEW v \in Nat, v < Len(DecodingTable[m])
  PROVE  TextOf(m, v) \in Seq(Int)
<1>1. CASE m = Mixed /\ v \in DOMAIN PairText
  <2>1. v = 19 \/ v = 20 \/ v = 21 \/ v = 22
    BY <1>1 DEF PairText
  <2>2. /\ <<LF, CR>> \in Seq(Int) /\ <<44, SP>> \in Seq(Int) /\ <<46, SP>> \in Seq(Int)
        /\ <<58, SP>> \in Seq(Int)
    BY DEF LF, CR, SP
  <2>3. PairText[v] \in Seq(Int)
    BY <2>1, <2>2 DEF PairText
  <2> QED
    BY <1>1, <2>3 DEF TextOf
<1>2. CASE ~(m = Mixed /\ v \in DOMAIN PairText)
  <2>1. DecodingTable[m] \in Seq(Int)
    BY AlphabetText
  <2>2. DecodingTable[m][v + 1] \in Int
    BY <2>1
  <2>3. <<DecodingTable[m][v + 1]>> \in Seq(Int)
    BY <2>2
  <2>4. TextOf(m, v) = <<DecodingTable[m][v + 1]>>
    BY <1>2 DEF TextOf
  <2> QED
    BY <2>3, <2>4
<1> QED
  BY <1>1, <1>2

LEMMA PrefixText ==
  ASSUME NEW k \in 1 .. 3
  PROVE  Prefix[k] \in Seq(Int)
<1>1. /\ <<104, 116, 116, 112, 115, 58, 47, 47>> \in Seq(Int)
      /\ <<104, 116, 116, 112, 58, 47, 47>> \in Seq(Int)
      /\ <<119, 119, 119, 46>> \in Seq(Int)
  OBVIOUS
<1>2. k = 1 \/ k = 2 \/ k = 3
  OBVIOUS
<1>3. Prefix[1] \in Seq(Int) /\ Prefix[2] \in Seq(Int) /\ Prefix[3] \in Seq(Int)
  BY <1>1 DEF Prefix
<1> QED
  BY <1>2, <1>3

LEMMA RunFields ==
  ASSUME index \in Nat
  PROVE  /\ RunStart \in Nat /\ RunLength \in Nat
         /\ \A n \in Nat : Bytes(n) \in Seq(Int)
<1>1. RunBits \in Nat /\ ShortRun \in Nat /\ LongRunBits \in Nat
  BY LongRunAssumption DEF RunBits, ShortRun
<1>2. RunStart \in Nat
  BY <1>1 DEF RunStart
<1>3. Field(index, RunBits) \in Nat /\ Field(index + RunBits, LongRunBits) \in Nat
  <2>1. index \in Int /\ RunBits \in Int /\ index + RunBits \in Int /\ LongRunBits \in Int
    BY <1>1
  <2> QED
    BY <2>1, FieldNat
<1>4. RunLength \in Nat
  BY <1>1, <1>3 DEF RunLength
<1>5. ASSUME NEW n \in Nat
      PROVE  Bytes(n) \in Seq(Int)
  <2>1. ASSUME NEW i \in 1 .. n
        PROVE  Field(RunStart + 8 * i - 8, 8) \in Int
    <3>1. RunStart + 8 * i - 8 \in Int /\ 8 \in Int
      BY <1>2
    <3> QED
      BY <3>1, FieldNat
  <2>2. \A i \in 1 .. n : Field(RunStart + 8 * i - 8, 8) \in Int
    BY <2>1
  <2> QED
    BY <2>2 DEF Bytes
<1> QED
  BY <1>2, <1>4, <1>5

-----------------------------------------------------------------------------
(* The reader keeps the invariant of its output.                             *)

\* A finished output without its symbology identifier.
Sending(o) == [o EXCEPT !.transmission = SubSeq(@, 4, Len(@))]

\* The inductive invariant of the ISO reader.
IInv ==
  ISO =>
    /\ index \in Nat
    /\ status \in {"writing", "reading"} => Sound(output)
    /\ status = "done" => Sound(Sending(output)) /\ ~output.fnc1Active /\ ~output.iso15434Active

LEMMA InitHolds == Init => IInv
BY SoundNothing DEF Init, IInv

\* A turn that reads on.
LEMMA ReadOn ==
  ASSUME ISO, NEW next, NEW m, NEW p, NEW o, Continue(next, m, p, o), next \in Nat, Sound(o),
         status = "reading"
  PROVE  IInv'
<1>1. /\ index' \in Nat /\ output' = o /\ status' = "reading"
  BY DEF Continue
<1> QED
  BY <1>1 DEF IInv

LEMMA Refused ==
  ASSUME ISO, NEW o, Fail(o), index \in Nat
  PROVE  IInv'
<1>1. status' = "failed" /\ index' = index
  BY DEF Fail
<1> QED
  BY <1>1 DEF IInv

LEMMA FinishHolds ==
  ASSUME ISO, Sound(output), Finish(output), index \in Nat
  PROVE  IInv'
<1> DEFINE x == 48 + IF output.fnc1Modifier = 0 THEN 1 ELSE output.fnc1Modifier
           h == <<93, 106, x>>
           q == output
<1>1. q \in Outputs
  BY DEF Sound
<1>2. q.fnc1Modifier \in Int /\ q.transmission \in Seq(Int)
  BY <1>1, OutputFields
<1>3. h \in Seq(Int) /\ Len(h) = 3
  BY <1>2
<1>4. index' = index
  BY DEF Finish
<1>5. CASE q.fnc1Active \/ q.iso15434Active
  <2>1. status' = "failed"
    BY <1>5 DEF Finish
  <2> QED
    BY <1>4, <2>1 DEF IInv
<1>6. CASE ~(q.fnc1Active \/ q.iso15434Active)
  <2>1. status' = "done" /\ output' = [q EXCEPT !.transmission = h \o q.transmission]
    BY <1>6 DEF Finish
  <2>2. Made(q)
    BY <1>1, OutputMade
  <2> DEFINE y == h \o q.transmission
  <2> HIDE DEF y, h
  <2>3. output' = Parts(q.raw, y, q.controls, q.fnc1Active, q.fnc1Modifier, q.iso15434Active,
                        q.iso15434Used)
    BY <2>1, <2>2, TransmissionChanged DEF y
  <2>4. /\ ~output'.fnc1Active /\ ~output'.iso15434Active
    BY <1>6, <2>3 DEF Parts
  <2>5. SubSeq(y, 4, Len(y)) = q.transmission
    <3> DEFINE t == q.transmission
    <3>1. t \in Seq(Int) /\ h \in Seq(Int) /\ Len(h) = 3
      BY <1>2, <1>3
    <3> HIDE DEF t
    <3>2. y \in Seq(Int) /\ Len(y) = 3 + Len(t) /\ \A i \in 1 .. Len(t) : y[i + 3] = t[i]
      <4>1. y = h \o t
        BY DEF y, t
      <4>2. y \in Seq(Int) /\ Len(y) = Len(h) + Len(t)
        BY <3>1, <4>1, ConcatProperties
      <4>3. \A i \in 1 .. Len(t) : i + 3 \in 1 .. Len(h) + Len(t) /\ ~(i + 3 <= Len(h)) /\ i + 3 - Len(h) = i
        BY <3>1
      <4>4. \A i \in 1 .. Len(h) + Len(t) : (h \o t)[i] = IF i <= Len(h) THEN h[i] ELSE t[i - Len(h)]
        BY <3>1, ConcatProperties
      <4> QED
        BY <3>1, <4>1, <4>2, <4>3, <4>4
    <3> HIDE DEF y
    <3>3. /\ SubSeq(y, 4, Len(y)) \in Seq(Int) /\ Len(SubSeq(y, 4, Len(y))) = Len(t)
          /\ \A i \in 1 .. Len(t) : SubSeq(y, 4, Len(y))[i] = y[i + 3]
      BY <3>1, <3>2
    <3>4. SubSeq(y, 4, Len(y)) = t
      BY <3>1, <3>2, <3>3
    <3> QED
      BY <3>4 DEF t
  <2>6. Sending(output') = q
    <3>1. output'.transmission = y
      BY <2>3 DEF Parts
    <3>2. Sending(output') = [output' EXCEPT !.transmission = q.transmission]
      BY <2>5, <3>1 DEF Sending
    <3> DEFINE z == q.transmission
    <3> HIDE DEF z
    <3>3. [output' EXCEPT !.transmission = z] =
            Parts(q.raw, z, q.controls, q.fnc1Active, q.fnc1Modifier, q.iso15434Active, q.iso15434Used)
      BY <2>3 DEF Parts
    <3> QED
      BY <2>2, <3>2, <3>3 DEF Made, z
  <2> QED
    BY <1>4, <2>1, <2>4, <2>6 DEF IInv
<1> QED
  BY <1>5, <1>6

LEMMA WriteHolds ==
  ASSUME IInv, Write
  PROVE  IInv'
<1>1. index' = index /\ output' = output /\ request' = request /\ status = "writing"
      /\ status' \in {"refused", "reading"}
  BY DEF Write, Deliver
<1> QED
  BY <1>1 DEF IInv, ISO

\* What the additional switches of upper mode do.
LEMMA AdditionalTurns ==
  ASSUME TakeAdditional
  PROVE  \/ Fail(output)
         \/ /\ Field(After + 2, 3) \in 1 .. 3
            /\ Continue(After + 2 + 3, (IF preMode # NoMode THEN preMode ELSE Upper), preMode,
                        AppendData(output, Prefix[Field(After + 2, 3)]))
         \/ /\ AllowsISO15434(output)
            /\ Continue(After + 2 + 3, Upper, NoMode, ISO15434(output))
         \/ AllowsFNC1(output) /\ Continue(After + 2 + 3, Upper, NoMode, FNC1(output))
         \/ AllowsEOT(output) /\ Continue(After + 2 + 3, Upper, NoMode, EOT(output))
<1> DEFINE kind == Field(After + 2, 3)
<1>1. CASE ~Has(After + 2, 3)
  BY <1>1 DEF TakeAdditional
<1>2. CASE Has(After + 2, 3)
  <2>1. CASE kind = 0
    BY <1>2, <2>1 DEF TakeAdditional
  <2>2. CASE kind \in 1 .. 3
    BY <1>2, <2>2 DEF TakeAdditional
  <2>3. CASE kind = 4
    BY <1>2, <2>3 DEF TakeAdditional
  <2>4. CASE kind = 5
    BY <1>2, <2>4 DEF TakeAdditional
  <2>5. CASE kind \notin {0, 4, 5} /\ kind \notin 1 .. 3
    BY <1>2, <2>5 DEF TakeAdditional
  <2> QED
    BY <2>1, <2>2, <2>3, <2>4, <2>5
<1> QED
  BY <1>1, <1>2

LEMMA SameRequest ==
  ASSUME Next
  PROVE  request' = request
<1>1. \A o : Finish(o) => request' = request
  BY DEF Finish
<1>2. \A o : Fail(o) => request' = request
  BY <1>1 DEF Fail
<1>3. \A n, m, p, o : Continue(n, m, p, o) => request' = request
  BY DEF Continue
<1>4. CASE Write
  BY <1>4 DEF Write
<1>5. CASE EndOfStream
  BY <1>1, <1>5 DEF EndOfStream
<1>6. CASE SentinelMode \/ ShortField \/ ShortExtension \/ ShortRunLength
  BY <1>2, <1>6 DEF SentinelMode, ShortField, ShortExtension, ShortRunLength
<1>7. CASE TakeCharacter \/ Switch \/ SwitchExtended
  BY <1>3, <1>7 DEF TakeCharacter, Switch, SwitchExtended
<1>8. CASE EndOfMessage
  BY <1>1, <1>8 DEF EndOfMessage
<1>9. CASE TakeECI
  BY <1>2, <1>3, <1>9 DEF TakeECI
<1>10. CASE TakeAdditional
  BY <1>2, <1>3, <1>10, AdditionalTurns
<1>11. CASE TakeByteRun
  BY <1>2, <1>3, <1>11 DEF TakeByteRun
<1>12. CASE Terminated
  BY <1>12 DEF Terminated, vars
<1> QED
  BY <1>4, <1>5, <1>6, <1>7, <1>8, <1>9, <1>10, <1>11, <1>12 DEF Next

\* What an action finds that reads.
Here == ISO /\ status = "reading" /\ index \in Nat /\ Sound(output)

LEMMA TakeCharacterHolds ==
  ASSUME Here, TakeCharacter
  PROVE  IInv'
<1>1. /\ mode \in Upper .. Alphanumeric /\ Value < Len(DecodingTable[mode]) /\ index \in Nat
      /\ ISO /\ status = "reading" /\ Sound(output)
      /\ Continue(After, Resume(mode, preMode), preMode, AppendData(output, TextOf(mode, Value)))
  BY DEF Here, TakeCharacter, HasValue, InMode
<1>2. Size(mode) \in Nat
  BY <1>1, SizeNat
<1>3. After \in Nat /\ Value \in Nat
  <2>1. index \in Int /\ Size(mode) \in Int
    BY <1>1, <1>2
  <2> QED
    <3>1. Field(index, Size(mode)) \in Nat
      BY <2>1, FieldNat
    <3> QED
      BY <1>1, <1>2, <3>1 DEF After, Value
<1>4. TextOf(mode, Value) \in Seq(Int)
  BY <1>1, <1>3, CharacterText
<1>5. Sound(AppendData(output, TextOf(mode, Value)))
  BY <1>1, <1>4, SoundAppend
<1> QED
  BY <1>1, <1>3, <1>5, ReadOn

LEMMA SwitchHolds ==
  ASSUME Here, Switch
  PROVE  IInv'
<1>1. /\ mode \in Upper .. Alphanumeric /\ index \in Nat
      /\ ISO /\ status = "reading" /\ Sound(output)
      /\ Continue(After, Switches[mode][Value][1], Switches[mode][Value][2], output)
  BY DEF Here, Switch, HasValue, InMode
<1>2. After \in Nat
  BY <1>1, SizeNat DEF After
<1> QED
  BY <1>1, <1>2, ReadOn

LEMMA SwitchExtendedHolds ==
  ASSUME Here, SwitchExtended
  PROVE  IInv'
<1> DEFINE to == ExtendedSwitch(mode, Extension)
<1>1. /\ mode \in Upper .. Alphanumeric /\ index \in Nat
      /\ ISO /\ status = "reading" /\ Sound(output)
      /\ Continue(After + 2, to[1], to[2], output)
  BY DEF Here, SwitchExtended, Extends, HasValue, InMode
<1>2. After + 2 \in Nat
  BY <1>1, SizeNat DEF After
<1> HIDE DEF to
<1> QED
  BY <1>1, <1>2, ReadOn

LEMMA TakeECIHolds ==
  ASSUME Here, TakeECI
  PROVE  IInv'
<1> DEFINE at    == After + 2
           total == IF ~Has(at, 1) \/ Field(at, 1) = 0 THEN 8
                    ELSE IF ~Has(at, 2) \/ Field(at, 2) = 2 THEN 16 ELSE 22
           kept  == CASE total = 8 -> 7 [] total = 16 -> 14 [] total = 22 -> 20
           a     == Field(at, total) % 2 ^ kept
<1>1. /\ mode \in Upper .. Alphanumeric /\ index \in Nat
      /\ ISO /\ status = "reading" /\ Sound(output)
  BY DEF Here, TakeECI, Extends, HasValue, InMode
<1>2. IF ~Has(at, total) \/ a > MaxAssignment THEN Fail(output)
      ELSE Continue(at + total, Upper, preMode, AppendECI(output, a))
  BY DEF TakeECI
<1>3. at \in Nat
  BY <1>1, SizeNat DEF After
<1>4. total \in {8, 16, 22}
  OBVIOUS
<1>5. total \in Nat /\ kept \in {7, 14, 20}
  BY <1>4
<1>6. 2 ^ kept \in Nat \ {0}
  <2> HIDE DEF kept
  <2>1. 2 ^ 7 \in Nat \ {0} /\ 2 ^ 14 \in Nat \ {0} /\ 2 ^ 20 \in Nat \ {0}
    OBVIOUS
  <2> QED
    BY <1>5, <2>1
<1>7. Field(at, total) \in Nat
  <2> HIDE DEF at, total
  <2>1. at \in Int /\ total \in Int
    BY <1>3, <1>5
  <2> QED
    BY <2>1, FieldNat
<1>8. a \in Nat
  <2> DEFINE f == Field(at, total)
             d == 2 ^ kept
  <2>1. f \in Nat /\ d \in Nat \ {0} /\ a = f % d
    BY <1>6, <1>7
  <2> HIDE DEF f, d, a
  <2> QED
    BY <2>1
<1> HIDE DEF a, total, kept, at
<1>9. CASE ~Has(at, total) \/ a > MaxAssignment
  BY <1>1, <1>2, <1>9, Refused
<1>10. CASE ~(~Has(at, total) \/ a > MaxAssignment)
  <2>1. Continue(at + total, Upper, preMode, AppendECI(output, a))
    BY <1>2, <1>10
  <2>2. a \in 0 .. MaxAssignment
    <3>1. MaxAssignment \in Nat
      BY DEF MaxAssignment
    <3> QED
      BY <1>8, <1>10, <3>1
  <2>3. Sound(AppendECI(output, a))
    BY <1>1, <2>2, SoundECI
  <2>4. at + total \in Nat
    BY <1>3, <1>5
  <2> QED
    BY <1>1, <2>1, <2>3, <2>4, ReadOn
<1> QED
  BY <1>9, <1>10

LEMMA TakeAdditionalHolds ==
  ASSUME Here, TakeAdditional
  PROVE  IInv'
<1>1. /\ mode \in Upper .. Alphanumeric /\ index \in Nat
      /\ ISO /\ status = "reading" /\ Sound(output)
  BY DEF Here, TakeAdditional, Extends, HasValue, InMode
<1>2. After + 2 + 3 \in Nat
  BY <1>1, SizeNat DEF After
<1>3. CASE Fail(output)
  BY <1>1, <1>3, Refused
<1>4. CASE /\ Field(After + 2, 3) \in 1 .. 3
           /\ Continue(After + 2 + 3, (IF preMode # NoMode THEN preMode ELSE Upper), preMode,
                       AppendData(output, Prefix[Field(After + 2, 3)]))
  <2>1. Sound(AppendData(output, Prefix[Field(After + 2, 3)]))
    <3>1. Prefix[Field(After + 2, 3)] \in Seq(Int)
      BY <1>4, PrefixText
    <3> QED
      BY <1>1, <3>1, SoundAppend
  <2> QED
    BY <1>1, <1>2, <1>4, <2>1, ReadOn
<1>5. CASE AllowsISO15434(output) /\ Continue(After + 2 + 3, Upper, NoMode, ISO15434(output))
  <2>1. Sound(ISO15434(output))
    BY <1>1, <1>5, SoundStart
  <2> QED
    BY <1>1, <1>2, <1>5, <2>1, ReadOn
<1>6. CASE AllowsFNC1(output) /\ Continue(After + 2 + 3, Upper, NoMode, FNC1(output))
  <2>1. Sound(FNC1(output))
    <3>1. CASE output.fnc1Active
      BY <1>1, <1>6, <3>1, SoundSeparator
    <3>2. CASE ~output.fnc1Active
      BY <1>1, <1>6, <3>2, SoundFNC1
    <3> QED
      BY <3>1, <3>2
  <2> QED
    BY <1>1, <1>2, <1>6, <2>1, ReadOn
<1>7. CASE AllowsEOT(output) /\ Continue(After + 2 + 3, Upper, NoMode, EOT(output))
  <2>1. Sound(EOT(output))
    <3>1. CASE output.fnc1Active
      BY <1>1, <3>1, SoundEOT
    <3>2. CASE ~output.fnc1Active
      BY <1>1, <1>7, <3>2, SoundEnd
    <3> QED
      BY <3>1, <3>2
  <2> QED
    BY <1>1, <1>2, <1>7, <2>1, ReadOn
<1> QED
  BY <1>3, <1>4, <1>5, <1>6, <1>7, AdditionalTurns

LEMMA TakeByteRunHolds ==
  ASSUME Here, TakeByteRun
  PROVE  IInv'
<1>1. index \in Nat /\ ISO /\ status = "reading" /\ Sound(output)
  BY DEF Here
<1>2. RunStart \in Nat /\ RunLength \in Nat /\ \A n \in Nat : Bytes(n) \in Seq(Int)
  BY <1>1, RunFields
<1>3. CASE Has(RunStart, 8 * RunLength)
  <2>1. Continue(RunStart + 8 * RunLength, preMode, preMode, AppendData(output, Bytes(RunLength)))
    BY <1>3 DEF TakeByteRun
  <2>2. Sound(AppendData(output, Bytes(RunLength)))
    BY <1>1, <1>2, SoundAppend
  <2>3. RunStart + 8 * RunLength \in Nat
    BY <1>2
  <2> QED
    BY <1>1, <2>1, <2>2, <2>3, ReadOn
<1>4. CASE ~Has(RunStart, 8 * RunLength)
  <2>1. Fail(AppendData(output, Bytes((Len(bits) - RunStart) \div 8)))
    BY <1>4 DEF TakeByteRun
  <2> QED
    BY <1>1, <2>1, Refused
<1> QED
  BY <1>3, <1>4

LEMMA StepHolds ==
  ASSUME IInv, [Next]_vars
  PROVE  IInv'
<1>1. CASE UNCHANGED vars
  BY <1>1 DEF IInv, ISO, vars
<1>2. CASE Next
  <2>1. request' = request
    BY <1>2, SameRequest
  <2>2. CASE ~ISO
    BY <2>1, <2>2 DEF IInv, ISO
  <2>3. CASE ISO
    <3>1. CASE Write
      BY <3>1, WriteHolds
    <3>2. CASE Terminated
      BY <3>2 DEF Terminated, IInv, ISO, vars
    <3>3. CASE EndOfMessage
      BY <2>3, <3>3 DEF EndOfMessage
    <3>4. SUFFICES ASSUME \/ EndOfStream \/ SentinelMode
                          \/ ShortField \/ TakeCharacter \/ Switch
                          \/ ShortExtension \/ SwitchExtended \/ TakeECI \/ TakeAdditional
                          \/ ShortRunLength \/ TakeByteRun
                   PROVE  IInv'
      BY <1>2, <3>1, <3>2, <3>3 DEF Next
    <3>5. status = "reading"
      BY <3>4 DEF EndOfStream, SentinelMode, ShortField, TakeCharacter, Switch, ShortExtension,
                  SwitchExtended, TakeECI, TakeAdditional, ShortRunLength, TakeByteRun, Extends,
                  HasValue, InMode, ByteMode, Reading
    <3>6. Here /\ ISO /\ index \in Nat /\ Sound(output)
      BY <2>3, <3>5 DEF Here, IInv
    <3>7. CASE EndOfStream
      <4>1. Finish(output)
        BY <3>7 DEF EndOfStream
      <4> QED
        BY <3>6, <4>1, FinishHolds
    <3>8. CASE SentinelMode \/ ShortField \/ ShortExtension \/ ShortRunLength
      <4>1. Fail(output)
        BY <3>8 DEF SentinelMode, ShortField, ShortExtension, ShortRunLength
      <4> QED
        BY <3>6, <4>1, Refused
    <3>9. CASE TakeCharacter
      BY <3>6, <3>9, TakeCharacterHolds
    <3>10. CASE Switch
      BY <3>6, <3>10, SwitchHolds
    <3>11. CASE SwitchExtended
      BY <3>6, <3>11, SwitchExtendedHolds
    <3>12. CASE TakeECI
      BY <3>6, <3>12, TakeECIHolds
    <3>13. CASE TakeAdditional
      BY <3>6, <3>13, TakeAdditionalHolds
    <3>14. CASE TakeByteRun
      BY <3>6, <3>14, TakeByteRunHolds
    <3> QED
      BY <3>4, <3>7, <3>8, <3>9, <3>10, <3>11, <3>12, <3>13, <3>14
  <2> QED
    BY <2>2, <2>3
<1> QED
  BY <1>1, <1>2

\* What a finished output holds, told by the output its identifier was put on.
LEMMA SendingFields ==
  ASSUME NEW o, Sending(o) \in Outputs
  PROVE  /\ o.raw = Sending(o).raw /\ o.controls = Sending(o).controls
         /\ o.fnc1Active = Sending(o).fnc1Active /\ o.iso15434Active = Sending(o).iso15434Active
         /\ Sending(o).transmission = SubSeq(o.transmission, 4, Len(o.transmission))
<1> DEFINE y == SubSeq(o.transmission, 4, Len(o.transmission))
<1>1. Sending(o) = [o EXCEPT !.transmission = y]
  BY DEF Sending
<1> HIDE DEF y
<1>2. DOMAIN Sending(o) = DOMAIN o
  BY <1>1
<1>3. {"raw", "controls", "fnc1Active", "iso15434Active", "transmission"} \subseteq DOMAIN Sending(o)
  BY DEF Outputs
<1>4. /\ o.raw = Sending(o).raw /\ o.controls = Sending(o).controls
      /\ o.fnc1Active = Sending(o).fnc1Active /\ o.iso15434Active = Sending(o).iso15434Active
      /\ Sending(o).transmission = y
  BY <1>1, <1>2, <1>3
<1> QED
  BY <1>4 DEF y

LEMMA SameTold ==
  ASSUME NEW o, NEW q, q.raw = o.raw, q.controls = o.controls
  PROVE  Told(q) = Told(o)
<1>1. \A c : Mark(q, c) = Mark(o, c)
  BY DEF Mark
<1>2. \A i : MarksAt(q, i) = MarksAt(o, i)
  BY <1>1 DEF MarksAt
<1> QED
  BY <1>2 DEF Told

LEMMA SameData ==
  ASSUME NEW o, NEW q, q.raw = o.raw, q.controls = o.controls
  PROVE  DataOf(q) = DataOf(o) /\ ControlsOf(q) = ControlsOf(o)
<1>1. \A i : Marked(q, i) <=> Marked(o, i)
  BY DEF Marked
<1> QED
  BY <1>1 DEF DataOf, ControlsOf

LEMMA AcceptedHolds == IInv => AcceptedIsWellFormed
<1> DEFINE q == Sending(output)
<1>1. SUFFICES ASSUME ISO, status = "done", Sound(q), ~output.fnc1Active, ~output.iso15434Active
               PROVE  IF Uses15434(output.controls) THEN Formatted(output)
                      ELSE Structured(DataOf(output), ControlsOf(output))
  BY DEF IInv, AcceptedIsWellFormed
<1>2. q \in Outputs /\ Judged(q) /\ Bracketed(q)
  BY <1>1 DEF Sound
<1>3. /\ output.raw = q.raw /\ output.controls = q.controls
      /\ output.fnc1Active = q.fnc1Active /\ output.iso15434Active = q.iso15434Active
  BY <1>2, SendingFields
<1> DEFINE s == output.controls
<1>4. s \in Seq(Controls) /\ DOMAIN s = 1 .. Len(s) /\ q.fnc1Active \in BOOLEAN
  BY <1>2, <1>3, OutputFields
<1>5. Uses15434(s) <=> \E i \in 1 .. Len(s) : s[i].kind = "iso15434start"
  BY <1>4 DEF Uses15434, ToSet
<1> HIDE DEF q
<1>6. CASE q.iso15434Used
  <2>1. PICK i \in 1 .. Len(s) :
          /\ Started(q, i)
          /\ HasFormat(q.raw)
          /\ \E j \in 1 .. Len(s) :
               /\ i < j /\ Ended(q, j)
               /\ \A k \in 1 .. Len(s) \ {i, j} : q.controls[k].kind = "eci"
    BY <1>1, <1>2, <1>3, <1>6 DEF Bracketed
  <2>2. PICK j \in 1 .. Len(s) :
          /\ i < j /\ Ended(q, j)
          /\ \A k \in 1 .. Len(s) \ {i, j} : q.controls[k].kind = "eci"
    BY <2>1
  <2>3. Uses15434(s)
    BY <1>3, <1>5, <2>1 DEF Started
  <2>4. Formatted(output)
    <3>1. i \in DOMAIN output.controls /\ j \in DOMAIN output.controls
      BY <1>4
    <3>2. HasFormat(output.raw)
      BY <1>3, <2>1
    <3>3. output.controls[i].kind = "iso15434start" /\ output.controls[i].offset = 0
      BY <1>3, <2>1 DEF Started
    <3>4. output.controls[j].kind = "iso15434end" /\ output.controls[j].offset >= 2
      BY <1>3, <2>2 DEF Ended
    <3>5. \A k \in DOMAIN output.controls \ {i, j} : output.controls[k].kind = "eci"
      BY <1>3, <1>4, <2>2
    <3> QED
      BY <2>2, <3>1, <3>2, <3>3, <3>4, <3>5 DEF Formatted
  <2> QED
    BY <2>3, <2>4
<1>7. CASE ~q.iso15434Used
  <2>1. ~Uses15434(s)
    BY <1>2, <1>3, <1>5, <1>7 DEF Bracketed
  <2>2. Verdict(q).ok /\ ~Verdict(q).active
    <3>1. Verdict(q).ok /\ Verdict(q).active = q.fnc1Active /\ ~q.fnc1Active
      BY <1>1, <1>2, <1>3, <1>7 DEF Judged
    <3> QED
      BY <1>4, <3>1
  <2>3. Structured(DataOf(q), ControlsOf(q))
    BY <2>2, StructuredChecked DEF Verdict
  <2>4. DataOf(q) = DataOf(output) /\ ControlsOf(q) = ControlsOf(output)
    BY <1>3, SameData
  <2> QED
    BY <2>1, <2>3, <2>4
<1> QED
  BY <1>6, <1>7

LEMMA TellsHolds == IInv => TransmissionTellsMessage
<1> DEFINE q == Sending(output)
<1>1. SUFFICES ASSUME ISO, status = "done", Sound(q)
               PROVE  Received(SubSeq(output.transmission, 4, Len(output.transmission)))
                        = [got |-> Told(output), wait |-> 0, eci |-> 0]
  BY DEF IInv, TransmissionTellsMessage
<1>2. q \in Outputs /\ Tells(q)
  BY <1>1 DEF Sound
<1>3. /\ output.raw = q.raw /\ output.controls = q.controls
      /\ q.transmission = SubSeq(output.transmission, 4, Len(output.transmission))
  BY <1>2, SendingFields
<1> HIDE DEF q
<1>4. Told(q) = Told(output)
  BY <1>3, SameTold
<1> QED
  BY <1>2, <1>3, <1>4 DEF Tells, Got

\* AcceptedIsWellFormed: whatever the bits and however its fields are cut, a
\* message the ISO reader accepts (DecodeMessageVariant, finish) has its controls
\* bracketed and in place as EncodeStructured would take them, or is one 15434
\* message with its format.
THEOREM AlwaysWellFormed == Spec => []AcceptedIsWellFormed
<1>1. Spec => []IInv
  BY InitHolds, StepHolds, PTL DEF Spec
<1> QED
  BY <1>1, AcceptedHolds, PTL

\* TransmissionTellsMessage: the transmission appendData, appendECI, iso15434 and eot
\* build is read back as the data with every assignment and every mark of a 15434
\* message in its place, whatever backslashes and digits the data holds.
THEOREM AlwaysTells == Spec => []TransmissionTellsMessage
<1>1. Spec => []IInv
  BY InitHolds, StepHolds, PTL DEF Spec
<1> QED
  BY <1>1, TellsHolds, PTL

=============================================================================
