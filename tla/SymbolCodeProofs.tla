---- MODULE SymbolCodeProofs ----
EXTENDS MessageStreamProofs, SymbolCode

-----------------------------------------------------------------------------
(* Codes: the rates, the bits that say them, and what a symbol holds.       *)

Rates   == {w \in (3 .. 8) \X (4 .. 9) : w[1] < w[2]}
BitSeqs == Seq({0, 1})

\* The rate of a level is one Optimal may choose.
LEMMA WeightsAreRates ==
  ASSUME NEW level \in Levels
  PROVE  Weights(level) \in Rates
<1>1. level \in {0, 1, 2, 3, 4, 5, 6, 7, 8, 9, 10}
  BY DEF Levels
<1> QED
  BY <1>1 DEF Weights, ECCWeights, Rates

\* Bits gives as many bits as it is asked for.
LEMMA BitsAreBits ==
  ASSUME NEW v \in Int, NEW n \in {3, 5}
  PROVE  Bits(v, n) \in BitSeqs /\ Len(Bits(v, n)) = n
<1>1. \A k \in 1 .. n : PowersOfTwo[n - k + 1] \in Nat \ {0}
  <2>1. PowersOfTwo \in [1 .. 5 -> Nat \ {0}]
    BY DEF PowersOfTwo
  <2> QED
    BY <2>1
<1>2. \A k \in 1 .. n : (v \div PowersOfTwo[n - k + 1]) % 2 \in {0, 1}
  <2> TAKE k \in 1 .. n
  <2> DEFINE p == PowersOfTwo[n - k + 1]
  <2>1. p \in Nat \ {0}
    BY <1>1
  <2> HIDE DEF p
  <2>2. v \div p \in Int
    BY <2>1
  <2>3. (v \div p) % 2 \in {0, 1}
    BY <2>2
  <2> QED
    BY <2>3 DEF p
<1> QED
  BY <1>2 DEF Bits, BitSeqs

LEMMA JoinedBits ==
  ASSUME NEW s \in BitSeqs, NEW t \in BitSeqs
  PROVE  s \o t \in BitSeqs /\ Len(s) \in Nat /\ Len(s \o t) = Len(s) + Len(t)
<1>1. s \in Seq({0, 1}) /\ t \in Seq({0, 1})
  BY DEF BitSeqs
<1>2. s \o t \in Seq({0, 1}) /\ Len(s \o t) = Len(s) + Len(t)
  BY <1>1, ConcatProperties
<1> QED
  BY <1>1, <1>2 DEF BitSeqs

\* A rate takes six bits of metadata.
LEMMA RateBitsAreBits ==
  ASSUME NEW w \in Rates
  PROVE  RateBits(w) \in BitSeqs /\ Len(RateBits(w)) = 6
<1> DEFINE wc == Bits(w[1] - 3, 3)
           wr == Bits(w[2] - 4, 3)
<1>1. w[1] - 3 \in Int /\ w[2] - 4 \in Int
  BY DEF Rates
<1>2. wc \in BitSeqs /\ Len(wc) = 3 /\ wr \in BitSeqs /\ Len(wr) = 3
  BY <1>1, BitsAreBits
<1>3. RateBits(w) = wc \o wr
  BY DEF RateBits
<1> HIDE DEF wc, wr
<1>4. wc \o wr \in BitSeqs /\ Len(wc \o wr) = Len(wc) + Len(wr)
  BY <1>2, JoinedBits, Zenon
<1> QED
  BY <1>2, <1>3, <1>4

\* Nine bits of capacity leave at least one net.
LEMMA NetIsInteger ==
  ASSUME NEW capacity \in Int, NEW w \in Rates
  PROVE  /\ NetCapacity(capacity, w) \in Int
         /\ capacity >= 9 => NetCapacity(capacity, w) >= 1
<1>1. w[1] \in 3 .. 8 /\ w[2] \in {4, 5, 6, 7, 8, 9} /\ w[2] - w[1] >= 1
  BY DEF Rates
<1>2. capacity \div w[2] \in Int /\ (capacity >= 9 => capacity \div w[2] >= 1)
  BY <1>1
<1> DEFINE q == capacity \div w[2]
           d == w[2] - w[1]
<1>3. q \in Int /\ d \in Int /\ d >= 1
  BY <1>1, <1>2
<1> HIDE DEF q, d
<1>4. q * d \in Int /\ (q >= 1 => q * d >= 1)
  BY <1>3
<1> QED
  BY <1>2, <1>4 DEF NetCapacity, q, d

\* A set of natural numbers has a least one.
LEMMA LeastOf ==
  ASSUME NEW T \in SUBSET Nat, T # {}
  PROVE  \E m \in T : \A n \in T : m <= n
<1> DEFINE R == {p \in Nat \X Nat : p[1] < p[2]}
<1>1. IsWellFoundedOn(R, Nat)
  BY NatLessThanWellFounded DEF OpToRel
<1> HIDE DEF R
<1>2. PICK m \in T : \A n \in T : ~ (<<n, m>> \in R)
  BY <1>1, WFMin
<1>3. \A n \in T : ~ (n < m)
  BY <1>2 DEF R
<1> QED
  BY <1>3

\* The rate chosen is no weaker than the one asked for, and holds the payload.
LEMMA OptimalHolds ==
  ASSUME NEW capacity \in Int, NEW length \in Int, NEW w \in Rates,
         length <= NetCapacity(capacity, w)
  PROVE  /\ Optimal(capacity, length, w) \in Rates
         /\ length <= NetCapacity(capacity, Optimal(capacity, length, w))
         /\ NetCapacity(capacity, Optimal(capacity, length, w)) <= NetCapacity(capacity, w)
<1> DEFINE Distance(p) == NetCapacity(capacity, p) - length
           rates == {p \in (3 .. 8) \X (4 .. 9) : p[1] < p[2] /\ Distance(p) \in 0 .. capacity - 1}
           Rank(p) == 100 * Distance(p) + 10 * p[1] + p[2]
           p == Optimal(capacity, length, w)
<1>1. p = IF rates = {} THEN w ELSE CHOOSE q \in rates : \A r \in rates : Rank(q) <= Rank(r)
  BY DEF Optimal
<1>2. \A q \in Rates : Distance(q) \in Int
  BY NetIsInteger
<1>3. \A q \in rates : q \in Rates /\ Distance(q) \in 0 .. capacity - 1 /\ Rank(q) \in Nat
  <2> TAKE q \in rates
  <2>1. q \in Rates /\ Distance(q) \in 0 .. capacity - 1
    BY DEF Rates
  <2>2. q[1] \in 3 .. 8 /\ q[2] \in 4 .. 9
    BY <2>1 DEF Rates
  <2> HIDE DEF Distance
  <2> QED
    BY <2>1, <2>2
<1>4. CASE rates = {}
  <2>1. p = w
    BY <1>1, <1>4
  <2>2. NetCapacity(capacity, w) \in Int
    BY NetIsInteger
  <2> QED
    BY <2>1, <2>2
<1>5. CASE rates # {}
  <2> DEFINE T == {Rank(q) : q \in rates}
  <2>1. T \in SUBSET Nat /\ T # {}
    BY <1>3, <1>5
  <2>2. PICK m \in T : \A n \in T : m <= n
    <3> HIDE DEF T
    <3> QED
      BY <2>1, LeastOf
  <2>3. \E q \in rates : \A r \in rates : Rank(q) <= Rank(r)
    BY <2>2
  <2>4. p \in rates /\ \A r \in rates : Rank(p) <= Rank(r)
    <3> HIDE DEF p, rates, Rank
    <3> QED
      BY <1>1, <1>5, <2>3
  <2>5. p \in Rates /\ Distance(p) \in 0 .. capacity - 1
    BY <1>3, <2>4
  <2>6. p[1] \in 3 .. 8 /\ p[2] \in 4 .. 9 /\ w[1] \in 3 .. 8 /\ w[2] \in 4 .. 9
    BY <2>5 DEF Rates
  <2>7. Distance(p) <= Distance(w)
    <3>1. CASE w \in rates
      <4>1. Rank(p) <= Rank(w)
        BY <2>4, <3>1
      <4>2. Distance(p) \in Int /\ Distance(w) \in Int
        BY <1>2, <2>5
      <4> HIDE DEF p, Distance
      <4> QED
        BY <2>6, <4>1, <4>2
    <3>2. CASE w \notin rates
      <4>1. Distance(w) \notin 0 .. capacity - 1
        BY <3>2 DEF Rates
      <4>2. Distance(w) \in Int /\ Distance(w) >= 0
        BY NetIsInteger
      <4> HIDE DEF p, Distance, rates
      <4> QED
        BY <2>5, <4>1, <4>2
    <3> QED
      BY <3>1, <3>2
  <2>8. NetCapacity(capacity, p) \in Int /\ NetCapacity(capacity, w) \in Int
    <3> HIDE DEF p
    <3> QED
      BY <2>5, NetIsInteger
  <2>9. length <= NetCapacity(capacity, p) /\ NetCapacity(capacity, p) <= NetCapacity(capacity, w)
    <3> HIDE DEF p
    <3> QED
      BY <2>5, <2>7, <2>8
  <2> QED
    BY <2>5, <2>9
<1> QED
  BY <1>4, <1>5

\* The alignment patterns take a small part of a side.
LEMMA PatternsFit ==
  ASSUME NEW v \in 1 .. 32
  PROVE  APNum[v] \in Int /\ APNum[v] >= 2 /\ 10 * APNum[v] <= VersionToSize(v)
<1>1. v \in {1, 2, 3, 4, 5, 6, 7, 8, 9, 10, 11, 12, 13, 14, 15, 16, 17, 18, 19, 20, 21, 22, 23,
             24, 25, 26, 27, 28, 29, 30, 31, 32}
  OBVIOUS
<1> QED
  BY <1>1 DEF APNum, VersionToSize

LEMMA BpmOf ==
  ASSUME NEW n \in ColorCounts
  PROVE  Log2Int(n) \in 2 .. 8
<1>1. \E k \in 2 .. 8 : <<2, 4, 8, 16, 32, 64, 128, 256>>[k] = n
  BY DEF ColorCounts
<1> QED
  BY <1>1 DEF Log2Int

\* The modules of colour and metadata a symbol needs at most.
LEMMA PaletteModules ==
  ASSUME NEW n \in ColorCounts
  PROVE  (Lesser(n, 64) - PaletteFinderColors(n)) * PaletteCopies(n) \in 8 .. 128
<1>1. n \in {4, 8, 16, 32, 64, 128, 256}
  BY DEF ColorCounts
<1> QED
  BY <1>1 DEF Lesser, PaletteFinderColors, PaletteCopies

LEMMA MetadataModules ==
  ASSUME NEW s, s.colors \in ColorCounts
  PROVE  MetadataLength(s) \in 0 .. 23
<1>1. Bpm(s) \in {2, 3, 4, 5, 6, 7, 8}
  BY BpmOf DEF Bpm
<1>2. CeilDiv(PartIIBits, Bpm(s)) \in 0 .. 19
  BY <1>1 DEF CeilDiv, PartIIBits
<1> QED
  BY <1>2 DEF MetadataLength, PartIModules

\* A symbol has room for the bits of some code word, however few it holds.
LEMMA CapacityIsLarge ==
  ASSUME NEW s, s.colors \in ColorCounts, s.version \in Versions
  PROVE  SymbolCapacity(s) \in Int /\ SymbolCapacity(s) >= 9
<1> DEFINE a == VersionToSize(s.version[1])
           b == VersionToSize(s.version[2])
           p == APNum[s.version[1]]
           q == APNum[s.version[2]]
           pal == (Lesser(s.colors, 64) - PaletteFinderColors(s.colors)) * PaletteCopies(s.colors)
           fin == IF s.primary THEN 4 * 17 ELSE 4 * 7
           met == IF s.primary THEN MetadataLength(s) ELSE 0
           modules == a * b - fin - (p * q - 4) * 7 - pal - met
<1>1. /\ a \in Int /\ a >= 21 /\ p \in Int /\ p >= 2 /\ 10 * p <= a
      /\ b \in Int /\ b >= 21 /\ q \in Int /\ q >= 2 /\ 10 * q <= b
  <2>1. s.version[1] \in 1 .. 32 /\ s.version[2] \in 1 .. 32
    BY DEF Versions
  <2> QED
    BY <2>1, PatternsFit, SMTT(30) DEF VersionToSize
<1>2. pal \in 8 .. 128 /\ fin \in 28 .. 68 /\ met \in 0 .. 23
  BY PaletteModules, MetadataModules
<1>3. Bpm(s) \in 2 .. 8
  BY BpmOf DEF Bpm
<1>4. SymbolCapacity(s) = modules * Bpm(s)
  BY DEF SymbolCapacity, SideSize
<1> HIDE DEF a, b, p, q, pal, fin, met
<1>5. a * b \in Int /\ p * q \in Int /\ a * b >= 441 /\ 100 * (p * q) <= a * b
  <2>1. a * b >= 21 * b
    BY <1>1
  <2>2. (10 * p) * b <= a * b
    BY <1>1
  <2>3. p * (10 * q) <= p * b
    BY <1>1
  <2>4. (10 * p) * b = 10 * (p * b) /\ p * (10 * q) = 10 * (p * q)
    BY <1>1
  <2>5. a * b \in Int /\ p * q \in Int /\ p * b \in Int
    BY <1>1
  <2> QED
    BY <1>1, <2>1, <2>2, <2>3, <2>4, <2>5
<1>6. modules \in Int /\ modules >= 100
  <2> DEFINE ab == a * b
             pq == p * q
  <2>1. ab \in Int /\ pq \in Int /\ ab >= 441 /\ 100 * pq <= ab
    BY <1>5
  <2> HIDE DEF ab, pq
  <2>2. modules = ab - fin - (pq - 4) * 7 - pal - met
    BY DEF ab, pq
  <2> QED
    BY <1>2, <2>1, <2>2
<1> HIDE DEF modules
<1>7. modules * Bpm(s) \in Int /\ modules * Bpm(s) >= 100 * 2
  BY <1>3, <1>6
<1> QED
  BY <1>4, <1>7

-----------------------------------------------------------------------------
(* Codes: the symbols while they are docked (Docked), each to one side of   *)
(* one host; a docking swaps two symbols and disturbs no third.             *)

DataRecords == [from : Int, length : Int, tail : BitSeqs, pn : Int]
SymbolRecords ==
  [position : Int, version : Versions, level : Levels, host : Int, docked : [Sides -> Int],
   metadata : BitSeqs, wcwr : Rates, data : DataRecords]
Families(n) == [0 .. n - 1 -> SymbolRecords]

\* A symbol is docked to one side of one symbol.
DockedOnce(f) ==
  \A j, k \in DOMAIN f, c, d \in Sides :
    f[j].docked[c] > 0 /\ f[j].docked[c] = f[k].docked[d] => j = k /\ c = d
DockStates(n) ==
  {st \in [f : Families(n), assigned : 1 .. n] :
     /\ DockedOnce(st.f)
     /\ \A j \in 0 .. n - 1, d \in Sides : st.f[j].docked[d] < st.assigned
     /\ \A j \in 0 .. n - 1 : st.f[j].host \in -1 .. n - 1
     /\ \A j \in 1 .. n - 1 : j < st.assigned => st.f[j].host # -1}

\* One docking keeps DockStates.
LEMMA DockKeeps ==
  ASSUME NEW n \in Nat, NEW st \in DockStates(n), NEW host \in 0 .. n - 1, NEW side \in Sides,
         NEW k \in 1 .. n - 1, k # host, st.f[k].host = -1
  PROVE  Dock(st, host, side, k) \in DockStates(n)
<1> DEFINE f == st.f
           a == st.assigned
           opp == Opposite(side)
           g == [f EXCEPT ![host].docked[side] = a, ![k].docked[opp] = -1]
           At(j) == IF j = k THEN a ELSE IF j = a THEN k ELSE j
           h == Swapped(g, k, a)
           r == [h EXCEPT ![a].host = host]
<1>1. /\ f \in Families(n) /\ a \in 1 .. n /\ DockedOnce(f)
      /\ \A j \in 0 .. n - 1, d \in Sides : f[j].docked[d] < a
      /\ \A j \in 0 .. n - 1 : f[j].host \in -1 .. n - 1
      /\ \A j \in 1 .. n - 1 : j < a => f[j].host # -1
  BY DEF DockStates
<1>2. a <= k
  BY <1>1
<1>3. opp \in Sides /\ opp # side
  <2>1. side \in {0, 1, 2, 3}
    BY DEF Sides
  <2> QED
    BY <2>1 DEF Opposite, Sides
<1>4. Dock(st, host, side, k) = [f |-> r, assigned |-> a + 1]
  BY DEF Dock
<1> HIDE DEF f, a, opp
<1>5. \A x \in SymbolRecords, d \in Sides, v \in Int : [x EXCEPT !.docked[d] = v] \in SymbolRecords
  BY DEF SymbolRecords
<1>6. \A x \in SymbolRecords, v \in Int : [x EXCEPT !.host = v] \in SymbolRecords
  BY DEF SymbolRecords
<1>7. DOMAIN f = 0 .. n - 1 /\ \A j \in 0 .. n - 1 : f[j] \in SymbolRecords
  BY <1>1 DEF Families
<1>8. \A j \in 0 .. n - 1 : /\ f[j].docked \in [Sides -> Int]
  BY <1>7 DEF SymbolRecords
<1>9. /\ g \in Families(n)
      /\ \A j \in 0 .. n - 1 : g[j].host = f[j].host
      /\ \A j \in 0 .. n - 1, d \in Sides :
           g[j].docked[d] = IF j = host /\ d = side THEN a
                            ELSE IF j = k /\ d = opp THEN -1 ELSE f[j].docked[d]
  <2> DEFINE x == [f[host] EXCEPT !.docked[side] = a]
             y == [f[k] EXCEPT !.docked[opp] = -1]
  <2>1. g = [f EXCEPT ![host] = x, ![k] = y]
    BY <1>7
  <2>2. x \in SymbolRecords /\ y \in SymbolRecords
    <3>1. f[host] \in SymbolRecords /\ f[k] \in SymbolRecords /\ a \in Int /\ -1 \in Int
      BY <1>1, <1>7
    <3> QED
      BY <1>3, <1>5, <3>1, Zenon
  <2>3. /\ x.host = f[host].host /\ y.host = f[k].host
        /\ \A d \in Sides : x.docked[d] = IF d = side THEN a ELSE f[host].docked[d]
        /\ \A d \in Sides : y.docked[d] = IF d = opp THEN -1 ELSE f[k].docked[d]
    BY <1>3, <1>7, <1>8, SMTT(30) DEF SymbolRecords
  <2> HIDE DEF x, y, g
  <2>4. /\ DOMAIN g = 0 .. n - 1
        /\ \A j \in 0 .. n - 1 : g[j] = IF j = k THEN y ELSE IF j = host THEN x ELSE f[j]
        /\ g = [j \in 0 .. n - 1 |-> g[j]]
    BY <1>7, <2>1
  <2>5. g \in Families(n)
    BY <1>7, <2>2, <2>4 DEF Families
  <2> QED
    BY <2>3, <2>4, <2>5
<1>10. a \in 1 .. n - 1
  BY <1>1, <1>2
<1>11. \A j \in 0 .. n - 1 : At(j) \in 0 .. n - 1
  BY <1>10
<1>12. \A i, j \in 0 .. n - 1 : At(i) = At(j) => i = j
  OBVIOUS
<1>13. h \in Families(n) /\ \A j \in 0 .. n - 1 : h[j] = g[At(j)]
  <2> HIDE DEF g
  <2>1. DOMAIN g = 0 .. n - 1 /\ \A j \in 0 .. n - 1 : g[j] \in SymbolRecords
    BY <1>9 DEF Families
  <2>2. h = [j \in 0 .. n - 1 |-> g[At(j)]]
    BY <1>10, <2>1 DEF Swapped
  <2> HIDE DEF h, At
  <2> QED
    BY <1>11, <2>1, <2>2 DEF Families
<1> HIDE DEF g, h, At
<1>14. /\ r \in Families(n)
       /\ \A j \in 0 .. n - 1 : r[j].docked = g[At(j)].docked
       /\ \A j \in 0 .. n - 1 : r[j].host = IF j = a THEN host ELSE f[At(j)].host
  <2> DEFINE x == [h[a] EXCEPT !.host = host]
  <2>1. DOMAIN h = 0 .. n - 1 /\ \A j \in 0 .. n - 1 : h[j] \in SymbolRecords
    BY <1>13 DEF Families
  <2>2. x \in SymbolRecords /\ x.host = host /\ x.docked = h[a].docked
    <3>1. h[a] \in SymbolRecords /\ host \in Int
      BY <1>10, <2>1
    <3>2. x \in SymbolRecords
      BY <1>6, <3>1, Zenon
    <3> QED
      BY <3>1, <3>2 DEF SymbolRecords
  <2>3. r = [j \in 0 .. n - 1 |-> IF j = a THEN x ELSE h[j]]
    BY <1>10, <2>1
  <2> HIDE DEF r, x
  <2>4. r \in Families(n)
    BY <2>1, <2>2, <2>3 DEF Families
  <2> QED
    BY <1>9, <1>10, <1>11, <1>13, <2>2, <2>3, <2>4
<1> HIDE DEF r
<1>15. \A i, j \in 0 .. n - 1, c, d \in Sides :
         g[i].docked[c] > 0 /\ g[i].docked[c] = g[j].docked[d] => i = j /\ c = d
  <2> TAKE i, j \in 0 .. n - 1, c, d \in Sides
  <2> HAVE g[i].docked[c] > 0 /\ g[i].docked[c] = g[j].docked[d]
  <2>1. f[i].docked[c] < a /\ f[j].docked[d] < a
    BY <1>1
  <2>2. f[i].docked[c] > 0 /\ f[i].docked[c] = f[j].docked[d] => i = j /\ c = d
    BY <1>1, <1>7 DEF DockedOnce
  <2>3. f[i].docked[c] \in Int /\ f[j].docked[d] \in Int
    BY <1>8
  <2> QED
    BY <1>9, <1>10, <2>1, <2>2, <2>3
<1>16. DockedOnce(r)
  <2>1. DOMAIN r = 0 .. n - 1
    BY <1>14 DEF Families
  <2>2. ASSUME NEW i \in 0 .. n - 1, NEW j \in 0 .. n - 1, NEW c \in Sides, NEW d \in Sides,
               r[i].docked[c] > 0, r[i].docked[c] = r[j].docked[d]
        PROVE  i = j /\ c = d
    <3>1. At(i) \in 0 .. n - 1 /\ At(j) \in 0 .. n - 1
      BY <1>11
    <3>2. r[i].docked = g[At(i)].docked /\ r[j].docked = g[At(j)].docked
      BY <1>14
    <3>3. At(i) = At(j) /\ c = d
      BY <1>15, <2>2, <3>1, <3>2
    <3> QED
      BY <1>12, <3>3
  <2> QED
    BY <2>1, <2>2 DEF DockedOnce
<1>17. \A j \in 0 .. n - 1, d \in Sides : r[j].docked[d] < a + 1
  <2> TAKE j \in 0 .. n - 1, d \in Sides
  <2>1. r[j].docked[d] = g[At(j)].docked[d] /\ At(j) \in 0 .. n - 1
    BY <1>11, <1>14
  <2>2. f[At(j)].docked[d] < a /\ f[At(j)].docked[d] \in Int
    BY <1>1, <1>8, <2>1
  <2> QED
    BY <1>9, <1>10, <2>1, <2>2
<1>18. \A j \in 0 .. n - 1 : r[j].host \in -1 .. n - 1
  BY <1>1, <1>11, <1>14
<1>19. \A j \in 1 .. n - 1 : j < a + 1 => r[j].host # -1
  <2> TAKE j \in 1 .. n - 1
  <2> HAVE j < a + 1
  <2>1. CASE j = a
    BY <1>14, <2>1
  <2>2. CASE j # a
    <3>1. j < a /\ At(j) = j
      BY <1>2, <1>10, <2>2 DEF At
    <3> QED
      BY <1>1, <1>14, <2>2, <3>1
  <2> QED
    BY <2>1, <2>2
<1>20. a + 1 \in 1 .. n
  BY <1>10
<1> QED
  BY <1>4, <1>14, <1>16, <1>17, <1>18, <1>19, <1>20 DEF DockStates

TurnItems(n) == Sides \X (1 .. n - 1)

LEMMA TurnsAreTurns ==
  ASSUME NEW n \in Nat \ {0}
  PROVE  Turns(n - 1) \in Seq(TurnItems(n))
<1> DEFINE last == n - 1
           m == 4 * last
<1>1. last \in Nat /\ m \in Nat
  OBVIOUS
<1>2. ASSUME NEW i \in 1 .. m
      PROVE  <<(i - 1) \div last, ((i - 1) % last) + 1>> \in TurnItems(n)
  <2>1. last >= 1
    BY <1>1, <1>2
  <2> DEFINE x == i - 1
             q == x \div last
  <2>2. x \in Nat /\ x < 4 * last
    BY <1>1
  <2>3. q \in 0 .. 3
    <3> HIDE DEF x, last
    <3>1. x \div last \in Nat /\ last * (x \div last) <= x
      BY <1>1, <2>1, <2>2
    <3>2. x \div last < 4
      BY <1>1, <2>1, <2>2, <3>1
    <3> QED
      BY <3>1, <3>2
  <2>4. (x % last) + 1 \in 1 .. last
    <3> HIDE DEF x, last
    <3> QED
      BY <1>1, <2>1, <2>2
  <2> HIDE DEF x, q
  <2>5. <<q, (x % last) + 1>> \in (0 .. 3) \X (1 .. last)
    BY <2>3, <2>4
  <2> QED
    BY <2>5 DEF TurnItems, Sides, x, q
<1> QED
  BY <1>1, <1>2 DEF Turns

LEMMA TurnKeeps ==
  ASSUME NEW n \in Nat \ {0}, NEW st \in DockStates(n), NEW host \in 0 .. n - 1, NEW turn \in TurnItems(n)
  PROVE  Turn(st, host, turn[1], turn[2]) \in DockStates(n)
<1> DEFINE side == turn[1]
           k == turn[2]
<1>1. side \in Sides /\ k \in 1 .. n - 1
  BY DEF TurnItems
<1> HIDE DEF side, k
<1>2. CASE k > host /\ st.f[k].host = -1
  <2>1. Dock(st, host, side, k) \in DockStates(n)
    BY <1>1, <1>2, DockKeeps
  <2> QED
    BY <2>1 DEF Turn, side, k
<1>3. CASE ~(k > host /\ st.f[k].host = -1)
  BY <1>3 DEF Turn, side, k
<1> QED
  BY <1>2, <1>3

TurnedIn(b, host, s, F) ==
  F = [u \in SUBSET DOMAIN s |->
        IF u = {} THEN b ELSE Turn(F[u \ {Max(u)}], host, s[Max(u)][1], s[Max(u)][2])]

\* All turns of one host keep DockStates.
LEMMA HostKeeps ==
  ASSUME NEW n \in Nat \ {0}, NEW st \in DockStates(n), NEW host \in 0 .. n - 1
  PROVE  HostTurns(st, host, n - 1) \in DockStates(n)
<1> DEFINE S == DockStates(n)
           Items == TurnItems(n)
           G == [p \in S \X Items |-> Turn(p[1], host, p[2][1], p[2][2])]
           b == st
           s == Turns(n - 1)
           H == CHOOSE F : TurnedIn(b, host, s, F)
<1>1. b \in S
  OBVIOUS
<1>2. s \in Seq(Items)
  BY TurnsAreTurns
<1>3. Folding(S, Items, G)
  <2> HIDE DEF S, Items
  <2>1. \A x \in S, turn \in Items : Turn(x, host, turn[1], turn[2]) \in S
    BY TurnKeeps DEF S, Items
  <2> QED
    BY <2>1 DEF Folding
<1>4. PICK F : Stages(S, G, b, s, F)
  <2> HIDE DEF G, S, Items, b, s
  <2> QED
    BY <1>1, <1>2, <1>3, StagesExist
<1>5. ASSUME NEW u \in SUBSET DOMAIN s, u # {}
      PROVE  F[u] = Turn(F[u \ {Max(u)}], host, s[Max(u)][1], s[Max(u)][2])
  <2> HIDE DEF s, S, Items
  <2>1. s[Max(u)] \in Items
    <3>1. DOMAIN s = 1 .. Len(s) /\ Len(s) \in Nat
      BY <1>2, LenProperties
    <3>2. Max(u) \in DOMAIN s
      BY <1>5, <3>1, LastOf
    <3> QED
      BY <1>2, <3>1, <3>2
  <2>2. F[u \ {Max(u)}] \in S
    BY <1>4 DEF Stages
  <2>3. F[u] = G[<<F[u \ {Max(u)}], s[Max(u)]>>]
    BY <1>4, <1>5 DEF Stages
  <2> QED
    BY <2>1, <2>2, <2>3
<1>6. TurnedIn(b, host, s, F)
  <2> HIDE DEF G, s, S, b
  <2> QED
    BY <1>4, <1>5 DEF TurnedIn, Stages
<1>7. TurnedIn(b, host, s, H)
  <2> HIDE DEF b, s
  <2> QED
    BY <1>6
<1>8. HostTurns(st, host, n - 1) = IF st.assigned > n - 1 THEN st ELSE H[DOMAIN s]
  BY DEF HostTurns, FoldLeft, MapThenFoldSet, TurnedIn
<1> HIDE DEF b, s, H, G, S, Items
<1>9. DOMAIN s = 1 .. Len(s) /\ Len(s) \in Nat
  BY <1>2, LenProperties
<1> DEFINE P == {k \in Nat : H[1 .. k] \in S}
<1>10. 0 \in P
  <2>1. 1 .. 0 = {} /\ {} \in SUBSET DOMAIN s
    OBVIOUS
  <2>2. H[{}] = b
    BY <1>7, <2>1 DEF TurnedIn
  <2> QED
    BY <1>1, <2>1, <2>2
<1>11. ASSUME NEW k \in 0 .. Len(s) - 1, k \in P PROVE k + 1 \in P
  <2> DEFINE u == 1 .. k + 1
  <2>1. u # {} /\ Max(u) = k + 1 /\ u \ {Max(u)} = 1 .. k
    <3>1. k \in Nat
      BY <1>9
    <3> HIDE DEF s
    <3> QED
      BY <3>1, PrefixLast
  <2>2. u \in SUBSET DOMAIN s
    BY <1>9
  <2>3. H[u] = Turn(H[1 .. k], host, s[k + 1][1], s[k + 1][2])
    <3> HIDE DEF u
    <3> QED
      BY <1>7, <2>1, <2>2 DEF TurnedIn
  <2>4. H[1 .. k] \in S /\ s[k + 1] \in Items
    BY <1>2, <1>9, <1>11
  <2>5. H[u] \in S
    BY <2>3, <2>4, TurnKeeps DEF S, Items
  <2> QED
    BY <1>9, <2>5
<1> HIDE DEF P
<1>12. Len(s) \in P
  <2>1. \A k \in 0 .. Len(s) - 1 : k \in P => k + 1 \in P
    BY <1>11
  <2>2. \A k \in 0 .. Len(s) : k \in P
    BY <1>9, <1>10, <2>1, PrefixInduction
  <2> QED
    BY <1>9, <2>2
<1>13. H[DOMAIN s] \in DockStates(n)
  BY <1>9, <1>12 DEF P, S
<1> QED
  BY <1>8, <1>13

DockedIn(b, n, s, F) ==
  F = [u \in SUBSET DOMAIN s |->
        IF u = {} THEN b ELSE HostTurns(F[u \ {Max(u)}], s[Max(u)] - 1, n - 1)]

\* The loops of assignDockedSymbols leave symbols docked once.
LEMMA DockedKeeps ==
  ASSUME NEW n \in Nat \ {0}, NEW f \in Families(n),
         \A j \in 0 .. n - 1 : f[j].host = -1 /\ f[j].docked = [d \in Sides |-> 0]
  PROVE  /\ Docked(f, n - 1) \in Families(n) /\ DockedOnce(Docked(f, n - 1))
         /\ \A j \in 0 .. n - 1, d \in Sides : Docked(f, n - 1)[j].docked[d] < n
         /\ \A j \in 0 .. n - 1 : Docked(f, n - 1)[j].host \in -1 .. n - 1
<1> DEFINE S == DockStates(n)
           Items == 1 .. n - 1
           G == [p \in S \X Items |-> HostTurns(p[1], p[2] - 1, n - 1)]
           b == [f |-> f, assigned |-> 1]
           s == [m \in 1 .. n - 1 |-> m]
           H == CHOOSE F : DockedIn(b, n, s, F)
<1>1. b \in S
  BY DEF DockStates, DockedOnce, Families
<1>2. s \in Seq(Items) /\ \A m \in Items : m - 1 \in 0 .. n - 1
  OBVIOUS
<1>3. Folding(S, Items, G)
  <2> HIDE DEF S, Items
  <2>1. \A st \in S, m \in Items : HostTurns(st, m - 1, n - 1) \in S
    BY <1>2, HostKeeps DEF S, Items
  <2> QED
    BY <2>1 DEF Folding
<1>4. PICK F : Stages(S, G, b, s, F)
  <2> HIDE DEF G, S, Items, b, s
  <2> QED
    BY <1>1, <1>2, <1>3, StagesExist
<1>5. ASSUME NEW u \in SUBSET DOMAIN s, u # {}
      PROVE  F[u] = HostTurns(F[u \ {Max(u)}], s[Max(u)] - 1, n - 1)
  <2> HIDE DEF s, S, Items
  <2>1. s[Max(u)] \in Items
    <3>1. DOMAIN s = 1 .. Len(s) /\ Len(s) \in Nat
      BY <1>2, LenProperties
    <3>2. Max(u) \in DOMAIN s
      BY <1>5, <3>1, LastOf
    <3> QED
      BY <1>2, <3>1, <3>2
  <2>2. F[u \ {Max(u)}] \in S
    BY <1>4 DEF Stages
  <2>3. F[u] = G[<<F[u \ {Max(u)}], s[Max(u)]>>]
    BY <1>4, <1>5 DEF Stages
  <2> QED
    BY <2>1, <2>2, <2>3
<1>6. DockedIn(b, n, s, F)
  <2> HIDE DEF G, s, S, b
  <2> QED
    BY <1>4, <1>5 DEF DockedIn, Stages
<1>7. DockedIn(b, n, s, H)
  <2> HIDE DEF b, s
  <2> QED
    BY <1>6
<1>8. Docked(f, n - 1) = H[DOMAIN s].f
  BY DEF Docked, FoldLeft, MapThenFoldSet, DockedIn
<1> HIDE DEF b, s, H, G, S, Items
<1>9. DOMAIN s = 1 .. Len(s) /\ Len(s) \in Nat
  BY <1>2, LenProperties
<1> DEFINE P == {k \in Nat : H[1 .. k] \in S}
<1>10. 0 \in P
  <2>1. 1 .. 0 = {} /\ {} \in SUBSET DOMAIN s
    OBVIOUS
  <2>2. H[{}] = b
    BY <1>7, <2>1 DEF DockedIn
  <2> QED
    BY <1>1, <2>1, <2>2
<1>11. ASSUME NEW k \in 0 .. Len(s) - 1, k \in P PROVE k + 1 \in P
  <2> DEFINE u == 1 .. k + 1
  <2>1. u # {} /\ Max(u) = k + 1 /\ u \ {Max(u)} = 1 .. k
    <3>1. k \in Nat
      BY <1>9
    <3> HIDE DEF s
    <3> QED
      BY <3>1, PrefixLast
  <2>2. u \in SUBSET DOMAIN s
    BY <1>9
  <2>3. H[u] = HostTurns(H[1 .. k], s[k + 1] - 1, n - 1)
    <3> HIDE DEF u
    <3> QED
      BY <1>7, <2>1, <2>2 DEF DockedIn
  <2>4. H[1 .. k] \in S /\ s[k + 1] \in Items
    BY <1>2, <1>9, <1>11
  <2>5. H[u] \in S
    BY <1>2, <2>3, <2>4, HostKeeps DEF S, Items
  <2> QED
    BY <1>9, <2>5
<1> HIDE DEF P
<1>12. Len(s) \in P
  <2>1. \A k \in 0 .. Len(s) - 1 : k \in P => k + 1 \in P
    BY <1>11
  <2>2. \A k \in 0 .. Len(s) : k \in P
    BY <1>9, <1>10, <2>1, PrefixInduction
  <2> QED
    BY <1>9, <2>2
<1>13. H[DOMAIN s] \in DockStates(n)
  BY <1>9, <1>12 DEF P, S
<1> DEFINE st == H[DOMAIN s]
<1>14. st \in DockStates(n) /\ Docked(f, n - 1) = st.f
  BY <1>8, <1>13
<1> HIDE DEF st
<1>15. /\ st.f \in Families(n) /\ DockedOnce(st.f) /\ st.assigned \in 1 .. n
       /\ \A j \in 0 .. n - 1, d \in Sides : st.f[j].docked[d] < st.assigned
       /\ \A j \in 0 .. n - 1 : st.f[j].host \in -1 .. n - 1
  BY <1>14 DEF DockStates
<1>16. \A j \in 0 .. n - 1, d \in Sides : st.f[j].docked[d] \in Int
  BY <1>15, SMTT(30) DEF Families, SymbolRecords
<1>17. \A j \in 0 .. n - 1, d \in Sides : st.f[j].docked[d] < n
  BY <1>15, <1>16
<1> QED
  BY <1>14, <1>15, <1>17

-----------------------------------------------------------------------------
(* Codes: the symbols with their metadata (Arranged).                       *)

\* What initSymbols and setSecondaryMetadata leave.
Arrayed(f, n) ==
  /\ f \in Families(n) /\ DockedOnce(f)
  /\ \A j \in 0 .. n - 1, d \in Sides : f[j].docked[d] < n
  /\ \A j \in 1 .. n - 1 : f[j].host \in 0 .. n - 1 /\ Len(f[j].metadata) >= 2

\* setSecondaryMetadata writes at least the two flags.
LEMMA MetadataIsBits ==
  ASSUME NEW n \in Nat \ {0}, NEW f \in Families(n), NEW k \in 0 .. n - 1, f[k].host \in 0 .. n - 1
  PROVE  Metadata(f, k) \in BitSeqs /\ Len(Metadata(f, k)) >= 2
<1> DEFINE host == f[f[k].host]
           axis == IF f[k].version[1] # host.version[1] THEN 1 ELSE 2
           ss == f[k].version # host.version
           se == f[k].level # 0 /\ f[k].level # host.level
           w == Weights(f[k].level)
           first == <<IF ss THEN 1 ELSE 0, IF se THEN 1 ELSE 0>>
           size == IF ss THEN Bits(f[k].version[axis] - 1, 5) ELSE <<>>
           rate == IF se THEN RateBits(w) ELSE <<>>
<1>1. Metadata(f, k) = (first \o size) \o rate
  BY DEF Metadata
<1>2. f[k] \in SymbolRecords
  BY DEF Families
<1>3. f[k].version[axis] - 1 \in Int /\ w \in Rates
  <2>1. f[k].version \in Versions /\ f[k].level \in Levels
    BY <1>2 DEF SymbolRecords
  <2>2. axis \in {1, 2}
    OBVIOUS
  <2> HIDE DEF axis
  <2> QED
    BY <2>1, <2>2, WeightsAreRates DEF Versions
<1>4. <<>> \in BitSeqs
  BY DEF BitSeqs
<1> HIDE DEF w, axis, ss, se
<1>5. first \in BitSeqs /\ Len(first) = 2
  BY DEF BitSeqs
<1>6. size \in BitSeqs
  BY <1>3, <1>4, BitsAreBits
<1>7. rate \in BitSeqs
  BY <1>3, <1>4, RateBitsAreBits
<1> HIDE DEF first, size, rate
<1>8. first \o size \in BitSeqs /\ Len(first \o size) = Len(first) + Len(size) /\ Len(size) \in Nat
  BY <1>5, <1>6, JoinedBits
<1>9. /\ (first \o size) \o rate \in BitSeqs /\ Len(rate) \in Nat
      /\ Len((first \o size) \o rate) = Len(first \o size) + Len(rate)
  BY <1>7, <1>8, JoinedBits
<1> QED
  BY <1>1, <1>5, <1>8, <1>9

\* The symbols before they are docked.
Loose(f, n) ==
  f \in Families(n) /\ \A j \in 0 .. n - 1 : f[j].host = -1 /\ f[j].docked = [d \in Sides |-> 0]

LEMMA PrimaryFirstKeeps ==
  ASSUME NEW n \in Nat \ {0}, NEW f, Loose(f, n)
  PROVE  Loose(PrimaryFirst(f), n)
<1> DEFINE primaries == {k \in DOMAIN f : f[k].position = 0}
           m == Min(primaries)
<1>1. DOMAIN f = 0 .. n - 1
  BY DEF Loose, Families
<1>2. CASE primaries = {}
  BY <1>2 DEF PrimaryFirst
<1>3. CASE primaries # {}
  <2>1. primaries \in SUBSET Nat
    BY <1>1
  <2>2. m \in primaries
    <3> HIDE DEF primaries
    <3>1. \E i \in primaries : \A j \in primaries : i <= j
      BY <1>3, <2>1, LeastOf
    <3> QED
      BY <3>1 DEF Min
  <2>3. m \in 0 .. n - 1
    BY <1>1, <2>2
  <2>4. PrimaryFirst(f) = [f EXCEPT ![0] = f[m], ![m] = f[0]]
    BY <1>3 DEF PrimaryFirst, Swapped
  <2> HIDE DEF m, primaries
  <2>5. PrimaryFirst(f) = [j \in 0 .. n - 1 |-> IF j = m THEN f[0] ELSE IF j = 0 THEN f[m] ELSE f[j]]
    BY <1>1, <2>3, <2>4
  <2> QED
    BY <2>3, <2>5 DEF Loose, Families
<1> QED
  BY <1>2, <1>3

\* A configuration that is not refused is Arrayed.
LEMMA ArrangedIsArrayed ==
  ASSUME Count \in Nat \ {0}, NEW f, Loose(f, Count), Arranged(f) # <<>>
  PROVE  Arrayed(Arranged(f), Count)
<1> DEFINE n == Count
           first == PrimaryFirst(f)
           docked == Docked(first, n - 1)
           g == [k \in DOMAIN f |-> IF k = 0 THEN docked[0]
                                    ELSE [docked[k] EXCEPT !.metadata = Metadata(docked, k)]]
<1>1. DOMAIN f = 0 .. n - 1
  BY DEF Loose, Families
<1>2. Arranged(f) = g /\ \A k \in 1 .. n - 1 : docked[k].host # -1
  BY <1>1 DEF Arranged
<1>3. Loose(first, n)
  BY PrimaryFirstKeeps
<1> HIDE DEF first
<1>4. /\ docked \in Families(n) /\ DockedOnce(docked)
      /\ \A j \in 0 .. n - 1, d \in Sides : docked[j].docked[d] < n
      /\ \A j \in 0 .. n - 1 : docked[j].host \in -1 .. n - 1
  BY <1>3, DockedKeeps DEF Loose
<1> HIDE DEF docked, n
<1>5. n \in Nat \ {0}
  BY DEF n
<1>6. \A j \in 1 .. n - 1 : docked[j].host \in 0 .. n - 1
  BY <1>2, <1>4, <1>5
<1>7. \A j \in 1 .. n - 1 : Metadata(docked, j) \in BitSeqs /\ Len(Metadata(docked, j)) >= 2
  <2> TAKE j \in 1 .. n - 1
  <2>1. j \in 0 .. n - 1 /\ docked[j].host \in 0 .. n - 1
    BY <1>5, <1>6
  <2> QED
    BY <1>4, <1>5, <2>1, MetadataIsBits
<1>8. \A x \in SymbolRecords, md \in BitSeqs :
        /\ [x EXCEPT !.metadata = md] \in SymbolRecords
        /\ [x EXCEPT !.metadata = md].docked = x.docked
        /\ [x EXCEPT !.metadata = md].host = x.host
        /\ [x EXCEPT !.metadata = md].metadata = md
  BY DEF SymbolRecords
<1>9. \A j \in 0 .. n - 1 : docked[j] \in SymbolRecords
  BY <1>4 DEF Families
<1>10. \A j \in 0 .. n - 1 :
        /\ g[j] \in SymbolRecords /\ g[j].docked = docked[j].docked /\ g[j].host = docked[j].host
        /\ j # 0 => g[j].metadata = Metadata(docked, j)
  <2> TAKE j \in 0 .. n - 1
  <2>1. CASE j = 0
    BY <1>1, <1>5, <1>9, <2>1
  <2>2. CASE j # 0
    <3> DEFINE y == [docked[j] EXCEPT !.metadata = Metadata(docked, j)]
    <3>1. g[j] = y
      BY <1>1, <2>2
    <3>2. docked[j] \in SymbolRecords /\ Metadata(docked, j) \in BitSeqs
      BY <1>7, <1>9, <2>2
    <3> HIDE DEF g
    <3>3. /\ y \in SymbolRecords /\ y.docked = docked[j].docked /\ y.host = docked[j].host
          /\ y.metadata = Metadata(docked, j)
      BY <1>8, <3>2, Zenon
    <3> HIDE DEF y
    <3> QED
      BY <3>1, <3>3
  <2> QED
    BY <2>1, <2>2
<1>11. g = [j \in 0 .. n - 1 |-> g[j]]
  BY <1>1
<1> HIDE DEF g
<1>12. g \in Families(n)
  BY <1>10, <1>11 DEF Families
<1>13. DOMAIN g = 0 .. n - 1 /\ DOMAIN docked = 0 .. n - 1
  BY <1>4, <1>11 DEF Families
<1>14. DockedOnce(g)
  BY <1>4, <1>10, <1>13 DEF DockedOnce
<1>15. Arrayed(g, n)
  BY <1>4, <1>6, <1>7, <1>10, <1>12, <1>14 DEF Arrayed
<1> QED
  BY <1>2, <1>15 DEF n

-----------------------------------------------------------------------------
(* Codes: what filling one symbol leaves as it is (Fitted).                 *)

\* Options that were accepted, and their symbols.
Accepted ==
  /\ input \in Inputs /\ Valid(input) /\ eccLevel \in Int /\ assigned \in Int
  /\ Arrayed(symbols, Count)

LEMMA CountIsPositive ==
  ASSUME input \in Inputs
  PROVE  Count \in Nat \ {0} /\ Indices = 0 .. Count - 1 /\ Len(input.symbols) \in Nat
<1>1. input.symbols \in Seq([position : Int, version : Int \X Int, level : Int])
  BY InputsAssumption
<1>2. Len(input.symbols) \in Nat
  BY <1>1
<1> QED
  BY <1>2 DEF Count, Indices

\* Every symbol has a net capacity.
LEMMA NetOfIsPositive ==
  ASSUME Accepted, NEW k \in Indices
  PROVE  /\ CapacityOf(k) \in Int /\ NetOf(k) \in Int /\ NetOf(k) >= 1
         /\ Weights(symbols[k].level) \in Rates
         /\ NetOf(k) = NetCapacity(CapacityOf(k), Weights(symbols[k].level))
<1>1. symbols[k] \in SymbolRecords
  BY CountIsPositive DEF Accepted, Arrayed, Families
<1>2. symbols[k].version \in Versions /\ symbols[k].level \in Levels
  BY <1>1 DEF SymbolRecords
<1>3. ShapeOf(k).colors \in ColorCounts /\ ShapeOf(k).version = symbols[k].version
  BY DEF ShapeOf, Shape, Accepted, Valid
<1>4. CapacityOf(k) \in Int /\ CapacityOf(k) >= 9
  BY <1>2, <1>3, CapacityIsLarge DEF CapacityOf
<1>5. Weights(symbols[k].level) \in Rates
  BY <1>2, WeightsAreRates
<1>6. NetOf(k) = NetCapacity(CapacityOf(k), Weights(symbols[k].level))
  BY DEF NetOf
<1> QED
  BY <1>4, <1>5, <1>6, NetIsInteger

\* What stays as it is while symbol k is filled: all but the metadata of the
\* symbols docked to it, and the data.
Alike(f, k) ==
  \A j \in Indices :
    /\ f[j].docked = symbols[j].docked /\ f[j].host = symbols[j].host
    /\ f[j].level = symbols[j].level /\ f[j].version = symbols[j].version
    /\ j # k => \A d \in Sides : DockedAt(f, j, d) = DockedAt(symbols, j, d)
DataAlike(f, k) ==
  \A j \in Indices \ {k} :
    f[j].data.length = symbols[j].data.length /\ f[j].data.pn = symbols[j].data.pn
Rated(f, k, share) ==
  Arrayed(f, Count) /\ Alike(f, k) /\ DataAlike(f, -1) /\ PayloadLength(f, k, share) <= NetOf(k)

LEMMA DockedAtIsBits ==
  ASSUME NEW n \in Nat \ {0}, NEW f, Arrayed(f, n), NEW k \in 0 .. n - 1, NEW d \in Sides
  PROVE  /\ DockedAt(f, k, d) \in BitSeqs /\ Len(DockedAt(f, k, d)) \in Nat
         /\ f[k].docked[d] \in Int /\ f[k].docked[d] < n
<1>1. \A j \in 0 .. n - 1 : f[j] \in SymbolRecords
  BY DEF Arrayed, Families
<1>2. f[k].docked[d] \in Int /\ f[k].docked[d] < n
  BY <1>1 DEF Arrayed, SymbolRecords
<1>3. <<>> \in BitSeqs
  BY DEF BitSeqs
<1>4. \A j \in 0 .. n - 1 : f[j].metadata \in BitSeqs
  BY <1>1 DEF SymbolRecords
<1>5. DockedAt(f, k, d) \in BitSeqs
  BY <1>2, <1>3, <1>4 DEF DockedAt
<1> QED
  BY <1>2, <1>5 DEF BitSeqs

LEMMA PayloadIsInteger ==
  ASSUME NEW n \in Nat \ {0}, NEW f, Arrayed(f, n), NEW k \in 0 .. n - 1, NEW share \in Int
  PROVE  PayloadLength(f, k, share) \in Int
<1>1. /\ Len(DockedAt(f, k, 0)) \in Nat /\ Len(DockedAt(f, k, 1)) \in Nat
      /\ Len(DockedAt(f, k, 2)) \in Nat /\ Len(DockedAt(f, k, 3)) \in Nat
  BY DockedAtIsBits DEF Sides
<1> QED
  BY <1>1 DEF PayloadLength

\* addE2SecondaryMetadata lengthens the metadata of one docked symbol, and with
\* it the payload of its host alone, by no more than the host has left.
LEMMA WithRateKeeps ==
  ASSUME Accepted, NEW k \in Indices, NEW share \in Int, NEW f, Rated(f, k, share), NEW side \in Sides
  PROVE  Rated(WithRate(f, k, share, side), k, share)
<1> DEFINE n == Count
           other == f[k].docked[side]
           md == [f[other].metadata EXCEPT ![2] = 1] \o RateBits(f[other].wcwr)
           g == [f EXCEPT ![other].metadata = md]
<1>1. n \in Nat \ {0} /\ Indices = 0 .. n - 1
  BY CountIsPositive DEF Accepted
<1>2. Arrayed(f, n) /\ Alike(f, k) /\ DataAlike(f, -1) /\ PayloadLength(f, k, share) <= NetOf(k)
  BY DEF Rated
<1> HIDE DEF n
<1>3. CASE ~(other > 0 /\ NetOf(k) - PayloadLength(f, k, share) >= 6)
  BY <1>3 DEF WithRate
<1>4. CASE other > 0 /\ NetOf(k) - PayloadLength(f, k, share) >= 6
  <2>1. WithRate(f, k, share, side) \in {f, g}
    BY DEF WithRate
  <2>2. other \in 1 .. n - 1
    <3>1. k \in 0 .. n - 1
      BY <1>1
    <3>2. other \in Int /\ other < n
      BY <1>1, <1>2, <3>1, DockedAtIsBits, ZenonT(30)
    <3> QED
      BY <1>1, <1>4, <3>2
  <2> HIDE DEF other
  <2>3. DOMAIN f = 0 .. n - 1 /\ \A j \in 0 .. n - 1 : f[j] \in SymbolRecords
    BY <1>2 DEF Arrayed, Families
  <2>4. md \in BitSeqs /\ Len(md) = Len(f[other].metadata) + 6 /\ Len(f[other].metadata) >= 2
    <3> DEFINE old == f[other].metadata
               new == [old EXCEPT ![2] = 1]
    <3>1. old \in BitSeqs /\ f[other].wcwr \in Rates /\ Len(old) >= 2
      BY <1>2, <2>2, <2>3 DEF SymbolRecords, Arrayed
    <3>2. new \in BitSeqs /\ Len(new) = Len(old)
      <4> HIDE DEF old
      <4> QED
        BY <3>1 DEF BitSeqs
    <3>3. RateBits(f[other].wcwr) \in BitSeqs /\ Len(RateBits(f[other].wcwr)) = 6
      BY <3>1, RateBitsAreBits
    <3>4. new \o RateBits(f[other].wcwr) \in BitSeqs
          /\ Len(new \o RateBits(f[other].wcwr)) = Len(new) + Len(RateBits(f[other].wcwr))
      <4> HIDE DEF new
      <4> QED
        BY <3>2, <3>3, JoinedBits
    <3> QED
      BY <3>1, <3>2, <3>3, <3>4
  <2> HIDE DEF md
  <2> DEFINE x == [f[other] EXCEPT !.metadata = md]
  <2>5. /\ x \in SymbolRecords /\ x.metadata = md
        /\ x.docked = f[other].docked /\ x.host = f[other].host /\ x.level = f[other].level
        /\ x.version = f[other].version /\ x.data = f[other].data
    BY <2>2, <2>3, <2>4, SMTT(30) DEF SymbolRecords
  <2>6. g = [j \in 0 .. n - 1 |-> IF j = other THEN x ELSE f[j]]
    BY <2>2, <2>3
  <2> HIDE DEF g, x
  <2>7. \A j \in 0 .. n - 1 :
          /\ g[j] \in SymbolRecords /\ g[j].docked = f[j].docked /\ g[j].host = f[j].host
          /\ g[j].level = f[j].level /\ g[j].version = f[j].version /\ g[j].data = f[j].data
          /\ g[j].metadata = IF j = other THEN md ELSE f[j].metadata
    BY <2>3, <2>5, <2>6
  <2>8. DOMAIN g = 0 .. n - 1 /\ g \in Families(n)
    BY <2>6, <2>7 DEF Families
  <2>9. Arrayed(g, n)
    <3>1. DockedOnce(g)
      BY <1>2, <2>3, <2>7, <2>8 DEF DockedOnce, Arrayed
    <3>2. \A j \in 1 .. n - 1 : Len(g[j].metadata) >= 2 /\ g[j].host \in 0 .. n - 1
      <4> TAKE j \in 1 .. n - 1
      <4>1. /\ g[j].metadata = (IF j = other THEN md ELSE f[j].metadata) /\ g[j].host = f[j].host
            /\ Len(f[j].metadata) >= 2 /\ f[j].host \in 0 .. n - 1
        BY <1>2, <2>7 DEF Arrayed
      <4>2. Len(md) >= 2
        <5>1. f[other].metadata \in BitSeqs
          BY <2>2, <2>3 DEF SymbolRecords
        <5> QED
          BY <2>4, <5>1 DEF BitSeqs
      <4> QED
        BY <4>1, <4>2
    <3> QED
      BY <1>2, <2>7, <2>8, <3>1, <3>2 DEF Arrayed
  <2>10. ASSUME NEW j \in 0 .. n - 1, NEW d \in Sides, ~(j = k /\ d = side)
         PROVE  DockedAt(g, j, d) = DockedAt(f, j, d)
    <3>1. CASE f[j].docked[d] > 0
      <4>1. f[j].docked[d] # other
        BY <1>1, <1>2, <1>4, <2>3, <2>10, <3>1 DEF DockedOnce, Arrayed, other
      <4>2. f[j].docked[d] \in 1 .. n - 1
        <5>1. f[j].docked[d] \in Int /\ f[j].docked[d] < n
          BY <1>1, <1>2, DockedAtIsBits
        <5> QED
          BY <1>1, <3>1, <5>1
      <4> QED
        BY <2>7, <3>1, <4>1, <4>2 DEF DockedAt
    <3>2. CASE ~(f[j].docked[d] > 0)
      BY <2>7, <3>2 DEF DockedAt
    <3> QED
      BY <3>1, <3>2
  <2>11. Len(DockedAt(g, k, side)) = Len(DockedAt(f, k, side)) + 6
    <3>1. DockedAt(g, k, side) = md /\ DockedAt(f, k, side) = f[other].metadata
      BY <1>1, <1>4, <2>2, <2>7 DEF DockedAt, other
    <3> QED
      BY <2>4, <3>1
  <2>12. PayloadLength(g, k, share) = PayloadLength(f, k, share) + 6
    <3>1. \A d \in Sides : /\ Len(DockedAt(f, k, d)) \in Nat
                           /\ Len(DockedAt(g, k, d)) = Len(DockedAt(f, k, d)) + (IF d = side THEN 6 ELSE 0)
      BY <1>1, <1>2, <2>10, <2>11, DockedAtIsBits
    <3>2. side \in {0, 1, 2, 3} /\ 0 \in Sides /\ 1 \in Sides /\ 2 \in Sides /\ 3 \in Sides
      BY DEF Sides
    <3> QED
      BY <3>1, <3>2, SMTT(30) DEF PayloadLength
  <2>13. PayloadLength(f, k, share) \in Int /\ NetOf(k) \in Int
    BY <1>1, <1>2, PayloadIsInteger, NetOfIsPositive
  <2>14. PayloadLength(g, k, share) <= NetOf(k)
    BY <1>4, <2>12, <2>13
  <2>15. Alike(g, k) /\ DataAlike(g, -1)
    BY <1>1, <1>2, <2>7, <2>10 DEF Alike, DataAlike
  <2> QED
    BY <1>2, <2>1, <2>9, <2>14, <2>15 DEF Rated, n
<1> QED
  BY <1>3, <1>4

LEMMA WithRatesKeeps ==
  ASSUME Accepted, NEW k \in Indices, NEW share \in Int, PayloadLength(symbols, k, share) <= NetOf(k)
  PROVE  Rated(WithRates(k, share), k, share)
<1>1. Rated(symbols, k, share)
  BY DEF Rated, Alike, DataAlike, Accepted
<1>2. 0 \in Sides /\ 1 \in Sides /\ 2 \in Sides /\ 3 \in Sides
  BY DEF Sides
<1> DEFINE f0 == WithRate(symbols, k, share, 0)
           f1 == WithRate(f0, k, share, 1)
           f2 == WithRate(f1, k, share, 2)
<1>3. Rated(f0, k, share)
  BY <1>1, <1>2, WithRateKeeps
<1> HIDE DEF f0
<1>4. Rated(f1, k, share)
  BY <1>2, <1>3, WithRateKeeps
<1> HIDE DEF f1
<1>5. Rated(f2, k, share)
  BY <1>2, <1>4, WithRateKeeps
<1> HIDE DEF f2
<1>6. Rated(WithRate(f2, k, share, 3), k, share)
  BY <1>2, <1>5, WithRateKeeps
<1> QED
  BY <1>6 DEF WithRates, f0, f1, f2

LEMMA TailIsBits ==
  ASSUME NEW n \in Nat \ {0}, NEW f, Arrayed(f, n), NEW k \in 0 .. n - 1
  PROVE  SideBits(f, k) \o DockedBits(f, k) \in BitSeqs
<1>1. \A d \in Sides : SideBit(f, k, d) \in BitSeqs
  <2>1. <<>> \in BitSeqs /\ <<0>> \in BitSeqs /\ <<1>> \in BitSeqs
    BY DEF BitSeqs
  <2> QED
    BY <2>1 DEF SideBit
<1>2. \A d \in Sides : DockedAt(f, k, d) \in BitSeqs
  BY DockedAtIsBits
<1>3. 0 \in Sides /\ 1 \in Sides /\ 2 \in Sides /\ 3 \in Sides
  BY DEF Sides
<1>4. \A s, t \in BitSeqs : s \o t \in BitSeqs
  BY JoinedBits
<1>5. SideBits(f, k) \in BitSeqs
  BY <1>1, <1>3, <1>4, Zenon DEF SideBits
<1>6. DockedBits(f, k) \in BitSeqs
  BY <1>2, <1>3, <1>4, Zenon DEF DockedBits
<1> QED
  BY <1>4, <1>5, <1>6

LEMMA RateInHostIsInteger ==
  ASSUME NEW n \in Nat \ {0}, NEW f, Arrayed(f, n), NEW k \in 1 .. n - 1
  PROVE  RateInHost(f, k) \in Int
<1>1. f[k].host \in 0 .. n - 1
  BY DEF Arrayed
<1>2. /\ Len(DockedAt(f, f[k].host, 0)) \in Nat /\ Len(DockedAt(f, f[k].host, 1)) \in Nat
      /\ Len(DockedAt(f, f[k].host, 2)) \in Nat /\ Len(DockedAt(f, f[k].host, 3)) \in Nat
  BY <1>1, DockedAtIsBits DEF Sides
<1> QED
  BY <1>2 DEF RateInHost

\* f and g differ in nothing but rates and data.
SameBut(g, f, n) ==
  \A j \in 0 .. n - 1 :
    /\ g[j].docked = f[j].docked /\ g[j].host = f[j].host /\ g[j].level = f[j].level
    /\ g[j].version = f[j].version /\ g[j].metadata = f[j].metadata

LEMMA SameButKeeps ==
  ASSUME NEW n \in Nat \ {0}, NEW f, Arrayed(f, n), NEW g \in Families(n), SameBut(g, f, n)
  PROVE  /\ Arrayed(g, n)
         /\ \A j \in 0 .. n - 1, d \in Sides : DockedAt(g, j, d) = DockedAt(f, j, d)
<1>1. DOMAIN f = 0 .. n - 1 /\ DOMAIN g = 0 .. n - 1
  BY DEF Arrayed, Families
<1>2. DockedOnce(g)
  BY <1>1 DEF Arrayed, DockedOnce, SameBut
<1>3. Arrayed(g, n)
  <2>1. \A j \in 0 .. n - 1, d \in Sides : g[j].docked[d] < n
    BY DEF Arrayed, SameBut
  <2>2. \A j \in 1 .. n - 1 : j \in 0 .. n - 1
    OBVIOUS
  <2>3. \A j \in 1 .. n - 1 : g[j].host \in 0 .. n - 1
    BY <2>2 DEF Arrayed, SameBut
  <2>4. \A j \in 1 .. n - 1 : Len(g[j].metadata) >= 2
    BY <2>2 DEF Arrayed, SameBut
  <2> QED
    BY <1>2, <2>1, <2>3, <2>4 DEF Arrayed
<1>4. ASSUME NEW j \in 0 .. n - 1, NEW d \in Sides
      PROVE  DockedAt(g, j, d) = DockedAt(f, j, d)
  <2>1. f[j].docked[d] \in Int /\ f[j].docked[d] < n
    BY DockedAtIsBits
  <2>2. CASE f[j].docked[d] > 0
    <3>1. f[j].docked[d] \in 0 .. n - 1
      BY <2>1, <2>2
    <3> QED
      BY <2>2, <3>1 DEF SameBut, DockedAt
  <2>3. CASE ~(f[j].docked[d] > 0)
    BY <2>3 DEF SameBut, DockedAt
  <2> QED
    BY <2>2, <2>3
<1> QED
  BY <1>3, <1>4

\* updateSecondaryMetadataE changes bits of the host's tail, never how many.
LEMMA RateRewrittenKeeps ==
  ASSUME NEW n \in Nat \ {0}, NEW f, Arrayed(f, n), NEW k \in 1 .. n - 1
  PROVE  /\ RateRewritten(f, k) \in Families(n) /\ SameBut(RateRewritten(f, k), f, n)
         /\ \A j \in 0 .. n - 1 : /\ RateRewritten(f, k)[j].data.length = f[j].data.length
                                  /\ RateRewritten(f, k)[j].data.pn = f[j].data.pn
<1> DEFINE host == f[k].host
           tail == f[host].data.tail
           at   == RateInHost(f, k)
           rate == RateBits(f[k].wcwr)
           new  == [m \in DOMAIN tail |-> IF m \in at .. at + 5 THEN rate[m - at + 1] ELSE tail[m]]
           x    == [f[host] EXCEPT !.data.tail = new]
           g    == [f EXCEPT ![host].data.tail = new]
<1>1. RateRewritten(f, k) = g
  BY DEF RateRewritten
<1>2. host \in 0 .. n - 1 /\ DOMAIN f = 0 .. n - 1 /\ \A j \in 0 .. n - 1 : f[j] \in SymbolRecords
  BY DEF Arrayed, Families
<1>3. tail \in BitSeqs /\ f[k].wcwr \in Rates /\ at \in Int
  <2>1. \A z \in SymbolRecords : z.data \in DataRecords /\ z.wcwr \in Rates
    BY DEF SymbolRecords
  <2>2. \A y \in DataRecords : y.tail \in BitSeqs
    BY DEF DataRecords
  <2>3. at \in Int
    BY RateInHostIsInteger
  <2>4. k \in 0 .. n - 1
    OBVIOUS
  <2> HIDE DEF at, host
  <2> QED
    BY <1>2, <2>1, <2>2, <2>3, <2>4
<1>4. rate \in BitSeqs /\ Len(rate) = 6
  BY <1>3, RateBitsAreBits
<1> HIDE DEF rate, at
<1>5. new \in BitSeqs
  <2> HIDE DEF tail
  <2>1. Len(tail) \in Nat /\ DOMAIN tail = 1 .. Len(tail) /\ \A m \in 1 .. Len(tail) : tail[m] \in {0, 1}
    BY <1>3 DEF BitSeqs
  <2>2. \A m \in 1 .. 6 : rate[m] \in {0, 1}
    <3>1. \A t \in BitSeqs : \A m \in 1 .. Len(t) : t[m] \in {0, 1}
      BY DEF BitSeqs
    <3> QED
      BY <1>4, <3>1
  <2>3. \A m \in 1 .. Len(tail) : m \in at .. at + 5 => m - at + 1 \in 1 .. 6
    BY <1>3, <2>1
  <2>4. new = [m \in 1 .. Len(tail) |-> new[m]]
    BY <2>1
  <2>5. \A m \in 1 .. Len(tail) : new[m] \in {0, 1}
    BY <2>1, <2>2, <2>3
  <2> HIDE DEF new
  <2> QED
    BY <2>1, <2>4, <2>5 DEF BitSeqs
<1> HIDE DEF new, tail, host
<1>6. /\ x \in SymbolRecords
      /\ x.docked = f[host].docked /\ x.host = f[host].host /\ x.level = f[host].level
      /\ x.version = f[host].version /\ x.metadata = f[host].metadata
      /\ x.data.length = f[host].data.length /\ x.data.pn = f[host].data.pn
  BY <1>2, <1>5 DEF SymbolRecords, DataRecords
<1>7. g = [j \in 0 .. n - 1 |-> IF j = host THEN x ELSE f[j]]
  BY <1>2
<1> HIDE DEF g, x
<1>8. g \in Families(n)
  BY <1>2, <1>6, <1>7 DEF Families
<1>9. SameBut(g, f, n)
  BY <1>2, <1>6, <1>7 DEF SameBut
<1>10. \A j \in 0 .. n - 1 : g[j].data.length = f[j].data.length /\ g[j].data.pn = f[j].data.pn
  BY <1>2, <1>6, <1>7
<1> QED
  BY <1>1, <1>8, <1>9, <1>10

\* Symbol k, filled, keeps to its level; the others stay as they were.
LEMMA FittedHolds ==
  ASSUME Accepted, NEW k \in Indices, NEW share \in Int, PayloadLength(symbols, k, share) <= NetOf(k)
  PROVE  LET g == Fitted(k, share)
         IN /\ Arrayed(g, Count) /\ Alike(g, k) /\ DataAlike(g, k)
            /\ g[k].data.length = share
            /\ g[k].data.pn <= NetOf(k)
            /\ g[k].data.pn >= PayloadLength(g, k, share)
<1> DEFINE n == Count
           f == WithRates(k, share)
           chooses == IF k = 0 THEN ~DefaultMode(input.colors, eccLevel) /\ ~input.opaque
                               ELSE f[k].metadata[2] = 1
           w == IF chooses THEN Optimal(CapacityOf(k), PayloadLength(f, k, share), Weights(f[k].level))
                           ELSE Weights(f[k].level)
           data == [from |-> assigned, length |-> share,
                    tail |-> SideBits(f, k) \o DockedBits(f, k),
                    pn |-> NetCapacity(CapacityOf(k), w)]
           g == [f EXCEPT ![k].wcwr = w, ![k].data = data]
           h == Fitted(k, share)
<1>1. n \in Nat \ {0} /\ Indices = 0 .. n - 1
  BY CountIsPositive DEF Accepted
<1>2. Arrayed(f, n) /\ Alike(f, k) /\ DataAlike(f, -1) /\ PayloadLength(f, k, share) <= NetOf(k)
  BY WithRatesKeeps DEF Rated
<1>3. h = IF k > 0 /\ chooses THEN RateRewritten(g, k) ELSE g
  BY DEF Fitted
<1> HIDE DEF n, f, h
<1>4. /\ CapacityOf(k) \in Int /\ NetOf(k) \in Int /\ Weights(f[k].level) \in Rates
      /\ NetOf(k) = NetCapacity(CapacityOf(k), Weights(f[k].level))
  BY <1>2, NetOfIsPositive DEF Alike
<1>5. PayloadLength(f, k, share) \in Int
  BY <1>1, <1>2, PayloadIsInteger
<1>6. /\ w \in Rates /\ NetCapacity(CapacityOf(k), w) \in Int
      /\ PayloadLength(f, k, share) <= NetCapacity(CapacityOf(k), w)
      /\ NetCapacity(CapacityOf(k), w) <= NetOf(k)
  <2>1. CASE chooses
    <3> DEFINE p == Optimal(CapacityOf(k), PayloadLength(f, k, share), Weights(f[k].level))
    <3>1. w = p
      BY <2>1
    <3> HIDE DEF w
    <3>2. /\ p \in Rates /\ PayloadLength(f, k, share) <= NetCapacity(CapacityOf(k), p)
          /\ NetCapacity(CapacityOf(k), p) <= NetOf(k)
      BY <1>2, <1>4, <1>5, OptimalHolds
    <3> HIDE DEF p
    <3> QED
      BY <1>4, <3>1, <3>2, NetIsInteger
  <2>2. CASE ~chooses
    BY <1>2, <1>4, <2>2
  <2> QED
    BY <2>1, <2>2
<1> HIDE DEF w
<1>7. data \in DataRecords
  <2>1. SideBits(f, k) \o DockedBits(f, k) \in BitSeqs
    BY <1>1, <1>2, TailIsBits
  <2> QED
    BY <1>6, <2>1 DEF DataRecords, Accepted
<1>8. data.length = share /\ data.pn = NetCapacity(CapacityOf(k), w)
  OBVIOUS
<1> HIDE DEF data, chooses
<1>9. DOMAIN f = 0 .. n - 1 /\ \A j \in 0 .. n - 1 : f[j] \in SymbolRecords
  BY <1>2 DEF Arrayed, Families
<1> DEFINE x == [[f[k] EXCEPT !.wcwr = w] EXCEPT !.data = data]
<1>10. /\ x \in SymbolRecords
       /\ x.docked = f[k].docked /\ x.host = f[k].host /\ x.level = f[k].level
       /\ x.version = f[k].version /\ x.metadata = f[k].metadata /\ x.data = data
  BY <1>1, <1>6, <1>7, <1>9 DEF SymbolRecords
<1>11. g = [j \in 0 .. n - 1 |-> IF j = k THEN x ELSE f[j]]
  BY <1>1, <1>9
<1> HIDE DEF g, x
<1>12. g \in Families(n) /\ SameBut(g, f, n)
  BY <1>9, <1>10, <1>11 DEF Families, SameBut
<1>13. Arrayed(g, n) /\ \A j \in 0 .. n - 1, d \in Sides : DockedAt(g, j, d) = DockedAt(f, j, d)
  BY <1>1, <1>2, <1>12, SameButKeeps
<1>14. h \in Families(n) /\ SameBut(h, g, n)
       /\ \A j \in 0 .. n - 1 : h[j].data.length = g[j].data.length /\ h[j].data.pn = g[j].data.pn
  <2>1. CASE k > 0 /\ chooses
    <3>1. k \in 1 .. n - 1
      BY <1>1, <2>1
    <3> QED
      BY <1>1, <1>3, <1>13, <2>1, <3>1, RateRewrittenKeeps
  <2>2. CASE ~(k > 0 /\ chooses)
    BY <1>3, <1>12, <2>2 DEF SameBut
  <2> QED
    BY <2>1, <2>2
<1>15. Arrayed(h, n) /\ \A j \in 0 .. n - 1, d \in Sides : DockedAt(h, j, d) = DockedAt(f, j, d)
  BY <1>1, <1>13, <1>14, SameButKeeps
<1>16. \A j \in 0 .. n - 1 : /\ h[j].docked = f[j].docked /\ h[j].host = f[j].host
                             /\ h[j].level = f[j].level /\ h[j].version = f[j].version
  BY <1>12, <1>14 DEF SameBut
<1>17. Alike(h, k)
  BY <1>1, <1>2, <1>15, <1>16 DEF Alike
<1>18. DataAlike(h, k)
  <2>1. \A j \in Indices \ {k} : g[j] = f[j]
    BY <1>1, <1>11
  <2>2. \A j \in Indices : f[j].data.length = symbols[j].data.length /\ f[j].data.pn = symbols[j].data.pn
    BY <1>1, <1>2 DEF DataAlike
  <2> QED
    BY <1>1, <1>14, <2>1, <2>2 DEF DataAlike
<1>19. h[k].data.length = share /\ h[k].data.pn = NetCapacity(CapacityOf(k), w)
  BY <1>1, <1>8, <1>10, <1>11, <1>14
<1>20. PayloadLength(h, k, share) = PayloadLength(f, k, share)
  BY <1>1, <1>15 DEF PayloadLength, Sides
<1>21. h[k].data.pn <= NetOf(k) /\ h[k].data.pn >= PayloadLength(h, k, share)
  BY <1>4, <1>5, <1>6, <1>19, <1>20
<1> QED
  BY <1>15, <1>17, <1>18, <1>19, <1>21 DEF h, n

-----------------------------------------------------------------------------
(* Codes: the shares of the message.                                        *)

SumIn(s, F) ==
  F = [u \in SUBSET DOMAIN s |-> IF u = {} THEN 0 ELSE F[u \ {Max(u)}] + s[Max(u)]]

LEMMA SumIsPositive ==
  ASSUME NEW s \in Seq(Nat \ {0}), Len(s) # 0
  PROVE  FoldLeft(LAMBDA total, net : total + net, 0, s) \in Nat \ {0}
<1> DEFINE Items == Nat \ {0}
           G == [p \in Nat \X Items |-> p[1] + p[2]]
           H == CHOOSE F : SumIn(s, F)
<1>1. Folding(Nat, Items, G)
  BY DEF Folding
<1>2. PICK F : Stages(Nat, G, 0, s, F)
  <2>1. s \in Seq(Items) /\ 0 \in Nat
    OBVIOUS
  <2> HIDE DEF G, Items
  <2> QED
    BY <1>1, <2>1, StagesExist
<1>3. DOMAIN s = 1 .. Len(s) /\ Len(s) \in Nat \ {0}
  BY LenProperties
<1>4. ASSUME NEW u \in SUBSET DOMAIN s, u # {}
      PROVE  F[u] = F[u \ {Max(u)}] + s[Max(u)]
  <2>1. Max(u) \in DOMAIN s
    BY <1>3, <1>4, LastOf
  <2>2. s[Max(u)] \in Items
    BY <1>3, <2>1
  <2>3. F[u \ {Max(u)}] \in Nat
    BY <1>2, <1>4 DEF Stages
  <2>4. F[u] = G[<<F[u \ {Max(u)}], s[Max(u)]>>]
    BY <1>2, <1>4 DEF Stages
  <2> QED
    BY <2>2, <2>3, <2>4
<1>5. SumIn(s, F)
  <2> HIDE DEF G
  <2> QED
    BY <1>2, <1>4 DEF SumIn, Stages
<1>6. SumIn(s, H)
  BY <1>5
<1>7. FoldLeft(LAMBDA total, net : total + net, 0, s) = H[DOMAIN s]
  BY DEF FoldLeft, MapThenFoldSet, SumIn
<1> HIDE DEF H, G, Items
<1> DEFINE P == {k \in Nat : H[1 .. k] \in Nat /\ H[1 .. k] >= k}
<1>8. 0 \in P
  <2>1. 1 .. 0 = {} /\ {} \in SUBSET DOMAIN s
    OBVIOUS
  <2>2. H[{}] = 0
    BY <1>6, <2>1 DEF SumIn
  <2> QED
    BY <2>1, <2>2
<1>9. ASSUME NEW k \in 0 .. Len(s) - 1, k \in P PROVE k + 1 \in P
  <2> DEFINE u == 1 .. k + 1
  <2>1. u # {} /\ Max(u) = k + 1 /\ u \ {Max(u)} = 1 .. k
    <3>1. k \in Nat
      BY <1>3
    <3> QED
      BY <3>1, PrefixLast
  <2>2. u \in SUBSET DOMAIN s
    BY <1>3
  <2>3. H[u] = H[1 .. k] + s[k + 1]
    <3> HIDE DEF u
    <3> QED
      BY <1>6, <2>1, <2>2 DEF SumIn
  <2>4. s[k + 1] \in Nat \ {0}
    BY <1>3, <1>9
  <2> QED
    BY <1>9, <2>3, <2>4
<1> HIDE DEF P
<1>10. Len(s) \in P
  <2>1. \A k \in 0 .. Len(s) - 1 : k \in P => k + 1 \in P
    BY <1>9
  <2>2. \A k \in 0 .. Len(s) : k \in P
    BY <1>3, <1>8, <2>1, PrefixInduction
  <2> QED
    BY <1>3, <2>2
<1>11. H[DOMAIN s] \in Nat /\ H[DOMAIN s] >= Len(s)
  BY <1>3, <1>10 DEF P
<1>12. H[DOMAIN s] \in Nat \ {0}
  BY <1>3, <1>11
<1> QED
  BY <1>7, <1>12, Zenon

LEMMA SharesAreIntegers ==
  ASSUME Accepted, NEW k \in Indices, NEW share \in Shares(k)
  PROVE  share \in Int
<1> DEFINE s == [m \in 1 .. Count |-> NetOf(m - 1)]
<1>1. Count \in Nat \ {0} /\ Indices = 0 .. Count - 1
  BY CountIsPositive DEF Accepted
<1>2. \A m \in 1 .. Count : NetOf(m - 1) \in Nat \ {0}
  <2> TAKE m \in 1 .. Count
  <2>1. m - 1 \in Indices
    BY <1>1
  <2> QED
    BY <2>1, NetOfIsPositive
<1>3. s \in Seq(Nat \ {0}) /\ Len(s) = Count
  <2>1. s \in [1 .. Count -> Nat \ {0}]
    BY <1>2
  <2> HIDE DEF s
  <2> QED
    BY <1>1, <2>1
<1>4. NetTotal \in Nat \ {0}
  <2>1. FoldLeft(LAMBDA total, net : total + net, 0, s) \in Nat \ {0}
    <3> HIDE DEF s
    <3> QED
      BY <1>1, <1>3, SumIsPositive
  <2> QED
    BY <2>1 DEF NetTotal
<1>5. input.length \in Int /\ assigned \in Int
  BY InputsAssumption DEF Accepted
<1>6. NetOf(k) \in Int
  BY NetOfIsPositive
<1>7. NetOf(k) * input.length \in Int
  BY <1>5, <1>6
<1> DEFINE product == NetOf(k) * input.length
           exact == product \div NetTotal
<1>8. exact \in Int
  <2> HIDE DEF product
  <2> QED
    BY <1>4, <1>7 DEF product
<1>9. share \in {input.length - assigned, exact, exact - 1, exact + 1}
  BY DEF Shares
<1> HIDE DEF exact
<1> QED
  BY <1>5, <1>8, <1>9

-----------------------------------------------------------------------------
(* Codes: what initSymbols hands on.                                        *)

LEMMA NewIsRecord ==
  ASSUME NEW option \in [position : Int, version : Versions, level : Levels]
  PROVE  /\ NewSymbol(option) \in SymbolRecords
         /\ NewSymbol(option).host = -1 /\ NewSymbol(option).docked = [d \in Sides |-> 0]
<1>1. option.position \in Int /\ option.version \in Versions /\ option.level \in Levels
  OBVIOUS
<1>2. Weights(option.level) \in Rates
  BY <1>1, WeightsAreRates
<1>3. <<>> \in BitSeqs
  BY DEF BitSeqs
<1>4. NoData \in DataRecords
  BY <1>3 DEF NoData, DataRecords
<1>5. [d \in Sides |-> 0] \in [Sides -> Int] /\ -1 \in Int
  OBVIOUS
<1> QED
  BY <1>1, <1>2, <1>3, <1>4, <1>5 DEF NewSymbol, SymbolRecords

LEMMA SequenceHolds ==
  ASSUME NEW S, NEW s \in Seq(S), NEW m \in DOMAIN s
  PROVE  s[m] \in S
<1>1. DOMAIN s = 1 .. Len(s) /\ Len(s) \in Nat
  BY LenProperties
<1> QED
  BY <1>1, ElementOfSeq

LEMMA OptionsAreTyped ==
  ASSUME input \in Inputs, Valid(input), NEW m \in DOMAIN input.symbols
  PROVE  /\ input.symbols[m].position \in Int /\ input.symbols[m].level \in Levels
         /\ Len(input.symbols) # 1 => input.symbols[m].version \in Versions
         /\ input.symbols[m].version \in Versions \cup {Fitting}
<1>1. input.symbols \in Seq([position : Int, version : Int \X Int, level : Int])
  BY InputsAssumption
<1>2. input.symbols[m] \in [position : Int, version : Int \X Int, level : Int]
  BY <1>1, SequenceHolds, Zenon
<1> QED
  BY <1>2 DEF Valid

\* The version chosen for a primary alone is one there is.
LEMMA SingleIsTyped ==
  ASSUME input \in Inputs, Valid(input), Len(input.symbols) <= 1
  PROVE  /\ SingleLevel(input) \in Levels
         /\ SingleVersion(input) # <<>> => SingleVersion(input) \in Versions
<1>1. input.symbols \in Seq([position : Int, version : Int \X Int, level : Int])
  BY InputsAssumption
<1>2. input.symbols # <<>> => 1 \in DOMAIN input.symbols
  BY <1>1
<1>3. input.level \in Levels
  BY DEF Valid
<1>4. input.symbols # <<>> => input.symbols[1].level \in Levels
  BY <1>2, OptionsAreTyped
<1>5. SingleLevel(input) \in Levels
  <2>1. DefaultECCLevel \in Levels
    BY DEF DefaultECCLevel, Levels
  <2> QED
    BY <1>3, <1>4, <2>1 DEF SingleLevel
<1>6. CASE input.symbols # <<>> /\ input.symbols[1].version # Fitting
  <2>1. input.symbols[1].version \in Versions
    BY <1>2, <1>6, OptionsAreTyped
  <2> QED
    BY <1>5, <1>6, <2>1 DEF SingleVersion
<1>7. CASE ~(input.symbols # <<>> /\ input.symbols[1].version # Fitting)
  <2> DEFINE fitting == {v \in 1 .. 32 : SquareFits(input, SingleLevel(input), v)}
             smallest == CHOOSE v \in fitting : \A w \in fitting : v <= w
  <2>1. SingleVersion(input) = IF fitting = {} THEN <<>> ELSE <<smallest, smallest>>
    BY <1>7 DEF SingleVersion
  <2>2. \A v \in fitting : v \in 1 .. 32
    OBVIOUS
  <2> HIDE DEF fitting
  <2>3. fitting # {} => smallest \in fitting
    <3>1. fitting \in SUBSET Nat
      <4>1. \A v \in 1 .. 32 : v \in Nat
        OBVIOUS
      <4> HIDE DEF smallest
      <4> QED
        BY <2>2, <4>1, Zenon
    <3> QED
      BY <3>1, LeastOf
  <2> HIDE DEF smallest
  <2>4. fitting # {} => <<smallest, smallest>> \in Versions
    BY <2>2, <2>3 DEF Versions
  <2> QED
    BY <1>5, <2>1, <2>4
<1> QED
  BY <1>6, <1>7

\* The symbols initSymbols hands on.
LEMMA InitIsArrayed ==
  ASSUME input \in Inputs, InitSymbols, stage' = "fitting"
  PROVE  Valid(input) /\ eccLevel' \in Int /\ Arrayed(symbols', Count)
<1> DEFINE single == Len(input.symbols) <= 1
           level == IF single THEN SingleLevel(input) ELSE input.symbols[1].level
           version == SingleVersion(input)
           one == [k \in Indices |-> NewSymbol([position |-> 0, version |-> version, level |-> level])]
           many == [k \in Indices |-> NewSymbol(input.symbols[k + 1])]
           f == IF single THEN IF version = <<>> THEN <<>> ELSE one ELSE Arranged(many)
<1>1. eccLevel' = level /\ Valid(input) /\ f # <<>> /\ symbols' = f
  BY DEF InitSymbols
<1>2. Count \in Nat \ {0} /\ Indices = 0 .. Count - 1 /\ Len(input.symbols) \in Nat
  BY CountIsPositive
<1>3. CASE single
  <2>1. level \in Levels /\ version \in Versions /\ f = one
    BY <1>1, <1>3, SingleIsTyped
  <2>2. Count = 1 /\ Indices = {0}
    BY <1>2, <1>3 DEF Count
  <2> DEFINE option == [position |-> 0, version |-> version, level |-> level]
  <2>3. option \in [position : Int, version : Versions, level : Levels]
    BY <2>1
  <2>4. /\ NewSymbol(option) \in SymbolRecords /\ NewSymbol(option).docked = [d \in Sides |-> 0]
    <3> HIDE DEF option
    <3> QED
      BY <2>3, NewIsRecord
  <2>5. one = [k \in {0} |-> NewSymbol(option)]
    BY <2>2
  <2> HIDE DEF option, one, level, version
  <2>6. one \in Families(1)
    <3>1. 0 .. 1 - 1 = {0}
      OBVIOUS
    <3> QED
      BY <2>4, <2>5, <3>1 DEF Families
  <2>7. \A j \in {0}, d \in Sides : one[j].docked[d] = 0
    BY <2>4, <2>5
  <2>8. DOMAIN one = {0}
    BY <2>5
  <2>9. Arrayed(one, 1)
    <3>1. DockedOnce(one)
      BY <2>7, <2>8 DEF DockedOnce
    <3>2. \A j \in 0 .. 0, d \in Sides : one[j].docked[d] < 1
      BY <2>7
    <3> QED
      BY <2>6, <3>1, <3>2 DEF Arrayed
  <2>10. level \in Int
    BY <2>1 DEF Levels
  <2> HIDE DEF f
  <2> QED
    BY <1>1, <2>1, <2>2, <2>9, <2>10
<1>4. CASE ~single
  <2>1. f = Arranged(many) /\ level = input.symbols[1].level
    BY <1>4
  <2>2. Count = Len(input.symbols) /\ Len(input.symbols) > 1
    BY <1>2, <1>4 DEF Count
  <2>3. DOMAIN input.symbols = 1 .. Count
    BY <2>2, InputsAssumption
  <2>4. \A k \in Indices : /\ NewSymbol(input.symbols[k + 1]) \in SymbolRecords
                           /\ NewSymbol(input.symbols[k + 1]).host = -1
                           /\ NewSymbol(input.symbols[k + 1]).docked = [d \in Sides |-> 0]
    <3> TAKE k \in Indices
    <3>1. k + 1 \in DOMAIN input.symbols
      BY <1>2, <2>3
    <3>2. input.symbols[k + 1] \in [position : Int, version : Int \X Int, level : Int]
      <4>1. input.symbols \in Seq([position : Int, version : Int \X Int, level : Int])
        BY InputsAssumption
      <4> QED
        BY <3>1, <4>1, SequenceHolds, Zenon
    <3>3. /\ input.symbols[k + 1].position \in Int /\ input.symbols[k + 1].level \in Levels
          /\ input.symbols[k + 1].version \in Versions
      BY <1>1, <2>2, <3>1, OptionsAreTyped, SMTT(30)
    <3>4. input.symbols[k + 1] \in [position : Int, version : Versions, level : Levels]
      BY <3>2, <3>3
    <3> QED
      BY <3>4, NewIsRecord
  <2>5. Loose(many, Count)
    BY <1>2, <2>4 DEF Loose, Families
  <2>6. level \in Int
    <3>1. 1 \in DOMAIN input.symbols
      BY <1>2, <2>3
    <3>2. input.symbols[1].level \in Levels
      BY <1>1, <3>1, OptionsAreTyped
    <3> QED
      BY <2>1, <3>2 DEF Levels
  <2> HIDE DEF many, f, level
  <2> QED
    BY <1>1, <1>2, <2>1, <2>5, <2>6, ArrangedIsArrayed
<1> QED
  BY <1>3, <1>4

-----------------------------------------------------------------------------
(* Codes: the invariant and its theorem.                                    *)

\* What holds of a symbol that fitDataIntoSymbols has filled.
KeepsLevel(k) ==
  /\ symbols[k].data.pn <= NetOf(k)
  /\ symbols[k].data.pn >= PayloadLength(symbols, k, symbols[k].data.length)

CodeInv ==
  /\ input \in Inputs
  /\ stage = "given" => fitted = 0 /\ assigned = 0
  /\ stage = "fitting" \/ Drawn =>
       Accepted /\ fitted \in 0 .. Count /\ \A k \in 0 .. fitted - 1 : KeepsLevel(k)
  /\ Drawn => fitted = Count

LEMMA FitKeeps ==
  ASSUME CodeInv, Fit
  PROVE  CodeInv'
<1>1. stage = "fitting" /\ fitted < Count
  BY DEF Fit
<1>2. PICK share \in Shares(fitted) :
        IF PayloadLength(symbols, fitted, share) > NetOf(fitted)
         THEN stage' = "refused" /\ UNCHANGED <<symbols, assigned, fitted>>
         ELSE /\ symbols' = Fitted(fitted, share)
              /\ assigned' = assigned + share
              /\ fitted' = fitted + 1
              /\ UNCHANGED stage
  BY DEF Fit
<1>3. Accepted /\ fitted \in 0 .. Count /\ \A k \in 0 .. fitted - 1 : KeepsLevel(k)
  BY <1>1 DEF CodeInv
<1>4. Count \in Nat \ {0} /\ Indices = 0 .. Count - 1
  BY <1>3, CountIsPositive DEF Accepted
<1>5. fitted \in Indices /\ share \in Int
  <2>1. fitted \in Indices
    BY <1>1, <1>3, <1>4
  <2> QED
    BY <1>2, <1>3, <2>1, SharesAreIntegers
<1>6. input' = input /\ eccLevel' = eccLevel /\ Count' = Count
  BY DEF Fit, Count
<1>7. CASE PayloadLength(symbols, fitted, share) > NetOf(fitted)
  BY <1>2, <1>6, <1>7 DEF CodeInv, Drawn
<1>8. CASE ~(PayloadLength(symbols, fitted, share) > NetOf(fitted))
  <2>1. PayloadLength(symbols, fitted, share) \in Int /\ NetOf(fitted) \in Int
    BY <1>3, <1>4, <1>5, PayloadIsInteger, NetOfIsPositive DEF Accepted
  <2>2. PayloadLength(symbols, fitted, share) <= NetOf(fitted)
    BY <1>8, <2>1
  <2> DEFINE g == Fitted(fitted, share)
  <2>3. /\ symbols' = g /\ assigned' = assigned + share /\ fitted' = fitted + 1 /\ stage' = stage
    BY <1>2, <1>8
  <2>4. /\ Arrayed(g, Count) /\ Alike(g, fitted) /\ DataAlike(g, fitted)
        /\ g[fitted].data.length = share
        /\ g[fitted].data.pn <= NetOf(fitted)
        /\ g[fitted].data.pn >= PayloadLength(g, fitted, share)
    BY <1>3, <1>5, <2>2, FittedHolds
  <2> HIDE DEF g
  <2>5. \A j \in Indices : NetOf(j)' = NetOf(j)
    <3> TAKE j \in Indices
    <3>1. symbols'[j].version = symbols[j].version /\ symbols'[j].level = symbols[j].level
      BY <2>3, <2>4 DEF Alike
    <3> QED
      BY <1>6, <3>1 DEF NetOf, CapacityOf, ShapeOf, Shape
  <2>6. ASSUME NEW j \in 0 .. fitted' - 1 PROVE KeepsLevel(j)'
    <3>1. j \in Indices
      BY <1>4, <1>5, <2>3
    <3>2. CASE j = fitted
      BY <2>3, <2>4, <2>5, <3>1, <3>2 DEF KeepsLevel
    <3>3. CASE j # fitted
      <4>1. KeepsLevel(j)
        BY <1>3, <1>4, <1>5, <2>3, <3>3
      <4>2. g[j].data.length = symbols[j].data.length /\ g[j].data.pn = symbols[j].data.pn
        BY <2>4, <3>1, <3>3 DEF DataAlike
      <4>3. \A d \in Sides : DockedAt(g, j, d) = DockedAt(symbols, j, d)
        BY <2>4, <3>1, <3>3 DEF Alike
      <4>4. 0 \in Sides /\ 1 \in Sides /\ 2 \in Sides /\ 3 \in Sides
        BY DEF Sides
      <4>5. PayloadLength(g, j, g[j].data.length) = PayloadLength(symbols, j, symbols[j].data.length)
        BY <4>2, <4>3, <4>4 DEF PayloadLength
      <4> QED
        BY <2>3, <2>5, <3>1, <4>1, <4>2, <4>5 DEF KeepsLevel
    <3> QED
      BY <3>2, <3>3
  <2>7. fitted' \in 0 .. Count
    BY <1>4, <1>5, <2>3
  <2>8. assigned' \in Int
    BY <1>3, <1>5, <2>3 DEF Accepted
  <2>9. Accepted'
    BY <1>3, <1>6, <2>3, <2>4, <2>8 DEF Accepted
  <2> QED
    BY <1>1, <1>6, <2>3, <2>6, <2>7, <2>9 DEF CodeInv, Drawn, Accepted
<1> QED
  BY <1>7, <1>8

LEMMA InitKeeps ==
  ASSUME CodeInv, InitSymbols
  PROVE  CodeInv'
<1>1. /\ stage = "given" /\ input' = input /\ assigned' = assigned /\ fitted' = fitted
      /\ stage' \in {"refused", "fitting"} /\ Count' = Count
  BY DEF InitSymbols, Count
<1>2. input \in Inputs /\ assigned \in Int /\ fitted = 0
  BY <1>1 DEF CodeInv
<1>3. CASE stage' = "refused"
  BY <1>1, <1>2, <1>3 DEF CodeInv, Drawn
<1>4. CASE stage' = "fitting"
  <2>1. Valid(input) /\ eccLevel' \in Int /\ Arrayed(symbols', Count)
    BY <1>2, <1>4, InitIsArrayed
  <2>2. Accepted'
    BY <1>1, <1>2, <2>1 DEF Accepted
  <2>3. fitted' \in 0 .. Count' /\ \A k \in 0 .. fitted' - 1 : KeepsLevel(k)'
    BY <1>1, <1>2, CountIsPositive
  <2> QED
    BY <1>1, <1>2, <1>4, <2>2, <2>3 DEF CodeInv, Drawn
<1> QED
  BY <1>1, <1>3, <1>4

\* Draw and the read leave what the writer made.
LEMMA KeptKeeps ==
  ASSUME CodeInv, stage' = stage \/ (stage \in {"drawn", "reading"} /\ stage' \in {"reading", "read", "unread"})
                  \/ (stage = "fitting" /\ fitted = Count /\ stage' \in {"drawn", "panicked"}),
         UNCHANGED <<input, eccLevel, symbols, assigned, fitted>>
  PROVE  CodeInv'
<1>1. Count' = Count /\ \A k : KeepsLevel(k)' <=> KeepsLevel(k)
  BY DEF Count, KeepsLevel, NetOf, CapacityOf, ShapeOf, Shape
<1>2. Accepted' <=> Accepted
  BY <1>1 DEF Accepted
<1>3. CASE stage' = stage
  BY <1>1, <1>2, <1>3 DEF CodeInv, Drawn
<1>4. CASE stage \in {"drawn", "reading"} /\ stage' \in {"reading", "read", "unread"}
  BY <1>1, <1>2, <1>4 DEF CodeInv, Drawn
<1>5. CASE stage = "fitting" /\ fitted = Count /\ stage' \in {"drawn", "panicked"}
  BY <1>1, <1>2, <1>5 DEF CodeInv, Drawn
<1> QED
  BY <1>3, <1>4, <1>5

LEMMA CodeNextKeeps ==
  ASSUME CodeInv, [CodeNext]_codeVars
  PROVE  CodeInv'
<1> DEFINE Kept == UNCHANGED <<input, eccLevel, symbols, assigned, fitted>>
<1>1. CASE InitSymbols
  BY <1>1, InitKeeps
<1>2. CASE Fit
  BY <1>2, FitKeeps
<1>3. CASE Draw
  <2>1. Kept /\ stage = "fitting" /\ fitted = Count /\ stage' \in {"drawn", "panicked"}
    BY <1>3 DEF Draw
  <2> QED
    BY <2>1, KeptKeeps
<1>4. CASE Read
  <2>1. Kept /\ stage \in {"drawn", "reading"} /\ stage' \in {"reading", "read", "unread"}
    <3>1. CASE ReadPrimary
      BY <3>1 DEF ReadPrimary, Decoded
    <3>2. CASE ReadDocked
      BY <3>2 DEF ReadDocked, Decoded
    <3>3. CASE Join
      BY <3>3 DEF Join
    <3>4. CASE Damaged
      BY <3>4 DEF Damaged
    <3> QED
      BY <1>4, <3>1, <3>2, <3>3, <3>4 DEF Read
  <2> QED
    BY <2>1, KeptKeeps
<1>5. CASE UNCHANGED codeVars
  <2>1. Kept /\ stage' = stage
    BY <1>5 DEF codeVars, writerVars
  <2> QED
    BY <2>1, KeptKeeps
<1> QED
  BY <1>1, <1>2, <1>3, <1>4, <1>5 DEF CodeNext, WriteCode, Over

LEMMA CodeInvImplies ==
  ASSUME CodeInv
  PROVE  NeverWeaker
<1> SUFFICES ASSUME Drawn PROVE \A k \in DOMAIN symbols : KeepsLevel(k)
  BY DEF NeverWeaker, KeepsLevel
<1>1. Accepted /\ fitted = Count /\ \A k \in 0 .. fitted - 1 : KeepsLevel(k)
  BY DEF CodeInv
<1>2. DOMAIN symbols = 0 .. Count - 1
  BY <1>1 DEF Accepted, Arrayed, Families
<1> QED
  BY <1>1, <1>2

\* NeverWeaker: whatever the options, the layout of the symbols, the length of the
\* message and the share each symbol is given, the rates fitDataIntoSymbols chooses
\* leave every symbol the correction its level asks for and room for its payload,
\* also after updateSecondaryMetadataE has rewritten its tail.
THEOREM AlwaysNeverWeaker == CodeSpec => []NeverWeaker
<1>1. CodeInit => CodeInv
  BY DEF CodeInit, WriterInit, CodeInv, Drawn
<1>2. CodeInv /\ [CodeNext]_codeVars => CodeInv'
  BY CodeNextKeeps
<1>3. CodeInv => NeverWeaker
  BY CodeInvImplies
<1> QED
  BY <1>1, <1>2, <1>3, PTL DEF CodeSpec

=============================================================================
