------------------------------ MODULE SymbolWriter ------------------------------
(***************************************************************************)
(* The writer of a code of one or several symbols: the pipeline of         *)
(* encode.go and encoder_multi.go between the encoded message and the      *)
(* drawn code.  The bits of the message are not told apart: a symbol's     *)
(* payload is the stretch of the message it carries, then, read back from  *)
(* its flag bit, the bits of its own tail: which sides have a docked       *)
(* symbol, and the metadata of each.  Symbols count from 0, as in the      *)
(* code; a side is 0 top, 1 bottom, 2 left, 3 right.                       *)
(***************************************************************************)
EXTENDS SymbolLayout, FiniteSetsExt, SequencesExt

CONSTANTS Inputs,          \* what Encode is called with
          MaskPatterns,    \* the masks the penalties may favour
          MaxSymbolNumber  \* the places a code has; 61 in the code

ASSUME LimitAssumption == MaxSymbolNumber \in 1 .. Len(SymbolPos)
\* The types of the options, whatever their values.
ASSUME InputsAssumption ==
  Inputs \subseteq [colors : Int, iso : BOOLEAN, level : Int, opaque : BOOLEAN, length : Nat,
                    symbols : Seq([position : Int, version : Int \X Int, level : Int])]

VARIABLES
  input,      \* [colors, iso, level, opaque, symbols, length]: the options and the encoded bits
  stage,      \* how far Encode, then a read of its code, has come
  eccLevel,   \* encoder.eccLevel: it decides the default mode
  symbols,    \* encoder.symbols, with the options' position, version and level
  assigned,   \* bits of the message handed to symbols so far
  fitted,     \* the symbols fitDataIntoSymbols has filled
  mask,       \* the mask reference drawn
  partII      \* the metadata drawn in a primary that has any

writerVars == <<input, stage, eccLevel, symbols, assigned, fitted, mask, partII>>

Sides       == 0 .. 3
Count       == IF Len(input.symbols) <= 1 THEN 1 ELSE Len(input.symbols)   \* symbolNumber
Indices     == 0 .. Count - 1
Versions    == (1 .. 32) \X (1 .. 32)
Fitting     == <<0, 0>>   \* the version that asks for the smallest that fits
Levels      == 0 .. 10
PowersOfTwo == <<1, 2, 4, 8, 16>>
Bits(v, n)  == [k \in 1 .. n |-> (v \div PowersOfTwo[n - k + 1]) % 2]
NumberOf(bits) == FoldLeft(LAMBDA v, b : 2 * v + b, 0, bits)

Valid(in) ==
  /\ in.colors \in ColorCounts
  /\ in.iso => in.colors <= 8
  /\ Len(in.symbols) > 1 => in.colors <= 32
  /\ Len(in.symbols) <= 1 => in.level \in Levels
  /\ \A n \in DOMAIN in.symbols :
       /\ in.symbols[n].position \in 0 .. (IF Len(in.symbols) = 1 THEN 1 ELSE MaxSymbolNumber) - 1
       /\ in.symbols[n].version \in Versions \cup (IF Len(in.symbols) = 1 THEN {Fitting} ELSE {})
       /\ in.symbols[n].level \in Levels

-----------------------------------------------------------------------------
(* Capacities.                                                             *)

DefaultMode(colors, level) == colors = 8 /\ level \in {0, DefaultECCLevel}
Shape(in, level, version, primary) ==
  [version |-> version, colors |-> in.colors, iso |-> in.iso,
   default |-> primary /\ DefaultMode(in.colors, level), primary |-> primary]
ShapeOf(k) == Shape(input, eccLevel, symbols[k].version, k = 0)

NetCapacity(capacity, w) == (capacity \div w[2]) * (w[2] - w[1])

\* Mutant: a rate that leaves more room over wins.
OptimalLoose(capacity, length, w) ==
  LET Distance(p) == NetCapacity(capacity, p) - length
      rates == {p \in (3 .. 8) \X (4 .. 9) : p[1] < p[2] /\ Distance(p) \in 0 .. capacity - 1}
  IN IF rates = {} THEN w ELSE CHOOSE p \in rates : \A q \in rates : Distance(q) <= Distance(p)
\* The code rate that leaves the least room over, the first of equals.
Optimal(capacity, length, w) ==
  LET Distance(p) == NetCapacity(capacity, p) - length
      rates == {p \in (3 .. 8) \X (4 .. 9) : p[1] < p[2] /\ Distance(p) \in 0 .. capacity - 1}
      Rank(p) == 100 * Distance(p) + 10 * p[1] + p[2]
  IN IF rates = {} THEN w ELSE CHOOSE p \in rates : \A q \in rates : Rank(p) <= Rank(q)

SquareFits(in, level, v) ==
  NetCapacity(SymbolCapacity(Shape(in, level, <<v, v>>, TRUE)), Weights(level)) >= in.length + 5
SingleLevel(in) ==
  LET asked == IF in.level = 0 /\ in.symbols # <<>> THEN in.symbols[1].level ELSE in.level
  IN IF asked = 0 THEN DefaultECCLevel ELSE asked
\* The version of a primary alone, <<>> when no square one holds the message.
SingleVersion(in) ==
  IF in.symbols # <<>> /\ in.symbols[1].version # Fitting THEN in.symbols[1].version
  ELSE LET fitting == {v \in 1 .. 32 : SquareFits(in, SingleLevel(in), v)}
           smallest == CHOOSE v \in fitting : \A w \in fitting : v <= w
       IN IF fitting = {} THEN <<>> ELSE <<smallest, smallest>>

-----------------------------------------------------------------------------
(* initSymbols: the primary first, then every symbol behind its host.      *)

NoData == [from |-> 0, length |-> 0, tail |-> <<>>, pn |-> 0]
NewSymbol(option) ==
  [position |-> option.position, version |-> option.version, level |-> option.level,
   host |-> -1, docked |-> [d \in Sides |-> 0], metadata |-> <<>>,
   wcwr |-> Weights(option.level), data |-> NoData]
Swapped(f, a, b) == [f EXCEPT ![a] = f[b], ![b] = f[a]]
PrimaryFirst(f) ==
  LET primaries == {k \in DOMAIN f : f[k].position = 0}
  IN IF primaries = {} THEN f ELSE Swapped(f, 0, Min(primaries))

Beside(host, side) ==
  LET at == SymbolPos[host + 1]
  IN CASE side = 0 -> <<at[1], at[2] - 1>> [] side = 1 -> <<at[1], at[2] + 1>>
       [] side = 2 -> <<at[1] - 1, at[2]>> [] side = 3 -> <<at[1] + 1, at[2]>>
Opposite(side) == <<1, 0, 3, 2>>[side + 1]

Dock(st, host, side, k) ==
  [f |-> [Swapped([st.f EXCEPT ![host].docked[side] = st.assigned,
                               ![k].docked[Opposite(side)] = -1], k, st.assigned)
            EXCEPT ![st.assigned].host = host],
   assigned |-> st.assigned + 1]
\* A symbol that stands at a side of the host and has no host yet is docked there.
Turn(st, host, side, k) ==
  IF /\ k > host /\ st.f[k].host = -1
     /\ SymbolPos[st.f[k].position + 1] = Beside(st.f[host].position, side)
    THEN Dock(st, host, side, k) ELSE st
\* assignDockedSymbols: host after host, side after side, symbol after symbol,
\* until every symbol is docked.
Turns(last) == [n \in 1 .. 4 * last |-> <<(n - 1) \div last, ((n - 1) % last) + 1>>]
HostTurns(st, host, last) ==
  IF st.assigned > last THEN st
  ELSE FoldLeft(LAMBDA s, turn : Turn(s, host, turn[1], turn[2]), st, Turns(last))
Docked(f, last) ==
  FoldLeft(LAMBDA st, n : HostTurns(st, n - 1, last),
           [f |-> f, assigned |-> 1], [n \in 1 .. last |-> n]).f

SizesMatch(f) ==
  \A k \in DOMAIN f, side \in Sides :
    LET other == f[k].docked[side]
    IN other > 0 => IF side \in {0, 1} THEN f[k].version[1] = f[other].version[1]
                                       ELSE f[k].version[2] = f[other].version[2]

RateBits(w) == Bits(w[1] - 3, 3) \o Bits(w[2] - 4, 3)
\* setSecondaryMetadata
Metadata(f, k) ==
  LET host == f[f[k].host]
      axis == IF f[k].version[1] # host.version[1] THEN 1 ELSE 2
      ss == f[k].version # host.version
      se == f[k].level # 0 /\ f[k].level # host.level
      w == Weights(f[k].level)
  IN <<IF ss THEN 1 ELSE 0, IF se THEN 1 ELSE 0>>
     \o (IF ss THEN Bits(f[k].version[axis] - 1, 5) ELSE <<>>)
     \o (IF se THEN RateBits(w) ELSE <<>>)

Arranged(f) ==   \* <<>> for a configuration that is refused
  LET first == PrimaryFirst(f)
      docked == Docked(first, Count - 1)
  IN IF \/ first[0].position # 0
        \/ \E j, k \in DOMAIN f : j # k /\ f[j].position = f[k].position
        \/ \E k \in DOMAIN f \ {0} : docked[k].host = -1
        \/ ~SizesMatch(docked)
     THEN <<>>
     ELSE [k \in DOMAIN f |-> IF k = 0 THEN docked[0]
                              ELSE [docked[k] EXCEPT !.metadata = Metadata(docked, k)]]

InitSymbols ==
  /\ stage = "given"
  /\ LET single == Len(input.symbols) <= 1
         level == IF single THEN SingleLevel(input) ELSE input.symbols[1].level
         version == SingleVersion(input)
         f == IF single
                THEN IF version = <<>> THEN <<>>
                     ELSE [k \in Indices |-> NewSymbol([position |-> 0, version |-> version, level |-> level])]
                ELSE Arranged([k \in Indices |-> NewSymbol(input.symbols[k + 1])])
     IN /\ eccLevel' = level
        /\ IF ~Valid(input) \/ f = <<>>
             THEN stage' = "refused" /\ UNCHANGED symbols
             ELSE stage' = "fitting" /\ symbols' = f
  /\ UNCHANGED <<input, assigned, fitted, mask, partII>>

-----------------------------------------------------------------------------
(* fitDataIntoSymbols, one symbol at a time.                               *)

CapacityOf(k) == SymbolCapacity(ShapeOf(k))
NetOf(k)      == NetCapacity(CapacityOf(k), Weights(symbols[k].level))

NetTotal == FoldLeft(LAMBDA total, net : total + net, 0, [n \in 1 .. Count |-> NetOf(n - 1)])

\* The share of a symbol is computed in single precision and cut off: next to a
\* whole number it may come out on either side of it.  The longest share, 256
\* colours at side version 32, is off by less than one in Window.
Window == 32
Shares(k) ==
  LET total  == NetTotal
      exact  == (NetOf(k) * input.length) \div total
      over   == (NetOf(k) * input.length) % total
  IN IF k = Count - 1 THEN {input.length - assigned}
     ELSE {exact} \cup (IF over * Window < total /\ exact > 0 THEN {exact - 1} ELSE {})
                  \cup (IF (total - over) * Window < total THEN {exact + 1} ELSE {})

\* What the tail of symbol k says of its sides: its bit, unless the host is
\* there, and the metadata of the symbol docked to it.
SideBit(f, k, side) ==
  IF f[k].docked[side] = -1 THEN <<>> ELSE <<IF f[k].docked[side] > 0 THEN 1 ELSE 0>>
DockedAt(f, k, side) ==
  IF f[k].docked[side] > 0 THEN f[f[k].docked[side]].metadata ELSE <<>>
SideBits(f, k)   == SideBit(f, k, 0) \o SideBit(f, k, 1) \o SideBit(f, k, 2) \o SideBit(f, k, 3)
DockedBits(f, k) == DockedAt(f, k, 0) \o DockedAt(f, k, 1) \o DockedAt(f, k, 2) \o DockedAt(f, k, 3)
PayloadLength(f, k, share) ==
  share + 1 + (IF k = 0 THEN 4 ELSE 3)
    + Len(DockedAt(f, k, 0)) + Len(DockedAt(f, k, 1)) + Len(DockedAt(f, k, 2)) + Len(DockedAt(f, k, 3))

\* addE2SecondaryMetadata, while there is room for the rate of a docked symbol.
WithRate(f, k, share, side) ==
  LET other == f[k].docked[side]
  IN IF other > 0 /\ NetOf(k) - PayloadLength(f, k, share) >= 6 /\ f[other].metadata[2] = 0
       THEN [f EXCEPT ![other].metadata = [@ EXCEPT ![2] = 1] \o RateBits(f[other].wcwr)]
       ELSE f
WithRates(k, share) ==
  WithRate(WithRate(WithRate(WithRate(symbols, k, share, 0), k, share, 1), k, share, 2), k, share, 3)

\* Mutant: the symbols docked before it are not skipped.
RateInHostFirst(f, k) ==
  1 + (IF f[k].host = 0 THEN 4 ELSE 3) + (IF f[k].metadata[1] = 1 THEN 7 ELSE 2)
\* updateSecondaryMetadataE: where in its host's tail a symbol's rate is.
RateInHost(f, k) ==
  LET host == f[k].host
      Earlier(side) ==
        IF \E d \in 0 .. side : f[host].docked[d] = k THEN 0 ELSE Len(DockedAt(f, host, side))
  IN 1 + (IF host = 0 THEN 4 ELSE 3)
     + Earlier(0) + Earlier(1) + Earlier(2) + Earlier(3)
     + (IF f[k].metadata[1] = 1 THEN 7 ELSE 2)
RateRewritten(f, k) ==
  LET tail == f[f[k].host].data.tail
      at   == RateInHost(f, k)
      rate == RateBits(f[k].wcwr)
  IN [f EXCEPT ![f[k].host].data.tail =
        [n \in DOMAIN tail |-> IF n \in at .. at + 5 THEN rate[n - at + 1] ELSE tail[n]]]

Fitted(k, share) ==
  LET f == WithRates(k, share)
      chooses == IF k = 0 THEN ~DefaultMode(input.colors, eccLevel) /\ ~input.opaque
                          ELSE f[k].metadata[2] = 1
      w == IF chooses THEN Optimal(CapacityOf(k), PayloadLength(f, k, share), Weights(f[k].level))
                      ELSE Weights(f[k].level)
      g == [f EXCEPT ![k].wcwr = w,
                     ![k].data = [from |-> assigned, length |-> share,
                                  tail |-> SideBits(f, k) \o DockedBits(f, k),
                                  pn |-> NetCapacity(CapacityOf(k), w)]]
  IN IF k > 0 /\ chooses THEN RateRewritten(g, k) ELSE g

Fit ==
  /\ stage = "fitting" /\ fitted < Count
  /\ \E share \in Shares(fitted) :
       IF PayloadLength(symbols, fitted, share) > NetOf(fitted)
         THEN stage' = "refused" /\ UNCHANGED <<symbols, assigned, fitted>>
         ELSE /\ symbols' = Fitted(fitted, share)
              /\ assigned' = assigned + share
              /\ fitted' = fitted + 1
              /\ UNCHANGED stage
  /\ UNCHANGED <<input, eccLevel, mask, partII>>

-----------------------------------------------------------------------------
(* The drawing: matrices, mask, and the place of each symbol in the code.  *)

PosOf(k)  == SymbolPos[symbols[k].position + 1]
SizeOf(k) == SideSize(ShapeOf(k))
\* The breadth of a column (axis 1) or row (axis 2): its first symbol's.
Breadth(axis, at) ==
  LET there == {k \in DOMAIN symbols : PosOf(k)[axis] = at}
  IN IF there = {} THEN 0 ELSE SizeOf(Min(there))[axis]
Low(axis)  == Min({PosOf(k)[axis] : k \in DOMAIN symbols})
High(axis) == Max({PosOf(k)[axis] : k \in DOMAIN symbols})
Before(axis, at) == FoldFunction(+, 0, [c \in Low(axis) .. at - 1 |-> Breadth(axis, c)])
CodeSize(axis)   == Before(axis, High(axis) + 1)
Origin(k)         == <<Before(1, PosOf(k)[1]), Before(2, PosOf(k)[2])>>

\* The masks are tried in a buffer of the code's size, row after row.
LeavesBuffer(k) ==
  (Origin(k)[2] + SizeOf(k)[2] - 1) * CodeSize(1) + Origin(k)[1] + SizeOf(k)[1] > CodeSize(1) * CodeSize(2)

PartIIOf(version, w, m) == [version |-> version, wcwr |-> w, mask |-> m]

Draw ==
  /\ stage = "fitting" /\ fitted = Count
  /\ IF DefaultMode(input.colors, eccLevel)
       THEN stage' = "drawn" /\ mask' = DefaultMaskingReference /\ UNCHANGED partII
       ELSE \/ /\ \A k \in DOMAIN symbols : ~LeavesBuffer(k)
               /\ \E m \in MaskPatterns :
                    mask' = m /\ partII' = PartIIOf(symbols[0].version, symbols[0].wcwr, m)
               /\ stage' = "drawn"
            \/ /\ \E k \in DOMAIN symbols : LeavesBuffer(k)
               /\ stage' = "panicked"
               /\ UNCHANGED <<mask, partII>>
  /\ UNCHANGED <<input, eccLevel, symbols, assigned, fitted>>

NoMetadata == [version |-> <<0, 0>>, wcwr |-> <<0, 0>>, mask |-> 0]
WriterInit ==
  /\ input \in Inputs
  /\ stage = "given" /\ eccLevel = 0 /\ symbols = <<>> /\ assigned = 0 /\ fitted = 0
  /\ mask = 0 /\ partII = NoMetadata
=============================================================================
