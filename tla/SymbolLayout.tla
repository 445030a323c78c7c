------------------------------ MODULE SymbolLayout ------------------------------
(***************************************************************************)
(* Which module of a symbol carries what, as the writer places it          *)
(* (encode/matrix.go, encode.go, nondefault.go) and as the reader looks    *)
(* for it (decode/decsym.go, paldecode.go, decoder_secondary.go).  A shape *)
(* is a record: version, colors, iso, default (mode) and primary.          *)
(***************************************************************************)
EXTENDS Integers, Sequences, FiniteSets, TLC

-----------------------------------------------------------------------------
(* Tables and arithmetic of the standard that writer and reader share      *)
(* (internal/spec, internal/tables), for the current family of formats.    *)

Lesser(a, b) == IF a < b THEN a ELSE b

VersionToSize(v) == v * 4 + 17

ColorCounts  == {4, 8, 16, 32, 64, 128, 256}
Log2Int(n)   == CHOOSE k \in 2 .. 8 : <<2, 4, 8, 16, 32, 64, 128, 256>>[k] = n
Nc(colors)   == Log2Int(colors) - 1

DefaultECCLevel == 3
DefaultMaskingReference == 7
ECCWeights ==     \* by level, from 0: wc and wr
  <<<<4, 9>>, <<3, 8>>, <<3, 7>>, <<4, 9>>, <<3, 6>>, <<4, 7>>, <<4, 6>>, <<3, 4>>,
    <<4, 5>>, <<5, 6>>, <<6, 7>>>>
Weights(level) == ECCWeights[level + 1]

DistanceToBorder == 4
PartIModules     == 4
PartIIBits       == 38
PaletteSlots     == 64

PaletteCopies(colors)       == IF colors <= 8 THEN 4 ELSE 2
PaletteFinderColors(colors) == IF colors <= 8 THEN 2 ELSE 0

-----------------------------------------------------------------------------
(* Where things are.                                                       *)

APNum == <<2, 2, 2, 2, 2, 3, 3, 3, 3, 4, 4, 4, 4, 5, 5, 5, 5, 6, 6, 6, 6, 7, 7, 7, 7,
           8, 8, 8, 8, 9, 9, 9>>
APPos ==
  <<<<4, 18>>, <<4, 22>>, <<4, 26>>, <<4, 30>>, <<4, 34>>,
    <<4, 17, 38>>, <<4, 20, 42>>, <<4, 23, 46>>, <<4, 26, 50>>,
    <<4, 14, 32, 54>>, <<4, 17, 39, 58>>, <<4, 20, 46, 62>>, <<4, 23, 44, 66>>,
    <<4, 26, 37, 51, 70>>, <<4, 14, 36, 58, 74>>, <<4, 17, 39, 56, 78>>, <<4, 20, 42, 63, 82>>,
    <<4, 23, 38, 54, 70, 86>>, <<4, 26, 38, 56, 77, 90>>, <<4, 14, 33, 53, 72, 94>>,
    <<4, 17, 38, 59, 79, 98>>,
    <<4, 20, 36, 53, 70, 86, 102>>, <<4, 23, 36, 55, 74, 93, 106>>,
    <<4, 26, 36, 58, 79, 100, 110>>, <<4, 14, 36, 58, 80, 92, 114>>,
    <<4, 17, 34, 52, 70, 88, 99, 118>>, <<4, 20, 37, 54, 72, 89, 106, 122>>,
    <<4, 23, 38, 56, 74, 92, 113, 126>>, <<4, 26, 36, 58, 78, 98, 120, 130>>,
    <<4, 14, 32, 49, 67, 84, 102, 112, 134>>, <<4, 17, 35, 53, 71, 89, 107, 119, 138>>,
    <<4, 20, 38, 55, 73, 91, 108, 126, 142>>>>

\* NextMetadataModuleInPrimary: the metadata and palette modules of a primary go
\* round its four corners; four flips bring them back, then they move on.
Between(n, a, b) == a <= n /\ n <= b
Stepped(count, at) ==
  IF \/ count <= 20 \/ Between(count, 44, 68)
     \/ Between(count, 96, 124) \/ Between(count, 156, 172) THEN <<at[1], at[2] + 1>>
  ELSE IF Between(count, 21, 43) \/ Between(count, 69, 95) \/ Between(count, 125, 155)
    THEN <<at[1] - 1, at[2]>> ELSE at
Turned(count, at) == IF count \in {44, 96, 156} THEN <<at[2], at[1]>> ELSE at
Rounds(from, to, at) ==
  LET first[r \in from .. to] ==
        IF r = from THEN at ELSE Turned(4 * r, Stepped(4 * r, first[r - 1]))
  IN [r \in from .. to |-> first[r]]
FirstRounds  == <<>> @@ Rounds(0, 20, <<6, 1>>)
FirstOfRound == FirstRounds @@ Rounds(20, 45, FirstRounds[20])
Round(size, at) ==
  <<at, <<size[1] - 1 - at[1], at[2]>>,
    <<size[1] - 1 - at[1], size[2] - 1 - at[2]>>, <<at[1], size[2] - 1 - at[2]>>>>

\* The first 32 palette modules of a secondary, up and down four columns.
SecondaryPalettePosition ==
  [i \in 1 .. 32 |->
     LET column == (i - 1) \div 8   row == (i - 1) % 8
     IN <<4 + column, IF column % 2 = 0 THEN 5 + row ELSE 12 - row>>]

\* The places of a code's symbols, ring by ring around the primary.
Ring(r) ==
  LET pairs(sign) == [k \in 1 .. 2 * (r - 1) |->
                        LET d == (k + 1) \div 2
                        IN <<IF k % 2 = 1 THEN -d ELSE d, sign * (r - d)>>]
  IN <<<<0, -r>>>> \o pairs(-1) \o <<<<0, r>>>> \o pairs(1) \o <<<<-r, 0>>, <<r, 0>>>>
SymbolPos == <<<<0, 0>>>> \o Ring(1) \o Ring(2) \o Ring(3) \o Ring(4) \o Ring(5)

-----------------------------------------------------------------------------
(* Which colour is where.  iso tells the ISO variants from the C reference. *)

FPCoreColor(fp, nc, iso) ==
  IF fp < 2 THEN 0
  ELSE IF iso /\ nc = 1 THEN IF fp = 2 THEN 3 ELSE 1
  ELSE IF fp = 2 THEN <<0, 2, 6, 14, 30, 60, 124, 252>>[nc + 1]
                 ELSE <<0, 3, 3, 3, 7, 15, 15, 31>>[nc + 1]
APNCoreColor(nc, iso) == FPCoreColor(3, nc, iso)
APXCoreColor(nc, iso) == FPCoreColor(2, nc, iso)

PrimaryPalettePlacement(copy, i, colors, iso) ==
  LET four  == <<<<0, 1, 2, 3>>, <<0, 3, 2, 1>>, <<3, 0, 2, 1>>, <<1, 0, 2, 3>>>>
      eight == <<<<0, 3, 5, 6, 1, 2, 4, 7>>, <<0, 6, 5, 3, 1, 2, 4, 7>>,
                 <<6, 0, 5, 3, 1, 2, 4, 7>>, <<3, 0, 5, 6, 1, 2, 4, 7>>>>
  IN IF iso /\ colors = 4 /\ i < 4 THEN four[copy + 1][i + 1]
     ELSE IF i < 8 THEN eight[copy + 1][i + 1] ELSE i
SecondaryPalettePlacement(i, colors, iso) ==
  IF iso /\ colors = 4 /\ i < 4 THEN <<1, 3, 2, 0>>[i + 1]
  ELSE IF i < 8 THEN <<3, 6, 5, 0, 1, 2, 4, 7>>[i + 1] ELSE i

-----------------------------------------------------------------------------
(* Shapes.                                                                 *)

SideSize(s) == <<VersionToSize(s.version[1]), VersionToSize(s.version[2])>>
Bpm(s)      == Log2Int(s.colors)
FirstSlot(s) == PaletteFinderColors(s.colors)
Slots(s)    == FirstSlot(s) .. Lesser(s.colors, PaletteSlots) - 1
Copies(s)   == 0 .. PaletteCopies(s.colors) - 1
CeilDiv(a, b) == (a + b - 1) \div b
PartIIModules(s) == CeilDiv(PartIIBits, Bpm(s))

Shifted(at, offsets) == {<<at[1] + d[1], at[2] + d[2]>> : d \in offsets}
Upright(offsets, up) == {<<d[1], IF up THEN d[2] ELSE -d[2]>> : d \in offsets}

\* The alignment patterns of a symbol; those at its corners are finders.
PatternAt(s, x, y) ==
  <<APPos[s.version[1]][x + 1] - 1, APPos[s.version[2]][y + 1] - 1>>
Across(s) == 0 .. APNum[s.version[1]] - 1
Down(s)   == 0 .. APNum[s.version[2]] - 1
IsCorner(s, x, y) ==
  x \in {0, APNum[s.version[1]] - 1} /\ y \in {0, APNum[s.version[2]] - 1}

-----------------------------------------------------------------------------
(* The writer.                                                             *)

Cross == {<<0, 0>>, <<-1, 0>>, <<1, 0>>, <<0, -1>>, <<0, 1>>}
PlacedAlignment(s) ==
  UNION {Shifted(PatternAt(s, p[1], p[2]),
                 Cross \cup Upright({<<-1, -1>>, <<1, 1>>}, (p[1] + p[2]) % 2 = 0))
           : p \in {q \in Across(s) \X Down(s) : ~IsCorner(s, q[1], q[2])}}

\* Corners in the order of the finders: 0, 1 on top, 2, 3 below, clockwise.
CornerAt(s, fp) ==
  LET size == SideSize(s)
  IN <<IF fp \in {0, 3} THEN DistanceToBorder - 1 ELSE size[1] - DistanceToBorder,
       IF fp \in {0, 1} THEN DistanceToBorder - 1 ELSE size[2] - DistanceToBorder>>
FinderLayer(s, fp, k) ==
  LET offsets == {d \in (0 .. k) \X (0 .. k) : d[1] = k \/ d[2] = k}
      both    == offsets \cup {<<-d[1], -d[2]>> : d \in offsets}
  IN Shifted(CornerAt(s, fp), Upright(both, fp \in {0, 1}))
Layers(s) == 0 .. (IF s.primary THEN 2 ELSE 1)
LayerColor(s, fp, k) ==
  IF s.primary THEN FPCoreColor(IF k % 2 = 1 THEN 3 - fp ELSE fp, Nc(s.colors), s.iso)
  ELSE IF k % 2 = 1 THEN APXCoreColor(Nc(s.colors), s.iso) ELSE APNCoreColor(Nc(s.colors), s.iso)
PlacedFinders(s) == UNION {FinderLayer(s, fp, k) : fp \in 0 .. 3, k \in Layers(s)}

\* The colours a palette of more than 64 embeds: blocks of its colour cube.
ColorPaletteIndex(slot, colors) ==
  IF colors = 128 THEN <<0, 32, 80, 112>>[slot \div 16 + 1] + (slot % 16)
  ELSE IF colors = 256
    THEN <<0, 8, 20, 28, 64, 72, 84, 92, 160, 168, 180, 188, 224, 232, 244, 252>>[slot \div 4 + 1]
         + (slot % 4)
  ELSE slot
Placement(s, copy, slot) ==
  (IF s.primary THEN PrimaryPalettePlacement(copy, slot, s.colors, s.iso)
                ELSE SecondaryPalettePlacement(slot, s.colors, s.iso)) % s.colors
PlacedColor(s, copy, slot) == ColorPaletteIndex(Placement(s, copy, slot), s.colors)

\* The way of a primary's metadata and palette, module by module, and what is
\* placed along it.
PartI(s)  == IF s.default THEN <<>> ELSE [k \in 1 .. PartIModules |-> <<"part I", k>>]
PartII(s) == IF s.default THEN <<>> ELSE [k \in 1 .. PartIIModules(s) |-> <<"part II", k>>]
PaletteOrder(s) ==
  LET copies == PaletteCopies(s.colors)
  IN [k \in 1 .. Cardinality(Slots(s)) * copies |->
        <<(k - 1) % copies, FirstSlot(s) + (k - 1) \div copies>>]
PlacedPalette(s) ==
  LET order == PaletteOrder(s)
  IN [k \in DOMAIN order |-> <<"colour", PlacedColor(s, order[k][1], order[k][2])>>]
Placements(s) == IF s.primary THEN PartI(s) \o PlacedPalette(s) \o PartII(s) ELSE PlacedPalette(s)

\* Mutant: the second turn around a secondary is the first one's mirror.
RotatedMirrored(s, copy, at) ==
  LET w == SideSize(s)[1]   h == SideSize(s)[2]
  IN <<at, <<w - 1 - at[1], at[2]>>, <<w - 1 - at[1], h - 1 - at[2]>>, <<at[2], h - 1 - at[1]>>>>[copy + 1]
\* A secondary's palettes, one turn of the symbol for each copy.
Rotated(s, copy, at) ==
  LET w == SideSize(s)[1]   h == SideSize(s)[2]
  IN <<at, <<w - 1 - at[2], at[1]>>, <<w - 1 - at[1], h - 1 - at[2]>>, <<at[2], h - 1 - at[1]>>>>[copy + 1]
SecondaryModule(s, copy, slot) ==
  Rotated(s, copy, SecondaryPalettePosition[slot - FirstSlot(s) + 1])

PrimaryWay(s, length) ==
  [n \in 1 .. length |-> Round(SideSize(s), FirstOfRound[(n - 1) \div 4])[((n - 1) % 4) + 1]]
SecondaryWay(s) ==
  LET order == PaletteOrder(s)
  IN [n \in DOMAIN order |-> SecondaryModule(s, order[n][1], order[n][2])]
Way(s) == IF s.primary THEN PrimaryWay(s, Len(Placements(s))) ELSE SecondaryWay(s)

\* placePrimaryMetadataPartII goes the way again, to behind the palette.
Renewed(s) ==
  LET offset == PartIModules
                + (Lesser(s.colors, PaletteSlots) - PaletteFinderColors(s.colors)) * PaletteCopies(s.colors)
  IN [k \in 1 .. PartIIModules(s) |-> offset + k]

\* The number of data bits the writer counts on.
MetadataLength(s) == IF s.default THEN 0 ELSE PartIModules + CeilDiv(PartIIBits, Bpm(s))
SymbolCapacity(s) ==
  LET nbFinder  == IF s.primary THEN 4 * 17 ELSE 4 * 7
      nbPalette == (Lesser(s.colors, 64) - PaletteFinderColors(s.colors)) * PaletteCopies(s.colors)
      nbAlign   == (APNum[s.version[1]] * APNum[s.version[2]] - 4) * 7
      nbMeta    == IF s.primary THEN MetadataLength(s) ELSE 0
  IN (SideSize(s)[1] * SideSize(s)[2] - nbFinder - nbAlign - nbPalette - nbMeta) * Bpm(s)

-----------------------------------------------------------------------------
(* The reader.                                                             *)

\* fillDataMap: finders and alignment patterns by the place they have.
Diagonal == {<<-1, -1>>, <<1, 1>>}
FinderRim == LET half == {<<-2, -2>>, <<-1, -2>>, <<0, -2>>, <<-2, -1>>, <<-2, 0>>}
             IN half \cup {<<-d[1], -d[2]>> : d \in half}
PatternMap(s, x, y) ==
  LET finder == IF s.primary THEN Diagonal \cup FinderRim ELSE Diagonal
  IN Cross \cup
     (IF IsCorner(s, x, y) THEN Upright(finder, y = 0)
      ELSE Upright(Diagonal, x % 2 = y % 2))
PatternModules(s) ==
  UNION {Shifted(PatternAt(s, p[1], p[2]), PatternMap(s, p[1], p[2])) : p \in Across(s) \X Down(s)}

\* The modules of the first two colours, in the finders of each corner.
PalettePosInFP(s, copy) ==
  LET at == CornerAt(s, copy)
  IN <<at, <<IF copy \in {0, 3} THEN at[1] + 1 ELSE at[1] - 1, at[2]>>>>

\* interpolatePalette moves what was read apart, to its place in the cube.
Block(slot, size) == slot \div size
Spread(slot, colors) ==
  IF colors = 128 THEN <<0, 2, 5, 7>>[Block(slot, 16) + 1] * 16 + (slot % 16)
  ELSE IF colors = 256
    THEN <<0, 64, 160, 224>>[Block(slot, 16) + 1] + <<0, 8, 20, 28>>[Block((slot % 16), 4) + 1]
         + (slot % 4)
  ELSE slot

\* What the reader takes for which colour: the palette of every copy.
PaletteStart(s) == IF s.default THEN 0 ELSE PartIModules
ReadModule(s, way, copy, slot) ==
  IF s.primary
    THEN way[PaletteStart(s) + (slot - FirstSlot(s)) * PaletteCopies(s.colors) + copy + 1]
    ELSE SecondaryModule(s, copy, slot)

-----------------------------------------------------------------------------
(* A symbol's layout, both ways: computed once for every shape.            *)

\* What stands at a place of the way: what was placed there last.
WayContent(placed, way, at) ==
  placed[CHOOSE n \in DOMAIN way : way[n] = at /\ \A m \in DOMAIN way : way[m] = at => m <= n]
LayerThere(s, at) == CHOOSE l \in (0 .. 3) \X Layers(s) : at \in FinderLayer(s, l[1], l[2])
FinderContent(s, layer) == <<"colour", LayerColor(s, layer[1], layer[2])>>
ContentAt(s, placed, way, at) ==
  IF \E n \in DOMAIN way : way[n] = at THEN WayContent(placed, way, at)
  ELSE FinderContent(s, LayerThere(s, at))
Shows(s, content, copy, slot) ==
  content = <<"colour", Spread(Placement(s, copy, slot), s.colors)>>

SamePalette(s, placed, way) ==
  /\ \A slot \in Slots(s), copy \in Copies(s) :
       Shows(s, ContentAt(s, placed, way, ReadModule(s, way, copy, slot)), copy, slot)
  /\ PaletteFinderColors(s.colors) > 0 =>
       \A copy \in Copies(s), slot \in 0 .. 1 :
         Shows(s, ContentAt(s, placed, way, PalettePosInFP(s, copy)[slot + 1]), copy, slot)
SameMetadata(s, placed, way) ==
  s.primary => \A k \in DOMAIN PartI(s) : WayContent(placed, way, way[k]) = <<"part I", k>>
SameRenewed(s, placed, way, renewed) ==
  s.primary => \A k \in DOMAIN PartII(s) :
                 renewed[k] \in DOMAIN way /\ WayContent(placed, way, way[renewed[k]]) = <<"part II", k>>
\* Colours no Part I has stand where it would be.
NoPartI(content) == content[1] = "colour" /\ content[2] \notin {0, 3, 6}
TakenForDefault(s, placed, way) ==
  s.primary /\ \E k \in 1 .. PartIModules : NoPartI(WayContent(placed, way, way[k]))

Compared(s, placed, way, written, read) ==
  [dataModules |-> SideSize(s)[1] * SideSize(s)[2] - Cardinality(written),
   inside      |-> \A at \in written : /\ at[1] \in 0 .. SideSize(s)[1] - 1
                                       /\ at[2] \in 0 .. SideSize(s)[2] - 1,
   sameModules |-> written = read,
   samePalette |-> SamePalette(s, placed, way),
   sameMetadata |-> SameMetadata(s, placed, way),
   sameRenewed  |-> SameRenewed(s, placed, way, Renewed(s)),
   takenForDefault |-> TakenForDefault(s, placed, way)]
Along(s, placed, way, palette) ==
  Compared(s, placed, way, PlacedAlignment(s) \cup PlacedFinders(s) \cup palette,
           PatternModules(s) \cup palette)
Laid(s, placed, way) == Along(s, placed, way, {way[n] : n \in DOMAIN way})
LayoutOf(s) == Laid(s, SubSeq(Placements(s), 1, Len(Placements(s))), SubSeq(Way(s), 1, Len(Placements(s))))
=============================================================================
