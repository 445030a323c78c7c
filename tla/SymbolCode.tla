------------------------------- MODULE SymbolCode -------------------------------
(***************************************************************************)
(* A code written and read back: the writer (SymbolWriter), the drawn      *)
(* code, and the reader (SymbolReader).                                    *)
(***************************************************************************)
EXTENDS SymbolReader

codeVars == <<writerVars, readerVars>>

CodeInit == WriterInit /\ ReaderInit

WriteCode == (InitSymbols \/ Fit \/ Draw) /\ UNCHANGED readerVars
Read  == ReadPrimary \/ ReadDocked \/ Join \/ Damaged
Over  == stage \in {"refused", "panicked", "unread", "read"} /\ UNCHANGED codeVars
CodeNext  == WriteCode \/ Read \/ Over
CodeSpec  == CodeInit /\ [][CodeNext]_codeVars

-----------------------------------------------------------------------------
(* Properties.                                                             *)

Drawn == stage \in {"drawn", "reading", "read", "unread"}

\* Every symbol but the primary is docked where it stands to the symbol beside
\* it: assignDockedSymbols "pairs each secondary symbol with the host it docks to".
EachHasItsHost ==
  Drawn => \A k \in DOMAIN symbols \ {0} :
             \E side \in Sides :
               /\ symbols[symbols[k].host].docked[side] = k
               /\ PosOf(k) = Beside(symbols[symbols[k].host].position, side)

\* The bits a read hands on are the encoded message: the stretches of the
\* symbols, in the order the walk found them, with the metadata cut off, follow
\* on one another from the first bit to the last.  The writer numbers symbols
\* by its docking loops and the reader by its own walk (docked.go).  Where a
\* symbol has no host but itself (see above) the read ends before it.
MessageIsWhole ==
  stage = "read" /\ EachHasItsHost =>
    /\ Len(message) = Count
    /\ \A n \in DOMAIN message :
         message[n].from = FoldFunction(+, 0, [m \in 1 .. n - 1 |-> message[m].length])
    /\ FoldFunction(+, 0, [m \in DOMAIN message |-> message[m].length]) = input.length

\* Why an undamaged code may still not be read.
WrongMode  == /\ DefaultMode(input.colors, eccLevel)
              /\ Weights(symbols[0].level) # Weights(DefaultECCLevel)
OtherRate  == \E k \in DOMAIN symbols \ {0} :
                symbols[k].metadata[2] = 0 /\ symbols[k].wcwr # symbols[symbols[k].host].wcwr
Uneven     == \E k \in DOMAIN symbols : ~StandsWhole(k) \/ Breadth(1, PosOf(k)[1]) # SizeOf(k)[1]
                                                  \/ Breadth(2, PosOf(k)[2]) # SizeOf(k)[2]
\* From 16 colours on, in symbols this wide or high, palette modules of a docked
\* symbol lie on an alignment pattern.
PaletteCovered(k) ==
  /\ k > 0 /\ input.colors > 8
  /\ symbols[k].version[1] = 29 \/ symbols[k].version[2] \in {10, 15, 20, 25, 30}
HighColour == \E k \in DOMAIN symbols : PaletteCovered(k)
\* A code that was not damaged is read, but for four reasons, each a place
\* where the writer draws what no reader can know: the mode taken from a symbol
\* that is not the primary (encoder_multi.go:26), a rate said to be the host's
\* that is not (229), symbols of a column or row of unequal size (411), and
\* the covered palettes (encode.go:210).
UndamagedIsRead ==
  stage = "unread" /\ ~damaged => WrongMode \/ OtherRate \/ Uneven \/ HighColour

\* No symbol gets a weaker correction than the level it was asked for, however
\* the rates are chosen and its host's data rewritten.
NeverWeaker ==
  Drawn => \A k \in DOMAIN symbols :
             /\ symbols[k].data.pn <= NetOf(k)
             /\ symbols[k].data.pn >= PayloadLength(symbols, k, symbols[k].data.length)

\* For every symbol written, the reader looks for palette, metadata and data in
\* the modules the writer put them in, and the writer counted the data modules
\* right; docked symbols with a covered palette are left out (see above).
LayoutsAgree ==
  Drawn => \A k \in DOMAIN symbols :
             LET layout == Layouts[ShapeOf(k)]
             IN ~PaletteCovered(k) =>
                  /\ layout.inside /\ layout.sameModules /\ layout.samePalette
                  /\ layout.sameMetadata /\ layout.sameRenewed
                  /\ layout.takenForDefault = ShapeOf(k).default
                  /\ layout.dataModules * Bpm(ShapeOf(k)) = CapacityOf(k)

\* A configuration is refused or drawn, every symbol of it whole; "This checks
\* that invalid docked layouts return an error instead of a broken code".
RefusedOrWhole ==
  /\ stage # "panicked"
  /\ Drawn => \A k \in DOMAIN symbols : StandsWhole(k)
=============================================================================
