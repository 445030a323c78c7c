------------------------------ MODULE MCStream ------------------------------
(***************************************************************************)
(* Fourteen bits, of which LDPC corrects one; under the ISO route two      *)
(* plain codes far apart, one in three bits of the first, and a docked     *)
(* one; one code of the current C reference and one historical.            *)
(* A large frame has two levels, a small one only itself.                  *)
(***************************************************************************)
EXTENDS Stream

SomeBits == 1 .. 14
SixCodes == {"A", "B", "D", "E", "C", "H"}
Words == [c \in SixCodes |-> CASE c = "B" -> SomeBits [] c = "D" -> 4 .. 9
                               [] c = "E" -> 1 .. 3 [] OTHER -> {}]
Wires == [c \in SixCodes |-> CASE c = "C" -> 1 [] c = "H" -> 2 [] OTHER -> 0]
Families == (0 :> "current") @@ (1 :> "current") @@ (2 :> "bsi")

Level(c, size) == [i \in SomeBits |-> IF i \in Words[c] THEN -size ELSE size]
Masked(ev, dark) == [i \in SomeBits |-> IF i \in dark THEN 0 ELSE ev[i]]

Sight(c, ev, clear, pos, fix) ==
  [plausible |-> {Wires[c]}, clear |-> clear, ev |-> ev, layout |-> 1,
   pos |-> pos, fix |-> fix]
Plain(c, pos) == Sight(c, IF c \in {"C", "H"} THEN NoEvidence ELSE Level(c, 4), TRUE, pos, 2)

Large(c, coarse, fine) ==
  [sides |-> <<4, 8>>, code |-> c, view |-> <<coarse, fine>>, enlarged |-> Blank]
Small(c, s, enlarged) ==
  [sides |-> <<3>>, code |-> c, view |-> <<s>>, enlarged |-> enlarged]

Half(dark) == Sight("A", Masked(Level("A", 4), dark), FALSE, 1, 1)
Half1 == Large("A", Half(1 .. 7), Half(1 .. 7))
Half2 == Large("A", Half({13, 14}), Half({13, 14}))
Faint == Large("B", Sight("B", Level("B", 1), TRUE, 0, 1), Blank)

Glint == LET s == Sight("A", [i \in SomeBits |-> IF i \in {1, 6, 9, 12} THEN -4 ELSE 4], FALSE, 2, 2)
         IN  Large("A", s, s)
Misread == LET s == [Half({5}) EXCEPT !.layout = 2] IN Large("A", s, Blank)

\* A docked primary too dim to decode alone, between the two places.
DimD == Large("D", Blank, Sight("D", Level("D", 2), FALSE, 2, 2))

\* The code alike the first, at its place: dimmer where they differ, but sharp.
DimE == Large("E", Sight("E", [i \in SomeBits |-> IF i \in Words["E"] THEN -2 ELSE 4],
                         TRUE, 1, 2), Blank)

Halves == {Half1, Half2}

SomeFrames ==
  {Large("A", Plain("A", 1), Plain("A", 1)),
   Large("B", Plain("B", 1), Plain("B", 1)),
   Large("D", Blank, Plain("D", 3)),
   Large("C", Plain("C", 1), Plain("C", 1)),
   Large("H", Plain("H", 1), Blank),
   Large(NoCode, Blank, Blank),
   Small("A", Blank, Plain("A", 1)),
   Small("A", Plain("A", 1), Blank),
   Half1, Half2, Faint, Glint, Misread, DimD, DimE}

=============================================================================
