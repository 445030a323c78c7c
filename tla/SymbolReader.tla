------------------------------ MODULE SymbolReader ------------------------------
(***************************************************************************)
(* The read of a drawn code: the primary's metadata, each symbol's         *)
(* correction, the stream behind its flag bit, and the walk over docked    *)
(* symbols (decode/decsym.go, observe.go, decoder_secondary.go and         *)
(* read/docked.go).  Where a symbol's correction is asked for with what    *)
(* it was written with, it succeeds unless the symbol was damaged.         *)
(***************************************************************************)
EXTENDS SymbolWriter

VARIABLES
  found,     \* the symbols read, in order: DecodedSymbol
  cursor,    \* the host and the side the walk has come to
  message,   \* the stretches of the message a finished read joins
  damaged    \* whether the code was damaged anywhere a read looked

readerVars == <<found, cursor, message, damaged>>

\* Every shape the writer may draw and its layout, computed once.
WrittenShapes ==
  UNION {IF Len(in.symbols) <= 1
           THEN IF SingleVersion(in) = <<>> THEN {}
                ELSE {Shape(in, SingleLevel(in), SingleVersion(in), TRUE)}
           ELSE {Shape(in, in.symbols[1].level, in.symbols[n].version, primary)
                   : n \in DOMAIN in.symbols, primary \in BOOLEAN}
         : in \in {i \in Inputs : Valid(i)}}
Layouts == [shape \in WrittenShapes |-> LayoutOf(shape)] @@ <<>>

\* What a reader makes of a symbol: Metadata, with the shape it takes it for.
Meta(version, w, m, default) == [version |-> version, wcwr |-> w, mask |-> m, default |-> default]

\* Part I is taken for missing when its modules show colours it never has.
ObservedMeta ==
  LET layout == Layouts[ShapeOf(0)]
  IN IF layout.takenForDefault
       THEN Meta(symbols[0].version, Weights(DefaultECCLevel), DefaultMaskingReference, TRUE)
       ELSE Meta(partII.version, partII.wcwr, partII.mask, FALSE)
Observable ==
  LET layout == Layouts[ShapeOf(0)]
  IN /\ layout.samePalette
     /\ IF layout.takenForDefault THEN input.colors = 8
                                  ELSE layout.sameMetadata /\ layout.sameRenewed

Pg(bits, w) == (bits \div w[2]) * w[2]
\* Symbol k, taken for what meta says, holds the code word that was written.
Matches(k, meta) ==
  LET layout == Layouts[ShapeOf(k)]
      raw == layout.dataModules * Bpm(ShapeOf(k))
  IN /\ layout.inside /\ layout.sameModules /\ layout.samePalette
     /\ meta.version = symbols[k].version
     /\ meta.default = ShapeOf(k).default
     /\ meta.mask = mask
     /\ meta.wcwr = symbols[k].wcwr
     /\ Pg(raw, meta.wcwr) > 0
     /\ Pg(raw, meta.wcwr) = Pg(CapacityOf(k), symbols[k].wcwr)

-----------------------------------------------------------------------------
(* decodeSymbolStream: back from the flag bit.                             *)

Bit(tail, n) == IF n \in DOMAIN tail THEN tail[n] ELSE 0   \* else a bit of the message

DockedVersion(host, side, ss, v) ==
  IF ss = 0 THEN host.version
  ELSE IF side \in {2, 3} THEN <<v + 1, host.version[2]>> ELSE <<host.version[1], v + 1>>
\* decodeSecondaryMetadata, from place at of the tail.
SecondaryMeta(host, side, tail, at) ==
  LET ss == Bit(tail, at)
      se == Bit(tail, at + 1)
      rateAt == at + 2 + 5 * ss
      Number(from, n) == NumberOf([k \in 1 .. n |-> Bit(tail, from + k - 1)])
      w == IF se = 0 THEN host.wcwr ELSE <<Number(rateAt, 3) + 3, Number(rateAt + 3, 3) + 4>>
  IN [meta |-> Meta(DockedVersion(host, side, ss, Number(at + 2, 5)), w, host.mask, FALSE),
      next |-> rateAt + 6 * se]

\* The stream of a symbol: which sides have a docked symbol and what that is
\* said to be, and how much is left as message; a bad rate spoils it.
Unpacked(k, meta, hostSide) ==
  LET data  == symbols[k].data
      asked == SelectSeq(<<0, 1, 2, 3>>, LAMBDA side : side # hostSide)
      bit   == [side \in Sides |->
                  IF side = hostSide THEN 0
                  ELSE Bit(data.tail, CHOOSE n \in DOMAIN asked : asked[n] = side)]
      Read(st, side) ==
        IF bit[side] = 0 THEN st
        ELSE LET one == SecondaryMeta(meta, side, data.tail, st.next)
             IN [metas |-> [st.metas EXCEPT ![side] = one.meta], next |-> one.next]
      read  == FoldLeft(Read, [metas |-> [side \in Sides |-> meta], next |-> Len(asked) + 1],
                        <<0, 1, 2, 3>>)
  IN [docked |-> bit, metas |-> read.metas,
      sound  |-> \A side \in Sides : bit[side] = 1 => read.metas[side].wcwr[1] < read.metas[side].wcwr[2],
      stretch |-> [from |-> data.from, length |-> data.length + Len(data.tail) - read.next + 1]]

\* Symbol k was read as meta; hostSide is the side its host is on.
WithFound(k, meta, hostSide) ==
  LET stream == Unpacked(k, meta, hostSide)
  IN [symbol |-> k, meta |-> meta, hostSide |-> hostSide,
      docked |-> stream.docked, metas |-> stream.metas, stretch |-> stream.stretch]

Decoded(k, meta, hostSide) ==
  IF Matches(k, meta) /\ Unpacked(k, meta, hostSide).sound
    THEN found' = Append(found, WithFound(k, meta, hostSide)) /\ stage' = "reading"
    ELSE stage' = "unread" /\ UNCHANGED found

-----------------------------------------------------------------------------
(* The steps of a read.                                                    *)

ReadPrimary ==
  /\ stage = "drawn"
  /\ IF Observable THEN Decoded(0, ObservedMeta, -1) ELSE stage' = "unread" /\ UNCHANGED found
  /\ UNCHANGED <<input, eccLevel, symbols, assigned, fitted, mask, partII, cursor, message, damaged>>

\* Every side of every symbol read so far, in the order the walk looks.
Later(at, here) == at[1] > here[1] \/ (at[1] = here[1] /\ at[2] > here[2])
Docks == {at \in (DOMAIN found) \X Sides : Later(at, cursor) /\ found[at[1]].docked[at[2]] = 1}
\* Mutant: the walk goes down the newest symbol first.
NextDockDeepest == CHOOSE at \in Docks : \A other \in Docks : other = at \/ Later(at, other)
NextDock == CHOOSE at \in Docks : \A other \in Docks : other = at \/ Later(other, at)

\* Where in the code a symbol docked to that side has to begin.
DockStart(host, side, size) ==
  LET s == Origin(host)   h == SizeOf(host)
  IN CASE side = 0 -> <<s[1], s[2] - size[2]>> [] side = 1 -> <<s[1], s[2] + h[2]>>
       [] side = 2 -> <<s[1] - size[1], s[2]>> [] side = 3 -> <<s[1] + h[1], s[2]>>
Overlap(j, k) ==
  \A axis \in 1 .. 2 : /\ Origin(j)[axis] < Origin(k)[axis] + SizeOf(k)[axis]
                       /\ Origin(k)[axis] < Origin(j)[axis] + SizeOf(j)[axis]
\* Symbol k stands in the drawn code as a whole.
StandsWhole(k) ==
  /\ \A axis \in 1 .. 2 : Origin(k)[axis] + SizeOf(k)[axis] <= CodeSize(axis)
  /\ \A j \in DOMAIN symbols : j > k => ~Overlap(j, k)
StandsAt(k, start, meta) == symbols[k].version = meta.version /\ Origin(k) = start

MetaOf(at) == found[at[1]].metas[at[2]]

ReadDocked ==
  /\ stage = "reading" /\ Docks # {} /\ Len(found) < MaxSymbolNumber
  /\ LET at    == NextDock
         meta  == MetaOf(at)
         size  == <<VersionToSize(meta.version[1]), VersionToSize(meta.version[2])>>
         start == DockStart(found[at[1]].symbol, at[2], size)
         there == {k \in DOMAIN symbols : StandsAt(k, start, meta)}
     IN /\ cursor' = at
        /\ \/ /\ there # {}
              /\ \E k \in there : Decoded(k, meta, Opposite(at[2]))
           \/ /\ \A k \in there : ~StandsWhole(k)   \* not detected
              /\ stage' = "unread" /\ UNCHANGED found
  /\ UNCHANGED <<input, eccLevel, symbols, assigned, fitted, mask, partII, message, damaged>>

Join ==
  /\ stage = "reading" /\ (Docks = {} \/ Len(found) = MaxSymbolNumber)
  /\ message' = [n \in DOMAIN found |-> found[n].stretch]
  /\ stage' = "read"
  /\ UNCHANGED <<input, eccLevel, symbols, assigned, fitted, mask, partII, found, cursor, damaged>>

\* A damaged symbol is not found, or its correction does not converge.
Damaged ==
  /\ stage \in {"drawn", "reading"} /\ (stage = "reading" => Docks # {})
  /\ damaged' = TRUE /\ stage' = "unread"
  /\ UNCHANGED <<input, eccLevel, symbols, assigned, fitted, mask, partII, found, cursor, message>>

ReaderInit ==
  /\ found = <<>> /\ cursor = <<0, 3>> /\ message = <<>> /\ damaged = FALSE
=============================================================================
