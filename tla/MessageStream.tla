--------------------------- MODULE MessageStream ---------------------------
(***************************************************************************)
(* A message on its way through the message stream: a request is written   *)
(* (internal/encode) and the bits are read back (DecodeMessageVariant and  *)
(* messageOutput, internal/decode/decoder.go), one turn of the reader's    *)
(* loop a step.                                                            *)
(*                                                                         *)
(* A request is [kind, text, controls, bits, spare, cut, variant]: a text  *)
(* the optimizer encodes, a text with controls, or bits from elsewhere.    *)
(* spare is capacity the writer fills beyond the message, cut what the     *)
(* stream loses at its end.  variant is "iso" (both ISO bases) or "c" (the *)
(* C reference's and the BSI layout).                                      *)
(***************************************************************************)
EXTENDS MessageWriter

CONSTANT Requests

VARIABLES request, status, bits, index, mode, preMode, output

vars == <<request, status, bits, index, mode, preMode, output>>

ISO == request.variant = "iso"

ECIMode == 7
FNC1Mode == 8

\* messageOutput.  dataCount, leading and the format indicator of ISO 15434 are
\* the first bytes of raw: a 15434 message starts before any data.
NoOutput ==
  [raw |-> <<>>, transmission |-> <<>>, controls |-> <<>>, fnc1Active |-> FALSE,
   fnc1Modifier |-> 0, iso15434Active |-> FALSE, iso15434Used |-> FALSE]

Init ==
  /\ request \in Requests
  /\ status = "writing"
  /\ bits = <<>>
  /\ index = 0
  /\ mode = Upper
  /\ preMode = NoMode
  /\ output = NoOutput

Stream ==
  CASE request.kind = "plain"      -> EncodeData(request.text, request.spare)
    [] request.kind = "structured" -> EncodeStructured(request.text, request.controls)
    [] request.kind = "stream"     -> request.bits

Deliver(stream) ==
  IF stream = NoStream THEN status' = "refused" /\ UNCHANGED bits
  ELSE status' = "reading" /\ bits' = SubSeq(stream, 1, Len(stream) - request.cut)

Write ==
  /\ status = "writing"
  /\ Deliver(Stream)
  /\ UNCHANGED <<request, index, mode, preMode, output>>

-----------------------------------------------------------------------------
(* messageOutput. *)

Backslash == 92

\* Mutant: a backslash of the data is sent as it is.
AppendDataPlainly(o, values) ==
  [o EXCEPT !.raw = @ \o values, !.transmission = @ \o values]

AppendData(o, values) ==
  [o EXCEPT !.raw = @ \o values,
            !.transmission = @ \o FlattenSeq([i \in DOMAIN values |->
              IF ISO /\ values[i] = Backslash THEN <<Backslash, Backslash>> ELSE <<values[i]>>])]

Noted(o, kind, assignment) ==
  [o EXCEPT !.controls = Append(@, Control(kind, Len(o.raw), assignment))]

Places == <<100000, 10000, 1000, 100, 10, 1>>

AppendECI(o, assignment) ==
  [Noted(o, "eci", assignment)
     EXCEPT !.transmission = @ \o <<Backslash>>
              \o [i \in DOMAIN Places |-> 48 + ((assignment \div Places[i]) % 10)]]

\* fnc1: a field separator inside an FNC1 message, else its start.
AllowsFNC1(o) == ~o.iso15434Used /\ (o.fnc1Active \/ MayStart(o.raw))

FNC1(o) ==
  IF o.fnc1Active THEN AppendData(Noted(o, "fnc1separator", 0), <<29>>)
  ELSE [Noted(o, "fnc1start", 0)
          EXCEPT !.fnc1Active = TRUE, !.fnc1Modifier = IF o.raw = <<>> THEN 4 ELSE 5]

AllowsISO15434(o) == ~o.iso15434Used /\ o.fnc1Modifier = 0 /\ o.raw = <<>>

ISO15434(o) ==
  [Noted(o, "iso15434start", 0)
     EXCEPT !.iso15434Active = TRUE, !.iso15434Used = TRUE,
            !.transmission = @ \o <<91, 41, 62, 30>>]

HasFormat(raw) == Len(raw) >= 2 /\ Digit(raw[1]) /\ Digit(raw[2])

\* Formats 02 and 08 end without the EOT character.
EndsUnmarked(raw) == HasFormat(raw) /\ raw[1] = 48 /\ raw[2] \in {50, 56}

\* Mutant: a 15434 message ends without a format indicator too.
AllowsEOTUnformatted(o) == o.fnc1Active \/ o.iso15434Active

AllowsEOT(o) == o.fnc1Active \/ (o.iso15434Active /\ HasFormat(o.raw))

EOT(o) ==
  IF o.fnc1Active THEN [Noted(o, "fnc1end", 0) EXCEPT !.fnc1Active = FALSE]
  ELSE [Noted(o, "iso15434end", 0)
          EXCEPT !.iso15434Active = FALSE,
                 !.transmission = @ \o IF EndsUnmarked(o.raw) THEN <<>> ELSE <<4>>]

\* finish: in ISO no message may be left open, and the transmission gets its
\* symbology identifier "]j" and modifier.
Finish(o) ==
  /\ IF ~ISO THEN status' = "done" /\ output' = o
     ELSE IF o.fnc1Active \/ o.iso15434Active THEN status' = "failed" /\ output' = o
     ELSE /\ status' = "done"
          /\ output' = [o EXCEPT !.transmission =
                          <<93, 106, 48 + IF o.fnc1Modifier = 0 THEN 1 ELSE o.fnc1Modifier>> \o @]
  /\ UNCHANGED <<request, bits, index, mode, preMode>>

\* fail: only the ISO reader refuses; the reference's keeps what it has.
Fail(o) ==
  IF ISO
  THEN status' = "failed" /\ output' = o /\ UNCHANGED <<request, bits, index, mode, preMode>>
  ELSE Finish(o)

-----------------------------------------------------------------------------
(* The reader's loop. *)

Reading == status = "reading" /\ index < Len(bits)

Has(at, width)   == at + width <= Len(bits)
Field(at, width) == ValueOf(SubSeq(bits, at + 1, at + width))

Continue(next, m, p, o) ==
  /\ index' = next
  /\ mode' = m
  /\ preMode' = p
  /\ output' = o
  /\ UNCHANGED <<request, status, bits>>

EndOfStream ==
  /\ status = "reading"
  /\ index >= Len(bits)
  /\ Finish(output)

SentinelMode ==
  /\ Reading
  /\ mode \in {ECIMode, FNC1Mode, NoMode}
  /\ Fail(output)

InMode == Reading /\ mode \in Upper .. Alphanumeric

ShortField ==
  /\ InMode
  /\ ~Has(index, Size(mode))
  /\ Fail(output)

Value == Field(index, Size(mode))
After == index + Size(mode)
HasValue == InMode /\ Has(index, Size(mode))

TextOf(m, v) ==
  IF m = Mixed /\ v \in DOMAIN PairText THEN PairText[v] ELSE <<DecodingTable[m][v + 1]>>

\* Where a character leaves the reader: a shift ends with it.
Resume(m, p) == IF m \in {Punct, Mixed} \/ p # NoMode THEN p ELSE m

TakeCharacter ==
  /\ HasValue
  /\ Value < Len(DecodingTable[mode])
  /\ Continue(After, Resume(mode, preMode), preMode, AppendData(output, TextOf(mode, Value)))

\* The switches a mode spells in one field: the mode and the one to return to.
Switches ==
  (Upper   :> (27 :> <<Punct, Upper>> @@ 28 :> <<Lower, NoMode>> @@
               29 :> <<Numeric, NoMode>> @@ 30 :> <<Alphanumeric, NoMode>>)) @@
  (Lower   :> (27 :> <<Punct, Lower>> @@ 28 :> <<Upper, Lower>> @@
               29 :> <<Numeric, NoMode>> @@ 30 :> <<Alphanumeric, NoMode>>)) @@
  (Numeric :> (13 :> <<Punct, Numeric>> @@ 14 :> <<Upper, NoMode>>))

Switch ==
  /\ HasValue
  /\ mode \in DOMAIN Switches
  /\ Value \in DOMAIN Switches[mode]
  /\ Continue(After, Switches[mode][Value][1], Switches[mode][Value][2], output)

\* A mode's last field is extended by two bits.
Extends ==
  /\ HasValue
  /\ mode \in {Upper, Lower, Numeric, Alphanumeric}
  /\ Value = 2 ^ Size(mode) - 1

Extension == Field(After, 2)

ShortExtension ==
  /\ Extends
  /\ ~Has(After, 2)
  /\ Fail(output)

\* The switches of two fields; upper mode's others are controls.
ExtendedSwitch(m, extension) ==
  CASE extension = 0 -> <<Byte, m>>
    [] extension = 1 -> <<Mixed, m>>
    [] m = Upper /\ extension = 2 -> <<ECIMode, NoMode>>
    [] m = Lower /\ extension = 2 -> <<Upper, NoMode>>
    [] m = Lower /\ extension = 3 -> IF ISO THEN <<Numeric, Lower>> ELSE <<FNC1Mode, NoMode>>
    [] m = Numeric /\ extension = 2 -> <<Upper, Numeric>>
    [] m = Numeric /\ extension = 3 -> <<Lower, NoMode>>
    [] m = Alphanumeric /\ extension = 2 -> <<Punct, Alphanumeric>>
    [] m = Alphanumeric /\ extension = 3 -> <<Upper, NoMode>>

SwitchExtended ==
  /\ Extends
  /\ Has(After, 2)
  /\ ~(mode = Upper /\ (Extension = 3 \/ (ISO /\ Extension = 2)))
  /\ LET to == ExtendedSwitch(mode, Extension) IN Continue(After + 2, to[1], to[2], output)

\* The C reference ends its messages with upper mode's last extension.
EndOfMessage ==
  /\ Extends
  /\ Has(After, 2)
  /\ ~ISO
  /\ mode = Upper
  /\ Extension = 3
  /\ Finish(output)

\* readECIAssignment, in upper mode; the shift that led there goes on.
TakeECI ==
  /\ Extends
  /\ Has(After, 2)
  /\ ISO
  /\ mode = Upper
  /\ Extension = 2
  /\ LET at    == After + 2
         total == IF ~Has(at, 1) \/ Field(at, 1) = 0 THEN 8
                  ELSE IF ~Has(at, 2) \/ Field(at, 2) = 2 THEN 16 ELSE 22
         kept  == CASE total = 8 -> 7 [] total = 16 -> 14 [] total = 22 -> 20
     IN  IF ~Has(at, total) \/ Field(at, total) % 2 ^ kept > MaxAssignment THEN Fail(output)
         ELSE Continue(at + total, Upper, preMode, AppendECI(output, Field(at, total) % 2 ^ kept))

Prefix == <<
  <<104, 116, 116, 112, 115, 58, 47, 47>>,
  <<104, 116, 116, 112, 58, 47, 47>>,
  <<119, 119, 119, 46>> >>

\* The additional switches of ISO upper mode: 15434, three prefixes, FNC1, EOT.
TakeAdditional ==
  /\ Extends
  /\ Has(After, 2)
  /\ ISO
  /\ mode = Upper
  /\ Extension = 3
  /\ LET at   == After + 2
         kind == Field(at, 3)
         back == Continue(at + 3, (IF preMode # NoMode THEN preMode ELSE Upper), preMode,
                          AppendData(output, Prefix[kind]))
         Home(allowed, o) ==
           IF allowed THEN Continue(at + 3, Upper, NoMode, o) ELSE Fail(output)
     IN  IF ~Has(at, 3) THEN Fail(output)
         ELSE CASE kind = 0 -> Home(AllowsISO15434(output), ISO15434(output))
                [] kind \in 1 .. 3 -> back
                [] kind = 4 -> Home(AllowsFNC1(output), FNC1(output))
                [] kind = 5 -> Home(AllowsEOT(output), EOT(output))
                [] OTHER -> Fail(output)

\* A byte run: its length, extended when it says 0, and its bytes.
RunStart == index + RunBits + IF Field(index, RunBits) = 0 THEN LongRunBits ELSE 0
RunLength ==
  IF Field(index, RunBits) # 0 THEN Field(index, RunBits)
  ELSE Field(index + RunBits, LongRunBits) + ShortRun + 1

Bytes(n) == [i \in 1 .. n |-> Field(RunStart + 8 * i - 8, 8)]

ByteMode == Reading /\ mode = Byte
HasRunLength == Has(index, RunBits) /\ Has(RunStart, 0)

ShortRunLength ==
  /\ ByteMode
  /\ ~HasRunLength
  /\ Fail(output)

\* A run that is cut short gives the bytes that are there.
TakeByteRun ==
  /\ ByteMode
  /\ HasRunLength
  /\ IF Has(RunStart, 8 * RunLength)
     THEN Continue(RunStart + 8 * RunLength, preMode, preMode,
                   AppendData(output, Bytes(RunLength)))
     ELSE Fail(AppendData(output, Bytes((Len(bits) - RunStart) \div 8)))

Terminated == status \in {"done", "failed", "refused"} /\ UNCHANGED vars

Next ==
  \/ Write \/ EndOfStream \/ SentinelMode
  \/ ShortField \/ TakeCharacter \/ Switch
  \/ ShortExtension \/ SwitchExtended \/ EndOfMessage \/ TakeECI \/ TakeAdditional
  \/ ShortRunLength \/ TakeByteRun
  \/ Terminated

Spec == Init /\ [][Next]_vars

-----------------------------------------------------------------------------
(* What the message stream promises. *)

Plain == request.kind = "plain"
Whole == request.cut = 0

\* A text is never refused, and reads as itself, without controls, from the ISO
\* reader and, with the rest of the symbol filled up, from the C reference's; a
\* stream that lost its end gives the start of its text, never other characters.
RoundTrip ==
  Plain =>
    /\ status # "refused"
    /\ IsPrefix(output.raw, request.text)
    /\ Whole => (status # "failed" /\ (status = "done" => (output.raw = request.text
                                                            /\ output.controls = <<>>)))

\* The separators before position i of a text with controls.
SeparatorsBefore(controls, i) ==
  Cardinality({j \in 1 .. i - 1 : controls[j].kind = "fnc1separator"})

SeparatorsAt(controls, offset) ==
  SelectSeq(controls, LAMBDA c : c.kind = "fnc1separator" /\ c.offset = offset)

WithSeparators(text, controls) ==
  FlattenSeq([i \in 1 .. Len(text) + 1 |->
    [j \in DOMAIN SeparatorsAt(controls, i - 1) |-> 29]
      \o IF i <= Len(text) THEN <<text[i]>> ELSE <<>>])

\* A text with controls the writer takes is read with the same controls at the same
\* places, the field separators also standing in the data.
StructuredIsRead ==
  request.kind = "structured" =>
    /\ status # "failed"
    /\ status = "done" =>
         /\ output.raw = WithSeparators(request.text, request.controls)
         /\ output.controls =
              [i \in DOMAIN request.controls |->
                [request.controls[i] EXCEPT !.offset = @ + SeparatorsBefore(request.controls, i)]]

\* The message an output tells: its data without the field separators, and its
\* controls at their places in that data.
Marked(o, i) == \E c \in ToSet(o.controls) : c.kind = "fnc1separator" /\ c.offset + 1 = i
DataOf(o) == FlattenSeq([i \in DOMAIN o.raw |-> IF Marked(o, i) THEN <<>> ELSE <<o.raw[i]>>])
ControlsOf(o) ==
  [i \in DOMAIN o.controls |->
    [o.controls[i] EXCEPT !.offset = @ - SeparatorsBefore(o.controls, i)]]

Uses15434(controls) == \E c \in ToSet(controls) : c.kind = "iso15434start"

\* One 15434 message with its format around all of the data.
Formatted(o) ==
  /\ HasFormat(o.raw)
  /\ \E i, j \in DOMAIN o.controls :
       /\ i < j
       /\ o.controls[i].kind = "iso15434start" /\ o.controls[i].offset = 0
       /\ o.controls[j].kind = "iso15434end"   /\ o.controls[j].offset >= 2
       /\ \A k \in DOMAIN o.controls \ {i, j} : o.controls[k].kind = "eci"

\* What the ISO reader accepts is a message the writer would take, its controls
\* bracketed and in place, or one 15434 message with its format.
AcceptedIsWellFormed ==
  (ISO /\ status = "done") =>
    IF Uses15434(output.controls) THEN Formatted(output)
    ELSE Structured(DataOf(output), ControlsOf(output))

\* What a control adds to the transmission; an ECI is told apart as a number below 0.
Mark(o, c) ==
  CASE c.kind = "eci" -> << -1 - c.assignment >>
    [] c.kind = "iso15434start" -> <<91, 41, 62, 30>>
    [] c.kind = "iso15434end" /\ ~EndsUnmarked(o.raw) -> <<4>>
    [] OTHER -> <<>>

\* A transmission as its receiver reads it: a doubled backslash is data, one with
\* six digits an ECI.
Receive(st, c) ==
  IF (st.wait = 0 /\ c # Backslash) \/ (st.wait = 7 /\ c = Backslash)
  THEN [got |-> Append(st.got, c), wait |-> 0, eci |-> 0]
  ELSE IF st.wait = 0 THEN [got |-> st.got, wait |-> 7, eci |-> 0]
  ELSE LET eci == 10 * st.eci + (c - 48)
       IN  IF st.wait = 1 THEN [got |-> Append(st.got, -1 - eci), wait |-> 0, eci |-> 0]
           ELSE [got |-> st.got, wait |-> IF st.wait = 7 THEN 5 ELSE st.wait - 1, eci |-> eci]
Received(transmission) ==
  FoldLeft(Receive, [got |-> <<>>, wait |-> 0, eci |-> 0], transmission)

\* The data of an output, with what its controls add at each place.
MarksAt(o, i) ==
  FlattenSeq([j \in DOMAIN o.controls |->
    IF o.controls[j].offset = i THEN Mark(o, o.controls[j]) ELSE <<>>])
Told(o) ==
  FlattenSeq([i \in 1 .. Len(o.raw) + 1 |->
    MarksAt(o, i - 1) \o IF i <= Len(o.raw) THEN <<o.raw[i]>> ELSE <<>>])

\* The ISO transmission tells its receiver the data, with every assignment in its
\* place, whatever backslashes and digits the data holds.
TransmissionTellsMessage ==
  (ISO /\ status = "done") =>
    Received(SubSeq(output.transmission, 4, Len(output.transmission)))
      = [got |-> Told(output), wait |-> 0, eci |-> 0]

=============================================================================
