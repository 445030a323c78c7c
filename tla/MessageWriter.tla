--------------------------- MODULE MessageWriter ---------------------------
(***************************************************************************)
(* The writers of the message stream: encodeData for the modes the         *)
(* optimizer chose (internal/encode/encode_data.go), and the byte-mode     *)
(* writer of opaque and structured messages (internal/encode/opaque.go).   *)
(* A stream is a sequence of bits.                                         *)
(***************************************************************************)
EXTENDS ModeOptimizer

NoStream == <<2>>

\* The length fields in front of a byte run.
RunHeader(count) ==
  IF count <= ShortRun THEN BitsOf(count, RunBits)
  ELSE BitsOf(0, RunBits)
       \o BitsOf((IF count <= LongRun THEN count - ShortRun - 1 ELSE 2 ^ LongRunBits - 1),
                 LongRunBits)

(* The state of encodeData: the bits so far, the modes (rewritten when a shift  *)
(* ends), the unit, the character, whether a shift is open, the byte run it     *)
(* is in, how much of it is left, and the runs split so far.                    *)

Writing(modes) ==
  [bits |-> <<>>, modes |-> modes, unit |-> 1, at |-> 1, back |-> FALSE,
   run |-> 0, left |-> 0, factor |-> 1]

FromMode(w) == w.modes[w.unit]
ToMode(w)   == w.modes[w.unit + 1]

Emit(w, value, width) == [w EXCEPT !.bits = @ \o BitsOf(value, width)]

\* The width of the switch to the next unit's mode, without a run's length.
SwitchWidth(w) ==
  LatchShiftTo(FromMode(w), ToMode(w)) - IF ToMode(w) % 7 = Byte THEN RunBits ELSE 0

EmitSwitch(w) ==
  IF FromMode(w) = ToMode(w) THEN w
  ELSE [Emit(w, ModeSwitch(FromMode(w), ToMode(w)), SwitchWidth(w))
          EXCEPT !.back = @ \/ ToMode(w) > 6]

\* Mutant: a pair is written as its first character alone.
WriteUnitSingly(w, msg) ==
  LET c == msg[w.at]
      v == EncodingTable(c, ToMode(w) % 7)
  IN  [Emit(w, (IF v > -1 THEN v ELSE 18), Size(ToMode(w)))
         EXCEPT !.unit = @ + 1, !.at = @ + IF v > -1 THEN 1 ELSE 2]

\* A character or a pair of a mode other than byte.
WriteUnit(w, msg) ==
  LET c == msg[w.at]
      v == EncodingTable(c, ToMode(w) % 7)
      pairs == IF c = CR THEN msg[w.at + 1] = LF ELSE msg[w.at + 1] = SP
  IN  [Emit(w, (IF v > -1 THEN v ELSE IF pairs THEN -v ELSE 18), Size(ToMode(w)))
         EXCEPT !.unit = @ + 1, !.at = @ + IF v > -1 THEN 1 ELSE 2]

RunAhead(w) ==
  Max({0} \cup {k \in 1 .. Len(w.modes) - w.unit :
                  \A i \in 1 .. k : w.modes[w.unit + i] % 7 = Byte})

EnterRun(w) ==
  IF FromMode(w) = ToMode(w) THEN w
  ELSE LET n == RunAhead(w)
       IN  [w EXCEPT !.bits = @ \o RunHeader(n), !.run = n, !.left = n]

\* A run longer than one length field can say goes on in byte mode again.
ReenterRun(w) ==
  LET shift == CASE w.modes[w.unit - (w.run - w.left)] % 7 \in {Upper, Lower} -> BitsOf(124, 7)
                 [] w.modes[w.unit - (w.run - w.left)] % 7 = Numeric -> BitsOf(60, 5)
                 [] w.modes[w.unit - (w.run - w.left)] % 7 = Alphanumeric -> BitsOf(252, 8)
                 [] OTHER -> <<>>
  IN  IF w.run - w.left # w.factor * LongRun THEN w
      ELSE [w EXCEPT !.bits = @ \o shift \o RunHeader(w.left), !.factor = @ + 1]

WriteByte(w, msg) ==
  [Emit(ReenterRun(EnterRun(w)), msg[w.at], Size(Byte))
     EXCEPT !.unit = @ + 1, !.left = @ - 1, !.at = @ + 1]

EndShift(w) ==
  IF ~w.back \/ w.left # 0 THEN w
  ELSE [w EXCEPT !.modes[w.unit] = w.modes[IF w.run = 0 THEN w.unit - 1 ELSE w.unit - w.run],
                 !.back = FALSE, !.run = 0]

\* The stream ends in the mode's end-of-message fields, as many as fit, and then
\* in alternating bits.
EndFields(m) ==
  CASE m = Upper        -> << <<28, 5>>, <<31, 5>>, <<3, 2>> >>
    [] m = Lower        -> << <<31, 5>>, <<3, 2>> >>
    [] m = Numeric      -> << <<15, 4>>, <<3, 2>>, <<31, 5>>, <<3, 2>> >>
    [] m = Alphanumeric -> << <<63, 6>>, <<3, 2>>, <<28, 5>>, <<31, 5>>, <<3, 2>> >>
    [] OTHER            -> <<>>

PadTo(w, length) ==
  LET m == IF w.modes[w.unit] > 6 THEN w.modes[w.unit - 1] ELSE w.modes[w.unit]
      Fields(n) == FlattenSeq([i \in 1 .. n |-> BitsOf(EndFields(m)[i][1], EndFields(m)[i][2])])
      ends == {n \in 0 .. Len(EndFields(m)) : Len(w.bits) + Len(Fields(n)) <= length}
      full == w.bits \o Fields(Max(ends))
  IN  full \o [i \in 1 .. length - Len(full) |-> (Len(full) + i - 1) % 2]

\* The writer goes on to the next unit unless there is no room, or no switch to its
\* mode; it then stays where it is.
WriteNext(w, msg, length) ==
  IF \/ w.at > Len(msg)
     \/ Len(w.bits) >= length
     \/ FromMode(w) # ToMode(w) /\ SwitchWidth(w) >= EncMax
  THEN w
  ELSE LET s == EmitSwitch(w)
       IN  EndShift(IF ToMode(w) % 7 = Byte THEN WriteByte(s, msg) ELSE WriteUnit(s, msg))

Written(start, msg, length) ==
  LET end == FoldLeft(LAMBDA w, c : WriteNext(w, msg, length), start, msg)
  IN  IF end.at <= Len(msg) \/ Len(end.bits) > length THEN NoStream ELSE PadTo(end, length)

\* The BSI writer fills the symbol's capacity, spare bits more than the announced
\* length; the ISO writer has none to spare.
WriteAsPlanned(plan, msg, spare) == Written(Writing(plan.modes), msg, plan.length + spare)
EncodeData(msg, spare) == WriteAsPlanned(Analyze(msg), msg, spare)

-----------------------------------------------------------------------------
(* Structured messages: byte runs, with the controls between them. *)

OpaqueRun(data) ==
  BitsOf(124, 7) \o RunHeader(Len(data)) \o FlattenSeq([i \in DOMAIN data |-> BitsOf(data[i], 8)])
EncodeOpaque(data) ==
  FlattenSeq([r \in 1 .. (Len(data) + LongRun - 1) \div LongRun |->
    OpaqueRun(SubSeq(data, (r - 1) * LongRun + 1, Min({r * LongRun, Len(data)})))])

Control(kind, offset, assignment) ==
  [kind |-> kind, offset |-> offset, assignment |-> assignment]

ControlBits(c) ==
  CASE c.kind = "eci" ->
         BitsOf(126, 7) \o
         (IF c.assignment <= 127 THEN BitsOf(c.assignment, 8)
          ELSE IF c.assignment <= 16383 THEN BitsOf(2 * 2 ^ 14 + c.assignment, 16)
          ELSE BitsOf(3 * 2 ^ 20 + c.assignment, 22))
    [] c.kind \in {"fnc1start", "fnc1separator"} -> BitsOf(31, 5) \o BitsOf(3, 2) \o BitsOf(4, 3)
    [] c.kind = "fnc1end" -> BitsOf(31, 5) \o BitsOf(3, 2) \o BitsOf(5, 3)

Letter(c) == c \in 65 .. 90 \cup 97 .. 122
Digit(c)  == c \in 48 .. 57

\* validFNC1Start, of what was sent so far, separators included.
MayStart(sent) ==
  \/ sent = <<>>
  \/ Len(sent) = 1 /\ Letter(sent[1])
  \/ Len(sent) = 2 /\ Digit(sent[1]) /\ Digit(sent[2])

MaxAssignment == 999999

\* What the message is worth before each control; FALSE: refused.
CheckControl(data, st, c) ==
  LET sent == st.sent \o SubSeq(data, st.cursor + 1, c.offset)
  IN  IF ~st.ok \/ c.offset \notin st.cursor .. Len(data) THEN [st EXCEPT !.ok = FALSE]
      ELSE [ok |-> CASE c.kind = "eci"       -> c.assignment \in 0 .. MaxAssignment
                     [] c.kind = "fnc1start" -> ~st.active /\ MayStart(sent)
                     [] OTHER                -> st.active,
            cursor |-> c.offset,
            active |-> c.kind = "fnc1start" \/ (st.active /\ c.kind # "fnc1end"),
            sent   |-> IF c.kind = "fnc1separator" THEN Append(sent, 0) ELSE sent]

\* Mutant: a structured message may stay open.
StructuredOpen(data, controls) ==
  FoldLeft(LAMBDA st, c : CheckControl(data, st, c),
           [ok |-> TRUE, cursor |-> 0, active |-> FALSE, sent |-> <<>>], controls).ok

Structured(data, controls) ==
  LET st == FoldLeft(LAMBDA s, c : CheckControl(data, s, c),
                     [ok |-> TRUE, cursor |-> 0, active |-> FALSE, sent |-> <<>>], controls)
  IN  st.ok /\ ~st.active

EncodeStructured(data, controls) ==
  LET Cut(i) == IF i = 0 THEN 0 ELSE IF i > Len(controls) THEN Len(data) ELSE controls[i].offset
      Segment(i) == EncodeOpaque(SubSeq(data, Cut(i - 1) + 1, Cut(i)))
  IN  IF ~Structured(data, controls) THEN NoStream
      ELSE FlattenSeq([i \in 1 .. Len(controls) |-> Segment(i) \o ControlBits(controls[i])])
           \o Segment(Len(controls) + 1)
=============================================================================
