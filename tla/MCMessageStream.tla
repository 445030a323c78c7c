-------------------------- MODULE MCMessageStream --------------------------
(* Requests for the message stream's runs. *)
EXTENDS MessageStream

Plainly(text, spare, cut, variant) ==
  [kind |-> "plain", text |-> text, controls |-> <<>>, bits |-> <<>>, spare |-> spare,
   cut |-> cut, variant |-> variant]

UpTo(S, n) == UNION {[1 .. k -> S] : k \in 1 .. n}

\* A letter of each case, a digit, the pairs' characters, punctuation, a mixed
\* character, a line end and a byte of no alphabet.
Characters == {65, 97, 49, SP, 44, 33, 35, LF, 255}
CRSpace(text) == \E i \in 1 .. Len(text) - 1 : text[i] = CR /\ text[i + 1] = SP
Repeated(c, n) == [i \in 1 .. n |-> c]

ShortTexts == UpTo(Characters, 3) \cup [1 .. 4 -> {65, 97, 44, SP}]
              \cup {t \in UpTo({CR, LF, SP, 65}, 3) : ~CRSpace(t)}
RunTexts   == {b \o Repeated(255, n) \o a :
                 b \in {<<>>, <<65>>, <<65, 97, 97>>, <<65, 49, 97, 65, 49, 97>>},
                 n \in {15, 16, 18, 19, 20, 38, 45},
                 a \in {<<>>, <<65, 65>>, <<97, 49, 49, 49, 49>>}}
SpareTexts == UpTo({65, 97, 49}, 3) \cup {<<65, 49, 97, 65, 49, 97>>, <<33>>, <<65, 255>>}

Structurally(text, controls) ==
  [kind |-> "structured", text |-> text, controls |-> controls, bits |-> <<>>, spare |-> 0,
   cut |-> 0, variant |-> "iso"]

ControlsAt(offsets, assignments) ==
  {Control("eci", o, a) : o \in offsets, a \in assignments}
    \cup {Control(k, o, 0) : k \in {"fnc1start", "fnc1separator", "fnc1end"}, o \in offsets}

StructuredTexts == {<<65>>, <<49, 50>>, <<65, 49, 92>>}

StructuredRequests ==
  {Structurally(<<92, 49>>, <<Control("eci", o, a)>>) :
          o \in 0 .. 2, a \in {0, 127, 128, 16383, 16384, 999999, 1000000}}
  \cup {Structurally(t, c) : t \in StructuredTexts \cup {<<>>}, c \in UpTo(ControlsAt(0 .. 4, {26}), 2)}
  \cup UNION {{Structurally(t, c) : c \in [1 .. 3 -> ControlsAt(0 .. Len(t), {26})]}
              : t \in StructuredTexts}
  \cup {Structurally(<<65>>, c) : c \in [1 .. 4 -> ControlsAt({0, 1}, {26})]}

Given(stream, variant) ==
  [kind |-> "stream", text |-> <<>>, controls |-> <<>>, bits |-> stream, spare |-> 0,
   cut |-> 0, variant |-> variant]

\* Pieces of streams: a letter, digits and back, a byte, a backslash, the format 08,
\* the additional switches, assignments in and out of range, a shift out of lower mode.
Additional(k) == <<1, 1, 1, 1, 1, 1, 1>> \o BitsOf(k, 3)
Pieces ==
  {BitsOf(1, 5), BitsOf(29, 5) \o BitsOf(2, 4) \o BitsOf(3, 4) \o BitsOf(14, 4),
   BitsOf(29, 5) \o BitsOf(1, 4) \o BitsOf(9, 4) \o BitsOf(14, 4),
   BitsOf(125, 7) \o BitsOf(7, 5), BitsOf(28, 5) \o BitsOf(28, 5), BitsOf(126, 7) \o BitsOf(5, 8),
   BitsOf(126, 7) \o BitsOf(3, 2) \o BitsOf(1000000, 20), BitsOf(31, 5)}
  \cup {Additional(k) : k \in {0, 3, 4, 5, 6}}

\* The additional switches are the ISO reader's; the C reference's ends at one.
GivenStreams == {FlattenSeq(p) : p \in UpTo(Pieces, 3)}
FormattedStreams == {Additional(0) \o s : s \in GivenStreams}

PassRequests ==
  {Plainly(t, 0, 0, "iso") : t \in ShortTexts \cup RunTexts}
  \cup {Plainly(t, 0, 0, "c") : t \in RunTexts}
  \cup {Plainly(t, s, 0, "c") : t \in SpareTexts, s \in 0 .. 21}
  \cup {Plainly(t, 0, k, v) : t \in SpareTexts \cup {<<255, 255, 65>>, <<97, 35, 44, SP>>},
                              k \in 1 .. 9, v \in {"iso", "c"}}
  \cup StructuredRequests
  \cup {Given(s, v) : s \in GivenStreams, v \in {"iso", "c"}}
  \cup {Given(s, "iso") : s \in FormattedStreams}

=============================================================================
