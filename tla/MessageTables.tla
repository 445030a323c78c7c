--------------------------- MODULE MessageTables ---------------------------
(***************************************************************************)
(* The tables writer and reader of the message stream share: the modes,    *)
(* their alphabets, and the cost and code of every switch between them     *)
(* (internal/tables/tables.go and the decoding tables of decoder.go).      *)
(*                                                                         *)
(* A mode is its number in the code: 0-5 upper, lower, numeric, punct,     *)
(* mixed, alphanumeric, 6 byte; 7-13 are the same modes entered by a shift *)
(* for one character.  Characters are byte values.                         *)
(***************************************************************************)
EXTENDS Integers, Sequences, SequencesExt

CONSTANT LongRunBits   \* width of the extended length of a byte run, 13

ASSUME LongRunAssumption == LongRunBits \in Nat \ {0}

Upper == 0
Lower == 1
Numeric == 2
Punct == 3
Mixed == 4
Alphanumeric == 5
Byte == 6
NoMode == -1

EncMax == 1000000

CR == 13
LF == 10
SP == 32

Letters(first) == [i \in 1 .. 26 |-> first + i - 1]
Digits == [i \in 1 .. 10 |-> 47 + i]

\* The alphabets: the character a field's value stands for is at value + 1.
DecodingTable ==
  [m \in Upper .. Alphanumeric |->
    CASE m = Upper        -> <<SP>> \o Letters(65)
      [] m = Lower        -> <<SP>> \o Letters(97)
      [] m = Numeric      -> <<SP>> \o Digits \o <<44, 46>>
      [] m = Punct        -> <<33, 34, 36, 37, 38, 39, 40, 41, 44, 45, 46, 47, 58, 59, 63, 64>>
      [] m = Mixed        -> <<35, 42, 43, 60, 61, 62, 91, 92, 93, 94, 95, 96, 123, 124, 125,
                               126, 9, LF, CR, 0, 0, 0, 0, 164, 167, 196, 214, 220, 223, 228,
                               246, 252>>
      [] m = Alphanumeric -> <<SP>> \o Digits \o Letters(65) \o Letters(97)]

\* The mixed mode's pairs of two characters.
PairValue == (CR :> 19) @@ (44 :> 20) @@ (46 :> 21) @@ (58 :> 22)
PairText  ==
  [v \in 19 .. 22 |-> CASE v = 19 -> <<LF, CR>> [] v = 20 -> <<44, SP>>
                        [] v = 21 -> <<46, SP>> [] v = 22 -> <<58, SP>>]

\* A character's value in a mode; -1: none; below -1: it starts a pair.
EncodingTable(c, m) ==
  IF m = Mixed /\ c \in DOMAIN PairValue THEN -PairValue[c]
  ELSE IF c # 0 /\ Contains(DecodingTable[m], c)
       THEN (CHOOSE i \in DOMAIN DecodingTable[m] : DecodingTable[m][i] = c) - 1
       ELSE -1

CharacterSize == <<5, 5, 4, 4, 5, 6, 8>>
Size(m) == CharacterSize[(m % 7) + 1]

X == EncMax

SwitchCost ==
  << <<0, 5, 5, X, X, 5, X, X, X, X, 5, 7, X, 11>>,
     <<7, 0, 5, X, X, 5, X, 5, X, X, 5, 7, X, 11>>,
     <<4, 6, 0, X, X, 9, X, 6, X, X, 4, 6, X, 10>>,
     <<X, X, X, X, X, X, X, 0, 0, 0, X, X, 0, X>>,
     <<X, X, X, X, X, X, X, 0, 0, 0, X, X, 0, X>>,
     <<8, 13, 13, X, X, 0, X, X, X, X, 8, 8, X, 12>>,
     <<X, X, X, X, X, X, 0, 0, 0, 0, X, X, 0, 0>> >>

\* A switch from a shifted mode costs what it costs from the mode itself.
LatchShiftTo(from, to) == SwitchCost[(from % 7) + 1][to + 1]

SwitchCode ==
  << <<-1, 28, 29, -1, -1, 30, -1, -1, -1, -1, 27, 125, -1, 124>>,
     <<126, -1, 29, -1, -1, 30, -1, 28, -1, 127, 27, 125, -1, 124>>,
     <<14, 63, -1, -1, -1, 478, -1, 62, -1, -1, 13, 61, -1, 60>>,
     <<-1, -1, -1, -1, -1, -1, -1, -1, -1, -1, -1, -1, -1, -1>>,
     <<-1, -1, -1, -1, -1, -1, -1, -1, -1, -1, -1, -1, -1, -1>>,
     <<255, 8188, 8189, -1, -1, -1, -1, -1, -1, -1, 254, 253, -1, 252>>,
     <<-1, -1, -1, -1, -1, -1, -1, -1, -1, -1, -1, -1, -1, -1>> >>

ModeSwitch(from, to) == SwitchCode[from + 1][to + 1]

\* A byte run states its length in four bits, or 0 and LongRunBits more.
RunBits  == 4
ShortRun == 2 ^ RunBits - 1
LongRun  == ShortRun + 2 ^ LongRunBits

\* convert_dec_to_bin: the low bits, most significant first; readData undoes
\* it, one bit, set or not, after the other.
BitsOf(value, width) == [i \in 1 .. width |-> (value \div 2 ^ (width - i)) % 2]
ValueOf(bits) == FoldLeft(LAMBDA v, b : 2 * v + (IF b = 1 THEN 1 ELSE 0), 0, bits)
=============================================================================
