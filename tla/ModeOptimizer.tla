--------------------------- MODULE ModeOptimizer ---------------------------
(***************************************************************************)
(* analyzeInputData (internal/encode/encode_data.go): the dynamic program  *)
(* that chooses the mode of every character of a message, and the length   *)
(* it announces to the writer.                                             *)
(*                                                                         *)
(* The program advances by one input unit at a time, a character or a pair *)
(* of characters.  Its state is the cost row of the unit before, the shift *)
(* folded into each mode there (tempSwitchMode), the predecessor rows so   *)
(* far, and whether the last unit was shifted.  The predecessors the code  *)
(* writes one row ahead are overwritten before they are read, and prev2 is *)
(* always -1 where it is compared: both are left out.                      *)
(***************************************************************************)
EXTENDS MessageTables

AllModes == 0 .. 13

Start ==
  [row   |-> [m \in AllModes |-> IF m = Upper THEN 0 ELSE EncMax],
   via   |-> [m \in AllModes |-> NoMode],
   preds |-> <<>>, shifted |-> FALSE, at |-> 1]

\* The code compares with -18; a carriage return's value is -19.
PairsWith(v, next) == (v = -18 /\ next = LF) \/ (v < -18 /\ next = SP)

UnitCost(c, next, m) ==
  IF m % 7 = Byte THEN Size(Byte)
  ELSE LET v == EncodingTable(c, m % 7)
       IN  IF v > -1 \/ PairsWith(v, next) THEN Size(m) ELSE EncMax

\* From a shift back to the mode it was folded into.
Rooted(preds, m) ==
  FoldRight(LAMBDA pred, at : IF at < 7 THEN at ELSE pred[at], preds, m)

\* One mode of one unit: its cheapest predecessor (the last of equals; never
\* the byte shift) and, for a shift, the cost folded back into its mode.
Relax(st, jump, acc, m) ==
  LET Through(k) == acc.cost[m] + st.row[k] + LatchShiftTo(k, m)
      best  == Min({Through(k) : k \in 0 .. 12} \cup {Through(m)})
      ties  == {k \in 0 .. 12 : Through(k) = best}
      pred  == IF ties = {} THEN m
               ELSE IF st.via[Max(ties)] # NoMode THEN st.via[Max(ties)] ELSE Max(ties)
      cost  == [acc.cost EXCEPT ![m] = best]
      gains == cost[pred] > best \/ (jump /\ cost[pred] + Size(pred) > best)
      root  == IF m = 13 THEN pred ELSE Rooted(st.preds, pred)
      found == [acc EXCEPT !.cost = cost, !.pred[m] = pred]
      back  == IF gains
               THEN [found EXCEPT !.cost[root] = best, !.via[root] = m, !.shifted = TRUE,
                                  !.pair = IF jump /\ m = 11 THEN root ELSE @]
               ELSE found
  IN  IF m < 7 THEN found ELSE IF m = 13 THEN back ELSE [back EXCEPT !.cost[m] = EncMax]

\* The modes of one unit, relaxed in their order.
RelaxAll(st, c, next) ==
  FoldLeft(LAMBDA acc, m : Relax(st, \E k \in 0 .. 5 : PairsWith(EncodingTable(c, k), next), acc, m),
           [cost |-> [m \in AllModes |-> UnitCost(c, next, m)],
            pred |-> [m \in AllModes |-> m], via |-> [m \in AllModes |-> NoMode],
            shifted |-> FALSE, pair |-> NoMode],
           [i \in 1 .. 14 |-> i - 1])

\* A pair confirmed by the mixed shift closes every other path.
NextUnit(st, all) ==
  [row   |-> IF all.pair = NoMode THEN all.cost
             ELSE [m \in AllModes |-> IF m = all.pair THEN all.cost[m] ELSE EncMax],
   via   |-> all.via, preds |-> Append(st.preds, all.pred),
   shifted |-> all.shifted, at |-> st.at + IF all.pair = NoMode THEN 1 ELSE 2]

Advance(msg, st) ==
  NextUnit(st, RelaxAll(st, msg[st.at], IF st.at < Len(msg) THEN msg[st.at + 1] ELSE 0))

\* A message has at most as many units as characters.
Advanced(msg, start) ==
  FoldLeft(LAMBDA st, c : IF st.at > Len(msg) THEN st ELSE Advance(msg, st), start, msg)

\* byteRunOverhead.
ByteRunOverhead(count, code) ==
  LET runs == count \div LongRun
      rest == count % LongRun
  IN  runs * code + (IF rest <= ShortRun THEN runs - 1 ELSE runs) * LongRunBits
      - (IF rest = 0 THEN code ELSE 0)

\* What the length fields of long byte runs add, counted from the end.
Longer(acc, code) ==
  IF acc.count <= ShortRun THEN acc
  ELSE [acc EXCEPT !.count = 0,
                   !.extra = @ + LongRunBits
                             + IF acc.count > LongRun THEN ByteRunOverhead(acc.count, code) ELSE 0]

RunCode(m, old) ==
  CASE m % 7 \in {Upper, Lower} -> 11
    [] m % 7 = Numeric -> 10
    [] m % 7 = Alphanumeric -> 12
    [] OTHER -> old

CountRun(acc, m) ==
  IF m % 7 = Byte THEN [acc EXCEPT !.count = @ + 1]
  ELSE Longer([acc EXCEPT !.code = IF acc.count > LongRun THEN RunCode(m, @) ELSE @],
              IF acc.count > LongRun THEN RunCode(m, acc.code) ELSE acc.code)

RunBitsOf(modes) ==
  Longer(FoldLeft(CountRun, [count |-> 0, extra |-> 0, code |-> 0], Reverse(modes)), 11).extra

\* The cheapest end, and the modes its predecessors lead back through.
Cheapest(end) == Min({end.row[m] : m \in AllModes})

LastMode(end, home) ==
  IF (end.shifted \/ home > 6) /\ end.via[home] # NoMode THEN end.via[home] ELSE home

Chosen(end, best) ==
  LET chosen[i \in 1 .. Len(end.preds)] ==
        IF i = Len(end.preds) THEN LastMode(end, Min({m \in AllModes : end.row[m] = best}))
                              ELSE end.preds[i + 1][chosen[i + 1]]
  IN  chosen

\* The modes of the units, behind the upper mode the message starts in, and the
\* announced length; the writer finds an upper mode past a shifted end.
Plan(best, chosen) ==
  [modes |-> <<Upper>> \o chosen \o <<Upper>>, length |-> best + RunBitsOf(chosen)]

Planned(end) == Plan(Cheapest(end), Chosen(end, Cheapest(end)))
Analyze(msg) == Planned(Advanced(msg, Start))
=============================================================================
