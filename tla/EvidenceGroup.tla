--------------------------- MODULE EvidenceGroup ---------------------------
(***************************************************************************)
(* The content evidence a Stream retains for the one symbol it follows:    *)
(* internal/read/evidencegroup.go.  A group is a record; each operator is  *)
(* one of the file's functions, from the group before to the group after.  *)
(*                                                                         *)
(* Evidence is a function from the code's bits to signed integers, in      *)
(* quarters of evidenceFrameCap: one frame gives a bit at most Unit, and   *)
(* votes on it (evidenceStrongBit) from Strong on.  The smallest step is   *)
(* far above evidenceDuplicateTolerance, so near duplicates are equals.    *)
(* A snapshot is a record of which ev (NoEvidence for the layouts the      *)
(* accumulator does not support), layout, pos and fix are read here.       *)
(***************************************************************************)
EXTENDS Integers, Sequences, FiniteSets, SequencesExt

CONSTANTS Bits,         \* the code's bits
          GroupCap,     \* evidenceGroupCap
          ResetAfter,   \* evidenceResetAfter
          MinOverlap,   \* evidenceMinOverlapBits
          Span          \* how far from its anchor a symbol is still the same track

ASSUME EvidenceAssumption ==
  /\ IsFiniteSet(Bits) /\ Bits # {}
  /\ {GroupCap, ResetAfter, MinOverlap} \subseteq Nat \ {0}
  /\ Span \in Nat

Unit   == 4
Strong == 2

NoEvidence == [i \in {} |-> 0]
NoAttempt  == [made |-> FALSE, hard |-> {}, units |-> [i \in Bits |-> 0]]
NoCode     == "none"

EmptyGroup ==
  [snaps |-> <<>>, anchor |-> 0, fix |-> 0, reanchored |-> FALSE, layout |-> 0,
   rejects |-> 0, fresh |-> FALSE, attempt |-> NoAttempt,
   confirmed |-> NoCode, signature |-> {}, disabled |-> FALSE]

Magnitude(v) == IF v < 0 THEN -v ELSE v
Votes(ev)    == {i \in DOMAIN ev : Magnitude(ev[i]) >= Strong}
Hard(ev)     == {i \in DOMAIN ev : ev[i] < 0}

\* accumulatedEvidence: the bounded window is summed afresh every time.
Signed(snaps) == [i \in Bits |-> SumFunction([n \in DOMAIN snaps |-> snaps[n][i]])]
Units(snaps) ==
  [i \in Bits |-> SumFunction([n \in DOMAIN snaps |-> Magnitude(snaps[n][i])]) \div Unit]

\* Mutant: half of the strong overlap may disagree.
ContentConflictByHalf(snaps, ev) ==
  LET sum     == Signed(snaps)
      overlap == Votes(ev) \cap Votes(sum)
      against == {i \in overlap : (ev[i] < 0) # (sum[i] < 0)}
  IN  /\ Cardinality(overlap) >= MinOverlap
      /\ Cardinality(against) * 2 > Cardinality(overlap)

ContentConflict(snaps, ev) ==
  LET sum     == Signed(snaps)
      overlap == Votes(ev) \cap Votes(sum)
      against == {i \in overlap : (ev[i] < 0) # (sum[i] < 0)}
  IN  /\ Cardinality(overlap) >= MinOverlap
      /\ Cardinality(against) * 4 > Cardinality(overlap)

ConfirmedMatch(g, ev) ==
  /\ g.confirmed # NoCode
  /\ \A i \in Votes(ev) : (ev[i] < 0) = (i \in g.signature)
  /\ Cardinality(Votes(ev)) >= MinOverlap
  /\ Cardinality(Votes(ev)) * 4 >= Cardinality(Bits) * 3

SameTrack(g, pos) == Magnitude(pos - g.anchor) <= Span

\* Mutant: the group outlives every mismatch.
RejectOnly(g) == [g EXCEPT !.rejects = IF @ + 1 < ResetAfter THEN @ + 1 ELSE @]

Reject(g) ==
  IF g.rejects + 1 >= ResetAfter THEN EmptyGroup
                                 ELSE [g EXCEPT !.rejects = @ + 1]

Foreign(g, s) ==
  \/ s.layout # g.layout
  \/ ~SameTrack(g, s.pos)
  \/ g.confirmed # NoCode /\ ~ConfirmedMatch(g, s.ev)
  \/ ContentConflict(g.snaps, s.ev)

Anchored(s) ==
  [EmptyGroup EXCEPT !.snaps = <<s.ev>>, !.anchor = s.pos, !.fix = s.fix,
                     !.layout = s.layout, !.fresh = TRUE]

\* The oldest snapshot falls off a full window; the one re-anchor is spent on
\* the first strictly better observation.
Joined(g, s) ==
  LET kept    == IF Len(g.snaps) >= GroupCap THEN Tail(g.snaps) ELSE g.snaps
      better  == s.fix > g.fix /\ ~g.reanchored
  IN  [g EXCEPT !.snaps = Append(kept, s.ev),
                !.rejects = 0,
                !.fresh = TRUE,
                !.anchor = IF better THEN s.pos ELSE @,
                !.fix = IF better THEN s.fix ELSE @,
                !.reanchored = @ \/ better]

Admission(g, admitted, changed) ==
  [group |-> g, admitted |-> admitted, changed |-> changed]

Known(g, ev) == ev \in ToSet(g.snaps)

\* Mutant: an observation the group already holds is stored again.
AdmitRepeated(g, s) ==
  IF s.ev = NoEvidence THEN Admission(g, FALSE, FALSE)
  ELSE IF g.snaps = <<>> THEN Admission(Anchored(s), TRUE, TRUE)
  ELSE IF Foreign(g, s) THEN Admission(Reject(g), FALSE, FALSE)
  ELSE Admission(Joined(g, s), TRUE, TRUE)

Admit(g, s) ==
  IF s.ev = NoEvidence THEN Admission(g, FALSE, FALSE)
  ELSE IF g.snaps = <<>> THEN Admission(Anchored(s), TRUE, TRUE)
  ELSE IF Foreign(g, s) THEN Admission(Reject(g), FALSE, FALSE)
  ELSE IF Known(g, s.ev) THEN Admission([g EXCEPT !.rejects = 0], TRUE, FALSE)
  ELSE Admission(Joined(g, s), TRUE, TRUE)

\* The syndrome weight the code also compares is a function of the hard bits,
\* and is lower only where they differ.
CorrectionDue(g) ==
  /\ ~g.disabled
  /\ Len(g.snaps) >= 2
  /\ g.fresh
  /\ \/ ~g.attempt.made
     \/ Hard(Signed(g.snaps)) # g.attempt.hard
     \/ \E i \in Bits : Units(g.snaps)[i] > g.attempt.units[i]

RecordAttempt(g) ==
  [g EXCEPT !.fresh = FALSE,
            !.attempt = [made |-> TRUE, hard |-> Hard(Signed(g.snaps)),
                         units |-> Units(g.snaps)]]

Confirm(g, code) ==
  [g EXCEPT !.confirmed = code, !.signature = Hard(Signed(g.snaps))]

\* A frame decoded by itself replaces the group, and is confirmed when the
\* accumulator supports its layout.
Restart(g, s, code) ==
  LET afresh == Admit(EmptyGroup, s)
  IN  IF afresh.admitted THEN Confirm(afresh.group, code) ELSE afresh.group

=============================================================================
