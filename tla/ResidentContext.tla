--------------------------- MODULE ResidentContext ---------------------------
(***************************************************************************)
(* The buffers of one route context over the submissions its holders make. *)
(* Every buffer carries the stamps of what it derives from.  What a        *)
(* submission does to them, its effect, comes from the command list the    *)
(* code records for it, run by CommandRun; the modules that extend this one *)
(* name the lists of their operations.                                     *)
(***************************************************************************)
EXTENDS CommandRun

VARIABLES
  content,   \* per live buffer, what it derives from
  clashes    \* dispatches seen to touch a buffer that was still being written

\* What a buffer can derive from, by age: the lease before or an older one, a
\* pass of this lease before the current one, the current pass, and a
\* submission that broke off on the device.
Earlier == "earlier"
Before  == "before"
Current == "current"
Torn    == "torn"

\* The buffers whose content ever matters to operations of these effects: shown
\* to the host, or read by an operation before it writes them.
LiveIn(effects) ==
  LET readBy[bs \in SUBSET Buffers] ==
        LET more == bs \cup (UNION {effects[op].origin[b] : op \in DOMAIN effects, b \in bs}
                              \ {"now"})
        IN  IF more = bs THEN bs ELSE readBy[more]
  IN  readBy[(UNION {effects[op].shown : op \in DOMAIN effects}) \ {"now"}] \ Outside

\* The stamps of what comes from the given origins in buffers that hold this:
\* "now" is what the submission brings, and what lies outside the context
\* carries none.
StampsOf(origins, held, now) ==
  (IF "now" \in origins THEN now ELSE {})
    \cup UNION {held[b] : b \in origins \cap DOMAIN held}

\* The content after an effect, or after it failed on the device at any point:
\* then a buffer it writes holds some of the old, of the new, or neither.
After(effect, held, now) == [b \in DOMAIN held |-> StampsOf(effect.origin[b], held, now)]
TornBy(effect, held, now) ==
  [b \in DOMAIN held |->
     IF effect.origin[b] = {b} THEN held[b]
     ELSE held[b] \cup StampsOf(effect.origin[b], held, now) \cup {Torn}]

\* The buffers an effect does not touch.
Leaves(effect, bs) == \A b \in bs : effect.origin[b] = {b}

\* A submission succeeds, never reaches the device, or fails on it.
Take(effect, held, now) ==
  /\ content' = After(effect, held, now)
  /\ clashes' = clashes \cup effect.clashes
Break(effect, now) ==
  /\ content' = TornBy(effect, content, now)
  /\ clashes' = clashes \cup effect.clashes
Refuse          == UNCHANGED <<content, clashes>>
Succeed(effect) == Take(effect, content, {Current})
FailOn(effect)  == Refuse \/ Break(effect, {Current})

\* What the host was shown by it.
ShownBy(effect, now) == StampsOf(effect.shown, content, now)

\* The submission that begins a pass makes the pass before it an earlier one.
Older(stamps) == {IF s = Current THEN Before ELSE s : s \in stamps}
SucceedAnew(effect) == Take(effect, [b \in DOMAIN content |-> Older(content[b])], {Current})

\* What its next holder finds in the context: whatever was there before.
BufferInit(live) ==
  /\ content = [b \in live |-> {Earlier}]
  /\ clashes = {}

\* What the host is shown belongs to this lease, and to its current pass.
OfThisLease(stamps) == stamps \subseteq {Before, Current}
Own(stamps) == Current \in stamps /\ OfThisLease(stamps)

\* Every command list separates the dispatches that share a buffer: none reads
\* or writes what an earlier one of the same submission is still writing.
BarriersSuffice == clashes = {}
=============================================================================
