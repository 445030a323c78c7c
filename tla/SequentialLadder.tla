-------------------------- MODULE SequentialLadder --------------------------
(***************************************************************************)
(* What the concurrent region search promises (the comment on runRouteSlots *)
(* in internal/read/read.go): the outcome of trying the routes one after   *)
(* the other, stopping at the first that decodes.  Once the caller quits, a *)
(* route may stop at any stage and find less than it would.                *)
(***************************************************************************)
EXTENDS Integers

CONSTANT Count        \* routes, tried in the order 1 .. Count

VARIABLES outcome,    \* what each route finds: "none", "located" or "decoded"
          quit,       \* the caller has given up
          next,       \* the route tried next
          finding,    \* the route whose geometry stands, or what stood before
          verdict     \* Searching, Failed, or the route that decoded

NoFinding == 0        \* *f before anything was located
Prior     == -1       \* what an earlier route had located
Searching == -2
Failed    == -3

vars == <<outcome, quit, next, finding, verdict>>

Init ==
  /\ outcome \in [1 .. Count -> {"none", "located", "decoded"}]
  /\ quit = FALSE
  /\ next = 1
  /\ finding \in {NoFinding, Prior}
  /\ verdict = Searching

\* A decode always publishes its finding; a locate-only result never overwrites
\* an earlier locate.
Replaces(result, f) == result = "decoded" \/ (result = "located" /\ f = NoFinding)

Results(s) ==
  {outcome[s]} \cup IF ~quit THEN {}
                    ELSE {"none"} \cup (IF outcome[s] = "none" THEN {} ELSE {"located"})

TryNext ==
  /\ verdict = Searching
  /\ next <= Count
  /\ \E result \in Results(next) :
       /\ finding' = IF Replaces(result, finding) THEN next ELSE finding
       /\ IF result = "decoded" THEN verdict' = next /\ UNCHANGED next
                                ELSE next' = next + 1 /\ UNCHANGED verdict
  /\ UNCHANGED <<outcome, quit>>

GiveUp ==
  /\ verdict = Searching
  /\ next = Count + 1
  /\ verdict' = Failed
  /\ UNCHANGED <<outcome, quit, next, finding>>

CallerQuits ==
  /\ ~quit
  /\ quit' = TRUE
  /\ UNCHANGED <<outcome, next, finding, verdict>>

Next == TryNext \/ GiveUp \/ CallerQuits

Spec == Init /\ [][Next]_vars /\ WF_vars(TryNext \/ GiveUp)
=============================================================================
