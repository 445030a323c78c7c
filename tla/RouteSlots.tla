----------------------------- MODULE RouteSlots -----------------------------
(***************************************************************************)
(* The concurrent region search of one level: runRouteSlots and the CPU    *)
(* route-body semaphore of internal/read/read.go.                          *)
(*                                                                         *)
(* Each proposed region is a route with a slot of its own.  All routes run *)
(* at once, each inside one of the process-wide CPU bodies; the searching  *)
(* goroutine joins them in slot order and stops at the first that decoded. *)
(* A route is cancelled when a lower slot has won, or when the caller's    *)
(* own quit hook (outerQuit) turns true.                                   *)
(***************************************************************************)
EXTENDS Integers, FiniteSets

CONSTANTS Count,        \* len(plans), the regions searched
          Bodies        \* cap(cpuRouteBodies)

ASSUME CountAssumption == Count \in Nat \ {0}
ASSUME BodiesAssumption == Bodies \in Nat \ {0}

Slots    == 1 .. Count
NoWinner == Count + 1

NoFinding == 0          \* *f before anything was located
PriorFinding     == -1         \* what an earlier route had located
Searching == -2
Failed    == -3

VARIABLES
  outcome,     \* what each route finds when nobody cancels it
  outerQuit,   \* the caller's hook
  pc,          \* where each slot's goroutine is; "end" once done[slot] closed
  loaded,      \* its load of the winner
  results,     \* results[slot]: the stage, and whether rf located anything
  winner,      \* the atomic
  bodies,      \* the slots holding a CPU body
  next,        \* the slot the searching goroutine joins next
  finding,     \* *f
  verdict      \* Searching, Failed or the slot returned

searchVars == <<outcome, outerQuit, pc, loaded, results, winner, bodies, next, finding,
          verdict>>

SlotQuit(s) == outerQuit \/ winner < s

SearchInit ==
  /\ outcome \in [Slots -> {"none", "located", "decoded"}]
  /\ outerQuit = FALSE
  /\ pc = [s \in Slots |-> "start"]
  /\ loaded = [s \in Slots |-> NoWinner]
  /\ results = [s \in Slots |-> "unset"]
  /\ winner = NoWinner
  /\ bodies = {}
  /\ next = 1
  /\ finding \in {NoFinding, PriorFinding}
  /\ verdict = Searching

Goto(s, label) == pc' = [pc EXCEPT ![s] = label]
Store(s, r) == results' = [results EXCEPT ![s] = r]

\* The hook is polled before the route body, again once a CPU body was acquired,
\* and between the stages of the body.
StartSlot(s) ==
  /\ pc[s] = "start"
  /\ IF SlotQuit(s) THEN Store(s, "none") /\ Goto(s, "end")
                    ELSE Goto(s, "acquire") /\ UNCHANGED results
  /\ UNCHANGED <<outcome, outerQuit, loaded, winner, bodies, next, finding, verdict>>

AcquireBody(s) ==
  /\ pc[s] = "acquire"
  /\ Cardinality(bodies) < Bodies
  /\ bodies' = bodies \cup {s}
  /\ Goto(s, "recheck")
  /\ UNCHANGED <<outcome, outerQuit, loaded, results, winner, next, finding, verdict>>

\* Mutant: a route that lost while it waited keeps its body.
RecheckQuitLeaks(s) ==
  /\ pc[s] = "recheck"
  /\ IF SlotQuit(s) THEN Store(s, "none") /\ Goto(s, "end")
                    ELSE Goto(s, "run") /\ UNCHANGED results
  /\ UNCHANGED <<outcome, outerQuit, loaded, winner, bodies, next, finding, verdict>>

RecheckQuit(s) ==
  /\ pc[s] = "recheck"
  /\ IF SlotQuit(s)
       THEN bodies' = bodies \ {s} /\ Store(s, "none") /\ Goto(s, "end")
       ELSE Goto(s, "run") /\ UNCHANGED <<bodies, results>>
  /\ UNCHANGED <<outcome, outerQuit, loaded, winner, next, finding, verdict>>

\* The body runs to its end, or stops at a stage boundary after quit turned
\* true, with or without the geometry it had located.
RunBody(s) ==
  /\ pc[s] = "run"
  /\ \/ Store(s, outcome[s])
     \/ SlotQuit(s) /\ Store(s, "none")
     \/ SlotQuit(s) /\ outcome[s] # "none" /\ Store(s, "located")
  /\ bodies' = bodies \ {s}
  /\ Goto(s, IF results'[s] = "decoded" THEN "load" ELSE "end")
  /\ UNCHANGED <<outcome, outerQuit, loaded, winner, next, finding, verdict>>

CommitLoad(s) ==
  /\ pc[s] = "load"
  /\ loaded' = [loaded EXCEPT ![s] = winner]
  /\ Goto(s, IF s >= winner THEN "end" ELSE "cas")
  /\ UNCHANGED <<outcome, outerQuit, results, winner, bodies, next, finding, verdict>>

\* Mutant: a failed swap is retried without a fresh load.
CommitSwapStale(s) ==
  /\ pc[s] = "cas"
  /\ IF winner = loaded[s] THEN winner' = s /\ Goto(s, "end")
                           ELSE UNCHANGED <<winner, pc>>
  /\ UNCHANGED <<outcome, outerQuit, loaded, results, bodies, next, finding, verdict>>

CommitSwap(s) ==
  /\ pc[s] = "cas"
  /\ IF winner = loaded[s] THEN winner' = s /\ Goto(s, "end")
                           ELSE UNCHANGED winner /\ Goto(s, "load")
  /\ UNCHANGED <<outcome, outerQuit, loaded, results, bodies, next, finding, verdict>>

Slot(s) == \/ StartSlot(s) \/ AcquireBody(s) \/ RecheckQuit(s) \/ RunBody(s)
           \/ CommitLoad(s) \/ CommitSwap(s)

\* Mutant: a later locate overwrites an earlier one.
JoinLastLocate ==
  /\ verdict = Searching
  /\ next \in Slots
  /\ pc[next] = "end"
  /\ finding' = IF results[next] # "none" THEN next ELSE finding
  /\ IF results[next] = "decoded" THEN verdict' = next /\ UNCHANGED next
                                  ELSE next' = next + 1 /\ UNCHANGED verdict
  /\ UNCHANGED <<outcome, outerQuit, pc, loaded, results, winner, bodies>>

\* The ordered join: wait for the slot, update the finding, stop at a decode.
JoinSlot ==
  /\ verdict = Searching
  /\ next \in Slots
  /\ pc[next] = "end"
  /\ finding' = IF \/ results[next] = "decoded"
                   \/ results[next] = "located" /\ finding = NoFinding
                  THEN next ELSE finding
  /\ IF results[next] = "decoded" THEN verdict' = next /\ UNCHANGED next
                                  ELSE next' = next + 1 /\ UNCHANGED verdict
  /\ UNCHANGED <<outcome, outerQuit, pc, loaded, results, winner, bodies>>

JoinedAll ==
  /\ verdict = Searching
  /\ next = Count + 1
  /\ verdict' = Failed
  /\ UNCHANGED <<outcome, outerQuit, pc, loaded, results, winner, bodies, next, finding>>

\* Another route of the read decoded: the hook stays true from then on.
CallerQuit ==
  /\ ~outerQuit
  /\ outerQuit' = TRUE
  /\ UNCHANGED <<outcome, pc, loaded, results, winner, bodies, next, finding, verdict>>

Finished == verdict # Searching /\ \A s \in Slots : pc[s] = "end"

Terminated == Finished /\ UNCHANGED searchVars

SearchNext == (\E s \in Slots : Slot(s)) \/ JoinSlot \/ JoinedAll \/ CallerQuit \/ Terminated

Fairness == WF_searchVars(JoinSlot \/ JoinedAll) /\ \A s \in Slots : WF_searchVars(Slot(s))

SearchSpec == SearchInit /\ [][SearchNext]_searchVars /\ Fairness

-----------------------------------------------------------------------------

\* A CPU body is held by a running route and by nothing else, so a route that
\* lost while it waited gives its body back.
BodiesHeldByRunning ==
  bodies = {s \in Slots : pc[s] \in {"recheck", "run"}}

\* The search returns and every straggler behind it ends.
EveryRouteEnds == <>Finished

Ladder == INSTANCE SequentialLadder WITH quit <- outerQuit

\* ARCHITECTURE.md:649-652: the winning route and the published finding match a
\* sequential pass exactly; a caller that quits may lose results, never reorder
\* them.
ImplementsSequentialLadder == Ladder!Spec
=============================================================================
