------------------------ MODULE RoutePyramidProofs ------------------------
(***************************************************************************)
(* Proofs about the route pyramid, for every number of levels and every    *)
(* set of images.                                                          *)
(***************************************************************************)
EXTENDS RoutePyramid, TLAPS

\* A goroutine only ever works for its own slots.
OwnSlots(w) == IF w = Seeder THEN {SeededSlot} ELSE {FrameSlot(w), SearchSlot(w)}

Ownership == \A w \in Workers : slot[w] \in OwnSlots(w)

\* No result is written twice: a route that still has to run has not written
\* its own, nor a level its search's before it enters the search.
Fresh ==
  \A w \in Workers :
    /\ pc[w] \in {"run", "recv"} => results[slot[w]] = "unset"
    /\ w # Seeder /\ slot[w] = FrameSlot(w) => results[SearchSlot(w)] = "unset"
    /\ pc[w] = "branch" => w # Seeder /\ slot[w] = FrameSlot(w)
    /\ pc[w] = "recv" => w = Seeder

\* A goroutine inside commit has decoded, and swaps only a worse slot out.
CommitSound ==
  \A w \in Workers :
    /\ pc[w] \in {"load", "cas", "publish"} => results[slot[w]] = "ok"
    /\ pc[w] = "cas" => slot[w] < loaded[w]

IInv == TypeOK /\ Ownership /\ Fresh /\ CommitSound /\ WinnerIsBest
               /\ CancelledByADecode

(***************************************************************************)
(* What the refinement needs beyond it: that the routes' results, the      *)
(* slots given up, the seed and what reached the reader tell the truth     *)
(* about the image.                                                        *)
(***************************************************************************)

\* Who gave up has been beaten, and stays beaten: the winner only sinks.
Beaten(s) == winner # NoWinner /\ (exhaustive => winner < s)

StayBeaten == \A s \in abandoned : Beaten(s)

\* A level past its frame has its result, and the results of a level are the
\* image's, unless the route gave up.
LevelTrue(w) ==
  /\ pc[w] # "run" \/ slot[w] = SearchSlot(w) => results[FrameSlot(w)] # "unset"
  /\ results[FrameSlot(w)] = "ok" => FrameSlot(w) \in image.good
  /\ results[FrameSlot(w)] = "failed" =>
       FrameSlot(w) \notin image.good \/ FrameSlot(w) \in abandoned
  /\ pc[w] = "run" /\ slot[w] = SearchSlot(w) => Searched(w)
  /\ results[SearchSlot(w)] = "ok" => Searched(w) /\ SearchSlot(w) \in image.good
  /\ slot[w] = SearchSlot(w) /\ pc[w] # "run" /\ results[SearchSlot(w)] # "ok" =>
       ~ Searched(w) \/ SearchSlot(w) \notin image.good \/ SearchSlot(w) \in abandoned

LevelsTrue == \A w \in Levels : LevelTrue(w)

\* A done channel is closed by its slot's owner, when the result stands.
DoneTrue ==
  /\ \A w \in Workers : slot[w] \in done => pc[w] \in {"branch", "end"}
  /\ \A w \in Levels : SearchSlot(w) \in done => slot[w] = SearchSlot(w)

\* The seed is what the coarsest level found, all of it unless that level was
\* beaten, and then by another route than the one waiting for the seed.
Coarsest == {0, SearchSlot(0)}
FrameFinding == IF image.fLoc THEN "frame" ELSE "none"

\* The coarsest frame read is over, its search is not.
SearchAhead == \/ slot[0] = 0 /\ pc[0] # "run"
               \/ slot[0] = SearchSlot(0) /\ pc[0] = "run"

SeedTrue ==
  /\ \A w \in Workers : pc[w] = "seed" => w = 0 /\ slot[0] = SearchSlot(0)
  /\ seed = "empty" => pc[Seeder] = "recv"
  /\ seed # "empty" => slot[0] = SearchSlot(0) /\ pc[0] \in {"close", "end"}
  /\ pc[0] = "run" /\ slot[0] = 0 => found = "none"
  /\ 0 \notin abandoned /\ SearchAhead => found = FrameFinding
  /\ abandoned \cap Coarsest = {} /\ slot[0] = SearchSlot(0) /\ pc[0] # "run" =>
       found = FullFinding
  /\ abandoned \cap Coarsest = {} /\ seed # "empty" => seed = FullFinding
  /\ abandoned \cap Coarsest # {} => \E t \in Decoded : t # SeededSlot

\* The seeded route runs only when the coarsest frame cannot decode.
SeededTrue ==
  /\ pc[Seeder] = "run" => 0 \notin image.good
  /\ results[SeededSlot] = "ok" => 0 \notin image.good /\ seed \in image.seeds
  /\ pc[Seeder] \notin {"recv", "run"} /\ results[SeededSlot] # "ok" =>
       seed \notin image.seeds \/ SeededSlot \in abandoned

\* What is published decoded, and whatever decoded is published or about to be.
PublishedTrue ==
  /\ \A i \in 1 .. Len(settled) : settled[i] \in Decoded
  /\ ~exhaustive /\ ret = Reading => \A s \in Decoded :
       \/ \E i \in 1 .. Len(settled) : settled[i] = s
       \/ \E w \in Workers : slot[w] = s /\ pc[w] \in {"load", "cas", "publish"}

\* The exhaustive reader has passed only slots that did not decode.
WalkTrue ==
  exhaustive => \A s \in Slots : s < walk => s \in done /\ results[s] # "ok"

RInv == /\ IInv
        /\ StayBeaten /\ LevelsTrue /\ DoneTrue /\ SeedTrue /\ SeededTrue
        /\ PublishedTrue /\ WalkTrue

-----------------------------------------------------------------------------
\* The slots of two goroutines are disjoint, and a level's two slots differ.
LEMMA SlotLayout ==
  /\ \A w \in Workers : OwnSlots(w) \subseteq Slots
  /\ \A v, w \in Workers : v # w => OwnSlots(v) \cap OwnSlots(w) = {}
  /\ \A w \in Workers : w # Seeder => /\ FrameSlot(w) # SearchSlot(w)
                                      /\ FrameSlot(w) \in FrameSlots
                                      /\ SearchSlot(w) \notin FrameSlots
                                      /\ w \in Levels
  /\ SeededSlot \notin FrameSlots
BY LevelsAssumption DEF OwnSlots, Workers, Slots, Seeder, SeededSlot, FrameSlot,
   SearchSlot, FrameSlots, Levels

\* The type invariant holds initially and every step preserves it.
LEMMA TypeInit == Init => TypeOK
BY LevelsAssumption, InputsAssumption DEF Init, TypeOK, Workers, Slots, Seeder,
   SeededSlot, FrameSlot, NoWinner, Findings, Labels, Reading

LEMMA TypeNext == TypeOK /\ Fresh /\ [Next]_vars => TypeOK'
<1> SUFFICES ASSUME TypeOK, Fresh, [Next]_vars PROVE TypeOK'
  OBVIOUS
<1> USE DEF TypeOK, Labels
<1>1. ASSUME NEW w \in Workers, RouteDecodes(w) PROVE TypeOK'
  BY <1>1 DEF RouteDecodes, Locate, Goto, AfterSearch, Findings
<1>2. ASSUME NEW w \in Workers, RouteFails(w) PROVE TypeOK'
  BY <1>2 DEF RouteFails, Locate, Goto, AfterSearch, Findings, AfterResult
<1>3. ASSUME NEW w \in Workers, RouteAbandons(w) PROVE TypeOK'
  BY <1>3 DEF RouteAbandons, Locate, Goto, AfterSearch, Findings, AfterResult
<1>4. ASSUME NEW w \in Workers, CommitLoad(w) PROVE TypeOK'
  BY <1>4 DEF CommitLoad, Goto
<1>5. ASSUME NEW w \in Workers, CommitSwap(w) PROVE TypeOK'
  BY <1>5 DEF CommitSwap, Goto
<1>6. ASSUME NEW w \in Workers, Publish(w) PROVE TypeOK'
  BY <1>6 DEF Publish, Goto, AfterResult
<1>7. ASSUME NEW w \in Workers, CloseSlot(w) PROVE TypeOK'
  BY <1>7 DEF CloseSlot, Goto
<1>8. ASSUME NEW w \in Workers, EnterSearch(w) PROVE TypeOK'
  BY <1>8, LevelsAssumption
  DEF EnterSearch, Goto, Fresh, SearchSlot, Slots, Workers, Levels, Seeder
<1>9. ASSUME NEW w \in Workers, SkipSearch(w) PROVE TypeOK'
  BY <1>9, LevelsAssumption
  DEF SkipSearch, Goto, Fresh, SearchSlot, Slots, Workers, Levels, Seeder
<1>10. ASSUME NEW w \in Workers, SendSeed(w) PROVE TypeOK'
  BY <1>10 DEF SendSeed, Goto
<1>11. ASSUME NEW w \in Workers, ReceiveSeed(w) PROVE TypeOK'
  <2>1. SeededSlot \in Slots
    BY LevelsAssumption DEF SeededSlot, Slots
  <2>2. abandoned' \subseteq Slots
    BY <1>11, <2>1 DEF ReceiveSeed
  <2>3. pc' \in [Workers -> Labels]
    BY <1>11 DEF ReceiveSeed, Goto
  <2> QED
    BY <1>11, <2>2, <2>3 DEF ReceiveSeed
<1>12. CASE Reader
  <2>1. CASE ReturnSettled
    <3>1. Head(settled) \in Slots /\ Tail(settled) \in Seq(Slots)
      BY <2>1 DEF ReturnSettled
    <3> QED
      BY <2>1, <3>1 DEF ReturnSettled, workerVars
  <2>2. CASE ReturnJoined
    BY <2>2 DEF ReturnJoined, workerVars
  <2>3. CASE JoinNext
    BY <2>3, LevelsAssumption DEF JoinNext, workerVars, Slots
  <2> QED
    BY <1>12, <2>1, <2>2, <2>3 DEF Reader
<1>13. CASE UNCHANGED vars
  BY <1>13 DEF vars
<1> QED
  BY <1>1, <1>2, <1>3, <1>4, <1>5, <1>6, <1>7, <1>8, <1>9, <1>10, <1>11, <1>12,
     <1>13 DEF Next, Worker, Terminated

\* Only the step into a level's search slot changes what a goroutine works for.
LEMMA OwnershipNext ==
  TypeOK /\ Ownership /\ Fresh /\ [Next]_vars => Ownership'
<1> SUFFICES ASSUME TypeOK, Ownership, Fresh, [Next]_vars PROVE Ownership'
  OBVIOUS
<1>1. ASSUME NEW w \in Workers, EnterSearch(w) \/ SkipSearch(w) PROVE Ownership'
  <2>1. slot' = [slot EXCEPT ![w] = SearchSlot(w)] /\ w # Seeder
    BY <1>1 DEF EnterSearch, SkipSearch, Fresh
  <2> QED
    BY <2>1 DEF Ownership, OwnSlots, TypeOK
<1>2. CASE UNCHANGED slot
  BY <1>2 DEF Ownership
<1>3. \/ UNCHANGED slot
      \/ \E w \in Workers : EnterSearch(w) \/ SkipSearch(w)
  BY DEF Next, Worker, RouteDecodes, RouteFails, RouteAbandons, CommitLoad,
     CommitSwap, Publish, CloseSlot, SendSeed, ReceiveSeed, Reader, ReturnSettled,
     ReturnJoined, JoinNext, Terminated, vars, workerVars
<1> QED
  BY <1>1, <1>2, <1>3

\* A running route writes its own result; every other goroutine's slots keep
\* theirs.
LEMMA OthersKeepResults ==
  ASSUME TypeOK, Ownership, NEW w \in Workers, NEW v \in Workers, v # w,
         NEW r \in {"ok", "failed"},
         results' = [results EXCEPT ![slot[w]] = r]
  PROVE  \A s \in OwnSlots(v) : results'[s] = results[s]
BY SlotLayout DEF TypeOK, Ownership

LEMMA FreshNext ==
  TypeOK /\ Ownership /\ Fresh /\ [Next]_vars => Fresh'
<1> SUFFICES ASSUME TypeOK, Ownership, Fresh, [Next]_vars PROVE Fresh'
  OBVIOUS
<1>1. ASSUME NEW w \in Workers,
             RouteDecodes(w) \/ RouteFails(w) \/ RouteAbandons(w)
      PROVE  Fresh'
  <2>1. PICK r \in {"ok", "failed"} : results' = [results EXCEPT ![slot[w]] = r]
    BY <1>1 DEF RouteDecodes, RouteFails, RouteAbandons
  <2>2. UNCHANGED slot /\ \E l \in {"load", "seed", "close"} : pc' = [pc EXCEPT ![w] = l]
    BY <1>1 DEF RouteDecodes, RouteFails, RouteAbandons, Goto, AfterResult
  <2>3. \A v \in Workers \ {w} : \A s \in OwnSlots(v) : results'[s] = results[s]
    BY <2>1, OthersKeepResults
  <2>4. \A v \in Workers : slot[v] \in OwnSlots(v)
                           /\ (v # Seeder => SearchSlot(v) \in OwnSlots(v))
    BY DEF Ownership, OwnSlots
  <2>5. w # Seeder /\ slot[w] = FrameSlot(w) =>
          results'[SearchSlot(w)] = results[SearchSlot(w)]
    BY <2>1, <2>4, SlotLayout DEF TypeOK
  <2> QED
    BY <2>2, <2>3, <2>4, <2>5 DEF Fresh, TypeOK
<1>2. ASSUME NEW w \in Workers, CommitLoad(w) \/ CommitSwap(w) \/ Publish(w)
      PROVE  Fresh'
  <2>1. /\ UNCHANGED <<slot, results>>
        /\ \E l \in {"load", "cas", "publish", "seed", "close"} :
             pc' = [pc EXCEPT ![w] = l]
    BY <1>2 DEF CommitLoad, CommitSwap, Publish, Goto, AfterResult
  <2> QED
    BY <2>1 DEF Fresh, TypeOK
<1>3. ASSUME NEW w \in Workers, CloseSlot(w) PROVE Fresh'
  <2>1. slot[w] \in FrameSlots => w # Seeder /\ slot[w] = FrameSlot(w)
    <3>1. CASE w = Seeder
      BY <3>1, SlotLayout DEF Ownership, OwnSlots
    <3>2. CASE w # Seeder
      <4>1. SearchSlot(w) \notin FrameSlots
        BY <3>2, SlotLayout
      <4> QED
        BY <3>2, <4>1 DEF Ownership, OwnSlots
    <3> QED
      BY <3>1, <3>2
  <2> QED
    BY <1>3, <2>1 DEF CloseSlot, Goto, Fresh, TypeOK
<1>4. ASSUME NEW w \in Workers, EnterSearch(w) \/ SkipSearch(w) PROVE Fresh'
  <2>1. /\ UNCHANGED results
        /\ slot' = [slot EXCEPT ![w] = SearchSlot(w)]
        /\ \E l \in {"run", "seed", "close"} : pc' = [pc EXCEPT ![w] = l]
    BY <1>4 DEF EnterSearch, SkipSearch, Goto
  <2>2. w # Seeder /\ slot[w] = FrameSlot(w) /\ results[SearchSlot(w)] = "unset"
    BY <1>4 DEF EnterSearch, SkipSearch, Fresh
  <2>3. FrameSlot(w) # SearchSlot(w)
    BY <2>2, SlotLayout
  <2> QED
    BY <2>1, <2>2, <2>3 DEF Fresh, TypeOK
<1>5. ASSUME NEW w \in Workers, SendSeed(w) PROVE Fresh'
  BY <1>5 DEF SendSeed, Goto, Fresh, TypeOK
<1>6. ASSUME NEW w \in Workers, ReceiveSeed(w) PROVE Fresh'
  <2>1. UNCHANGED <<slot, results>> /\ pc[w] = "recv"
        /\ \E l \in {"run", "close"} : pc' = [pc EXCEPT ![w] = l]
    BY <1>6 DEF ReceiveSeed, Goto
  <2> QED
    BY <2>1 DEF Fresh, TypeOK
<1>7. CASE UNCHANGED <<pc, slot, results>>
  BY <1>7 DEF Fresh
<1>8. Reader \/ Terminated \/ UNCHANGED vars => UNCHANGED <<pc, slot, results>>
  BY DEF Reader, ReturnSettled, ReturnJoined, JoinNext, Terminated, vars, workerVars
<1> QED
  BY <1>1, <1>2, <1>3, <1>4, <1>5, <1>6, <1>7, <1>8 DEF Next, Worker

LEMMA CommitSoundNext ==
  TypeOK /\ Ownership /\ Fresh /\ CommitSound /\ [Next]_vars => CommitSound'
<1> SUFFICES ASSUME TypeOK, Ownership, Fresh, CommitSound, [Next]_vars
             PROVE  CommitSound'
  OBVIOUS
<1>1. ASSUME NEW w \in Workers,
             RouteDecodes(w) \/ RouteFails(w) \/ RouteAbandons(w)
      PROVE  CommitSound'
  <2>1. PICK r \in {"ok", "failed"} : /\ results' = [results EXCEPT ![slot[w]] = r]
                                      /\ RouteDecodes(w) => r = "ok"
    BY <1>1 DEF RouteDecodes, RouteFails, RouteAbandons
  <2>2. /\ UNCHANGED <<slot, loaded>>
        /\ \/ RouteDecodes(w) /\ pc' = [pc EXCEPT ![w] = "load"]
           \/ \E l \in {"seed", "close"} : pc' = [pc EXCEPT ![w] = l]
    BY <1>1 DEF RouteDecodes, RouteFails, RouteAbandons, Goto, AfterResult
  <2>3. \A v \in Workers \ {w} : results'[slot[v]] = results[slot[v]]
    BY <2>1, OthersKeepResults DEF Ownership
  <2> QED
    BY <2>1, <2>2, <2>3 DEF CommitSound, TypeOK
<1>2. ASSUME NEW w \in Workers, CommitLoad(w) PROVE CommitSound'
  BY <1>2 DEF CommitLoad, Goto, CommitSound, TypeOK, Slots, NoWinner
<1>3. ASSUME NEW w \in Workers, CommitSwap(w) \/ Publish(w) PROVE CommitSound'
  <2>1. UNCHANGED <<slot, loaded, results>>
    BY <1>3 DEF CommitSwap, Publish
  <2>2. \/ pc[w] = "cas" /\ \E l \in {"load", "publish"} : pc' = [pc EXCEPT ![w] = l]
        \/ \E l \in {"seed", "close"} : pc' = [pc EXCEPT ![w] = l]
    BY <1>3 DEF CommitSwap, Publish, Goto, AfterResult
  <2> QED
    BY <2>1, <2>2 DEF CommitSound, TypeOK
<1>4. ASSUME NEW w \in Workers,
             \/ CloseSlot(w) \/ EnterSearch(w) \/ SkipSearch(w)
             \/ SendSeed(w) \/ ReceiveSeed(w)
      PROVE  CommitSound'
  <2>1. /\ UNCHANGED <<loaded, results>>
        /\ \E l \in {"branch", "end", "run", "seed", "close"} :
             pc' = [pc EXCEPT ![w] = l]
        /\ \A v \in Workers \ {w} : slot'[v] = slot[v]
    BY <1>4 DEF CloseSlot, EnterSearch, SkipSearch, SendSeed, ReceiveSeed, Goto, TypeOK
  <2> QED
    BY <2>1 DEF CommitSound, TypeOK
<1>5. CASE UNCHANGED <<pc, slot, loaded, results>>
  BY <1>5 DEF CommitSound
<1>6. Reader \/ Terminated \/ UNCHANGED vars
        => UNCHANGED <<pc, slot, loaded, results>>
  BY DEF Reader, ReturnSettled, ReturnJoined, JoinNext, Terminated, vars, workerVars
<1> QED
  BY <1>1, <1>2, <1>3, <1>4, <1>5, <1>6 DEF Next, Worker

\* No commit is lost: a swap only ever lowers the winner, and a route that
\* leaves commit leaves it at or below its own slot.
LEMMA WinnerNext ==
  TypeOK /\ Ownership /\ Fresh /\ CommitSound /\ WinnerIsBest /\ [Next]_vars
    => WinnerIsBest'
<1> SUFFICES ASSUME TypeOK, Ownership, Fresh, CommitSound, WinnerIsBest, [Next]_vars
             PROVE  WinnerIsBest'
  OBVIOUS
<1> USE DEF Decoded, InCommit
<1>1. ASSUME NEW w \in Workers,
             RouteDecodes(w) \/ RouteFails(w) \/ RouteAbandons(w)
      PROVE  WinnerIsBest'
  <2>1. pc[w] = "run" /\ results[slot[w]] = "unset" /\ slot[w] \in Slots
    BY <1>1 DEF RouteDecodes, RouteFails, RouteAbandons, Fresh, TypeOK
  <2>2. PICK r \in {"ok", "failed"} : /\ results' = [results EXCEPT ![slot[w]] = r]
                                      /\ RouteDecodes(w) <=> r = "ok"
    BY <1>1, <2>1 DEF RouteDecodes, RouteFails, RouteAbandons, TypeOK
  <2>3. UNCHANGED <<slot, winner>>
        /\ \E l \in {"load", "seed", "close"} :
             /\ pc' = [pc EXCEPT ![w] = l]
             /\ r = "ok" => l = "load"
    BY <1>1, <2>2 DEF RouteDecodes, RouteFails, RouteAbandons, Goto, AfterResult
  <2>4. winner # NoWinner => winner # slot[w] /\ results'[winner] = "ok"
    BY <2>1, <2>2 DEF WinnerIsBest, TypeOK
  <2>5. ASSUME NEW s \in Slots, results'[s] = "ok"
        PROVE  winner <= s \/ \E v \in Workers : slot[v] = s /\ InCommit(v)'
    <3>1. CASE s = slot[w]
      BY <2>2, <2>3, <2>5, <3>1 DEF TypeOK
    <3>2. CASE s # slot[w]
      <4>1. results[s] = "ok"
        BY <2>2, <2>5, <3>2 DEF TypeOK
      <4>2. \A v \in Workers : InCommit(v) => v # w /\ InCommit(v)'
        BY <2>1, <2>3 DEF TypeOK
      <4> QED
        BY <4>1, <4>2 DEF WinnerIsBest
    <3> QED
      BY <3>1, <3>2
  <2> QED
    BY <2>3, <2>4, <2>5 DEF WinnerIsBest
<1>2. ASSUME NEW w \in Workers, CommitLoad(w) PROVE WinnerIsBest'
  <2>1. UNCHANGED <<slot, winner, results>> /\ pc[w] = "load"
        /\ pc' = [pc EXCEPT ![w] = IF slot[w] >= winner THEN "publish" ELSE "cas"]
    BY <1>2 DEF CommitLoad, Goto
  <2>2. ASSUME NEW s \in Slots, results[s] = "ok", NEW v \in Workers,
               slot[v] = s, InCommit(v)
        PROVE  winner <= s \/ InCommit(v)'
    BY <2>1, <2>2 DEF TypeOK, Slots, NoWinner
  <2> QED
    BY <2>1, <2>2 DEF WinnerIsBest
<1>3. ASSUME NEW w \in Workers, CommitSwap(w) PROVE WinnerIsBest'
  <2>1. UNCHANGED <<slot, results>> /\ pc[w] = "cas" /\ slot[w] < loaded[w]
        /\ results[slot[w]] = "ok" /\ slot[w] \in Slots
    BY <1>3 DEF CommitSwap, CommitSound, TypeOK
  <2>2. CASE winner = loaded[w]
    <3>1. winner' = slot[w] /\ pc' = [pc EXCEPT ![w] = "publish"]
      BY <1>3, <2>2 DEF CommitSwap, Goto
    <3>2. ASSUME NEW s \in Slots, results[s] = "ok"
          PROVE  slot[w] <= s \/ \E v \in Workers : slot[v] = s /\ InCommit(v)'
      <4>1. CASE winner <= s
        BY <2>1, <2>2, <4>1 DEF TypeOK, Slots, NoWinner
      <4>2. ASSUME NEW v \in Workers, slot[v] = s, InCommit(v)
            PROVE  slot[w] <= s \/ InCommit(v)'
        BY <3>1, <4>2 DEF TypeOK, Slots
      <4> QED
        BY <3>2, <4>1, <4>2 DEF WinnerIsBest
    <3> QED
      BY <2>1, <3>1, <3>2 DEF WinnerIsBest
  <2>3. CASE winner # loaded[w]
    <3>1. UNCHANGED winner /\ pc' = [pc EXCEPT ![w] = "load"]
      BY <1>3, <2>3 DEF CommitSwap, Goto
    <3>2. \A v \in Workers : InCommit(v) => InCommit(v)'
      BY <3>1 DEF TypeOK
    <3> QED
      BY <2>1, <3>1, <3>2 DEF WinnerIsBest
  <2> QED
    BY <2>2, <2>3
<1>4. ASSUME NEW w \in Workers,
             \/ Publish(w) \/ CloseSlot(w) \/ EnterSearch(w) \/ SkipSearch(w)
             \/ SendSeed(w) \/ ReceiveSeed(w)
      PROVE  WinnerIsBest'
  <2>1. /\ UNCHANGED <<winner, results>> /\ ~InCommit(w)
        /\ \E l \in {"branch", "end", "run", "seed", "close"} :
             pc' = [pc EXCEPT ![w] = l]
        /\ \A v \in Workers \ {w} : slot'[v] = slot[v]
    BY <1>4 DEF Publish, CloseSlot, EnterSearch, SkipSearch, SendSeed, ReceiveSeed,
                Goto, TypeOK, AfterResult
  <2>2. \A v \in Workers : InCommit(v) => InCommit(v)' /\ slot'[v] = slot[v]
    BY <2>1 DEF TypeOK
  <2> QED
    BY <2>1, <2>2 DEF WinnerIsBest
<1>5. CASE UNCHANGED <<pc, slot, winner, results>>
  BY <1>5 DEF WinnerIsBest
<1>6. Reader \/ Terminated \/ UNCHANGED vars
        => UNCHANGED <<pc, slot, winner, results>>
  BY DEF Reader, ReturnSettled, ReturnJoined, JoinNext, Terminated, vars, workerVars
<1> QED
  BY <1>1, <1>2, <1>3, <1>4, <1>5, <1>6 DEF Next, Worker

\* A result that says ok stays, and the slots abandoned in a step are the ones
\* quit speaks for.
LEMMA CancelNext ==
  /\ TypeOK /\ Ownership /\ Fresh /\ WinnerIsBest /\ CancelledByADecode
  /\ [Next]_vars
  => CancelledByADecode'
<1> SUFFICES ASSUME TypeOK, Ownership, Fresh, WinnerIsBest, CancelledByADecode,
                    [Next]_vars
             PROVE  CancelledByADecode'
  OBVIOUS
<1>1. \A s \in Slots : results[s] = "ok" => results'[s] = "ok"
  <2>1. ASSUME NEW w \in Workers,
               RouteDecodes(w) \/ RouteFails(w) \/ RouteAbandons(w)
        PROVE  \A s \in Slots : results[s] = "ok" => results'[s] = "ok"
    BY <2>1 DEF RouteDecodes, RouteFails, RouteAbandons, Fresh, TypeOK
  <2>2. \/ UNCHANGED results
        \/ \E w \in Workers : RouteDecodes(w) \/ RouteFails(w) \/ RouteAbandons(w)
    BY DEF Next, Worker, CommitLoad, CommitSwap, Publish, CloseSlot, EnterSearch,
       SkipSearch, SendSeed, ReceiveSeed, Reader, ReturnSettled, ReturnJoined,
       JoinNext, Terminated, vars, workerVars
  <2> QED
    BY <2>1, <2>2
<1>2. \A s \in abandoned' : s \in abandoned \/ Quit(s)
  BY DEF Next, Worker, RouteDecodes, RouteFails, RouteAbandons, CommitLoad,
     CommitSwap, Publish, CloseSlot, EnterSearch, SkipSearch, SendSeed, ReceiveSeed,
     Reader, ReturnSettled, ReturnJoined, JoinNext, Terminated, vars, workerVars
<1>3. ASSUME NEW s \in Slots, Quit(s)
      PROVE  \E t \in Decoded \ {s} : exhaustive => t < s
  <2>1. winner \in Slots /\ winner # s /\ (exhaustive => winner < s)
    BY <1>3, LevelsAssumption DEF Quit, TypeOK, Slots, NoWinner
  <2>2. winner \in Decoded \ {s}
    BY <2>1, LevelsAssumption DEF WinnerIsBest, Decoded, Slots, NoWinner
  <2> QED
    BY <2>1, <2>2
<1>4. UNCHANGED exhaustive
  BY DEF Next, Worker, RouteDecodes, RouteFails, RouteAbandons, CommitLoad,
     CommitSwap, Publish, CloseSlot, EnterSearch, SkipSearch, SendSeed, ReceiveSeed,
     Reader, ReturnSettled, ReturnJoined, JoinNext, Terminated, vars, workerVars
<1>5. abandoned' \subseteq Slots
  BY TypeNext DEF TypeOK
<1> QED
  BY <1>1, <1>2, <1>3, <1>4, <1>5 DEF CancelledByADecode, Decoded

-----------------------------------------------------------------------------
\* The inductive invariant of the pyramid.
LEMMA InitInvariant == Init => IInv
<1> SUFFICES ASSUME Init PROVE IInv
  OBVIOUS
<1>1. TypeOK
  BY TypeInit
<1>2. Ownership
  BY DEF Init, Ownership, OwnSlots
<1>3. Fresh
  <2>1. \A w \in Workers : slot[w] \in Slots
    BY <1>1 DEF TypeOK
  <2>2. \A w \in Workers : w # Seeder => SearchSlot(w) \in Slots
    BY SlotLayout DEF OwnSlots
  <2> QED
    BY <2>1, <2>2 DEF Init, Fresh
<1>4. CommitSound /\ WinnerIsBest /\ CancelledByADecode
  BY DEF Init, CommitSound, WinnerIsBest, CancelledByADecode, Decoded
<1> QED
  BY <1>1, <1>2, <1>3, <1>4 DEF IInv

\* Every step preserves it.
LEMMA IInvNext == IInv /\ [Next]_vars => IInv'
BY TypeNext, OwnershipNext, FreshNext, CommitSoundNext, WinnerNext, CancelNext DEF IInv

\* So it holds in every state of every read.
LEMMA Invariance == Spec => []IInv
BY InitInvariant, IInvNext, PTL DEF Spec

\* Every state of every read has the types the code gives its variables.
THEOREM TypeCorrect == Spec => []TypeOK
<1>1. IInv => TypeOK
  BY DEF IInv
<1> QED
  BY <1>1, Invariance, PTL

\* Whatever the number of levels and however the commits interleave, the winner
\* the routes poll is a slot that decoded, and no route outside commit decoded a
\* better one.
THEOREM WinnerCorrect == Spec => []WinnerIsBest
<1>1. IInv => WinnerIsBest
  BY DEF IInv
<1> QED
  BY <1>1, Invariance, PTL

\* No route gives up unless another one decoded, in an exhaustive read one of
\* higher priority.
THEOREM CancellationCorrect == Spec => []CancelledByADecode
<1>1. IInv => CancelledByADecode
  BY DEF IInv
<1> QED
  BY <1>1, Invariance, PTL

-----------------------------------------------------------------------------
\* What no step takes back.
LEMMA NothingTakenBack ==
  ASSUME IInv, [Next]_vars
  PROVE  /\ UNCHANGED <<image, exhaustive>>
         /\ \A s \in Slots : results[s] # "unset" => results'[s] = results[s]
         /\ abandoned \subseteq abandoned' /\ done \subseteq done'
         /\ \A s \in abandoned' : s \in abandoned \/ Quit(s)
         /\ winner' <= winner
<1>1. UNCHANGED <<image, exhaustive>>
  BY DEF Next, Worker, RouteDecodes, RouteFails, RouteAbandons, CommitLoad, CommitSwap,
     Publish, CloseSlot, EnterSearch, SkipSearch, SendSeed, ReceiveSeed, Reader,
     ReturnSettled, ReturnJoined, JoinNext, Terminated, vars
<1>2. \A s \in Slots : results[s] # "unset" => results'[s] = results[s]
  <2>1. ASSUME NEW w \in Workers,
               RouteDecodes(w) \/ RouteFails(w) \/ RouteAbandons(w)
        PROVE  \A s \in Slots : results[s] # "unset" => results'[s] = results[s]
    BY <2>1 DEF RouteDecodes, RouteFails, RouteAbandons, Fresh, TypeOK, IInv
  <2>2. \/ UNCHANGED results
        \/ \E w \in Workers : RouteDecodes(w) \/ RouteFails(w) \/ RouteAbandons(w)
    BY DEF Next, Worker, CommitLoad, CommitSwap, Publish, CloseSlot, EnterSearch,
       SkipSearch, SendSeed, ReceiveSeed, Reader, ReturnSettled, ReturnJoined,
       JoinNext, Terminated, vars, workerVars
  <2> QED
    BY <2>1, <2>2
<1>3. abandoned \subseteq abandoned' /\ \A s \in abandoned' : s \in abandoned \/ Quit(s)
  BY DEF Next, Worker, RouteDecodes, RouteFails, RouteAbandons, CommitLoad,
     CommitSwap, Publish, CloseSlot, EnterSearch, SkipSearch, SendSeed, ReceiveSeed,
     Reader, ReturnSettled, ReturnJoined, JoinNext, Terminated, vars, workerVars
<1>4. done \subseteq done'
  BY DEF Next, Worker, RouteDecodes, RouteFails, RouteAbandons, CommitLoad,
     CommitSwap, Publish, CloseSlot, EnterSearch, SkipSearch, SendSeed, ReceiveSeed,
     Reader, ReturnSettled, ReturnJoined, JoinNext, Terminated, vars, workerVars
<1>5. winner \in Int
  BY LevelsAssumption DEF IInv, TypeOK, Slots, NoWinner
<1>6. winner' <= winner
  <2>1. ASSUME NEW w \in Workers, CommitSwap(w) PROVE winner' <= winner
    BY <1>5, <2>1, LevelsAssumption DEF CommitSwap, CommitSound, IInv, TypeOK, Slots
  <2>2. (\E w \in Workers : CommitSwap(w)) \/ UNCHANGED winner
    BY DEF Next, Worker, RouteDecodes, RouteFails, RouteAbandons, CommitLoad, Publish,
       CloseSlot, EnterSearch, SkipSearch, SendSeed, ReceiveSeed, Reader, ReturnSettled,
       ReturnJoined, JoinNext, Terminated, vars, workerVars
  <2> QED
    BY <1>5, <2>1, <2>2
<1> QED
  BY <1>1, <1>2, <1>3, <1>4, <1>6

\* A goroutine moves itself and writes its own results.
LEMMA OthersStay ==
  ASSUME IInv, NEW v \in Workers, Worker(v), NEW w \in Workers, w # v
  PROVE  /\ pc'[w] = pc[w] /\ slot'[w] = slot[w]
         /\ \A s \in OwnSlots(w) : results'[s] = results[s]
<1>1. pc'[w] = pc[w] /\ slot'[w] = slot[w]
  BY DEF Worker, RouteDecodes, RouteFails, RouteAbandons, CommitLoad, CommitSwap, Publish,
     CloseSlot, EnterSearch, SkipSearch, SendSeed, ReceiveSeed, Goto, IInv, TypeOK
<1>2. CASE UNCHANGED results
  BY <1>1, <1>2
<1>3. CASE RouteDecodes(v) \/ RouteFails(v) \/ RouteAbandons(v)
  <2>1. PICK r \in {"ok", "failed"} : results' = [results EXCEPT ![slot[v]] = r]
    BY <1>3 DEF RouteDecodes, RouteFails, RouteAbandons
  <2> QED
    BY <1>1, <2>1, OthersKeepResults DEF IInv
<1> QED
  BY <1>2, <1>3 DEF Worker, CommitLoad, CommitSwap, Publish, CloseSlot, EnterSearch,
     SkipSearch, SendSeed, ReceiveSeed

\* A reader's step, or none, moves no goroutine.
LEMMA ReaderMoves ==
  ASSUME Reader \/ Terminated \/ UNCHANGED vars
  PROVE  UNCHANGED <<exhaustive, image, pc, slot, loaded, winner, results, done, seed,
                     found, abandoned>>
BY DEF Reader, ReturnSettled, ReturnJoined, JoinNext, Terminated, vars, workerVars

\* The beaten stay beaten.
LEMMA BeatenNext ==
  ASSUME IInv, StayBeaten, [Next]_vars
  PROVE  StayBeaten'
<1>1. /\ abandoned' \subseteq Slots /\ winner \in Slots \cup {NoWinner}
      /\ winner' \in Slots \cup {NoWinner}
  BY TypeNext DEF IInv, TypeOK
<1>2. \A s \in abandoned' : Beaten(s)
  <2> SUFFICES ASSUME NEW s \in abandoned' PROVE Beaten(s)
    OBVIOUS
  <2>1. CASE s \in abandoned
    BY <2>1 DEF StayBeaten
  <2>2. CASE Quit(s)
    BY <1>1, <2>2, LevelsAssumption DEF Quit, Beaten, Slots, NoWinner
  <2> QED
    BY <2>1, <2>2, NothingTakenBack
<1>3. winner' <= winner /\ UNCHANGED exhaustive
  BY NothingTakenBack
<1> QED
  BY <1>1, <1>2, <1>3, LevelsAssumption DEF StayBeaten, Beaten, Slots, NoWinner

\* A level's own goroutine, as a worker.
LEMMA LevelWorker ==
  ASSUME IInv, NEW w \in Levels
  PROVE  /\ w \in Workers /\ w # Seeder
         /\ slot[w] \in {FrameSlot(w), SearchSlot(w)} /\ FrameSlot(w) # SearchSlot(w)
         /\ FrameSlot(w) \in Slots /\ SearchSlot(w) \in Slots
         /\ FrameSlot(w) # SeededSlot /\ SearchSlot(w) # SeededSlot
         /\ OwnSlots(w) = {FrameSlot(w), SearchSlot(w)}
<1>1. w \in Workers /\ w # Seeder
  BY LevelsAssumption DEF Levels, Workers, Seeder
<1>2. OwnSlots(w) = {FrameSlot(w), SearchSlot(w)}
  BY <1>1 DEF OwnSlots
<1>3. slot[w] \in {FrameSlot(w), SearchSlot(w)}
  BY <1>1, <1>2 DEF IInv, Ownership
<1>4. /\ FrameSlot(w) # SearchSlot(w)
      /\ FrameSlot(w) \in Slots /\ SearchSlot(w) \in Slots
      /\ FrameSlot(w) # SeededSlot /\ SearchSlot(w) # SeededSlot
  BY LevelsAssumption DEF Levels, FrameSlot, SearchSlot, SeededSlot, Slots
<1> QED
  BY <1>1, <1>2, <1>3, <1>4

\* What a level's results say, one step per action of its goroutine.  A level
\* whose frame was abandoned never enters its search: it has been beaten.
LEMMA LevelsNext ==
  ASSUME IInv, StayBeaten, LevelsTrue, [Next]_vars
  PROVE  LevelsTrue'
<1> SUFFICES ASSUME NEW w \in Levels PROVE LevelTrue(w)'
  BY DEF LevelsTrue
<1>1. LevelTrue(w)
  BY DEF LevelsTrue
<1>2. /\ w \in Workers /\ slot[w] \in {FrameSlot(w), SearchSlot(w)}
      /\ FrameSlot(w) # SearchSlot(w) /\ FrameSlot(w) \in Slots /\ SearchSlot(w) \in Slots
      /\ FrameSlot(w) # SeededSlot /\ SearchSlot(w) # SeededSlot
      /\ OwnSlots(w) = {FrameSlot(w), SearchSlot(w)}
  BY LevelWorker
<1>3. Searched(w)' = Searched(w) /\ UNCHANGED image /\ abandoned \subseteq abandoned'
  BY NothingTakenBack DEF Searched
<1>4. CASE /\ pc'[w] = pc[w] /\ slot'[w] = slot[w]
           /\ \A s \in OwnSlots(w) : results'[s] = results[s]
  <2>1. results'[FrameSlot(w)] = results[FrameSlot(w)]
        /\ results'[SearchSlot(w)] = results[SearchSlot(w)]
    BY <1>2, <1>4
  <2> QED
    BY <1>1, <1>3, <1>4, <2>1 DEF LevelTrue
<1>5. ASSUME RouteDecodes(w) PROVE LevelTrue(w)'
  <2>1. /\ pc[w] = "run" /\ pc'[w] = "load" /\ slot' = slot /\ slot[w] \in image.good
        /\ results' = [results EXCEPT ![slot[w]] = "ok"]
    BY <1>2, <1>5 DEF RouteDecodes, Goto, Decodes, IInv, TypeOK
  <2>2. CASE slot[w] = FrameSlot(w)
    <3>1. results'[FrameSlot(w)] = "ok" /\ results'[SearchSlot(w)] = "unset"
      BY <1>2, <2>1, <2>2, LevelWorker DEF IInv, TypeOK, Fresh
    <3> QED
      BY <1>2, <1>3, <2>1, <2>2, <3>1 DEF LevelTrue
  <2>3. CASE slot[w] = SearchSlot(w)
    <3>1. results'[FrameSlot(w)] = results[FrameSlot(w)] /\ results'[SearchSlot(w)] = "ok"
      BY <1>2, <2>1, <2>3 DEF IInv, TypeOK
    <3> QED
      BY <1>1, <1>3, <2>1, <2>3, <3>1 DEF LevelTrue
  <2> QED
    BY <1>2, <2>2, <2>3
<1>6. ASSUME RouteFails(w) \/ RouteAbandons(w) PROVE LevelTrue(w)'
  <2>1. /\ pc[w] = "run" /\ pc'[w] # "run" /\ slot' = slot
        /\ results' = [results EXCEPT ![slot[w]] = "failed"]
        /\ slot[w] \notin image.good \/ slot[w] \in abandoned'
    BY <1>2, <1>6 DEF RouteFails, RouteAbandons, Goto, Decodes, AfterResult, IInv, TypeOK
  <2>2. CASE slot[w] = FrameSlot(w)
    <3>1. results'[FrameSlot(w)] = "failed" /\ results'[SearchSlot(w)] = "unset"
      BY <1>2, <2>1, <2>2, LevelWorker DEF IInv, TypeOK, Fresh
    <3> QED
      BY <1>2, <1>3, <2>1, <2>2, <3>1 DEF LevelTrue
  <2>3. CASE slot[w] = SearchSlot(w)
    <3>1. results'[FrameSlot(w)] = results[FrameSlot(w)]
          /\ results'[SearchSlot(w)] = "failed"
      BY <1>2, <2>1, <2>3 DEF IInv, TypeOK
    <3> QED
      BY <1>1, <1>3, <2>1, <2>3, <3>1 DEF LevelTrue
  <2> QED
    BY <1>2, <2>2, <2>3
<1>7. ASSUME EnterSearch(w) PROVE LevelTrue(w)'
  <2>1. /\ pc[w] = "branch" /\ pc'[w] = "run" /\ slot'[w] = SearchSlot(w)
        /\ UNCHANGED results /\ results[FrameSlot(w)] # "ok"
        /\ w \in image.evidence /\ ~Quit(SearchSlot(w))
    BY <1>2, <1>7 DEF EnterSearch, Goto, IInv, TypeOK
  <2>2. slot[w] = FrameSlot(w) /\ results[SearchSlot(w)] = "unset"
    BY <1>2, <2>1, LevelWorker DEF IInv, Fresh
  <2>3. results[FrameSlot(w)] = "failed"
    BY <1>1, <1>2, <2>1 DEF LevelTrue, IInv, TypeOK
  <2>4. FrameSlot(w) \notin abandoned
    <3> SUFFICES ASSUME FrameSlot(w) \in abandoned PROVE Quit(SearchSlot(w))
      BY <2>1
    <3>1. winner # NoWinner /\ (exhaustive => winner < FrameSlot(w))
      BY DEF StayBeaten, Beaten
    <3>2. winner \in Slots /\ results[winner] = "ok"
      BY <3>1 DEF IInv, TypeOK, WinnerIsBest
    <3>3. winner # SearchSlot(w)
      BY <2>2, <3>2
    <3> QED
      BY <3>1, <3>2, <3>3, LevelsAssumption DEF Quit, Slots, NoWinner, FrameSlot, SearchSlot,
         Levels
  <2>5. Searched(w)
    BY <1>1, <2>1, <2>3, <2>4 DEF LevelTrue, Searched
  <2> QED
    BY <1>1, <1>3, <2>1, <2>2, <2>3, <2>5 DEF LevelTrue
<1>8. ASSUME SkipSearch(w) PROVE LevelTrue(w)'
  <2>1. /\ pc[w] = "branch" /\ pc'[w] # "run" /\ slot'[w] = SearchSlot(w)
        /\ UNCHANGED results
        /\ \/ results[FrameSlot(w)] = "ok"
           \/ w \notin image.evidence
           \/ SearchSlot(w) \in abandoned'
    BY <1>2, <1>8 DEF SkipSearch, Goto, IInv, TypeOK
  <2>2. slot[w] = FrameSlot(w) /\ results[SearchSlot(w)] = "unset"
    BY <1>2, <2>1, LevelWorker DEF IInv, Fresh
  <2>3. ~ Searched(w) \/ SearchSlot(w) \in abandoned'
    BY <1>1, <2>1 DEF LevelTrue, Searched
  <2> QED
    BY <1>1, <1>3, <2>1, <2>2, <2>3 DEF LevelTrue
<1>9. ASSUME \/ CommitLoad(w) \/ CommitSwap(w) \/ Publish(w) \/ CloseSlot(w) \/ SendSeed(w)
      PROVE  LevelTrue(w)'
  <2>1. pc[w] # "run" /\ pc'[w] # "run" /\ UNCHANGED <<slot, results>>
    BY <1>2, <1>9 DEF CommitLoad, CommitSwap, Publish, CloseSlot, SendSeed, Goto,
       AfterResult, IInv, TypeOK
  <2> QED
    BY <1>1, <1>3, <2>1 DEF LevelTrue
<1>10. CASE Reader \/ Terminated \/ UNCHANGED vars
  <2>1. UNCHANGED <<pc, slot, results>>
    BY <1>10, ReaderMoves
  <2> QED
    BY <1>4, <2>1
<1>11. ASSUME NEW v \in Workers, Worker(v) PROVE LevelTrue(w)'
  <2>1. CASE v = w
    <3>1. ~ReceiveSeed(w)
      BY LevelWorker DEF ReceiveSeed, IInv, Fresh
    <3> QED
      BY <1>5, <1>6, <1>7, <1>8, <1>9, <1>11, <2>1, <3>1 DEF Worker
  <2>2. CASE v # w
    BY <1>2, <1>4, <1>11, <2>2, OthersStay
  <2> QED
    BY <2>1, <2>2
<1> QED
  BY <1>10, <1>11 DEF Next

\* done is closed after the result, by the slot's owner.
LEMMA DoneNext ==
  ASSUME IInv, DoneTrue, [Next]_vars
  PROVE  DoneTrue'
<1>1. CASE Reader \/ Terminated \/ UNCHANGED vars
  <2>1. UNCHANGED <<pc, slot, done>>
    BY <1>1, ReaderMoves
  <2> QED
    BY <2>1 DEF DoneTrue
<1>2. ASSUME NEW v \in Workers, Worker(v), NEW w \in Workers, w # v
      PROVE  /\ slot'[w] \in done' => pc'[w] \in {"branch", "end"}
             /\ w \in Levels /\ SearchSlot(w) \in done' => slot'[w] = SearchSlot(w)
  <2>1. pc'[w] = pc[w] /\ slot'[w] = slot[w]
    BY <1>2, OthersStay
  <2>2. done' = done \/ done' = done \cup {slot[v]}
    BY <1>2 DEF Worker, RouteDecodes, RouteFails, RouteAbandons, CommitLoad, CommitSwap,
       Publish, CloseSlot, EnterSearch, SkipSearch, SendSeed, ReceiveSeed
  <2>3. slot[v] \notin OwnSlots(w) /\ slot[w] \in OwnSlots(w)
    BY <1>2, SlotLayout DEF IInv, Ownership
  <2>4. w \in Levels => SearchSlot(w) \in OwnSlots(w)
    BY LevelWorker
  <2> QED
    BY <2>1, <2>2, <2>3, <2>4 DEF DoneTrue
<1>3. ASSUME NEW v \in Workers, Worker(v)
      PROVE  /\ slot'[v] \in done' => pc'[v] \in {"branch", "end"}
             /\ v \in Levels /\ SearchSlot(v) \in done' => slot'[v] = SearchSlot(v)
  <2>1. CASE CloseSlot(v)
    <3>1. /\ pc'[v] \in {"branch", "end"} /\ slot' = slot
          /\ done' = done \cup {slot[v]}
      BY <2>1 DEF CloseSlot, Goto, IInv, TypeOK
    <3> QED
      BY <3>1 DEF DoneTrue
  <2>2. CASE EnterSearch(v) \/ SkipSearch(v)
    <3>1. done' = done /\ slot'[v] = SearchSlot(v) /\ pc[v] = "branch"
      BY <2>2 DEF EnterSearch, SkipSearch, IInv, TypeOK
    <3>2. v # Seeder /\ slot[v] = FrameSlot(v)
      BY <3>1 DEF IInv, Fresh
    <3>3. v \in Levels /\ FrameSlot(v) # SearchSlot(v)
      BY <3>2, SlotLayout
    <3> QED
      BY <3>1, <3>2, <3>3 DEF DoneTrue
  <2>3. CASE \/ RouteDecodes(v) \/ RouteFails(v) \/ RouteAbandons(v) \/ CommitLoad(v)
             \/ CommitSwap(v) \/ Publish(v) \/ SendSeed(v) \/ ReceiveSeed(v)
    <3>1. UNCHANGED <<slot, done>> /\ pc[v] \notin {"branch", "end"}
      BY <2>3 DEF RouteDecodes, RouteFails, RouteAbandons, CommitLoad, CommitSwap, Publish,
         SendSeed, ReceiveSeed
    <3> QED
      BY <3>1 DEF DoneTrue
  <2> QED
    BY <1>3, <2>1, <2>2, <2>3 DEF Worker
<1>4. ASSUME NEW v \in Workers, Worker(v) PROVE DoneTrue'
  <2>1. \A w \in Workers : slot'[w] \in done' => pc'[w] \in {"branch", "end"}
    BY <1>2, <1>3, <1>4
  <2>2. \A w \in Levels : SearchSlot(w) \in done' => slot'[w] = SearchSlot(w)
    BY <1>2, <1>3, <1>4, LevelWorker
  <2> QED
    BY <2>1, <2>2 DEF DoneTrue
<1> QED
  BY <1>1, <1>4 DEF Next

\* Slot 0 is the coarsest frame's, and only its goroutine works for it or for its
\* search.
LEMMA CoarsestLevel ==
  ASSUME IInv
  PROVE  /\ 0 \in Levels /\ 0 \in Workers /\ 0 # Seeder /\ Seeder \in Workers
         /\ FrameSlot(0) = 0
         /\ slot[0] \in Coarsest /\ 0 # SearchSlot(0) /\ Coarsest \subseteq Slots
         /\ \A w \in Workers : w # 0 => slot[w] \notin Coarsest
         /\ slot[Seeder] = SeededSlot /\ SeededSlot \in Slots
         /\ SeededSlot \notin Coarsest
<1>1. 0 \in Levels /\ 0 \in Workers /\ Seeder \in Workers /\ 0 # Seeder /\ FrameSlot(0) = 0
  BY LevelsAssumption DEF Levels, Workers, Seeder, FrameSlot
<1>2. OwnSlots(0) = Coarsest /\ OwnSlots(Seeder) = {SeededSlot}
  BY <1>1 DEF OwnSlots, Coarsest
<1>3. \A w \in Workers : w # 0 => slot[w] \notin Coarsest
  BY <1>1, <1>2, SlotLayout DEF IInv, Ownership
<1>4. slot[0] \in Coarsest /\ slot[Seeder] = SeededSlot
  BY <1>1, <1>2 DEF IInv, Ownership
<1>5. Coarsest \subseteq Slots /\ SeededSlot \in Slots
  BY <1>1, <1>2, SlotLayout
<1>6. 0 # SearchSlot(0)
  BY LevelsAssumption DEF SearchSlot
<1> QED
  BY <1>1, <1>3, <1>4, <1>5, <1>6

\* What the coarsest level found, when its two routes ran to their ends.
LEMMA FullFindingIs ==
  FullFinding = IF Searched(0) THEN AfterSearch(FrameFinding, SearchSlot(0) \in image.good)
                               ELSE FrameFinding
BY DEF FullFinding, FrameFinding

\* The seed, one step per action of the coarsest level's goroutine.
LEMMA SeedNext ==
  ASSUME IInv, StayBeaten, LevelsTrue, SeedTrue, [Next]_vars
  PROVE  SeedTrue'
<1>1. /\ UNCHANGED <<image, exhaustive>> /\ FullFinding' = FullFinding
      /\ FrameFinding' = FrameFinding
      /\ abandoned \subseteq abandoned'
      /\ \A t \in Decoded : t \in Decoded'
      /\ \A f, d : AfterSearch(f, d)' = AfterSearch(f, d)
  BY NothingTakenBack DEF FullFinding, FrameFinding, Decoded, AfterSearch, Searched
<1>2. /\ slot[0] \in Coarsest /\ 0 # SearchSlot(0) /\ 0 \in Workers /\ 0 # Seeder
      /\ Seeder \in Workers /\ slot[Seeder] = SeededSlot /\ SeededSlot \notin Coarsest
      /\ 0 \in Levels /\ FrameSlot(0) = 0
  BY CoarsestLevel
<1>3. CASE Reader \/ Terminated \/ UNCHANGED vars
  <2>1. UNCHANGED <<pc, slot, seed, found, abandoned>>
    BY <1>3, ReaderMoves
  <2> QED
    BY <1>1, <2>1 DEF SeedTrue, SearchAhead
<1>4. ASSUME NEW v \in Workers, Worker(v), v # 0 PROVE SeedTrue'
  <2>1. pc'[0] = pc[0] /\ slot'[0] = slot[0]
    BY <1>2, <1>4, OthersStay
  <2>2. slot[v] \notin Coarsest /\ ~SendSeed(v)
    BY <1>4, CoarsestLevel DEF SendSeed, SeedTrue
  <2>3. UNCHANGED <<seed, found>>
    BY <1>4, <2>2 DEF Worker, RouteDecodes, RouteFails, RouteAbandons, CommitLoad,
       CommitSwap, Publish, CloseSlot, EnterSearch, SkipSearch, ReceiveSeed, Locate, Coarsest
  <2>4. abandoned' \cap Coarsest = abandoned \cap Coarsest
    <3>1. CASE SkipSearch(v)
      <4>1. v # Seeder
        BY <3>1 DEF SkipSearch, IInv, Fresh
      <4>2. v \in Levels
        BY <4>1, SlotLayout
      <4>3. SearchSlot(v) \notin Coarsest
        BY <1>2, <1>4, <4>2, LevelsAssumption DEF Coarsest, SearchSlot, Levels
      <4> QED
        BY <3>1, <4>3 DEF SkipSearch
    <3>2. CASE ~SkipSearch(v)
      BY <1>2, <1>4, <2>2, <3>2 DEF Worker, RouteDecodes, RouteFails, RouteAbandons,
         CommitLoad, CommitSwap, Publish, CloseSlot, EnterSearch, SendSeed, ReceiveSeed
    <3> QED
      BY <3>1, <3>2
  <2>5. pc'[v] # "seed" \/ pc'[v] = pc[v]
    <3>1. slot[v] # SearchSlot(0)
      BY <2>2 DEF Coarsest
    <3> QED
      BY <1>4, <2>2, <3>1 DEF Worker, RouteDecodes, RouteFails, RouteAbandons, CommitLoad,
         CommitSwap, Publish, CloseSlot, EnterSearch, SkipSearch, ReceiveSeed, Goto,
         AfterResult, IInv, TypeOK
  <2>6. \A w \in Workers : pc'[w] = "seed" => pc[w] = "seed"
    BY <1>4, <2>5, OthersStay
  <2>7. seed = "empty" => pc'[Seeder] = "recv"
    <3>1. CASE v = Seeder
      BY <1>4, <3>1 DEF Worker, RouteDecodes, RouteFails, RouteAbandons, CommitLoad,
         CommitSwap, Publish, CloseSlot, EnterSearch, SkipSearch, SendSeed, ReceiveSeed,
         SeedTrue
    <3>2. CASE v # Seeder
      BY <1>2, <1>4, <3>2, OthersStay DEF SeedTrue
    <3> QED
      BY <3>1, <3>2
  <2>8. 0 \in abandoned' <=> 0 \in abandoned
    BY <2>4 DEF Coarsest
  <2> QED
    BY <1>1, <2>1, <2>3, <2>4, <2>6, <2>7, <2>8 DEF SeedTrue, SearchAhead
<1>5. ASSUME Worker(0) PROVE SeedTrue'
  <2>1. pc'[Seeder] = pc[Seeder] /\ \A w \in Workers : w # 0 => pc'[w] = pc[w]
    BY <1>2, <1>5, OthersStay
  <2>2. seed = "empty" => pc[Seeder] = "recv" /\ results[SeededSlot] = "unset"
    BY <1>2 DEF SeedTrue, IInv, Fresh
  <2>3. pc[0] \notin {"close", "end"} \/ slot[0] = 0 => seed = "empty"
    BY <1>2 DEF SeedTrue
  <2>4. LevelTrue(0)
    BY <1>2 DEF LevelsTrue
  <2>5. ASSUME seed = "empty", UNCHANGED seed, NEW s \in abandoned', s \in Coarsest
        PROVE  \E t \in Decoded' : t # SeededSlot
    <3>1. PICK t \in Decoded' : t # s
      BY <2>5, CancelNext DEF IInv, CancelledByADecode
    <3>2. results'[SeededSlot] = "unset"
      <4>1. SeededSlot \in OwnSlots(Seeder)
        BY DEF OwnSlots
      <4> QED
        BY <1>2, <1>5, <2>2, <2>5, <4>1, OthersStay
    <3> QED
      BY <3>1, <3>2 DEF Decoded
  <2>6. CASE RouteDecodes(0) \/ RouteFails(0)
    <3>1. /\ pc[0] = "run" /\ pc'[0] \in {"load", "seed", "close"}
          /\ pc'[0] = "seed" => slot[0] = SearchSlot(0)
          /\ UNCHANGED <<slot, seed, abandoned>> /\ seed = "empty"
      BY <1>2, <2>3, <2>6 DEF RouteDecodes, RouteFails, Goto, AfterResult, IInv, TypeOK
    <3>2. CASE slot[0] = 0
      <4>1. found' = FrameFinding
        <5>1. found = "none"
          BY <3>1, <3>2 DEF SeedTrue
        <5>2. found' = IF image.fLoc THEN "frame" ELSE found
          BY <1>2, <2>6, <3>2 DEF RouteDecodes, RouteFails, Locate
        <5> QED
          BY <5>1, <5>2 DEF FrameFinding
      <4> QED
        BY <1>1, <1>2, <2>1, <2>2, <3>1, <3>2, <4>1 DEF SeedTrue, SearchAhead
    <3>3. CASE slot[0] = SearchSlot(0)
      <4>1. Searched(0)
        BY <2>4, <3>1, <3>3 DEF LevelTrue
      <4>2. found' = AfterSearch(found, SearchSlot(0) \in image.good)
        <5>1. SearchSlot(0) # SeededSlot
          BY <1>2 DEF Coarsest
        <5>2. CASE RouteDecodes(0)
          BY <1>2, <3>3, <5>1, <5>2 DEF RouteDecodes, Locate, Decodes, AfterSearch
        <5>3. CASE RouteFails(0)
          BY <1>2, <3>3, <5>1, <5>3 DEF RouteFails, Locate, Decodes, AfterSearch
        <5> QED
          BY <2>6, <5>2, <5>3
      <4>3. abandoned \cap Coarsest = {} => found = FrameFinding
        BY <3>1, <3>3 DEF SeedTrue, SearchAhead, Coarsest
      <4>4. abandoned \cap Coarsest = {} => found' = FullFinding
        BY <4>1, <4>2, <4>3, FullFindingIs
      <4> QED
        BY <1>1, <1>2, <2>1, <2>2, <3>1, <3>3, <4>4 DEF SeedTrue, SearchAhead
    <3> QED
      BY <1>2, <3>2, <3>3 DEF Coarsest
  <2>7. CASE RouteAbandons(0)
    <3>1. /\ pc[0] = "run" /\ pc'[0] \in {"seed", "close"}
          /\ pc'[0] = "seed" => slot[0] = SearchSlot(0)
          /\ UNCHANGED <<slot, seed>> /\ seed = "empty"
          /\ abandoned' = abandoned \cup {slot[0]}
      BY <1>2, <2>3, <2>7 DEF RouteAbandons, Goto, AfterResult, IInv, TypeOK
    <3>2. slot[0] \in abandoned' /\ slot[0] \in Coarsest
      BY <1>2, <3>1
    <3>3. \E t \in Decoded' : t # SeededSlot
      BY <2>5, <3>1, <3>2
    <3> QED
      BY <1>1, <1>2, <2>1, <2>2, <3>1, <3>2, <3>3 DEF SeedTrue, SearchAhead, Coarsest
  <2>8. CASE CommitLoad(0) \/ CommitSwap(0) \/ Publish(0)
    <3>1. /\ pc[0] \in {"load", "cas", "publish"}
          /\ pc'[0] \in {"load", "cas", "publish", "seed", "close"}
          /\ pc'[0] = "seed" => slot[0] = SearchSlot(0)
          /\ UNCHANGED <<slot, seed, found, abandoned>>
      BY <1>2, <2>8 DEF CommitLoad, CommitSwap, Publish, Goto, AfterResult, IInv, TypeOK
    <3>2. seed = "empty"
      BY <2>3, <3>1
    <3> QED
      BY <1>1, <1>2, <2>1, <2>2, <3>1, <3>2 DEF SeedTrue, SearchAhead
  <2>9. CASE CloseSlot(0)
    <3>1. /\ pc[0] = "close" /\ pc'[0] \in {"branch", "end"}
          /\ slot[0] = SearchSlot(0) => pc'[0] = "end"
          /\ UNCHANGED <<slot, seed, found, abandoned>>
      BY <1>2, <2>9, SlotLayout DEF CloseSlot, Goto, IInv, TypeOK
    <3> QED
      BY <1>1, <1>2, <2>1, <2>2, <3>1 DEF SeedTrue, SearchAhead
  <2>10. CASE EnterSearch(0)
    <3>1. /\ pc[0] = "branch" /\ pc'[0] = "run" /\ slot'[0] = SearchSlot(0)
          /\ UNCHANGED <<seed, found, abandoned>> /\ slot[0] = 0
      BY <1>2, <2>10 DEF EnterSearch, Goto, IInv, TypeOK, Fresh
    <3>2. seed = "empty"
      BY <2>3, <3>1
    <3> QED
      BY <1>1, <1>2, <2>1, <2>2, <3>1, <3>2 DEF SeedTrue, SearchAhead
  <2>11. CASE SkipSearch(0)
    <3>1. /\ pc[0] = "branch" /\ pc'[0] = "seed" /\ slot'[0] = SearchSlot(0)
          /\ UNCHANGED <<seed, found>> /\ slot[0] = 0
      BY <1>2, <2>11 DEF SkipSearch, Goto, IInv, TypeOK, Fresh
    <3>2. seed = "empty"
      BY <2>3, <3>1
    <3>3. Searched(0) => SearchSlot(0) \in abandoned'
      BY <1>2, <2>4, <2>11 DEF SkipSearch, LevelTrue, Searched
    <3>4. abandoned' \cap Coarsest = {} => found' = FullFinding
      <4> SUFFICES ASSUME abandoned' \cap Coarsest = {} PROVE found' = FullFinding
        OBVIOUS
      <4>1. ~Searched(0)
        BY <3>3 DEF Coarsest
      <4>2. 0 \notin abandoned
        BY <1>1 DEF Coarsest
      <4>3. found = FrameFinding
        BY <3>1, <4>2 DEF SeedTrue, SearchAhead
      <4> QED
        BY <3>1, <4>1, <4>3, FullFindingIs
    <3>5. abandoned' \cap Coarsest # {} => \E t \in Decoded' : t # SeededSlot
      BY <2>5, <3>1, <3>2
    <3> QED
      BY <1>1, <1>2, <2>1, <2>2, <3>1, <3>2, <3>4, <3>5 DEF SeedTrue, SearchAhead
  <2>12. CASE SendSeed(0)
    <3>1. /\ pc[0] = "seed" /\ pc'[0] = "close" /\ seed = "empty" /\ seed' = found
          /\ UNCHANGED <<slot, found, abandoned>> /\ slot[0] = SearchSlot(0)
      BY <1>2, <2>12 DEF SendSeed, Goto, IInv, TypeOK, SeedTrue
    <3>2. found # "empty"
      BY DEF IInv, TypeOK, Findings
    <3> QED
      BY <1>1, <1>2, <2>1, <3>1, <3>2 DEF SeedTrue, SearchAhead
  <2>13. ~ReceiveSeed(0)
    BY <1>2 DEF ReceiveSeed, IInv, Fresh
  <2> QED
    BY <1>5, <2>6, <2>7, <2>8, <2>9, <2>10, <2>11, <2>12, <2>13 DEF Worker
<1> QED
  BY <1>2, <1>3, <1>4, <1>5 DEF Next

\* The seeded goroutine.  Were the coarsest frame to decode, it would have
\* committed, or have been beaten, before the seed was sent: the seeded route
\* would find itself beaten and not run.
LEMMA SeededNext ==
  ASSUME IInv, StayBeaten, LevelsTrue, SeedTrue, SeededTrue, [Next]_vars
  PROVE  SeededTrue'
<1>1. UNCHANGED image /\ abandoned \subseteq abandoned'
  BY NothingTakenBack
<1>2. /\ slot[Seeder] = SeededSlot /\ Seeder \in Workers /\ SeededSlot \in Slots
      /\ SeededSlot \in OwnSlots(Seeder) /\ SeededSlot \notin FrameSlots
      /\ 0 \in Levels /\ FrameSlot(0) = 0 /\ slot[0] \in Coarsest /\ 0 # SearchSlot(0)
      /\ 0 \in Workers
  BY CoarsestLevel, SlotLayout DEF OwnSlots
<1>3. CASE Reader \/ Terminated \/ UNCHANGED vars
  <2>1. UNCHANGED <<pc, slot, results, seed, abandoned>>
    BY <1>3, ReaderMoves
  <2> QED
    BY <1>1, <2>1 DEF SeededTrue
<1>4. ASSUME NEW v \in Workers, Worker(v), v # Seeder PROVE SeededTrue'
  <2>1. pc'[Seeder] = pc[Seeder] /\ results'[SeededSlot] = results[SeededSlot]
    BY <1>2, <1>4, OthersStay
  <2>2. pc[Seeder] # "recv" => seed' = seed
    BY <1>4 DEF SeedTrue, Worker, RouteDecodes, RouteFails, RouteAbandons, CommitLoad,
       CommitSwap, Publish, CloseSlot, EnterSearch, SkipSearch, SendSeed, ReceiveSeed
  <2>3. pc[Seeder] = "recv" => results[SeededSlot] = "unset"
    BY <1>2 DEF IInv, Fresh
  <2> QED
    BY <1>1, <2>1, <2>2, <2>3 DEF SeededTrue
<1>5. CASE RouteDecodes(Seeder)
  <2>1. /\ pc[Seeder] = "run" /\ pc'[Seeder] = "load" /\ seed' = seed
        /\ seed \in image.seeds /\ results'[SeededSlot] = "ok"
    BY <1>2, <1>5 DEF RouteDecodes, Goto, Decodes, IInv, TypeOK
  <2> QED
    BY <1>1, <2>1 DEF SeededTrue
<1>6. CASE RouteFails(Seeder) \/ RouteAbandons(Seeder)
  <2>1. /\ pc[Seeder] = "run" /\ pc'[Seeder] \in {"close", "seed"} /\ seed' = seed
        /\ seed \notin image.seeds \/ SeededSlot \in abandoned'
        /\ results'[SeededSlot] = "failed"
    BY <1>2, <1>6 DEF RouteFails, RouteAbandons, Goto, Decodes, AfterResult, IInv, TypeOK
  <2> QED
    BY <1>1, <2>1 DEF SeededTrue
<1>7. CASE CommitLoad(Seeder) \/ CommitSwap(Seeder) \/ Publish(Seeder) \/ CloseSlot(Seeder)
  <2>1. /\ pc[Seeder] \notin {"recv", "run"} /\ pc'[Seeder] \notin {"recv", "run"}
        /\ UNCHANGED <<results, seed>>
    BY <1>2, <1>7 DEF CommitLoad, CommitSwap, Publish, CloseSlot, Goto, AfterResult, IInv,
       TypeOK
  <2> QED
    BY <1>1, <2>1 DEF SeededTrue
<1>8. CASE ReceiveSeed(Seeder)
  <2>1. /\ pc[Seeder] = "recv" /\ seed # "empty" /\ UNCHANGED <<seed, results, winner>>
        /\ \/ /\ seed = "none" \/ SeededSlot \in abandoned'
              /\ pc'[Seeder] = "close"
           \/ ~Quit(SeededSlot) /\ pc'[Seeder] = "run"
    BY <1>2, <1>8 DEF ReceiveSeed, Goto, IInv, TypeOK
  <2>2. results[SeededSlot] = "unset"
    BY <1>2, <2>1 DEF IInv, Fresh
  <2>3. "none" \notin image.seeds
    BY DEF IInv, TypeOK, Images
  <2>4. ASSUME 0 \in image.good PROVE Quit(SeededSlot)
    <3>1. slot[0] = SearchSlot(0) /\ pc[0] \in {"close", "end"}
      BY <2>1 DEF SeedTrue
    <3>2. results[0] # "unset" /\ LevelTrue(0)
      BY <1>2, <3>1 DEF LevelsTrue, LevelTrue
    <3>3. 0 \in Slots /\ winner \in Slots \cup {NoWinner} /\ winner # SeededSlot
      <4>1. winner # SeededSlot
        BY <1>2, <2>2, LevelsAssumption DEF IInv, WinnerIsBest, SeededSlot, NoWinner
      <4> QED
        BY <4>1, LevelsAssumption DEF IInv, TypeOK, Slots
    <3>4. CASE 0 \in abandoned
      <4>1. winner # NoWinner /\ (exhaustive => winner < 0)
        BY <3>4 DEF StayBeaten, Beaten
      <4> QED
        BY <3>3, <4>1, LevelsAssumption DEF Quit, Slots, NoWinner
    <3>5. CASE 0 \notin abandoned
      <4>1. results[0] = "ok"
        BY <1>2, <2>4, <3>2, <3>3, <3>5 DEF LevelTrue, IInv, TypeOK
      <4>2. \A w \in Workers : slot[w] # 0
        BY <1>2, <3>1, CoarsestLevel DEF Coarsest
      <4>3. winner <= 0
        BY <3>3, <4>1, <4>2 DEF IInv, WinnerIsBest, Decoded
      <4>4. winner = 0
        BY <3>3, <4>3, LevelsAssumption DEF Slots, NoWinner
      <4> QED
        BY <4>4, LevelsAssumption DEF Quit, NoWinner, SeededSlot
    <3> QED
      BY <3>4, <3>5
  <2> QED
    BY <1>1, <2>1, <2>2, <2>3, <2>4 DEF SeededTrue
<1>9. ~(EnterSearch(Seeder) \/ SkipSearch(Seeder) \/ SendSeed(Seeder))
  BY CoarsestLevel DEF EnterSearch, SkipSearch, SendSeed, IInv, Fresh, SeedTrue
<1>10. Worker(Seeder) => SeededTrue'
  BY <1>5, <1>6, <1>7, <1>8, <1>9 DEF Worker
<1> QED
  BY <1>3, <1>4, <1>10 DEF Next

-----------------------------------------------------------------------------
\* What settled holds has decoded, and an ordinary reader still reading finds
\* there, or will find, every slot that did.
LEMMA PublishedNext ==
  ASSUME IInv, PublishedTrue, [Next]_vars
  PROVE  PublishedTrue'
<1>1. /\ \A t \in Decoded : t \in Decoded'
      /\ UNCHANGED exhaustive
      /\ settled \in Seq(Slots)
  BY NothingTakenBack DEF Decoded, IInv, TypeOK
<1> DEFINE InSettled(s) == \E i \in 1 .. Len(settled) : settled[i] = s
           OnTheWay(s) == \E w \in Workers : slot[w] = s /\ pc[w] \in {"load", "cas", "publish"}
<1>2. ASSUME NEW v \in Workers, Publish(v) PROVE PublishedTrue'
  <2>1. /\ UNCHANGED <<slot, results, ret>> /\ pc[v] = "publish"
        /\ results[slot[v]] = "ok" /\ slot[v] \in Slots
        /\ settled' = settled \/ settled' = Append(settled, slot[v])
        /\ ~exhaustive => settled' = Append(settled, slot[v])
        /\ \A w \in Workers : w # v => pc'[w] = pc[w]
    BY <1>2 DEF Publish, IInv, CommitSound, TypeOK, Goto
  <2>2. \A i \in 1 .. Len(settled') : settled'[i] \in Decoded'
    <3>1. slot[v] \in Decoded'
      BY <2>1 DEF Decoded
    <3>2. CASE settled' = settled
      BY <1>1, <3>2 DEF PublishedTrue
    <3>3. CASE settled' = Append(settled, slot[v])
      <4>1. \A i \in 1 .. Len(settled') : i \in 1 .. Len(settled) \/ settled'[i] = slot[v]
        BY <1>1, <2>1, <3>3
      <4>2. \A i \in 1 .. Len(settled) : settled'[i] = settled[i]
        BY <1>1, <2>1, <3>3
      <4> QED
        BY <1>1, <3>1, <4>1, <4>2 DEF PublishedTrue
    <3> QED
      BY <2>1, <3>2, <3>3
  <2>3. ASSUME ~exhaustive, ret' = Reading, NEW s \in Decoded'
        PROVE  \/ \E i \in 1 .. Len(settled') : settled'[i] = s
               \/ \E w \in Workers : slot'[w] = s /\ pc'[w] \in {"load", "cas", "publish"}
    <3>1. s \in Decoded /\ ret = Reading
      BY <2>1, <2>3 DEF Decoded
    <3>2. Len(settled') = Len(settled) + 1 /\ settled'[Len(settled) + 1] = slot[v]
          /\ \A i \in 1 .. Len(settled) : settled'[i] = settled[i]
      BY <1>1, <2>1, <2>3
    <3>3. Len(settled) \in Nat
      BY <1>1
    <3>4. CASE InSettled(s)
      BY <3>2, <3>3, <3>4
    <3>5. CASE OnTheWay(s)
      <4>1. PICK w \in Workers : slot[w] = s /\ pc[w] \in {"load", "cas", "publish"}
        BY <3>5
      <4>2. CASE w = v
        BY <3>2, <3>3, <4>1, <4>2
      <4>3. CASE w # v
        BY <2>1, <4>1, <4>3
      <4> QED
        BY <4>2, <4>3
    <3> QED
      BY <2>3, <3>1, <3>4, <3>5 DEF PublishedTrue
  <2> QED
    BY <1>1, <2>2, <2>3 DEF PublishedTrue
<1>3. ASSUME NEW v \in Workers, Worker(v), ~Publish(v) PROVE PublishedTrue'
  <2>1. UNCHANGED <<settled, ret>>
    BY <1>3 DEF Worker, RouteDecodes, RouteFails, RouteAbandons, CommitLoad, CommitSwap,
       CloseSlot, EnterSearch, SkipSearch, SendSeed, ReceiveSeed
  <2>2. OnTheWay(slot[v]) /\ pc[v] \in {"load", "cas", "publish"} =>
          slot'[v] = slot[v] /\ pc'[v] \in {"load", "cas", "publish"}
    BY <1>3 DEF Worker, RouteDecodes, RouteFails, RouteAbandons, CommitLoad, CommitSwap,
       CloseSlot, EnterSearch, SkipSearch, SendSeed, ReceiveSeed, Goto, IInv, TypeOK
  <2>3. ASSUME NEW w \in Workers, pc[w] \in {"load", "cas", "publish"}
        PROVE  slot'[w] = slot[w] /\ pc'[w] \in {"load", "cas", "publish"}
    BY <1>3, <2>2, <2>3, OthersStay
  <2>4. \A s \in Decoded' : s \in Decoded \/ (s = slot'[v] /\ pc'[v] = "load")
    <3>1. CASE RouteDecodes(v)
      BY <3>1 DEF RouteDecodes, Decoded, Goto, IInv, TypeOK
    <3>2. CASE RouteFails(v) \/ RouteAbandons(v)
      BY <3>2 DEF RouteFails, RouteAbandons, Decoded, IInv, TypeOK
    <3>3. CASE ~(RouteDecodes(v) \/ RouteFails(v) \/ RouteAbandons(v))
      BY <1>3, <3>3 DEF Worker, CommitLoad, CommitSwap, CloseSlot, EnterSearch, SkipSearch,
         SendSeed, ReceiveSeed, Decoded
    <3> QED
      BY <3>1, <3>2, <3>3
  <2> QED
    BY <1>1, <1>3, <2>1, <2>3, <2>4 DEF PublishedTrue
<1>4. CASE ReturnSettled
  <2>1. settled # <<>> /\ settled' = Tail(settled) /\ ret' = Head(settled)
        /\ UNCHANGED results
    BY <1>4 DEF ReturnSettled
  <2>2. \A i \in 1 .. Len(settled') : settled'[i] = settled[i + 1]
                                       /\ i + 1 \in 1 .. Len(settled)
    BY <1>1, <2>1
  <2>3. ret' \in Slots
    BY <1>1, <2>1
  <2>4. ret' # Reading
    BY <2>3, LevelsAssumption DEF Slots, Reading
  <2> QED
    BY <1>1, <2>1, <2>2, <2>4 DEF PublishedTrue
<1>5. CASE ReturnJoined \/ JoinNext
  <2>1. UNCHANGED <<settled, pc, slot, results>> /\ (ret' = Reading => ret = Reading)
    BY <1>5 DEF ReturnJoined, JoinNext, workerVars
  <2> QED
    BY <1>1, <2>1 DEF PublishedTrue, Decoded
<1>6. CASE Terminated \/ UNCHANGED vars
  BY <1>6 DEF PublishedTrue, Decoded, Terminated, vars
<1> QED
  BY <1>2, <1>3, <1>4, <1>5, <1>6 DEF Next, Reader

\* The exhaustive reader joins the slots in order, and a joined slot's result is
\* final.
LEMMA WalkNext ==
  ASSUME IInv, DoneTrue, WalkTrue, [Next]_vars
  PROVE  WalkTrue'
<1>1. UNCHANGED exhaustive /\ done \subseteq done'
  BY NothingTakenBack
<1>2. \A s \in Slots : s \in done /\ results[s] # "ok" => results'[s] # "ok"
  <2>1. ASSUME NEW v \in Workers, Worker(v)
        PROVE  \A s \in Slots : s \in done /\ results[s] # "ok" => results'[s] # "ok"
    <3>1. CASE RouteDecodes(v)
      <4>1. slot[v] \notin done /\ results' = [results EXCEPT ![slot[v]] = "ok"]
        BY <3>1 DEF RouteDecodes, DoneTrue
      <4> QED
        BY <4>1 DEF IInv, TypeOK
    <3>2. CASE RouteFails(v) \/ RouteAbandons(v)
      BY <3>2 DEF RouteFails, RouteAbandons, IInv, TypeOK
    <3>3. CASE ~(RouteDecodes(v) \/ RouteFails(v) \/ RouteAbandons(v))
      BY <2>1, <3>3 DEF Worker, CommitLoad, CommitSwap, Publish, CloseSlot, EnterSearch,
         SkipSearch, SendSeed, ReceiveSeed
    <3> QED
      BY <3>1, <3>2, <3>3
  <2> QED
    BY <2>1, ReaderMoves DEF Next
<1>3. CASE JoinNext
  <2>1. \/ walk' = walk
        \/ walk' = walk + 1 /\ walk \in done /\ results[walk] # "ok"
    BY <1>3 DEF JoinNext
  <2>2. walk \in Slots
    BY DEF IInv, TypeOK
  <2> QED
    BY <1>1, <1>2, <2>1, <2>2, LevelsAssumption DEF WalkTrue, Slots
<1>4. CASE UNCHANGED walk
  BY <1>1, <1>2, <1>4 DEF WalkTrue
<1>5. JoinNext \/ UNCHANGED walk
  BY DEF Next, Worker, RouteDecodes, RouteFails, RouteAbandons, CommitLoad, CommitSwap,
     Publish, CloseSlot, EnterSearch, SkipSearch, SendSeed, ReceiveSeed, Reader,
     ReturnSettled, ReturnJoined, Terminated, vars, workerVars
<1> QED
  BY <1>3, <1>4, <1>5

\* Before the routes run there is nothing to be wrong about.
LEMMA ReadInit == Init => RInv
<1> SUFFICES ASSUME Init PROVE RInv
  OBVIOUS
<1>1. IInv
  BY InitInvariant
<1>2. StayBeaten
  BY DEF Init, StayBeaten
<1>3. LevelsTrue
  <2> SUFFICES ASSUME NEW w \in Levels PROVE LevelTrue(w)
    BY DEF LevelsTrue
  <2>1. /\ w \in Workers /\ w # Seeder /\ FrameSlot(w) # SearchSlot(w)
        /\ FrameSlot(w) \in Slots /\ SearchSlot(w) \in Slots
    BY <1>1, LevelWorker
  <2>2. /\ pc[w] = "run" /\ slot[w] = FrameSlot(w)
        /\ results[FrameSlot(w)] = "unset" /\ results[SearchSlot(w)] = "unset"
    BY <2>1 DEF Init
  <2> QED
    BY <2>1, <2>2 DEF LevelTrue
<1>4. DoneTrue
  BY DEF Init, DoneTrue
<1>5. SeedTrue
  <2>1. 0 \in Workers /\ 0 # Seeder /\ 0 # SearchSlot(0) /\ Seeder \in Workers
        /\ FrameSlot(0) = 0
    BY <1>1, CoarsestLevel
  <2>2. pc[0] = "run" /\ slot[0] = 0 /\ pc[Seeder] = "recv"
    BY <2>1 DEF Init
  <2>3. \A w \in Workers : pc[w] # "seed"
    BY DEF Init
  <2> QED
    BY <2>1, <2>2, <2>3 DEF Init, SeedTrue, SearchAhead
<1>6. SeededTrue
  <2>1. Seeder \in Workers /\ SeededSlot \in Slots
    BY <1>1, CoarsestLevel
  <2> QED
    BY <2>1 DEF Init, SeededTrue
<1>7. PublishedTrue
  BY DEF Init, PublishedTrue, Decoded
<1>8. WalkTrue
  BY DEF Init, WalkTrue, Slots
<1> QED
  BY <1>1, <1>2, <1>3, <1>4, <1>5, <1>6, <1>7, <1>8 DEF RInv

\* So the results, the seed and what is published stay true to the image.
LEMMA ReadInvariance == Spec => []RInv
<1>1. RInv /\ [Next]_vars => RInv'
  BY IInvNext, BeatenNext, LevelsNext, DoneNext, SeedNext, SeededNext, PublishedNext,
     WalkNext DEF RInv
<1> QED
  BY ReadInit, <1>1, PTL DEF Spec

-----------------------------------------------------------------------------
\* Every slot is the seeded one or one of a level's two, and of no other level.
LEMMA SlotOwners ==
  /\ \A s \in Slots \ {SeededSlot} :
       \E w \in Levels : s = FrameSlot(w) \/ s = SearchSlot(w)
  /\ \A v, w \in Levels : /\ FrameSlot(v) # SearchSlot(w)
                          /\ SearchSlot(v) = SearchSlot(w) => v = w
  /\ \A w \in Levels : FrameSlot(w) # SeededSlot /\ SearchSlot(w) # SeededSlot
<1>1. ASSUME NEW s \in Slots \ {SeededSlot}
      PROVE  \E w \in Levels : s = FrameSlot(w) \/ s = SearchSlot(w)
  <2>1. CASE s = 0
    <3>1. 0 \in Levels /\ FrameSlot(0) = 0
      BY LevelsAssumption DEF Levels, FrameSlot
    <3> QED
      BY <2>1, <3>1
  <2>2. CASE s \in 2 .. N
    <3>1. s - 1 \in Levels /\ FrameSlot(s - 1) = s
      BY <2>2, LevelsAssumption DEF Levels, FrameSlot
    <3> QED
      BY <3>1
  <2>3. CASE s \in N + 1 .. 2 * N
    <3>1. s - (N + 1) \in Levels /\ SearchSlot(s - (N + 1)) = s
      BY <2>3, LevelsAssumption DEF Levels, SearchSlot
    <3> QED
      BY <3>1
  <2> QED
    BY <2>1, <2>2, <2>3, LevelsAssumption DEF Slots, SeededSlot
<1>2. /\ \A v, w \in Levels : /\ FrameSlot(v) # SearchSlot(w)
                              /\ SearchSlot(v) = SearchSlot(w) => v = w
      /\ \A w \in Levels : FrameSlot(w) # SeededSlot /\ SearchSlot(w) # SeededSlot
  BY LevelsAssumption DEF Levels, FrameSlot, SearchSlot, SeededSlot
<1> QED
  BY <1>1, <1>2

\* Whatever decoded, the image allows.
LEMMA DecodedAllowed ==
  ASSUME RInv, NEW s \in Decoded
  PROVE  /\ s # SeededSlot => s \in WouldDecode
         /\ s = SeededSlot => SeededVerdicts = {SeededSlot}
         /\ WouldDecode # {}
<1>1. ASSUME NEW t \in Decoded, t # SeededSlot PROVE t \in WouldDecode
  <2>1. PICK w \in Levels : t = FrameSlot(w) \/ t = SearchSlot(w)
    BY <1>1, SlotOwners DEF Decoded
  <2>2. results[t] = "ok" /\ LevelTrue(w)
    BY <1>1 DEF RInv, LevelsTrue, Decoded
  <2>3. CASE t = FrameSlot(w)
    BY <2>2, <2>3 DEF LevelTrue, WouldDecode, FrameSlots
  <2>4. CASE t = SearchSlot(w)
    BY <2>2, <2>4 DEF LevelTrue, WouldDecode
  <2> QED
    BY <2>1, <2>3, <2>4
<1>2. ASSUME s = SeededSlot PROVE SeededVerdicts = {SeededSlot} /\ WouldDecode # {}
  <2>1. 0 \notin image.good /\ seed \in image.seeds
    BY <1>2 DEF RInv, SeededTrue, Decoded
  <2>2. seed # "empty"
    BY <2>1 DEF RInv, IInv, TypeOK, Images
  <2>3. CASE abandoned \cap Coarsest = {}
    <3>1. FullFinding \in image.seeds
      BY <2>1, <2>2, <2>3 DEF RInv, SeedTrue
    <3>2. SeededSlot \in WouldDecode
      BY <2>1, <3>1 DEF WouldDecode
    <3> QED
      BY <2>1, <3>2 DEF SeededVerdicts
  <2>4. CASE abandoned \cap Coarsest # {}
    <3>1. \E t \in Decoded : t # SeededSlot
      BY <2>4 DEF RInv, SeedTrue
    <3> QED
      BY <1>1, <2>1, <3>1 DEF SeededVerdicts
  <2> QED
    BY <2>3, <2>4
<1> QED
  BY <1>1, <1>2

\* A slot the image would decode is missed only by a route that gave up.
LEMMA MissedExplained ==
  ASSUME RInv, NEW s \in WouldDecode, s \in done, results[s] # "ok"
  PROVE  s \in abandoned \/ (s = SeededSlot /\ abandoned # {})
<1>1. s \in Slots /\ \A w \in Levels : LevelTrue(w)
  BY DEF RInv, IInv, TypeOK, LevelsTrue
<1>2. ASSUME NEW w \in Levels, s = FrameSlot(w) PROVE s \in abandoned
  <2>1. /\ slot[w] = FrameSlot(w) \/ slot[w] = SearchSlot(w)
        /\ w \in Workers /\ FrameSlot(w) # SearchSlot(w)
    BY LevelWorker DEF RInv
  <2>2. pc[w] # "run" \/ slot[w] = SearchSlot(w)
    BY <1>2, <2>1 DEF RInv, DoneTrue
  <2>3. results[s] = "failed"
    BY <1>1, <1>2, <2>2 DEF LevelTrue, RInv, IInv, TypeOK
  <2>4. s \in image.good
    BY <1>2, SlotOwners DEF WouldDecode
  <2> QED
    BY <1>1, <1>2, <2>3, <2>4 DEF LevelTrue
<1>3. ASSUME NEW w \in Levels, s = SearchSlot(w) PROVE s \in abandoned
  <2>1. slot[w] = SearchSlot(w) /\ pc[w] # "run"
    BY <1>3, LevelWorker DEF RInv, DoneTrue
  <2>2. Searched(w) /\ s \in image.good
    <3>1. s \notin FrameSlots
      BY <1>3, SlotOwners DEF FrameSlots
    <3>2. s # SeededSlot
      BY <1>3, SlotOwners
    <3>3. PICK l \in Levels : s = SearchSlot(l) /\ Searched(l) /\ SearchSlot(l) \in image.good
      BY <3>1, <3>2 DEF WouldDecode
    <3> QED
      BY <1>3, <3>3, SlotOwners
  <2> QED
    BY <1>1, <1>3, <2>1, <2>2 DEF LevelTrue
<1>4. ASSUME s = SeededSlot, abandoned = {} PROVE FALSE
  <2>1. Seeder \in Workers /\ slot[Seeder] = SeededSlot
    BY CoarsestLevel DEF RInv
  <2>2. pc[Seeder] \notin {"recv", "run"}
    BY <1>4, <2>1 DEF RInv, DoneTrue
  <2>3. seed \notin image.seeds
    BY <1>4, <2>2 DEF RInv, SeededTrue
  <2>4. seed = FullFinding
    BY <1>4, <2>2 DEF RInv, SeedTrue
  <2>5. SeededSlot \notin FrameSlots /\ \A l \in Levels : SearchSlot(l) # SeededSlot
    BY SlotLayout, SlotOwners
  <2>6. FullFinding \in image.seeds
    BY <1>4, <2>5 DEF WouldDecode
  <2> QED
    BY <2>3, <2>4, <2>6
<1> QED
  BY <1>1, <1>2, <1>3, <1>4, SlotOwners

\* When every slot is closed and none decoded, none would have.
LEMMA NothingMissed ==
  ASSUME RInv, done = Slots, Decoded = {}
  PROVE  WouldDecode = {}
<1> SUFFICES ASSUME NEW s \in WouldDecode PROVE FALSE
  OBVIOUS
<1>1. s \in Slots
  BY SlotLayout, CoarsestLevel, LevelWorker DEF WouldDecode, FrameSlots, RInv
<1>2. abandoned # {}
  BY <1>1, MissedExplained DEF Decoded
<1> QED
  BY <1>2 DEF RInv, IInv, CancelledByADecode

-----------------------------------------------------------------------------
\* A step of the read is a step of the abstract read or a stutter: what it
\* returns is a verdict the image and the mode allow.
LEMMA ReturnsVerdict ==
  ASSUME RInv, [Next]_vars
  PROVE  [Outcome!Return]_<<Verdicts, ret>>
<1>1. Verdicts' = Verdicts
  BY NothingTakenBack DEF RInv, Verdicts, SeededVerdicts, WouldDecode, Searched,
     FullFinding, AfterSearch
<1>2. CASE ReturnSettled
  <2>1. ~exhaustive /\ ret = Reading /\ settled # <<>> /\ ret' = Head(settled)
    BY <1>2 DEF ReturnSettled
  <2>2. ret' \in Decoded
    BY <2>1 DEF RInv, PublishedTrue, IInv, TypeOK
  <2>3. ret' \in WouldDecode \cup SeededVerdicts /\ WouldDecode # {}
    BY <2>2, DecodedAllowed
  <2>4. ret' \in Verdicts
    BY <2>1, <2>3 DEF Verdicts
  <2> QED
    BY <1>1, <2>1, <2>4 DEF Outcome!Return
<1>3. CASE ReturnJoined
  <2>1. ~exhaustive /\ ret = Reading /\ done = Slots /\ settled = <<>> /\ ret' = Failed
    BY <1>3 DEF ReturnJoined
  <2>2. Decoded = {}
    <3> SUFFICES ASSUME NEW s \in Decoded PROVE FALSE
      OBVIOUS
    <3>1. PICK w \in Workers : slot[w] = s /\ pc[w] \in {"load", "cas", "publish"}
      BY <2>1 DEF RInv, PublishedTrue
    <3>2. slot[w] \in done
      BY <2>1 DEF RInv, IInv, TypeOK
    <3> QED
      BY <3>1, <3>2 DEF RInv, DoneTrue
  <2>3. WouldDecode = {}
    BY <2>1, <2>2, NothingMissed
  <2>4. ret' \in Verdicts
    BY <2>1, <2>3 DEF Verdicts
  <2> QED
    BY <1>1, <2>1, <2>4 DEF Outcome!Return
<1>4. ASSUME JoinNext, ret' # ret PROVE Outcome!Return
  <2>1. exhaustive /\ ret = Reading /\ walk \in done /\ walk \in Slots
    BY <1>4 DEF JoinNext, RInv, IInv, TypeOK
  <2>2. CASE results[walk] = "ok"
    <3>1. ret' = walk /\ walk \in Decoded
      BY <1>4, <2>1, <2>2 DEF JoinNext, Decoded
    <3>2. ASSUME NEW t \in WouldDecode \ {SeededSlot}, ~(walk <= t) PROVE FALSE
      <4>1. t \in Slots
        BY SlotLayout, CoarsestLevel, LevelWorker DEF WouldDecode, FrameSlots, RInv
      <4>2. t < walk
        BY <2>1, <3>2, <4>1, LevelsAssumption DEF Slots
      <4>3. t \in done /\ results[t] # "ok"
        BY <2>1, <4>1, <4>2 DEF RInv, WalkTrue
      <4>4. t \in abandoned
        BY <4>3, MissedExplained
      <4>5. PICK u \in Decoded : u < t
        BY <2>1, <4>4 DEF RInv, IInv, CancelledByADecode
      <4>6. u \in Slots /\ results[u] = "ok" /\ u < walk
        BY <2>1, <4>1, <4>2, <4>5, LevelsAssumption DEF Decoded, Slots
      <4> QED
        BY <2>1, <4>6 DEF RInv, WalkTrue
    <3>3. walk \in Verdicts
      BY <2>1, <3>1, <3>2, DecodedAllowed DEF Verdicts
    <3> QED
      BY <1>1, <2>1, <3>1, <3>3 DEF Outcome!Return
  <2>3. CASE results[walk] # "ok"
    <3>1. walk = 2 * N /\ ret' = Failed
      BY <1>4, <2>3 DEF JoinNext
    <3>2. \A s \in Slots : s \in done /\ results[s] # "ok"
      <4>1. \A s \in Slots : s = walk \/ s < walk
        BY <3>1, LevelsAssumption DEF Slots
      <4> QED
        BY <2>1, <2>3, <4>1 DEF RInv, WalkTrue
    <3>3. done = Slots /\ Decoded = {}
      BY <3>2 DEF RInv, IInv, TypeOK, Decoded
    <3>4. ret' \in Verdicts
      BY <3>1, <3>3, NothingMissed DEF Verdicts
    <3> QED
      BY <1>1, <2>1, <3>4 DEF Outcome!Return
  <2> QED
    BY <2>2, <2>3
<1>5. Reader \/ UNCHANGED ret
  BY DEF Next, Worker, RouteDecodes, RouteFails, RouteAbandons, CommitLoad, CommitSwap,
     Publish, CloseSlot, EnterSearch, SkipSearch, SendSeed, ReceiveSeed, Terminated, vars
<1> QED
  BY <1>1, <1>2, <1>3, <1>4, <1>5 DEF Reader

\* The read starts as the abstract one does.
LEMMA ReadStarts == Init => Outcome!Init
<1> SUFFICES ASSUME Init PROVE Reading \notin Verdicts
  BY DEF Init, Outcome!Init
<1>1. WouldDecode \subseteq Slots /\ SeededVerdicts \subseteq Slots
  BY ReadInit, SlotLayout, CoarsestLevel, LevelWorker DEF WouldDecode, FrameSlots, RInv,
     SeededVerdicts
<1>2. Verdicts \subseteq Slots \cup {Failed}
  BY <1>1 DEF Verdicts
<1> QED
  BY <1>2, LevelsAssumption DEF Slots, Failed, Reading

\* The safety half of ImplementsReadOutcome, for every number of levels: a read
\* returns once, and returns a slot that would decode, or the seeded one, or fails
\* only when no route would decode; an exhaustive read returns the best such slot.
THEOREM ReadRefines == Spec => Outcome!Init /\ [][Outcome!Return]_<<Verdicts, ret>>
<1>1. Spec => [][Outcome!Return]_<<Verdicts, ret>>
  BY ReadInvariance, ReturnsVerdict, PTL DEF Spec
<1> QED
  BY <1>1, ReadStarts, PTL DEF Spec
=============================================================================
