--------------------------- MODULE RoutePyramid ---------------------------
(***************************************************************************)
(* The route pyramid of one still-image read:                              *)
(* decodePyramidCapabilitiesWithGPU in internal/read/pyramid.go.           *)
(*                                                                         *)
(* A frame is searched at N resolutions at once, coarsest level 0 first.   *)
(* One goroutine per level reads the whole frame and, when that fails with *)
(* finder evidence, searches the level's regions; the coarsest level also  *)
(* sends its finding once to a seeded goroutine that resumes from it on    *)
(* the finer levels.  Every route owns one fixed slot:                     *)
(*                                                                         *)
(*    0  coarsest frame | 1  seeded | 2..N  finer frames | N+1..2N searches *)
(*                                                                         *)
(* A route that decodes commits its slot to the atomic "winner" and, in an *)
(* ordinary read, publishes it to the reader.  An exhaustive (detailed     *)
(* diagnostic) read joins the slots in order instead.                      *)
(*                                                                         *)
(* What the pixels hold is the record "image": which routes decode when    *)
(* nobody cancels them, and what the coarsest level locates.               *)
(***************************************************************************)
EXTENDS Integers, FiniteSets, Sequences

CONSTANTS N,          \* the number of pyramid levels
          Inputs      \* the images considered, as records of Images

ASSUME LevelsAssumption == N \in Nat \ {0}

Levels   == 0 .. N - 1
Slots    == 0 .. 2 * N
NoWinner == 2 * N + 1                        \* int64(len(done))
Seeder   == N                                \* the seeded goroutine
Workers  == 0 .. N

SeededSlot    == 1
FrameSlot(i)  == IF i = 0 THEN 0 ELSE i + 1
SearchSlot(i) == N + 1 + i
FrameSlots    == {FrameSlot(i) : i \in Levels}
SearchSlots   == {SearchSlot(i) : i \in Levels}

\* What a finding can be: nothing located, the geometry the whole-frame read
\* located, or the one a region search located.
Findings == {"none", "frame", "search"}

Images == [ good     : SUBSET (FrameSlots \cup SearchSlots),
            evidence : SUBSET Levels,
            fLoc     : BOOLEAN,
            sLoc     : BOOLEAN,
            seeds    : SUBSET {"frame", "search"} ]

\* A read that decoded also located the symbol it decoded.
PossibleImage(im) ==
  /\ 0 \in im.good => im.fLoc
  /\ SearchSlot(0) \in im.good => im.sLoc

ASSUME InputsAssumption == Inputs \subseteq {im \in Images : PossibleImage(im)}

VARIABLES
  exhaustive,   \* tr != nil && tr.detailed
  image,        \* the outcome of every route left to run to its end
  pc,           \* where each goroutine is
  slot,         \* the slot it is working for
  loaded,       \* its last load of the winner, inside commit
  winner,       \* the atomic
  results,      \* results[s].ok, "unset" before the owner writes it
  done,         \* the closed done channels
  settled,      \* the buffered settled channel
  seed,         \* the seed channel: empty or one finding
  found,        \* fp of the coarsest level
  walk,         \* the slot an exhaustive reader waits for
  ret,          \* what the read returned
  abandoned     \* slots whose route gave up because quit told it to

workerVars == <<pc, slot, loaded>>
vars == <<exhaustive, image, pc, slot, loaded, winner, results, done, settled,
          seed, found, walk, ret, abandoned>>

Failed == -1
Reading == -2

-----------------------------------------------------------------------------
\* Mutant: the ordinary hook without its test that anyone has won.
QuitWithoutWinner(s) == IF exhaustive THEN winner < s ELSE winner # s

\* The hook every route polls.  An exhaustive read cancels only the slots a
\* better one has beaten; an ordinary read cancels every other slot.
Quit(s) == IF exhaustive THEN winner < s
                         ELSE winner < NoWinner /\ winner # s

\* decodeRetriesRegionsLevel updates the finding when it decoded, or when
\* nothing was located before it.
AfterSearch(f, decoded) ==
  IF decoded \/ (f = "none" /\ image.sLoc) THEN "search" ELSE f

\* The route decodes if it runs to its end.
Decodes(s) == IF s = SeededSlot THEN seed \in image.seeds ELSE s \in image.good

-----------------------------------------------------------------------------
Init ==
  /\ exhaustive \in BOOLEAN
  /\ image \in Inputs
  /\ pc = [w \in Workers |-> IF w = Seeder THEN "recv" ELSE "run"]
  /\ slot = [w \in Workers |-> IF w = Seeder THEN SeededSlot ELSE FrameSlot(w)]
  /\ loaded = [w \in Workers |-> NoWinner]
  /\ winner = NoWinner
  /\ results = [s \in Slots |-> "unset"]
  /\ done = {}
  /\ settled = <<>>
  /\ seed = "empty"
  /\ found = "none"
  /\ walk = 0
  /\ ret = Reading
  /\ abandoned = {}

Goto(w, label) == pc' = [pc EXCEPT ![w] = label]

\* Where a route goes once its result stands: the coarsest search still has
\* its seed to send, every other route closes its done channel.
AfterResult(w) == IF slot[w] = SearchSlot(0) THEN "seed" ELSE "close"

\* The finding the coarsest level holds after its route ran to its end.
Locate(w, decoded) ==
  found' = IF slot[w] = 0 /\ image.fLoc THEN "frame"
           ELSE IF slot[w] = SearchSlot(0) THEN AfterSearch(found, decoded)
           ELSE found

RouteDecodes(w) ==
  /\ pc[w] = "run"
  /\ Decodes(slot[w])
  /\ results' = [results EXCEPT ![slot[w]] = "ok"]
  /\ Locate(w, TRUE)
  /\ Goto(w, "load")
  /\ UNCHANGED <<exhaustive, image, slot, loaded, winner, done, settled, seed,
                 walk, ret, abandoned>>

RouteFails(w) ==
  /\ pc[w] = "run"
  /\ ~Decodes(slot[w])
  /\ results' = [results EXCEPT ![slot[w]] = "failed"]
  /\ Locate(w, FALSE)
  /\ Goto(w, AfterResult(w))
  /\ UNCHANGED <<exhaustive, image, slot, loaded, winner, done, settled, seed,
                 walk, ret, abandoned>>

\* A route polls quit between its stages, so it may give up before or after
\* it located anything.
RouteAbandons(w) ==
  /\ pc[w] = "run"
  /\ Quit(slot[w])
  /\ results' = [results EXCEPT ![slot[w]] = "failed"]
  /\ abandoned' = abandoned \cup {slot[w]}
  /\ \/ UNCHANGED found
     \/ Locate(w, FALSE)
  /\ Goto(w, AfterResult(w))
  /\ UNCHANGED <<exhaustive, image, slot, loaded, winner, done, settled, seed,
                 walk, ret>>

\* commit: a load and a compare-and-swap, retried when another route moved
\* the winner in between.
CommitLoad(w) ==
  /\ pc[w] = "load"
  /\ loaded' = [loaded EXCEPT ![w] = winner]
  /\ Goto(w, IF slot[w] >= winner THEN "publish" ELSE "cas")
  /\ UNCHANGED <<exhaustive, image, slot, winner, results, done, settled, seed,
                 found, walk, ret, abandoned>>

\* Mutant: a plain store instead of the compare-and-swap.
CommitStore(w) ==
  /\ pc[w] = "cas"
  /\ winner' = slot[w]
  /\ Goto(w, "publish")
  /\ UNCHANGED <<exhaustive, image, slot, loaded, results, done, settled, seed,
                 found, walk, ret, abandoned>>

\* Mutant: a failed swap is retried without a fresh load.
CommitSwapStale(w) ==
  /\ pc[w] = "cas"
  /\ IF winner = loaded[w]
       THEN winner' = slot[w] /\ Goto(w, "publish")
       ELSE UNCHANGED <<winner, pc>>
  /\ UNCHANGED <<exhaustive, image, slot, loaded, results, done, settled, seed,
                 found, walk, ret, abandoned>>

CommitSwap(w) ==
  /\ pc[w] = "cas"
  /\ IF winner = loaded[w]
       THEN winner' = slot[w] /\ Goto(w, "publish")
       ELSE UNCHANGED winner /\ Goto(w, "load")
  /\ UNCHANGED <<exhaustive, image, slot, loaded, results, done, settled, seed,
                 found, walk, ret, abandoned>>

Publish(w) ==
  /\ pc[w] = "publish"
  /\ settled' = IF exhaustive THEN settled ELSE Append(settled, slot[w])
  /\ Goto(w, AfterResult(w))
  /\ UNCHANGED <<exhaustive, image, slot, loaded, winner, results, done, seed,
                 found, walk, ret, abandoned>>

CloseSlot(w) ==
  /\ pc[w] = "close"
  /\ done' = done \cup {slot[w]}
  /\ Goto(w, IF slot[w] \in FrameSlots THEN "branch" ELSE "end")
  /\ UNCHANGED <<exhaustive, image, slot, loaded, winner, results, settled, seed,
                 found, walk, ret, abandoned>>

\* After the frame read: the search runs only when the frame did not decode,
\* left finder evidence, and the search slot is not already beaten.
EnterSearch(w) ==
  /\ pc[w] = "branch"
  /\ results[FrameSlot(w)] # "ok"
  /\ w \in image.evidence
  /\ ~Quit(SearchSlot(w))
  /\ slot' = [slot EXCEPT ![w] = SearchSlot(w)]
  /\ Goto(w, "run")
  /\ UNCHANGED <<exhaustive, image, loaded, winner, results, done, settled, seed,
                 found, walk, ret, abandoned>>

SkipSearch(w) ==
  /\ pc[w] = "branch"
  /\ \/ results[FrameSlot(w)] = "ok"
     \/ w \notin image.evidence
     \/ Quit(SearchSlot(w))
  /\ slot' = [slot EXCEPT ![w] = SearchSlot(w)]
  /\ abandoned' = IF results[FrameSlot(w)] # "ok" /\ w \in image.evidence
                    THEN abandoned \cup {SearchSlot(w)} ELSE abandoned
  /\ Goto(w, IF w = 0 THEN "seed" ELSE "close")
  /\ UNCHANGED <<exhaustive, image, loaded, winner, results, done, settled, seed,
                 found, walk, ret>>

SendSeed(w) ==
  /\ pc[w] = "seed"
  /\ seed = "empty"
  /\ seed' = found
  /\ Goto(w, "close")
  /\ UNCHANGED <<exhaustive, image, slot, loaded, winner, results, done, settled,
                 found, walk, ret, abandoned>>

\* The seeded goroutine keeps the finding it received: seed stays as it was.
ReceiveSeed(w) ==
  /\ pc[w] = "recv"
  /\ seed # "empty"
  /\ IF seed = "none" \/ Quit(SeededSlot)
       THEN /\ Goto(w, "close")
            /\ abandoned' = IF Quit(SeededSlot) THEN abandoned \cup {SeededSlot}
                                                ELSE abandoned
       ELSE Goto(w, "run") /\ UNCHANGED abandoned
  /\ UNCHANGED <<exhaustive, image, slot, loaded, winner, results, done, settled,
                 seed, found, walk, ret>>

Worker(w) ==
  \/ RouteDecodes(w) \/ RouteFails(w) \/ RouteAbandons(w)
  \/ CommitLoad(w) \/ CommitSwap(w) \/ Publish(w) \/ CloseSlot(w)
  \/ EnterSearch(w) \/ SkipSearch(w) \/ SendSeed(w) \/ ReceiveSeed(w)

-----------------------------------------------------------------------------
\* The ordinary reader takes the first slot out of settled.
ReturnSettled ==
  /\ ~exhaustive /\ ret = Reading
  /\ settled # <<>>
  /\ ret' = Head(settled)
  /\ settled' = Tail(settled)
  /\ UNCHANGED <<exhaustive, image, workerVars, winner, results, done, seed,
                 found, walk, abandoned>>

\* It fails only once every done channel closed and nothing is left in settled.
ReturnJoined ==
  /\ ~exhaustive /\ ret = Reading
  /\ done = Slots
  /\ settled = <<>>
  /\ ret' = Failed
  /\ UNCHANGED <<exhaustive, image, workerVars, winner, results, done, settled,
                 seed, found, walk, abandoned>>

\* The exhaustive reader waits for the slots one after the other.
JoinNext ==
  /\ exhaustive /\ ret = Reading
  /\ walk \in done
  /\ IF results[walk] = "ok" THEN ret' = walk /\ UNCHANGED walk
     ELSE IF walk = 2 * N    THEN ret' = Failed /\ UNCHANGED walk
     ELSE walk' = walk + 1   /\ UNCHANGED ret
  /\ UNCHANGED <<exhaustive, image, workerVars, winner, results, done, settled,
                 seed, found, abandoned>>

Reader == ReturnSettled \/ ReturnJoined \/ JoinNext

\* The read has returned and no route is left running behind it.
Finished == ret # Reading /\ \A w \in Workers : pc[w] = "end"

Terminated == Finished /\ UNCHANGED vars

Next == (\E w \in Workers : Worker(w)) \/ Reader \/ Terminated

\* Every goroutine is scheduled again and again by the Go runtime.
Fairness == WF_vars(Reader) /\ \A w \in Workers : WF_vars(Worker(w))

Spec == Init /\ [][Next]_vars /\ Fairness

-----------------------------------------------------------------------------
Labels == {"run", "load", "cas", "publish", "close", "branch", "seed", "recv",
           "end"}

TypeOK ==
  /\ exhaustive \in BOOLEAN
  /\ image \in Images
  /\ pc \in [Workers -> Labels]
  /\ slot \in [Workers -> Slots]
  /\ loaded \in [Workers -> Slots \cup {NoWinner}]
  /\ winner \in Slots \cup {NoWinner}
  /\ results \in [Slots -> {"unset", "ok", "failed"}]
  /\ done \subseteq Slots
  /\ settled \in Seq(Slots)
  /\ seed \in Findings \cup {"empty"}
  /\ found \in Findings
  /\ walk \in Slots
  /\ ret \in Slots \cup {Failed, Reading}
  /\ abandoned \subseteq Slots

\* The routes that decode when nobody cancels them.  The seeded route resumes
\* from the finding the coarsest level has after its last uncancelled route.
Searched(i) == FrameSlot(i) \notin image.good /\ i \in image.evidence

FullFinding ==
  LET frame == IF image.fLoc THEN "frame" ELSE "none"
  IN  IF Searched(0) THEN AfterSearch(frame, SearchSlot(0) \in image.good)
                     ELSE frame

WouldDecode ==
  {s \in FrameSlots : s \in image.good}
    \cup {SearchSlot(i) : i \in {l \in Levels :
                               Searched(l) /\ SearchSlot(l) \in image.good}}
    \cup {s \in {SeededSlot} : 0 \notin image.good /\ FullFinding \in image.seeds}

Decoded == {s \in Slots : results[s] = "ok"}

(***************************************************************************)
(* Properties.                                                             *)
(***************************************************************************)

\* The winner the routes poll is the best slot that committed, and names a slot
\* that decoded: no commit is lost however the load and the swap of several
\* routes interleave (pyramid.go:305-312).
InCommit(w) == pc[w] \in {"load", "cas"}

WinnerIsBest ==
  /\ winner # NoWinner => results[winner] = "ok"
  /\ \A s \in Decoded :
       winner <= s \/ \E w \in Workers : slot[w] = s /\ InCommit(w)

\* A route is cancelled only because another one decoded, in an exhaustive read
\* one of higher priority: cancellation bounds wasted work and never loses the
\* only success (pyramid.go:286-296).
CancelledByADecode ==
  \A s \in abandoned : \E t \in Decoded \ {s} : exhaustive => t < s

\* The read returns, and no goroutine stays blocked behind it: not on its
\* commit, not on settled, and the seeded one not on a seed nobody sends.
EveryRouteEnds == <>Finished

(***************************************************************************)
(* The abstract read: ReadOutcome, whose verdicts are the slots the image  *)
(* and the mode allow.                                                     *)
(***************************************************************************)
SeededVerdicts == IF image.seeds = {} \/ 0 \in image.good THEN {} ELSE {SeededSlot}

Verdicts ==
  CASE WouldDecode = {} -> {Failed}
    [] WouldDecode # {} /\ ~exhaustive -> WouldDecode \cup SeededVerdicts
    [] OTHER -> SeededVerdicts \cup
                {s \in WouldDecode : \A t \in WouldDecode \ {SeededSlot} : s <= t}

Outcome == INSTANCE ReadOutcome WITH verdicts <- Verdicts, verdict <- ret,
                                     Pending <- Reading

\* Every read commits one of those verdicts, once, and eventually.
ImplementsReadOutcome == Outcome!Spec
=============================================================================
