------------------------------- MODULE Stream -------------------------------
(***************************************************************************)
(* One Stream: the frame scheduler of internal/read/stream.go over the     *)
(* evidence group.                                                         *)
(*                                                                         *)
(* A frame is a record: the shorter sides of its pyramid levels, coarsest  *)
(* first (one side: no pyramid), the code on the screen, and what a finder *)
(* traversal sees on each level and on the enlarged canvas.  A sight names *)
(* the routes whose observation is admitted to payload correction (none:   *)
(* nothing was located), whether the frame's modules alone are clear       *)
(* enough to correct, and the snapshot (ev, layout, pos, fix).             *)
(* Pixels, geometry and the decoders are these data; which of them is      *)
(* consulted, in which order and how often, is the specification.          *)
(* The resident session is the subject of GpuSession: a level it locates   *)
(* gives the same sight, and what it does not locate is scanned here.      *)
(***************************************************************************)
EXTENDS EvidenceGroup

CONSTANTS Frames,       \* the frames a caller may supply
          Exposures,    \* frames of one code that only together cover its bits
          Codes,        \* the codes they show
          Codeword,     \* Codes -> SUBSET Bits, the bits that are one
          CodeRoute,    \* Codes -> the route that reads the code
          DockedCodes,  \* the codes with docked symbols
          Family,       \* the routes' finder families, a function on 0 .. n-1
          IsoRoutes,    \* the routes with UsesISO23634Base
          Radius,       \* how many bits LDPC corrects
          SeedFix,      \* seedMinFixedAgreement
          RingCap,      \* streamRingCap
          PendingCap,   \* streamPendingCap
          EnlargeFactor

Routes == DOMAIN Family
Period == EnlargeFactor * EnlargeFactor

\* What a finder traversal may see: the data of a sight.
Sights == [plausible : SUBSET Routes, clear : BOOLEAN, ev : [Bits -> Int] \cup {NoEvidence},
           layout : Nat, pos : Int, fix : Nat]

ASSUME FramesAssumption ==
  /\ Exposures \subseteq Frames
  /\ Frames \subseteq [sides : Seq(Nat \ {0}), code : Codes \cup {NoCode},
                       view : Seq(Sights), enlarged : Sights]
  /\ \A f \in Frames : f.sides # <<>> /\ Len(f.view) = Len(f.sides)

ASSUME StreamAssumption ==
  /\ IsFiniteSet(Routes) /\ Routes = 0 .. Cardinality(Routes) - 1 /\ Routes # {}
  /\ IsoRoutes \subseteq Routes /\ CodeRoute \in [Codes -> Routes]
  /\ Codeword \in [Codes -> SUBSET Bits] /\ NoCode \notin Codes
  /\ DockedCodes \subseteq Codes
  /\ {RingCap, PendingCap} \subseteq Nat \ {0} /\ EnlargeFactor \in Nat \ {0, 1}
  /\ \A c, d \in Codes : c # d /\ CodeRoute[c] = CodeRoute[d] =>
       Cardinality({i \in Bits : (i \in Codeword[c]) # (i \in Codeword[d])}) > 2 * Radius

VARIABLES
  frame,      \* the frame being read, or the last one
  stage,      \* the attempt it has come to; "idle" between frames
  obs,        \* the observation offered to correction, or NoObs
  tried,      \* canvases already scanned in this frame
  chains,     \* work.correctionChains
  banked,     \* bankedGen = gen
  out,        \* the code returned for the frame
  ring, pending, group,
  cursor, failures,   \* routeCursor, routeFailures
  age         \* gen - enlargedGen, up to Period; Period also for none yet

vars == <<frame, stage, obs, tried, chains, banked, out, ring, pending, group,
          cursor, failures, age>>
search == <<ring, pending, age>>
route  == <<cursor, failures>>

NoObs == [route |-> -1]
Blank == [plausible |-> {}, clear |-> FALSE, ev |-> NoEvidence, layout |-> 0,
          pos |-> 0, fix |-> 0]
NoFrame == [sides |-> <<1>>, code |-> NoCode, view |-> <<Blank>>, enlarged |-> Blank]

Init ==
  /\ frame = NoFrame /\ stage = "idle" /\ obs = NoObs /\ tried = {}
  /\ chains = 0 /\ banked = FALSE /\ out = NoCode
  /\ ring = <<>> /\ pending = <<>> /\ group = EmptyGroup
  /\ cursor = 0 /\ failures = 0 /\ age = Period

-----------------------------------------------------------------------------
(* Canvases and routes. *)

Base(f) == Last(f.sides)

\* nearestLevelImage: the first of the closest.
Nearest(f, side) ==
  LET Off(i) == Magnitude(f.sides[i] - side)
  IN  CHOOSE i \in DOMAIN f.sides :
        \A j \in DOMAIN f.sides : Off(i) < Off(j) \/ (Off(i) = Off(j) /\ i <= j)

Native(side) == [side |-> side, enlarged |-> FALSE]

CanvasSide(f, h)  == IF h.enlarged THEN EnlargeFactor * Base(f)
                                   ELSE f.sides[Nearest(f, h.side)]
CanvasSight(f, h) == IF h.enlarged THEN f.enlarged ELSE f.view[Nearest(f, h.side)]

\* orderedRoutes: the i-th route in turn, from the cursor.
Turn(i) == (cursor + i) % Cardinality(Routes)

\* observeLocatedDetector: the first admitted route in turn.
FirstTurn(s) ==
  CHOOSE i \in Routes : Turn(i) \in s.plausible
                        /\ \A j \in Routes : j < i => Turn(j) \notin s.plausible

Observation(s, r, side, native) ==
  [route |-> r, sight |-> s, side |-> side, native |-> native]

\* replayQuad: a quad that still sits on the symbol samples it; one that does
\* not, or reads the fixed patterns badly, is refused before any correction.
SeedObserved(p, s) ==
  /\ p.size = frame.sides /\ s.plausible # {}
  /\ p.pos = s.pos /\ p.layout = s.layout
  /\ \A j \in 0 .. FirstTurn(s) : Family[Turn(j)] = p.family
  /\ s.fix >= SeedFix

UpTo(n, seq) == SubSeq(seq, 1, Min({n, Len(seq)}))

EnlargedDue == age >= Period

\* refillPending, on an empty queue.
Refill(f) ==
  IF Len(f.sides) > 1
  THEN LET finer == [i \in 1 .. Len(f.sides) - 1 |-> Native(f.sides[i + 1])]
       IN  UpTo(PendingCap, finer)
  ELSE IF EnlargedDue
       THEN <<[side |-> EnlargeFactor * Base(f), enlarged |-> TRUE]>>
       ELSE <<>>

Following == [seed |-> "rescan", rescan |-> "fresh", fresh |-> "queued",
              queued |-> "idle", idle |-> "idle"]

\* Mutant: a spent correction does not end the frame.
AfterMissGoOn(spent) == Following[stage]

AfterMiss(spent) == IF spent >= 1 THEN "idle" ELSE Following[stage]

-----------------------------------------------------------------------------
(* The stages of a frame. *)

\* The next frame in supply order.
Supply(f) ==
  /\ stage = "idle"
  /\ frame' = f
  /\ stage' = IF ring = <<>> THEN "fresh" ELSE "seed"
  /\ tried' = {} /\ chains' = 0 /\ banked' = FALSE /\ out' = NoCode
  /\ age' = IF age < Period THEN age + 1 ELSE age
  /\ UNCHANGED <<obs, ring, pending, group, route>>

Reset ==
  /\ stage = "idle"
  /\ frame' = NoFrame /\ out' = NoCode
  /\ tried' = {} /\ chains' = 0 /\ banked' = FALSE
  /\ ring' = <<>> /\ pending' = <<>> /\ group' = EmptyGroup
  /\ cursor' = 0 /\ failures' = 0 /\ age' = Period
  /\ UNCHANGED <<stage, obs>>

Seed ==
  /\ stage = "seed" /\ obs = NoObs
  /\ LET p == Head(ring)
         s == CanvasSight(frame, Native(p.side))
     IN  IF SeedObserved(p, s)
         THEN /\ obs' = Observation(s, Turn(FirstTurn(s)), p.side, TRUE)
              /\ UNCHANGED stage
         ELSE /\ stage' = AfterMiss(chains)
              /\ UNCHANGED obs
  /\ UNCHANGED <<frame, tried, chains, banked, out, search, group, route>>

Scan(h) ==
  LET side == CanvasSide(frame, h)
      s    == CanvasSight(frame, h)
  IN  /\ tried' = tried \cup {side}
      /\ IF side \notin tried /\ s.plausible # {}
         THEN /\ obs' = Observation(s, Turn(FirstTurn(s)), side, ~h.enlarged)
              /\ UNCHANGED stage
         ELSE /\ stage' = AfterMiss(chains)
              /\ UNCHANGED obs
      /\ UNCHANGED <<frame, chains, banked, out, ring, group, route>>

\* The replay slot's scan on the remembered canvas.
Rescan ==
  /\ stage = "rescan" /\ obs = NoObs
  /\ Scan(Native(Head(ring).side))
  /\ UNCHANGED <<pending, age>>

FrameScan ==
  /\ stage = "fresh" /\ obs = NoObs
  /\ Scan(Native(Head(frame.sides)))
  /\ UNCHANGED <<pending, age>>

\* Mutant: the hypothesis taken stays at the head of the queue.
QueuedScanKeeping ==
  LET queue == IF pending = <<>> THEN Refill(frame) ELSE pending
  IN  /\ stage = "queued" /\ obs = NoObs
      /\ queue # <<>>
      /\ Scan(Head(queue))
      /\ pending' = queue
      /\ age' = IF Head(queue).enlarged THEN 0 ELSE age

QueuedScan ==
  LET queue == IF pending = <<>> THEN Refill(frame) ELSE pending
  IN  /\ stage = "queued" /\ obs = NoObs
      /\ queue # <<>>
      /\ Scan(Head(queue))
      /\ pending' = Tail(queue)
      /\ age' = IF Head(queue).enlarged THEN 0 ELSE age

NothingQueued ==
  /\ stage = "queued" /\ obs = NoObs
  /\ pending = <<>> /\ Refill(frame) = <<>>
  /\ stage' = "idle"
  /\ UNCHANGED <<frame, obs, tried, chains, banked, out, search, group, route>>

-----------------------------------------------------------------------------
(* Finishing an observation. *)

\* What error correction makes of evidence: the code within its reach.
Corrected(ev) ==
  LET silent   == {i \in Bits : ev[i] = 0}
      hard     == Hard(ev)
      Wrong(c) == silent \cup (hard \ Codeword[c]) \cup (Codeword[c] \ hard)
      near     == {c \in Codes : CodeRoute[c] = obs.route /\ Cardinality(Wrong(c)) <= Radius}
  IN  IF near = {} THEN NoCode ELSE CHOOSE c \in near : TRUE

Offered == /\ obs.route \in IsoRoutes
           /\ obs.sight.ev # NoEvidence
           /\ ~banked

Offer == IF Offered THEN Admit(group, obs.sight) ELSE Admission(group, FALSE, FALSE)

Current == Family[obs.route] = "current"

Due == Offer.changed /\ CorrectionDue(Offer.group)

Reusable == Offer.admitted /\ ConfirmedMatch(Offer.group, obs.sight.ev)

\* Evidence that adds nothing, or not enough, is not worth a correction.
Withheld ==
  /\ Offer.admitted /\ ~Reusable /\ ~Due /\ ~Offer.group.disabled
  /\ ~Offer.changed \/ Len(Offer.group.snaps) > 1

Prior == [side |-> obs.side, pos |-> obs.sight.pos, layout |-> obs.sight.layout,
          size |-> frame.sides, family |-> Family[obs.route]]

\* The new hypothesis first, then the older ones of other scales, bounded.
Remember ==
  LET kept[n \in 0 .. Len(ring)] ==
        IF n = 0 THEN <<Prior>>
        ELSE IF ring[n].side # obs.side /\ Len(kept[n - 1]) < RingCap
             THEN Append(kept[n - 1], ring[n])
             ELSE kept[n - 1]
  IN  kept[Len(ring)]

\* failRoute.
FailRoute(g) ==
  IF obs.route \in IsoRoutes /\ failures = 0 /\ g.snaps # <<>>
  THEN failures' = 1 /\ UNCHANGED cursor
  ELSE failures' = 0 /\ cursor' = (obs.route + 1) % Cardinality(Routes)

\* The end of every attempt: finishStreamObservation and its callers.
Settle(code, g, spent) ==
  /\ group' = g
  /\ chains' = chains + spent
  /\ banked' = (banked \/ Offered)
  /\ out' = code
  /\ obs' = NoObs
  /\ IF code # NoCode
     THEN /\ stage' = "idle"
          /\ cursor' = obs.route /\ failures' = 0
          /\ ring' = IF stage # "seed" /\ obs.native THEN Remember ELSE ring
     ELSE /\ stage' = AfterMiss(chains + spent)
          /\ IF spent > 0 THEN FailRoute(g) ELSE UNCHANGED route
          /\ UNCHANGED ring
  /\ UNCHANGED <<frame, tried, pending, age>>

ReuseConfirmed ==
  /\ obs # NoObs /\ Current /\ Reusable
  /\ Settle(Offer.group.confirmed, Offer.group, 0)

\* The chain goes to the aggregate; a docked primary is beyond it.
CorrectAggregate ==
  /\ obs # NoObs /\ Current /\ ~Reusable /\ Due
  /\ LET g == RecordAttempt(Offer.group)
         c == Corrected(Signed(g.snaps))
     IN  IF c = NoCode THEN Settle(NoCode, g, 1)
         ELSE IF c \in DockedCodes THEN Settle(NoCode, [g EXCEPT !.disabled = TRUE], 1)
         ELSE Settle(c, Confirm(g, c), 1)

Withhold ==
  /\ obs # NoObs /\ Current /\ Withheld
  /\ Settle(NoCode, Offer.group, 0)

\* What the frame's own modules decode to under the observed route.
OwnCode ==
  IF CodeRoute[frame.code] = obs.route /\ obs.sight.clear THEN frame.code ELSE NoCode

CorrectAlone ==
  /\ obs # NoObs /\ Current /\ ~Reusable /\ ~Due /\ ~Withheld
  /\ Settle(OwnCode,
            IF OwnCode = NoCode THEN Offer.group
            ELSE IF OwnCode \in DockedCodes THEN EmptyGroup
            ELSE IF obs.route \in IsoRoutes THEN Restart(group, obs.sight, OwnCode)
            ELSE EmptyGroup, 1)

CorrectHistorical ==
  /\ obs # NoObs /\ ~Current
  /\ Settle(OwnCode, IF OwnCode = NoCode THEN group ELSE EmptyGroup, 1)

Next ==
  \/ \E f \in Frames : Supply(f)
  \/ Reset
  \/ Seed \/ Rescan \/ FrameScan \/ QueuedScan \/ NothingQueued
  \/ ReuseConfirmed \/ CorrectAggregate \/ Withhold \/ CorrectAlone \/ CorrectHistorical

\* The caller keeps supplying frames, and a call is one thread's loop-free code.
Spec == Init /\ [][Next]_vars /\ []<><<Next>>_vars

-----------------------------------------------------------------------------
(* Properties. *)

(***************************************************************************)
(* Whatever was remembered, queued or accumulated before it, a frame pays  *)
(* for at most one payload correction (stream.go:13-20).                   *)
(***************************************************************************)
OneChainPerFrame == chains <= 1

(***************************************************************************)
(* An observation weighs once in the retained evidence, however often its  *)
(* frame is repeated: the window holds no two equal snapshots.             *)
(***************************************************************************)
EvidenceCountedOnce ==
  \A i, j \in DOMAIN group.snaps : i # j => group.snaps[i] # group.snaps[j]

Sees(f) == Range(f.view) \cup {f.enlarged}

\* The bits in which two codes differ.
Apart(c, d) == {i \in Bits : (i \in Codeword[c]) # (i \in Codeword[d])}

\* Strong evidence on three quarters of the bits, none of it wrong, and more of it
\* than LDPC corrects against every other code of the route.
Sharp(f) == \A s \in Sees(f) : s.ev # NoEvidence =>
  /\ \A i \in Votes(s.ev) : (s.ev[i] < 0) = (i \in Codeword[f.code])
  /\ Cardinality(Votes(s.ev)) * 4 >= Cardinality(Bits) * 3
  /\ \A c \in Codes \ {f.code} : CodeRoute[c] = CodeRoute[f.code] =>
       Cardinality(Apart(c, f.code) \cap Votes(s.ev)) > Radius

(***************************************************************************)
(* A frame that shows its code sharply is answered with that code or with  *)
(* an error, never with what an earlier frame confirmed.  A mixture comes  *)
(* out only while nothing is confirmed, of evidence that did not decode by *)
(* itself, and only for a code that differs in a quarter of the bits at    *)
(* most: ContentConflict takes that much for noise, and the code that has  *)
(* left the screen is returned (stream.go:28-29 promises the one on it).   *)
(***************************************************************************)
SharpFramesReadTrue ==
  [][Sharp(frame) /\ out = NoCode /\ out' # NoCode =>
       \/ out' = frame.code
       \/ /\ group.snaps # <<>> /\ group.confirmed = NoCode
          /\ Cardinality(Apart(out', frame.code)) * 4 <= Cardinality(Bits)]_vars

\* A frame some canvas of which decodes by itself, and none of which misleads.
Findable(f) ==
  /\ \E s \in Sees(f) : s.clear
  /\ \A s \in Sees(f) : s.plausible # {} => s.clear /\ s.plausible = {CodeRoute[f.code]}
  /\ Sharp(f)

(***************************************************************************)
(* A scene that stays is found, at whatever scale it reads, whatever was   *)
(* remembered, queued, confirmed or selected before it came.               *)
(***************************************************************************)
SteadySceneIsRead ==
  <>[][frame' = frame]_vars =>
    []<>(Findable(frame) => stage = "idle" /\ out = frame.code)

(***************************************************************************)
(* Frames none of which decodes alone, but whose evidence together does,   *)
(* are read when they keep alternating (the fusion gate of failRoute and   *)
(* TestStreamFusesComplementaryDamage), whatever came before.              *)
(***************************************************************************)
ExposuresFuse ==
  <>[](frame \in Exposures) /\ (\A f \in Exposures : []<>(frame = f)) =>
    []<>(stage = "idle" /\ out = frame.code)
=============================================================================
