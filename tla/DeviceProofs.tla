---------------------------- MODULE DeviceProofs ----------------------------
(***************************************************************************)
(* Proofs about what the device gives its readers.                         *)
(*                                                                         *)
(* FinderLocate: what a locate is handed belongs to its pass and its       *)
(* lease, for every number of directions the code can sweep, whatever pass *)
(* breaks off, whatever resident batch came before and whatever detectors  *)
(* earlier holders kept: pixels, rows and folds.  The proofs rest on what  *)
(* the command lists do to the buffers, as EffectsAssumption states it and *)
(* TLC evaluates it.                                                       *)
(*                                                                         *)
(* KernelSet: the kernels of a device, for every set of readers, every     *)
(* list of kernels a stage compiles and every set of device limits.        *)
(***************************************************************************)
EXTENDS FinderLocate, KernelSet, TLAPS

Stamps == {Earlier, Before, Current, Word, Torn}
Kinds  == {"raw", "average", "filtered", "sharp",
           "descreenFirst", "descreenSecond", "printFirst", "printSecond"}
Plain  == {"raw", "average", "filtered", "sharp"}
Steps  == {"binarize", "reset", "clear", "rows", "vertical", "foldVertical", "hostRows",
           "settle", "directions", "sweep", "foldDirection", "hits", "hostSweep", "swept",
           "next", "pass", "merge", "mergeClear", "pitch", "finish", "held"}

HostTypes ==
  [masks : SUBSET Stamps, stale : BOOLEAN, mirrored : BOOLEAN, mirror : SUBSET Stamps,
   shares : Nat]
LocateTypes ==
  [at : Steps, chained : BOOLEAN, kind : Kinds, plan : Seq(Kinds), scanner : BOOLEAN,
   seeds : BOOLEAN, have : BOOLEAN, batch : SUBSET (1 .. Directions), dir : 0 .. Directions,
   closure : {"none", "lazy", "preserved"}, pixels : BOOLEAN, bitmap : BOOLEAN]
TypeOK ==
  /\ content \in [Live -> SUBSET Stamps]
  /\ host \in HostTypes
  /\ locate \in LocateTypes \cup {[at |-> "idle"]}
  /\ last \in [closure : {"none", "lazy", "preserved"}, fresh : BOOLEAN]

Active == ~At({"idle", "binarize"})

\* What passes draw on is this lease's.
LevelTrue ==
  /\ ~At({"idle"}) => Ours(content["maxSurvivors"])
  /\ Active => /\ Ours(content["balanced"]) /\ content["balanced"] # {}
               /\ Ours(content["params"])

\* The masks are the pass's, on the device, on the host and in the snapshot.
MasksTrue ==
  Active => /\ OfPass(content["packedMasks"])
            /\ host.masks = {} \/ OfPass(host.masks)
            /\ locate.closure = "preserved" => OfPass(content["preservedMasks"])

\* The records are the pass's and, with the chain, so are its counters.
RowsTrue ==
  Active => /\ OfPass(content["scanRecords"])
            /\ locate.chained => \A b \in Rows : OfPass(content[b])

\* What a place of the locate takes for granted: the scanner, the chain, pools to
\* fold into, outcomes of this pass's directions, and that it merges seeds after
\* the average pass.
Sweeping == {"sweep", "foldDirection", "hits", "hostSweep", "swept"}
Merging  == {"merge", "mergeClear", "pitch"}
OutcomesOwn == \A b \in DirectionOutcomes : OfPass(content[b])
PlacesTrue ==
  /\ At({"vertical", "foldVertical"}) => locate.chained /\ ~host.stale
  /\ At({"vertical", "foldVertical", "sweep", "foldDirection"}) => locate.scanner
  /\ At({"foldVertical", "foldDirection"}) => OutcomesOwn
  /\ At(Sweeping) /\ locate.scanner /\ locate.batch # {} => OutcomesOwn
  /\ At(Merging) => locate.kind = "average"

\* Unless the reset failed, nothing older than the locate is left in what it
\* gathers, and the pools are whole until the scanner is retired.
GatheredTrue ==
  /\ At({"clear"}) => host.stale /\ \A b \in Pools : Ours(content[b])
  /\ Active /\ ~At({"reset"}) /\ ~host.stale =>
       /\ Earlier \notin content["seedHistogram"]
       /\ locate.scanner => \A b \in Pools : Ours(content[b])

\* The passes to come: only lists that exist, and the resident ones in their order.
Scheduled ==
  {<<"descreenSecond">>, <<"descreenSecond", "printFirst", "printSecond">>,
   <<"printFirst", "printSecond">>, <<"printSecond">>}
ResidentPlans == Scheduled \cup DevicePlans
PlansTrue ==
  Active =>
    /\ IF locate.kind = "raw" THEN locate.plan \in {<<>>, <<"average">>}
       ELSE locate.plan \in ResidentPlans \cup Seq({"filtered", "sharp"})
    /\ Len(locate.plan) <= 4
    /\ locate.plan \in Scheduled => Ours(content["pitchScheduleControl"])
    /\ ~locate.chained => locate.kind \in Plain /\ locate.plan \notin ResidentPlans
    /\ At({"pass"}) => locate.plan # <<>>

\* A pass claims a share for its rows, one with the vertical sweep and one for
\* each direction; as many passes follow as are planned, or may still be.
Claimed ==
  CASE At({"rows"}) -> 0
    [] At({"vertical", "foldVertical"}) -> 1
    [] At({"hostRows", "settle", "directions"}) -> 2
    [] At({"sweep", "foldDirection"}) -> 1 + locate.dir
    [] At({"hits", "hostSweep", "swept"}) -> 2 + locate.dir
    [] OTHER -> 2 + Directions
Following ==
  CASE locate.kind = "raw" -> 5 [] locate.kind = "average" -> 4
    [] OTHER -> Len(locate.plan)
SharesTrue ==
  /\ At({"binarize"}) => locate.plan = <<>>
  /\ Active /\ ~At({"reset", "clear"}) /\ ~host.stale =>
       host.shares + Following * (Directions + 2) <= 5 * (Directions + 2) + Claimed

\* A detector of the lease before finds its own masks, or others' or torn ones.
LastTrue ==
  /\ last.closure = "lazy" => ~Active /\ (last.fresh => At({"idle"}))
  /\ last.closure = "lazy" /\ last.fresh =>
       OfPass(content["packedMasks"]) /\ (host.masks = {} \/ OfPass(host.masks))
  /\ last.closure = "lazy" /\ ~last.fresh =>
       /\ content["packedMasks"] = {Earlier} \/ Torn \in content["packedMasks"]
       /\ host.masks \in {{}, {Earlier}} \/ Torn \in host.masks

LInv ==
  /\ TypeOK /\ LevelTrue /\ MasksTrue /\ RowsTrue /\ PlacesTrue /\ GatheredTrue
  /\ PlansTrue /\ SharesTrue /\ LastTrue

\* What the host is told is of its pass, and what it folds of its locate.
Told ==
  /\ answer.kind = "rows" => OfPass(answer.got)
  /\ answer.kind = "masks" =>
       \/ answer.want = Current /\ OfPass(answer.got)
       \/ answer.want = Earlier /\ (answer.got = {Earlier} \/ Torn \in answer.got)
  /\ answer.kind = "balanced" => answer.got # {} /\ Ours(answer.got)
  /\ answer.kind # "refused"
  /\ answer.kind = "fold" => OfPass(answer.sources) /\ Ours(answer.got)
  /\ answer.kind = "seeds" /\ ~host.stale => Earlier \notin answer.got

-----------------------------------------------------------------------------
(* Stamps and submissions. *)

\* What the lists amount to, for the directions of this instance.
LEMMA DirectionTypes ==
  /\ Directions \in 1 .. MaxDirections /\ Directions \in Nat
  /\ LocateEffects = EffectsOf(Directions)
BY DirectionsAssumption DEF MaxDirections, LocateEffects

\* Names of buffers, and of nothing else.
LEMMA BufferNames ==
  /\ "now" \notin Live /\ Level \subseteq Live /\ Records \subseteq Live /\ Rows \subseteq Live
  /\ DirectionOutcomes \subseteq Live /\ Pools \subseteq Live /\ Others \subseteq Live
BY DEF Live, Level, Records, Rows, DirectionOutcomes, Pools, Others

\* What is drawn from the submission and from some buffers holds what they hold.
LEMMA Stamped ==
  ASSUME NEW held \in [Live -> SUBSET Stamps], NEW origins, NEW from \in SUBSET Live,
         Drawn(origins) \subseteq {"now"} \cup from,
         NEW S, Current \in S, \A b \in from : held[b] \subseteq S
  PROVE  StampsOf(origins, held, {Current}) \subseteq S
BY BufferNames DEF StampsOf, Drawn

\* A submission adds no stamps but the known ones, and its own where it brings
\* something.
LEMMA StampTypes ==
  ASSUME NEW held \in [Live -> SUBSET Stamps], NEW origins
  PROVE  /\ StampsOf(origins, held, {Current}) \in SUBSET Stamps
         /\ "now" \in origins => Current \in StampsOf(origins, held, {Current})
BY DEF StampsOf, Stamps

\* What is drawn from one buffer is what it holds.
LEMMA StampedBy ==
  ASSUME NEW held \in [Live -> SUBSET Stamps], NEW origins, NEW b \in Live,
         Drawn(origins) = {b}
  PROVE  StampsOf(origins, held, {Current}) = held[b]
<1>1. origins \cap DOMAIN held = {b} /\ "now" \notin origins
  BY BufferNames DEF Drawn
<1> QED
  BY <1>1 DEF StampsOf

\* A buffer that is left alone keeps what it holds.
LEMMA StampedSame ==
  ASSUME NEW held \in [Live -> SUBSET Stamps], NEW b \in Live
  PROVE  StampsOf({b}, held, {Current}) = held[b]
BY StampedBy, BufferNames DEF Drawn

\* A submission that succeeds.
LEMMA Submitted ==
  ASSUME TypeOK, NEW op, Submit(op)
  PROVE  /\ content' \in [Live -> SUBSET Stamps]
         /\ \A b \in Live :
              content'[b] = StampsOf(LocateEffects[op].origin[b], content, {Current})
<1>1. content \in [Live -> SUBSET Stamps] /\ DOMAIN content = Live
  BY DEF TypeOK
<1>2. content' = [b \in Live |-> StampsOf(LocateEffects[op].origin[b], content, {Current})]
  BY <1>1 DEF Submit, Succeed, Take, After
<1>3. \A b \in Live : StampsOf(LocateEffects[op].origin[b], content, {Current}) \in SUBSET Stamps
  BY <1>1, StampTypes
<1> QED
  BY <1>2, <1>3

\* It leaves some buffers alone.
LEMMA SubmitLeaves ==
  ASSUME TypeOK, NEW op, Submit(op), NEW bs \in SUBSET Live, Leaves(LocateEffects[op], bs)
  PROVE  \A b \in bs : content'[b] = content[b]
<1> SUFFICES ASSUME NEW b \in bs PROVE content'[b] = content[b]
  OBVIOUS
<1>1. StampsOf({b}, content, {Current}) = content[b]
  BY StampedSame DEF TypeOK
<1>2. content'[b] = StampsOf(LocateEffects[op].origin[b], content, {Current})
  BY Submitted
<1>3. LocateEffects[op].origin[b] = {b}
  BY DEF Leaves
<1> QED
  BY <1>1, <1>2, <1>3

\* A submission that fails, before the device or on it.
LEMMA FailLeaves ==
  ASSUME TypeOK, NEW op, Fail(op), NEW bs \in SUBSET Live, Leaves(LocateEffects[op], bs)
  PROVE  /\ content' \in [Live -> SUBSET Stamps]
         /\ \A b \in bs : content'[b] = content[b]
<1>1. content \in [Live -> SUBSET Stamps] /\ DOMAIN content = Live
  BY DEF TypeOK
<1>2. CASE Refuse
  BY <1>1, <1>2 DEF Refuse
<1>3. CASE Break(LocateEffects[op], {Current})
  <2> DEFINE torn(b) == content[b] \cup StampsOf(LocateEffects[op].origin[b], content, {Current})
                          \cup {Torn}
  <2>1. content' = [b \in Live |-> IF LocateEffects[op].origin[b] = {b} THEN content[b] ELSE torn(b)]
    BY <1>1, <1>3 DEF Break, TornBy
  <2>2. \A b \in Live : torn(b) \in SUBSET Stamps
    BY <1>1, StampTypes DEF Stamps
  <2> HIDE DEF torn
  <2> QED
    BY <1>1, <2>1, <2>2 DEF Leaves
<1> QED
  BY <1>2, <1>3 DEF Fail, FailOn

\* Whatever breaks off, the stamps are the known ones.
LEMMA FailTypes ==
  ASSUME TypeOK, NEW op, Fail(op)
  PROVE  content' \in [Live -> SUBSET Stamps]
<1> DEFINE none == {}
<1>1. none \in SUBSET Live /\ Leaves(LocateEffects[op], none)
  BY DEF Leaves
<1> HIDE DEF none
<1>2. content' \in [Live -> SUBSET Stamps] /\ \A b \in none : content'[b] = content[b]
  BY <1>1, FailLeaves
<1> QED
  BY <1>2

\* A failure adds no stamps but those of its submission and that of its breaking off.
LEMMA FailAdds ==
  ASSUME TypeOK, NEW op, Fail(op), NEW b \in Live
  PROVE  content'[b] \subseteq
           content[b] \cup StampsOf(LocateEffects[op].origin[b], content, {Current}) \cup {Torn}
<1>1. content \in [Live -> SUBSET Stamps] /\ DOMAIN content = Live
  BY DEF TypeOK
<1>2. CASE Refuse
  BY <1>1, <1>2 DEF Refuse
<1>3. CASE Break(LocateEffects[op], {Current})
  <2> DEFINE more(c) == StampsOf(LocateEffects[op].origin[c], content, {Current})
  <2>1. content' = [c \in Live |-> IF LocateEffects[op].origin[c] = {c} THEN content[c]
                                   ELSE content[c] \cup more(c) \cup {Torn}]
    BY <1>1, <1>3 DEF Break, TornBy
  <2> HIDE DEF more
  <2>2. content'[b] \subseteq content[b] \cup more(b) \cup {Torn}
    BY <2>1
  <2> QED
    BY <2>2 DEF more
<1> QED
  BY <1>2, <1>3 DEF Fail, FailOn

\* The host is shown what the buffers hold when the list only looks at them.
LEMMA Looking ==
  ASSUME NEW op \in DOMAIN Tells
  PROVE  /\ Leaves(LocateEffects[op], Live)
         /\ Drawn(LocateEffects[op].shown) = Tells[op]
BY EffectsAssumption, DirectionTypes

\* Stamps of a pass are of this lease, and so are those of the pass before it.
LEMMA OwnStamps ==
  ASSUME NEW stamps
  PROVE  /\ OfPass(stamps) => Ours(stamps) /\ stamps # {}
         /\ Ours(stamps) <=> stamps \subseteq {Before, Current, Word}
BY DEF OfPass, Ours

-----------------------------------------------------------------------------
(* Steps inside a pass. *)

\* The locate goes on in its pass: what it draws on stays as it is, and what it
\* has of the pass stays of the pass.
Steady ==
  /\ Active /\ Active' /\ locate' \in LocateTypes /\ host' \in HostTypes
  /\ content' \in [Live -> SUBSET Stamps]
  /\ UNCHANGED last
  /\ locate'.chained = locate.chained /\ Following' = Following
  /\ \A b \in Level : content'[b] = content[b]
  /\ \A b \in Rows \cup {"scanRecords"} : OfPass(content[b]) => OfPass(content'[b])
  /\ MasksTrue' /\ PlansTrue'

\* A locate that works has all its fields.
LEMMA ActiveTypes ==
  ASSUME TypeOK, Active
  PROVE  locate \in LocateTypes /\ locate.at \notin {"idle", "binarize"}
BY DEF TypeOK, Active, At

\* Pixels, rows, bases, plans and the detector before are as they were.
LEMMA SteadyHolds ==
  ASSUME LInv, Steady
  PROVE  TypeOK' /\ LevelTrue' /\ MasksTrue' /\ RowsTrue' /\ PlansTrue' /\ LastTrue'
<1>1. TypeOK'
  BY DEF LInv, TypeOK, Steady
<1>2. LevelTrue'
  BY DEF LInv, LevelTrue, Steady, Level, Active, At
<1>3. MasksTrue' /\ PlansTrue'
  BY DEF Steady
<1>4. RowsTrue'
  BY DEF LInv, RowsTrue, Steady
<1>5. LastTrue'
  BY DEF LInv, LastTrue, Steady
<1> QED
  BY <1>1, <1>2, <1>3, <1>4, <1>5

\* What is claimed by where the locate is.
LEMMA ClaimedAt ==
  /\ At({"rows"}) => Claimed = 0
  /\ At({"vertical", "foldVertical"}) => Claimed = 1
  /\ At({"hostRows", "settle", "directions"}) => Claimed = 2
  /\ At({"sweep", "foldDirection"}) => Claimed = 1 + locate.dir
  /\ At({"hits", "hostSweep", "swept"}) => Claimed = 2 + locate.dir
  /\ At({"next", "pass", "merge", "mergeClear", "pitch", "finish", "held"}) =>
       Claimed = 2 + Directions
BY DEF Claimed, At

\* So it is a step later.
LEMMA ClaimedNext ==
  /\ At({"rows"})' => Claimed' = 0
  /\ At({"vertical", "foldVertical"})' => Claimed' = 1
  /\ At({"hostRows", "settle", "directions"})' => Claimed' = 2
  /\ At({"sweep", "foldDirection"})' => Claimed' = 1 + locate'.dir
  /\ At({"hits", "hostSweep", "swept"})' => Claimed' = 2 + locate'.dir
  /\ At({"next", "pass", "merge", "mergeClear", "pitch", "finish", "held"})' =>
       Claimed' = 2 + Directions
BY DEF Claimed, At

\* The claims are natural numbers.
LEMMA ClaimedType ==
  ASSUME TypeOK, Active, ~At({"reset", "clear"})
  PROVE  Claimed \in Nat
<1>1. locate \in LocateTypes /\ locate.at \in Steps \ {"binarize", "reset", "clear"}
  BY ActiveTypes DEF At, LocateTypes
<1>2. locate.dir \in Nat /\ Directions \in Nat
  BY <1>1, DirectionTypes DEF LocateTypes
<1> QED
  BY <1>1, <1>2, ClaimedAt DEF At, Steps

\* The passes still to follow are at most five.
LEMMA FollowingType ==
  ASSUME TypeOK, PlansTrue, Active
  PROVE  Following \in 0 .. 5 /\ (locate.kind # "raw" => Following <= 4)
<1>1. locate.plan \in Seq(Kinds) /\ Len(locate.plan) <= 4
  BY ActiveTypes DEF PlansTrue, LocateTypes
<1> DEFINE n == Len(locate.plan)
<1>2. n \in 0 .. 4
  <2>1. n \in Nat /\ n <= 4
    BY <1>1
  <2> HIDE DEF n
  <2> QED
    BY <2>1
<1>3. CASE locate.kind = "raw"
  BY <1>3 DEF Following
<1>4. CASE locate.kind = "average"
  BY <1>4 DEF Following
<1>5. CASE locate.kind \notin {"raw", "average"}
  <2>1. Following = n
    BY <1>5 DEF Following
  <2> HIDE DEF n
  <2> QED
    BY <1>2, <1>5, <2>1
<1> QED
  BY <1>3, <1>4, <1>5

\* A step that claims no more than its place allows keeps the shares.
LEMMA SharesKeep ==
  ASSUME LInv, Steady, ~host'.stale => ~host.stale,
         ~At({"reset", "clear"}), ~At({"reset", "clear"})',
         host'.shares + Claimed <= host.shares + Claimed'
  PROVE  SharesTrue'
<1>1. Following' = Following
  BY DEF Steady
<1>2. ~At({"binarize"})'
  BY DEF Steady, Active, At
<1>3. TypeOK' /\ PlansTrue'
  BY SteadyHolds
<1>4. /\ Claimed \in Nat /\ Claimed' \in Nat /\ Following \in Nat
      /\ host.shares \in Nat /\ host'.shares \in Nat
  <2>1. Claimed \in Nat
    BY ClaimedType DEF LInv, Steady
  <2>2. Claimed' \in Nat
    <3>1. locate' \in LocateTypes /\ locate'.at \in Steps \ {"binarize", "reset", "clear"}
      BY DEF Steady, At, Active, LocateTypes
    <3>2. locate'.dir \in Nat /\ Directions \in Nat
      BY <3>1, DirectionTypes DEF LocateTypes
    <3> QED
      BY <3>1, <3>2, ClaimedNext DEF At, Steps
  <2>3. Following \in Nat
    BY FollowingType DEF LInv, Steady
  <2>4. host.shares \in Nat /\ host'.shares \in Nat
    BY DEF LInv, TypeOK, Steady, HostTypes
  <2> QED
    BY <2>1, <2>2, <2>3, <2>4
<1>5. ASSUME ~host'.stale
      PROVE  host'.shares + Following * (Directions + 2) <= 5 * (Directions + 2) + Claimed'
  <2>1. host.shares + Following * (Directions + 2) <= 5 * (Directions + 2) + Claimed
    BY <1>5 DEF LInv, SharesTrue, Steady
  <2> DEFINE f == Following * (Directions + 2)
             w == 5 * (Directions + 2)
  <2>2. f \in Nat /\ w \in Nat
    BY <1>4, DirectionTypes
  <2> HIDE DEF f, w
  <2>3. host'.shares + f <= w + Claimed'
    <3>1. host.shares + f <= w + Claimed
      BY <2>1 DEF f, w
    <3> QED
      BY <1>4, <2>2, <3>1
  <2> QED
    BY <2>3 DEF f, w
<1> QED
  BY <1>1, <1>2, <1>5 DEF SharesTrue

\* A step that leaves seeds and pools to this lease keeps them so.
LEMMA GatheredKeeps ==
  ASSUME LInv, Steady, ~At({"reset"}), ~At({"clear"})', host'.stale = host.stale,
         Earlier \notin content["seedHistogram"] => Earlier \notin content'["seedHistogram"],
         locate'.scanner => locate.scanner,
         locate'.scanner /\ ~host.stale => \A b \in Pools :
           Ours(content[b]) => Ours(content'[b])
  PROVE  GatheredTrue'
<1>1. ASSUME ~host.stale
      PROVE  /\ Earlier \notin content["seedHistogram"]
             /\ locate.scanner => \A b \in Pools : Ours(content[b])
  BY <1>1 DEF LInv, GatheredTrue, Steady
<1> QED
  BY <1>1 DEF GatheredTrue, Steady

\* A locate that goes on in its pass is sound if its directions, what it gathers
\* and its shares are.
LEMMA SteadyInv ==
  ASSUME LInv, Steady, PlacesTrue', GatheredTrue', SharesTrue'
  PROVE  LInv'
BY SteadyHolds DEF LInv

\* An answer that says nothing is a true one.
LEMMA UntoldTold ==
  ASSUME answer' = NoAnswer
  PROVE  Told'
BY DEF Told, NoAnswer

\* With its masks and its plans left alone, the locate goes on in its pass.
LEMMA SteadyStep ==
  ASSUME LInv, Active, Active', locate' \in LocateTypes, host' \in HostTypes,
         content' \in [Live -> SUBSET Stamps], UNCHANGED last, host'.masks = host.masks,
         locate'.kind = locate.kind, locate'.plan = locate.plan,
         locate'.chained = locate.chained, locate'.closure = locate.closure,
         \A b \in Level \cup {"packedMasks", "preservedMasks"} : content'[b] = content[b],
         \A b \in Rows \cup {"scanRecords"} : OfPass(content[b]) => OfPass(content'[b]),
         At({"pass"})' => locate.plan # <<>>
  PROVE  Steady
<1>1. MasksTrue'
  BY DEF LInv, MasksTrue
<1>2. PlansTrue'
  BY DEF LInv, PlansTrue, Level
<1>3. Following' = Following
  BY DEF Following
<1> QED
  BY <1>1, <1>2, <1>3 DEF Steady

\* A step that tells the host nothing and stays in its pass.
LEMMA SilentSound ==
  ASSUME LInv, Silently, Active, locate' \in LocateTypes,
         ~At({"reset", "clear"}), ~At({"binarize", "reset", "clear"})',
         locate'.kind = locate.kind, locate'.plan = locate.plan,
         locate'.chained = locate.chained, locate'.closure = locate.closure,
         locate'.scanner => locate.scanner, At({"pass"})' => locate.plan # <<>>,
         Claimed <= Claimed', PlacesTrue'
  PROVE  LInv' /\ Told'
<1>1. UNCHANGED <<content, host, last>> /\ answer' = NoAnswer
  BY DEF Silently, Refuse
<1>2. Steady
  <2>1. content \in [Live -> SUBSET Stamps] /\ host \in HostTypes
    BY DEF LInv, TypeOK
  <2>2. Active'
    BY DEF Active, At, LocateTypes, Steps
  <2> QED
    BY <1>1, <2>1, <2>2, SteadyStep
<1>3. GatheredTrue'
  BY <1>1, <1>2, GatheredKeeps DEF At
<1>4. SharesTrue'
  <2>1. host.shares \in Nat /\ Claimed \in Nat
    BY ClaimedType DEF LInv, TypeOK, HostTypes
  <2>2. Claimed' \in Nat
    <3>1. locate'.at \in Steps \ {"binarize", "reset", "clear"} /\ locate'.dir \in Nat
          /\ Directions \in Nat
      BY DirectionTypes DEF At, LocateTypes
    <3> QED
      BY <3>1, ClaimedNext DEF At, Steps
  <2>3. host'.shares + Claimed <= host.shares + Claimed'
    BY <1>1, <2>1, <2>2
  <2>4. ~At({"reset", "clear"})' /\ (~host'.stale => ~host.stale)
    BY <1>1 DEF At
  <2> QED
    BY <1>2, <2>3, <2>4, SharesKeep
<1>5. Told'
  BY <1>1, UntoldTold
<1> QED
  BY <1>2, <1>3, <1>4, <1>5, SteadyInv

\* The rows settle the pass or lead to its directions.
LEMMA SettleSound ==
  ASSUME LInv, Settle
  PROVE  LInv' /\ Told'
<1>1. Active /\ At({"settle"}) /\ Silently
  BY DEF Settle, Active, At
<1>2. locate \in LocateTypes
  BY <1>1, ActiveTypes DEF LInv
<1>4. /\ locate' \in LocateTypes /\ locate'.at \in {"finish", "directions"}
      /\ locate'.kind = locate.kind /\ locate'.plan = locate.plan
      /\ locate'.chained = locate.chained /\ locate'.closure = locate.closure
      /\ locate'.scanner = locate.scanner
  BY <1>2 DEF Settle, Go, LocateTypes, Steps
<1>5. PlacesTrue'
  BY <1>4 DEF PlacesTrue, At, Sweeping, Merging
<1>6. Claimed <= Claimed'
  <2>1. Claimed = 2
    BY <1>1, ClaimedAt DEF At
  <2>2. Claimed' = 2 \/ Claimed' = 2 + Directions
    BY <1>4, ClaimedNext DEF At
  <2> QED
    BY <2>1, <2>2, DirectionTypes DEF MaxDirections
<1>7. ~At({"reset", "clear"}) /\ ~At({"binarize", "reset", "clear"})' /\ ~At({"pass"})'
  BY <1>1, <1>4 DEF At
<1> QED
  BY <1>1, <1>4, <1>5, <1>6, <1>7, SilentSound

\* A direction of the batch is handed out.
LEMMA TakeSweepSound ==
  ASSUME LInv, TakeSweep
  PROVE  LInv' /\ Told'
<1>1. Active /\ At({"sweep"}) /\ Silently /\ locate.batch # {}
  BY DEF TakeSweep, Active, At
<1>2. locate \in LocateTypes
  BY <1>1, ActiveTypes DEF LInv
<1>3. /\ locate' \in LocateTypes /\ locate'.at = "foldDirection"
      /\ locate'.kind = locate.kind /\ locate'.plan = locate.plan
      /\ locate'.chained = locate.chained /\ locate'.closure = locate.closure
      /\ locate'.scanner = locate.scanner /\ locate'.dir = locate.dir
  BY <1>2 DEF TakeSweep, LocateTypes, Steps
<1>4. locate.scanner /\ OutcomesOwn
  BY <1>1 DEF LInv, PlacesTrue, At, Sweeping
<1>5. PlacesTrue'
  <2>1. OutcomesOwn'
    BY <1>1, <1>4 DEF OutcomesOwn, Silently, Refuse
  <2> QED
    BY <1>3, <1>4, <2>1 DEF PlacesTrue, At, Merging
<1>6. Claimed <= Claimed'
  <2>1. locate.dir \in Nat
    BY <1>2 DEF LocateTypes
  <2>2. Claimed = 1 + locate.dir /\ Claimed' = 1 + locate.dir
    BY <1>1, <1>3, ClaimedAt, ClaimedNext DEF At
  <2> QED
    BY <2>1, <2>2
<1>7. ~At({"reset", "clear"}) /\ ~At({"binarize", "reset", "clear"})' /\ ~At({"pass"})'
  BY <1>1, <1>3 DEF At
<1> QED
  BY <1>1, <1>3, <1>5, <1>6, <1>7, SilentSound

\* A direction is walked on the host.
LEMMA HostSweepSound ==
  ASSUME LInv, HostSweep
  PROVE  LInv' /\ Told'
<1>1. Active /\ At({"hits", "hostSweep"}) /\ Silently
  BY DEF HostSweep, Active, At
<1>2. locate \in LocateTypes
  BY <1>1, ActiveTypes DEF LInv
<1>3. /\ locate' \in LocateTypes /\ locate'.at = "swept"
      /\ locate'.kind = locate.kind /\ locate'.plan = locate.plan
      /\ locate'.chained = locate.chained /\ locate'.closure = locate.closure
      /\ locate'.scanner = locate.scanner /\ locate'.dir = locate.dir
      /\ locate'.batch = locate.batch
  BY <1>2, ZenonT(30) DEF HostSweep, LocateTypes, Steps
<1>4. locate.scanner /\ locate.batch # {} => OutcomesOwn
  BY <1>1 DEF LInv, PlacesTrue, At, Sweeping
<1>5. PlacesTrue'
  <2>1. OutcomesOwn => OutcomesOwn'
    BY <1>1 DEF OutcomesOwn, Silently, Refuse
  <2> QED
    BY <1>3, <1>4, <2>1 DEF PlacesTrue, At, Merging
<1>6. Claimed <= Claimed'
  <2>1. locate.dir \in Nat
    BY <1>2 DEF LocateTypes
  <2>2. Claimed = 2 + locate.dir /\ Claimed' = 2 + locate.dir
    BY <1>1, <1>3, ClaimedAt, ClaimedNext DEF At
  <2> QED
    BY <2>1, <2>2
<1>7. ~At({"reset", "clear"}) /\ ~At({"binarize", "reset", "clear"})' /\ ~At({"pass"})'
  BY <1>1, <1>3 DEF At
<1> QED
  BY <1>1, <1>3, <1>5, <1>6, <1>7, SilentSound

\* A direction settles the pass, or the next one follows.
LEMMA SweptSound ==
  ASSUME LInv, Swept
  PROVE  LInv' /\ Told'
<1>1. Active /\ At({"swept"}) /\ Silently
  BY DEF Swept, Active, At
<1>2. locate \in LocateTypes
  BY <1>1, ActiveTypes DEF LInv
<1>3. locate.dir \in Nat /\ locate.dir <= Directions /\ Directions \in Nat
  BY <1>2, DirectionTypes DEF LocateTypes
<1>4. locate.scanner /\ locate.batch # {} => OutcomesOwn
  BY <1>1 DEF LInv, PlacesTrue, At, Sweeping
<1>5. OutcomesOwn => OutcomesOwn'
  BY <1>1 DEF OutcomesOwn, Silently, Refuse
<1>6. Claimed = 2 + locate.dir
  BY <1>1, ClaimedAt DEF At
<1>7. ~At({"reset", "clear"})
  BY <1>1 DEF At
<1>8. CASE \/ locate' = [locate EXCEPT !.at = "finish", !.have = TRUE, !.batch = {}, !.dir = 0]
           \/ locate' = [locate EXCEPT !.at = "next", !.batch = {}, !.dir = 0]
  <2>1. /\ locate' \in LocateTypes /\ locate'.at \in {"finish", "next"}
        /\ locate'.kind = locate.kind /\ locate'.plan = locate.plan
        /\ locate'.chained = locate.chained /\ locate'.closure = locate.closure
        /\ locate'.scanner = locate.scanner
    <3>1. 0 \in 0 .. Directions /\ {} \in SUBSET (1 .. Directions)
      BY DirectionTypes
    <3>2. CASE locate' = [locate EXCEPT !.at = "finish", !.have = TRUE, !.batch = {}, !.dir = 0]
      BY <1>2, <3>1, <3>2 DEF LocateTypes, Steps
    <3>3. CASE locate' = [locate EXCEPT !.at = "next", !.batch = {}, !.dir = 0]
      BY <1>2, <3>1, <3>3 DEF LocateTypes, Steps
    <3> QED
      BY <1>8, <3>2, <3>3
  <2>2. PlacesTrue'
    BY <2>1 DEF PlacesTrue, At, Sweeping, Merging
  <2>3. Claimed <= Claimed'
    BY <1>3, <1>6, <2>1, ClaimedNext DEF At
  <2>4. ~At({"binarize", "reset", "clear"})' /\ ~At({"pass"})'
    BY <2>1 DEF At
  <2> QED
    BY <1>1, <1>7, <2>1, <2>2, <2>3, <2>4, SilentSound
<1>9. CASE /\ locate.dir < Directions
           /\ locate' = [locate EXCEPT !.at = NextSweep, !.dir = @ + 1]
  <2>1. NextSweep \in {"sweep", "hostSweep"} /\ (NextSweep = "sweep" => locate.scanner)
    BY <1>2 DEF NextSweep, LocateTypes
  <2>2. /\ locate' \in LocateTypes /\ locate'.at = NextSweep
        /\ locate'.kind = locate.kind /\ locate'.plan = locate.plan
        /\ locate'.chained = locate.chained /\ locate'.closure = locate.closure
        /\ locate'.scanner = locate.scanner /\ locate'.dir = locate.dir + 1
        /\ locate'.batch = locate.batch
    <3>1. locate.dir + 1 \in 0 .. Directions
      BY <1>3, <1>9
    <3> QED
      BY <1>2, <1>9, <2>1, <3>1 DEF LocateTypes, Steps
  <2>3. PlacesTrue'
    BY <1>4, <1>5, <2>1, <2>2 DEF PlacesTrue, At, Sweeping, Merging
  <2>4. Claimed <= Claimed'
    <3>1. Claimed' = 2 + locate.dir \/ Claimed' = 3 + locate.dir
      BY <1>3, <2>1, <2>2, ClaimedNext DEF At
    <3> QED
      BY <1>3, <1>6, <3>1
  <2>5. ~At({"binarize", "reset", "clear"})' /\ ~At({"pass"})'
    BY <2>1, <2>2 DEF At
  <2> QED
    BY <1>1, <1>7, <2>2, <2>3, <2>4, <2>5, SilentSound
<1> QED
  BY <1>8, <1>9 DEF Swept

\* The rows are walked on the host.
LEMMA WalkRowsSound ==
  ASSUME LInv, WalkRows
  PROVE  LInv' /\ Told'
<1>1. Active /\ At({"hostRows"}) /\ Silently
  BY DEF WalkRows, Active, At
<1>2. locate \in LocateTypes
  BY <1>1, ActiveTypes DEF LInv
<1>3. /\ locate' \in LocateTypes /\ locate'.at = "settle"
      /\ locate'.kind = locate.kind /\ locate'.plan = locate.plan
      /\ locate'.chained = locate.chained /\ locate'.closure = locate.closure
      /\ locate'.scanner = locate.scanner
  BY <1>2, ZenonT(30) DEF WalkRows, LocateTypes, Steps
<1>4. PlacesTrue'
  BY <1>3 DEF PlacesTrue, At, Sweeping, Merging
<1>5. Claimed <= Claimed'
  BY <1>1, <1>3, ClaimedAt, ClaimedNext DEF At
<1>6. ~At({"reset", "clear"}) /\ ~At({"binarize", "reset", "clear"})' /\ ~At({"pass"})'
  BY <1>1, <1>3 DEF At
<1> QED
  BY <1>1, <1>3, <1>4, <1>5, <1>6, SilentSound

\* A route that is no longer wanted stops.
LEMMA QuitSound ==
  ASSUME LInv, Quit
  PROVE  LInv' /\ Told'
<1>1. Active /\ At(Polls) /\ Silently
  BY DEF Quit, Active, At, Polls
<1>2. locate \in LocateTypes
  BY <1>1, ActiveTypes DEF LInv
<1>3. /\ locate' \in LocateTypes /\ locate'.at = "finish"
      /\ locate'.kind = locate.kind /\ locate'.plan = locate.plan
      /\ locate'.chained = locate.chained /\ locate'.closure = locate.closure
      /\ locate'.scanner = locate.scanner
  <2>1. 0 \in 0 .. Directions /\ {} \in SUBSET (1 .. Directions)
    BY DirectionTypes
  <2> QED
    BY <1>2, <2>1 DEF Quit, LocateTypes, Steps
<1>4. PlacesTrue'
  BY <1>3 DEF PlacesTrue, At, Sweeping, Merging
<1>5. Claimed <= Claimed'
  <2>1. locate.dir \in Nat /\ locate.dir <= Directions /\ Directions \in Nat
    BY <1>2, DirectionTypes DEF LocateTypes
  <2>2. Claimed \in {2, 2 + locate.dir, 2 + Directions}
    BY <1>1, ClaimedAt DEF At, Polls
  <2>3. Claimed' = 2 + Directions
    BY <1>3, ClaimedNext DEF At
  <2> QED
    BY <2>1, <2>2, <2>3
<1>6. ~At({"reset", "clear"}) /\ ~At({"binarize", "reset", "clear"})' /\ ~At({"pass"})'
  BY <1>1, <1>3 DEF At, Polls
<1> QED
  BY <1>1, <1>3, <1>4, <1>5, <1>6, SilentSound

-----------------------------------------------------------------------------
(* Steps inside a pass that submit. *)

\* A locate goes on in its pass: soundness of what a step does beside that.
LEMMA GoesOn ==
  ASSUME LInv, Active, locate' \in LocateTypes, host' \in HostTypes,
         content' \in [Live -> SUBSET Stamps], UNCHANGED last,
         ~At({"reset", "clear"}), ~At({"binarize", "reset", "clear", "pass"})',
         locate'.kind = locate.kind, locate'.plan = locate.plan,
         locate'.chained = locate.chained, locate'.closure = locate.closure,
         locate'.scanner => locate.scanner,
         host'.masks = host.masks, host'.stale = host.stale,
         \A b \in Level \cup Records \cup Rows \cup {"preservedMasks"} : content'[b] = content[b],
         Earlier \notin content["seedHistogram"] => Earlier \notin content'["seedHistogram"],
         locate'.scanner /\ ~host.stale => \A b \in Pools :
           Ours(content[b]) => Ours(content'[b]),
         host'.shares + Claimed <= host.shares + Claimed', PlacesTrue'
  PROVE  LInv'
<1>1. ~At({"pass"})' /\ ~At({"clear"})' /\ ~At({"reset", "clear"})' /\ ~At({"reset"})
  BY DEF At
<1>2. Steady
  <2>1. Active'
    BY DEF Active, At, LocateTypes, Steps
  <2>2. /\ \A b \in Level \cup {"packedMasks", "preservedMasks"} : content'[b] = content[b]
        /\ \A b \in Rows \cup {"scanRecords"} : OfPass(content[b]) => OfPass(content'[b])
    BY DEF Records
  <2> QED
    BY <1>1, <2>1, <2>2, SteadyStep
<1>3. GatheredTrue'
  BY <1>1, <1>2, GatheredKeeps
<1>4. SharesTrue'
  BY <1>1, <1>2, SharesKeep
<1> QED
  BY <1>2, <1>3, <1>4, SteadyInv

\* The seeds a pass adds are of its lease.
LEMMA SeedsAdd ==
  ASSUME LInv, Active, NEW op,
         From(LocateEffects[op], {"seedHistogram"},
              {"balanced", "packedMasks"} \cup {"seedHistogram"}),
         Earlier \notin content["seedHistogram"]
  PROVE  Earlier \notin StampsOf(LocateEffects[op].origin["seedHistogram"], content, {Current})
<1> DEFINE all == {"balanced", "packedMasks"} \cup {"seedHistogram"}
           S   == {Before, Current, Word, Torn}
           origins == LocateEffects[op].origin["seedHistogram"]
<1>1. content \in [Live -> SUBSET Stamps] /\ all \in SUBSET Live
  BY BufferNames DEF LInv, TypeOK, Level, Records, Others
<1>2. Ours(content["balanced"]) /\ Ours(content["packedMasks"])
  BY OwnStamps DEF LInv, LevelTrue, MasksTrue
<1>3. Current \in S /\ \A b \in all : content[b] \subseteq S
  BY <1>1, <1>2, BufferNames DEF Ours, Stamps
<1>4. Drawn(origins) \subseteq {"now"} \cup all
  BY DEF From
<1> HIDE DEF S, all, origins
<1>5. StampsOf(origins, content, {Current}) \subseteq S
  BY <1>1, <1>3, <1>4, Stamped
<1> QED
  BY <1>5 DEF S, origins, Earlier, Before, Current, Word, Torn

\* A sweep leaves the outcomes of this pass, and touches the seeds beside.
LEMMA SweepDone ==
  ASSUME LInv, Active, NEW op \in {"batch", "sweep"}, Submit(op)
  PROVE  /\ content' \in [Live -> SUBSET Stamps] /\ OutcomesOwn'
         /\ Earlier \notin content["seedHistogram"] => Earlier \notin content'["seedHistogram"]
         /\ \A b \in Live \ (DirectionOutcomes \cup {"seedHistogram"}) : content'[b] = content[b]
<1> DEFINE effect == LocateEffects[op]
           from   == {"balanced", "packedMasks"}
<1>1. /\ Scans(effect, DirectionOutcomes, from)
      /\ Leaves(effect, Live \ (DirectionOutcomes \cup {"seedHistogram"}))
  BY EffectsAssumption, DirectionTypes
<1>2. /\ content \in [Live -> SUBSET Stamps]
      /\ \A b \in from : b \in Live /\ Ours(content[b])
  BY BufferNames, OwnStamps DEF LInv, TypeOK, LevelTrue, MasksTrue, Level, Records
<1>3. /\ content' \in [Live -> SUBSET Stamps]
      /\ \A b \in Live : content'[b] = StampsOf(effect.origin[b], content, {Current})
  BY Submitted DEF LInv
<1>4. /\ \A b \in Live \ (DirectionOutcomes \cup {"seedHistogram"}) : content'[b] = content[b]
  BY <1>1, SubmitLeaves DEF LInv
<1> HIDE DEF effect
<1>5. OutcomesOwn'
  <2> SUFFICES ASSUME NEW b \in DirectionOutcomes PROVE OfPass(content'[b])
    BY DEF OutcomesOwn
  <2>1. b \in Live /\ Drawn(effect.origin[b]) \subseteq {"now"} \cup from
        /\ "now" \in effect.origin[b]
    BY <1>1, BufferNames DEF Scans, From
  <2>2. StampsOf(effect.origin[b], content, {Current}) \subseteq {Before, Current, Word}
    <3> DEFINE S == {Before, Current, Word}
    <3>1. from \in SUBSET Live /\ Current \in S /\ \A c \in from : content[c] \subseteq S
      BY <1>2 DEF Ours
    <3> HIDE DEF S, from
    <3>2. StampsOf(effect.origin[b], content, {Current}) \subseteq S
      BY <1>2, <2>1, <3>1, Stamped
    <3> QED
      BY <3>2 DEF S
  <2>3. Current \in StampsOf(effect.origin[b], content, {Current})
    BY <1>2, <2>1, StampTypes
  <2> QED
    BY <1>3, <2>1, <2>2, <2>3 DEF OfPass, Ours
<1>6. ASSUME Earlier \notin content["seedHistogram"]
      PROVE  Earlier \notin content'["seedHistogram"]
  <2>1. From(effect, {"seedHistogram"}, from \cup {"seedHistogram"}) /\ "seedHistogram" \in Live
    BY <1>1, BufferNames DEF Scans, Others
  <2> QED
    BY <1>3, <1>6, <2>1, SeedsAdd DEF effect
<1> QED
  BY <1>3, <1>4, <1>5, <1>6

\* What a sweep leaves of seeds, also one that breaks off.
LEMMA SweepFails ==
  ASSUME LInv, Active, NEW op \in {"batch", "sweep"}, Fail(op)
  PROVE  /\ content' \in [Live -> SUBSET Stamps]
         /\ Earlier \notin content["seedHistogram"] => Earlier \notin content'["seedHistogram"]
         /\ \A b \in Live \ (DirectionOutcomes \cup {"seedHistogram"}) : content'[b] = content[b]
<1>1. /\ Scans(LocateEffects[op], DirectionOutcomes, {"balanced", "packedMasks"})
      /\ Leaves(LocateEffects[op], Live \ (DirectionOutcomes \cup {"seedHistogram"}))
  BY EffectsAssumption, DirectionTypes
<1>2. ASSUME Earlier \notin content["seedHistogram"]
      PROVE  Earlier \notin content'["seedHistogram"]
  <2>1. /\ From(LocateEffects[op], {"seedHistogram"},
                {"balanced", "packedMasks"} \cup {"seedHistogram"})
        /\ "seedHistogram" \in Live
    BY <1>1, BufferNames DEF Scans, Others
  <2>2. Earlier \notin StampsOf(LocateEffects[op].origin["seedHistogram"], content, {Current})
    BY <1>2, <2>1, SeedsAdd
  <2> QED
    BY <1>2, <2>1, <2>2, FailAdds DEF LInv, Earlier, Torn
<1> QED
  BY <1>1, <1>2, FailLeaves DEF LInv

\* What is shown of buffers of this lease, of its pass in part, is of the pass.
LEMMA StampedOwn ==
  ASSUME NEW held \in [Live -> SUBSET Stamps], NEW origins, NEW from \in SUBSET Live,
         Drawn(origins) \subseteq {"now"} \cup from,
         \A b \in from : Ours(held[b]),
         NEW o \in Drawn(origins), o = "now" \/ (o \in Live /\ Current \in held[o])
  PROVE  OfPass(StampsOf(origins, held, {Current}))
<1> DEFINE S == {Before, Current, Word}
<1>1. Current \in S /\ \A b \in from : held[b] \subseteq S
  BY DEF Ours
<1> HIDE DEF S
<1>2. StampsOf(origins, held, {Current}) \subseteq S
  BY <1>1, Stamped
<1>3. Current \in StampsOf(origins, held, {Current})
  BY BufferNames DEF StampsOf, Drawn
<1> QED
  BY <1>2, <1>3 DEF S, OfPass, Ours

\* Rows that are of the pass may be told.
LEMMA RowsTold ==
  ASSUME NEW given, answer' = Answer("rows", Current, given), OfPass(given)
  PROVE  Told'
BY DEF Told, Answer

\* All directions in one submission, or each for itself.
LEMMA BatchSweepsSound ==
  ASSUME LInv, BatchSweeps
  PROVE  LInv' /\ Told'
<1>1. Active /\ At({"directions"}) /\ UNCHANGED <<host, last>> /\ answer' = NoAnswer
  BY DEF BatchSweeps, Active, At
<1>2. locate \in LocateTypes /\ host \in HostTypes /\ content \in [Live -> SUBSET Stamps]
  BY <1>1, ActiveTypes DEF LInv, TypeOK
<1> DEFINE Moved ==
      /\ locate' \in LocateTypes /\ locate'.at \in {"sweep", "hostSweep"}
      /\ locate'.kind = locate.kind /\ locate'.plan = locate.plan
      /\ locate'.chained = locate.chained /\ locate'.closure = locate.closure
      /\ locate'.scanner = locate.scanner /\ locate'.dir = 1
      /\ locate'.at = "sweep" => locate.scanner
           Spared ==
      /\ content' \in [Live -> SUBSET Stamps]
      /\ Earlier \notin content["seedHistogram"] => Earlier \notin content'["seedHistogram"]
      /\ \A b \in Live \ (DirectionOutcomes \cup {"seedHistogram"}) : content'[b] = content[b]
<1>3. ASSUME Moved, Spared, locate'.batch # {} => OutcomesOwn'
      PROVE  LInv'
  <2>1. PlacesTrue'
    BY <1>3 DEF PlacesTrue, At, Sweeping, Merging
  <2>2. host'.shares + Claimed <= host.shares + Claimed'
    <3>1. Claimed = 2
      BY <1>1, ClaimedAt DEF At
    <3>2. Claimed' = 1 + 1 \/ Claimed' = 2 + 1
      BY <1>3, ClaimedNext DEF At
    <3> QED
      BY <1>1, <1>2, <3>1, <3>2 DEF HostTypes
  <2>3. ~At({"reset", "clear"}) /\ ~At({"binarize", "reset", "clear", "pass"})'
    BY <1>1, <1>3 DEF At
  <2>4. \A b \in Level \cup Records \cup Rows \cup {"preservedMasks"} \cup Pools :
          content'[b] = content[b]
    BY <1>3 DEF Live, Level, Records, Rows, DirectionOutcomes, Pools, Others
  <2> QED
    BY <1>1, <1>2, <1>3, <2>1, <2>2, <2>3, <2>4, GoesOn
<1>4. 1 .. Directions \in SUBSET (1 .. Directions) /\ 1 \in 0 .. Directions
  BY DirectionTypes DEF MaxDirections
<1>5. CASE /\ locate.scanner /\ Submit("batch")
           /\ locate' = [locate EXCEPT !.at = "sweep", !.dir = 1, !.batch = 1 .. Directions]
  <2>1. Moved
    BY <1>2, <1>4, <1>5 DEF LocateTypes, Steps
  <2>2. Spared /\ OutcomesOwn'
    BY <1>1, <1>5, SweepDone
  <2> QED
    BY <1>1, <1>3, <2>1, <2>2, UntoldTold
<1>6. CASE /\ locate.scanner /\ Fail("batch")
           /\ locate' = [locate EXCEPT !.at = "sweep", !.dir = 1, !.batch = {}]
  <2>1. Moved /\ locate'.batch = {}
    BY <1>2, <1>4, <1>6 DEF LocateTypes, Steps
  <2>2. Spared
    BY <1>1, <1>6, SweepFails
  <2> QED
    BY <1>1, <1>3, <2>1, <2>2, UntoldTold
<1>7. CASE /\ Refuse
           /\ locate' = [locate EXCEPT !.at = NextSweep, !.dir = 1, !.batch = {}]
  <2>1. NextSweep \in {"sweep", "hostSweep"} /\ (NextSweep = "sweep" => locate.scanner)
    BY <1>2 DEF NextSweep, LocateTypes
  <2>2. Moved /\ locate'.batch = {}
    BY <1>2, <1>4, <1>7, <2>1 DEF LocateTypes, Steps
  <2>3. Spared
    BY <1>2, <1>7 DEF Refuse
  <2> QED
    BY <1>1, <1>3, <2>2, <2>3, UntoldTold
<1> QED
  BY <1>5, <1>6, <1>7 DEF BatchSweeps

\* The column sweep joins the rows.
LEMMA ScanVerticalSound ==
  ASSUME LInv, ScanVertical
  PROVE  LInv' /\ Told'
<1>1. Active /\ At({"vertical"}) /\ UNCHANGED <<host, last>> /\ answer' = NoAnswer
  BY DEF ScanVertical, Active, At
<1>2. locate \in LocateTypes /\ host \in HostTypes /\ content \in [Live -> SUBSET Stamps]
  BY <1>1, ActiveTypes DEF LInv, TypeOK
<1>3. locate.chained /\ locate.scanner /\ ~host.stale /\ Claimed = 1
  BY <1>1, ClaimedAt DEF LInv, PlacesTrue, At
<1>4. /\ content' \in [Live -> SUBSET Stamps]
      /\ Earlier \notin content["seedHistogram"] => Earlier \notin content'["seedHistogram"]
      /\ \A b \in Live \ (DirectionOutcomes \cup {"seedHistogram"}) : content'[b] = content[b]
      /\ At({"foldVertical"})' => OutcomesOwn'
  <2>1. CASE Submit("sweep") /\ Go("foldVertical")
    BY <1>1, <2>1, SweepDone
  <2>2. CASE Fail("sweep") /\ Retire("hostRows")
    <3>1. ~At({"foldVertical"})'
      BY <1>2, <2>2 DEF Retire, LocateTypes, At
    <3> QED
      BY <1>1, <2>2, <3>1, SweepFails
  <2> QED
    BY <2>1, <2>2 DEF ScanVertical
<1>5. /\ locate' \in LocateTypes /\ locate'.at \in {"foldVertical", "hostRows"}
      /\ locate'.kind = locate.kind /\ locate'.plan = locate.plan
      /\ locate'.chained = locate.chained /\ locate'.closure = locate.closure
      /\ locate'.at = "foldVertical" => locate'.scanner
  BY <1>2, <1>3, ZenonT(30) DEF ScanVertical, Go, Retire, LocateTypes, Steps
<1>6. PlacesTrue'
  BY <1>1, <1>3, <1>4, <1>5 DEF PlacesTrue, At, Sweeping, Merging
<1>7. host'.shares + Claimed <= host.shares + Claimed'
  <2>1. Claimed' = 1 \/ Claimed' = 2
    BY <1>5, ClaimedNext DEF At
  <2> QED
    BY <1>1, <1>2, <1>3, <2>1 DEF HostTypes
<1>8. ~At({"reset", "clear"}) /\ ~At({"binarize", "reset", "clear", "pass"})'
  BY <1>1, <1>5 DEF At
<1>9. \A b \in Level \cup Records \cup Rows \cup {"preservedMasks"} \cup Pools :
        content'[b] = content[b]
  BY <1>4 DEF Live, Level, Records, Rows, DirectionOutcomes, Pools, Others
<1> QED
  BY <1>1, <1>2, <1>3, <1>4, <1>5, <1>6, <1>7, <1>8, <1>9, GoesOn, UntoldTold

\* A direction is swept on the device.
LEMMA ScanDirectionSound ==
  ASSUME LInv, ScanDirection
  PROVE  LInv' /\ Told'
<1>1. Active /\ At({"sweep"}) /\ UNCHANGED <<host, last>>
  BY DEF ScanDirection, Active, At
<1>2. locate \in LocateTypes /\ host \in HostTypes /\ content \in [Live -> SUBSET Stamps]
  BY <1>1, ActiveTypes DEF LInv, TypeOK
<1>3. locate.scanner /\ locate.dir \in Nat /\ Claimed = 1 + locate.dir
  BY <1>1, <1>2, ClaimedAt DEF LInv, PlacesTrue, At, LocateTypes
<1>4. locate.batch # {} => OutcomesOwn
  BY <1>1, <1>3 DEF LInv, PlacesTrue, At, Sweeping
<1> DEFINE Spared ==
      /\ content' \in [Live -> SUBSET Stamps]
      /\ Earlier \notin content["seedHistogram"] => Earlier \notin content'["seedHistogram"]
      /\ \A b \in Live \ (DirectionOutcomes \cup {"seedHistogram"}) : content'[b] = content[b]
           Moved ==
      /\ locate' \in LocateTypes
      /\ locate'.kind = locate.kind /\ locate'.plan = locate.plan
      /\ locate'.chained = locate.chained /\ locate'.closure = locate.closure
      /\ locate'.batch = locate.batch /\ locate'.dir = locate.dir
<1>5. ASSUME Spared, Moved, locate'.at \in {"foldDirection", "hits", "hostSweep"},
             locate'.at = "foldDirection" => locate'.scanner /\ OutcomesOwn',
             locate'.scanner /\ locate'.batch # {} => OutcomesOwn'
      PROVE  LInv'
  <2>1. PlacesTrue'
    BY <1>5 DEF PlacesTrue, At, Sweeping, Merging
  <2>2. host'.shares + Claimed <= host.shares + Claimed'
    <3>1. Claimed' = 1 + locate.dir \/ Claimed' = 2 + locate.dir
      BY <1>5, ClaimedNext DEF At
    <3> QED
      BY <1>1, <1>2, <1>3, <3>1 DEF HostTypes
  <2>3. ~At({"reset", "clear"}) /\ ~At({"binarize", "reset", "clear", "pass"})'
    BY <1>1, <1>5 DEF At
  <2>4. \A b \in Level \cup Records \cup Rows \cup {"preservedMasks"} \cup Pools :
          content'[b] = content[b]
    BY <1>5 DEF Live, Level, Records, Rows, DirectionOutcomes, Pools, Others
  <2>5. locate'.scanner => locate.scanner
    BY <1>3
  <2> QED
    BY <1>1, <1>2, <1>5, <2>1, <2>2, <2>3, <2>4, <2>5, GoesOn
<1>6. CASE locate.chained /\ Submit("sweep") /\ Go("foldDirection") /\ answer' = NoAnswer
  <2>1. Moved /\ locate'.at = "foldDirection" /\ locate'.scanner
    BY <1>2, <1>3, <1>6 DEF Go, LocateTypes, Steps
  <2>2. Spared /\ OutcomesOwn'
    BY <1>1, <1>6, SweepDone
  <2> QED
    BY <1>5, <1>6, <2>1, <2>2, UntoldTold
<1>7. CASE /\ Submit("sweepBare") /\ Go("hits")
           /\ answer' = Answer("rows", Current, Shown("sweepBare"))
  <2>1. Moved /\ locate'.at = "hits"
    BY <1>2, <1>3, <1>7 DEF Go, LocateTypes, Steps
  <2>2. Leaves(LocateEffects["sweepBare"], Live)
        /\ Drawn(LocateEffects["sweepBare"].shown) = {"now", "packedMasks"}
    BY Looking DEF Tells
  <2>3. content' \in [Live -> SUBSET Stamps] /\ \A b \in Live : content'[b] = content[b]
    BY <1>7, <2>2, Submitted, SubmitLeaves DEF LInv
  <2>4. Spared /\ (OutcomesOwn => OutcomesOwn')
    BY <2>3, BufferNames DEF OutcomesOwn, Others
  <2>5. OfPass(Shown("sweepBare"))
    <3>1. Ours(content["packedMasks"]) /\ {"packedMasks"} \in SUBSET Live
      BY <1>1, OwnStamps, BufferNames DEF LInv, MasksTrue, Records
    <3>2. OfPass(StampsOf(LocateEffects["sweepBare"].shown, content, {Current}))
      BY <1>2, <2>2, <3>1, StampedOwn
    <3> QED
      BY <3>2 DEF Shown, ShownBy
  <2>6. Told'
    BY <1>7, <2>5, RowsTold
  <2> QED
    BY <1>4, <1>5, <2>1, <2>4, <2>6
<1>8. CASE locate.chained /\ Fail("sweep") /\ Retire("hostSweep") /\ answer' = NoAnswer
  <2>1. Moved /\ locate'.at = "hostSweep" /\ ~locate'.scanner
    BY <1>2, <1>8 DEF Retire, LocateTypes, Steps
  <2>2. Spared
    BY <1>1, <1>8, SweepFails
  <2> QED
    BY <1>5, <1>8, <2>1, <2>2, UntoldTold
<1>9. CASE ~locate.chained /\ Fail("sweepBare") /\ Retire("hostSweep") /\ answer' = NoAnswer
  <2>1. Moved /\ locate'.at = "hostSweep" /\ ~locate'.scanner
    BY <1>2, <1>9 DEF Retire, LocateTypes, Steps
  <2>2. Leaves(LocateEffects["sweepBare"], Live)
    BY Looking DEF Tells
  <2>3. content' \in [Live -> SUBSET Stamps] /\ \A b \in Live : content'[b] = content[b]
    BY <1>9, <2>2, FailLeaves DEF LInv
  <2>4. Spared
    BY <2>3, BufferNames DEF Others
  <2> QED
    BY <1>5, <1>9, <2>1, <2>4, UntoldTold
<1> QED
  BY <1>6, <1>7, <1>8, <1>9 DEF ScanDirection

\* While the pools count, a place that has not claimed all it may finds its share.
LEMMA ShareLeft ==
  ASSUME LInv, Active, ~At({"reset", "clear"}), ~host.stale, Claimed <= Directions + 1
  PROVE  host.shares < MaxShares
<1>1. Following \in Nat /\ Claimed \in Nat /\ host.shares \in Nat /\ Directions \in Nat
  BY FollowingType, ClaimedType, DirectionTypes DEF LInv, TypeOK, HostTypes
<1>2. host.shares + Following * (Directions + 2) <= 5 * (Directions + 2) + Claimed
  BY DEF LInv, SharesTrue
<1>3. MaxShares = 5 * (Directions + 2) + Directions + 2
  BY <1>1 DEF MaxShares, MaxPreparedPasses
<1> DEFINE f == Following * (Directions + 2)
           w == 5 * (Directions + 2)
<1>4. f \in Nat /\ w \in Nat
  BY <1>1
<1> HIDE DEF f, w
<1>5. host.shares + f <= w + Claimed /\ MaxShares = w + Directions + 2
  BY <1>2, <1>3 DEF f, w
<1>6. host.shares <= w + Directions + 1
  BY <1>1, <1>4, <1>5
<1> QED
  BY <1>1, <1>4, <1>5, <1>6

\* Where a fold takes its candidates from.
LEMMA SourceNames ==
  /\ Sources("foldRow") = {"rowCompacted", "rowSummary"}
  /\ Sources("foldVertical") = {"rowCompacted", "rowSummary"} \cup DirectionOutcomes
  /\ Sources("foldDirection") = DirectionOutcomes
BY DEF Sources

\* A fold of the outcomes of this pass into whole pools keeps them whole, and
\* tells the truth.
LEMMA FoldDone ==
  ASSUME LInv, Active, ~At({"reset"}), ~host.stale, locate.scanner,
         NEW op \in {"foldRow", "foldVertical", "foldDirection"}, Folds(op),
         \A b \in Sources(op) : OfPass(content[b])
  PROVE  /\ content' \in [Live -> SUBSET Stamps] /\ host' = FoldHost /\ UNCHANGED last
         /\ \A b \in Live \ Pools : content'[b] = content[b]
         /\ \A b \in Pools : Ours(content'[b])
         /\ Told'
<1> DEFINE effect == LocateEffects[op]
           from   == Pools \cup Sources(op)
           S      == {Before, Current, Word}
<1>1. /\ From(effect, Pools, from) /\ Leaves(effect, Live \ Pools)
      /\ Drawn(effect.shown) \subseteq {"now"} \cup from
  BY EffectsAssumption, DirectionTypes
<1>2. Submit(op) /\ host' = FoldHost /\ UNCHANGED last
  BY DEF Folds
<1>3. content \in [Live -> SUBSET Stamps] /\ from \in SUBSET Live
  <2>1. Sources(op) \subseteq Rows \cup DirectionOutcomes
    BY SourceNames DEF Rows
  <2> QED
    BY <2>1, BufferNames DEF LInv, TypeOK
<1>4. Current \in S /\ \A b \in from : content[b] \subseteq S
  BY OwnStamps DEF LInv, GatheredTrue, Ours
<1>5. \A b \in Live \ Pools : content'[b] = content[b]
  BY <1>1, <1>2, SubmitLeaves DEF LInv
<1>6. /\ content' \in [Live -> SUBSET Stamps]
      /\ \A b \in Live : content'[b] = StampsOf(effect.origin[b], content, {Current})
  BY <1>2, Submitted DEF LInv
<1> HIDE DEF effect, from, S
<1>7. \A b \in Pools : Ours(content'[b])
  <2> SUFFICES ASSUME NEW b \in Pools PROVE Ours(content'[b])
    OBVIOUS
  <2>1. Drawn(effect.origin[b]) \subseteq {"now"} \cup from /\ b \in Live
    BY <1>1, BufferNames DEF From
  <2>2. StampsOf(effect.origin[b], content, {Current}) \subseteq S
    BY <1>3, <1>4, <2>1, Stamped
  <2> QED
    BY <1>6, <2>1, <2>2 DEF S, Ours
<1>8. Ours(Shown(op))
  <2>1. StampsOf(effect.shown, content, {Current}) \subseteq S
    BY <1>1, <1>3, <1>4, Stamped
  <2> QED
    BY <2>1 DEF Shown, ShownBy, Ours, S, effect
<1>9. OfPass(UNION {content[b] : b \in Sources(op)})
  <2>1. \E b \in Sources(op) : TRUE
    BY SourceNames DEF DirectionOutcomes
  <2> QED
    BY <2>1 DEF OfPass, Ours
<1>10. /\ answer'.kind = "fold" /\ answer'.got = Shown(op)
       /\ answer'.sources = UNION {content[b] : b \in Sources(op)}
  BY DEF Folds, Answer
<1>11. Told'
  BY <1>8, <1>9, <1>10 DEF Told
<1> QED
  BY <1>2, <1>5, <1>6, <1>7, <1>11

\* A fold that fails spoils the pools alone, if its share was left.
LEMMA FoldFailed ==
  ASSUME LInv, NEW op \in {"foldRow", "foldVertical", "foldDirection"}, FoldFails(op),
         host.shares < MaxShares
  PROVE  /\ content' \in [Live -> SUBSET Stamps] /\ host' = FoldHost /\ UNCHANGED last
         /\ \A b \in Live \ Pools : content'[b] = content[b]
         /\ Told'
<1>1. Leaves(LocateEffects[op], Live \ Pools)
  BY EffectsAssumption, DirectionTypes
<1>2. host.shares # MaxShares
  <2>1. host.shares \in Nat /\ MaxShares \in Nat
    BY DirectionTypes DEF LInv, TypeOK, HostTypes, MaxShares, MaxPreparedPasses
  <2> QED
    BY <2>1
<1>3. Fail(op) /\ host' = FoldHost /\ answer' = NoAnswer /\ UNCHANGED last
  BY <1>2 DEF FoldFails
<1> QED
  BY <1>1, <1>3, FailLeaves, UntoldTold DEF LInv

\* A step that folds, or fails to, and goes on in its pass.
LEMMA FoldsOn ==
  ASSUME LInv, Active, locate' \in LocateTypes, host' = FoldHost,
         content' \in [Live -> SUBSET Stamps], UNCHANGED last,
         ~At({"reset", "clear"}), ~At({"binarize", "reset", "clear", "pass"})',
         locate'.kind = locate.kind, locate'.plan = locate.plan,
         locate'.chained = locate.chained, locate'.closure = locate.closure,
         locate'.scanner => locate.scanner,
         \A b \in Live \ Pools : content'[b] = content[b],
         locate'.scanner => \A b \in Pools : Ours(content'[b]),
         1 + Claimed <= Claimed', PlacesTrue'
  PROVE  LInv'
<1>1. host \in HostTypes
  BY DEF LInv, TypeOK
<1>2. /\ host' \in HostTypes /\ host'.masks = host.masks /\ host'.stale = host.stale
      /\ host'.shares = host.shares + 1
  <2>1. host.shares \in Nat /\ host.shares + 1 \in Nat
    BY <1>1 DEF HostTypes
  <2>2. host' = [host EXCEPT !.shares = host.shares + 1, !.mirrored = FALSE, !.mirror = {}]
    BY DEF FoldHost
  <2>3. {} \in SUBSET Stamps
    OBVIOUS
  <2> QED
    BY <1>1, <2>1, <2>2, <2>3 DEF HostTypes
<1>3. \A b \in Level \cup Records \cup Rows \cup {"preservedMasks"} : content'[b] = content[b]
  BY DEF Live, Level, Records, Rows, DirectionOutcomes, Pools, Others
<1>4. content'["seedHistogram"] = content["seedHistogram"]
  BY DEF Live, Pools, Others
<1>5. host'.shares + Claimed <= host.shares + Claimed'
  <2>1. Claimed \in Nat /\ host.shares \in Nat
    BY <1>1, ClaimedType DEF LInv, HostTypes
  <2>2. Claimed' \in Nat
    <3>1. locate'.at \in Steps \ {"binarize", "reset", "clear"} /\ locate'.dir \in Nat
          /\ Directions \in Nat
      BY DirectionTypes DEF At, LocateTypes
    <3> QED
      BY <3>1, ClaimedNext DEF At, Steps
  <2> QED
    BY <1>2, <2>1, <2>2
<1> QED
  BY <1>2, <1>3, <1>4, <1>5, GoesOn

\* The row chain's candidates are folded.
LEMMA FoldRowSound ==
  ASSUME LInv, FoldRow
  PROVE  LInv' /\ Told'
<1>1. Active /\ At({"rows"}) /\ ~At({"reset", "clear"}) /\ ~At({"reset"})
  BY DEF FoldRow, Active, At
<1>2. locate \in LocateTypes
  BY <1>1, ActiveTypes DEF LInv
<1>3. Claimed = 0
  BY <1>1, ClaimedAt
<1>4. ASSUME locate.scanner, locate.chained, ~host.stale
      PROVE  /\ host.shares < MaxShares
             /\ \A b \in Sources("foldRow") : OfPass(content[b])
  <2>1. Claimed <= Directions + 1
    BY <1>3, DirectionTypes
  <2>2. \A b \in Sources("foldRow") : OfPass(content[b])
    BY <1>1, <1>4, SourceNames DEF LInv, RowsTrue, Rows
  <2> QED
    BY <1>1, <1>4, <2>1, <2>2, ShareLeft
<1>5. CASE /\ locate.scanner /\ locate.chained /\ ~host.stale
           /\ Folds("foldRow")
           /\ \E at \in {"settle", "vertical", "hostRows"} : Go(at)
  <2>1. /\ locate' \in LocateTypes /\ locate'.at \in {"settle", "vertical", "hostRows"}
        /\ locate'.kind = locate.kind /\ locate'.plan = locate.plan
        /\ locate'.chained = locate.chained /\ locate'.closure = locate.closure
        /\ locate'.scanner = locate.scanner
    BY <1>2, <1>5 DEF Go, LocateTypes, Steps
  <2>2. /\ content' \in [Live -> SUBSET Stamps] /\ host' = FoldHost /\ UNCHANGED last
        /\ \A b \in Live \ Pools : content'[b] = content[b]
        /\ \A b \in Pools : Ours(content'[b])
        /\ Told'
    BY <1>1, <1>4, <1>5, FoldDone
  <2>3. 1 + Claimed <= Claimed'
    <3>1. Claimed' = 1 \/ Claimed' = 2
      BY <2>1, ClaimedNext DEF At
    <3> QED
      BY <1>3, <3>1
  <2>4. host'.stale = host.stale
    BY <2>2 DEF FoldHost, LInv, TypeOK, HostTypes
  <2>5. PlacesTrue'
    BY <1>5, <2>1, <2>4 DEF PlacesTrue, At, Sweeping, Merging
  <2>6. ~At({"binarize", "reset", "clear", "pass"})'
    BY <2>1 DEF At
  <2> QED
    BY <1>1, <2>1, <2>2, <2>3, <2>5, <2>6, FoldsOn
<1>6. CASE /\ locate.scanner /\ locate.chained /\ ~host.stale
           /\ FoldFails("foldRow") /\ Retire("hostRows")
  <2>1. /\ locate' \in LocateTypes /\ locate'.at = "hostRows"
        /\ locate'.kind = locate.kind /\ locate'.plan = locate.plan
        /\ locate'.chained = locate.chained /\ locate'.closure = locate.closure
        /\ locate'.scanner = FALSE
    BY <1>2, <1>6 DEF Retire, LocateTypes, Steps
  <2>2. /\ content' \in [Live -> SUBSET Stamps] /\ host' = FoldHost /\ UNCHANGED last
        /\ \A b \in Live \ Pools : content'[b] = content[b]
        /\ Told'
    BY <1>4, <1>6, FoldFailed
  <2>3. 1 + Claimed <= Claimed'
    BY <1>3, <2>1, ClaimedNext DEF At
  <2>4. PlacesTrue'
    BY <2>1 DEF PlacesTrue, At, Sweeping, Merging
  <2>5. ~At({"binarize", "reset", "clear", "pass"})'
    BY <2>1 DEF At
  <2> QED
    BY <1>1, <2>1, <2>2, <2>3, <2>4, <2>5, FoldsOn
<1>7. CASE Silently /\ Go("hostRows")
  <2>1. /\ locate' \in LocateTypes /\ locate'.at = "hostRows"
        /\ locate'.kind = locate.kind /\ locate'.plan = locate.plan
        /\ locate'.chained = locate.chained /\ locate'.closure = locate.closure
        /\ locate'.scanner = locate.scanner
    BY <1>2, <1>7 DEF Go, LocateTypes, Steps
  <2>2. Claimed <= Claimed'
    BY <1>3, <2>1, ClaimedNext DEF At
  <2>3. PlacesTrue'
    BY <2>1 DEF PlacesTrue, At, Sweeping, Merging
  <2>4. ~At({"binarize", "reset", "clear"})' /\ ~At({"pass"})'
    BY <2>1 DEF At
  <2> QED
    BY <1>1, <1>7, <2>1, <2>2, <2>3, <2>4, SilentSound
<1> QED
  BY <1>5, <1>6, <1>7 DEF FoldRow

\* The rows are folded with the column sweep.
LEMMA FoldVerticalSound ==
  ASSUME LInv, FoldVertical
  PROVE  LInv' /\ Told'
<1>1. Active /\ At({"foldVertical"}) /\ ~At({"reset", "clear"}) /\ ~At({"reset"})
  BY DEF FoldVertical, Active, At
<1>2. locate \in LocateTypes
  BY <1>1, ActiveTypes DEF LInv
<1>3. Claimed = 1 /\ locate.scanner /\ locate.chained /\ ~host.stale /\ OutcomesOwn
  BY <1>1, ClaimedAt DEF LInv, PlacesTrue, At
<1>4. host.shares < MaxShares
  <2>1. Claimed <= Directions + 1
    BY <1>3, DirectionTypes DEF MaxDirections
  <2> QED
    BY <1>1, <1>3, <2>1, ShareLeft
<1>5. CASE Folds("foldVertical") /\ \E at \in {"settle", "hostRows"} : Go(at)
  <2>1. /\ locate' \in LocateTypes /\ locate'.at \in {"settle", "hostRows"}
        /\ locate'.kind = locate.kind /\ locate'.plan = locate.plan
        /\ locate'.chained = locate.chained /\ locate'.closure = locate.closure
        /\ locate'.scanner = locate.scanner
    BY <1>2, <1>5 DEF Go, LocateTypes, Steps
  <2>2. \A b \in Sources("foldVertical") : OfPass(content[b])
    <3>1. \A b \in Rows : OfPass(content[b])
      BY <1>1, <1>3 DEF LInv, RowsTrue
    <3> QED
      BY <1>3, <3>1, SourceNames DEF Rows, OutcomesOwn
  <2>3. /\ content' \in [Live -> SUBSET Stamps] /\ host' = FoldHost /\ UNCHANGED last
        /\ \A b \in Live \ Pools : content'[b] = content[b]
        /\ \A b \in Pools : Ours(content'[b])
        /\ Told'
    BY <1>1, <1>3, <1>5, <2>2, FoldDone
  <2>4. 1 + Claimed <= Claimed'
    BY <1>3, <2>1, ClaimedNext DEF At
  <2>5. PlacesTrue'
    BY <2>1 DEF PlacesTrue, At, Sweeping, Merging
  <2>6. ~At({"binarize", "reset", "clear", "pass"})'
    BY <2>1 DEF At
  <2> QED
    BY <1>1, <2>1, <2>3, <2>4, <2>5, <2>6, FoldsOn
<1>6. CASE FoldFails("foldVertical") /\ Retire("hostRows")
  <2>1. /\ locate' \in LocateTypes /\ locate'.at = "hostRows"
        /\ locate'.kind = locate.kind /\ locate'.plan = locate.plan
        /\ locate'.chained = locate.chained /\ locate'.closure = locate.closure
        /\ locate'.scanner = FALSE
    BY <1>2, <1>6 DEF Retire, LocateTypes, Steps
  <2>2. /\ content' \in [Live -> SUBSET Stamps] /\ host' = FoldHost /\ UNCHANGED last
        /\ \A b \in Live \ Pools : content'[b] = content[b]
        /\ Told'
    BY <1>4, <1>6, FoldFailed
  <2>3. 1 + Claimed <= Claimed'
    BY <1>3, <2>1, ClaimedNext DEF At
  <2>4. PlacesTrue'
    BY <2>1 DEF PlacesTrue, At, Sweeping, Merging
  <2>5. ~At({"binarize", "reset", "clear", "pass"})'
    BY <2>1 DEF At
  <2> QED
    BY <1>1, <2>1, <2>2, <2>3, <2>4, <2>5, FoldsOn
<1> QED
  BY <1>5, <1>6 DEF FoldVertical

\* The candidates of a direction are folded.
LEMMA FoldDirectionSound ==
  ASSUME LInv, FoldDirection
  PROVE  LInv' /\ Told'
<1>1. Active /\ At({"foldDirection"}) /\ ~At({"reset", "clear"}) /\ ~At({"reset"})
  BY DEF FoldDirection, Active, At
<1>2. locate \in LocateTypes
  BY <1>1, ActiveTypes DEF LInv
<1>3. Claimed = 1 + locate.dir /\ locate.scanner /\ OutcomesOwn
  BY <1>1, ClaimedAt DEF LInv, PlacesTrue, At
<1>4. locate.dir \in Nat /\ locate.dir <= Directions /\ Directions \in Nat
  BY <1>2, DirectionTypes DEF LocateTypes
<1>5. ASSUME ~host.stale
      PROVE  host.shares < MaxShares
  BY <1>1, <1>3, <1>4, <1>5, ShareLeft
<1>6. CASE /\ ~host.stale /\ Folds("foldDirection")
           /\ \E at \in {"swept", "hostSweep"} : Go(at)
  <2>1. /\ locate' \in LocateTypes /\ locate'.at \in {"swept", "hostSweep"}
        /\ locate'.kind = locate.kind /\ locate'.plan = locate.plan
        /\ locate'.chained = locate.chained /\ locate'.closure = locate.closure
        /\ locate'.scanner = locate.scanner /\ locate'.dir = locate.dir
    BY <1>2, <1>6 DEF Go, LocateTypes, Steps
  <2>2. \A b \in Sources("foldDirection") : OfPass(content[b])
    BY <1>3, SourceNames DEF OutcomesOwn
  <2>3. /\ content' \in [Live -> SUBSET Stamps] /\ host' = FoldHost /\ UNCHANGED last
        /\ \A b \in Live \ Pools : content'[b] = content[b]
        /\ \A b \in Pools : Ours(content'[b])
        /\ Told'
    BY <1>1, <1>3, <1>6, <2>2, FoldDone
  <2>4. 1 + Claimed <= Claimed'
    BY <1>3, <1>4, <2>1, ClaimedNext DEF At
  <2>5. PlacesTrue'
    <3>1. OutcomesOwn'
      BY <1>3, <2>3 DEF OutcomesOwn, Live, Pools, DirectionOutcomes
    <3> QED
      BY <2>1, <3>1 DEF PlacesTrue, At, Merging
  <2>6. ~At({"binarize", "reset", "clear", "pass"})'
    BY <2>1 DEF At
  <2> QED
    BY <1>1, <2>1, <2>3, <2>4, <2>5, <2>6, FoldsOn
<1>7. CASE ~host.stale /\ FoldFails("foldDirection") /\ Retire("hostSweep")
  <2>1. /\ locate' \in LocateTypes /\ locate'.at = "hostSweep"
        /\ locate'.kind = locate.kind /\ locate'.plan = locate.plan
        /\ locate'.chained = locate.chained /\ locate'.closure = locate.closure
        /\ locate'.scanner = FALSE /\ locate'.dir = locate.dir
    BY <1>2, <1>7 DEF Retire, LocateTypes, Steps
  <2>2. /\ content' \in [Live -> SUBSET Stamps] /\ host' = FoldHost /\ UNCHANGED last
        /\ \A b \in Live \ Pools : content'[b] = content[b]
        /\ Told'
    BY <1>5, <1>7, FoldFailed
  <2>3. 1 + Claimed <= Claimed'
    BY <1>3, <1>4, <2>1, ClaimedNext DEF At
  <2>4. PlacesTrue'
    BY <2>1 DEF PlacesTrue, At, Sweeping, Merging
  <2>5. ~At({"binarize", "reset", "clear", "pass"})'
    BY <2>1 DEF At
  <2> QED
    BY <1>1, <2>1, <2>2, <2>3, <2>4, <2>5, FoldsOn
<1>8. CASE Silently /\ Go("hostSweep")
  <2>1. /\ locate' \in LocateTypes /\ locate'.at = "hostSweep"
        /\ locate'.kind = locate.kind /\ locate'.plan = locate.plan
        /\ locate'.chained = locate.chained /\ locate'.closure = locate.closure
        /\ locate'.scanner = locate.scanner /\ locate'.dir = locate.dir
    BY <1>2, <1>8 DEF Go, LocateTypes, Steps
  <2>2. Claimed <= Claimed'
    BY <1>3, <1>4, <2>1, ClaimedNext DEF At
  <2>3. PlacesTrue'
    <3>1. OutcomesOwn'
      BY <1>3, <1>8 DEF OutcomesOwn, Silently, Refuse
    <3> QED
      BY <2>1, <3>1 DEF PlacesTrue, At, Merging
  <2>4. ~At({"binarize", "reset", "clear"})' /\ ~At({"pass"})'
    BY <2>1 DEF At
  <2> QED
    BY <1>1, <1>8, <2>1, <2>2, <2>3, <2>4, SilentSound
<1> QED
  BY <1>6, <1>7, <1>8 DEF FoldDirection

\* What the host is shown of one buffer is what that holds.
LEMMA ShownOne ==
  ASSUME TypeOK, NEW op, NEW b \in Live, Drawn(LocateEffects[op].shown) = {b}
  PROVE  Shown(op) = content[b]
BY StampedBy DEF TypeOK, Shown, ShownBy

\* The rows are replayed from what the device has of this pass, or scans again.
LEMMA ReplayRowsSound ==
  ASSUME LInv, ReplayRows
  PROVE  LInv' /\ Told'
<1>1. Active /\ At({"hostRows"}) /\ UNCHANGED <<host, last>>
  BY DEF ReplayRows, Active, At
<1>2. locate \in LocateTypes /\ host \in HostTypes /\ content \in [Live -> SUBSET Stamps]
  BY <1>1, ActiveTypes DEF LInv, TypeOK
<1>3. PICK op \in IF locate.chained THEN {"summary", "records", "rescan"} ELSE {"recordsBare"} :
         /\ Submit(op) /\ answer' = Answer("rows", Current, Shown(op))
         /\ locate' = [locate EXCEPT !.at = "settle",
                                     !.seeds = @ \/ op \in {"records", "recordsBare"}]
  BY DEF ReplayRows
<1>4. /\ locate' \in LocateTypes /\ locate'.at = "settle"
      /\ locate'.kind = locate.kind /\ locate'.plan = locate.plan
      /\ locate'.chained = locate.chained /\ locate'.closure = locate.closure
      /\ locate'.scanner = locate.scanner
  BY <1>2, <1>3 DEF LocateTypes, Steps
<1>5. /\ OfPass(content["packedMasks"]) /\ OfPass(content["scanRecords"])
      /\ Ours(content["balanced"])
      /\ locate.chained => \A b \in Rows : OfPass(content[b])
  BY <1>1 DEF LInv, MasksTrue, RowsTrue, LevelTrue
<1>6. PlacesTrue'
  BY <1>4 DEF PlacesTrue, At, Sweeping, Merging
<1>7. host'.shares + Claimed <= host.shares + Claimed'
  <2>1. Claimed = 2 /\ Claimed' = 2
    BY <1>1, <1>4, ClaimedAt, ClaimedNext DEF At
  <2> QED
    BY <1>1, <1>2, <2>1 DEF HostTypes
<1>8. ~At({"reset", "clear"}) /\ ~At({"binarize", "reset", "clear", "pass"})'
  BY <1>1, <1>4 DEF At
<1>9. ASSUME op \in DOMAIN Tells, NEW from \in SUBSET Live, Tells[op] = from,
             \A b \in from : OfPass(content[b]), NEW o \in from
      PROVE  LInv' /\ Told'
  <2>1. Leaves(LocateEffects[op], Live) /\ Drawn(LocateEffects[op].shown) = from
    BY <1>9, Looking
  <2>2. content' \in [Live -> SUBSET Stamps] /\ \A b \in Live : content'[b] = content[b]
    BY <1>3, <2>1, Submitted, SubmitLeaves DEF LInv
  <2>3. LInv'
    BY <1>1, <1>2, <1>4, <1>6, <1>7, <1>8, <2>2, GoesOn, BufferNames DEF Others
  <2>4. OfPass(Shown(op))
    <3>1. \A b \in from : Ours(content[b])
      BY <1>9, OwnStamps
    <3>2. Drawn(LocateEffects[op].shown) \subseteq {"now"} \cup from
          /\ o \in Drawn(LocateEffects[op].shown) /\ o \in Live /\ Current \in content[o]
      BY <1>9, <2>1 DEF OfPass
    <3>3. OfPass(StampsOf(LocateEffects[op].shown, content, {Current}))
      BY <1>2, <3>1, <3>2, StampedOwn
    <3> QED
      BY <3>3 DEF Shown, ShownBy
  <2> QED
    BY <1>3, <2>3, <2>4, RowsTold
<1>10. CASE op = "summary"
  <2> DEFINE from == {"rowSummary", "rowCompacted"}
  <2>1. op \in DOMAIN Tells /\ from \in SUBSET Live /\ Tells[op] = from
        /\ "rowSummary" \in from
    BY <1>10, BufferNames DEF Tells, Rows
  <2>2. \A b \in from : OfPass(content[b])
    BY <1>3, <1>5, <1>10 DEF Rows
  <2> HIDE DEF from
  <2> QED
    BY <1>9, <2>1, <2>2
<1>11. CASE op = "records"
  <2> DEFINE from == {"scanRecords", "chainOutcomes"}
  <2>1. op \in DOMAIN Tells /\ from \in SUBSET Live /\ Tells[op] = from
        /\ "scanRecords" \in from
    BY <1>11, BufferNames DEF Tells, Rows, Records
  <2>2. \A b \in from : OfPass(content[b])
    BY <1>3, <1>5, <1>11 DEF Rows
  <2> HIDE DEF from
  <2> QED
    BY <1>9, <2>1, <2>2
<1>12. CASE op = "recordsBare"
  <2> DEFINE from == {"scanRecords"}
  <2>1. op \in DOMAIN Tells /\ from \in SUBSET Live /\ Tells[op] = from
        /\ "scanRecords" \in from
    BY <1>12, BufferNames DEF Tells, Records
  <2>2. \A b \in from : OfPass(content[b])
    BY <1>5
  <2> HIDE DEF from
  <2> QED
    BY <1>9, <2>1, <2>2
<1>13. CASE op = "rescan"
  <2> DEFINE effect == LocateEffects["rescan"]
             from   == {"balanced", "packedMasks"}
             bs     == Rows \cup {"scanRecords"}
  <2>1. /\ Drawn(effect.shown) = {"now", "balanced", "packedMasks"}
        /\ Scans(effect, bs, from)
        /\ Leaves(effect, Live \ (Rows \cup {"scanRecords", "seedHistogram"}))
    BY EffectsAssumption, DirectionTypes
  <2>2. from \in SUBSET Live /\ \A b \in from : Ours(content[b])
    BY <1>5, OwnStamps, BufferNames DEF Level, Records
  <2>3. /\ content' \in [Live -> SUBSET Stamps]
        /\ \A b \in Live : content'[b] = StampsOf(effect.origin[b], content, {Current})
    BY <1>3, <1>13, Submitted DEF LInv
  <2>4. \A b \in Live \ (Rows \cup {"scanRecords", "seedHistogram"}) : content'[b] = content[b]
    BY <1>3, <1>13, <2>1, SubmitLeaves DEF LInv
  <2>5. From(effect, {"seedHistogram"}, from \cup {"seedHistogram"}) /\ "seedHistogram" \in Live
    BY <2>1, BufferNames DEF Scans, Others
  <2>6. ASSUME Earlier \notin content["seedHistogram"]
        PROVE  Earlier \notin content'["seedHistogram"]
    BY <1>1, <2>3, <2>5, <2>6, SeedsAdd
  <2>7. \A b \in bs : OfPass(content'[b])
    <3> SUFFICES ASSUME NEW b \in bs PROVE OfPass(content'[b])
      OBVIOUS
    <3>1. b \in Live /\ Drawn(effect.origin[b]) \subseteq {"now"} \cup from
          /\ "now" \in Drawn(effect.origin[b])
      BY <2>1, BufferNames DEF Scans, From, Records, Drawn
    <3> HIDE DEF effect, from
    <3>2. OfPass(StampsOf(effect.origin[b], content, {Current}))
      BY <1>2, <2>2, <3>1, StampedOwn
    <3> QED
      BY <2>3, <3>1, <3>2
  <2>8. /\ \A b \in Level \cup {"packedMasks", "preservedMasks"} : content'[b] = content[b]
        /\ \A b \in Pools : content'[b] = content[b]
    BY <2>4 DEF Live, Level, Records, Rows, DirectionOutcomes, Pools, Others
  <2>9. Steady
    <3>1. Active' /\ ~At({"pass"})'
      BY <1>4 DEF Active, At
    <3> QED
      BY <1>1, <1>2, <1>4, <2>3, <2>7, <2>8, <3>1, SteadyStep
  <2>10. GatheredTrue'
    <3>1. ~At({"reset"}) /\ ~At({"clear"})'
      BY <1>8 DEF At
    <3> QED
      BY <1>1, <1>4, <2>6, <2>8, <2>9, <3>1, GatheredKeeps
  <2>11. SharesTrue'
    <3>1. ~At({"reset", "clear"}) /\ ~At({"reset", "clear"})'
      BY <1>8 DEF At
    <3> QED
      BY <1>1, <1>7, <2>9, <3>1, SharesKeep
  <2>12. OfPass(Shown(op))
    <3>1. Drawn(effect.shown) \subseteq {"now"} \cup from /\ "now" \in Drawn(effect.shown)
      BY <2>1
    <3> HIDE DEF effect, from
    <3>2. OfPass(StampsOf(effect.shown, content, {Current}))
      BY <1>2, <2>2, <3>1, StampedOwn
    <3> QED
      BY <1>13, <3>2 DEF Shown, ShownBy, effect
  <2> QED
    BY <1>3, <1>6, <2>9, <2>10, <2>11, <2>12, SteadyInv, RowsTold
<1> QED
  BY <1>3, <1>10, <1>11, <1>12, <1>13

-----------------------------------------------------------------------------
(* Steps after the directions. *)

Late == {"next", "merge", "mergeClear", "pitch", "finish", "held"}

\* A step after the directions that leaves the device's buffers, but for seeds.
LEMMA LateOn ==
  ASSUME LInv, Active, At(Late), locate' \in LocateTypes, locate'.at \in Late,
         host' \in HostTypes, content' \in [Live -> SUBSET Stamps], UNCHANGED last,
         locate'.kind = locate.kind, locate'.plan = locate.plan,
         locate'.chained = locate.chained, locate'.closure = locate.closure,
         locate'.scanner = locate.scanner,
         At(Merging)' => At(Merging) \/ locate.kind = "average",
         host'.masks = host.masks, host'.stale = host.stale, host'.shares = host.shares,
         \A b \in Live \ {"seedHistogram"} : content'[b] = content[b],
         Earlier \notin content["seedHistogram"] => Earlier \notin content'["seedHistogram"]
  PROVE  LInv'
<1>1. PlacesTrue'
  <2>1. At(Merging)' => locate'.kind = "average"
    BY DEF LInv, PlacesTrue
  <2> QED
    BY <2>1 DEF PlacesTrue, At, Sweeping, Late
<1>2. host'.shares + Claimed <= host.shares + Claimed'
  <2>1. Claimed = 2 + Directions /\ Claimed' = 2 + Directions
    BY ClaimedAt, ClaimedNext DEF At, Late
  <2> QED
    BY <2>1, DirectionTypes DEF HostTypes
<1>3. ~At({"reset", "clear"}) /\ ~At({"binarize", "reset", "clear", "pass"})'
  BY DEF At, Late
<1>4. \A b \in Level \cup Records \cup Rows \cup {"preservedMasks"} \cup Pools :
        content'[b] = content[b]
  BY DEF Live, Level, Records, Rows, DirectionOutcomes, Pools, Others
<1> QED
  BY <1>1, <1>2, <1>3, <1>4, GoesOn

\* The balanced level is downloaded.
LEMMA EnsureBitmapSound ==
  ASSUME LInv, EnsureBitmap
  PROVE  LInv' /\ Told'
<1>1. Active /\ At({"held"}) /\ At(Late) /\ UNCHANGED <<host, last>>
  BY DEF EnsureBitmap, Active, At, Late
<1>2. locate \in LocateTypes /\ host \in HostTypes
  BY <1>1, ActiveTypes DEF LInv, TypeOK
<1>3. /\ locate' \in LocateTypes /\ locate'.at \in Late
      /\ locate'.kind = locate.kind /\ locate'.plan = locate.plan
      /\ locate'.chained = locate.chained /\ locate'.closure = locate.closure
      /\ locate'.scanner = locate.scanner /\ ~At(Merging)'
  BY <1>1, <1>2 DEF EnsureBitmap, LocateTypes, At, Merging
<1>4. Submit("balanced") /\ answer' = Answer("balanced", Current, Shown("balanced"))
  BY DEF EnsureBitmap
<1>5. Leaves(LocateEffects["balanced"], Live)
      /\ Drawn(LocateEffects["balanced"].shown) = {"balanced"}
  BY Looking DEF Tells
<1>6. content' \in [Live -> SUBSET Stamps] /\ \A b \in Live : content'[b] = content[b]
  BY <1>4, <1>5, Submitted, SubmitLeaves DEF LInv
<1>7. LInv'
  BY <1>1, <1>2, <1>3, <1>6, LateOn, BufferNames DEF Others
<1>8. Shown("balanced") = content["balanced"]
  BY <1>5, ShownOne, BufferNames DEF LInv, Level
<1>9. content["balanced"] # {} /\ Ours(content["balanced"])
  BY <1>1 DEF LInv, LevelTrue
<1>10. Told'
  BY <1>4, <1>8, <1>9 DEF Told, Answer
<1> QED
  BY <1>7, <1>10

\* The candidates are taken from the pool or its mirror.
LEMMA CandidateUnionSound ==
  ASSUME LInv, CandidateUnion
  PROVE  LInv' /\ Told'
<1>1. Active /\ At({"held"}) /\ At(Late) /\ UNCHANGED <<locate, last>>
  BY DEF CandidateUnion, Active, At, Late
<1>2. locate \in LocateTypes /\ host \in HostTypes /\ content \in [Live -> SUBSET Stamps]
  BY <1>1, ActiveTypes DEF LInv, TypeOK
<1>3. /\ content' \in [Live -> SUBSET Stamps] /\ \A b \in Live : content'[b] = content[b]
      /\ host' \in HostTypes /\ host'.masks = host.masks /\ host'.stale = host.stale
      /\ host'.shares = host.shares /\ answer'.kind = "pool"
  <2>1. CASE Refuse /\ UNCHANGED host /\ answer' = Answer("pool", Current, host.mirror)
    BY <1>2, <2>1 DEF Refuse, Answer
  <2>2. CASE /\ Submit("readPool")
             /\ host' = [host EXCEPT !.mirrored = TRUE, !.mirror = Shown("readPool")]
             /\ answer' = Answer("pool", Current, Shown("readPool"))
    <3>1. Leaves(LocateEffects["readPool"], Live)
      BY Looking DEF Tells
    <3>2. content' \in [Live -> SUBSET Stamps] /\ \A b \in Live : content'[b] = content[b]
      BY <2>2, <3>1, Submitted, SubmitLeaves DEF LInv
    <3>3. Shown("readPool") \in SUBSET Stamps
      BY <1>2, StampTypes DEF Shown, ShownBy
    <3> QED
      BY <1>2, <2>2, <3>2, <3>3 DEF HostTypes, Answer
  <2> QED
    BY <2>1, <2>2 DEF CandidateUnion
<1>4. LInv'
  <2>1. locate' \in LocateTypes /\ locate'.at \in Late /\ ~At(Merging)'
    BY <1>1, <1>2 DEF At, Merging
  <2> QED
    BY <1>1, <1>3, <2>1, LateOn, BufferNames DEF Others
<1>5. Told'
  BY <1>3 DEF Told
<1> QED
  BY <1>4, <1>5

\* The device's seeds join the host's.
LEMMA ReadSeedsSound ==
  ASSUME LInv, ReadSeeds
  PROVE  LInv' /\ Told'
<1>1. Active /\ At({"merge"}) /\ At(Late) /\ At(Merging) /\ UNCHANGED <<host, last>>
  BY DEF ReadSeeds, Active, At, Late, Merging
<1>2. locate \in LocateTypes /\ host \in HostTypes
  BY <1>1, ActiveTypes DEF LInv, TypeOK
<1>3. /\ locate' \in LocateTypes /\ locate'.at \in Late
      /\ locate'.kind = locate.kind /\ locate'.plan = locate.plan
      /\ locate'.chained = locate.chained /\ locate'.closure = locate.closure
      /\ locate'.scanner = locate.scanner
  BY <1>2 DEF ReadSeeds, Go, LocateTypes, Steps, Late
<1>4. Leaves(LocateEffects["readSeeds"], Live)
      /\ Drawn(LocateEffects["readSeeds"].shown) = {"seedHistogram"}
  BY Looking DEF Tells
<1>5. content' \in [Live -> SUBSET Stamps] /\ \A b \in Live : content'[b] = content[b]
  BY <1>4, Submitted, SubmitLeaves, FailLeaves DEF LInv, ReadSeeds
<1>6. LInv'
  BY <1>1, <1>2, <1>3, <1>5, LateOn, BufferNames DEF Others
<1>7. Told'
  <2>1. CASE answer' = Answer("seeds", Current, Shown("readSeeds"))
    <3>1. Shown("readSeeds") = content["seedHistogram"]
      BY <1>4, ShownOne, BufferNames DEF LInv, Others
    <3>2. ~host.stale => Earlier \notin content["seedHistogram"]
      BY <1>1 DEF LInv, GatheredTrue, At
    <3> QED
      BY <1>1, <2>1, <3>1, <3>2 DEF Told, Answer
  <2>2. CASE answer' = NoAnswer
    BY <2>2, UntoldTold
  <2> QED
    BY <2>1, <2>2 DEF ReadSeeds
<1> QED
  BY <1>6, <1>7

\* The seeds cleared are gone.
LEMMA SeedsCleared ==
  ASSUME TypeOK, Submit("clearSeeds")
  PROVE  /\ content' \in [Live -> SUBSET Stamps]
         /\ \A b \in Live \ {"seedHistogram"} : content'[b] = content[b]
         /\ Earlier \notin content'["seedHistogram"]
<1> DEFINE effect == LocateEffects["clearSeeds"]
           S      == {Current}
<1>1. Drawn(effect.origin["seedHistogram"]) = {} /\ Leaves(effect, Live \ {"seedHistogram"})
  BY EffectsAssumption, DirectionTypes
<1>2. /\ content' \in [Live -> SUBSET Stamps]
      /\ content'["seedHistogram"] = StampsOf(effect.origin["seedHistogram"], content, {Current})
  BY Submitted, BufferNames DEF Others
<1>3. \A b \in Live \ {"seedHistogram"} : content'[b] = content[b]
  BY <1>1, SubmitLeaves
<1>4. content \in [Live -> SUBSET Stamps] /\ Current \in S
      /\ Drawn(effect.origin["seedHistogram"]) \subseteq {"now"} \cup {}
      /\ {} \in SUBSET Live /\ \A b \in {} : content[b] \subseteq S
  BY <1>1 DEF TypeOK
<1> HIDE DEF effect, S
<1>5. StampsOf(effect.origin["seedHistogram"], content, {Current}) \subseteq S
  BY <1>4, Stamped
<1> QED
  BY <1>2, <1>3, <1>5 DEF S, Earlier, Current

\* A clearing that breaks off leaves old seeds or torn ones.
LEMMA SeedsUncleared ==
  ASSUME TypeOK, Fail("clearSeeds")
  PROVE  /\ content' \in [Live -> SUBSET Stamps]
         /\ \A b \in Live \ {"seedHistogram"} : content'[b] = content[b]
         /\ Earlier \notin content["seedHistogram"] => Earlier \notin content'["seedHistogram"]
<1> DEFINE effect == LocateEffects["clearSeeds"]
           S      == {Current}
<1>1. Drawn(effect.origin["seedHistogram"]) = {} /\ Leaves(effect, Live \ {"seedHistogram"})
  BY EffectsAssumption, DirectionTypes
<1>2. /\ content' \in [Live -> SUBSET Stamps]
      /\ \A b \in Live \ {"seedHistogram"} : content'[b] = content[b]
  BY <1>1, FailLeaves
<1>3. content'["seedHistogram"] \subseteq content["seedHistogram"] \cup
        StampsOf(effect.origin["seedHistogram"], content, {Current}) \cup {Torn}
  BY FailAdds, BufferNames DEF Others
<1>4. content \in [Live -> SUBSET Stamps] /\ Current \in S
      /\ Drawn(effect.origin["seedHistogram"]) \subseteq {"now"} \cup {}
      /\ {} \in SUBSET Live /\ \A b \in {} : content[b] \subseteq S
  BY <1>1 DEF TypeOK
<1> HIDE DEF effect, S
<1>5. StampsOf(effect.origin["seedHistogram"], content, {Current}) \subseteq S
  BY <1>4, Stamped
<1> QED
  BY <1>2, <1>3, <1>5 DEF S, Earlier, Current, Torn

\* The device's seeds are cleared once they are read.
LEMMA ClearSeedsSound ==
  ASSUME LInv, ClearSeeds
  PROVE  LInv' /\ Told'
<1>1. Active /\ At({"mergeClear"}) /\ At(Late) /\ At(Merging) /\ UNCHANGED <<host, last>>
      /\ answer' = NoAnswer
  BY DEF ClearSeeds, Active, At, Late, Merging
<1>2. locate \in LocateTypes /\ host \in HostTypes
  BY <1>1, ActiveTypes DEF LInv, TypeOK
<1>3. /\ locate' \in LocateTypes /\ locate'.at \in Late
      /\ locate'.kind = locate.kind /\ locate'.plan = locate.plan
      /\ locate'.chained = locate.chained /\ locate'.closure = locate.closure
      /\ locate'.scanner = locate.scanner
  BY <1>2 DEF ClearSeeds, Go, LocateTypes, Steps, Late
<1>4. /\ content' \in [Live -> SUBSET Stamps]
      /\ \A b \in Live \ {"seedHistogram"} : content'[b] = content[b]
      /\ Earlier \notin content["seedHistogram"] => Earlier \notin content'["seedHistogram"]
  BY SeedsCleared, SeedsUncleared DEF LInv, ClearSeeds
<1> QED
  BY <1>1, <1>2, <1>3, <1>4, LateOn, UntoldTold

-----------------------------------------------------------------------------
(* Plans, pixels and the end of a lease. *)

\* A locate that ends takes nothing along.
LEMMA DropHolds ==
  ASSUME LInv, Drop, content' \in [Live -> SUBSET Stamps], LastTrue'
  PROVE  LInv'
<1>1. locate' = [at |-> "idle"] /\ UNCHANGED <<host, last>>
  BY DEF Drop
<1>2. TypeOK'
  BY <1>1 DEF LInv, TypeOK
<1>3. ~Active' /\ At({"idle"})'
  BY <1>1 DEF Active, At
<1>4. LevelTrue' /\ MasksTrue' /\ RowsTrue' /\ PlansTrue'
  BY <1>3 DEF LevelTrue, MasksTrue, RowsTrue, PlansTrue
<1>5. PlacesTrue' /\ GatheredTrue' /\ SharesTrue'
  BY <1>1, <1>3 DEF PlacesTrue, GatheredTrue, SharesTrue, At, Sweeping, Merging
<1> QED
  BY <1>2, <1>4, <1>5 DEF LInv

\* The detector of the lease before is not there any more once a pass began.
LEMMA ActiveDrops ==
  ASSUME LInv, Active, Drop, content' \in [Live -> SUBSET Stamps]
  PROVE  LInv'
<1>1. last' = last /\ last.closure # "lazy"
  BY DEF LInv, LastTrue, Drop
<1>2. LastTrue'
  BY <1>1 DEF LastTrue
<1> QED
  BY <1>2, DropHolds

\* The passes the host plans are none of the resident ones.
LEMMA HostPlans ==
  ASSUME NEW plan \in Seq({"filtered", "sharp"})
  PROVE  plan \notin ResidentPlans
<1>1. SUFFICES ASSUME plan \in ResidentPlans PROVE FALSE
  OBVIOUS
<1>2. plan[1] \in {"descreenFirst", "descreenSecond", "printFirst", "printSecond"}
      /\ Len(plan) >= 1
  BY <1>1 DEF ResidentPlans, Scheduled, DevicePlans
<1>3. plan[1] \in {"filtered", "sharp"}
  BY <1>2
<1> QED
  BY <1>2, <1>3

\* They are at most four.
LEMMA HostPlanTypes ==
  ASSUME NEW plan \in HostRetries
  PROVE  plan \in Seq({"filtered", "sharp"}) /\ Len(plan) <= 4 /\ plan \in Seq(Kinds)
<1> DEFINE S == {"filtered", "sharp"}
<1>1. PICK p \in {<<>>, <<"filtered">>, <<"filtered", "filtered">>},
           q \in {<<>>, <<"filtered", "sharp">>, <<"sharp", "filtered">>} : plan = p \o q
  BY DEF HostRetries
<1>2. p \in Seq(S) /\ Len(p) <= 2
  <2>1. CASE p = <<>>
    BY <2>1
  <2>2. CASE p = <<"filtered">>
    BY <2>2
  <2>3. CASE p = <<"filtered", "filtered">>
    BY <2>3
  <2> QED
    BY <1>1, <2>1, <2>2, <2>3
<1>3. q \in Seq(S) /\ Len(q) <= 2
  <2>1. CASE q = <<>>
    BY <2>1
  <2>2. CASE q = <<"filtered", "sharp">>
    BY <2>2
  <2>3. CASE q = <<"sharp", "filtered">>
    BY <2>3
  <2> QED
    BY <1>1, <2>1, <2>2, <2>3
<1>4. plan \in Seq(S) /\ Len(plan) = Len(p) + Len(q)
  <2> HIDE DEF S
  <2> QED
    BY <1>1, <1>2, <1>3
<1>5. Len(plan) <= 4
  <2> DEFINE m == Len(p)
             n == Len(q)
  <2>1. m \in Nat /\ n \in Nat /\ m <= 2 /\ n <= 2 /\ Len(plan) = m + n
    BY <1>2, <1>3, <1>4
  <2> HIDE DEF m, n
  <2> QED
    BY <2>1
<1>6. S \subseteq Kinds
  BY DEF Kinds
<1>7. plan \in Seq(Kinds)
  <2> HIDE DEF S
  <2> QED
    BY <1>4, <1>6
<1> QED
  BY <1>4, <1>5, <1>7

\* The device's plans begin with a pass that is not scheduled by its pitch.
LEMMA DevicePlanTypes ==
  ASSUME NEW plan \in DevicePlans
  PROVE  /\ plan \in ResidentPlans \ Scheduled /\ plan \in Seq(Kinds)
         /\ Len(plan) <= 4 /\ plan # <<>>
<1>1. plan[1] = "descreenFirst"
  BY DEF DevicePlans
<1>2. plan \notin Scheduled
  BY <1>1 DEF Scheduled
<1>3. CASE plan = <<"descreenFirst", "descreenSecond">>
  BY <1>2, <1>3 DEF Kinds, ResidentPlans
<1>4. CASE plan = <<"descreenFirst", "descreenSecond", "printFirst", "printSecond">>
  BY <1>2, <1>4 DEF Kinds, ResidentPlans
<1> QED
  BY <1>3, <1>4 DEF DevicePlans

\* A locate that plans anew after its directions.
LEMMA PlanOn ==
  ASSUME LInv, Active, At(Late), locate' \in LocateTypes,
         locate'.at \in {"pass", "finish"},
         host' = host, content' \in [Live -> SUBSET Stamps], UNCHANGED last,
         locate'.kind = locate.kind, locate'.chained = locate.chained,
         locate'.closure = locate.closure, locate'.scanner = locate.scanner,
         \A b \in Live : content'[b] = content[b],
         PlansTrue', Following' = Following
  PROVE  LInv'
<1>1. Active'
  BY DEF Active, At
<1>2. MasksTrue'
  BY BufferNames DEF LInv, MasksTrue, Records, Others
<1>3. Steady
  BY <1>1, <1>2, BufferNames DEF LInv, TypeOK, Steady, Records
<1>4. PlacesTrue'
  BY DEF PlacesTrue, At, Sweeping, Merging
<1>5. ~At({"reset"}) /\ ~At({"clear"})' /\ ~At({"reset", "clear"}) /\ ~At({"reset", "clear"})'
  BY DEF At, Late
<1>6. GatheredTrue'
  BY <1>3, <1>5, GatheredKeeps, BufferNames DEF Others
<1>7. SharesTrue'
  <2>1. Claimed = 2 + Directions /\ Claimed' = 2 + Directions
    BY ClaimedAt, ClaimedNext DEF At, Late
  <2>2. host'.shares + Claimed <= host.shares + Claimed'
    BY <2>1, DirectionTypes DEF LInv, TypeOK, HostTypes
  <2> QED
    BY <1>3, <1>5, <2>2, SharesKeep
<1> QED
  BY <1>3, <1>4, <1>6, <1>7, SteadyInv

\* The next passes are planned, or the locate goes on to plan them.
LEMMA PlanPassesSound ==
  ASSUME LInv, PlanPasses
  PROVE  LInv' /\ Told'
<1>1. Active /\ At({"next"}) /\ At(Late) /\ Silently
  BY DEF PlanPasses, Active, At, Late
<1>2. locate \in LocateTypes /\ host \in HostTypes /\ content \in [Live -> SUBSET Stamps]
  BY <1>1, ActiveTypes DEF LInv, TypeOK
<1>3. UNCHANGED <<content, host, last>> /\ answer' = NoAnswer
  BY <1>1 DEF Silently, Refuse
<1>4. content' \in [Live -> SUBSET Stamps] /\ \A b \in Live : content'[b] = content[b]
  BY <1>2, <1>3
<1>5. Told'
  BY <1>3, UntoldTold
<1>6. ASSUME NEW plan \in Seq(Kinds), Len(plan) <= 4, plan # <<>>, plan \notin Scheduled,
             locate' = [locate EXCEPT !.at = "pass", !.plan = plan],
             locate.kind = "raw" => plan = <<"average">>,
             locate.kind # "raw" => plan \in ResidentPlans,
             ~locate.chained => locate.kind = "raw",
             locate.kind \in {"raw", "average"}
      PROVE  LInv'
  <2>1. /\ locate' \in LocateTypes /\ locate'.at = "pass" /\ locate'.plan = plan
        /\ locate'.kind = locate.kind /\ locate'.chained = locate.chained
        /\ locate'.closure = locate.closure /\ locate'.scanner = locate.scanner
    BY <1>2, <1>6 DEF LocateTypes, Steps
  <2>2. Following' = Following
    BY <1>6, <2>1 DEF Following
  <2>3. PlansTrue'
    <3>1. plan \in {<<>>, <<"average">>} => plan \notin ResidentPlans
      <4>1. CASE plan = <<>>
        BY <1>6, <4>1
      <4>2. CASE plan = <<"average">>
        <5>1. plan[1] = "average"
          BY <4>2
        <5> QED
          BY <5>1 DEF ResidentPlans, Scheduled, DevicePlans
      <4> QED
        BY <4>1, <4>2
    <3>2. locate.kind = "raw" => plan \notin ResidentPlans
      BY <1>6, <3>1
    <3> QED
      BY <1>6, <2>1, <3>2 DEF PlansTrue, At, Plain
  <2> QED
    BY <1>1, <1>2, <1>3, <1>4, <2>1, <2>2, <2>3, PlanOn
<1>7. CASE /\ locate.kind = "raw"
           /\ locate' = [locate EXCEPT !.at = "pass", !.plan = <<"average">>]
  <2> DEFINE plan == <<"average">>
  <2>1. plan \in Seq(Kinds) /\ Len(plan) <= 4 /\ plan # <<>> /\ plan[1] = "average"
    BY DEF Kinds
  <2>2. plan \notin Scheduled
    BY <2>1 DEF Scheduled
  <2> QED
    BY <1>5, <1>6, <1>7, <2>1, <2>2
<1>8. CASE /\ locate.kind = "average" /\ locate.chained
           /\ \E plan \in DevicePlans : locate' = [locate EXCEPT !.at = "pass", !.plan = plan]
  <2>1. PICK plan \in DevicePlans : locate' = [locate EXCEPT !.at = "pass", !.plan = plan]
    BY <1>8
  <2>2. /\ plan \in ResidentPlans \ Scheduled /\ plan \in Seq(Kinds)
        /\ Len(plan) <= 4 /\ plan # <<>>
    BY DevicePlanTypes
  <2> QED
    BY <1>5, <1>6, <1>8, <2>1, <2>2
<1>9. CASE locate.kind = "average" /\ Go("merge")
  <2>1. /\ locate' \in LocateTypes /\ locate'.at \in Late
        /\ locate'.kind = locate.kind /\ locate'.plan = locate.plan
        /\ locate'.chained = locate.chained /\ locate'.closure = locate.closure
        /\ locate'.scanner = locate.scanner
    BY <1>2, <1>9 DEF Go, LocateTypes, Steps, Late
  <2> QED
    BY <1>1, <1>2, <1>3, <1>4, <1>5, <1>9, <2>1, LateOn, BufferNames DEF Others
<1>10. CASE /\ locate.kind \notin {"raw", "average"} /\ locate.plan # <<>> /\ Go("pass")
  <2>1. /\ locate' \in LocateTypes /\ locate'.at = "pass" /\ locate'.plan = locate.plan
        /\ locate'.kind = locate.kind /\ locate'.chained = locate.chained
        /\ locate'.closure = locate.closure /\ locate'.scanner = locate.scanner
    BY <1>2, <1>10 DEF Go, LocateTypes, Steps
  <2>2. Following' = Following
    BY <2>1 DEF Following
  <2>3. Active'
    BY <2>1 DEF Active, At
  <2>4. PlansTrue'
    BY <1>1, <1>3, <1>10, <2>1, <2>3 DEF LInv, PlansTrue
  <2> QED
    BY <1>1, <1>2, <1>3, <1>4, <1>5, <2>1, <2>2, <2>4, PlanOn
<1>11. CASE Go("finish")
  <2>1. /\ locate' \in LocateTypes /\ locate'.at \in Late
        /\ locate'.kind = locate.kind /\ locate'.plan = locate.plan
        /\ locate'.chained = locate.chained /\ locate'.closure = locate.closure
        /\ locate'.scanner = locate.scanner /\ ~At(Merging)'
    BY <1>2, <1>11 DEF Go, LocateTypes, Steps, Late, At, Merging
  <2> QED
    BY <1>1, <1>2, <1>3, <1>4, <1>5, <2>1, LateOn, BufferNames DEF Others
<1> QED
  BY <1>7, <1>8, <1>9, <1>10, <1>11 DEF PlanPasses

\* The host's plan follows the seeds.
LEMMA PitchSound ==
  ASSUME LInv, Pitch
  PROVE  LInv' /\ Told'
<1>1. Active /\ At({"pitch"}) /\ At(Late) /\ At(Merging) /\ answer' = NoAnswer
  BY DEF Pitch, Active, At, Late, Merging
<1>2. locate \in LocateTypes /\ host \in HostTypes /\ content \in [Live -> SUBSET Stamps]
  BY <1>1, ActiveTypes DEF LInv, TypeOK
<1>3. Told'
  BY <1>1, UntoldTold
<1>4. locate.kind = "average"
  BY <1>1 DEF LInv, PlacesTrue
<1>5. Leaves(LocateEffects["pitch"], Live)
  BY Looking DEF Tells
<1>6. CASE /\ Submit("pitch") /\ UNCHANGED <<host, last>>
           /\ \E plan \in HostRetries :
                locate' = [locate EXCEPT !.at = IF plan = <<>> THEN "finish" ELSE "pass",
                                         !.plan = plan]
  <2>1. PICK plan \in HostRetries :
          locate' = [locate EXCEPT !.at = IF plan = <<>> THEN "finish" ELSE "pass",
                                   !.plan = plan]
    BY <1>6
  <2>2. /\ plan \in Seq({"filtered", "sharp"}) /\ Len(plan) <= 4 /\ plan \in Seq(Kinds)
        /\ plan \notin ResidentPlans
    BY HostPlanTypes, HostPlans
  <2>3. /\ locate' \in LocateTypes /\ locate'.at \in {"pass", "finish"}
        /\ locate'.plan = plan /\ (locate'.at = "pass" => plan # <<>>)
        /\ locate'.kind = locate.kind /\ locate'.chained = locate.chained
        /\ locate'.closure = locate.closure /\ locate'.scanner = locate.scanner
    BY <1>2, <2>1, <2>2 DEF LocateTypes, Steps
  <2>4. content' \in [Live -> SUBSET Stamps] /\ \A b \in Live : content'[b] = content[b]
    BY <1>5, <1>6, Submitted, SubmitLeaves DEF LInv
  <2>5. Following' = Following
    BY <1>4, <2>3 DEF Following
  <2>6. PlansTrue'
    BY <1>4, <2>2, <2>3 DEF PlansTrue, At, Plain, ResidentPlans
  <2> QED
    BY <1>1, <1>2, <1>3, <1>6, <2>3, <2>4, <2>5, <2>6, PlanOn
<1>7. CASE Fail("pitch") /\ Drop
  <2>1. content' \in [Live -> SUBSET Stamps]
    BY <1>5, <1>7, FailLeaves DEF LInv
  <2> QED
    BY <1>1, <1>3, <1>7, <2>1, ActiveDrops
<1>8. CASE Refuse /\ Go("finish") /\ UNCHANGED <<host, last>>
  <2>1. /\ locate' \in LocateTypes /\ locate'.at \in Late
        /\ locate'.kind = locate.kind /\ locate'.plan = locate.plan
        /\ locate'.chained = locate.chained /\ locate'.closure = locate.closure
        /\ locate'.scanner = locate.scanner /\ ~At(Merging)'
    BY <1>2, <1>8 DEF Go, LocateTypes, Steps, Late, At, Merging
  <2>2. content' \in [Live -> SUBSET Stamps] /\ \A b \in Live : content'[b] = content[b]
    BY <1>2, <1>8 DEF Refuse
  <2> QED
    BY <1>1, <1>2, <1>3, <1>8, <2>1, <2>2, LateOn, BufferNames DEF Others
<1> QED
  BY <1>6, <1>7, <1>8 DEF Pitch

\* A step that leaves the locate where it is, but for what holds its pixels.
LEMMA StaysOn ==
  ASSUME LInv, Active, ~At({"reset", "clear", "pass"}),
         locate' \in LocateTypes, host' \in HostTypes,
         content' \in [Live -> SUBSET Stamps], UNCHANGED last, locate'.at = locate.at,
         locate'.kind = locate.kind, locate'.plan = locate.plan, locate'.dir = locate.dir,
         locate'.chained = locate.chained, locate'.scanner = locate.scanner,
         locate'.batch = locate.batch,
         host'.stale = host.stale, host'.shares = host.shares,
         \A b \in Live \ {"preservedMasks"} : content'[b] = content[b], MasksTrue'
  PROVE  LInv'
<1>1. /\ \A b \in Level \cup Rows \cup Pools \cup DirectionOutcomes
                  \cup {"scanRecords", "seedHistogram"} : content'[b] = content[b]
  BY DEF Live, Level, Records, Rows, DirectionOutcomes, Pools, Others
<1>2. Active' /\ Following' = Following
  BY DEF Active, At, Following
<1>3. PlansTrue'
  BY <1>1 DEF LInv, PlansTrue, At, Active, Level
<1>4. Steady
  BY <1>1, <1>2, <1>3 DEF Steady
<1>5. ~At({"reset"}) /\ ~At({"clear"})' /\ ~At({"reset", "clear"}) /\ ~At({"reset", "clear"})'
  BY DEF At
<1>6. PlacesTrue'
  BY <1>1 DEF LInv, PlacesTrue, At, OutcomesOwn
<1>7. GatheredTrue'
  BY <1>1, <1>4, <1>5, GatheredKeeps
<1>8. SharesTrue'
  <2>1. Claimed' = Claimed
    BY DEF Claimed, At
  <2>2. Claimed \in Nat
    BY <1>5, ClaimedType DEF LInv
  <2>3. host'.shares + Claimed <= host.shares + Claimed'
    BY <2>1, <2>2 DEF LInv, TypeOK, HostTypes
  <2> QED
    BY <1>4, <1>5, <2>3, SharesKeep
<1> QED
  BY <1>4, <1>6, <1>7, <1>8, SteadyInv

\* The snapshot takes the masks as they are.
LEMMA PreservedNow ==
  ASSUME TypeOK, Submit("preserve")
  PROVE  content'["preservedMasks"] = content["packedMasks"]
<1> DEFINE origins == LocateEffects["preserve"].origin["preservedMasks"]
<1>1. Drawn(origins) = {"packedMasks"}
  BY EffectsAssumption, DirectionTypes
<1>2. "packedMasks" \in Live /\ "preservedMasks" \in Live
  BY BufferNames DEF Records, Others
<1>3. content'["preservedMasks"] = StampsOf(origins, content, {Current})
  BY <1>2, Submitted
<1>4. content \in [Live -> SUBSET Stamps]
  BY DEF TypeOK
<1> HIDE DEF origins
<1> QED
  BY <1>1, <1>2, <1>3, <1>4, StampedBy

\* The search is over and its detector held: no pass follows any more.
LEMMA HeldOn ==
  ASSUME LInv, At({"finish"}), NEW closure \in {"none", "lazy", "preserved"}, KeepOn(closure),
         UNCHANGED <<host, last>>, content' \in [Live -> SUBSET Stamps],
         \A b \in Live \ {"preservedMasks"} : content'[b] = content[b],
         closure = "preserved" =>
           locate.closure = "preserved" \/ OfPass(content'["preservedMasks"]),
         locate.closure = "preserved" =>
           content'["preservedMasks"] = content["preservedMasks"]
  PROVE  LInv'
<1>1. Active
  BY DEF Active, At
<1>2. locate \in LocateTypes /\ host \in HostTypes
  BY <1>1, ActiveTypes DEF LInv, TypeOK
<1>3. <<>> \in Seq(Kinds) /\ Len(<<>>) = 0 /\ <<>> \in Seq({"filtered", "sharp"})
  OBVIOUS
<1>4. <<>> \notin ResidentPlans /\ <<>> \notin Scheduled
  BY DEF ResidentPlans, Scheduled, DevicePlans
<1>5. /\ locate' \in LocateTypes /\ locate'.at = "held" /\ locate'.plan = <<>>
      /\ locate'.kind = locate.kind /\ locate'.chained = locate.chained
      /\ locate'.scanner = locate.scanner /\ locate'.closure = closure
  <2> DEFINE none == <<>>
  <2>1. none \in Seq(Kinds)
    BY <1>3
  <2>2. locate' = [locate EXCEPT !.at = "held", !.closure = closure, !.plan = none,
                                 !.seeds = FALSE]
    BY DEF KeepOn
  <2> HIDE DEF none
  <2>3. /\ locate' \in LocateTypes /\ locate'.at = "held" /\ locate'.plan = none
        /\ locate'.kind = locate.kind /\ locate'.chained = locate.chained
        /\ locate'.scanner = locate.scanner /\ locate'.closure = closure
    BY <1>2, <2>1, <2>2 DEF LocateTypes, Steps
  <2> QED
    BY <2>3 DEF none
<1>6. \A b \in Level \cup Records \cup Rows \cup Pools \cup {"seedHistogram"} :
        content'[b] = content[b]
  BY DEF Live, Level, Records, Rows, DirectionOutcomes, Pools, Others
<1>7. Active' /\ ~At({"idle", "binarize", "pass", "reset", "clear"})'
  BY <1>5 DEF Active, At
<1>8. TypeOK'
  BY <1>2, <1>5 DEF LInv, TypeOK
<1>9. LevelTrue' /\ RowsTrue'
  BY <1>1, <1>5, <1>6 DEF LInv, LevelTrue, RowsTrue, Level, Records, Active, At
<1>10. MasksTrue'
  BY <1>1, <1>5, <1>6 DEF LInv, MasksTrue, Records
<1>11. PlacesTrue'
  BY <1>5 DEF PlacesTrue, At, Sweeping, Merging
<1>12. GatheredTrue'
  BY <1>1, <1>5, <1>6 DEF LInv, GatheredTrue, At
<1>13. PlansTrue'
  <2> DEFINE plan == locate'.plan
  <2>1. /\ plan = <<>> /\ plan \in Seq({"filtered", "sharp"}) /\ Len(plan) <= 4
        /\ plan \notin ResidentPlans /\ plan \notin Scheduled
    BY <1>3, <1>4, <1>5
  <2>2. ~locate.chained => locate.kind \in Plain
    BY <1>1 DEF LInv, PlansTrue
  <2> QED
    BY <1>5, <1>7, <2>1, <2>2 DEF PlansTrue, At
<1>14. SharesTrue'
  <2>1. ~host.stale =>
          host.shares + Following * (Directions + 2) <= 5 * (Directions + 2) + Claimed
    BY <1>1 DEF LInv, SharesTrue, At
  <2>2. Claimed = 2 + Directions /\ Claimed' = 2 + Directions
    BY <1>5, ClaimedAt, ClaimedNext DEF At
  <2>3. Following \in Nat /\ Following' \in Nat /\ Following' <= Following
    <3>1. Following \in 0 .. 5
      BY <1>1, FollowingType DEF LInv
    <3>2. CASE locate.kind \in {"raw", "average"}
      <4>1. Following' = Following
        BY <1>5, <3>2 DEF Following
      <4> QED
        BY <3>1, <4>1
    <3>3. CASE locate.kind \notin {"raw", "average"}
      <4>1. Following' = 0
        BY <1>3, <1>5, <3>3 DEF Following
      <4> QED
        BY <3>1, <4>1
    <3> QED
      BY <3>2, <3>3
  <2> DEFINE w == Directions + 2
             f == Following
             g == Following'
             s == host.shares
  <2>4. w \in Nat /\ f \in Nat /\ g \in Nat /\ g <= f /\ s \in Nat
    BY <1>2, <2>3, DirectionTypes DEF HostTypes
  <2>5. ~host.stale => s + f * w <= 5 * w + Claimed
    BY <2>1
  <2>6. Claimed \in Nat
    BY <2>2, DirectionTypes
  <2> HIDE DEF w, f, g, s
  <2>7. g * w <= f * w /\ g * w \in Nat /\ f * w \in Nat /\ 5 * w \in Nat
    BY <2>4
  <2>8. ~host.stale => s + g * w <= 5 * w + Claimed
    <3> DEFINE a == g * w
               b == f * w
               c == 5 * w
    <3>1. a <= b /\ a \in Nat /\ b \in Nat /\ c \in Nat
      BY <2>7
    <3>2. ~host.stale => s + b <= c + Claimed
      BY <2>5
    <3> HIDE DEF a, b, c
    <3>3. ~host.stale => s + a <= c + Claimed
      BY <2>4, <2>6, <3>1, <3>2
    <3> QED
      BY <3>3 DEF a, c
  <2>9. ~host'.stale =>
          host'.shares + Following' * (Directions + 2) <= 5 * (Directions + 2) + Claimed'
    <3>1. Claimed' = Claimed
      BY <2>2
    <3> QED
      BY <2>8, <3>1 DEF w, g, s
  <2> QED
    BY <1>7, <2>9 DEF SharesTrue, At
<1>15. LastTrue'
  BY <1>1 DEF LInv, LastTrue
<1> QED
  BY <1>8, <1>9, <1>10, <1>11, <1>12, <1>13, <1>14, <1>15 DEF LInv

\* A located detector keeps its masks.
LEMMA FinishSound ==
  ASSUME LInv, Finish
  PROVE  LInv' /\ Told'
<1>1. Active /\ At({"finish"}) /\ answer' = NoAnswer
  BY DEF Finish, Active, At
<1>2. locate \in LocateTypes /\ host \in HostTypes /\ content \in [Live -> SUBSET Stamps]
  BY <1>1, ActiveTypes DEF LInv, TypeOK
<1>3. Told'
  BY <1>1, UntoldTold
<1>4. /\ Drawn(LocateEffects["preserve"].origin["preservedMasks"]) = {"packedMasks"}
      /\ Leaves(LocateEffects["preserve"], Live \ {"preservedMasks"})
  BY EffectsAssumption, DirectionTypes
<1>5. CASE Refuse /\ Drop
  BY <1>1, <1>2, <1>3, <1>5, ActiveDrops DEF Refuse
<1>6. CASE Fail("preserve") /\ Drop
  <2>1. content' \in [Live -> SUBSET Stamps]
    BY <1>4, <1>6, FailLeaves DEF LInv
  <2> QED
    BY <1>1, <1>3, <1>6, <2>1, ActiveDrops
<1>7. CASE /\ locate.closure = "lazy" /\ Submit("preserve") /\ KeepOn("preserved")
           /\ UNCHANGED <<host, last>>
  <2>1. /\ content' \in [Live -> SUBSET Stamps]
        /\ \A b \in Live \ {"preservedMasks"} : content'[b] = content[b]
    BY <1>4, <1>7, Submitted, SubmitLeaves DEF LInv
  <2>2. content'["preservedMasks"] = content["packedMasks"]
    BY <1>4, <1>7, PreservedNow DEF LInv
  <2>3. OfPass(content'["preservedMasks"])
    BY <1>1, <2>2 DEF LInv, MasksTrue
  <2> QED
    BY <1>1, <1>3, <1>7, <2>1, <2>3, HeldOn
<1>8. CASE Refuse /\ KeepOn(locate.closure) /\ UNCHANGED <<host, last>>
  <2>1. locate.closure \in {"none", "lazy", "preserved"}
    BY <1>2 DEF LocateTypes
  <2>2. content' = content
    BY <1>8 DEF Refuse
  <2> QED
    BY <1>1, <1>2, <1>3, <1>8, <2>1, <2>2, HeldOn
<1> QED
  BY <1>5, <1>6, <1>7, <1>8 DEF Finish

\* The masks are handed out while they are the pass's.
LEMMA EnsureChannelsSound ==
  ASSUME LInv, EnsureChannels
  PROVE  LInv' /\ Told'
<1>1. Active /\ ~At({"reset", "clear", "pass"}) /\ UNCHANGED last
  BY DEF EnsureChannels, Active, At
<1>2. locate \in LocateTypes /\ host \in HostTypes /\ content \in [Live -> SUBSET Stamps]
  BY <1>1, ActiveTypes DEF LInv, TypeOK
<1>3. /\ OfPass(content["packedMasks"]) /\ (host.masks = {} \/ OfPass(host.masks))
      /\ locate.closure = "preserved" => OfPass(content["preservedMasks"])
  BY <1>1 DEF LInv, MasksTrue
<1>4. \E pixels \in BOOLEAN : TakeClosure(pixels)
  BY DEF EnsureChannels
<1>5. /\ locate' \in LocateTypes /\ locate'.at = locate.at /\ locate'.batch = locate.batch
      /\ locate'.kind = locate.kind /\ locate'.plan = locate.plan /\ locate'.dir = locate.dir
      /\ locate'.chained = locate.chained /\ locate'.scanner = locate.scanner
      /\ locate'.closure = "none"
  BY <1>2, <1>4 DEF TakeClosure, LocateTypes
<1>6. ASSUME content' \in [Live -> SUBSET Stamps], \A b \in Live : content'[b] = content[b],
             host' \in HostTypes, host'.stale = host.stale, host'.shares = host.shares,
             host'.masks = {} \/ OfPass(host'.masks)
      PROVE  LInv'
  <2>1. MasksTrue'
    BY <1>3, <1>5, <1>6, BufferNames DEF MasksTrue, Records
  <2> QED
    BY <1>1, <1>2, <1>5, <1>6, <2>1, StaysOn
<1>7. CASE Deliver(Current)
  <2>1. Leaves(LocateEffects["masks"], Live)
        /\ Drawn(LocateEffects["masks"].shown) = {"packedMasks"}
    BY Looking DEF Tells
  <2>2. content' \in [Live -> SUBSET Stamps] /\ \A b \in Live : content'[b] = content[b]
    BY <1>2, <1>7, <2>1, Submitted, SubmitLeaves DEF LInv, Deliver, Refuse
  <2>3. OfPass(MasksNow) /\ MasksNow \in SUBSET Stamps
    <3>1. Shown("masks") = content["packedMasks"]
      BY <2>1, ShownOne, BufferNames DEF LInv, Records
    <3>2. content["packedMasks"] \in SUBSET Stamps /\ host.masks \in SUBSET Stamps
      BY <1>2, BufferNames DEF Records, HostTypes
    <3> QED
      BY <1>3, <3>1, <3>2 DEF MasksNow
  <2>4. host' = [host EXCEPT !.masks = MasksNow]
        /\ answer' = Answer("masks", Current, MasksNow)
    BY <1>7 DEF Deliver
  <2>5. LInv'
    <3>1. host' \in HostTypes /\ host'.stale = host.stale /\ host'.shares = host.shares
          /\ host'.masks = MasksNow
      BY <1>2, <2>3, <2>4 DEF HostTypes
    <3> QED
      BY <1>6, <2>2, <2>3, <3>1
  <2>6. Told'
    BY <2>3, <2>4 DEF Told, Answer
  <2> QED
    BY <2>5, <2>6
<1>8. CASE /\ locate.closure = "preserved" /\ Submit("preserved")
           /\ answer' = Answer("masks", Current, Shown("preserved")) /\ UNCHANGED host
  <2>1. Leaves(LocateEffects["preserved"], Live)
        /\ Drawn(LocateEffects["preserved"].shown) = {"preservedMasks"}
    BY Looking DEF Tells
  <2>2. content' \in [Live -> SUBSET Stamps] /\ \A b \in Live : content'[b] = content[b]
    BY <1>8, <2>1, Submitted, SubmitLeaves DEF LInv
  <2>3. LInv'
    BY <1>2, <1>3, <1>6, <1>8, <2>2
  <2>4. OfPass(Shown("preserved"))
    BY <1>3, <1>8, <2>1, ShownOne, BufferNames DEF LInv, Others
  <2>5. Told'
    BY <1>8, <2>4 DEF Told, Answer
  <2> QED
    BY <2>3, <2>5
<1>9. CASE Refuse /\ answer' = NoAnswer /\ UNCHANGED host
  <2>1. content' \in [Live -> SUBSET Stamps] /\ \A b \in Live : content'[b] = content[b]
    BY <1>2, <1>9 DEF Refuse
  <2> QED
    BY <1>2, <1>3, <1>6, <1>9, <2>1, UntoldTold
<1> QED
  BY <1>7, <1>8, <1>9 DEF EnsureChannels

\* The detector of the lease before is handed its masks or others that tell.
LEMMA LateChannelsSound ==
  ASSUME LInv, LateChannels
  PROVE  LInv' /\ Told'
<1>1. /\ last.closure = "lazy" /\ last' = NoDetector /\ UNCHANGED locate
      /\ Deliver(IF last.fresh THEN Current ELSE Earlier)
  BY DEF LateChannels, LInv, TypeOK
<1>2. ~Active /\ ~Active'
  BY <1>1 DEF LInv, LastTrue, Active, At
<1>3. content \in [Live -> SUBSET Stamps] /\ host \in HostTypes
  BY DEF LInv, TypeOK
<1>4. Leaves(LocateEffects["masks"], Live)
      /\ Drawn(LocateEffects["masks"].shown) = {"packedMasks"}
  BY Looking DEF Tells
<1>5. content' \in [Live -> SUBSET Stamps] /\ \A b \in Live : content'[b] = content[b]
  BY <1>1, <1>3, <1>4, Submitted, SubmitLeaves DEF LInv, Deliver, Refuse
<1>6. Shown("masks") = content["packedMasks"] /\ content["packedMasks"] \in SUBSET Stamps
  BY <1>3, <1>4, ShownOne, BufferNames DEF LInv, Records
<1>7. /\ host' = [host EXCEPT !.masks = MasksNow] /\ MasksNow \in SUBSET Stamps
      /\ answer' = Answer("masks", IF last.fresh THEN Current ELSE Earlier, MasksNow)
  BY <1>1, <1>3, <1>6 DEF Deliver, MasksNow, HostTypes
<1>8. LInv'
  <2>1. TypeOK'
    BY <1>1, <1>3, <1>5, <1>7 DEF LInv, TypeOK, HostTypes, NoDetector
  <2>2. LevelTrue'
    BY <1>1, <1>2, <1>5, BufferNames DEF LInv, LevelTrue, At, Level
  <2>3. MasksTrue' /\ RowsTrue' /\ PlansTrue' /\ LastTrue'
    BY <1>1, <1>2 DEF MasksTrue, RowsTrue, PlansTrue, LastTrue, NoDetector
  <2>4. PlacesTrue' /\ GatheredTrue' /\ SharesTrue'
    BY <1>1, <1>2 DEF LInv, PlacesTrue, GatheredTrue, SharesTrue, At, Sweeping, Merging, Active
  <2> QED
    BY <2>1, <2>2, <2>3, <2>4 DEF LInv
<1>9. Told'
  <2>1. CASE last.fresh
    <3>1. OfPass(MasksNow)
      BY <1>1, <1>6, <2>1 DEF LInv, LastTrue, MasksNow
    <3> QED
      BY <1>7, <2>1, <3>1 DEF Told, Answer
  <2>2. CASE ~last.fresh
    <3>1. MasksNow = {Earlier} \/ Torn \in MasksNow
      BY <1>1, <1>6, <2>2 DEF LInv, LastTrue, MasksNow
    <3> QED
      BY <1>7, <2>2, <3>1 DEF Told, Answer
  <2> QED
    BY <2>1, <2>2
<1> QED
  BY <1>8, <1>9

\* The lease ends; its detector may still be asked for its pixels.
LEMMA ReleaseSound ==
  ASSUME LInv, Release
  PROVE  LInv' /\ Told'
<1>1. /\ Active /\ locate' = [at |-> "idle"] /\ UNCHANGED <<content, host>>
      /\ answer' = NoAnswer
      /\ last' = IF locate.closure = "none" THEN NoDetector
                 ELSE [closure |-> locate.closure, fresh |-> TRUE]
  BY DEF Release, Refuse, Active, At
<1>2. ~Active' /\ At({"idle"})'
  BY <1>1 DEF Active, At
<1>3. TypeOK'
  BY <1>1, ActiveTypes DEF LInv, TypeOK, NoDetector, LocateTypes
<1>4. LevelTrue' /\ MasksTrue' /\ RowsTrue' /\ PlansTrue'
  BY <1>2 DEF LevelTrue, MasksTrue, RowsTrue, PlansTrue
<1>5. PlacesTrue' /\ GatheredTrue' /\ SharesTrue'
  BY <1>1, <1>2 DEF PlacesTrue, GatheredTrue, SharesTrue, At, Sweeping, Merging
<1>6. LastTrue'
  BY <1>1, <1>2 DEF LInv, MasksTrue, LastTrue, NoDetector
<1> QED
  BY <1>1, <1>3, <1>4, <1>5, <1>6, UntoldTold DEF LInv

\* The next lease takes the context as it is: what is in it is of an earlier one.
LEMMA AcquireSound ==
  ASSUME LInv, Acquire
  PROVE  LInv' /\ Told'
<1>1. content' = [[b \in Live |-> {Earlier}] EXCEPT !.maxSurvivors = {Word}]
  BY DEF Acquire, LInv, TypeOK
<1>2. content' \in [Live -> SUBSET Stamps] /\ content'["maxSurvivors"] = {Word}
      /\ content'["packedMasks"] = {Earlier}
  <2>1. "maxSurvivors" \in Live /\ "packedMasks" \in Live
    BY BufferNames DEF Level, Records
  <2>2. {Earlier} \in SUBSET Stamps /\ {Word} \in SUBSET Stamps
    BY DEF Stamps
  <2> QED
    BY <1>1, <2>1, <2>2
<1>3. PICK chained \in BOOLEAN :
        locate' = [at |-> "binarize", chained |-> chained, kind |-> "raw", plan |-> <<>>,
                   scanner |-> TRUE, seeds |-> FALSE, have |-> FALSE, batch |-> {}, dir |-> 0,
                   closure |-> "none", pixels |-> FALSE, bitmap |-> FALSE]
  BY DEF Acquire
<1>4. locate' \in LocateTypes /\ locate'.at = "binarize" /\ locate'.plan = <<>>
  <2>1. <<>> \in Seq(Kinds) /\ 0 \in 0 .. Directions /\ {} \in SUBSET (1 .. Directions)
    BY DirectionTypes
  <2> QED
    BY <1>3, <2>1 DEF LocateTypes, Steps, Kinds
<1>5. /\ host' \in HostTypes /\ host'.masks \in {{}, {Earlier}} /\ answer' = NoAnswer
      /\ last' \in [closure : {"none", "lazy", "preserved"}, fresh : BOOLEAN]
      /\ last'.fresh = FALSE
  BY DEF Acquire, LInv, TypeOK, HostTypes, Stamps, NoDetector
<1>6. ~Active'
  BY <1>4 DEF Active, At
<1>7. TypeOK'
  BY <1>2, <1>4, <1>5 DEF TypeOK
<1>8. LevelTrue' /\ MasksTrue' /\ RowsTrue' /\ PlansTrue'
  BY <1>2, <1>6 DEF LevelTrue, MasksTrue, RowsTrue, PlansTrue, Ours
<1>9. PlacesTrue' /\ GatheredTrue' /\ SharesTrue'
  BY <1>4, <1>6 DEF PlacesTrue, GatheredTrue, SharesTrue, At, Sweeping, Merging
<1>10. LastTrue'
  BY <1>2, <1>5, <1>6 DEF LastTrue
<1> QED
  BY <1>5, <1>7, <1>8, <1>9, <1>10, UntoldTold DEF LInv

-----------------------------------------------------------------------------
(* The resets of what a locate gathers. *)

\* The pools are reset, or stay stale.
LEMMA ResetPoolsSound ==
  ASSUME LInv, ResetPoolsStep
  PROVE  LInv' /\ Told'
<1>1. /\ Active /\ At({"reset"}) /\ UNCHANGED last /\ answer' = NoAnswer
      /\ host' = [host EXCEPT !.stale = TRUE, !.mirrored = FALSE, !.mirror = {}]
  BY DEF ResetPoolsStep, Active, At
<1>2. locate \in LocateTypes /\ host \in HostTypes /\ content \in [Live -> SUBSET Stamps]
  BY <1>1, ActiveTypes DEF LInv, TypeOK
<1>3. host' \in HostTypes /\ host'.stale = TRUE /\ host'.masks = host.masks
  BY <1>1, <1>2 DEF HostTypes
<1>4. /\ locate' \in LocateTypes /\ locate'.at \in {"clear", "rows"}
      /\ locate'.kind = locate.kind /\ locate'.plan = locate.plan
      /\ locate'.chained = locate.chained /\ locate'.closure = locate.closure
      /\ locate'.scanner = locate.scanner
  BY <1>2 DEF ResetPoolsStep, Go, LocateTypes, Steps
<1>5. /\ \A b \in Pools : Drawn(LocateEffects["resetPools"].origin[b]) = {}
      /\ Leaves(LocateEffects["resetPools"], Live \ Pools)
  BY EffectsAssumption, DirectionTypes
<1>6. content' \in [Live -> SUBSET Stamps] /\ \A b \in Live \ Pools : content'[b] = content[b]
  BY <1>5, Submitted, SubmitLeaves, FailLeaves DEF LInv, ResetPoolsStep
<1>7. At({"clear"})' => \A b \in Pools : Ours(content'[b])
  <2>1. CASE Submit("resetPools")
    <3> SUFFICES ASSUME NEW b \in Pools PROVE Ours(content'[b])
      OBVIOUS
    <3> DEFINE origins == LocateEffects["resetPools"].origin[b]
               S       == {Current}
    <3>1. content'[b] = StampsOf(origins, content, {Current}) /\ b \in Live
      BY <2>1, Submitted, BufferNames DEF LInv
    <3>2. Drawn(origins) \subseteq {"now"} \cup {} /\ {} \in SUBSET Live /\ Current \in S
          /\ \A c \in {} : content[c] \subseteq S
      BY <1>5
    <3> HIDE DEF origins, S
    <3>3. StampsOf(origins, content, {Current}) \subseteq S
      BY <1>2, <3>2, Stamped
    <3> QED
      BY <3>1, <3>3 DEF S, Ours
  <2>2. CASE Go("rows")
    BY <1>2, <2>2 DEF Go, LocateTypes, At
  <2> QED
    BY <2>1, <2>2 DEF ResetPoolsStep
<1>8. /\ \A b \in Level \cup {"packedMasks", "preservedMasks"} : content'[b] = content[b]
      /\ \A b \in Rows \cup {"scanRecords"} : content'[b] = content[b]
  BY <1>6 DEF Live, Level, Records, Rows, DirectionOutcomes, Pools, Others
<1>9. Steady
  <2>1. Active' /\ ~At({"pass"})'
    BY <1>4 DEF Active, At
  <2> QED
    BY <1>1, <1>2, <1>3, <1>4, <1>6, <1>8, <2>1, SteadyStep
<1>10. PlacesTrue'
  BY <1>4 DEF PlacesTrue, At, Sweeping, Merging
<1>11. GatheredTrue' /\ SharesTrue'
  BY <1>3, <1>4, <1>7 DEF GatheredTrue, SharesTrue, At
<1> QED
  BY <1>1, <1>9, <1>10, <1>11, SteadyInv, UntoldTold

\* With the seeds cleared as well, the locate has all its shares.
LEMMA ClearSeedsStepSound ==
  ASSUME LInv, ClearSeedsStep
  PROVE  LInv' /\ Told'
<1>1. Active /\ At({"clear"}) /\ UNCHANGED last /\ answer' = NoAnswer /\ Go("rows")
  BY DEF ClearSeedsStep, Active, At
<1>2. locate \in LocateTypes /\ host \in HostTypes /\ content \in [Live -> SUBSET Stamps]
  BY <1>1, ActiveTypes DEF LInv, TypeOK
<1>3. /\ locate' \in LocateTypes /\ locate'.at = "rows"
      /\ locate'.kind = locate.kind /\ locate'.plan = locate.plan
      /\ locate'.chained = locate.chained /\ locate'.closure = locate.closure
      /\ locate'.scanner = locate.scanner
  BY <1>1, <1>2 DEF Go, LocateTypes, Steps
<1>4. /\ content' \in [Live -> SUBSET Stamps]
      /\ \A b \in Live \ {"seedHistogram"} : content'[b] = content[b]
  BY SeedsCleared, SeedsUncleared DEF LInv, ClearSeedsStep
<1>5. host' \in HostTypes /\ host'.masks = host.masks
  <2>1. CASE host' = [host EXCEPT !.stale = FALSE, !.shares = 0]
    BY <1>2, <2>1 DEF HostTypes
  <2>2. CASE UNCHANGED host
    BY <1>2, <2>2
  <2> QED
    BY <2>1, <2>2 DEF ClearSeedsStep
<1>6. host.stale /\ \A b \in Pools : Ours(content[b])
  BY <1>1 DEF LInv, GatheredTrue
<1>7. /\ \A b \in Level \cup {"packedMasks", "preservedMasks"} : content'[b] = content[b]
      /\ \A b \in Rows \cup Pools \cup {"scanRecords"} : content'[b] = content[b]
  BY <1>4 DEF Live, Level, Records, Rows, DirectionOutcomes, Pools, Others
<1>8. Steady
  <2>1. Active' /\ ~At({"pass"})'
    BY <1>3 DEF Active, At
  <2> QED
    BY <1>1, <1>2, <1>3, <1>4, <1>5, <1>7, <2>1, SteadyStep
<1>9. PlacesTrue'
  BY <1>3 DEF PlacesTrue, At, Sweeping, Merging
<1>10. CASE Submit("clearSeeds") /\ host' = [host EXCEPT !.stale = FALSE, !.shares = 0]
  <2>1. host'.shares = 0
    BY <1>2, <1>10 DEF HostTypes
  <2>2. GatheredTrue'
    <3>1. Earlier \notin content'["seedHistogram"]
      BY <1>10, SeedsCleared DEF LInv
    <3> QED
      BY <1>3, <1>6, <1>7, <3>1 DEF GatheredTrue, At
  <2>3. SharesTrue'
    <3>1. Following' \in 0 .. 5
      <4>1. TypeOK' /\ PlansTrue' /\ Active'
        BY <1>8, SteadyHolds DEF Steady
      <4>2. Following \in 0 .. 5
        BY <1>1, FollowingType DEF LInv
      <4> QED
        BY <1>8, <4>2 DEF Steady
    <3>2. Claimed' = 0
      BY <1>3, ClaimedNext DEF At
    <3> DEFINE w == Directions + 2
               f == Following'
    <3>3. w \in Nat
      BY DirectionTypes
    <3>4. f \in 0 .. 5
      BY <3>1
    <3> HIDE DEF w, f
    <3>5. 0 + f * w <= 5 * w + 0
      <4>1. CASE f = 5
        BY <3>3, <4>1
      <4>2. CASE f < 5
        <5>1. f * w + w <= 5 * w
          BY <3>3, <3>4, <4>2
        <5>2. f * w \in Nat /\ 5 * w \in Nat
          BY <3>3, <3>4
        <5> QED
          BY <3>3, <5>1, <5>2
      <4> QED
        BY <3>4, <4>1, <4>2
    <3>6. host'.shares + Following' * (Directions + 2) <= 5 * (Directions + 2) + Claimed'
      BY <2>1, <3>2, <3>5 DEF w, f
    <3>7. ~At({"binarize"})'
      BY <1>3 DEF At
    <3> QED
      BY <3>6, <3>7 DEF SharesTrue
  <2> QED
    BY <1>1, <1>8, <1>9, <2>2, <2>3, SteadyInv, UntoldTold
<1>11. CASE UNCHANGED host
  <2>1. GatheredTrue' /\ SharesTrue'
    BY <1>3, <1>6, <1>11 DEF GatheredTrue, SharesTrue, At
  <2> QED
    BY <1>1, <1>8, <1>9, <2>1, SteadyInv, UntoldTold
<1> QED
  BY <1>10, <1>11 DEF ClearSeedsStep

-----------------------------------------------------------------------------
(* The passes. *)

BasesTrue(kind) == \A b \in Bases[kind] : Ours(content[b])

\* The bases are buffers, and nothing else.
LEMMA BaseNames ==
  ASSUME NEW kind \in Kinds
  PROVE  /\ kind \in DOMAIN Bases /\ Bases[kind] \subseteq Level
         /\ kind # "raw" => "balanced" \in Bases[kind]
BY DEF Kinds, Bases, Level

\* A pass older is still of its lease.
LEMMA OlderStamps ==
  ASSUME NEW stamps \in SUBSET Stamps
  PROVE  /\ Older(stamps) \in SUBSET Stamps
         /\ Ours(stamps) => Ours(Older(stamps))
         /\ Earlier \notin stamps => Earlier \notin Older(stamps)
         /\ stamps # {} => Older(stamps) # {}
BY DEF Older, Stamps, Ours, Earlier, Before, Current, Word, Torn

\* What a pass leaves in the buffers.
LEMMA PassLeaves ==
  ASSUME TypeOK, NEW kind \in Kinds, NEW op, NEW bs \in SUBSET Live,
         Passes(LocateEffects[op], kind, bs), BeginPass(op), BasesTrue(kind),
         kind # "raw" => content["balanced"] # {}
  PROVE  /\ content' \in [Live -> SUBSET Stamps]
         /\ \A b \in bs : OfPass(content'[b])
         /\ Ours(content'["balanced"]) /\ content'["balanced"] # {}
         /\ Ours(content'["params"])
         /\ "params" \in Bases[kind] => Ours(content'["pitchScheduleControl"])
         /\ \A b \in Pools \cup {"maxSurvivors"} :
              Ours(content[b]) => Ours(content'[b])
         /\ Earlier \notin content["seedHistogram"] => Earlier \notin content'["seedHistogram"]
<1> DEFINE effect == LocateEffects[op]
           aged   == [b \in Live |-> Older(content[b])]
           base   == Bases[kind]
           S      == {Before, Current, Word}
<1>1. content \in [Live -> SUBSET Stamps] /\ DOMAIN content = Live
  BY DEF TypeOK
<1>2. base \in SUBSET Live
  BY BaseNames, BufferNames
<1>3. content' = [b \in Live |-> StampsOf(effect.origin[b], aged, {Current})]
  BY <1>1 DEF BeginPass, SucceedAnew, Take, After
<1>4. aged \in [Live -> SUBSET Stamps]
  BY <1>1, OlderStamps
<1>5. content' \in [Live -> SUBSET Stamps]
      /\ \A b \in Live : content'[b] = StampsOf(effect.origin[b], aged, {Current})
  <2>1. \A b \in Live : StampsOf(effect.origin[b], aged, {Current}) \in SUBSET Stamps
    <3> HIDE DEF aged, effect
    <3> QED
      BY <1>4, StampTypes
  <2> QED
    BY <1>3, <2>1
<1>6. \A b \in Live : /\ Ours(content[b]) => Ours(aged[b])
                      /\ Earlier \notin content[b] => Earlier \notin aged[b]
                      /\ content[b] # {} => aged[b] # {}
  BY <1>1, OlderStamps
<1>7. Current \in S /\ \A b \in base : Ours(aged[b]) /\ aged[b] \subseteq S
  BY <1>2, <1>6 DEF BasesTrue, Ours
<1>8. /\ Scans(effect, bs, base)
      /\ IF kind = "raw" THEN Drawn(effect.origin["balanced"]) = {"now"}
                         ELSE Leaves(effect, {"balanced"})
      /\ From(effect, {"params"}, base)
      /\ "params" \in base => From(effect, {"pitchScheduleControl"}, base)
      /\ Leaves(effect, {"maxSurvivors", "preservedMasks"} \cup DirectionOutcomes \cup Pools)
  BY DEF Passes
<1>9. ASSUME NEW b \in Live, Leaves(effect, {b})
      PROVE  content'[b] = aged[b]
  <2>1. effect.origin[b] = {b}
    BY <1>9 DEF Leaves
  <2> HIDE DEF aged, effect
  <2>2. StampsOf({b}, aged, {Current}) = aged[b]
    BY <1>4, StampedSame
  <2> QED
    BY <1>5, <2>1, <2>2
<1>10. ASSUME NEW b \in Live, From(effect, {b}, base)
       PROVE  Ours(content'[b])
  <2>1. Drawn(effect.origin[b]) \subseteq {"now"} \cup base
    BY <1>10 DEF From
  <2> HIDE DEF aged, effect, base, S
  <2>2. StampsOf(effect.origin[b], aged, {Current}) \subseteq S
    BY <1>2, <1>4, <1>7, <2>1, Stamped
  <2> QED
    BY <1>5, <2>2 DEF S, Ours
<1>11. \A b \in bs : OfPass(content'[b])
  <2> SUFFICES ASSUME NEW b \in bs PROVE OfPass(content'[b])
    OBVIOUS
  <2>1. b \in Live /\ Drawn(effect.origin[b]) \subseteq {"now"} \cup base
        /\ "now" \in Drawn(effect.origin[b])
    BY <1>8 DEF Scans, From, Drawn
  <2> HIDE DEF aged, effect, base, S
  <2>2. OfPass(StampsOf(effect.origin[b], aged, {Current}))
    BY <1>2, <1>4, <1>7, <2>1, StampedOwn
  <2> QED
    BY <1>5, <2>1, <2>2
<1>12. Ours(content'["balanced"]) /\ content'["balanced"] # {}
  <2>1. "balanced" \in Live
    BY BufferNames DEF Level
  <2>2. CASE kind = "raw"
    <3>1. Drawn(effect.origin["balanced"]) \subseteq {"now"} \cup base
          /\ "now" \in Drawn(effect.origin["balanced"])
      BY <1>8, <2>2
    <3> HIDE DEF aged, effect, base, S
    <3>2. OfPass(StampsOf(effect.origin["balanced"], aged, {Current}))
      BY <1>2, <1>4, <1>7, <3>1, StampedOwn
    <3> QED
      BY <1>5, <2>1, <3>2, OwnStamps
  <2>3. CASE kind # "raw"
    <3>1. content'["balanced"] = aged["balanced"]
      BY <1>8, <1>9, <2>1, <2>3
    <3>2. "balanced" \in base
      BY <2>3, BaseNames
    <3> HIDE DEF aged, base
    <3> QED
      BY <1>6, <1>7, <2>1, <2>3, <3>1, <3>2
  <2> QED
    BY <2>2, <2>3
<1>13. /\ Ours(content'["params"])
       /\ "params" \in base => Ours(content'["pitchScheduleControl"])
  BY <1>8, <1>10, BufferNames DEF Level
<1>14. \A b \in Pools \cup {"maxSurvivors"} :
         Ours(content[b]) => Ours(content'[b])
  <2> SUFFICES ASSUME NEW b \in Pools \cup {"maxSurvivors"}, Ours(content[b])
               PROVE  Ours(content'[b])
    OBVIOUS
  <2>1. b \in Live /\ Leaves(effect, {b})
    BY <1>8, BufferNames DEF Level, Leaves
  <2> HIDE DEF aged, effect
  <2> QED
    BY <1>6, <1>9, <2>1
<1>15. ASSUME Earlier \notin content["seedHistogram"]
       PROVE  Earlier \notin content'["seedHistogram"]
  <2> DEFINE all == base \cup {"seedHistogram"}
             T   == {Before, Current, Word, Torn}
  <2>1. "seedHistogram" \in Live
    BY BufferNames DEF Others
  <2>2. Drawn(effect.origin["seedHistogram"]) \subseteq {"now"} \cup all
    BY <1>8 DEF Scans, From
  <2>3. all \in SUBSET Live /\ Current \in T /\ \A b \in all : aged[b] \subseteq T
    <3>1. aged["seedHistogram"] \subseteq T
      <4>1. aged["seedHistogram"] \in SUBSET Stamps /\ Earlier \notin aged["seedHistogram"]
        BY <1>4, <1>6, <1>15, <2>1
      <4> HIDE DEF aged
      <4> QED
        BY <4>1 DEF Stamps
    <3> HIDE DEF aged, base
    <3> QED
      BY <1>2, <1>7, <2>1, <3>1
  <2> HIDE DEF aged, effect, all, T
  <2>4. StampsOf(effect.origin["seedHistogram"], aged, {Current}) \subseteq T
    BY <1>4, <2>2, <2>3, Stamped
  <2> QED
    BY <1>5, <2>1, <2>4 DEF T, Earlier, Before, Current, Word, Torn
<1> QED
  BY <1>5, <1>11, <1>12, <1>13, <1>14, <1>15

\* The list of a pass does what is said of it.
LEMMA ListPasses ==
  ASSUME NEW kind \in Kinds, locate \in LocateTypes, ~locate.chained => kind \in Plain
  PROVE  Passes(LocateEffects[ListOf(kind)], kind,
                IF locate.chained THEN Records \cup Rows ELSE Records)
<1>1. CASE locate.chained
  BY <1>1, BaseNames, EffectsAssumption, DirectionTypes DEF ListOf
<1>2. CASE ~locate.chained
  <2>1. kind \in DOMAIN Bare
    BY <1>2 DEF Plain, Bare
  <2> QED
    BY <1>2, <2>1, EffectsAssumption, DirectionTypes DEF ListOf
<1> QED
  BY <1>1, <1>2

\* The pass that follows, and those that follow it.
LEMMA NextPlans ==
  ASSUME LInv, At({"pass"})
  PROVE  LET kind == Head(locate.plan)
             rest == Tail(locate.plan)
         IN  /\ kind \in Kinds \ {"raw"} /\ BasesTrue(kind) /\ locate.plan # <<>>
             /\ ~locate.chained => kind \in Plain /\ rest \notin ResidentPlans
             /\ rest \in Seq(Kinds) /\ rest \in ResidentPlans \cup Seq({"filtered", "sharp"})
             /\ rest \in Scheduled => "params" \in Bases[kind]
             /\ Len(rest) + 1 = Len(locate.plan) /\ Len(rest) <= 4
             /\ kind = "average" => locate.kind = "raw"
<1> DEFINE plan == locate.plan
           kind == Head(plan)
           rest == Tail(plan)
<1>1. Active
  BY DEF Active, At
<1>2. locate \in LocateTypes /\ plan \in Seq(Kinds) /\ plan # <<>> /\ Len(plan) <= 4
  BY <1>1, ActiveTypes DEF LInv, PlansTrue, LocateTypes
<1>3. /\ kind \in Kinds /\ rest \in Seq(Kinds) /\ Len(rest) + 1 = Len(plan) /\ Len(rest) <= 4
  <2>1. kind \in Kinds /\ rest \in Seq(Kinds) /\ Len(rest) = Len(plan) - 1
    BY <1>2
  <2> DEFINE m == Len(plan)
             n == Len(rest)
  <2>2. m \in Nat /\ n \in Nat /\ n = m - 1 /\ m <= 4
    BY <1>2, <2>1
  <2> HIDE DEF m, n
  <2>3. n + 1 = m /\ n <= 4
    BY <2>2
  <2> QED
    BY <2>1, <2>3 DEF m, n
<1>4. /\ Ours(content["balanced"]) /\ Ours(content["params"])
      /\ Ours(content["maxSurvivors"])
      /\ plan \in Scheduled => Ours(content["pitchScheduleControl"])
      /\ ~locate.chained => plan \notin ResidentPlans
  BY <1>1 DEF LInv, LevelTrue, PlansTrue, Active, At
<1>5. IF locate.kind = "raw" THEN plan = <<"average">>
      ELSE plan \in ResidentPlans \/ plan \in Seq({"filtered", "sharp"})
  BY <1>1, <1>2 DEF LInv, PlansTrue
<1>6. CASE locate.kind = "raw"
  <2>1. kind = "average" /\ rest = <<>>
    <3>1. plan = <<"average">>
      BY <1>5, <1>6
    <3>2. Head(<<"average">>) = "average" /\ Tail(<<"average">>) = <<>>
      OBVIOUS
    <3> QED
      BY <3>1, <3>2
  <2>2. rest \notin ResidentPlans
    <3>1. \A p \in ResidentPlans : p # <<>>
      <4>1. \A p \in Scheduled : p # <<>>
        BY DEF Scheduled
      <4>2. \A p \in DevicePlans : p # <<>>
        BY DEF DevicePlans
      <4> QED
        BY <4>1, <4>2 DEF ResidentPlans
    <3> HIDE DEF rest, kind
    <3> QED
      BY <2>1, <3>1
  <2>3. rest \in Seq({"filtered", "sharp"}) /\ kind \in Plain
    <3>1. <<>> \in Seq({"filtered", "sharp"})
      OBVIOUS
    <3> HIDE DEF rest, kind
    <3> QED
      BY <2>1, <3>1 DEF Plain
  <2>4. BasesTrue(kind)
    BY <1>4, <2>1 DEF BasesTrue, Bases
  <2> QED
    BY <1>2, <1>3, <1>6, <2>1, <2>2, <2>3, <2>4 DEF ResidentPlans
<1>7. CASE plan \in Seq({"filtered", "sharp"})
  <2>1. kind \in {"filtered", "sharp"} /\ rest \in Seq({"filtered", "sharp"})
    BY <1>2, <1>7
  <2>2. rest \notin ResidentPlans
    BY <2>1, HostPlans
  <2>3. kind \in Plain \ {"raw", "average"}
    BY <2>1 DEF Plain
  <2>4. BasesTrue(kind)
    BY <1>4, <2>1 DEF BasesTrue, Bases
  <2> QED
    BY <1>2, <1>3, <2>1, <2>2, <2>3, <2>4 DEF ResidentPlans, Plain
<1>8. CASE plan \in ResidentPlans
  <2>1. locate.chained
    BY <1>4, <1>8
  <2>2. ASSUME kind \in {"descreenFirst", "descreenSecond", "printFirst", "printSecond"},
               kind = "descreenFirst" \/ plan \in Scheduled,
               rest \in ResidentPlans \cup {<<>>}
        PROVE  /\ kind \in Kinds \ {"raw", "average"} /\ BasesTrue(kind)
               /\ rest \in ResidentPlans \cup Seq({"filtered", "sharp"})
               /\ "params" \in Bases[kind]
    <3>1. <<>> \in Seq({"filtered", "sharp"})
      OBVIOUS
    <3>2. BasesTrue(kind) /\ "params" \in Bases[kind]
      BY <1>4, <2>2 DEF BasesTrue, Bases, Level
    <3> QED
      BY <2>2, <3>1, <3>2 DEF Kinds
  <2>3. /\ kind \in {"descreenFirst", "descreenSecond", "printFirst", "printSecond"}
        /\ kind = "descreenFirst" \/ plan \in Scheduled
        /\ rest \in ResidentPlans \cup {<<>>}
    <3>1. CASE plan = <<"descreenSecond">>
      BY <3>1 DEF Scheduled
    <3>2. CASE plan = <<"descreenSecond", "printFirst", "printSecond">>
      <4>1. kind = "descreenSecond" /\ rest = <<"printFirst", "printSecond">>
        BY <3>2
      <4> QED
        BY <3>2, <4>1 DEF Scheduled, ResidentPlans
    <3>3. CASE plan = <<"printFirst", "printSecond">>
      <4>1. kind = "printFirst" /\ rest = <<"printSecond">>
        BY <3>3
      <4> QED
        BY <3>3, <4>1 DEF Scheduled, ResidentPlans
    <3>4. CASE plan = <<"printSecond">>
      BY <3>4 DEF Scheduled
    <3>5. CASE plan = <<"descreenFirst", "descreenSecond">>
      <4>1. kind = "descreenFirst" /\ rest = <<"descreenSecond">>
        BY <3>5
      <4> QED
        BY <4>1 DEF Scheduled, ResidentPlans
    <3>6. CASE plan = <<"descreenFirst", "descreenSecond", "printFirst", "printSecond">>
      <4>1. kind = "descreenFirst" /\ rest = <<"descreenSecond", "printFirst", "printSecond">>
        BY <3>6
      <4> QED
        BY <4>1 DEF Scheduled, ResidentPlans
    <3> QED
      BY <1>8, <3>1, <3>2, <3>3, <3>4, <3>5, <3>6 DEF ResidentPlans, Scheduled, DevicePlans
  <2> QED
    BY <1>2, <1>3, <2>1, <2>2, <2>3
<1> QED
  BY <1>5, <1>6, <1>7, <1>8

\* After a pass the locate has what it draws on, and rows of this pass.
LEMMA PassHolds ==
  ASSUME LInv, locate \in LocateTypes, NEW kind \in Kinds, BeginPass(ListOf(kind)),
         NewPass(kind), BasesTrue(kind), Ours(content["maxSurvivors"]),
         kind # "raw" => content["balanced"] # {},
         ~locate.chained => kind \in Plain, locate'.plan \in Seq(Kinds),
         PlansTrue', SharesTrue',
         kind # "raw" => Active /\ ~At({"reset"})
  PROVE  LInv'
<1>1. /\ host' = [host EXCEPT !.masks = {}] /\ last' \in {last, NoDetector}
      /\ last'.closure # "lazy"
      /\ locate' = [locate EXCEPT !.at = IF kind = "raw" THEN "reset" ELSE "rows",
                              !.kind = kind, !.plan = IF @ = <<>> THEN @ ELSE Tail(@),
                              !.closure = "lazy", !.pixels = FALSE, !.have = FALSE]
  BY DEF NewPass, Supersede, NoDetector
<1>2. host \in HostTypes
  BY DEF LInv, TypeOK
<1>3. host' \in HostTypes /\ host'.masks = {} /\ host'.stale = host.stale
  BY <1>1, <1>2 DEF HostTypes
<1>4. /\ locate' \in LocateTypes /\ locate'.at \in {"reset", "rows"}
      /\ locate'.at = "rows" => kind # "raw"
      /\ locate'.chained = locate.chained /\ locate'.scanner = locate.scanner
      /\ locate'.closure = "lazy"
  <2> DEFINE plan == locate'.plan
  <2>1. locate' = [locate EXCEPT !.at = IF kind = "raw" THEN "reset" ELSE "rows",
                              !.kind = kind, !.plan = plan,
                              !.closure = "lazy", !.pixels = FALSE, !.have = FALSE]
    BY <1>1 DEF LocateTypes
  <2>2. plan \in Seq(Kinds)
    OBVIOUS
  <2> HIDE DEF plan
  <2> QED
    BY <2>1, <2>2 DEF LocateTypes, Steps
<1> DEFINE bs == IF locate.chained THEN Records \cup Rows ELSE Records
<1>5. Passes(LocateEffects[ListOf(kind)], kind, bs) /\ bs \in SUBSET Live
  BY ListPasses, BufferNames
<1>6. /\ content' \in [Live -> SUBSET Stamps]
      /\ \A b \in bs : OfPass(content'[b])
      /\ Ours(content'["balanced"]) /\ content'["balanced"] # {}
      /\ Ours(content'["params"])
      /\ \A b \in Pools \cup {"maxSurvivors"} :
           Ours(content[b]) => Ours(content'[b])
      /\ Earlier \notin content["seedHistogram"] => Earlier \notin content'["seedHistogram"]
  <2> HIDE DEF bs
  <2> QED
    BY <1>5, PassLeaves DEF LInv
<1>7. TypeOK'
  <2>1. last' \in [closure : {"none", "lazy", "preserved"}, fresh : BOOLEAN]
    <3>1. last \in [closure : {"none", "lazy", "preserved"}, fresh : BOOLEAN]
      BY DEF LInv, TypeOK
    <3>2. NoDetector \in [closure : {"none", "lazy", "preserved"}, fresh : BOOLEAN]
      BY DEF NoDetector
    <3> QED
      BY <1>1, <3>1, <3>2
  <2> QED
    BY <1>3, <1>4, <1>6, <2>1 DEF TypeOK
<1>8. LevelTrue'
  BY <1>6 DEF LevelTrue
<1>9. MasksTrue' /\ RowsTrue'
  BY <1>3, <1>4, <1>6 DEF MasksTrue, RowsTrue, Records
<1>10. PlacesTrue'
  BY <1>4 DEF PlacesTrue, At, Sweeping, Merging
<1>11. GatheredTrue'
  <2>1. CASE locate'.at = "reset"
    BY <2>1 DEF GatheredTrue, At
  <2>2. CASE locate'.at = "rows"
    <3>1. Active /\ ~At({"reset"}) /\ ~At({"clear"})'
      BY <1>4, <2>2 DEF At
    <3>2. ~host.stale => /\ Earlier \notin content["seedHistogram"]
                         /\ locate.scanner => \A b \in Pools : Ours(content[b])
      BY <3>1 DEF LInv, GatheredTrue
    <3> QED
      BY <1>3, <1>4, <1>6, <3>1, <3>2 DEF GatheredTrue
  <2> QED
    BY <1>4, <2>1, <2>2
<1>12. LastTrue'
  BY <1>1 DEF LastTrue
<1> QED
  BY <1>7, <1>8, <1>9, <1>10, <1>11, <1>12 DEF LInv

\* A pass that breaks off tears its masks.
LEMMA PassTears ==
  ASSUME TypeOK, NEW op, NEW bs, Fail(op), "packedMasks" \in bs,
         \A b \in bs : "now" \in LocateEffects[op].origin[b]
  PROVE  content' \in [Live -> SUBSET Stamps]
         /\ (content'["packedMasks"] = content["packedMasks"] \/ Torn \in content'["packedMasks"])
<1>1. content \in [Live -> SUBSET Stamps] /\ DOMAIN content = Live /\ "packedMasks" \in Live
  BY BufferNames DEF TypeOK, Records
<1>2. content' \in [Live -> SUBSET Stamps]
  BY FailTypes
<1>3. CASE Refuse
  BY <1>2, <1>3 DEF Refuse
<1>4. CASE Break(LocateEffects[op], {Current})
  <2> DEFINE more(c) == StampsOf(LocateEffects[op].origin[c], content, {Current})
  <2>1. content' = [c \in Live |-> IF LocateEffects[op].origin[c] = {c} THEN content[c]
                                   ELSE content[c] \cup more(c) \cup {Torn}]
    BY <1>1, <1>4 DEF Break, TornBy
  <2>2. LocateEffects[op].origin["packedMasks"] # {"packedMasks"}
    OBVIOUS
  <2> HIDE DEF more
  <2>3. content'["packedMasks"] = content["packedMasks"] \cup more("packedMasks") \cup {Torn}
    BY <1>1, <2>1, <2>2
  <2> QED
    BY <1>2, <2>3
<1> QED
  BY <1>3, <1>4 DEF Fail, FailOn

\* The first pass of a lease.
LEMMA BinarizeSound ==
  ASSUME LInv, Binarize
  PROVE  LInv' /\ Told'
<1>1. At({"binarize"}) /\ ~At({"idle"}) /\ ~Active /\ RunPass("raw") /\ answer' = NoAnswer
  BY DEF Binarize, RunPass, At, Active
<1>2. locate \in LocateTypes /\ locate.plan = <<>>
  BY <1>1 DEF LInv, TypeOK, SharesTrue, At
<1>3. Ours(content["maxSurvivors"])
  BY <1>1 DEF LInv, LevelTrue
<1>4. "raw" \in Kinds /\ "raw" \in Plain /\ BasesTrue("raw")
  BY DEF Kinds, Plain, BasesTrue, Bases
<1>5. CASE BeginPass(ListOf("raw")) /\ NewPass("raw")
  <2>1. locate' = [locate EXCEPT !.at = "reset",
                              !.kind = "raw", !.plan = IF @ = <<>> THEN @ ELSE Tail(@),
                              !.closure = "lazy", !.pixels = FALSE, !.have = FALSE]
    BY <1>5 DEF NewPass
  <2>2. locate'.plan = <<>> /\ locate'.kind = "raw" /\ locate'.at = "reset"
    BY <1>2, <2>1 DEF LocateTypes
  <2>3. <<>> \in Seq(Kinds) /\ Len(<<>>) <= 4
    OBVIOUS
  <2>4. <<>> \notin ResidentPlans
    BY DEF ResidentPlans, Scheduled, DevicePlans
  <2>5. PlansTrue'
    BY <1>4, <2>2, <2>3, <2>4 DEF PlansTrue, At, ResidentPlans
  <2>6. SharesTrue'
    BY <2>2 DEF SharesTrue, At
  <2>7. LInv'
    BY <1>2, <1>3, <1>4, <1>5, <2>2, <2>3, <2>5, <2>6, PassHolds
  <2> QED
    BY <1>1, <2>7, UntoldTold
<1>6. CASE Fail(ListOf("raw")) /\ Drop
  <2> DEFINE bs == IF locate.chained THEN Records \cup Rows ELSE Records
  <2>1. Passes(LocateEffects[ListOf("raw")], "raw", bs)
    BY <1>2, <1>4, ListPasses
  <2>2. "packedMasks" \in bs /\ \A b \in bs : "now" \in LocateEffects[ListOf("raw")].origin[b]
    BY <2>1 DEF Passes, Scans, Records
  <2> HIDE DEF bs
  <2>3. /\ content' \in [Live -> SUBSET Stamps]
        /\ content'["packedMasks"] = content["packedMasks"] \/ Torn \in content'["packedMasks"]
    BY <1>6, <2>2, PassTears DEF LInv
  <2>4. UNCHANGED <<host, last>> /\ ~Active' /\ (last.closure = "lazy" => ~last.fresh)
    BY <1>1, <1>6 DEF Drop, Active, At, LInv, LastTrue
  <2>5. LastTrue'
    BY <2>3, <2>4 DEF LInv, LastTrue
  <2> QED
    BY <1>1, <1>6, <2>3, <2>5, DropHolds, UntoldTold
<1> QED
  BY <1>1, <1>5, <1>6 DEF RunPass

\* The next pass of a plan.
LEMMA NextPassSound ==
  ASSUME LInv, NextPass
  PROVE  LInv' /\ Told'
<1> DEFINE kind == Head(locate.plan)
           rest == Tail(locate.plan)
<1>1. /\ At({"pass"}) /\ Active /\ ~At({"idle"}) /\ ~At({"reset"}) /\ ~At({"reset", "clear"})
      /\ RunPass(kind) /\ answer' = NoAnswer
  BY DEF NextPass, RunPass, At, Active
<1>2. locate \in LocateTypes /\ host \in HostTypes
  BY <1>1, ActiveTypes DEF LInv, TypeOK
<1>3. /\ kind \in Kinds \ {"raw"} /\ BasesTrue(kind) /\ locate.plan # <<>>
      /\ ~locate.chained => kind \in Plain /\ rest \notin ResidentPlans
      /\ rest \in Seq(Kinds) /\ rest \in ResidentPlans \cup Seq({"filtered", "sharp"})
      /\ rest \in Scheduled => "params" \in Bases[kind]
      /\ Len(rest) + 1 = Len(locate.plan) /\ Len(rest) <= 4
      /\ kind = "average" => locate.kind = "raw"
  BY <1>1, NextPlans
<1>4. Ours(content["maxSurvivors"]) /\ content["balanced"] # {}
  BY <1>1 DEF LInv, LevelTrue
<1> HIDE DEF kind, rest
<1>5. CASE BeginPass(ListOf(kind)) /\ NewPass(kind)
  <2>1. /\ locate'.plan = rest /\ locate'.kind = kind /\ locate'.at = "rows"
        /\ locate'.chained = locate.chained
        /\ host' = [host EXCEPT !.masks = {}]
    <3>1. locate' = [locate EXCEPT !.at = IF kind = "raw" THEN "reset" ELSE "rows",
                              !.kind = kind, !.plan = IF @ = <<>> THEN @ ELSE Tail(@),
                              !.closure = "lazy", !.pixels = FALSE, !.have = FALSE]
          /\ host' = [host EXCEPT !.masks = {}]
      BY <1>5 DEF NewPass
    <3> QED
      BY <1>2, <1>3, <3>1 DEF LocateTypes, rest
  <2>2. "params" \in Bases[kind] => Ours(content'["pitchScheduleControl"])
    <3> DEFINE bs == IF locate.chained THEN Records \cup Rows ELSE Records
    <3>1. Passes(LocateEffects[ListOf(kind)], kind, bs) /\ bs \in SUBSET Live
      BY <1>2, <1>3, ListPasses, BufferNames
    <3> HIDE DEF bs
    <3> QED
      BY <1>3, <1>4, <1>5, <3>1, PassLeaves DEF LInv
  <2>3. PlansTrue'
    BY <1>3, <2>1, <2>2 DEF PlansTrue, At
  <2>4. SharesTrue'
    <3>1. Following \in 0 .. 5 /\ (locate.kind # "raw" => Following <= 4)
          /\ Following >= Len(rest) + 1 /\ (kind = "average" => Following = 5)
      <4> DEFINE n == Len(rest)
                 m == Len(locate.plan)
      <4>1. n + 1 = m /\ m <= 4 /\ n \in Nat
        BY <1>1, <1>3 DEF LInv, PlansTrue
      <4>2. Following \in 0 .. 5 /\ (locate.kind # "raw" => Following <= 4)
        BY <1>1, FollowingType DEF LInv
      <4>3. Following = 5 \/ Following = 4 \/ Following = m
        BY DEF Following
      <4>4. kind = "average" => Following = 5
        BY <1>3 DEF Following
      <4> HIDE DEF n, m
      <4>5. Following >= n + 1
        BY <4>1, <4>2, <4>3
      <4> QED
        BY <4>2, <4>4, <4>5 DEF n
    <3>2. Following' \in Nat /\ Following' < Following
      <4> DEFINE n == Len(rest)
      <4>1. n \in Nat
        BY <1>3
      <4>2. IF kind = "average" THEN Following' = 4 ELSE Following' = n
        BY <1>3, <2>1 DEF Following
      <4> HIDE DEF n
      <4> QED
        <5>1. Following >= n + 1
          BY <3>1 DEF n
        <5> QED
          BY <3>1, <4>1, <4>2, <5>1
    <3>3. Claimed = 2 + Directions /\ Claimed' = 0 /\ host'.shares = host.shares
          /\ host'.stale = host.stale /\ host.shares \in Nat
      BY <1>1, <1>2, <2>1, ClaimedAt, ClaimedNext DEF At, HostTypes
    <3>4. ~host.stale =>
            host.shares + Following * (Directions + 2) <= 5 * (Directions + 2) + Claimed
      BY <1>1 DEF LInv, SharesTrue
    <3> DEFINE w == Directions + 2
               f == Following
               g == Following'
               s == host.shares
    <3>5. w \in Nat /\ f \in Nat /\ g \in Nat /\ g < f /\ s \in Nat
      BY <3>1, <3>2, <3>3, DirectionTypes
    <3>6. ~host.stale => s + f * w <= 5 * w + w
      <4>1. Claimed = w
        BY <3>3, DirectionTypes
      <4> HIDE DEF w
      <4> QED
        BY <3>4, <4>1 DEF w
    <3> HIDE DEF w, f, g, s
    <3>7. g * w + w <= f * w /\ g * w \in Nat /\ f * w \in Nat /\ 5 * w \in Nat
      BY <3>5
    <3>8. ~host.stale => s + g * w <= 5 * w + 0
      <4> DEFINE a == g * w
                 b == f * w
                 c == 5 * w
      <4>1. a + w <= b /\ a \in Nat /\ b \in Nat /\ c \in Nat
        BY <3>7
      <4>2. ~host.stale => s + b <= c + w
        BY <3>6
      <4> HIDE DEF a, b, c
      <4>3. ~host.stale => s + a <= c + 0
        BY <3>5, <4>1, <4>2
      <4> QED
        BY <4>3 DEF a, c
    <3>9. ~host'.stale =>
            host'.shares + Following' * (Directions + 2) <= 5 * (Directions + 2) + Claimed'
      BY <3>3, <3>8 DEF w, g, s
    <3>10. ~At({"binarize"})'
      BY <2>1 DEF At
    <3> QED
      BY <3>9, <3>10 DEF SharesTrue
  <2>5. LInv'
    BY <1>1, <1>2, <1>3, <1>4, <1>5, <2>1, <2>3, <2>4, PassHolds
  <2> QED
    BY <1>1, <2>5, UntoldTold
<1>6. CASE Fail(ListOf(kind)) /\ Drop
  <2>1. content' \in [Live -> SUBSET Stamps]
    BY <1>6, FailTypes DEF LInv
  <2> QED
    BY <1>1, <1>6, <2>1, ActiveDrops, UntoldTold
<1> QED
  BY <1>1, <1>5, <1>6 DEF RunPass

-----------------------------------------------------------------------------
(* All steps, and the theorems. *)

\* A context that no locate has had yet.
LEMMA InitSound ==
  ASSUME LocateInit
  PROVE  LInv /\ Told
<1>1. /\ content = [b \in Live |-> {Earlier}] /\ locate = [at |-> "idle"]
      /\ host = [masks |-> {}, stale |-> FALSE, mirrored |-> FALSE, mirror |-> {}, shares |-> 0]
      /\ last = NoDetector /\ answer = NoAnswer
  BY DEF LocateInit, BufferInit
<1>2. ~Active /\ At({"idle"})
  BY <1>1 DEF Active, At
<1>3. TypeOK
  <2>1. content \in [Live -> SUBSET Stamps]
    BY <1>1 DEF Stamps
  <2>2. host \in HostTypes
    BY <1>1 DEF HostTypes
  <2> QED
    BY <1>1, <2>1, <2>2 DEF TypeOK, NoDetector
<1>4. LevelTrue /\ MasksTrue /\ RowsTrue /\ PlansTrue
  BY <1>2 DEF LevelTrue, MasksTrue, RowsTrue, PlansTrue
<1>5. PlacesTrue /\ GatheredTrue /\ SharesTrue /\ LastTrue
  BY <1>1, <1>2 DEF PlacesTrue, GatheredTrue, SharesTrue, LastTrue, At, Sweeping, Merging,
     NoDetector
<1>6. Told
  BY <1>1 DEF Told, NoAnswer
<1> QED
  BY <1>3, <1>4, <1>5, <1>6 DEF LInv

\* A step that changes nothing.
LEMMA StutterSound ==
  ASSUME LInv, Told, UNCHANGED vars
  PROVE  LInv' /\ Told'
<1>1. UNCHANGED <<content, host, locate, last, answer>>
  BY DEF vars
<1>2. TypeOK' /\ LevelTrue' /\ MasksTrue' /\ RowsTrue' /\ PlansTrue'
  BY <1>1 DEF LInv, TypeOK, LevelTrue, MasksTrue, RowsTrue, PlansTrue, Active, At
<1>3. PlacesTrue' /\ GatheredTrue' /\ LastTrue'
  BY <1>1 DEF LInv, PlacesTrue, GatheredTrue, LastTrue, OutcomesOwn, Active, At
<1>4. SharesTrue'
  BY <1>1 DEF LInv, SharesTrue, Claimed, Following, Active, At
<1>5. Told'
  BY <1>1 DEF Told
<1> QED
  BY <1>2, <1>3, <1>4, <1>5 DEF LInv

\* Every step keeps what the locate relies on and tells the host the truth.
LEMMA StepSound ==
  ASSUME LInv, Told, [Next]_vars
  PROVE  LInv' /\ Told'
<1>1. CASE Work
  <2>1. CASE Binarize \/ NextPass
    BY <2>1, BinarizeSound, NextPassSound
  <2>2. CASE ResetPoolsStep \/ ClearSeedsStep
    BY <2>2, ResetPoolsSound, ClearSeedsStepSound
  <2>3. CASE FoldRow \/ ScanVertical \/ FoldVertical \/ ReplayRows \/ WalkRows \/ Settle
    BY <2>3, FoldRowSound, ScanVerticalSound, FoldVerticalSound, ReplayRowsSound,
       WalkRowsSound, SettleSound
  <2>4. CASE \/ BatchSweeps \/ TakeSweep \/ ScanDirection \/ FoldDirection \/ HostSweep
             \/ Swept
    BY <2>4, BatchSweepsSound, TakeSweepSound, ScanDirectionSound, FoldDirectionSound,
       HostSweepSound, SweptSound
  <2>5. CASE PlanPasses \/ ReadSeeds \/ ClearSeeds \/ Pitch
    BY <2>5, PlanPassesSound, ReadSeedsSound, ClearSeedsSound, PitchSound
  <2>6. CASE Quit \/ Finish \/ EnsureChannels
    BY <2>6, QuitSound, FinishSound, EnsureChannelsSound
  <2> QED
    BY <1>1, <2>1, <2>2, <2>3, <2>4, <2>5, <2>6 DEF Work
<1>2. CASE Acquire \/ Release
  BY <1>2, AcquireSound, ReleaseSound
<1>3. CASE EnsureBitmap \/ CandidateUnion \/ LateChannels
  BY <1>3, EnsureBitmapSound, CandidateUnionSound, LateChannelsSound
<1>4. CASE UNCHANGED vars
  BY <1>4, StutterSound
<1> QED
  BY <1>1, <1>2, <1>3, <1>4 DEF Next

-----------------------------------------------------------------------------
(* What is not the locate's own: a snapshot taken before, and a batch's word. *)

\* A snapshot that outlives its lease is whole, of an earlier lease or torn, until
\* the next holder has located.
SnapshotTrue ==
  last.closure = "preserved" =>
    \/ last.fresh /\ At({"idle"}) /\ OfPass(LateSnapshot)
    \/ ~last.fresh /\ (LateSnapshot = {Earlier} \/ Torn \in LateSnapshot \/ Located)

\* A batch's word reaches the print retries, which come last, and nothing else,
\* and never the balanced level.
WordFree(stamps) == Word \notin stamps
WordApart ==
  ~At({"idle"}) =>
    /\ At({"binarize"}) => locate.kind = "raw"
    /\ WordFree(content["balanced"])
    /\ locate.kind \in Prints => locate.plan \in {<<>>, <<"printSecond">>}
    /\ locate.kind \notin Prints =>
         /\ WordFree(host.masks) /\ WordFree(host.mirror)
         /\ \A b \in Live \ {"maxSurvivors"} : WordFree(content[b])
WordTold ==
  /\ WordInPrints(answer.got) /\ WordInPrints(answer.sources)
  /\ answer.kind = "balanced" => WordFree(answer.got)

\* The steps of a locate inside its passes and between them.
Inside ==
  \/ ResetPoolsStep \/ ClearSeedsStep
  \/ FoldRow \/ ScanVertical \/ FoldVertical \/ ReplayRows \/ WalkRows \/ Settle
  \/ BatchSweeps \/ TakeSweep \/ ScanDirection \/ FoldDirection \/ HostSweep \/ Swept
  \/ PlanPasses \/ ReadSeeds \/ ClearSeeds \/ Pitch \/ Quit
\* Each of them is one list at most, of those no pass begins with.
FoldOps == {"foldRow", "foldVertical", "foldDirection"}
GathersBy(op) ==
  /\ Submit(op) \/ Fail(op)
  /\ answer'.got \in {{}, Shown(op)} /\ answer'.kind # "balanced"
  /\ \/ answer'.sources = {}
     \/ op \in FoldOps /\ answer'.sources = UNION {content[b] : b \in Sources(op)}
Gathers == \E op \in Gathering \ {"preserve"} : GathersBy(op)

\* A step that submits nothing gathers nothing.
LEMMA RefusedGathers ==
  ASSUME Refuse, answer'.got = {}, answer'.sources = {}, answer'.kind # "balanced"
  PROVE  Gathers
<1>1. "resetPools" \in Gathering \ {"preserve"} /\ Fail("resetPools")
  BY DEF Gathering, Fail, FailOn
<1> QED
  BY <1>1 DEF Gathers, GathersBy

\* Nor does one that tells the host nothing.
LEMMA SilentlyGathers ==
  ASSUME Silently
  PROVE  Gathers
BY RefusedGathers DEF Silently, NoAnswer

\* A list of its own, with nothing or what it shows told.
LEMMA ListGathers ==
  ASSUME NEW op \in Gathering \ {"preserve"}, Submit(op) \/ Fail(op),
         answer'.got \in {{}, Shown(op)}, answer'.sources = {}, answer'.kind # "balanced"
  PROVE  Gathers
BY DEF Gathers, GathersBy

\* What else such a step leaves as it is.
Beside ==
  /\ UNCHANGED last /\ ~At({"idle", "binarize", "held"}) /\ ~At({"binarize", "held"})'
  /\ host'.masks = host.masks /\ host'.mirror \in {host.mirror, {}}
  /\ \/ At({"idle"})'
     \/ locate'.kind = locate.kind /\ (locate'.plan = locate.plan \/ locate.kind \notin Prints)

\* Folds, also when they fail.
LEMMA FoldsGather ==
  ASSUME host \in HostTypes, NEW op \in FoldOps, Folds(op) \/ FoldFails(op)
  PROVE  /\ Gathers /\ UNCHANGED last
         /\ host'.masks = host.masks /\ host'.mirror \in {host.mirror, {}}
<1>1. op \in Gathering \ {"preserve"}
  BY DEF FoldOps, Gathering
<1>2. FoldHost.masks = host.masks /\ FoldHost.mirror = {}
  BY DEF FoldHost, HostTypes
<1>3. CASE Folds(op)
  <2>1. /\ Submit(op) /\ host' = FoldHost /\ UNCHANGED last
        /\ answer' = [Answer("fold", Current, Shown(op))
                       EXCEPT !.sources = UNION {content[b] : b \in Sources(op)}]
    BY <1>3 DEF Folds
  <2>2. /\ answer'.got = Shown(op) /\ answer'.kind = "fold"
        /\ answer'.sources = UNION {content[b] : b \in Sources(op)}
    BY <2>1 DEF Answer
  <2> QED
    BY <1>1, <1>2, <2>1, <2>2 DEF Gathers, GathersBy
<1>4. CASE FoldFails(op)
  <2>1. CASE Fail(op) /\ host' = FoldHost /\ answer' = NoAnswer
    BY <1>1, <1>2, <1>4, <2>1, ListGathers DEF FoldFails, NoAnswer
  <2>2. CASE Refuse /\ answer' = Answer("refused", Current, {}) /\ UNCHANGED host
    BY <1>4, <2>2, RefusedGathers DEF FoldFails, Answer
  <2> QED
    BY <1>4, <2>1, <2>2 DEF FoldFails
<1> QED
  BY <1>3, <1>4

\* Every list of a step inside a pass is one that gathers.
LEMMA InsideGathers ==
  ASSUME LInv, Inside
  PROVE  Gathers
<1>1. /\ host \in HostTypes
      /\ {"resetPools", "clearSeeds", "sweep", "sweepBare", "batch", "summary", "records",
          "rescan", "recordsBare", "readSeeds", "pitch"} \subseteq Gathering \ {"preserve"}
      /\ {"foldRow", "foldVertical", "foldDirection"} = FoldOps
  BY DEF LInv, TypeOK, Gathering, Tells, FoldOps
<1>2. NoAnswer.got = {} /\ NoAnswer.sources = {} /\ NoAnswer.kind # "balanced"
  BY DEF NoAnswer
<1>3. CASE ResetPoolsStep
  BY <1>1, <1>2, <1>3, ListGathers DEF ResetPoolsStep
<1>4. CASE ClearSeedsStep
  BY <1>1, <1>2, <1>4, ListGathers DEF ClearSeedsStep
<1>5. CASE FoldRow \/ FoldVertical \/ FoldDirection
  BY <1>1, <1>5, FoldsGather, SilentlyGathers DEF FoldRow, FoldVertical, FoldDirection
<1>6. CASE ScanVertical
  BY <1>1, <1>2, <1>6, ListGathers DEF ScanVertical
<1>7. CASE ReplayRows
  <2>1. PICK op \in {"summary", "records", "rescan", "recordsBare"} :
          Submit(op) /\ answer' = Answer("rows", Current, Shown(op))
    BY <1>7 DEF ReplayRows
  <2> QED
    BY <1>1, <2>1, ListGathers DEF Answer
<1>8. CASE WalkRows \/ Settle \/ TakeSweep \/ HostSweep \/ Swept \/ PlanPasses \/ Quit
  BY <1>8, SilentlyGathers DEF WalkRows, Settle, TakeSweep, HostSweep, Swept, PlanPasses, Quit
<1>9. CASE BatchSweeps
  BY <1>1, <1>2, <1>9, ListGathers, RefusedGathers DEF BatchSweeps
<1>10. CASE ScanDirection
  <2>1. PICK op \in {"sweep", "sweepBare"} :
          \/ Submit(op) /\ answer' \in {NoAnswer, Answer("rows", Current, Shown(op))}
          \/ Fail(op) /\ answer' = NoAnswer
    BY <1>10 DEF ScanDirection
  <2>2. answer'.got \in {{}, Shown(op)} /\ answer'.sources = {} /\ answer'.kind # "balanced"
    BY <2>1 DEF NoAnswer, Answer
  <2> QED
    BY <1>1, <2>1, <2>2, ListGathers
<1>11. CASE ReadSeeds
  <2>1. \/ Submit("readSeeds") /\ answer' = Answer("seeds", Current, Shown("readSeeds"))
        \/ Fail("readSeeds") /\ answer' = NoAnswer
    BY <1>11 DEF ReadSeeds
  <2> QED
    BY <1>1, <2>1, ListGathers DEF Answer, NoAnswer
<1>12. CASE ClearSeeds
  BY <1>1, <1>2, <1>12, ListGathers DEF ClearSeeds
<1>13. CASE Pitch
  BY <1>1, <1>2, <1>13, ListGathers, RefusedGathers DEF Pitch
<1> QED
  BY <1>3, <1>4, <1>5, <1>6, <1>7, <1>8, <1>9, <1>10, <1>11, <1>12, <1>13 DEF Inside

\* And it leaves masks, pass and plan as they are.
LEMMA InsideBeside ==
  ASSUME LInv, Inside
  PROVE  Beside
<1>1. ~At({"idle", "binarize", "held"}) /\ Active
  BY DEF Inside, ResetPoolsStep, ClearSeedsStep, FoldRow, ScanVertical, FoldVertical,
     ReplayRows, WalkRows, Settle, BatchSweeps, TakeSweep, ScanDirection, FoldDirection,
     HostSweep, Swept, PlanPasses, ReadSeeds, ClearSeeds, Pitch, Quit, Polls, At, Active
<1>2. locate \in LocateTypes /\ host \in HostTypes
  BY <1>1, ActiveTypes DEF LInv, TypeOK
<1>3. UNCHANGED last /\ host'.masks = host.masks /\ host'.mirror \in {host.mirror, {}}
  <2>1. CASE ResetPoolsStep \/ ClearSeedsStep
    BY <1>2, <2>1 DEF ResetPoolsStep, ClearSeedsStep, HostTypes
  <2>2. CASE FoldRow \/ FoldVertical \/ FoldDirection
    BY <1>2, <2>2, FoldsGather
    DEF FoldRow, FoldVertical, FoldDirection, FoldOps, Silently
  <2>3. CASE ReplayRows \/ WalkRows \/ Settle \/ ScanVertical
    BY <2>3 DEF ReplayRows, WalkRows, Settle, ScanVertical, Silently
  <2>4. CASE BatchSweeps \/ TakeSweep \/ ScanDirection \/ HostSweep \/ Swept
    BY <2>4 DEF BatchSweeps, TakeSweep, ScanDirection, HostSweep, Swept, Silently
  <2>5. CASE PlanPasses \/ ReadSeeds \/ ClearSeeds \/ Pitch \/ Quit
    BY <2>5 DEF PlanPasses, ReadSeeds, ClearSeeds, Pitch, Quit, Silently, Drop
  <2> QED
    BY <2>1, <2>2, <2>3, <2>4, <2>5 DEF Inside
<1> DEFINE OnIn == /\ locate'.kind = locate.kind /\ locate'.at \notin {"binarize", "held"}
                   /\ locate'.plan = locate.plan \/ locate.kind \notin Prints
<1>4. At({"idle"})' \/ OnIn
  <2>1. CASE ResetPoolsStep \/ ClearSeedsStep
    BY <1>2, <2>1 DEF ResetPoolsStep, ClearSeedsStep, Go, LocateTypes
  <2>2. CASE FoldRow \/ FoldVertical \/ FoldDirection
    BY <1>2, <2>2 DEF FoldRow, FoldVertical, FoldDirection, Go, Retire, LocateTypes
  <2>3. CASE ReplayRows \/ WalkRows
    <3>1. \E seeds : locate' = [locate EXCEPT !.at = "settle", !.seeds = seeds]
      BY <2>3 DEF ReplayRows, WalkRows
    <3> QED
      BY <1>2, <3>1 DEF LocateTypes
  <2>4. CASE Settle \/ ScanVertical
    BY <1>2, <2>4 DEF Settle, ScanVertical, Go, Retire, LocateTypes
  <2>5. CASE BatchSweeps
    <3>1. \E at \in {"sweep", "hostSweep"} : \E batch :
            locate' = [locate EXCEPT !.at = at, !.dir = 1, !.batch = batch]
      BY <2>5 DEF BatchSweeps, NextSweep
    <3> QED
      BY <1>2, <3>1 DEF LocateTypes
  <2>6. CASE TakeSweep \/ ScanDirection
    BY <1>2, <2>6 DEF TakeSweep, ScanDirection, Go, Retire, LocateTypes
  <2>7. CASE HostSweep
    <3>1. \E seeds : locate' = [locate EXCEPT !.at = "swept", !.seeds = seeds]
      BY <2>7 DEF HostSweep
    <3> QED
      BY <1>2, <3>1 DEF LocateTypes
  <2>8. CASE Swept
    BY <1>2, <2>8 DEF Swept, NextSweep, LocateTypes
  <2>9. CASE PlanPasses
    <3>1. \/ locate.kind \in {"raw", "average"}
               /\ \E plan : locate' = [locate EXCEPT !.at = "pass", !.plan = plan]
          \/ \E at \in {"pass", "finish", "merge"} : Go(at)
      BY <2>9 DEF PlanPasses
    <3> QED
      BY <1>2, <3>1 DEF Go, LocateTypes, Prints
  <2>10. CASE ReadSeeds \/ ClearSeeds
    BY <1>2, <2>10 DEF ReadSeeds, ClearSeeds, Go, LocateTypes
  <2>11. CASE Pitch
    <3>1. locate.kind = "average"
      BY <2>11 DEF Pitch, LInv, PlacesTrue, Merging, At
    <3>2. \/ \E plan : locate' = [locate EXCEPT
                         !.at = IF plan = <<>> THEN "finish" ELSE "pass", !.plan = plan]
          \/ Drop \/ Go("finish")
      BY <2>11 DEF Pitch
    <3>3. locate.kind \notin Prints
      BY <3>1 DEF Prints
    <3>4. CASE Drop
      BY <3>4 DEF Drop, At
    <3>5. CASE Go("finish")
      BY <1>2, <3>5 DEF Go, LocateTypes
    <3>6. ASSUME NEW plan, locate' = [locate EXCEPT
                     !.at = IF plan = <<>> THEN "finish" ELSE "pass", !.plan = plan]
          PROVE  OnIn
      <4>1. \E at \in {"finish", "pass"} : locate' = [locate EXCEPT !.at = at, !.plan = plan]
        BY <3>6
      <4> QED
        BY <1>2, <3>3, <4>1 DEF LocateTypes
    <3> QED
      BY <3>2, <3>4, <3>5, <3>6
  <2>12. CASE Quit
    BY <1>2, <2>12 DEF Quit, LocateTypes
  <2> QED
    BY <2>1, <2>2, <2>3, <2>4, <2>5, <2>6, <2>7, <2>8, <2>9, <2>10, <2>11, <2>12 DEF Inside
<1>5. ~At({"binarize", "held"})'
  BY <1>4 DEF At
<1> QED
  BY <1>1, <1>3, <1>4, <1>5 DEF Beside

\* Lists that gather leave the level and the snapshot as they are, and draw nothing
\* from a batch's word.
LEMMA GatheringLists ==
  ASSUME NEW op \in Gathering \ {"preserve"}
  PROVE  Dry(LocateEffects[op]) /\ Leaves(LocateEffects[op], {"balanced", "preservedMasks"})
<1>1. Dry(LocateEffects[op])
  BY EffectsAssumption, DirectionTypes
<1>2. {"balanced", "preservedMasks"} \subseteq Live
  BY BufferNames DEF Level, Others
<1>3. CASE op \in DOMAIN Tells
  <2>1. Leaves(LocateEffects[op], Live)
    BY <1>3, Looking
  <2> QED
    BY <1>1, <1>2, <2>1 DEF Leaves
<1>4. CASE op \in {"rescan", "batch", "sweep", "foldRow", "foldVertical", "foldDirection",
                   "resetPools", "clearSeeds"}
  <2>1. /\ Leaves(LocateEffects["rescan"], Live \ (Rows \cup {"scanRecords", "seedHistogram"}))
        /\ \A o \in {"batch", "sweep"} :
             Leaves(LocateEffects[o], Live \ (DirectionOutcomes \cup {"seedHistogram"}))
        /\ \A o \in FoldOps \cup {"resetPools"} : Leaves(LocateEffects[o], Live \ Pools)
        /\ Leaves(LocateEffects["clearSeeds"], Live \ {"seedHistogram"})
    BY EffectsAssumption, DirectionTypes DEF FoldOps
  <2>2. /\ {"balanced", "preservedMasks"} \cap (Rows \cup {"scanRecords", "seedHistogram"}) = {}
        /\ {"balanced", "preservedMasks"} \cap (DirectionOutcomes \cup {"seedHistogram"}) = {}
        /\ {"balanced", "preservedMasks"} \cap Pools = {}
        /\ {"balanced", "preservedMasks"} \cap {"seedHistogram"} = {}
    BY DEF Rows, DirectionOutcomes, Pools
  <2>3. \E bs : /\ Leaves(LocateEffects[op], Live \ bs)
                /\ {"balanced", "preservedMasks"} \cap bs = {}
    <3>1. CASE op = "rescan"
      BY <2>1, <2>2, <3>1
    <3>2. CASE op \in {"batch", "sweep"}
      BY <2>1, <2>2, <3>2
    <3>3. CASE op \in FoldOps \cup {"resetPools"}
      BY <2>1, <2>2, <3>3
    <3>4. CASE op = "clearSeeds"
      BY <2>1, <2>2, <3>4
    <3> QED
      BY <1>4, <3>1, <3>2, <3>3, <3>4 DEF FoldOps
  <2> QED
    BY <1>1, <1>2, <2>3 DEF Leaves
<1> QED
  BY <1>1, <1>3, <1>4 DEF Gathering

\* Where nothing holds the word, nothing comes to hold it.
LEMMA DrawnWordFree ==
  ASSUME NEW held \in [Live -> SUBSET Stamps], NEW origins,
         Drawn(origins) \subseteq {"now"} \cup (Live \ {"maxSurvivors"}),
         \A b \in Live \ {"maxSurvivors"} : WordFree(held[b])
  PROVE  WordFree(StampsOf(origins, held, {Current}))
<1> DEFINE S    == Stamps \ {Word}
           from == Live \ {"maxSurvivors"}
<1>1. Current \in S /\ Word \notin S
  BY DEF Stamps, Current, Word
<1>2. from \in SUBSET Live /\ \A b \in from : held[b] \subseteq S
  BY DEF WordFree
<1> HIDE DEF S, from
<1>3. StampsOf(origins, held, {Current}) \subseteq S
  BY <1>1, <1>2, Stamped DEF from
<1> QED
  BY <1>1, <1>3 DEF WordFree

\* A list that draws nothing from the word spreads it nowhere.
LEMMA DryLists ==
  ASSUME TypeOK, NEW op, Dry(LocateEffects[op]), Submit(op) \/ Fail(op),
         \A b \in Live \ {"maxSurvivors"} : WordFree(content[b])
  PROVE  /\ \A b \in Live \ {"maxSurvivors"} : WordFree(content'[b])
         /\ WordFree(Shown(op))
<1>1. content \in [Live -> SUBSET Stamps]
  BY DEF TypeOK
<1>2. ASSUME NEW b \in Live \ {"maxSurvivors"}
      PROVE  WordFree(StampsOf(LocateEffects[op].origin[b], content, {Current}))
  <2>1. Drawn(LocateEffects[op].origin[b]) \subseteq {"now"} \cup (Live \ {"maxSurvivors"})
    BY DEF Dry, From
  <2> QED
    BY <1>1, <2>1, DrawnWordFree
<1>3. ASSUME NEW b \in Live \ {"maxSurvivors"}
      PROVE  WordFree(content'[b])
  <2>1. CASE Submit(op)
    BY <1>2, <1>3, <2>1, Submitted
  <2>2. CASE Fail(op)
    <3>1. content'[b] \subseteq
            content[b] \cup StampsOf(LocateEffects[op].origin[b], content, {Current}) \cup {Torn}
      BY <2>2, FailAdds
    <3> QED
      BY <1>2, <3>1 DEF WordFree, Word, Torn
  <2> QED
    BY <2>1, <2>2
<1>4. WordFree(Shown(op))
  <2>1. Drawn(LocateEffects[op].shown) \subseteq {"now"} \cup (Live \ {"maxSurvivors"})
    BY DEF Dry, Drawn
  <2> QED
    BY <1>1, <2>1, DrawnWordFree DEF Shown, ShownBy
<1> QED
  BY <1>3, <1>4

\* Inside a pass the word stays apart.
LEMMA InsideApart ==
  ASSUME LInv, WordApart, Inside
  PROVE  WordApart' /\ WordTold'
<1>1. Beside /\ Gathers
  BY InsideGathers, InsideBeside
<1>2. PICK op \in Gathering \ {"preserve"} : GathersBy(op)
  BY <1>1 DEF Gathers
<1>3. Dry(LocateEffects[op]) /\ Leaves(LocateEffects[op], {"balanced", "preservedMasks"})
  BY GatheringLists
<1>4. content'["balanced"] = content["balanced"]
  <2> DEFINE bs == {"balanced", "preservedMasks"}
  <2>1. bs \in SUBSET Live /\ "balanced" \in bs /\ Leaves(LocateEffects[op], bs)
    BY <1>3, BufferNames DEF Level, Others
  <2>2. TypeOK /\ (Submit(op) \/ Fail(op))
    BY <1>2 DEF LInv, GathersBy
  <2> HIDE DEF bs
  <2> QED
    BY <2>1, <2>2, SubmitLeaves, FailLeaves
<1>5. ASSUME locate.kind \notin Prints
      PROVE  /\ \A b \in Live \ {"maxSurvivors"} : WordFree(content'[b])
             /\ WordFree(Shown(op)) /\ WordFree(host'.masks) /\ WordFree(host'.mirror)
             /\ WordFree(answer'.got) /\ WordFree(answer'.sources)
  <2>1. /\ \A b \in Live \ {"maxSurvivors"} : WordFree(content[b])
        /\ WordFree(host.masks) /\ WordFree(host.mirror)
    BY <1>1, <1>5 DEF WordApart, Beside, At
  <2>2. /\ \A b \in Live \ {"maxSurvivors"} : WordFree(content'[b])
        /\ WordFree(Shown(op))
    BY <1>2, <1>3, <2>1, DryLists DEF LInv, GathersBy
  <2>3. WordFree(answer'.sources)
    <3>1. \A o \in FoldOps : Sources(o) \subseteq Live \ {"maxSurvivors"}
      BY SourceNames, BufferNames DEF FoldOps, DirectionOutcomes, Rows
    <3> QED
      BY <1>2, <2>1, <3>1 DEF GathersBy, WordFree
  <2> QED
    BY <1>1, <1>2, <2>1, <2>2, <2>3 DEF Beside, GathersBy, WordFree
<1>6. CASE At({"idle"})'
  <2>1. WordTold'
    BY <1>2, <1>6 DEF WordTold, WordInPrints, GathersBy
  <2> QED
    BY <1>6, <2>1 DEF WordApart
<1>7. CASE locate'.kind = locate.kind /\ (locate'.plan = locate.plan \/ locate.kind \notin Prints)
  <2>1. ~At({"idle"}) /\ answer'.kind # "balanced"
    BY <1>1, <1>2 DEF Beside, At, GathersBy
  <2>2. WordApart'
    BY <1>1, <1>4, <1>5, <1>7, <2>1 DEF WordApart, Beside, At
  <2>3. WordTold'
    BY <1>5, <1>7, <2>1 DEF WordTold, WordInPrints, WordFree
  <2> QED
    BY <2>2, <2>3
<1> QED
  BY <1>1, <1>6, <1>7 DEF Beside

\* Inside a pass an older snapshot is left alone.
LEMMA InsideSnapshot ==
  ASSUME LInv, SnapshotTrue, Inside
  PROVE  SnapshotTrue'
<1>1. Beside /\ Gathers
  BY InsideGathers, InsideBeside
<1>2. PICK op \in Gathering \ {"preserve"} : GathersBy(op)
  BY <1>1 DEF Gathers
<1>3. Leaves(LocateEffects[op], {"balanced", "preservedMasks"})
  BY GatheringLists
<1>4. content'["preservedMasks"] = content["preservedMasks"]
  <2> DEFINE bs == {"balanced", "preservedMasks"}
  <2>1. bs \in SUBSET Live /\ "preservedMasks" \in bs /\ Leaves(LocateEffects[op], bs)
    BY <1>3, BufferNames DEF Level, Others
  <2>2. TypeOK /\ (Submit(op) \/ Fail(op))
    BY <1>2 DEF LInv, GathersBy
  <2> HIDE DEF bs
  <2> QED
    BY <2>1, <2>2, SubmitLeaves, FailLeaves
<1>5. last' = last /\ ~At({"idle"}) /\ ~Located
  BY <1>1 DEF Beside, At, Located
<1> QED
  BY <1>4, <1>5 DEF SnapshotTrue, LateSnapshot

\* A new pass begins its buffers from those of the pass before.
LEMMA PassBuffers ==
  ASSUME TypeOK, NEW op, BeginPass(op)
  PROVE  LET aged == [b \in Live |-> Older(content[b])]
         IN  /\ aged \in [Live -> SUBSET Stamps]
             /\ \A b \in Live :
                  content'[b] = StampsOf(LocateEffects[op].origin[b], aged, {Current})
             /\ \A b \in Live : /\ Leaves(LocateEffects[op], {b}) => content'[b] = aged[b]
                                /\ WordFree(content[b]) => WordFree(aged[b])
<1> DEFINE aged == [b \in Live |-> Older(content[b])]
<1>1. content \in [Live -> SUBSET Stamps] /\ DOMAIN content = Live
  BY DEF TypeOK
<1>2. aged \in [Live -> SUBSET Stamps]
  BY <1>1, OlderStamps
<1>3. \A b \in Live : content'[b] = StampsOf(LocateEffects[op].origin[b], aged, {Current})
  BY <1>1 DEF BeginPass, SucceedAnew, Take, After
<1>4. ASSUME NEW b \in Live, Leaves(LocateEffects[op], {b})
      PROVE  content'[b] = aged[b]
  <2>1. LocateEffects[op].origin[b] = {b}
    BY <1>4 DEF Leaves
  <2> HIDE DEF aged
  <2>2. StampsOf({b}, aged, {Current}) = aged[b]
    BY <1>2, StampedSame
  <2> QED
    BY <1>3, <2>1, <2>2
<1>5. ASSUME NEW b \in Live, WordFree(content[b])
      PROVE  WordFree(aged[b])
  BY <1>5 DEF WordFree, Older, Word, Before
<1> QED
  BY <1>2, <1>3, <1>4, <1>5

\* A pass that is no print retry keeps the word apart.
LEMMA DryPass ==
  ASSUME TypeOK, NEW op, Dry(LocateEffects[op]), BeginPass(op),
         \A b \in Live \ {"maxSurvivors"} : WordFree(content[b])
  PROVE  \A b \in Live \ {"maxSurvivors"} : WordFree(content'[b])
<1> DEFINE aged == [b \in Live |-> Older(content[b])]
<1> SUFFICES ASSUME NEW b \in Live \ {"maxSurvivors"} PROVE WordFree(content'[b])
  OBVIOUS
<1>1. /\ aged \in [Live -> SUBSET Stamps]
      /\ content'[b] = StampsOf(LocateEffects[op].origin[b], aged, {Current})
      /\ \A c \in Live \ {"maxSurvivors"} : WordFree(aged[c])
  BY PassBuffers
<1>2. Drawn(LocateEffects[op].origin[b]) \subseteq {"now"} \cup (Live \ {"maxSurvivors"})
  BY DEF Dry, From
<1> HIDE DEF aged
<1> QED
  BY <1>1, <1>2, DrawnWordFree

\* What the list of a pass leaves alone.
LEMMA PassDry ==
  ASSUME locate \in LocateTypes, NEW kind \in Kinds, ~locate.chained => kind \in Plain
  PROVE  /\ kind \notin Prints => Dry(LocateEffects[ListOf(kind)])
         /\ kind # "raw" => Leaves(LocateEffects[ListOf(kind)], {"balanced"})
         /\ Leaves(LocateEffects[ListOf(kind)], {"preservedMasks"})
<1>1. Passes(LocateEffects[ListOf(kind)], kind,
             IF locate.chained THEN Records \cup Rows ELSE Records)
  BY ListPasses
<1>2. /\ kind # "raw" => Leaves(LocateEffects[ListOf(kind)], {"balanced"})
      /\ Leaves(LocateEffects[ListOf(kind)], {"preservedMasks"})
  BY <1>1 DEF Passes, Leaves
<1>3. ASSUME kind \notin Prints
      PROVE  Dry(LocateEffects[ListOf(kind)])
  <2>1. ListOf(kind) \in (DOMAIN Bases \ Prints) \cup {Bare[k] : k \in DOMAIN Bare}
    <3>1. kind \in DOMAIN Bases /\ (kind \in Plain => kind \in DOMAIN Bare)
      BY BaseNames DEF Plain, Bare
    <3> QED
      BY <1>3, <3>1 DEF ListOf
  <2> QED
    BY <2>1, EffectsAssumption, DirectionTypes
<1> QED
  BY <1>2, <1>3

\* Before a pass and after it.
LEMMA PassApart ==
  ASSUME LInv, WordApart, Binarize \/ NextPass
  PROVE  WordApart' /\ WordTold'
<1>1. WordTold'
  BY DEF Binarize, NextPass, RunPass, NoAnswer, WordTold, WordInPrints
<1>2. CASE Drop
  BY <1>1, <1>2 DEF Drop, WordApart, At
<1> DEFINE kind == IF At({"binarize"}) THEN "raw" ELSE Head(locate.plan)
<1>3. /\ locate \in LocateTypes /\ host \in HostTypes /\ ~At({"idle"})
      /\ Binarize => locate.plan = <<>>
  BY DEF LInv, TypeOK, SharesTrue, Binarize, NextPass, At
<1>4. kind \in Kinds /\ (~locate.chained => kind \in Plain)
  <2>1. CASE Binarize
    BY <2>1 DEF Binarize, Kinds, Plain
  <2>2. CASE NextPass
    <3>1. At({"pass"}) /\ ~At({"binarize"})
      BY <2>2 DEF NextPass, At
    <3> QED
      BY <3>1, NextPlans
  <2> QED
    BY <2>1, <2>2
<1>5. CASE BeginPass(ListOf(kind)) /\ NewPass(kind)
  <2>1. /\ kind \notin Prints => Dry(LocateEffects[ListOf(kind)])
        /\ kind # "raw" => Leaves(LocateEffects[ListOf(kind)], {"balanced"})
    BY <1>3, <1>4, PassDry
  <2>2. /\ locate'.kind = kind /\ host'.masks = {} /\ host'.mirror = host.mirror
        /\ locate'.plan = IF locate.plan = <<>> THEN <<>> ELSE Tail(locate.plan)
    <3>1. /\ host' = [host EXCEPT !.masks = {}]
          /\ locate' = [locate EXCEPT !.at = IF kind = "raw" THEN "reset" ELSE "rows",
                              !.kind = kind, !.plan = IF @ = <<>> THEN @ ELSE Tail(@),
                              !.closure = "lazy", !.pixels = FALSE, !.have = FALSE]
      BY <1>5 DEF NewPass
    <3> HIDE DEF kind
    <3> QED
      BY <1>3, <3>1 DEF LocateTypes, HostTypes
  <2>3. kind \in Prints => locate'.plan \in {<<>>, <<"printSecond">>}
    <3> SUFFICES ASSUME kind \in Prints PROVE locate'.plan \in {<<>>, <<"printSecond">>}
      OBVIOUS
    <3>1. NextPass /\ Active /\ At({"pass"}) /\ kind = Head(locate.plan)
      BY DEF Prints, Binarize, NextPass, At, Active
    <3>2. locate.plan # <<>> /\ locate.plan \in Seq(Kinds)
      BY <1>3, <3>1 DEF LInv, PlansTrue, LocateTypes
    <3>3. CASE locate.kind \in Prints
      <4>1. locate.plan = <<"printSecond">>
        BY <1>3, <3>2, <3>3 DEF WordApart
      <4> QED
        BY <2>2, <4>1
    <3>4. CASE locate.plan \in ResidentPlans
      <4>1. locate.plan \in {<<"printFirst", "printSecond">>, <<"printSecond">>}
        BY <3>1, <3>4 DEF ResidentPlans, Scheduled, DevicePlans, Prints
      <4>2. CASE locate.plan = <<"printFirst", "printSecond">>
        BY <2>2, <4>2
      <4>3. CASE locate.plan = <<"printSecond">>
        BY <2>2, <4>3
      <4> QED
        BY <4>1, <4>2, <4>3
    <3>5. CASE locate.plan \in Seq({"filtered", "sharp"}) \/ locate.plan = <<"average">>
      <4>1. Head(locate.plan) \in {"filtered", "sharp", "average"}
        BY <3>2, <3>5
      <4> QED
        BY <3>1, <4>1 DEF Prints
    <3> QED
      BY <3>1, <3>2, <3>4, <3>5 DEF LInv, PlansTrue
  <2>4. locate.kind \in Prints => kind \in Prints
    <3> SUFFICES ASSUME locate.kind \in Prints PROVE kind \in Prints
      OBVIOUS
    <3>1. locate.plan \in {<<>>, <<"printSecond">>}
      BY <1>3 DEF WordApart
    <3>2. CASE Binarize
      BY <1>3, <3>2 DEF WordApart, Binarize, Prints
    <3>3. CASE NextPass
      <4>1. locate.plan # <<>> /\ ~At({"binarize"})
        BY <3>3 DEF LInv, PlansTrue, NextPass, At, Active
      <4> QED
        BY <3>1, <4>1 DEF Prints
    <3> QED
      BY <3>2, <3>3
  <2>5. kind \notin Prints => \A b \in Live \ {"maxSurvivors"} : WordFree(content'[b])
    <3> SUFFICES ASSUME kind \notin Prints
                 PROVE  \A b \in Live \ {"maxSurvivors"} : WordFree(content'[b])
      OBVIOUS
    <3>1. \A b \in Live \ {"maxSurvivors"} : WordFree(content[b])
      BY <1>3, <2>4 DEF WordApart
    <3> HIDE DEF kind
    <3> QED
      BY <1>5, <2>1, <3>1, DryPass DEF LInv
  <2>6. kind \notin Prints => WordFree(host'.mirror) /\ WordFree(host'.masks)
    BY <1>3, <2>2, <2>4 DEF WordApart, WordFree
  <2>7. WordFree(content'["balanced"])
    <3>1. "balanced" \in Live \ {"maxSurvivors"}
      BY BufferNames DEF Level
    <3>2. CASE kind = "raw"
      BY <2>5, <3>1, <3>2 DEF Prints
    <3>3. CASE kind # "raw"
      <4> HIDE DEF kind
      <4>1. Leaves(LocateEffects[ListOf(kind)], {"balanced"}) /\ WordFree(content["balanced"])
        BY <1>3, <2>1, <3>3 DEF WordApart
      <4> QED
        BY <1>5, <3>1, <4>1, PassBuffers DEF LInv
    <3> QED
      BY <3>2, <3>3
  <2> HIDE DEF kind
  <2>8. WordApart'
    <3>1. ~At({"binarize"})'
      BY <1>3, <1>5 DEF NewPass, LocateTypes, At
    <3> QED
      BY <2>2, <2>3, <2>5, <2>6, <2>7, <3>1 DEF WordApart
  <2> QED
    BY <1>1, <2>8
<1> QED
  BY <1>2, <1>5 DEF Binarize, NextPass, RunPass, At

\* A pass that begins or breaks off makes an older snapshot no newer.
LEMMA PassSnapshot ==
  ASSUME LInv, SnapshotTrue, Binarize \/ NextPass
  PROVE  SnapshotTrue'
<1>1. ~At({"idle"}) /\ ~Located /\ "preservedMasks" \in Live
  BY BufferNames DEF Binarize, NextPass, Located, At, Others
<1>2. PICK kind \in Kinds : /\ locate \in LocateTypes /\ (~locate.chained => kind \in Plain)
                            /\ RunPass(kind)
  <2>1. CASE Binarize
    BY <2>1 DEF Binarize, Kinds, Plain, LInv, TypeOK, At
  <2>2. CASE NextPass
    <3>1. At({"pass"}) /\ locate \in LocateTypes /\ RunPass(Head(locate.plan))
      BY <2>2 DEF NextPass, LInv, TypeOK, At
    <3> QED
      BY <3>1, NextPlans
  <2> QED
    BY <2>1, <2>2
<1>3. last' \in {last, NoDetector}
  BY <1>2 DEF RunPass, NewPass, Supersede, Drop
<1>4. Leaves(LocateEffects[ListOf(kind)], {"preservedMasks"})
  BY <1>2, PassDry
<1>5. /\ LateSnapshot = {Earlier} => LateSnapshot' = {Earlier}
      /\ Torn \in LateSnapshot => Torn \in LateSnapshot'
  <2>1. CASE BeginPass(ListOf(kind))
    <3>1. content'["preservedMasks"] = Older(content["preservedMasks"])
      BY <1>1, <1>4, <2>1, PassBuffers DEF LInv
    <3> QED
      BY <3>1 DEF LateSnapshot, Older, Earlier, Torn, Current
  <2>2. CASE Fail(ListOf(kind))
    <3> DEFINE bs == {"preservedMasks"}
    <3>1. bs \in SUBSET Live /\ "preservedMasks" \in bs
          /\ Leaves(LocateEffects[ListOf(kind)], bs) /\ TypeOK
      BY <1>1, <1>4 DEF LInv
    <3> HIDE DEF bs
    <3>2. content'["preservedMasks"] = content["preservedMasks"]
      BY <2>2, <3>1, FailLeaves
    <3> QED
      BY <3>2 DEF LateSnapshot
  <2> QED
    BY <1>2, <2>1, <2>2 DEF RunPass
<1>6. last.closure = "preserved" =>
        ~last.fresh /\ (LateSnapshot = {Earlier} \/ Torn \in LateSnapshot)
  BY <1>1 DEF SnapshotTrue
<1> QED
  BY <1>3, <1>5, <1>6 DEF SnapshotTrue, NoDetector

\* The end of a locate, and what its detector is asked for.
Asks == EnsureChannels \/ EnsureBitmap \/ CandidateUnion

\* What is asked of a detector is one list, or what the host has.
LEMMA AsksOne ==
  ASSUME LInv, Asks
  PROVE  /\ UNCHANGED last /\ content' = content /\ ~At({"idle", "binarize"})
         /\ locate \in LocateTypes /\ locate' \in LocateTypes
         /\ locate'.at = locate.at /\ locate'.kind = locate.kind
         /\ locate'.plan = locate.plan /\ locate'.have = locate.have
<1>1. UNCHANGED last /\ ~At({"idle", "binarize"}) /\ Active
  BY DEF Asks, EnsureChannels, EnsureBitmap, CandidateUnion, At, Active
<1>2. locate \in LocateTypes /\ content \in [Live -> SUBSET Stamps]
  BY <1>1, ActiveTypes DEF LInv, TypeOK
<1>3. Refuse \/ \E op \in {"masks", "preserved", "balanced", "readPool"} : Submit(op)
  BY DEF Asks, EnsureChannels, EnsureBitmap, CandidateUnion, Deliver
<1>4. content' = content
  <2>1. CASE Refuse
    BY <2>1 DEF Refuse
  <2>2. ASSUME NEW op \in {"masks", "preserved", "balanced", "readPool"}, Submit(op)
        PROVE  content' = content
    <3>1. Leaves(LocateEffects[op], Live)
      BY Looking DEF Tells
    <3>2. content' \in [Live -> SUBSET Stamps] /\ \A b \in Live : content'[b] = content[b]
      BY <2>2, <3>1, Submitted, SubmitLeaves DEF LInv
    <3> QED
      BY <1>2, <3>2
  <2> QED
    BY <1>3, <2>1, <2>2
<1>5. /\ locate' \in LocateTypes
      /\ locate'.at = locate.at /\ locate'.kind = locate.kind
      /\ locate'.plan = locate.plan /\ locate'.have = locate.have
  <2>1. CASE EnsureChannels
    <3>1. \E pixels \in BOOLEAN : TakeClosure(pixels)
      BY <2>1 DEF EnsureChannels
    <3> QED
      BY <1>2, <3>1 DEF TakeClosure, LocateTypes
  <2>2. CASE EnsureBitmap
    BY <1>2, <2>2 DEF EnsureBitmap, LocateTypes
  <2>3. CASE CandidateUnion
    BY <1>2, <2>3 DEF CandidateUnion
  <2> QED
    BY <2>1, <2>2, <2>3 DEF Asks
<1> QED
  BY <1>1, <1>2, <1>4, <1>5

\* The word is told by the print retries only.
LEMMA AsksApart ==
  ASSUME LInv, WordApart, Asks
  PROVE  WordApart' /\ WordTold'
<1>1. /\ content' = content /\ ~At({"idle", "binarize"}) /\ host \in HostTypes
      /\ locate'.at = locate.at /\ locate'.kind = locate.kind /\ locate'.plan = locate.plan
  BY AsksOne DEF LInv, TypeOK
<1>2. /\ \A b \in {"packedMasks", "preservedMasks", "balanced", "familyPool",
                   "familyPoolRecord"} : b \in Live \ {"maxSurvivors"}
      /\ Drawn(LocateEffects["masks"].shown) = {"packedMasks"}
      /\ Drawn(LocateEffects["preserved"].shown) = {"preservedMasks"}
      /\ Drawn(LocateEffects["balanced"].shown) = {"balanced"}
  BY Looking, BufferNames DEF Tells, Records, Others, Level, Pools
<1>3. /\ Shown("masks") = content["packedMasks"]
      /\ Shown("preserved") = content["preservedMasks"]
      /\ Shown("balanced") = content["balanced"]
  BY <1>2, ShownOne DEF LInv
<1>4. ASSUME \A b \in Live \ {"maxSurvivors"} : WordFree(content[b])
      PROVE  WordFree(Shown("readPool"))
  <2>1. Dry(LocateEffects["readPool"])
    BY GatheringLists DEF Gathering, Tells
  <2>2. Drawn(LocateEffects["readPool"].shown) \subseteq {"now"} \cup (Live \ {"maxSurvivors"})
    BY <2>1 DEF Dry, Drawn
  <2> QED
    BY <1>4, <2>2, DrawnWordFree DEF Shown, ShownBy, LInv, TypeOK
<1>5. /\ answer'.sources = {}
      /\ answer'.kind = "balanced" => answer'.got = Shown("balanced")
  <2>1. \/ answer' = NoAnswer \/ answer' = Answer("balanced", Current, Shown("balanced"))
        \/ \E kind \in {"masks", "pool"} : \E shown : answer' = Answer(kind, Current, shown)
    <3>1. CASE EnsureChannels
      BY <3>1 DEF EnsureChannels, Deliver
    <3>2. CASE EnsureBitmap
      BY <3>2 DEF EnsureBitmap
    <3>3. CASE CandidateUnion
      BY <3>3 DEF CandidateUnion
    <3> QED
      BY <3>1, <3>2, <3>3 DEF Asks
  <2> QED
    BY <2>1 DEF Answer, NoAnswer
<1>6. ASSUME locate.kind \notin Prints
      PROVE  WordFree(answer'.got) /\ WordFree(host'.masks) /\ WordFree(host'.mirror)
  <2>1. /\ \A b \in Live \ {"maxSurvivors"} : WordFree(content[b])
        /\ WordFree(host.masks) /\ WordFree(host.mirror)
    BY <1>1, <1>6 DEF WordApart, At
  <2>2. /\ WordFree(Shown("masks")) /\ WordFree(Shown("preserved"))
        /\ WordFree(Shown("balanced")) /\ WordFree(Shown("readPool"))
    BY <1>2, <1>3, <1>4, <2>1
  <2>3. CASE EnsureChannels
    <3>1. CASE Deliver(Current)
      <4>1. /\ host' = [host EXCEPT !.masks = MasksNow] /\ WordFree(MasksNow)
            /\ answer'.got = MasksNow
        BY <2>1, <2>2, <3>1 DEF Deliver, MasksNow, Answer
      <4> QED
        BY <1>1, <2>1, <4>1 DEF HostTypes
    <3>2. CASE UNCHANGED host /\ answer' \in {NoAnswer, Answer("masks", Current, Shown("preserved"))}
      BY <2>1, <2>2, <3>2 DEF NoAnswer, Answer, WordFree
    <3> QED
      BY <2>3, <3>1, <3>2 DEF EnsureChannels
  <2>4. CASE EnsureBitmap
    BY <2>1, <2>2, <2>4 DEF EnsureBitmap, Answer
  <2>5. CASE CandidateUnion
    <3>1. CASE UNCHANGED host /\ answer' = Answer("pool", Current, host.mirror)
      BY <2>1, <3>1 DEF Answer
    <3>2. CASE /\ host' = [host EXCEPT !.mirrored = TRUE, !.mirror = Shown("readPool")]
               /\ answer' = Answer("pool", Current, Shown("readPool"))
      BY <1>1, <2>1, <2>2, <3>2 DEF Answer, HostTypes
    <3> QED
      BY <2>5, <3>1, <3>2 DEF CandidateUnion
  <2> QED
    BY <2>3, <2>4, <2>5 DEF Asks
<1>7. answer'.kind = "balanced" => WordFree(answer'.got)
  BY <1>1, <1>3, <1>5 DEF WordApart, At
<1>8. WordApart'
  BY <1>1, <1>6 DEF WordApart, At
<1> QED
  BY <1>1, <1>5, <1>6, <1>7, <1>8 DEF WordTold, WordInPrints, WordFree

\* The end of the search.
LEMMA FinishApart ==
  ASSUME LInv, WordApart, Finish
  PROVE  WordApart' /\ WordTold'
<1>1. WordTold'
  BY DEF Finish, NoAnswer, WordTold, WordInPrints
<1>2. CASE Drop
  BY <1>1, <1>2 DEF Drop, WordApart, At
<1>3. /\ At({"finish"}) /\ ~At({"idle"}) /\ locate \in LocateTypes
      /\ content \in [Live -> SUBSET Stamps]
  BY DEF Finish, LInv, TypeOK, At
<1>4. ASSUME NEW closure, KeepOn(closure), UNCHANGED host,
             content'["balanced"] = content["balanced"],
             (\A b \in Live \ {"maxSurvivors"} : WordFree(content[b])) =>
               \A b \in Live \ {"maxSurvivors"} : WordFree(content'[b])
      PROVE  WordApart'
  <2>1. locate'.at = "held" /\ locate'.kind = locate.kind /\ locate'.plan = <<>>
    BY <1>3, <1>4 DEF KeepOn, LocateTypes
  <2> QED
    BY <1>3, <1>4, <2>1 DEF WordApart, At
<1>5. CASE Submit("preserve") /\ KeepOn("preserved") /\ UNCHANGED host
  <2>1. \A b \in Live \ {"preservedMasks"} : content'[b] = content[b]
    BY <1>5, SubmitLeaves, EffectsAssumption, DirectionTypes DEF LInv
  <2>2. content'["preservedMasks"] = content["packedMasks"]
    BY <1>5, PreservedNow DEF LInv
  <2>3. "balanced" \in Live \ {"preservedMasks"} /\ "packedMasks" \in Live \ {"maxSurvivors"}
    BY BufferNames DEF Level, Records
  <2> QED
    BY <1>1, <1>4, <1>5, <2>1, <2>2, <2>3
<1>6. CASE Refuse /\ KeepOn(locate.closure) /\ UNCHANGED host
  <2>1. content' = content
    BY <1>6 DEF Refuse
  <2> QED
    BY <1>1, <1>4, <1>6, <2>1
<1> QED
  BY <1>2, <1>5, <1>6 DEF Finish

\* An older snapshot is replaced by that of the next holder that located.
LEMMA FinishSnapshot ==
  ASSUME LInv, SnapshotTrue, Finish
  PROVE  SnapshotTrue'
<1>1. /\ At({"finish"}) /\ ~At({"idle"}) /\ ~Located /\ locate \in LocateTypes
      /\ UNCHANGED last
  BY DEF Finish, LInv, TypeOK, At, Located, Drop
<1>2. last.closure = "preserved" =>
        ~last.fresh /\ (LateSnapshot = {Earlier} \/ Torn \in LateSnapshot)
  BY <1>1 DEF SnapshotTrue
<1>3. CASE Refuse
  BY <1>1, <1>2, <1>3 DEF Refuse, SnapshotTrue, LateSnapshot
<1>4. CASE Fail("preserve")
  <2>1. content \in [Live -> SUBSET Stamps] /\ DOMAIN content = Live
        /\ "preservedMasks" \in Live
    BY BufferNames DEF LInv, TypeOK, Others
  <2>2. CASE Break(LocateEffects["preserve"], {Current})
    <3>1. LocateEffects["preserve"].origin["preservedMasks"] # {"preservedMasks"}
      BY EffectsAssumption, DirectionTypes, BufferNames DEF Drawn, Others
    <3>2. Torn \in content'["preservedMasks"]
      BY <2>1, <2>2, <3>1 DEF Break, TornBy
    <3> QED
      BY <1>1, <1>2, <3>2 DEF SnapshotTrue, LateSnapshot
  <2> QED
    BY <1>3, <1>4, <2>2 DEF Fail, FailOn
<1>5. CASE locate.have /\ KeepOn("preserved")
  <2>1. locate'.at = "held" /\ locate'.have = locate.have
    BY <1>1, <1>5 DEF KeepOn, LocateTypes
  <2> QED
    BY <1>1, <1>2, <1>5, <2>1 DEF SnapshotTrue, Located, At
<1> QED
  BY <1>3, <1>4, <1>5 DEF Finish

\* Its own steps apart, a locate is acquired and released, and the detector of the
\* lease before asks for its masks.
LEMMA LeaseApart ==
  ASSUME LInv, WordApart, Acquire \/ Release \/ LateChannels
  PROVE  WordApart' /\ WordTold'
<1>1. CASE Release
  BY <1>1 DEF Release, WordApart, WordTold, WordInPrints, At, NoAnswer
<1>2. CASE Acquire
  <2>1. content' = [[b \in Live |-> {Earlier}] EXCEPT !.maxSurvivors = {Word}]
        /\ answer' = NoAnswer /\ host \in HostTypes
    BY <1>2 DEF Acquire, LInv, TypeOK
  <2>2. /\ \A b \in Live \ {"maxSurvivors"} : WordFree(content'[b])
        /\ "balanced" \in Live \ {"maxSurvivors"}
    BY <2>1, BufferNames DEF WordFree, Word, Earlier, Level
  <2>3. WordFree(host'.masks) /\ WordFree(host'.mirror)
    BY <1>2, <2>1 DEF Acquire, HostTypes, WordFree, Word, Earlier
  <2>4. locate'.kind = "raw"
    BY <1>2 DEF Acquire
  <2>5. "raw" \notin Prints
    BY DEF Prints
  <2>6. WordTold'
    BY <2>1 DEF WordTold, WordInPrints, NoAnswer
  <2> QED
    BY <2>2, <2>3, <2>4, <2>5, <2>6 DEF WordApart
<1>3. CASE LateChannels
  <2>1. /\ UNCHANGED locate /\ ~Active /\ host \in HostTypes
        /\ \E asked : Deliver(asked)
    BY <1>3 DEF LateChannels, LInv, LastTrue, TypeOK
  <2>2. /\ Leaves(LocateEffects["masks"], Live)
        /\ Drawn(LocateEffects["masks"].shown) = {"packedMasks"}
        /\ "packedMasks" \in Live \ {"maxSurvivors"} /\ "balanced" \in Live
    BY Looking, BufferNames DEF Tells, Records, Level
  <2>3. \A b \in Live : content'[b] = content[b]
    BY <2>1, <2>2, SubmitLeaves DEF LInv, Deliver, Refuse
  <2>4. Shown("masks") = content["packedMasks"]
    BY <2>2, ShownOne DEF LInv
  <2>5. /\ host'.masks = MasksNow /\ host'.mirror = host.mirror /\ answer'.got = MasksNow
        /\ answer'.sources = {} /\ answer'.kind = "masks"
    BY <2>1 DEF Deliver, HostTypes, Answer
  <2>6. CASE At({"idle"})
    BY <2>1, <2>5, <2>6 DEF WordApart, WordTold, WordInPrints, At
  <2>7. CASE At({"binarize"})
    <3>1. /\ locate.kind = "raw" /\ ~At({"idle"}) /\ "raw" \notin Prints
      BY <2>7 DEF WordApart, At, Prints
    <3>2. /\ WordFree(host.masks) /\ WordFree(host.mirror)
          /\ \A b \in Live \ {"maxSurvivors"} : WordFree(content[b])
      BY <3>1 DEF WordApart
    <3>3. WordFree(MasksNow)
      BY <2>2, <2>4, <3>2 DEF MasksNow
    <3>4. WordTold'
      BY <2>5, <3>3 DEF WordTold, WordInPrints, WordFree
    <3>5. "balanced" # "maxSurvivors"
      OBVIOUS
    <3> QED
      BY <2>1, <2>2, <2>3, <2>5, <3>1, <3>2, <3>3, <3>4, <3>5 DEF WordApart, At
  <2> QED
    BY <2>1, <2>6, <2>7 DEF Active, At
<1> QED
  BY <1>1, <1>2, <1>3

\* A snapshot is of the lease that ends, and of an earlier one when the next begins.
LEMMA LeaseSnapshot ==
  ASSUME LInv, SnapshotTrue, Acquire \/ Release \/ LateChannels
  PROVE  SnapshotTrue'
<1>1. CASE Release
  <2>1. Active /\ content' = content /\ At({"idle"})'
        /\ last' = IF locate.closure = "none" THEN NoDetector
                   ELSE [closure |-> locate.closure, fresh |-> TRUE]
    BY <1>1 DEF Release, Refuse, Active, At
  <2> QED
    BY <2>1 DEF LInv, MasksTrue, SnapshotTrue, LateSnapshot, NoDetector
<1>2. CASE Acquire
  <2>1. content' = [[b \in Live |-> {Earlier}] EXCEPT !.maxSurvivors = {Word}]
        /\ "preservedMasks" \in Live
    BY <1>2, BufferNames DEF Acquire, LInv, TypeOK, Others
  <2>2. LateSnapshot' = {Earlier}
    BY <2>1 DEF LateSnapshot
  <2>3. last'.closure = "preserved" => ~last'.fresh
    BY <1>2 DEF Acquire, LInv, TypeOK, NoDetector
  <2> QED
    BY <2>2, <2>3 DEF SnapshotTrue
<1>3. CASE LateChannels
  BY <1>3 DEF LateChannels, SnapshotTrue, NoDetector
<1> QED
  BY <1>1, <1>2, <1>3

\* What a locate is handed is its own, but for a batch's word in its print retries.
Handed == LInv /\ Told /\ WordApart /\ WordTold /\ SnapshotTrue

\* Every step keeps it so.
LEMMA HandedSound ==
  ASSUME Handed, [Next]_vars
  PROVE  Handed'
<1>1. LInv /\ Told /\ WordApart /\ WordTold /\ SnapshotTrue
  BY DEF Handed
<1>2. LInv' /\ Told'
  BY <1>1, StepSound
<1>3. WordApart' /\ WordTold' /\ SnapshotTrue'
  <2>1. CASE Inside
    BY <1>1, <2>1, InsideApart, InsideSnapshot
  <2>2. CASE Binarize \/ NextPass
    BY <1>1, <2>2, PassApart, PassSnapshot
  <2>3. CASE Asks
    <3>1. SnapshotTrue'
      BY <1>1, <2>3, AsksOne DEF SnapshotTrue, LateSnapshot, Located, At
    <3> QED
      BY <1>1, <2>3, <3>1, AsksApart
  <2>4. CASE Finish
    BY <1>1, <2>4, FinishApart, FinishSnapshot
  <2>5. CASE Acquire \/ Release \/ LateChannels
    BY <1>1, <2>5, LeaseApart, LeaseSnapshot
  <2>6. CASE UNCHANGED vars
    <3>1. UNCHANGED <<content, host, locate, last, answer>>
      BY <2>6 DEF vars
    <3>2. WordApart'
      BY <1>1, <3>1 DEF WordApart, At
    <3>3. WordTold'
      BY <1>1, <3>1 DEF WordTold, WordInPrints, At
    <3>4. SnapshotTrue'
      BY <1>1, <3>1 DEF SnapshotTrue, LateSnapshot, Located, At
    <3> QED
      BY <3>2, <3>3, <3>4
  <2> QED
    BY <2>1, <2>2, <2>3, <2>4, <2>5, <2>6 DEF Next, Work, Inside, Asks
<1> QED
  BY <1>2, <1>3 DEF Handed

-----------------------------------------------------------------------------
(* The theorems. *)

\* What a locate relies on holds throughout, whatever resident batches and snapshots
\* came before it: bases, masks, rows and outcomes of its pass, pools and seeds of
\* its lease, shares enough for the passes to come; and a batch's word stays with
\* the print retries.
THEOREM LocateReliesOnItsOwn ==
  Spec => []Handed
<1>1. LocateInit => Handed
  <2> SUFFICES ASSUME LocateInit PROVE Handed
    OBVIOUS
  <2>1. LInv /\ Told
    BY InitSound
  <2>2. locate = [at |-> "idle"] /\ last = NoDetector /\ answer = NoAnswer
    BY DEF LocateInit
  <2>3. WordApart /\ WordTold /\ SnapshotTrue
    BY <2>2 DEF WordApart, WordTold, WordInPrints, SnapshotTrue, At, NoDetector, NoAnswer
  <2> QED
    BY <2>1, <2>3 DEF Handed
<1>2. Handed /\ [Next]_vars => Handed'
  BY HandedSound
<1> QED
  BY <1>1, <1>2, PTL DEF Spec

\* Pixels and rows handed out by a locate, whatever passes break off, are of the
\* pass they were asked of, for every number of directions; a detector that
\* outlives its lease gets its own masks, unless the next holder has located.
THEOREM LocatePixels ==
  Spec => []PixelsOfTheirPass
<1>1. Handed => PixelsOfTheirPass
  <2> SUFFICES ASSUME Handed PROVE PixelsOfTheirPass
    OBVIOUS
  <2>1. Told /\ WordTold /\ SnapshotTrue
    BY DEF Handed
  <2>2. answer.kind = "balanced" => OfThisLease(answer.got)
    BY <2>1 DEF Told, WordTold, WordFree, Ours, OfThisLease
  <2> QED
    BY <2>1, <2>2 DEF PixelsOfTheirPass, Told, WordTold, SnapshotTrue
<1> QED
  BY <1>1, LocateReliesOnItsOwn, PTL

\* Every fold such a locate can ask for finds its share, takes the outcomes of its
\* pass, and joins them with nothing older than the locate.
THEOREM LocateFolds ==
  Spec => []FoldsReadTheirPass
<1>1. Handed => FoldsReadTheirPass
  BY DEF Handed, Told, WordTold, FoldsReadTheirPass
<1> QED
  BY <1>1, LocateReliesOnItsOwn, PTL

-----------------------------------------------------------------------------
(* The kernels of a device.                                                *)

Labels ==
  {"idle", "opening", "probe", "probing", "fetch", "once", "compile", "granted", "refused"}
Windows == {"windowsBallot", "windowsScan"}
Works   == {"fetch", "once", "compile", "granted", "refused"}
Knows   == {"device", "unsupported", "unavailable"} \cup Windows

\* The types of what the proofs read.
KernelTypes ==
  /\ cache \in {"unopened", "opening", "open", "rejected", "failed", "faulted"}
  /\ cell \in [Names -> {"absent", "new", "compiling", "built", "failed"}]
  /\ closer \in {"open", "cells", "done"} /\ closed \in BOOLEAN
  /\ probe \in {"unasked", "running", "yes", "no", "error"} /\ fallback \in BOOLEAN
  /\ limits \in [launch : BOOLEAN, ballot : BOOLEAN]
  /\ pc \in [Actors -> Labels] /\ want \in [Actors -> Names \cup {None}]
  /\ got \in [Readers -> Knows \cup {"refused", None}]

\* A reader fetches a windows kernel, the warmer one of its stage, and nobody goes
\* to a cell that has not been entered.
InStage(s, k) == s \in 1 .. 3 /\ k \in 1 .. Len(StageKernels[Stages[s]])
Wanting ==
  /\ \A a \in Actors : pc[a] \in Works => want[a] \in Names
  /\ \A a \in Actors : pc[a] = "once" => cell[want[a]] # "absent"
  /\ \A r \in Readers : pc[r] \in Works => want[r] \in Windows
  /\ pc[Warmer] \in {"idle"} \cup Works
  /\ (pc[Warmer] = "idle") <=> (warm # "running")
  /\ warm = "off" => step = <<1, 1>>
  /\ warm = "running" => InStage(step[1], step[2])

Control == KernelTypes /\ Wanting

\* A kernel is compiled by one actor, and a close still has to visit every cell
\* that holds a kernel or may come to hold one.
Filling ==
  \A a \in Actors : pc[a] = "compile" =>
    /\ cell[want[a]] = "compiling"
    /\ \A b \in Actors : pc[b] = "compile" /\ want[b] = want[a] => b = a
Closing ==
  /\ closed <=> (closer # "open")
  /\ closer = "done" => toClose = {}
  /\ \A n \in alive : n \in Names /\ cell[n] = "built"
  /\ closed => \A n \in Names : n \in alive \/ cell[n] \in {"new", "compiling"} => n \in toClose

\* The device is opened once, and what a reader was told stays true of it.
OpenedOnce ==
  \A r \in Readers :
    /\ pc[r] = "opening" =>
         cache = "opening" /\ \A q \in Readers : pc[q] = "opening" => q = r
    /\ got[r] \in Knows => cache \in {"open", "faulted"}
    /\ got[r] = "refused" => cache \in {"rejected", "failed", "faulted"}
    /\ pc[r] \in {"probe", "probing"} \cup Works => cache \in {"open", "faulted"}

\* Whoever asks for the portable kernel although the limits allow the other one
\* has the probe's verdict or the recorded error behind it.
Reason == ~limits.ballot \/ probe = "no" \/ fallback
Reasoned ==
  \A r \in Readers :
    /\ pc[r] = "probing" =>
         probe = "running" /\ \A q \in Readers : pc[q] = "probing" => q = r
    /\ pc[r] \in Works /\ want[r] = "windowsScan" => Reason
    /\ got[r] = "windowsScan" => Reason

KInv == Control /\ Filling /\ Closing /\ OpenedOnce /\ Reasoned

-----------------------------------------------------------------------------
\* The windows kernels, and those of a stage, are kernels of the set.
LEMMA KernelNames ==
  /\ Windows \subseteq Names
  /\ \A s, k : InStage(s, k) => StageKernels[Stages[s]][k] \in Names
<1>1. ASSUME NEW n \in Windows PROVE n \in Names
  <2>1. n \in {"windowsBallot", "windowsScan"}
    BY DEF Windows
  <2> QED
    BY <2>1 DEF Names
<1>2. ASSUME NEW s, NEW k, InStage(s, k) PROVE StageKernels[Stages[s]][k] \in Names
  <2>1. Stages[s] \in StageNames
    BY <1>2 DEF InStage, Stages, StageNames
  <2>2. StageKernels[Stages[s]][k] \in KernelsOf(Stages[s])
    BY <1>2 DEF InStage, KernelsOf
  <2> QED
    BY <2>1, <2>2 DEF Names
<1> QED
  BY <1>1, <1>2

\* A reader's own steps.
ReaderMoves(r) ==
  \/ OpenDevice(r) \/ DeviceOpened(r) \/ AskDevice(r) \/ AskWindows(r)
  \/ Probe(r) \/ Probed(r) \/ FallBack(r) \/ WindowsAnswered(r)

\* Every step keeps the types, and asks only for kernels of the set: the warmer
\* goes through its stages kernel by kernel and stops after the last.
LEMMA ControlNext == Control /\ [SetNext]_setVars => Control'
<1> SUFFICES ASSUME Control, [SetNext]_setVars PROVE Control'
  OBVIOUS
<1> USE ActorsAssumption DEF Control, KernelTypes, Wanting, Goto, Labels, Works, Knows, Windows,
        Actors, deviceVars, cellVars, flagVars, actorVars
<1>1. ASSUME NEW r \in Readers, ReaderMoves(r) PROVE Control'
  <2>0. r \in Actors /\ r # Warmer
    OBVIOUS
  <2>1. CASE OpenDevice(r) \/ DeviceOpened(r)
    BY <2>0, <2>1 DEF OpenDevice, DeviceOpened, Reply
  <2>2. CASE AskDevice(r)
    BY <2>0, <2>2 DEF AskDevice, Reply
  <2>3. CASE AskWindows(r)
    <3>1. /\ limits.launch \in BOOLEAN /\ limits.ballot \in BOOLEAN
          /\ "windowsScan" \in Names
      BY KernelNames
    <3>2. UNCHANGED <<deviceVars, cellVars, closer, flagVars, step, warm>>
      BY <2>3 DEF AskWindows
    <3>3. CASE Reply(r, "unsupported") /\ UNCHANGED <<want, pc>>
      BY <2>0, <3>2, <3>3 DEF Reply
    <3>4. CASE Goto(r, "probe") /\ UNCHANGED <<want, got>>
      BY <2>0, <3>2, <3>4
    <3>5. CASE Fetch(r, "windowsScan") /\ UNCHANGED got
      BY <2>0, <3>1, <3>2, <3>5 DEF Fetch
    <3> QED
      BY <2>3, <3>1, <3>3, <3>4, <3>5 DEF AskWindows
  <2>4. CASE Probe(r)
    <3>1. "windowsScan" \in Names /\ "windowsBallot" \in Names
      BY KernelNames
    <3>2. /\ UNCHANGED <<deviceVars, cellVars, closer, ready, step, warm, made, got>>
          /\ probe' \in {"unasked", "running", "yes", "no", "error"} /\ fallback' \in BOOLEAN
      BY <2>4 DEF Probe
    <3>3. CASE Goto(r, "probing") /\ UNCHANGED want
      BY <2>0, <3>2, <3>3
    <3>4. CASE Fetch(r, "windowsScan") \/ Fetch(r, "windowsBallot")
      BY <2>0, <3>1, <3>2, <3>4 DEF Fetch
    <3> QED
      BY <2>4, <3>3, <3>4 DEF Probe
  <2>5. CASE Probed(r)
    BY <2>0, <2>5 DEF Probed
  <2>6. CASE FallBack(r)
    BY <2>0, <2>6, KernelNames DEF FallBack, Fetch
  <2>7. CASE WindowsAnswered(r)
    BY <2>0, <2>7 DEF WindowsAnswered, Reply
  <2> QED
    BY <1>1, <2>1, <2>2, <2>3, <2>4, <2>5, <2>6, <2>7 DEF ReaderMoves
<1>2. ASSUME NEW a \in Actors, CompileStep(a) PROVE Control'
  <2>1. CASE Lookup(a)
    BY <2>1 DEF Lookup
  <2>2. CASE FillOnce(a)
    <3>1. want[a] \in Names
      BY <2>2 DEF FillOnce
    <3>2. /\ UNCHANGED <<deviceVars, alive, closed, toClose, closer, flagVars, want, step, warm,
                          made, got>>
          /\ pc[a] = "once"
      BY <2>2 DEF FillOnce
    <3>3. CASE cell[want[a]] = "new"
      <4>1. cell' = [cell EXCEPT ![want[a]] = "compiling"] /\ Goto(a, "compile")
        BY <2>2, <3>3 DEF FillOnce
      <4> QED
        BY <3>1, <3>2, <4>1
    <3>4. CASE cell[want[a]] = "built"
      <4>1. Goto(a, "granted") /\ UNCHANGED cell
        BY <2>2, <3>4 DEF FillOnce
      <4> QED
        BY <3>1, <3>2, <4>1
    <3>5. CASE cell[want[a]] = "failed"
      <4>1. Goto(a, "refused") /\ UNCHANGED cell
        BY <2>2, <3>5 DEF FillOnce
      <4> QED
        BY <3>1, <3>2, <4>1
    <3>6. cell[want[a]] \in {"new", "built", "failed", "compiling"}
      BY <3>1, <3>2
    <3>7. cell[want[a]] # "compiling"
      BY <2>2 DEF FillOnce
    <3> QED
      BY <3>3, <3>4, <3>5, <3>6, <3>7
  <2>3. CASE Compile(a)
    BY <2>3 DEF Compile
  <2> QED
    BY <1>2, <2>1, <2>2, <2>3 DEF CompileStep
<1>3. CASE StartWarming
  <2>1. InStage(1, 1)
    BY StagesAssumption DEF InStage, Stages
  <2> QED
    BY <1>3, <2>1, KernelNames DEF StartWarming
<1>4. CASE WarmNext
  <2> DEFINE s == step[1]
             k == step[2]
  <2>1. InStage(s, k)
    BY <1>4 DEF WarmNext
  <2>a. ASSUME NEW t, NEW j, InStage(t, j), WarmAt(t, j) PROVE Control'
    <3>1. t \in 1 .. 3 /\ ~(t > Len(Stages)) /\ StageKernels[Stages[t]][j] \in Names
      <4>1. t \in 1 .. 3 /\ Len(Stages) = 3
        BY <2>a DEF InStage, Stages
      <4> QED
        BY <2>a, <4>1, KernelNames
    <3>2. /\ step' = <<t, j>> /\ Goto(Warmer, "fetch") /\ UNCHANGED warm
          /\ want' = [want EXCEPT ![Warmer] = StageKernels[Stages[t]][j]]
      BY <2>a, <3>1 DEF WarmAt
    <3>3. InStage(step'[1], step'[2])
      BY <2>a, <3>2
    <3>4. UNCHANGED <<deviceVars, cellVars, closer, probe, fallback, made, got>>
      BY <1>4 DEF WarmNext
    <3>5. warm = "running" /\ pc[Warmer] # "idle"
      BY <1>4 DEF WarmNext
    <3>6. KernelTypes'
      BY <3>1, <3>2, <3>4
    <3>7. Wanting'
      BY <3>1, <3>2, <3>3, <3>4, <3>5
    <3> QED
      BY <3>6, <3>7
  <2>2. CASE WarmAt(s, k + 1) /\ k # Len(StageKernels[Stages[s]])
    <3>1. InStage(s, k + 1)
      BY <2>1, <2>2, StagesAssumption DEF InStage, Stages
    <3> QED
      BY <1>4, <3>1, <2>a, <2>2
  <2>3. CASE WarmAt(s + 1, 1)
    <3>1. CASE s = 3
      BY <1>4, <2>3, <3>1 DEF WarmNext, WarmAt, Stages
    <3>2. CASE s # 3
      <4>1. InStage(s + 1, 1)
        BY <2>1, <3>2, StagesAssumption DEF InStage, Stages
      <4> QED
        BY <1>4, <4>1, <2>a, <2>3
    <3> QED
      BY <3>1, <3>2
  <2> QED
    BY <1>4, <2>2, <2>3 DEF WarmNext
<1>5. CASE DeviceFaults \/ BeginClose \/ CloserStep
  <2>1. CASE DeviceFaults
    BY <2>1 DEF DeviceFaults
  <2>2. CASE BeginClose
    BY <2>2 DEF BeginClose
  <2>3. CASE CloseCells
    BY <2>3 DEF CloseCells, Visited
  <2>4. CASE Closed
    BY <2>4 DEF Closed
  <2> QED
    BY <1>5, <2>1, <2>2, <2>3, <2>4 DEF CloserStep
<1>6. CASE UNCHANGED setVars
  BY <1>6 DEF setVars
<1> QED
  BY <1>1, <1>2, <1>3, <1>4, <1>5, <1>6 DEF SetNext, ReaderStep, ReaderMoves, Terminated

\* A cell is filled under its once: whoever comes first compiles, the others wait.
LEMMA FillingNext == Control /\ Filling /\ [SetNext]_setVars => Filling'
<1> SUFFICES ASSUME Control, Filling, [SetNext]_setVars PROVE Filling'
  OBVIOUS
<1> USE ActorsAssumption DEF Control, KernelTypes, Wanting, Goto, Works, Actors,
        deviceVars, cellVars, flagVars, actorVars
<1>r. ASSUME NEW r \in Actors, pc'[r] # "compile", cell' = cell,
             \A b \in Actors \ {r} : pc'[b] = pc[b] /\ want'[b] = want[b]
      PROVE  Filling'
  BY <1>r DEF Filling
<1>1. ASSUME NEW r \in Readers, ReaderMoves(r) PROVE Filling'
  <2>1. pc'[r] # "compile" \/ pc' = pc
    BY <1>1 DEF ReaderMoves, OpenDevice, DeviceOpened, AskDevice, AskWindows, Probe, Probed,
                FallBack, WindowsAnswered, Fetch
  <2>2. cell' = cell /\ \A b \in Actors \ {r} : pc'[b] = pc[b] /\ want'[b] = want[b]
    BY <1>1 DEF ReaderMoves, OpenDevice, DeviceOpened, AskDevice, AskWindows, Probe, Probed,
                FallBack, WindowsAnswered, Fetch
  <2>3. pc[r] # "compile"
    BY <1>1 DEF ReaderMoves, OpenDevice, DeviceOpened, AskDevice, AskWindows, Probe, Probed,
                FallBack, WindowsAnswered
  <2> QED
    BY <1>r, <2>1, <2>2, <2>3
<1>2. ASSUME NEW a \in Actors, CompileStep(a) PROVE Filling'
  <2>1. CASE Lookup(a)
    <3>1. want' = want /\ pc'[a] # "compile" /\ \A b \in Actors \ {a} : pc'[b] = pc[b]
      BY <2>1 DEF Lookup
    <3>2. \A n \in Names : cell[n] = "compiling" => cell'[n] = "compiling"
      BY <2>1 DEF Lookup
    <3> QED
      BY <3>1, <3>2 DEF Filling
  <2>2. CASE FillOnce(a)
    <3>1. want' = want /\ want[a] \in Names /\ \A b \in Actors \ {a} : pc'[b] = pc[b]
      BY <2>2 DEF FillOnce
    <3>2. CASE cell[want[a]] = "new"
      <4>1. cell' = [cell EXCEPT ![want[a]] = "compiling"]
        BY <2>2, <3>2 DEF FillOnce
      <4> QED
        BY <3>1, <3>2, <4>1 DEF Filling
    <3>3. CASE cell[want[a]] # "new"
      <4>1. cell' = cell /\ pc'[a] # "compile"
        <5>1. cell[want[a]] \in {"built", "failed", "compiling"}
          BY <2>2, <3>1, <3>3 DEF FillOnce
        <5> QED
          BY <2>2, <5>1 DEF FillOnce
      <4> QED
        BY <3>1, <4>1 DEF Filling
    <3> QED
      BY <3>2, <3>3
  <2>3. CASE Compile(a)
    <3>1. /\ want' = want /\ pc[a] = "compile" /\ pc'[a] # "compile"
          /\ \A b \in Actors \ {a} : pc'[b] = pc[b]
      BY <2>3 DEF Compile
    <3>2. \A n \in Names \ {want[a]} : cell'[n] = cell[n]
      BY <2>3 DEF Compile
    <3> QED
      BY <3>1, <3>2 DEF Filling
  <2> QED
    BY <1>2, <2>1, <2>2, <2>3 DEF CompileStep
<1>3. CASE StartWarming \/ WarmNext
  <2>1. /\ cell' = cell /\ pc'[Warmer] # "compile"
        /\ \A b \in Actors \ {Warmer} : pc'[b] = pc[b] /\ want'[b] = want[b]
    BY <1>3 DEF StartWarming, WarmNext, WarmAt
  <2> QED
    BY <1>r, <2>1
<1>4. CASE CloseCells
  <2>1. \A n \in Names : cell[n] = "compiling" => cell'[n] = "compiling"
    BY <1>4 DEF CloseCells, Visited
  <2>2. pc' = pc /\ want' = want
    BY <1>4 DEF CloseCells
  <2> QED
    BY <2>1, <2>2 DEF Filling
<1>5. CASE DeviceFaults \/ BeginClose \/ Closed \/ UNCHANGED setVars
  <2>1. cell' = cell /\ pc' = pc /\ want' = want
    BY <1>5 DEF DeviceFaults, BeginClose, Closed, setVars
  <2> QED
    BY <2>1 DEF Filling
<1> QED
  BY <1>1, <1>2, <1>3, <1>4, <1>5
     DEF SetNext, ReaderStep, ReaderMoves, CloserStep, Terminated

\* Once the set is marked no cell is added to what the close has to visit, and a
\* visit leaves nothing behind: it waits for a compilation, or bars it.
LEMMA ClosingNext == Control /\ Filling /\ Closing /\ [SetNext]_setVars => Closing'
<1> SUFFICES ASSUME Control, Filling, Closing, [SetNext]_setVars PROVE Closing'
  OBVIOUS
<1> USE DEF Control, KernelTypes, Wanting, Goto, Works, Actors,
        deviceVars, cellVars, flagVars, actorVars
<1>r. ASSUME UNCHANGED <<cellVars, closer>> PROVE Closing'
  BY <1>r DEF Closing
<1>1. ASSUME NEW r \in Readers, ReaderMoves(r) PROVE Closing'
  <2>1. UNCHANGED <<cellVars, closer>>
    BY <1>1 DEF ReaderMoves, OpenDevice, DeviceOpened, AskDevice, AskWindows, Probe, Probed,
                FallBack, WindowsAnswered
  <2> QED
    BY <1>r, <2>1
<1>2. ASSUME NEW a \in Actors, CompileStep(a) PROVE Closing'
  <2>1. CASE Lookup(a)
    <3>1. CASE closed
      <4>1. UNCHANGED <<cellVars, closer>>
        BY <2>1, <3>1 DEF Lookup
      <4> QED
        BY <1>r, <4>1
    <3>2. CASE ~closed
      <4>1. UNCHANGED <<alive, closed, toClose, closer>>
        BY <2>1 DEF Lookup
      <4>2. \A n \in Names : cell[n] = "built" => cell'[n] = "built"
        BY <2>1 DEF Lookup
      <4> QED
        BY <3>2, <4>1, <4>2 DEF Closing
    <3> QED
      BY <3>1, <3>2
  <2>2. CASE FillOnce(a)
    <3>1. UNCHANGED <<alive, closed, toClose, closer>> /\ want[a] \in Names
      BY <2>2 DEF FillOnce
    <3>2. CASE cell[want[a]] = "new"
      <4>1. cell' = [cell EXCEPT ![want[a]] = "compiling"]
        BY <2>2, <3>2 DEF FillOnce
      <4> QED
        BY <3>1, <3>2, <4>1 DEF Closing
    <3>3. CASE cell[want[a]] # "new"
      <4>1. cell' = cell
        <5>1. cell[want[a]] \in {"built", "failed", "compiling"}
          BY <2>2, <3>1, <3>3 DEF FillOnce
        <5> QED
          BY <2>2, <5>1 DEF FillOnce
      <4> QED
        BY <3>1, <4>1 DEF Closing
    <3> QED
      BY <3>2, <3>3
  <2>3. CASE Compile(a)
    <3>1. /\ UNCHANGED <<closed, toClose, closer>>
          /\ want[a] \in Names /\ cell[want[a]] = "compiling"
      BY <2>3 DEF Compile, Filling
    <3>2. CASE cell' = [cell EXCEPT ![want[a]] = "built"] /\ alive' = alive \cup {want[a]}
      BY <3>1, <3>2 DEF Closing
    <3>3. CASE cell' = [cell EXCEPT ![want[a]] = "failed"] /\ UNCHANGED alive
      BY <3>1, <3>3 DEF Closing
    <3> QED
      BY <2>3, <3>2, <3>3 DEF Compile
  <2> QED
    BY <1>2, <2>1, <2>2, <2>3 DEF CompileStep
<1>3. CASE BeginClose
  BY <1>3 DEF BeginClose, Closing
<1>4. CASE CloseCells
  <2> DEFINE quiet == {n \in toClose : cell[n] # "compiling"}
  <2>1. /\ toClose' = toClose \ quiet /\ alive' = alive \ quiet
        /\ cell' = [n \in Names |-> IF n \in quiet /\ cell[n] = "new" THEN "failed" ELSE cell[n]]
        /\ UNCHANGED <<closed, closer>> /\ closer = "cells"
    BY <1>4 DEF CloseCells, Visited
  <2>2. \A n \in alive' : n \in Names /\ cell'[n] = "built"
    BY <2>1 DEF Closing
  <2>3. \A n \in Names : n \in alive' \/ cell'[n] \in {"new", "compiling"} => n \in toClose'
    BY <2>1 DEF Closing
  <2> QED
    BY <2>1, <2>2, <2>3 DEF Closing
<1>5. CASE Closed
  BY <1>5 DEF Closed, Closing
<1>6. CASE DeviceFaults \/ StartWarming \/ WarmNext \/ UNCHANGED setVars
  <2>1. UNCHANGED <<cellVars, closer>>
    BY <1>6 DEF DeviceFaults, StartWarming, WarmNext, setVars
  <2> QED
    BY <1>r, <2>1
<1> QED
  BY <1>1, <1>2, <1>3, <1>4, <1>5, <1>6
     DEF SetNext, ReaderStep, ReaderMoves, CloserStep, Terminated

\* The device opens once: nobody has an answer before, and after it only a fault
\* changes what the cache holds.
LEMMA OpenedNext == Control /\ OpenedOnce /\ [SetNext]_setVars => OpenedOnce'
<1> SUFFICES ASSUME Control, OpenedOnce, [SetNext]_setVars PROVE OpenedOnce'
  OBVIOUS
<1> USE ActorsAssumption, NoneAssumption
    DEF Control, KernelTypes, Wanting, Goto, Reply, Works, Knows, Windows, Labels, Actors,
        deviceVars, cellVars, flagVars, actorVars
<1>1. ASSUME NEW r \in Readers, ReaderMoves(r) PROVE OpenedOnce'
  <2>1. CASE OpenDevice(r)
    <3>1. /\ cache = "unopened" /\ cache' = "opening" /\ got' = got
          /\ pc'[r] = "opening" /\ \A q \in Readers \ {r} : pc'[q] = pc[q]
      BY <2>1 DEF OpenDevice
    <3>2. \A q \in Readers : /\ pc[q] \notin {"opening", "probe", "probing"} \cup Works
                             /\ got[q] \notin Knows \cup {"refused"}
      BY <3>1 DEF OpenedOnce
    <3> QED
      BY <3>1, <3>2 DEF OpenedOnce
  <2>2. CASE DeviceOpened(r)
    <3>1. /\ cache = "opening" /\ cache' \in {"open", "rejected", "failed"}
          /\ pc'[r] = "idle" /\ got'[r] = IF cache' = "open" THEN "device" ELSE "refused"
          /\ \A q \in Readers \ {r} : pc'[q] = pc[q] /\ got'[q] = got[q]
      BY <2>2 DEF DeviceOpened, OpenedOnce
    <3>2. \A q \in Readers : /\ pc[q] \notin {"probe", "probing"} \cup Works
                             /\ got[q] \notin Knows \cup {"refused"}
      BY <3>1 DEF OpenedOnce
    <3>3. \A q \in Readers \ {r} : pc[q] # "opening"
      BY <2>2 DEF DeviceOpened, OpenedOnce
    <3> QED
      BY <3>1, <3>2, <3>3 DEF OpenedOnce
  <2>3. CASE AskDevice(r)
    <3>1. /\ cache' = cache /\ pc' = pc /\ cache \notin {"unopened", "opening"}
          /\ got'[r] = IF cache = "open" THEN "device" ELSE "refused"
          /\ \A q \in Readers \ {r} : got'[q] = got[q]
      BY <2>3 DEF AskDevice
    <3> QED
      BY <3>1 DEF OpenedOnce
  <2>4. CASE AskWindows(r)
    <3>1. /\ cache' = cache /\ cache \in {"open", "faulted"} /\ pc'[r] # "opening"
          /\ \A q \in Readers \ {r} : pc'[q] = pc[q] /\ got'[q] = got[q]
          /\ got'[r] # "refused"
      BY <2>4 DEF AskWindows, Fetch, OpenedOnce
    <3> QED
      BY <3>1 DEF OpenedOnce
  <2>5. CASE Probe(r) \/ Probed(r) \/ FallBack(r)
    <3>1. /\ cache' = cache /\ pc'[r] # "opening" /\ got' = got
          /\ pc[r] \in {"probe", "probing"} \cup Works
          /\ \A q \in Readers \ {r} : pc'[q] = pc[q]
      BY <2>5 DEF Probe, Probed, FallBack, Fetch
    <3> QED
      BY <3>1 DEF OpenedOnce
  <2>6. CASE WindowsAnswered(r)
    <3>1. /\ cache' = cache /\ pc'[r] = "idle" /\ pc[r] \in Works
          /\ got'[r] \in Windows \cup {"unavailable"}
          /\ \A q \in Readers \ {r} : pc'[q] = pc[q] /\ got'[q] = got[q]
      BY <2>6 DEF WindowsAnswered
    <3> QED
      BY <3>1 DEF OpenedOnce
  <2> QED
    BY <1>1, <2>1, <2>2, <2>3, <2>4, <2>5, <2>6 DEF ReaderMoves
<1>2. ASSUME NEW a \in Actors, CompileStep(a) PROVE OpenedOnce'
  <2>1. /\ cache' = cache /\ got' = got /\ pc[a] \in Works /\ pc'[a] \in Works
        /\ \A b \in Actors \ {a} : pc'[b] = pc[b]
    <3>1. CASE Lookup(a)
      BY <3>1 DEF Lookup
    <3>2. CASE FillOnce(a)
      <4>1. cell[want[a]] \in {"new", "built", "failed", "compiling"}
        BY <3>2 DEF FillOnce
      <4> QED
        BY <3>2, <4>1 DEF FillOnce
    <3>3. CASE Compile(a)
      BY <3>3 DEF Compile
    <3> QED
      BY <1>2, <3>1, <3>2, <3>3 DEF CompileStep
  <2> QED
    BY <2>1 DEF OpenedOnce
<1>3. CASE StartWarming \/ WarmNext
  <2>1. cache' = cache /\ got' = got /\ \A r \in Readers : pc'[r] = pc[r]
    BY <1>3 DEF StartWarming, WarmNext, WarmAt
  <2> QED
    BY <2>1 DEF OpenedOnce
<1>4. CASE DeviceFaults
  BY <1>4 DEF DeviceFaults, OpenedOnce
<1>5. CASE BeginClose \/ CloserStep \/ UNCHANGED setVars
  <2>1. UNCHANGED <<cache, got, pc>>
    BY <1>5 DEF BeginClose, CloserStep, CloseCells, Closed, setVars
  <2> QED
    BY <2>1 DEF OpenedOnce
<1> QED
  BY <1>1, <1>2, <1>3, <1>4, <1>5 DEF SetNext, ReaderStep, ReaderMoves, Terminated

\* The verdict of the probe is kept, and so is a recorded error: a reason that was
\* there stays.
LEMMA ReasonedNext == Control /\ Reasoned /\ [SetNext]_setVars => Reasoned'
<1> SUFFICES ASSUME Control, Reasoned, [SetNext]_setVars PROVE Reasoned'
  OBVIOUS
<1> USE ActorsAssumption, NoneAssumption
    DEF Control, KernelTypes, Wanting, Goto, Reply, Works, Knows, Windows, Labels, Actors,
        deviceVars, cellVars, flagVars, actorVars
<1>r. ASSUME NEW r \in Readers, UNCHANGED <<limits, fallback, probe>>,
             pc'[r] \notin Works \cup {"probing"}, got'[r] # "windowsScan" \/ got' = got,
             \A q \in Readers \ {r} : pc'[q] = pc[q] /\ want'[q] = want[q] /\ got'[q] = got[q]
      PROVE  Reasoned'
  BY <1>r DEF Reasoned, Reason
<1>1. ASSUME NEW r \in Readers, ReaderMoves(r) PROVE Reasoned'
  <2>1. CASE OpenDevice(r) \/ DeviceOpened(r)
    BY <2>1, <1>r DEF OpenDevice, DeviceOpened
  <2>2. CASE AskDevice(r)
    BY <2>2 DEF AskDevice, Reasoned, Reason
  <2>3. CASE AskWindows(r)
    <3>1. /\ UNCHANGED <<limits, fallback, probe>>
          /\ got'[r] # "windowsScan" \/ got' = got
          /\ \A q \in Readers \ {r} : pc'[q] = pc[q] /\ want'[q] = want[q] /\ got'[q] = got[q]
      BY <2>3 DEF AskWindows, Fetch
    <3>2. CASE pc'[r] \in Works
      <4>1. ~limits.ballot /\ got' = got /\ pc'[r] = "fetch"
        BY <2>3, <3>2 DEF AskWindows, Fetch
      <4> QED
        BY <3>1, <4>1 DEF Reasoned, Reason
    <3>3. CASE pc'[r] \notin Works
      <4>1. pc'[r] # "probing"
        BY <2>3 DEF AskWindows, Fetch
      <4> QED
        BY <3>1, <3>3, <4>1, <1>r
    <3> QED
      BY <3>2, <3>3
  <2>4. CASE Probe(r)
    <3>1. /\ UNCHANGED <<limits, got>> /\ pc[r] = "probe"
          /\ \A q \in Readers \ {r} : pc'[q] = pc[q] /\ want'[q] = want[q]
      BY <2>4 DEF Probe, Fetch
    <3>2. CASE probe = "unasked"
      <4>1. probe' = "running" /\ pc'[r] = "probing" /\ UNCHANGED <<want, fallback>>
        BY <2>4, <3>2 DEF Probe
      <4> QED
        BY <3>1, <3>2, <4>1 DEF Reasoned, Reason
    <3>3. CASE probe = "yes"
      <4>1. /\ pc'[r] = "fetch" /\ want'[r] = "windowsBallot" /\ UNCHANGED <<probe, fallback>>
        BY <2>4, <3>3 DEF Probe, Fetch
      <4> QED
        BY <3>1, <4>1 DEF Reasoned, Reason
    <3>4. CASE probe = "no"
      <4>1. pc'[r] = "fetch" /\ UNCHANGED <<probe, fallback>>
        BY <2>4, <3>4 DEF Probe, Fetch
      <4> QED
        BY <3>1, <3>4, <4>1 DEF Reasoned, Reason
    <3>5. CASE probe = "error"
      <4>1. pc'[r] = "fetch" /\ fallback' /\ UNCHANGED probe
        BY <2>4, <3>5 DEF Probe, Fetch
      <4> QED
        BY <3>1, <4>1 DEF Reasoned, Reason
    <3> QED
      BY <2>4, <3>2, <3>3, <3>4, <3>5 DEF Probe
  <2>5. CASE Probed(r)
    <3>1. /\ UNCHANGED <<limits, fallback, got, want>> /\ pc'[r] = "probe"
          /\ \A q \in Readers \ {r} : pc'[q] = pc[q] /\ pc[q] # "probing"
          /\ probe # "no"
      BY <2>5 DEF Probed, Reasoned
    <3> QED
      BY <3>1 DEF Reasoned, Reason
  <2>6. CASE FallBack(r)
    <3>1. /\ fallback' /\ UNCHANGED <<probe, limits, got>> /\ pc'[r] = "fetch"
          /\ \A q \in Readers \ {r} : pc'[q] = pc[q] /\ want'[q] = want[q]
      BY <2>6 DEF FallBack, Fetch
    <3> QED
      BY <3>1 DEF Reasoned, Reason
  <2>7. CASE WindowsAnswered(r)
    <3>1. /\ UNCHANGED <<limits, fallback, probe>> /\ pc'[r] = "idle" /\ pc[r] \in Works
          /\ got'[r] = want[r] \/ got'[r] = "unavailable"
          /\ \A q \in Readers \ {r} : pc'[q] = pc[q] /\ want'[q] = want[q] /\ got'[q] = got[q]
      BY <2>7 DEF WindowsAnswered
    <3> QED
      BY <3>1 DEF Reasoned, Reason
  <2> QED
    BY <1>1, <2>1, <2>2, <2>3, <2>4, <2>5, <2>6, <2>7 DEF ReaderMoves
<1>2. ASSUME NEW a \in Actors, CompileStep(a) PROVE Reasoned'
  <2>1. /\ UNCHANGED <<limits, fallback, probe, got, want>>
        /\ pc[a] \in Works /\ pc'[a] \in Works
        /\ \A b \in Actors \ {a} : pc'[b] = pc[b]
    <3>1. CASE Lookup(a)
      BY <3>1 DEF Lookup
    <3>2. CASE FillOnce(a)
      <4>1. cell[want[a]] \in {"new", "built", "failed", "compiling"}
        BY <3>2 DEF FillOnce
      <4> QED
        BY <3>2, <4>1 DEF FillOnce
    <3>3. CASE Compile(a)
      BY <3>3 DEF Compile
    <3> QED
      BY <1>2, <3>1, <3>2, <3>3 DEF CompileStep
  <2> QED
    BY <2>1 DEF Reasoned, Reason
<1>3. CASE StartWarming \/ WarmNext
  <2>1. /\ UNCHANGED <<limits, fallback, probe, got>>
        /\ \A r \in Readers : pc'[r] = pc[r] /\ want'[r] = want[r]
    BY <1>3 DEF StartWarming, WarmNext, WarmAt
  <2> QED
    BY <2>1 DEF Reasoned, Reason
<1>4. CASE DeviceFaults \/ BeginClose \/ CloserStep \/ UNCHANGED setVars
  <2>1. UNCHANGED <<limits, fallback, probe, got, pc, want>>
    BY <1>4 DEF DeviceFaults, BeginClose, CloserStep, CloseCells, Closed, setVars
  <2> QED
    BY <2>1 DEF Reasoned, Reason
<1> QED
  BY <1>1, <1>2, <1>3, <1>4 DEF SetNext, ReaderStep, ReaderMoves, Terminated

-----------------------------------------------------------------------------
(* The invariant, and the properties that follow from it.                  *)

\* Nothing is entered, compiled or asked for at the start.
LEMMA InitHolds == SetInit => KInv
<1> SUFFICES ASSUME SetInit PROVE KInv
  OBVIOUS
<1> USE DEF SetInit, Labels, Works, Windows, Knows, Actors
<1>1. KernelTypes
  BY LimitsAssumption DEF KernelTypes
<1>2. Wanting /\ Filling
  BY DEF Wanting, Filling
<1>3. Closing
  BY DEF Closing
<1>4. OpenedOnce /\ Reasoned
  BY NoneAssumption DEF OpenedOnce, Reasoned
<1> QED
  BY <1>1, <1>2, <1>3, <1>4 DEF KInv, Control

\* A kernel has one compiler, a close misses none, the device opens once, and the
\* portable kernel has a reason.
THEOREM KernelInvariant == SetSpec => []KInv
<1>1. KInv /\ [SetNext]_setVars => KInv'
  BY ControlNext, FillingNext, ClosingNext, OpenedNext, ReasonedNext DEF KInv
<1> QED
  BY <1>1, InitHolds, PTL DEF SetSpec

\* Once Close has returned no compiled kernel is left on the device, whoever was
\* compiling when it began (gpu_kernels.go:1369).
THEOREM NothingSurvivesCorrect == SetSpec => []NothingSurvivesClose
<1>1. KInv => NothingSurvivesClose
  BY DEF KInv, Control, KernelTypes, Closing, NothingSurvivesClose
<1> QED
  BY <1>1, KernelInvariant, PTL

\* A reader that was given the portable kernel where the other one is allowed finds
\* the reason recorded (gpu_kernels.go:510).
THEOREM FallbackCorrect == SetSpec => []FallbackExplained
<1>1. KInv => FallbackExplained
  BY DEF KInv, Reasoned, Reason, FallbackExplained
<1> QED
  BY <1>1, KernelInvariant, PTL

\* Readers of one device agree about it until it fails (gpu_runtime.go:44, 68).
THEOREM AnswersCorrect == SetSpec => []AnswersAgree
<1>1. KInv => AnswersAgree
  BY DEF KInv, OpenedOnce, Knows, Windows, AnswersAgree
<1> QED
  BY <1>1, KernelInvariant, PTL

=============================================================================
