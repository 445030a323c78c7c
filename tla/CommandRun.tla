------------------------------ MODULE CommandRun ------------------------------
(***************************************************************************)
(* What a recorded command list does to the buffers of its context.  The   *)
(* list is run over one question: from which of the values the buffers     *)
(* held when the submission began does each buffer derive at its end, and  *)
(* which of those values has the host been shown?  "now" stands for what   *)
(* the submission itself brings along.  On its way the run notes every     *)
(* dispatch that touches what an earlier one is still writing.             *)
(***************************************************************************)
EXTENDS RetryCommands, DecodeCommands

\* Every binding set a list names.
Sets == BinarizeSets @@ DirectionalSets @@ FoldSets @@ RetrySets @@ SampleSets @@ DecodeSets

\* The level belongs to the canvas, the batch arena to the decode session, and
\* the two tables to the device; every other buffer is the context's own.
Outside  == {"level", "batchArena", "alignTable", "ldpcCatalog"}
Buffers  == Outside
              \cup UNION {ToSet(Sets[s].buffers) : s \in DOMAIN Sets}
              \cup {"preservedMasks", "dirBatchSummary", "dirBatchOutcomes",
                    "sampleRetain1", "sampleRetain2", "sampleRetain3"}

-----------------------------------------------------------------------------
(* The shaders, as far as a layout does not tell.                          *)

\* Bindings a kernel adds to: it accumulates into them, or writes single words
\* and leaves the rest.  What it writes otherwise replaces what was there.
Kept ==
  [histogramRGB |-> {2}, histogramBounds |-> {1}, finderRowScan |-> {2},
   finderWindows |-> {4}, finderChain |-> {6, 8}, finderChainBSI |-> {6, 8},
   finderChainDirectional |-> {6, 8}, finderChainDirectionalBSI |-> {6, 8},
   finderDispatchArgs |-> {3}, finderDirectionalControl |-> {3},
   binarizerPrimaryControl |-> {1}]
  @@
  [finderAverageReduce |-> {3}, finderRetryControl |-> {3, 4, 7},
   pitchSchedule |-> {2, 3, 4}, finderCandidates |-> {4, 5}, finderPool |-> {4, 5},
   finderSort |-> {2}, finderDecision |-> {7}, finderFoldControl |-> {2}]
  @@
  [sampleSymbol |-> {2}, finderGeometry |-> {1, 4, 5, 6, 7}, channelOffsetSelect |-> {3},
   alignmentSearch |-> {2}, alignmentPrepare |-> {2}, alignmentConfirm |-> {1, 2, 3},
   alignmentSample |-> {2}]
  @@
  [ldpcHard |-> {4}, ldpcMatrix0 |-> {2, 5}, ldpcMatrix1 |-> {2, 5}, ldpcSoft |-> {7},
   ldpcSoftPrepare |-> {4}, payloadMap |-> {1, 3}, payloadPermute |-> {3},
   admissionFixed |-> {1, 3, 4}, metadataPart1 |-> {3},
   metadataPalette |-> {4}, metadataPart2 |-> {3, 4}, metadataFinish |-> {3}]
KeptBy(kernel) == IF kernel \in DOMAIN Kept THEN Kept[kernel] ELSE {}
\* Kept buffers that the kernels add to without looking.
OnlyAdded == {"seedHistogram"}
\* Bindings whose layout would let the kernel write, and which it only reads; of
\* a grid the metadata only ever lowers the word that says it is one.
OnlyRead(kernel) ==
  CASE kernel = "balanceRGB" -> {3} [] kernel = "ldpcHard" -> {2}
    [] kernel = "metadataParams" -> {2} [] OTHER -> {}

\* Buffers two dispatches may write side by side without a barrier: the chains
\* of both families add to the same counters, every source puts its candidates
\* behind the ones counted before it, and the messages of the soft correction
\* are scratch it writes before it reads.
Commute(buffer, k1, k2) ==
  \/ {k1, k2} \subseteq {"finderChain", "finderChainBSI"}
  \/ {k1, k2} = {"finderCandidates"} /\ buffer = "foldCandidates"
  \/ {k1, k2} = {"ldpcSoft"} /\ buffer = "ldpcMessages"

\* A buffer of records whose use is counted elsewhere: when the count is reset
\* the entries behind it are gone too.
Body == [foldParams |-> {"foldCandidates", "assemblyRecord"},
         familyPoolRecord |-> {"familyPool"},
         contextualPoolRecord |-> {"contextualPool"},
         contextualGroupsRecord |-> {"contextualGroups"}]
WithBody(bs) == bs \cup UNION {Body[b] : b \in bs \cap DOMAIN Body}

-----------------------------------------------------------------------------
\* The run before its first command.
Fresh == [origin |-> [b \in Buffers |-> {b}], pending |-> {}, clashes |-> {}, shown |-> {}]

\* The buffers end up holding exactly what comes from the given origins.
Hold(run, bs, from) ==
  [run EXCEPT !.origin = [b \in DOMAIN @ |-> IF b \in bs THEN from ELSE @[b]]]

Derived(run, bs) == UNION {run.origin[b] : b \in bs}

\* What a dispatch does to the buffers it uses: it replaces some, adds to some
\* and only looks at the rest.
AccessBy(set, layout, used, keeps, looks) ==
  [kernel |-> set.kernel,
   over   |-> {set.buffers[i] : i \in {j \in used : layout[j] # R} \ (looks \cup keeps)},
   kept   |-> {set.buffers[i] : i \in used \cap keeps},
   seen   |-> {set.buffers[i] : i \in {j \in used : layout[j] = R} \cup (used \cap looks)}]
Access(set, within) ==
  AccessBy(set, Layouts[set.kernel],
           {i \in DOMAIN set.buffers : within = {} \/ set.buffers[i] \in within},
           KeptBy(set.kernel), OnlyRead(set.kernel))

Perform(run, c, access, replaced, touched, from) ==
  [run EXCEPT
     !.origin = [b \in DOMAIN @ |->
                   IF b \in access.kept THEN @[b] \cup from
                   ELSE IF b \in replaced THEN from ELSE @[b]],
     !.pending = @ \cup ((access.over \cup access.kept) \X {access.kernel}),
     !.clashes = @ \cup {<<c.set, p[1]>> :
                    p \in {q \in run.pending : /\ q[1] \in touched
                                               /\ ~Commute(q[1], q[2], access.kernel)}}]
Dispatched(run, c, access, read) ==
  Perform(run, c, access, WithBody(access.over), read \cup access.over \cup access.kept,
          Derived(run, read) \cup {"now"})
ArgsOf(c) == IF c.args = "" THEN {} ELSE {c.args}
Reads(access, args) == access.seen \cup (access.kept \ OnlyAdded) \cup args
Accessed(run, c, access) == Dispatched(run, c, access, Reads(access, ArgsOf(c)))
RunDispatch(run, c) == Accessed(run, c, Access(Sets[c.set], c.within))

\* Two copies of the decision go behind the result that was there, the others
\* replace the whole.
RunCopy(run, to, from) ==
  Hold(run, {to}, IF to = "primaryResult" THEN Derived(run, {to, from})
                  ELSE Derived(run, {from}))

RunCommand(run, c) ==
  CASE c.op = "dispatch" -> RunDispatch(run, c)
    [] c.op = "barrier"  -> [run EXCEPT !.pending = {p \in @ : p[1] \notin ToSet(c.buffers)}]
    [] c.op = "fill"     -> Hold(run, WithBody(ToSet(c.buffers)), {})
    [] c.op = "update"   -> Hold(run, WithBody(ToSet(c.buffers)), {"now"})
    [] c.op = "poke"     -> run
    [] c.op = "copy"     -> RunCopy(run, c.buffers[1], c.buffers[2])
    [] c.op = "download" -> [run EXCEPT !.shown = @ \cup Derived(run, ToSet(c.buffers))]

\* The whole submission, command by command; a stretch at a time, which keeps
\* the evaluation shallow.
Stretch == 12
RunStretch(run, commands) ==
  LET after[n \in 0 .. Len(commands)] ==
        IF n = 0 THEN run ELSE RunCommand(after[n - 1], commands[n])
  IN  after[Len(commands)]
Origins == SUBSET (Buffers \cup {"now"})
Runs    == [origin : [Buffers -> Origins], pending : SUBSET (Buffers \X (DOMAIN Layouts)),
            clashes : SUBSET ((DOMAIN Sets) \X Buffers), shown : Origins]
Run(commands) ==
  LET rest[run \in Runs, n \in Nat] ==
        IF n > Len(commands) THEN run
        ELSE rest[RunStretch(run, SubSeq(commands, n, Min({n + Stretch - 1, Len(commands)}))),
                  n + Stretch]
  IN  rest[Fresh, 1]
=============================================================================
