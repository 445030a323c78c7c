---------------------------- MODULE GpuCommands ----------------------------
(***************************************************************************)
(* What a route context records on the device: command lists built by the  *)
(* record functions of internal/detect, and the resources they name.       *)
(*                                                                         *)
(* A binding set is a kernel with the buffers bound to it, in binding      *)
(* order.  A dispatch names its binding set; an indirect dispatch takes    *)
(* its workgroup count from a buffer as well.  Barriers name the buffers   *)
(* whose writes the following dispatches must see.  A fill resets what of  *)
(* a buffer is used, a poke sets single words of it.  Transfers (fills,    *)
(* updates, copies, downloads) are ordered by the recorder itself: the     *)
(* code dispatches right after a fill and downloads right after a dispatch. *)
(***************************************************************************)
EXTENDS Integers, Sequences, SequencesExt, FiniteSets, KernelLayouts

BindingSet(kernel, buffers) == [kernel |-> kernel, buffers |-> buffers]

Command(op, set, buffers) ==
  [op |-> op, set |-> set, buffers |-> buffers, args |-> "", within |-> {}]

Dispatch(set)            == <<Command("dispatch", set, <<>>)>>
DispatchIndirect(set, a) == <<[Command("dispatch", set, <<>>) EXCEPT !.args = a]>>
\* A kernel with several modes, in one that touches these of its buffers only.
DispatchWithin(set, a, bs) ==
  <<[Command("dispatch", set, <<>>) EXCEPT !.args = a, !.within = bs]>>
Barrier(buffers)         == <<Command("barrier", "", buffers)>>
Fill(buffer)             == <<Command("fill", "", <<buffer>>)>>
Poke(buffer)             == <<Command("poke", "", <<buffer>>)>>
Update(buffer)           == <<Command("update", "", <<buffer>>)>>
Copy(to, from)           == <<Command("copy", "", <<to, from>>)>>
Download(buffer)         == <<Command("download", "", <<buffer>>)>>

\* Fills of several buffers, and the parts of a list that depend on a condition.
FillAll(buffers)  == [i \in DOMAIN buffers |-> Command("fill", "", <<buffers[i]>>)]
When(condition, commands) == IF condition THEN commands ELSE <<>>
\* One part per index, in order.
ForEach(n, Part(_)) == FlattenSeq([i \in 1 .. n |-> Part(i)])
=============================================================================
