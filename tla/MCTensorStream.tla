--------------------------- MODULE MCTensorStream ---------------------------
(***************************************************************************)
(* Up to three frames over TCP, through the pinned buffer, over IPC and    *)
(* over IPC with its fallback, with every kind of fault.                   *)
(***************************************************************************)
EXTENDS TensorStream, TLC

Frames(kinds, sizes, cuda) == [i \in 1 .. Len(kinds) |-> [kind |-> kinds[i], size |-> sizes[i], cuda |-> cuda[i]]]

Two ==
  {[ipc |-> FALSE, frames |-> Frames(<<"F", "B">>, <<1, 3>>, <<FALSE, FALSE>>)],
   [ipc |-> FALSE, frames |-> Frames(<<"B", "F">>, <<2, 2>>, <<TRUE, TRUE>>)],
   [ipc |-> TRUE, frames |-> Frames(<<"F", "B">>, <<2, 1>>, <<TRUE, TRUE>>)],
   [ipc |-> TRUE, frames |-> Frames(<<"F", "B">>, <<1, 2>>, <<FALSE, TRUE>>)]}

Three ==
  {[ipc |-> FALSE, frames |-> Frames(<<"F", "B", "F">>, <<2, 1, 2>>, <<TRUE, FALSE, TRUE>>)],
   [ipc |-> TRUE, frames |-> Frames(<<"F", "B", "F">>, <<1, 1, 2>>, <<TRUE, FALSE, TRUE>>)]}

Kinds == {"slow", "closes", "breaks", "stops", "freezes"}

(* One fault of each kind in `some'. *)
With(streams, some) ==
  {[ipc |-> s.ipc, frames |-> s.frames] @@ [k \in Kinds |-> IF k \in some THEN 1 ELSE 0] : s \in streams}

Pairs == {{"closes", "slow"}, {"closes", "stops"}, {"closes", "freezes"}, {"slow", "stops"}}

Every ==
  UNION {With(Two, some) : some \in Pairs \cup {{k} : k \in Kinds}}
  \cup UNION {With(Three, {k}) : k \in {"closes", "slow"}}
=============================================================================
