------------------------------ MODULE MCSetup ------------------------------
(***************************************************************************)
(* Pipeline over two registered workers of which one owns the data and the *)
(* other has a cap; the coordinator owning the data, with one worker too   *)
(* many; a P2P driver (a static list) over NCCL; two misconfigurations;    *)
(* and a P2P driver that hosts both ends.                                  *)
(***************************************************************************)
EXTENDS Setup

CONSTANTS w1, w2

Base ==
  [setting |-> "pipeline", n |-> 2, static |-> FALSE, peers |-> <<>>, nccl |-> FALSE,
   persistent |-> FALSE, first |-> {}, caps |-> [w \in Worker |-> 0],
   gpu |-> [id \in Node |-> id], runs |-> 2, faults |-> 2, tokens |-> 0]

Pipeline == [Base EXCEPT !.first = {w2}, !.caps = [w \in Worker |-> IF w = w1 THEN 1 ELSE 0]]
Vanilla == [Base EXCEPT !.setting = "vanilla", !.persistent = TRUE, !.faults = 1]
Nccl ==
  [Base EXCEPT !.setting = "vanilla", !.n = 3, !.static = TRUE, !.peers = <<w1, w2>>, !.nccl = TRUE,
   !.runs = 1, !.faults = 1, !.tokens = 2]
OneGpu == [Base EXCEPT !.nccl = TRUE, !.gpu = [id \in Node |-> w1], !.runs = 1, !.faults = 0]
TwoOwners == [Pipeline EXCEPT !.first = {w1, w2}, !.runs = 1, !.faults = 0]
P2P == [Base EXCEPT !.setting = "u_shaped", !.n = 3, !.static = TRUE, !.peers = <<w1>>, !.persistent = TRUE]

Deployments == {Pipeline, Vanilla, Nccl, OneGpu, TwoOwners, P2P}
Layers == <<1, 1, 1>>
=============================================================================
