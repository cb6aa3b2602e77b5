---------------------------- MODULE MCLocalExecutor ----------------------------
(***************************************************************************)
(* LocalExecutor on small runs: three clients with unequal loaders, every  *)
(* mode with every algorithm, and every way of running a batch.            *)
(***************************************************************************)
EXTENDS LocalExecutor

Loaders == {<<1, 2, 1>>, <<2, 0, 1>>}

Base ==
  [mode |-> "parallel", handoff |-> "copy", algorithm |-> "default", callback |-> FALSE,
   setting |-> "vanilla", policy |-> "full", micro |-> 1, samples |-> 4, tied |-> FALSE,
   attack |-> FALSE, evaluate |-> TRUE, batches |-> [k \in Client |-> 1]]

Settings ==
  {[mode |-> m, handoff |-> h, algorithm |-> a, callback |-> c] :
     m \in {"sequential", "parallel"}, h \in {"copy", "keep"},
     a \in {"default", "splitfed", "splitfed_v1"}, c \in BOOLEAN}

SessionRuns ==
  {s @@ [batches |-> [k \in Client |-> l[k + 1]]] @@ Base :
     s \in {t \in Settings : /\ t.mode = "parallel" => t.handoff = "copy"
                             /\ t.callback => t.mode = "parallel" /\ t.algorithm = "default"},
     l \in Loaders}

BatchRuns ==
  {t @@ [mode |-> "sequential", handoff |-> "keep"] @@ Base :
     t \in [micro : {1, 2, 3}, samples : {4, 5, 6}, tied : BOOLEAN, attack : BOOLEAN,
            setting : {"u_shaped"}, policy : {"full"}, evaluate : BOOLEAN]}

LocalLossRuns == {[policy |-> "local_loss", attack |-> TRUE] @@ Base}

TheRuns == SessionRuns \cup BatchRuns \cup LocalLossRuns
TheSelections == {<<0, 1, 2>>, <<2, 0>>, <<1>>, <<1, 2>>}
================================================================================
