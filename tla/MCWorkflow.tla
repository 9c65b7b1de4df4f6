----------------------------- MODULE MCWorkflow -----------------------------
(***************************************************************************)
(* Graphs for Workflow: a chain of actions behind a condition, and one     *)
(* whose last message comes after a wait.                                  *)
(***************************************************************************)
EXTENDS Workflow, TLC

CONSTANTS start, vip, greet, mark, report, begin, pause, remind, w1, w2, x1, x2, x3

MCTypeOf ==
    start :> "event" @@ vip :> "condition" @@ greet :> "send"
        @@ mark :> "update_field" @@ report :> "emit_destination"
        @@ begin :> "event" @@ pause :> "wait" @@ remind :> "send"
NodeTypeOf == [n \in Node |-> MCTypeOf[n]]

Edges ==
    start :> vip @@ vip :> greet @@ greet :> mark @@ mark :> report
        @@ report :> NoNode
        @@ begin :> pause @@ pause :> remind @@ remind :> NoNode
Targets == [n \in Node |-> Edges[n]]

(* x1 runs the chain, x2 and x3 the graph that waits.                      *)
Starts == [r \in Run |-> IF r = x1 THEN start ELSE begin]
=============================================================================
