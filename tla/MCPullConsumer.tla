---------------------------- MODULE MCPullConsumer ----------------------------
(***************************************************************************)
(* An instance of PullConsumer for TLC: batches of one message, or of two  *)
(* when the backlog is high.                                               *)
(***************************************************************************)
EXTENDS PullConsumer

SmallPlans == [t \in Tiers |-> IF t \in {"low", "medium"} THEN 1 ELSE 2]
=============================================================================
