-------------------------- MODULE MCResultConsumer --------------------------
(***************************************************************************)
(* Instances of ResultConsumer for TLC: interchangeable workers, and       *)
(* interchangeable events where only safety is checked.                    *)
(***************************************************************************)
EXTENDS ResultConsumer, TLC

ConsumerSymmetry == Permutations(Workers) \cup Permutations(Events)
=============================================================================
