------------------------- MODULE MCRegistrationSaga -------------------------
(***************************************************************************)
(* Instances of RegistrationSaga for TLC: one result message per step.     *)
(***************************************************************************)
EXTENDS RegistrationSagaProperties, TLC

CONSTANTS ru, ra, rm, q1, q2, g1, g2

OneResultEach == ru :> "user" @@ ra :> "auth" @@ rm :> "mail"

ClientSymmetry == Permutations(Requests) \cup Permutations(Queries)
=============================================================================
