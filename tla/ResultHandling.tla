--------------------------- MODULE ResultHandling ---------------------------
(***************************************************************************)
(* What the consumption of results promises to their handlers: a handler   *)
(* runs for a published result only, one run at a time, and not again once *)
(* it succeeded or once a claim was left in place without a run.           *)
(* ResultConsumer implements it call by call.                              *)
(***************************************************************************)
CONSTANT Results

VARIABLE handling  \* what has become of each result

HandlingStates == {"unpublished", "waiting", "running", "handled", "lost"}

Init == handling = [r \in Results |-> "unpublished"]

Move(S, from, to) ==
    /\ \A r \in S : handling[r] = from
    /\ handling' = [r \in Results |-> IF r \in S THEN to ELSE handling[r]]

Publish(r) == Move({r}, "unpublished", "waiting")

\* the event is claimed
Begin(r) == Move({r}, "waiting", "running")

Succeed(r) == Move({r}, "running", "handled")

\* the handler failed and its claim is given up
GiveBack(r) == Move({r}, "running", "waiting")

\* the claim is taken and reports an error: no run follows
Miss(r) == Move({r}, "waiting", "lost")

\* the claim is kept although the run has ended, for one or for all at once
Lose(S) == Move(S, "running", "lost")

Next ==
    \/ \E r \in Results : Publish(r) \/ Begin(r) \/ Miss(r)
    \/ \E r \in Results : Succeed(r) \/ GiveBack(r)
    \/ \E S \in SUBSET Results : Lose(S)

Spec == Init /\ [][Next]_handling
=============================================================================
