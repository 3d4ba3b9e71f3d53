-------------------------- MODULE AccountActivation --------------------------
(***************************************************************************)
(* What a registration promises, whatever its session status shows on the  *)
(* way: the account is opened to one verification once every service       *)
(* reported success, is activated at most once and only by it, and hands   *)
(* out its tokens at most once and only when activated.                    *)
(***************************************************************************)
CONSTANT Services   \* those whose success a registration needs

VARIABLES
    reported,  \* services that reported success
    stage      \* of the account

Stages == {"open", "verifying", "activated", "claimed", "abandoned"}

TypeOK == reported \subseteq Services /\ stage \in Stages

Init == reported = {} /\ stage = "open"

Report ==
    /\ \E k \in Services : reported' = reported \cup {k}
    /\ UNCHANGED stage

Advance(from, to) == stage = from /\ stage' = to /\ UNCHANGED reported

BeginVerification == reported = Services /\ Advance("open", "verifying")
Activate == Advance("verifying", "activated")
Claim == Advance("activated", "claimed")
Abandon == Advance("verifying", "abandoned") \/ Advance("activated", "abandoned")

Next == Report \/ BeginVerification \/ Activate \/ Claim \/ Abandon

Spec == Init /\ [][Next]_<<reported, stage>>
=============================================================================
