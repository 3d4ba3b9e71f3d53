-------------------------- MODULE MCStartAdmission --------------------------
(***************************************************************************)
(* Instances of StartAdmission for TLC: two requests and a recovery        *)
(* command that compete for two e-mails and two usernames.                 *)
(***************************************************************************)
EXTENDS StartAdmission, TLC

CONSTANTS r1, r2, k1, s1, s2, s3, e1, e2, n1, n2

OwnSessions == r1 :> s1 @@ r2 :> s2 @@ k1 :> s3

Form(e, n, c) == [email |-> e, username |-> n, content |-> c]

\* two or three calls that can all be started want the same e-mail, the same
\* username or both, and a third may be refused early
Competing ==
    {r1 :> Form(e1, n1, "valid") @@ r2 :> Form(e1, n2, "valid") @@ k1 :> Form(e2, n2, "unidentified"),
     r1 :> Form(e1, n1, "valid") @@ r2 :> Form(e2, n1, "valid") @@ k1 :> Form(e2, n2, "malformed"),
     r1 :> Form(e1, n1, "valid") @@ r2 :> Form(e2, n2, "malformed") @@ k1 :> Form(e1, n2, "valid"),
     r1 :> Form(e1, n1, "overlong") @@ r2 :> Form(e2, n1, "valid") @@ k1 :> Form(e1, n2, "valid")}

\* a command with a password bcrypt refuses
OverlongCommand ==
    {r1 :> Form(e1, n1, "valid") @@ r2 :> Form(e1, n2, "malformed") @@ k1 :> Form(e2, n2, "overlong")}
=============================================================================
