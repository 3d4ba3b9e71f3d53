------------------------- MODULE StartAdmissionProofs -------------------------
(***************************************************************************)
(* Registrations are admitted once and completely, and their callers are   *)
(* told the truth about it, for any number of calls, sessions, faults and  *)
(* restarts.                                                               *)
(***************************************************************************)
EXTENDS StartAdmission, TLAPS

USE DEF Calls

-----------------------------------------------------------------------------
(* The invariant, seen from one call: only steps of the call and changes   *)
(* of the rows disturb its part.                                           *)

Complete(c) ==
    LET s == SessionOf[c]
    IN  Stored(s) /\ author[s] = c /\ stepRows[s] = 3 /\ s \in dispatched

EmailHeld(c) == \E s \in SessionIds : HoldsEmail(s, c)
UsernameHeld(c) == \E s \in SessionIds : HoldsUsername(s, c)

Conflicted == {"found_incomplete", "found_completed"}
BeforeInsertion == (StartLabels \ {"create_steps", "hash"}) \cup {"idle"}

CallStored(c) ==
    LET s == SessionOf[c] IN
    /\ at[c] = "create_steps" => Stored(s) /\ author[s] = c /\ stepRows[s] < 3
    /\ at[c] = "hash" => Stored(s) /\ author[s] = c /\ stepRows[s] = 3
    /\ at[c] \in {"create_steps", "hash"} => s \notin dispatched
    /\ answer[c] = "started" => Complete(c)

CallNoted(c) ==
    /\ at[c] \in StartLabels => answer[c] = "none"
    /\ at[c] = "lookup_username" /\ taken[c].email => EmailHeld(c)
    /\ answer[c] \in Conflicted => taken[c].email \/ taken[c].username
    /\ answer[c] = "found_incomplete" =>
          (taken[c].email => EmailHeld(c)) /\ (taken[c].username => UsernameHeld(c))

CallAnswered(c) ==
    c \in Requests =>
        /\ answer[c] # "none" => at[c] = "done"
        /\ at[c] \in BeforeInsertion => ~Stored(SessionOf[c])
        /\ answer[c] \in Conflicted \cup {"InvalidArgument"} => ~Stored(SessionOf[c])
        /\ stage = "cancelled" => ~InFlight(c)

CallInvariant(c) == CallStored(c) /\ CallNoted(c) /\ CallAnswered(c)

RowInvariant == UniqueIdentity /\ SessionsHaveAuthors

ByCalls ==
    /\ TypeOK /\ RowInvariant
    /\ \A c \in Calls : CallInvariant(c)

\* The invariant is the conjunction of the parts of the calls and of the rows.
LEMMA InvariantByCalls == AdmissionInvariant <=> ByCalls
  <1> USE DEF EmailHeld, UsernameHeld, Conflicted
  <1>1. (\A c \in Calls : CallStored(c)) <=> StartFollowsRows /\ AdmittedIsComplete /\ DispatchedOnce
    BY DEF CallStored, StartFollowsRows, AdmittedIsComplete, DispatchedOnce, Complete
  <1>2. (\A c \in Calls : CallNoted(c)) <=> AnswersFollowStart /\ ConflictIsJustified
    BY DEF CallNoted, AnswersFollowStart, ConflictIsJustified
  <1>3. (\A c \in Calls : CallAnswered(c)) <=>
            RequestsInOrder /\ RefusalLeavesNothing /\ DrainedBeforeCancel
    BY DEF CallAnswered, RequestsInOrder, RefusalLeavesNothing, DrainedBeforeCancel, BeforeInsertion
  <1> QED
    BY <1>1, <1>2, <1>3 DEF AdmissionInvariant, CallInvariant, RowInvariant, ByCalls

-----------------------------------------------------------------------------
(* Frame lemmas.                                                           *)

\* The invariant survives a step that leaves the rows and all calls but one
\* alone, when that call's part does.
LEMMA CallFrame ==
    ASSUME ByCalls, NEW c \in Calls,
           UNCHANGED <<form, rows, stage>>,
           \A d \in Calls \ {c} : at'[d] = at[d] /\ answer'[d] = answer[d] /\ taken'[d] = taken[d],
           TypeOK', CallInvariant(c)'
    PROVE  ByCalls'
  <1>1. \A d \in Calls \ {c} : CallInvariant(d)'
    BY DEF ByCalls, CallInvariant, CallStored, CallNoted, CallAnswered, Complete, EmailHeld, UsernameHeld,
        HoldsEmail, HoldsUsername, Stored, InFlight, rows
  <1>2. RowInvariant'
    BY DEF ByCalls, RowInvariant, UniqueIdentity, SessionsHaveAuthors, Stored, rows
  <1> QED
    BY <1>1, <1>2 DEF ByCalls

\* Every error of Start has one of three answers.
LEMMA ErrorIsAnswer ==
    ASSUME NEW err
    PROVE  ToStartError(err) \in {"Permanent", "InvalidArgument", "Internal"}
  BY DEF ToStartError

\* A step that moves one call and writes its notes keeps the types.
LEMMA CallMoveType ==
    ASSUME TypeOK, NEW c \in Calls, NEW l, NEW a \in Answers, NEW t \in Conflicts,
           l \in IF c \in Requests THEN RequestLabels ELSE CommandLabels,
           at' = [at EXCEPT ![c] = l],
           answer' = [answer EXCEPT ![c] = a], taken' = [taken EXCEPT ![c] = t]
    PROVE  /\ at' \in [Calls -> RequestLabels \cup CommandLabels]
           /\ \A r \in Requests : at'[r] \in RequestLabels
           /\ answer' \in [Calls -> Answers] /\ taken' \in [Calls -> Conflicts]
  BY DEF TypeOK

-----------------------------------------------------------------------------
(* Steps of one call that leave the rows alone.  Move(c, l, a, t) is what   *)
(* such a step does to the call.                                           *)

Move(c, l, a, t) ==
    /\ at' = [at EXCEPT ![c] = l]
    /\ answer' = [answer EXCEPT ![c] = a]
    /\ taken' = [taken EXCEPT ![c] = t]

LabelOK(c, l) == l \in IF c \in Requests THEN RequestLabels ELSE CommandLabels

\* What must hold of the new label, answer and notes of a call.
MoveOK(c, l, a, t) ==
    /\ LabelOK(c, l) /\ a \in Answers /\ t \in Conflicts
    /\ l \notin {"create_steps", "hash"}
    /\ l \in StartLabels => a = "none"
    /\ l = "lookup_username" /\ t.email => EmailHeld(c)
    /\ a = "started" => a = answer[c]
    /\ a \in Conflicted => t.email \/ t.username
    /\ a = "found_incomplete" => (t.email => EmailHeld(c)) /\ (t.username => UsernameHeld(c))
    /\ c \in Requests =>
          /\ a # "none" => l = "done"
          /\ l \in BeforeInsertion => at[c] \in BeforeInsertion
          /\ a \in Conflicted \cup {"InvalidArgument"} => at[c] \in BeforeInsertion
          /\ stage # "cancelled"

\* Such a move preserves the part of its call.
LEMMA MoveCallInvariant ==
    ASSUME ByCalls, NEW c \in Calls, NEW l, NEW a, NEW t, Move(c, l, a, t), MoveOK(c, l, a, t),
           UNCHANGED <<form, rows, stage>>
    PROVE  CallInvariant(c)'
  <1>1. at'[c] = l /\ answer'[c] = a /\ taken'[c] = t
    BY DEF Move, ByCalls, TypeOK
  <1>2. EmailHeld(c)' = EmailHeld(c) /\ UsernameHeld(c)' = UsernameHeld(c)
        /\ Complete(c)' = Complete(c)
    BY DEF EmailHeld, UsernameHeld, HoldsEmail, HoldsUsername, Stored, Complete, rows
  <1>3. CallStored(c)'
    BY <1>1, <1>2 DEF MoveOK, CallStored, ByCalls, CallInvariant
  <1>4. CallNoted(c)'
    BY <1>1, <1>2 DEF MoveOK, CallNoted
  <1>5. CallAnswered(c)'
    BY <1>1 DEF MoveOK, CallAnswered, ByCalls, CallInvariant, Stored, rows
  <1> QED
    BY <1>3, <1>4, <1>5 DEF CallInvariant

\* So it preserves the whole invariant.
LEMMA MoveInvariant ==
    ASSUME ByCalls, NEW c \in Calls, NEW l, NEW a, NEW t, Move(c, l, a, t), MoveOK(c, l, a, t),
           UNCHANGED <<form, rows, process>>, claimed' \subseteq Commands, reported' \subseteq Commands
    PROVE  ByCalls'
  <1>1. CallInvariant(c)'
    BY MoveCallInvariant DEF process
  <1>2. /\ at' \in [Calls -> RequestLabels \cup CommandLabels]
        /\ \A r \in Requests : at'[r] \in RequestLabels
        /\ answer' \in [Calls -> Answers] /\ taken' \in [Calls -> Conflicts]
    BY CallMoveType DEF ByCalls, Move, MoveOK, LabelOK
  <1>3. TypeOK'
    BY <1>2 DEF ByCalls, TypeOK, rows, process
  <1>4. \A d \in Calls \ {c} : at'[d] = at[d] /\ answer'[d] = answer[d] /\ taken'[d] = taken[d]
    BY DEF Move, ByCalls, TypeOK
  <1> QED
    BY <1>1, <1>3, <1>4, CallFrame DEF process

\* What every call brings to its move.
LEMMA CallFacts ==
    ASSUME ByCalls, NEW c \in Calls
    PROVE  /\ TypeOK /\ CallStored(c) /\ CallNoted(c) /\ CallAnswered(c)
           /\ answer[c] \in Answers /\ taken[c] \in Conflicts
           /\ claimed \subseteq Commands /\ reported \subseteq Commands
           /\ c \in Requests => answer[c] = "none" \/ at[c] = "done"
           /\ c \in Requests /\ InFlight(c) => stage # "cancelled"
  BY DEF ByCalls, TypeOK, CallInvariant, CallAnswered

-----------------------------------------------------------------------------
(* The two ways in, and the lookups.                                       *)

\* The calls of Start that write nothing move their call well.
LEMMA LookupInvariant ==
    ASSUME ByCalls, NEW c \in Calls,
           LookupEmail(c) \/ LookupUsername(c) \/ CheckEmail(c) \/ CheckUsername(c)
    PROVE  ByCalls'
  <1> USE DEF LabelOK, RequestLabels, CommandLabels, StartLabels, Answers, Conflicted,
              BeforeInsertion
  <1>1. /\ TypeOK /\ CallNoted(c) /\ answer[c] = "none" /\ taken[c] \in Conflicts
        /\ c \in Requests => stage # "cancelled"
        /\ claimed \subseteq Commands /\ reported \subseteq Commands
    BY CallFacts DEF CallNoted, InFlight, LookupEmail, LookupUsername, CheckEmail, CheckUsername
  <1>2. ASSUME NEW e, NEW n, e \in BOOLEAN, n \in BOOLEAN
        PROVE  Conflict(e, n) \in Conflicts /\ Conflict(e, n).email = e /\ Conflict(e, n).username = n
    BY <1>2 DEF Conflict, Conflicts
  <1>3. CASE LookupEmail(c)
    <2> DEFINE e == \E s \in SessionIds : HoldsEmail(s, c) /\ Occupied(s)
    <2> DEFINE t == Conflict(e, FALSE)
    <2>1. Move(c, "lookup_username", "none", t)
      BY <1>3, <1>1 DEF LookupEmail, Move, Goto, Finds, TypeOK
    <2>2. MoveOK(c, "lookup_username", "none", t)
      <3>1. e => EmailHeld(c)
        BY DEF EmailHeld
      <3>2. t \in Conflicts /\ t.email = e
        BY <1>2
      <3> HIDE DEF t
      <3> QED
        BY <1>3, <1>1, <3>1, <3>2 DEF LookupEmail, MoveOK
    <2> QED
      BY <1>1, <1>3, <2>1, <2>2, MoveInvariant DEF LookupEmail
  <1>4. CASE LookupUsername(c)
    <2> DEFINE n == \E s \in SessionIds : HoldsUsername(s, c) /\ Occupied(s)
    <2> DEFINE t == Conflict(taken[c].email, n)
    <2>1. /\ t \in Conflicts /\ t.email = taken[c].email /\ t.username = n
          /\ t.email => EmailHeld(c)
          /\ t.username => UsernameHeld(c)
      <3>1. taken[c].email \in BOOLEAN
        BY <1>1 DEF Conflicts
      <3>2. t \in Conflicts /\ t.email = taken[c].email /\ t.username = n
        BY <1>2, <3>1
      <3> QED
        BY <1>1, <1>4, <3>2 DEF CallNoted, UsernameHeld, LookupUsername
    <2>2. CASE taken[c].email \/ n
      <3> DEFINE l == IF c \in Requests THEN "done" ELSE "publish"
      <3>1. Move(c, l, "found_incomplete", t)
        BY <1>4, <1>1, <2>2 DEF LookupUsername, Move, Goto, Finds, Returns, TypeOK
      <3>2. MoveOK(c, l, "found_incomplete", t)
        <4> HIDE DEF t
        <4> QED
          BY <1>4, <1>1, <2>1, <2>2 DEF LookupUsername, MoveOK
      <3> QED
        BY <1>1, <1>4, <3>1, <3>2, MoveInvariant DEF LookupUsername
    <2>3. CASE ~(taken[c].email \/ n)
      <3>1. Move(c, "check_email", "none", t)
        BY <1>4, <1>1, <2>3 DEF LookupUsername, Move, Goto, Finds, TypeOK
      <3>2. MoveOK(c, "check_email", "none", t)
        <4> HIDE DEF t
        <4> QED
          BY <1>4, <1>1, <2>1, <2>3 DEF LookupUsername, MoveOK
      <3> QED
        BY <1>1, <1>4, <3>1, <3>2, MoveInvariant DEF LookupUsername
    <2> QED
      BY <2>2, <2>3
  <1>5. CASE CheckEmail(c)
    <2>1. PICK owned \in BOOLEAN : Finds(c, owned, FALSE)
      BY <1>5 DEF CheckEmail
    <2> DEFINE t == Conflict(owned, FALSE)
    <2>2. Move(c, "check_username", "none", t)
      BY <1>5, <1>1, <2>1 DEF CheckEmail, Move, Goto, Finds, TypeOK
    <2>3. MoveOK(c, "check_username", "none", t)
      <3>1. t \in Conflicts
        BY <1>2
      <3> HIDE DEF t
      <3> QED
        BY <1>5, <1>1, <3>1 DEF CheckEmail, MoveOK
    <2> QED
      BY <1>1, <1>5, <2>2, <2>3, MoveInvariant DEF CheckEmail
  <1>6. CASE CheckUsername(c)
    <2>1. PICK owned \in BOOLEAN :
              /\ Finds(c, taken[c].email, owned)
              /\ IF taken[c].email \/ owned
                 THEN Returns(c, "found_completed")
                 ELSE Goto(c, "create_session") /\ UNCHANGED answer
      BY <1>6 DEF CheckUsername
    <2> DEFINE t == Conflict(taken[c].email, owned)
    <2>2. t \in Conflicts /\ t.email = taken[c].email /\ t.username = owned
      BY <1>1, <1>2 DEF Conflicts
    <2>3. CASE taken[c].email \/ owned
      <3> DEFINE l == IF c \in Requests THEN "done" ELSE "publish"
      <3>1. Move(c, l, "found_completed", t)
        BY <1>1, <2>1, <2>3 DEF Move, Goto, Finds, Returns, TypeOK
      <3>2. MoveOK(c, l, "found_completed", t)
        <4> HIDE DEF t
        <4> QED
          BY <1>6, <1>1, <2>2, <2>3 DEF CheckUsername, MoveOK
      <3> QED
        BY <1>1, <1>6, <3>1, <3>2, MoveInvariant DEF CheckUsername
    <2>4. CASE ~(taken[c].email \/ owned)
      <3>1. Move(c, "create_session", "none", t)
        BY <1>1, <2>1, <2>4 DEF Move, Goto, Finds, TypeOK
      <3>2. MoveOK(c, "create_session", "none", t)
        <4> HIDE DEF t
        <4> QED
          BY <1>6, <1>1, <2>2, <2>4 DEF CheckUsername, MoveOK
      <3> QED
        BY <1>1, <1>6, <3>1, <3>2, MoveInvariant DEF CheckUsername
    <2> QED
      BY <2>3, <2>4
  <1> QED
    BY <1>3, <1>4, <1>5, <1>6

\* A call that is refused or handed to Start moves well.
LEMMA BeginStartInvariant ==
    ASSUME ByCalls, NEW c \in Calls, BeginStart(c), UNCHANGED <<form, rows, taken, reported, process>>,
           at[c] = "idle", c \in Requests => stage = "up",
           claimed' \subseteq Commands
    PROVE  ByCalls'
  <1> USE DEF LabelOK, RequestLabels, CommandLabels, StartLabels, Answers, Conflicted,
              BeforeInsertion
  <1>1. TypeOK /\ taken[c] \in Conflicts /\ reported \subseteq Commands
    BY CallFacts
  <1>2. CASE form[c].content = "malformed"
    <2> DEFINE l == IF c \in Requests THEN "done" ELSE "release"
    <2>1. Move(c, l, "InvalidArgument", taken[c])
      BY <1>1, <1>2 DEF BeginStart, Fails, ToStartError, Goto, Move, TypeOK
    <2>2. MoveOK(c, l, "InvalidArgument", taken[c])
      BY <1>1 DEF MoveOK
    <2> QED
      BY <1>1, <2>1, <2>2, MoveInvariant
  <1>3. CASE form[c].content # "malformed"
    <2>1. Move(c, "lookup_email", "none", taken[c])
      BY <1>1, <1>3 DEF BeginStart, Goto, Move, TypeOK
    <2>2. MoveOK(c, "lookup_email", "none", taken[c])
      BY <1>1 DEF MoveOK
    <2> QED
      BY <1>1, <2>1, <2>2, MoveInvariant
  <1> QED
    BY <1>2, <1>3

\* A request comes in through BeginStart.
LEMMA RequestInvariant ==
    ASSUME ByCalls, NEW r \in Requests, StartRegistration(r)
    PROVE  ByCalls'
  BY BeginStartInvariant, CallFacts DEF StartRegistration

-----------------------------------------------------------------------------
(* The handling of a command around Start.                                 *)

\* Claiming a command and giving its claim up.
LEMMA CommandInvariant ==
    ASSUME ByCalls, NEW k \in Commands, ClaimCommand(k) \/ ClaimUnseen(k) \/ Release(k)
    PROVE  ByCalls'
  <1> USE DEF LabelOK, RequestLabels, CommandLabels, StartLabels, Answers, Conflicted, BeforeInsertion
  <1>1. /\ TypeOK /\ CallNoted(k) /\ answer[k] \in Answers /\ taken[k] \in Conflicts
        /\ k \in Calls /\ k \notin Requests
        /\ claimed \subseteq Commands /\ reported \subseteq Commands
    BY AdmissionAssumption, CallFacts
  <1>2. CASE ClaimCommand(k)
    <2>1. CASE form[k].content = "unidentified"
      <3>1. Move(k, "release", "Permanent", taken[k])
        BY <1>1, <1>2, <2>1 DEF ClaimCommand, Fails, ToStartError, Goto, Move, TypeOK
      <3>2. MoveOK(k, "release", "Permanent", taken[k])
        BY <1>1 DEF MoveOK
      <3> QED
        BY <1>1, <1>2, <3>1, <3>2, MoveInvariant DEF ClaimCommand
    <2>2. CASE form[k].content # "unidentified"
      BY <1>1, <1>2, <2>2, BeginStartInvariant DEF ClaimCommand
    <2> QED
      BY <2>1, <2>2
  <1>3. CASE ClaimUnseen(k) \/ Release(k)
    <2>1. Move(k, "idle", answer[k], taken[k])
      BY <1>1, <1>3 DEF ClaimUnseen, Release, Goto, Move, TypeOK
    <2>2. MoveOK(k, "idle", answer[k], taken[k])
      BY <1>1 DEF MoveOK, CallNoted
    <2> QED
      BY <1>1, <1>3, <2>1, <2>2, MoveInvariant DEF ClaimUnseen, Release
  <1> QED
    BY <1>2, <1>3

\* Publishing the completed event ends the command or fails it.
LEMMA PublishInvariant ==
    ASSUME ByCalls, NEW k \in Commands, PublishCompleted(k) \/ PublishFails(k)
    PROVE  ByCalls'
  <1> USE DEF LabelOK, RequestLabels, CommandLabels, StartLabels, Answers, Conflicted, BeforeInsertion
  <1>1. /\ TypeOK /\ CallNoted(k) /\ answer[k] \in Answers /\ taken[k] \in Conflicts
        /\ k \in Calls /\ k \notin Requests
        /\ claimed \subseteq Commands /\ reported \subseteq Commands
    BY AdmissionAssumption, CallFacts
  <1>2. PICK l \in {"done", "release"}, a \in {answer[k], "Internal"} : Move(k, l, a, taken[k])
    <2>1. CASE Goto(k, "done") /\ UNCHANGED <<answer, taken>>
      BY <1>1, <2>1 DEF Goto, Move, TypeOK
    <2>2. CASE Fails(k, "fault") /\ UNCHANGED taken
      BY <1>1, <2>2 DEF Fails, ToStartError, Goto, Move, TypeOK
    <2> QED
      BY <2>1, <2>2 DEF PublishCompleted, PublishFails
  <1>3. MoveOK(k, l, a, taken[k])
    BY <1>1, <1>2 DEF MoveOK, CallNoted
  <1>4. /\ UNCHANGED <<form, rows, process, claimed>>
        /\ reported' \subseteq Commands
    BY <1>1 DEF PublishCompleted, PublishFails
  <1> QED
    BY <1>1, <1>2, <1>3, <1>4, MoveInvariant

\* A call of Start that fails without effect.
LEMMA StartFailsInvariant ==
    ASSUME ByCalls, NEW c \in Calls, StartFails(c)
    PROVE  ByCalls'
  <1> USE DEF LabelOK, RequestLabels, CommandLabels, StartLabels, Answers, Conflicted,
              BeforeInsertion
  <1>1. /\ TypeOK /\ taken[c] \in Conflicts
        /\ c \in Requests => stage # "cancelled"
        /\ claimed \subseteq Commands /\ reported \subseteq Commands
    BY CallFacts DEF InFlight, StartFails
  <1> DEFINE l == IF c \in Requests THEN "done" ELSE "release"
  <1>2. Move(c, l, "Internal", taken[c])
    BY <1>1 DEF StartFails, Fails, ToStartError, Goto, Move, TypeOK
  <1>3. MoveOK(c, l, "Internal", taken[c])
    BY <1>1 DEF MoveOK
  <1> QED
    BY <1>1, <1>2, <1>3, MoveInvariant DEF StartFails

-----------------------------------------------------------------------------
(* Steps of a call that write the rows of its session.                     *)

\* Identities held by stored sessions stay held when no session is removed.
LEMMA HeldStaysHeld ==
    ASSUME UNCHANGED form,
           \A s \in SessionIds : Stored(s) => Stored(s)' /\ author'[s] = author[s]
    PROVE  \A c \in Calls : (EmailHeld(c) => EmailHeld(c)') /\ (UsernameHeld(c) => UsernameHeld(c)')
  <1>1. ASSUME NEW s \in SessionIds, NEW c
        PROVE  /\ HoldsEmail(s, c) => HoldsEmail(s, c)'
               /\ HoldsUsername(s, c) => HoldsUsername(s, c)'
    BY DEF HoldsEmail, HoldsUsername
  <1> QED
    BY <1>1 DEF EmailHeld, UsernameHeld

\* The invariant survives a step of a call that writes its own session, which
\* exists afterwards, when the call's part and the uniqueness do.
LEMMA SessionFrame ==
    ASSUME ByCalls, NEW c \in Calls,
           UNCHANGED <<form, stage>>,
           \A s \in SessionIds : Stored(s) => Stored(s)' /\ author'[s] = author[s],
           \A s \in SessionIds \ {SessionOf[c]} :
               status'[s] = status[s] /\ author'[s] = author[s] /\ stepRows'[s] = stepRows[s],
           Stored(SessionOf[c])', author'[SessionOf[c]] = c,
           dispatched \subseteq dispatched', dispatched' \subseteq dispatched \cup {SessionOf[c]},
           \A d \in Calls \ {c} : at'[d] = at[d] /\ answer'[d] = answer[d] /\ taken'[d] = taken[d],
           TypeOK', CallInvariant(c)', UniqueIdentity'
    PROVE  ByCalls'
  <1>1. SessionsHaveAuthors'
    BY DEF ByCalls, RowInvariant, SessionsHaveAuthors, Stored
  <1>2. ASSUME NEW d \in Calls \ {c} PROVE CallInvariant(d)'
    <2>1. CallInvariant(d) /\ SessionOf[d] \in SessionIds
      BY AdmissionAssumption DEF ByCalls
    <2>2. CASE SessionOf[d] = SessionOf[c]
      <3>1. ~(Stored(SessionOf[d]) /\ author[SessionOf[d]] = d)
        BY <2>1, <2>2
      <3>2. d \notin Requests
        BY <2>2, AdmissionAssumption
      <3>3. CallStored(d)'
        BY <2>1, <3>1, HeldStaysHeld DEF CallInvariant, CallStored, Complete
      <3> QED
        BY <2>1, <3>2, <3>3, HeldStaysHeld DEF CallInvariant, CallNoted, CallAnswered
    <2>3. CASE SessionOf[d] # SessionOf[c]
      <3>1. CallStored(d)'
        BY <2>1, <2>3, HeldStaysHeld DEF CallInvariant, CallStored, Complete, Stored
      <3>2. CallNoted(d)'
        BY <2>1, HeldStaysHeld DEF CallInvariant, CallNoted
      <3>3. CallAnswered(d)'
        BY <2>1, <2>3 DEF CallInvariant, CallAnswered, Stored, InFlight
      <3> QED
        BY <3>1, <3>2, <3>3 DEF CallInvariant
    <2> QED
      BY <2>2, <2>3
  <1> QED
    BY <1>1, <1>2 DEF ByCalls, RowInvariant

\* Inserting a session keeps the identities unique: the indexes let it in.
LEMMA InsertionInvariant ==
    ASSUME ByCalls, NEW c \in Calls, at[c] = "create_session", StoreSession(c),
           NEW l \in {"create_steps", "done", "release"}, NEW a \in {answer[c], "Internal"},
           \/ l = "create_steps" /\ a = answer[c]
           \/ l = (IF c \in Requests THEN "done" ELSE "release") /\ a = "Internal",
           Move(c, l, a, taken[c]),
           UNCHANGED <<form, stepRows, dispatched, reported, process>>, claimed' = claimed
    PROVE  ByCalls'
  <1> DEFINE s == SessionOf[c]
  <1>1. /\ TypeOK /\ CallInvariant(c) /\ RowInvariant /\ s \in SessionIds
        /\ c \in Requests => answer[c] = "none" /\ stage # "cancelled"
    BY AdmissionAssumption
    DEF ByCalls, CallInvariant, CallAnswered, InFlight
  <1>2. /\ status' = [status EXCEPT ![s] = "started"] /\ author' = [author EXCEPT ![s] = c]
        /\ ~Stored(s) /\ \A t \in SessionIds : ~SharesIdentity(t, c)
    BY DEF StoreSession, Insertable
  <1>3. /\ \A t \in SessionIds : Stored(t) => Stored(t)' /\ author'[t] = author[t]
        /\ Stored(s)' /\ author'[s] = c
        /\ \A t \in SessionIds \ {s} : status'[t] = status[t] /\ author'[t] = author[t]
    BY <1>1, <1>2 DEF Stored, TypeOK
  <1>4. TypeOK'
    <2>1. /\ at' \in [Calls -> RequestLabels \cup CommandLabels]
          /\ \A r \in Requests : at'[r] \in RequestLabels
          /\ answer' \in [Calls -> Answers] /\ taken' \in [Calls -> Conflicts]
      BY <1>1, CallMoveType
      DEF Move, TypeOK, RequestLabels, CommandLabels, StartLabels, Answers
    <2>2. status' \in [SessionIds -> Statuses] /\ author' \in [SessionIds -> Calls]
      BY <1>1, <1>2 DEF TypeOK, Statuses
    <2> QED
      BY <1>1, <2>1, <2>2 DEF TypeOK, process
  <1>5. UniqueIdentity'
    <2>1. ASSUME NEW t \in SessionIds \ {s}, Stored(t)'
          PROVE  /\ form'[author'[t]].email # form'[author'[s]].email
                 /\ form'[author'[t]].username # form'[author'[s]].username
      BY <1>2, <1>3, <2>1 DEF SharesIdentity, HoldsEmail, HoldsUsername, Stored
    <2>2. ASSUME NEW t \in SessionIds \ {s}, NEW u \in SessionIds \ {s}, t # u,
                 Stored(t)', Stored(u)'
          PROVE  /\ form'[author'[t]].email # form'[author'[u]].email
                 /\ form'[author'[t]].username # form'[author'[u]].username
      BY <1>1, <1>3, <2>2 DEF RowInvariant, UniqueIdentity, Stored
    <2> QED
      BY <2>1, <2>2 DEF UniqueIdentity
  <1>6. CallInvariant(c)'
    <2>1. at'[c] = l /\ answer'[c] = a /\ taken'[c] = taken[c] /\ stepRows'[s] = 0
      BY <1>1, <1>2 DEF Move, TypeOK, RowInvariant, SessionsHaveAuthors
    <2>2. answer[c] = "none" /\ s \notin dispatched
      BY <1>1, <1>2 DEF CallInvariant, CallNoted, StartLabels, RowInvariant, SessionsHaveAuthors
    <2>3. CallStored(c)' /\ CallNoted(c)'
      BY <1>1, <1>3, <2>1, <2>2 DEF CallStored, CallNoted, StartLabels, Conflicted
    <2>4. CallAnswered(c)'
      BY <1>1, <2>1 DEF CallAnswered, BeforeInsertion, StartLabels, Conflicted, process
    <2> QED
      BY <2>3, <2>4 DEF CallInvariant
  <1>7. \A d \in Calls \ {c} : at'[d] = at[d] /\ answer'[d] = answer[d] /\ taken'[d] = taken[d]
    BY <1>1 DEF Move, TypeOK
  <1> QED
    BY <1>3, <1>4, <1>5, <1>6, <1>7, SessionFrame DEF process

\* The session is inserted, seen or unseen, or the insertion is turned away.
LEMMA CreateSessionInvariant ==
    ASSUME ByCalls, NEW c \in Calls, CreateSession(c)
    PROVE  ByCalls'
  <1>1. /\ TypeOK /\ at[c] = "create_session" /\ taken[c] \in Conflicts
        /\ c \in Requests => stage # "cancelled"
        /\ claimed \subseteq Commands /\ reported \subseteq Commands
    BY CallFacts DEF InFlight, CreateSession
  <1>2. UNCHANGED <<form, stepRows, dispatched, taken, claimed, reported, process>>
    BY DEF CreateSession
  <1> DEFINE failed == IF c \in Requests THEN "done" ELSE "release"
  <1>3. CASE StoreSession(c) /\ Goto(c, "create_steps") /\ UNCHANGED answer
    <2>1. Move(c, "create_steps", answer[c], taken[c])
      BY <1>1, <1>2, <1>3 DEF Move, Goto, TypeOK
    <2> QED
      BY <1>1, <1>2, <1>3, <2>1, InsertionInvariant
  <1>4. CASE StoreSession(c) /\ Fails(c, "fault")
    <2>1. Move(c, failed, "Internal", taken[c])
      BY <1>1, <1>2, <1>4 DEF Move, Fails, ToStartError, Goto, TypeOK
    <2> QED
      BY <1>1, <1>2, <1>4, <2>1, InsertionInvariant
  <1>5. CASE Fails(c, "duplicate") /\ UNCHANGED <<status, author>>
    <2>1. Move(c, failed, "Internal", taken[c])
      BY <1>1, <1>2, <1>5 DEF Move, Fails, ToStartError, Goto, TypeOK
    <2>2. MoveOK(c, failed, "Internal", taken[c])
      BY <1>1 DEF MoveOK, LabelOK, RequestLabels, CommandLabels, StartLabels, Answers,
                  Conflicted, BeforeInsertion
    <2> QED
      BY <1>1, <1>2, <1>5, <2>1, <2>2, MoveInvariant DEF rows
  <1> QED
    BY <1>3, <1>4, <1>5 DEF CreateSession

\* A step row is added to the call's own session, which has fewer than three,
\* and the call goes on or believes that the insertion failed.
LEMMA CreateStepInvariant ==
    ASSUME ByCalls, NEW c \in Calls, CreateStep(c)
    PROVE  ByCalls'
  <1> DEFINE s == SessionOf[c]
  <1>1. /\ TypeOK /\ CallInvariant(c) /\ RowInvariant /\ s \in SessionIds /\ s \notin dispatched
        /\ at[c] = "create_steps" /\ Stored(s) /\ author[s] = c /\ stepRows[s] \in 0..2
        /\ answer[c] = "none" /\ taken[c] \in Conflicts
        /\ c \in Requests => stage # "cancelled"
    BY AdmissionAssumption, CallFacts
    DEF ByCalls, CallStored, CallNoted, StartLabels, InFlight, CreateStep, TypeOK
  <1>2. /\ stepRows' = [stepRows EXCEPT ![s] = @ + 1]
        /\ UNCHANGED <<form, status, author, dispatched, taken, claimed, reported, process>>
    BY DEF CreateStep
  <1>3. PICK l, a :
            /\ Move(c, l, a, taken[c])
            /\ \/ l = (IF stepRows[s] = 2 THEN "hash" ELSE "create_steps") /\ a = "none"
               \/ l = (IF c \in Requests THEN "done" ELSE "release") /\ a = "Internal"
    <2> DEFINE next == IF stepRows[s] = 2 THEN "hash" ELSE "create_steps"
    <2> DEFINE failed == IF c \in Requests THEN "done" ELSE "release"
    <2>1. CASE Goto(c, next) /\ UNCHANGED answer
      <3>1. Move(c, next, "none", taken[c])
        BY <1>1, <1>2, <2>1 DEF Goto, Move, TypeOK
      <3> QED
        BY <3>1
    <2>2. CASE Fails(c, "fault")
      <3>1. Move(c, failed, "Internal", taken[c])
        BY <1>1, <1>2, <2>2 DEF Fails, ToStartError, Goto, Move, TypeOK
      <3> QED
        BY <3>1
    <2> QED
      BY <2>1, <2>2 DEF CreateStep
  <1>4. TypeOK'
    <2>1. stepRows' \in [SessionIds -> 0..3]
      BY <1>1, <1>2 DEF TypeOK
    <2>2. /\ at' \in [Calls -> RequestLabels \cup CommandLabels]
          /\ \A r \in Requests : at'[r] \in RequestLabels
          /\ answer' \in [Calls -> Answers]
      BY <1>1, <1>3 DEF TypeOK, Move, RequestLabels, CommandLabels, StartLabels, Answers
    <2> QED
      BY <1>1, <1>2, <2>1, <2>2 DEF TypeOK, process
  <1>5. /\ at'[c] = l /\ answer'[c] = a /\ stepRows'[s] = stepRows[s] + 1
        /\ \A t \in SessionIds \ {s} : stepRows'[t] = stepRows[t]
        /\ \A d \in Calls \ {c} : at'[d] = at[d] /\ answer'[d] = answer[d]
        /\ \A t \in SessionIds : Stored(t)' = Stored(t)
    BY <1>1, <1>2, <1>3 DEF TypeOK, Stored, Move
  <1>6. CallInvariant(c)'
    <2>1. CallStored(c)'
      BY <1>1, <1>2, <1>3, <1>5 DEF CallStored
    <2>2. CallNoted(c)'
      BY <1>2, <1>3, <1>5 DEF CallNoted, StartLabels, Conflicted
    <2>3. CallAnswered(c)'
      BY <1>1, <1>2, <1>3, <1>5
      DEF CallAnswered, BeforeInsertion, StartLabels, Conflicted, process
    <2> QED
      BY <2>1, <2>2, <2>3 DEF CallInvariant
  <1>7. UniqueIdentity'
    BY <1>1, <1>2, <1>5 DEF RowInvariant, UniqueIdentity
  <1> QED
    BY <1>1, <1>2, <1>4, <1>5, <1>6, <1>7, SessionFrame DEF process

\* The dispatch is started when all rows exist, and then the call succeeds.
LEMMA HashPasswordInvariant ==
    ASSUME ByCalls, NEW c \in Calls, HashPassword(c)
    PROVE  ByCalls'
  <1> DEFINE s == SessionOf[c]
  <1>1. /\ TypeOK /\ CallInvariant(c) /\ RowInvariant /\ s \in SessionIds
        /\ taken[c] \in Conflicts
        /\ at[c] = "hash" /\ Stored(s) /\ author[s] = c /\ stepRows[s] = 3
        /\ c \in Requests => stage # "cancelled"
    BY AdmissionAssumption
    DEF ByCalls, CallInvariant, CallStored, CallAnswered, InFlight, HashPassword, TypeOK
  <1>2. UNCHANGED <<form, status, author, stepRows, taken, claimed, reported, process>>
    BY DEF HashPassword
  <1>3. CASE Fails(c, "hash") /\ UNCHANGED dispatched
    <2> DEFINE l == IF c \in Requests THEN "done" ELSE "release"
    <2>1. Move(c, l, "Internal", taken[c])
      BY <1>1, <1>2, <1>3 DEF Move, Fails, ToStartError, Goto, TypeOK
    <2>2. MoveOK(c, l, "Internal", taken[c])
      BY <1>1 DEF MoveOK, LabelOK, RequestLabels, CommandLabels, StartLabels, Answers,
                  Conflicted, BeforeInsertion
    <2>3. claimed \subseteq Commands /\ reported \subseteq Commands
      BY <1>1 DEF TypeOK
    <2> QED
      BY <1>2, <1>3, <2>1, <2>2, <2>3, MoveInvariant DEF rows
  <1>4. CASE Returns(c, "started") /\ dispatched' = dispatched \cup {s}
    <2> DEFINE l == IF c \in Requests THEN "done" ELSE "publish"
    <2>1. at' = [at EXCEPT ![c] = l] /\ answer' = [answer EXCEPT ![c] = "started"]
      BY <1>4 DEF Returns, Goto
    <2>2. TypeOK'
      <3>1. dispatched' \subseteq SessionIds
        BY <1>1, <1>4 DEF TypeOK
      <3>2. /\ at' \in [Calls -> RequestLabels \cup CommandLabels]
            /\ \A r \in Requests : at'[r] \in RequestLabels
            /\ answer' \in [Calls -> Answers]
        BY <1>1, <2>1 DEF TypeOK, RequestLabels, CommandLabels, StartLabels, Answers
      <3> QED
        BY <1>1, <1>2, <3>1, <3>2 DEF TypeOK, process
    <2>3. /\ at'[c] = l /\ answer'[c] = "started"
          /\ \A d \in Calls \ {c} : at'[d] = at[d] /\ answer'[d] = answer[d]
          /\ \A t \in SessionIds : Stored(t)' = Stored(t)
      BY <1>1, <1>2, <2>1 DEF TypeOK, Stored
    <2>4. CallInvariant(c)'
      <3>1. CallStored(c)' /\ CallNoted(c)'
        BY <1>1, <1>2, <1>4, <2>3 DEF CallStored, CallNoted, Complete, StartLabels, Conflicted
      <3>2. CallAnswered(c)'
        BY <1>1, <1>2, <2>3 DEF CallAnswered, BeforeInsertion, StartLabels, Conflicted, process
      <3> QED
        BY <3>1, <3>2 DEF CallInvariant
    <2>5. UniqueIdentity'
      BY <1>1, <1>2, <2>3 DEF RowInvariant, UniqueIdentity
    <2> QED
      BY <1>1, <1>2, <1>4, <2>2, <2>3, <2>4, <2>5, SessionFrame DEF process
  <1> QED
    BY <1>3, <1>4 DEF HashPassword

-----------------------------------------------------------------------------
(* Admitted sessions and the process.                                      *)

\* A session that moves on keeps its identity and its rows.
LEMMA ProgressInvariant ==
    ASSUME ByCalls, NEW s \in SessionIds, Progress(s)
    PROVE  ByCalls'
  <1>1. TypeOK /\ RowInvariant /\ status[s] # "none"
    BY DEF ByCalls, Progress, RowInvariant, SessionsHaveAuthors, Stored
  <1>2. PICK to \in Statuses \ {"none"} : status' = [status EXCEPT ![s] = to]
    BY DEF Progress
  <1>3. UNCHANGED <<form, author, stepRows, dispatched, at, taken, answer, claimed,
                    reported, process>>
    BY DEF Progress
  <1>4. \A t \in SessionIds : Stored(t)' = Stored(t)
    BY <1>1, <1>2 DEF TypeOK, Stored
  <1>5. TypeOK'
    BY <1>1, <1>2, <1>3 DEF TypeOK, process
  <1>6. RowInvariant'
    BY <1>1, <1>3, <1>4 DEF RowInvariant, UniqueIdentity, SessionsHaveAuthors
  <1>7. ASSUME NEW c \in Calls PROVE CallInvariant(c)'
    <2>1. CallInvariant(c) /\ SessionOf[c] \in SessionIds
      BY AdmissionAssumption DEF ByCalls
    <2>2. CallStored(c)' /\ CallNoted(c)'
      BY <1>3, <1>4, <2>1, HeldStaysHeld DEF CallInvariant, CallStored, CallNoted, Complete
    <2>3. CallAnswered(c)'
      BY <1>3, <1>4, <2>1 DEF CallInvariant, CallAnswered, InFlight, process
    <2> QED
      BY <2>2, <2>3 DEF CallInvariant
  <1> QED
    BY <1>5, <1>6, <1>7 DEF ByCalls

\* Stopping cancels the consumers only when the server is drained, and the end
\* of the process answers the calls it breaks off.
LEMMA ShutdownInvariant ==
    ASSUME ByCalls, Shutdown
    PROVE  ByCalls'
  <1>1. TypeOK
    BY DEF ByCalls
  <1>2. /\ UNCHANGED <<form, rows, taken, claimed, reported>>
        /\ stage' \in {"up", "draining", "cancelled", "exited"}
        /\ restarts' \in 0..MaxRestarts
    BY <1>1, AdmissionAssumption
    DEF Shutdown, StopServer, CancelConsumers, Exit, Restart, TypeOK
  <1>3. RowInvariant'
    BY <1>2 DEF ByCalls, RowInvariant, UniqueIdentity, SessionsHaveAuthors, Stored, rows
  <1>4. ASSUME NEW c \in Calls
        PROVE  /\ EmailHeld(c)' = EmailHeld(c) /\ UsernameHeld(c)' = UsernameHeld(c)
               /\ Complete(c)' = Complete(c)
               /\ Stored(SessionOf[c])' = Stored(SessionOf[c])
    BY <1>2 DEF EmailHeld, UsernameHeld, HoldsEmail, HoldsUsername,
                Stored, Complete, rows
  <1>5. CASE UNCHANGED <<at, answer>> /\ (stage' = "cancelled" => \A r \in Requests : ~InFlight(r))
    <2>1. TypeOK'
      BY <1>1, <1>2, <1>5 DEF TypeOK, rows
    <2>2. ASSUME NEW c \in Calls PROVE CallInvariant(c)'
      <3>1. CallStored(c)' /\ CallNoted(c)'
        BY <1>2, <1>4, <1>5
        DEF ByCalls, CallInvariant, CallStored, CallNoted, rows, Stored
      <3>2. CallAnswered(c)'
        BY <1>2, <1>4, <1>5 DEF ByCalls, CallInvariant, CallAnswered, InFlight
      <3> QED
        BY <3>1, <3>2 DEF CallInvariant
    <2> QED
      BY <1>3, <2>1, <2>2 DEF ByCalls
  <1>6. CASE Exit
    <2>1. \A c \in Calls :
             /\ at'[c] = IF ~InFlight(c) THEN at[c] ELSE IF c \in Requests THEN "done" ELSE "idle"
             /\ answer'[c] = IF c \in Requests /\ InFlight(c) THEN "Unavailable" ELSE answer[c]
             /\ taken'[c] = taken[c]
      BY <1>6 DEF Exit
    <2>2. TypeOK'
      <3>1. /\ at' \in [Calls -> RequestLabels \cup CommandLabels]
            /\ \A r \in Requests : at'[r] \in RequestLabels
            /\ answer' \in [Calls -> Answers]
        BY <1>1, <1>6 DEF Exit, TypeOK, RequestLabels, CommandLabels, Answers
      <3> QED
        BY <1>1, <1>2, <3>1 DEF TypeOK, rows
    <2>3. ASSUME NEW c \in Calls PROVE CallInvariant(c)'
      <3>1. CallInvariant(c)
        BY DEF ByCalls
      <3>2. CallStored(c)' /\ CallNoted(c)'
        BY <1>2, <1>4, <2>1, <3>1
        DEF CallInvariant, CallStored, CallNoted, InFlight, StartLabels, Conflicted
      <3>3. CallAnswered(c)'
        BY <1>2, <1>4, <1>6, <2>1, <3>1
        DEF CallInvariant, CallAnswered, InFlight, BeforeInsertion, StartLabels, Conflicted, Exit
      <3> QED
        BY <3>2, <3>3 DEF CallInvariant
    <2> QED
      BY <1>3, <2>2, <2>3 DEF ByCalls
  <1> QED
    BY <1>5, <1>6 DEF Shutdown, StopServer, CancelConsumers, Restart

-----------------------------------------------------------------------------
(* The invariant.                                                          *)

\* The initial states satisfy the invariant: nothing is stored or answered.
LEMMA InitInvariant == Init => ByCalls
  <1> SUFFICES ASSUME Init PROVE ByCalls
    OBVIOUS
  <1>1. TypeOK
    <2>1. author \in [SessionIds -> Calls]
      BY AdmissionAssumption DEF Init
    <2>2. 0 \in 0..MaxRestarts
      BY AdmissionAssumption
    <2>3. /\ at \in [Calls -> RequestLabels \cup CommandLabels]
          /\ \A r \in Requests : at[r] \in RequestLabels
          /\ answer \in [Calls -> Answers] /\ taken \in [Calls -> Conflicts]
      BY DEF Init, RequestLabels, CommandLabels, Answers, Conflicts, NothingTaken
    <2>4. /\ status \in [SessionIds -> Statuses] /\ stepRows \in [SessionIds -> 0..3]
      BY <2>2 DEF Init, Statuses
    <2> QED
      BY <2>1, <2>2, <2>3, <2>4 DEF Init, TypeOK
  <1>2. RowInvariant
    BY DEF Init, RowInvariant, UniqueIdentity, SessionsHaveAuthors, Stored
  <1>3. ASSUME NEW c \in Calls PROVE CallInvariant(c)
    BY AdmissionAssumption
    DEF Init, CallInvariant, CallStored, CallNoted, CallAnswered, InFlight, Conflicted,
        NothingTaken, Stored, StartLabels
  <1> QED
    BY <1>1, <1>2, <1>3 DEF ByCalls

\* Every step preserves the invariant.
LEMMA NextInvariant == ByCalls /\ [Next]_vars => ByCalls'
  <1> SUFFICES ASSUME ByCalls, [Next]_vars PROVE ByCalls'
    OBVIOUS
  <1>1. ASSUME NEW c \in Calls, StartCall(c) PROVE ByCalls'
    BY <1>1, LookupInvariant, CreateSessionInvariant, CreateStepInvariant, HashPasswordInvariant,
       StartFailsInvariant DEF StartCall
  <1>2. ASSUME NEW r \in Requests, StartRegistration(r) PROVE ByCalls'
    BY <1>2, RequestInvariant
  <1>3. ASSUME NEW k \in Commands, HandleCommand(k) PROVE ByCalls'
    BY <1>3, CommandInvariant, PublishInvariant DEF HandleCommand
  <1>4. ASSUME NEW s \in SessionIds, Progress(s) PROVE ByCalls'
    BY <1>4, ProgressInvariant
  <1>5. CASE Shutdown
    BY <1>5, ShutdownInvariant
  <1>6. CASE UNCHANGED vars
    <2>1. UNCHANGED <<form, rows, at, taken, answer, claimed, reported, process>>
      BY <1>6 DEF vars
    <2>2. TypeOK' /\ RowInvariant'
      BY <2>1 DEF ByCalls, TypeOK, RowInvariant, UniqueIdentity, SessionsHaveAuthors, Stored,
                  rows, process
    <2>3. \A c \in Calls : CallInvariant(c)'
      BY <2>1 DEF ByCalls, CallInvariant, CallStored, CallNoted, CallAnswered, Complete,
                  EmailHeld, UsernameHeld, HoldsEmail,
                  HoldsUsername, Stored, InFlight, rows, process
    <2> QED
      BY <2>2, <2>3 DEF ByCalls
  <1> QED
    BY <1>1, <1>2, <1>3, <1>4, <1>5, <1>6 DEF Next

\* What Start stored, what its callers noted and what they were told fit
\* together in every reachable state: the inductive invariant of admission.
THEOREM AdmissionIsConsistent == Spec => []AdmissionInvariant
  <1>1. Spec => []ByCalls
    BY InitInvariant, NextInvariant, PTL DEF Spec
  <1> QED
    BY <1>1, InvariantByCalls, PTL

\* Two registrations that were both admitted share neither e-mail nor username,
\* although their lookups of Start may have run side by side.
THEOREM IdentitiesAreAdmittedOnce == Spec => []AdmittedOnce
  <1>1. AdmissionInvariant => AdmittedOnce
    <2> SUFFICES ASSUME AdmissionInvariant, NEW c \in Calls, NEW d \in Calls, c # d,
                        answer[c] = "started", answer[d] = "started"
                 PROVE  form[c].email # form[d].email /\ form[c].username # form[d].username
      BY DEF AdmittedOnce
    <2> DEFINE s == SessionOf[c]  t == SessionOf[d]
    <2>1. /\ Stored(s) /\ author[s] = c /\ Stored(t) /\ author[t] = d
          /\ s \in SessionIds /\ t \in SessionIds
      BY AdmissionAssumption DEF AdmissionInvariant, AdmittedIsComplete
    <2> QED
      BY <2>1 DEF AdmissionInvariant, UniqueIdentity
  <1> QED
    BY <1>1, AdmissionIsConsistent, PTL

\* A registration reported as started has its session, all steps and dispatch.
THEOREM AdmissionIsComplete == Spec => []AdmittedIsComplete
  <1>1. AdmissionInvariant => AdmittedIsComplete
    BY DEF AdmissionInvariant
  <1> QED
    BY <1>1, AdmissionIsConsistent, PTL

\* A conflict names something, and what it says of a registration under way is
\* what a stored session holds.
THEOREM ConflictsAreJustified == Spec => []ConflictIsJustified
  <1>1. AdmissionInvariant => ConflictIsJustified
    BY DEF AdmissionInvariant
  <1> QED
    BY <1>1, AdmissionIsConsistent, PTL

\* A refused request leaves no session of its own behind.
THEOREM RefusalsLeaveNothing == Spec => []RefusalLeavesNothing
  <1>1. AdmissionInvariant => RefusalLeavesNothing
    BY DEF AdmissionInvariant
  <1> QED
    BY <1>1, AdmissionIsConsistent, PTL

\* No call goes towards the dispatch of a session that was dispatched before.
THEOREM SessionsAreDispatchedOnce == Spec => []DispatchedOnce
  <1>1. AdmissionInvariant => DispatchedOnce
    BY DEF AdmissionInvariant
  <1> QED
    BY <1>1, AdmissionIsConsistent, PTL

\* The consumers are cancelled only when no call of the server is in flight.
THEOREM ServerIsDrainedFirst == Spec => []DrainedBeforeCancel
  <1>1. AdmissionInvariant => DrainedBeforeCancel
    BY DEF AdmissionInvariant
  <1> QED
    BY <1>1, AdmissionIsConsistent, PTL

=============================================================================
