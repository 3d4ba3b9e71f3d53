---------------------------- MODULE StartAdmission ----------------------------
(***************************************************************************)
(* The admission of registrations: StartRegistration calls of the gRPC     *)
(* server and recovery commands of the Kafka consumer compete for e-mails  *)
(* and usernames through Start, while the sessions already admitted move   *)
(* on, and while the process stops in the order of its fx hooks, crashes   *)
(* and starts again.                                                       *)
(*                                                                         *)
(* A call makes one statement, RPC or publish per action.  Three things    *)
(* around Start are left open.  What happens to an admitted session is     *)
(* RegistrationSaga's subject: here its status changes at any time.  What  *)
(* auth-service and user-service own is theirs: an existence query may be  *)
(* answered either way.  How a command's message is retried, delivered     *)
(* again or buried is ResultConsumer's subject: here a command whose event *)
(* is unclaimed is handled at any time, again and again or never.          *)
(***************************************************************************)
EXTENDS Naturals

CONSTANTS
    Requests,     \* StartRegistration calls
    Commands,     \* recovery commands, each with an event of its own
    SessionIds,
    SessionOf,    \* the session a call creates: a new UUID, or the command's
    Emails, Usernames,
    Submissions,  \* the assignments of forms to calls that are considered
    Faults,       \* the calls that may fail, see below
    MaxRestarts   \* how often the process ends and starts again

Calls == Requests \cup Commands

(***************************************************************************)
(* What a form is to normalizeStartInput, the recovery handler and bcrypt: *)
(* refused by the first, without a session, client or user id (commands    *)
(* only), stored but with a password of more than 72 bytes, or in order.   *)
(***************************************************************************)
Contents == {"malformed", "unidentified", "overlong", "valid"}
Forms == [email : Emails, username : Usernames, content : Contents]

\* "db": a statement; "rpc": an existence query; "publish": the completed
\* event; "broker": a broker call of some worker of the recovery consumer, which
\* cancels the context of all of them; "ambiguous": a statement or publish takes
\* effect and reports an error
FaultKinds == {"db", "rpc", "publish", "broker", "ambiguous"}

ASSUME AdmissionAssumption ==
    /\ Requests \cap Commands = {}
    /\ Calls # {}
    /\ SessionOf \in [Calls -> SessionIds]
    /\ \A r \in Requests, c \in Calls : SessionOf[r] = SessionOf[c] => r = c
    /\ Submissions \subseteq [Calls -> Forms]
    /\ Faults \subseteq FaultKinds
    /\ MaxRestarts \in Nat

VARIABLES
    form,        \* what each call submits
    status,      \* status of each session row, "none" before its insertion
    author,      \* the call that inserted the row
    stepRows,    \* how many of the session's three step rows exist
    dispatched,  \* sessions whose dispatch goroutine was started
    at,          \* what each call does next
    taken,       \* what each call has found taken
    answer,      \* what Start's caller was told
    claimed,     \* commands whose event is in processed_events
    reported,    \* commands with a migration.recovery.completed event
    stage,       \* the process, from serving to its end
    restarts     \* ends of the process so far

rows == <<status, author, stepRows, dispatched>>
process == <<stage, restarts>>
vars == <<form, rows, at, taken, answer, claimed, reported, process>>

\* the calls of Start
StartLabels == {"lookup_email", "lookup_username", "check_email",
                "check_username", "create_session", "create_steps", "hash"}
RequestLabels == {"idle", "done"} \cup StartLabels
CommandLabels == {"idle", "publish", "release", "done"} \cup StartLabels

\* in_progress stands for every status that is not named here
Statuses == {"none", "started", "in_progress", "completed", "failed"}
Answers == {"none", "started", "found_incomplete", "found_completed",
            "InvalidArgument", "Internal", "Permanent",
            "Unavailable"}
Conflicts == [email : BOOLEAN, username : BOOLEAN]

TypeOK ==
    /\ form \in Submissions
    /\ status \in [SessionIds -> Statuses]
    /\ author \in [SessionIds -> Calls]
    /\ stepRows \in [SessionIds -> 0..3]
    /\ dispatched \subseteq SessionIds
    /\ at \in [Calls -> RequestLabels \cup CommandLabels]
    /\ \A r \in Requests : at[r] \in RequestLabels
    /\ taken \in [Calls -> Conflicts]
    /\ answer \in [Calls -> Answers]
    /\ claimed \subseteq Commands /\ reported \subseteq Commands
    /\ stage \in {"up", "draining", "cancelled", "exited"}
    /\ restarts \in 0..MaxRestarts

NothingTaken == [email |-> FALSE, username |-> FALSE]

Init ==
    /\ form \in Submissions
    /\ status = [s \in SessionIds |-> "none"]
    /\ author = [s \in SessionIds |-> CHOOSE c \in Calls : TRUE]
    /\ stepRows = [s \in SessionIds |-> 0]
    /\ dispatched = {}
    /\ at = [c \in Calls |-> "idle"]
    /\ taken = [c \in Calls |-> NothingTaken]
    /\ answer = [c \in Calls |-> "none"]
    /\ claimed = {} /\ reported = {}
    /\ stage = "up" /\ restarts = 0

-----------------------------------------------------------------------------
(* The session rows.                                                       *)

Stored(s) == status[s] # "none"
HoldsEmail(s, c) == Stored(s) /\ form[author[s]].email = form[c].email
HoldsUsername(s, c) == Stored(s) /\ form[author[s]].username = form[c].username
SharesIdentity(s, c) == HoldsEmail(s, c) \/ HoldsUsername(s, c)

\* the statuses that make ToIncompleteConflictResult find an identity taken
Occupied(s) == status[s] \notin {"none", "failed", "completed"}

\* mutation: one index over e-mail and username together
InsertableByPair(c) ==
    /\ ~Stored(SessionOf[c])
    /\ \A s \in SessionIds : ~(HoldsEmail(s, c) /\ HoldsUsername(s, c))

\* the primary key and the two unique indexes let the row in
Insertable(c) ==
    /\ ~Stored(SessionOf[c])
    /\ \A s \in SessionIds : ~SharesIdentity(s, c)

StoreSession(c) ==
    /\ Insertable(c)
    /\ status' = [status EXCEPT ![SessionOf[c]] = "started"]
    /\ author' = [author EXCEPT ![SessionOf[c]] = c]

-----------------------------------------------------------------------------
(* How a call goes on, answers and fails.                                  *)

Goto(c, to) == at' = [at EXCEPT ![c] = to]
InFlight(c) == at[c] \notin {"idle", "done"}
Alive == stage # "exited"
\* the context of a command's handler is cancelled when the recovery consumer is
\* stopped, or when a broker call of one of its workers fails
CanFail(c, kind) ==
    kind \in Faults \/ (c \in Commands /\ (stage = "cancelled" \/ "broker" \in Faults))

\* mutation: a rejected password is reported like any other invalid input
ToStartErrorLenient(err) ==
    CASE err = "permanent" -> "Permanent"
      [] OTHER -> "InvalidArgument"

\* the gRPC code of an error of Start; a command's error is permanent or not
ToStartError(err) ==
    CASE err = "permanent" -> "Permanent"
      [] err = "invalid" -> "InvalidArgument"
      [] OTHER -> "Internal"

\* Start, or the handler around it, returns an error
Fails(c, err) ==
    /\ answer' = [answer EXCEPT ![c] = ToStartError(err)]
    /\ Goto(c, IF c \in Requests THEN "done" ELSE "release")

\* Start returns a result without an error, be it a conflict
Returns(c, result) ==
    /\ answer' = [answer EXCEPT ![c] = result]
    /\ Goto(c, IF c \in Requests THEN "done" ELSE "publish")

\* mutation: the two flags of a conflict are swapped
ConflictSwapped(emailTaken, usernameTaken) ==
    [email |-> usernameTaken, username |-> emailTaken]

Conflict(emailTaken, usernameTaken) ==
    [email |-> emailTaken, username |-> usernameTaken]

Finds(c, emailTaken, usernameTaken) ==
    taken' = [taken EXCEPT ![c] = Conflict(emailTaken, usernameTaken)]

-----------------------------------------------------------------------------
(* The two ways into Start.                                                *)

\* normalizeStartInput: nothing is stored for an invalid form
BeginStart(c) ==
    IF form[c].content = "malformed"
    THEN Fails(c, "invalid")
    ELSE Goto(c, "lookup_email") /\ answer' = [answer EXCEPT ![c] = "none"]

\* StartRegistration: a request is accepted while the server serves
StartRegistration(r) ==
    /\ stage = "up" /\ at[r] = "idle"
    /\ BeginStart(r)
    /\ UNCHANGED <<form, rows, taken, claimed, reported, process>>

\* a worker claims a command's event, and the handler runs up to its first call;
\* a claim that fails without effect leaves the command as it was
ClaimCommand(k) ==
    /\ Alive /\ at[k] = "idle" /\ k \notin claimed
    /\ claimed' = claimed \cup {k}
    /\ IF form[k].content = "unidentified" THEN Fails(k, "permanent") ELSE BeginStart(k)
    /\ UNCHANGED <<form, rows, taken, reported, process>>

\* the claim takes effect and reports an error: no handler runs
ClaimUnseen(k) ==
    /\ Alive /\ at[k] = "idle" /\ "ambiguous" \in Faults
    /\ claimed' = claimed \cup {k}
    /\ UNCHANGED <<form, rows, at, taken, answer, reported, process>>

-----------------------------------------------------------------------------
(* Start.                                                                  *)

\* lookupIncompleteConflict, GetByEmail
LookupEmail(c) ==
    /\ Alive /\ at[c] = "lookup_email"
    /\ Finds(c, \E s \in SessionIds : HoldsEmail(s, c) /\ Occupied(s), FALSE)
    /\ Goto(c, "lookup_username")
    /\ UNCHANGED <<form, rows, answer, claimed, reported, process>>

\* lookupIncompleteConflict, GetByUsername and ToIncompleteConflictResult
LookupUsername(c) ==
    /\ Alive /\ at[c] = "lookup_username"
    /\ LET busy == \E s \in SessionIds : HoldsUsername(s, c) /\ Occupied(s)
       IN  /\ Finds(c, taken[c].email, busy)
           /\ IF taken[c].email \/ busy
              THEN Returns(c, "found_incomplete")
              ELSE Goto(c, "check_email") /\ UNCHANGED answer
    /\ UNCHANGED <<form, rows, claimed, reported, process>>

\* lookupCompletedConflict, ExistsByEmail
CheckEmail(c) ==
    /\ Alive /\ at[c] = "check_email"
    /\ \E owned \in BOOLEAN : Finds(c, owned, FALSE)
    /\ Goto(c, "check_username")
    /\ UNCHANGED <<form, rows, answer, claimed, reported, process>>

\* lookupCompletedConflict, ExistsByUsername and ToCompletedConflictResult
CheckUsername(c) ==
    /\ Alive /\ at[c] = "check_username"
    /\ \E owned \in BOOLEAN :
           /\ Finds(c, taken[c].email, owned)
           /\ IF taken[c].email \/ owned
              THEN Returns(c, "found_completed")
              ELSE Goto(c, "create_session") /\ UNCHANGED answer
    /\ UNCHANGED <<form, rows, claimed, reported, process>>

\* mutation: a call that finds its own session stored goes on with it
CreateSessionResumed(c) ==
    /\ Alive /\ at[c] = "create_session"
    /\ \/ StoreSession(c) /\ Goto(c, "create_steps") /\ UNCHANGED answer
       \/ /\ Stored(SessionOf[c]) /\ author[SessionOf[c]] = c
          /\ Goto(c, "hash") /\ UNCHANGED <<status, author, answer>>
    /\ UNCHANGED <<form, stepRows, dispatched, taken, claimed, reported, process>>

\* createStartSession: the insertion, which a concurrent call may have beaten
CreateSession(c) ==
    /\ Alive /\ at[c] = "create_session"
    /\ \/ /\ StoreSession(c)
          /\ \/ Goto(c, "create_steps") /\ UNCHANGED answer
             \/ "ambiguous" \in Faults /\ Fails(c, "fault")
       \/ /\ ~Insertable(c) /\ Fails(c, "duplicate")
          /\ UNCHANGED <<status, author>>
    /\ UNCHANGED <<form, stepRows, dispatched, taken, claimed, reported, process>>

\* mutation: the loop over the steps ends one too early
CreateStepShort(c) ==
    LET s == SessionOf[c] IN
    /\ Alive /\ at[c] = "create_steps"
    /\ stepRows' = [stepRows EXCEPT ![s] = @ + 1]
    /\ Goto(c, IF stepRows[s] >= 1 THEN "hash" ELSE "create_steps")
    /\ UNCHANGED <<form, status, author, dispatched, taken, answer, claimed, reported, process>>

\* createStartSteps: one insertion per step
CreateStep(c) ==
    LET s == SessionOf[c] IN
    /\ Alive /\ at[c] = "create_steps"
    /\ stepRows' = [stepRows EXCEPT ![s] = @ + 1]
    /\ \/ Goto(c, IF stepRows[s] = 2 THEN "hash" ELSE "create_steps") /\ UNCHANGED answer
       \/ "ambiguous" \in Faults /\ Fails(c, "fault")
    /\ UNCHANGED <<form, status, author, dispatched, taken, claimed, reported, process>>

\* hashStartPassword, the start of the dispatch goroutine and the answer
HashPassword(c) ==
    /\ Alive /\ at[c] = "hash"
    /\ \/ /\ form[c].content = "overlong" /\ Fails(c, "hash")
          /\ UNCHANGED dispatched
       \/ /\ form[c].content # "overlong" /\ Returns(c, "started")
          /\ dispatched' = dispatched \cup {SessionOf[c]}
    /\ UNCHANGED <<form, status, author, stepRows, taken, claimed, reported, process>>

\* the kind of fault a call of Start is exposed to
KindOf(label) == IF label \in {"check_email", "check_username"} THEN "rpc" ELSE "db"

\* a call of Start fails without effect
StartFails(c) ==
    /\ Alive /\ at[c] \in StartLabels \ {"hash"} /\ CanFail(c, KindOf(at[c]))
    /\ Fails(c, "fault")
    /\ UNCHANGED <<form, rows, taken, claimed, reported, process>>

-----------------------------------------------------------------------------
(* The end of a recovery command.                                          *)

\* the completed event, published even when the consumer is being stopped
PublishCompleted(k) ==
    /\ Alive /\ at[k] = "publish"
    /\ reported' = reported \cup {k}
    /\ \/ Goto(k, "done") /\ UNCHANGED answer
       \/ "ambiguous" \in Faults /\ Fails(k, "fault")
    /\ UNCHANGED <<form, rows, taken, claimed, process>>

PublishFails(k) ==
    /\ Alive /\ at[k] = "publish" /\ "publish" \in Faults
    /\ Fails(k, "fault")
    /\ UNCHANGED <<form, rows, taken, claimed, reported, process>>

\* the claim of a failed command is given up; an error of this is dropped
Release(k) ==
    /\ Alive /\ at[k] = "release"
    /\ \/ claimed' = claimed \ {k}
       \/ CanFail(k, "db") /\ UNCHANGED claimed
    /\ Goto(k, "idle")
    /\ UNCHANGED <<form, rows, taken, answer, reported, process>>

-----------------------------------------------------------------------------
(* Admitted sessions, which RegistrationSaga follows.                      *)

\* the status of a session whose commands were dispatched takes any later value
Progress(s) ==
    /\ Alive /\ s \in dispatched
    /\ \E to \in Statuses \ {"none", "started"} : status' = [status EXCEPT ![s] = to]
    /\ UNCHANGED <<form, author, stepRows, dispatched, at, taken, answer, claimed, reported, process>>

-----------------------------------------------------------------------------
(* The process.  fx runs the stop hooks in reverse: the server is stopped  *)
(* gracefully, then the consumers' contexts are cancelled, then clients,   *)
(* broker and pool are closed and the process ends.                        *)

StopServer ==
    /\ stage = "up" /\ restarts < MaxRestarts
    /\ stage' = "draining"
    /\ UNCHANGED <<form, rows, at, taken, answer, claimed, reported, restarts>>

\* mutation: the server is stopped without waiting for its calls
CancelConsumersEarly ==
    /\ stage = "draining"
    /\ stage' = "cancelled"
    /\ UNCHANGED <<form, rows, at, taken, answer, claimed, reported, restarts>>

\* mutation: the server also waits for calls that never came
CancelConsumersLate ==
    /\ stage = "draining" /\ \A r \in Requests : at[r] = "done"
    /\ stage' = "cancelled"
    /\ UNCHANGED <<form, rows, at, taken, answer, claimed, reported, restarts>>

\* GracefulStop returns when no call is in flight; the consumers' hooks follow
CancelConsumers ==
    /\ stage = "draining" /\ \A r \in Requests : ~InFlight(r)
    /\ stage' = "cancelled"
    /\ UNCHANGED <<form, rows, at, taken, answer, claimed, reported, restarts>>

\* the last hooks and the end, or a crash: a command's message is not
\* committed and is delivered again, its claim stays as it is
Exit ==
    /\ \/ stage = "cancelled"
       \/ Alive /\ restarts < MaxRestarts
    /\ stage' = "exited"
    /\ restarts' = IF restarts < MaxRestarts THEN restarts + 1 ELSE restarts
    /\ at' = [c \in Calls |->
                 IF ~InFlight(c) THEN at[c] ELSE IF c \in Requests THEN "done" ELSE "idle"]
    /\ answer' = [c \in Calls |->
                     IF c \in Requests /\ InFlight(c) THEN "Unavailable" ELSE answer[c]]
    /\ UNCHANGED <<form, rows, taken, claimed, reported>>

Restart ==
    /\ stage = "exited"
    /\ stage' = "up"
    /\ UNCHANGED <<form, rows, at, taken, answer, claimed, reported, restarts>>

-----------------------------------------------------------------------------
StartCall(c) ==
    \/ LookupEmail(c) \/ LookupUsername(c) \/ CheckEmail(c) \/ CheckUsername(c)
    \/ CreateSession(c) \/ CreateStep(c) \/ HashPassword(c)
    \/ StartFails(c)

HandleCommand(k) ==
    \/ ClaimCommand(k) \/ ClaimUnseen(k)
    \/ PublishCompleted(k) \/ PublishFails(k) \/ Release(k)

Shutdown == StopServer \/ CancelConsumers \/ Exit \/ Restart

Next ==
    \/ \E c \in Calls : StartCall(c)
    \/ \E r \in Requests : StartRegistration(r)
    \/ \E k \in Commands : HandleCommand(k)
    \/ \E s \in SessionIds : Progress(s)
    \/ Shutdown

Spec == Init /\ [][Next]_vars

\* the calls of Start return, and a stop that has begun goes through its hooks;
\* nobody must call, deliver a command or stop
Fairness ==
    /\ \A c \in Calls : WF_vars(StartCall(c))
    /\ WF_vars(CancelConsumers) /\ WF_vars(stage = "cancelled" /\ Exit)

FairSpec == Spec /\ Fairness

-----------------------------------------------------------------------------
(* Properties.                                                             *)

\* Two calls that were both admitted share neither e-mail nor username,
\* however their lookups interleaved and whatever stopped in between.
AdmittedOnce ==
    \A c, d \in Calls :
        c # d /\ answer[c] = "started" /\ answer[d] = "started" =>
            /\ form[c].email # form[d].email
            /\ form[c].username # form[d].username

\* Whoever is told of a registration under way is told the right part of it: a
\* stored session holds that e-mail or username.  What the services own is
\* theirs to say, but a conflict always names something.
ConflictIsJustified ==
    \A c \in Calls : answer[c] \in {"found_incomplete", "found_completed"} =>
        /\ taken[c].email \/ taken[c].username
        /\ answer[c] = "found_incomplete" =>
              /\ taken[c].email => \E s \in SessionIds : HoldsEmail(s, c)
              /\ taken[c].username => \E s \in SessionIds : HoldsUsername(s, c)

\* A registration is reported as started only when its session, all its steps
\* and its dispatch goroutine exist.
AdmittedIsComplete ==
    \A c \in Calls : answer[c] = "started" =>
        LET s == SessionOf[c]
        IN  Stored(s) /\ author[s] = c /\ stepRows[s] = 3 /\ s \in dispatched

\* A client refused for its input, or by a conflict, left nothing behind that
\* could refuse its next attempt.
RefusalLeavesNothing ==
    \A r \in Requests :
        answer[r] \in {"InvalidArgument", "found_incomplete", "found_completed"} =>
            ~Stored(SessionOf[r])

\* A call that is on its way to the dispatch works on a session nobody has
\* dispatched: the commands of a session are published once, although the
\* handler of a recovery command that failed late runs Start again.
DispatchedOnce ==
    \A c \in Calls : at[c] \in {"create_steps", "hash"} => SessionOf[c] \notin dispatched

\* When the consumers' contexts are cancelled, and the resources closed after
\* them, no call of the server is in flight any more.
DrainedBeforeCancel ==
    stage = "cancelled" => \A r \in Requests : ~InFlight(r)

\* The inductive invariant.  Two stored sessions share no identity, and only
\* the call that inserted a session works on it.
UniqueIdentity ==
    \A s, t \in SessionIds : s # t /\ Stored(s) /\ Stored(t) =>
        /\ form[author[s]].email # form[author[t]].email
        /\ form[author[s]].username # form[author[t]].username

SessionsHaveAuthors ==
    \A s \in SessionIds :
        /\ Stored(s) => SessionOf[author[s]] = s
        /\ ~Stored(s) => stepRows[s] = 0 /\ s \notin dispatched

\* what Start has stored by the time it reaches a statement
StartFollowsRows ==
    \A c \in Calls :
        LET s == SessionOf[c] IN
        /\ at[c] = "create_steps" => Stored(s) /\ author[s] = c /\ stepRows[s] < 3
        /\ at[c] = "hash" => Stored(s) /\ author[s] = c /\ stepRows[s] = 3

\* a call has no answer while it is in Start, and what it noted of its e-mail
\* before the second lookup a stored session holds
AnswersFollowStart ==
    \A c \in Calls :
        /\ at[c] \in StartLabels => answer[c] = "none"
        /\ at[c] = "lookup_username" /\ taken[c].email => \E s \in SessionIds : HoldsEmail(s, c)

\* a request is answered when it is done, and stores nothing before its insertion
RequestsInOrder ==
    \A r \in Requests :
        /\ answer[r] # "none" => at[r] = "done"
        /\ at[r] \in StartLabels \ {"create_steps", "hash"} \/ at[r] = "idle" =>
              ~Stored(SessionOf[r])

AdmissionInvariant ==
    /\ TypeOK
    /\ UniqueIdentity /\ SessionsHaveAuthors /\ StartFollowsRows
    /\ AnswersFollowStart /\ RequestsInOrder
    /\ AdmittedIsComplete /\ ConflictIsJustified /\ RefusalLeavesNothing
    /\ DispatchedOnce /\ DrainedBeforeCancel

\* A stop comes to its end: no hook waits for what cannot happen.
StopCompletes == stage = "draining" ~> stage = "exited"

\* A recovery command reported as completed has been applied: the services own
\* its identity, a session of its identity was handed to them, or the call that
\* stored that session still runs.
RecoveryIsApplied ==
    \A k \in reported :
        \/ answer[k] = "found_completed"
        \/ \E s \in SessionIds :
              SharesIdentity(s, k) /\ (s \in dispatched \/ InFlight(author[s]))
=============================================================================
