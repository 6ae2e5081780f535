-------------------------- MODULE DurableControlProofs --------------------------
(***************************************************************************)
(* Theorems about DurableControl, for every set of idempotency keys and    *)
(* every value of the bounds.  The argument: each key has one row and that *)
(* row holds the answer its requests were given (AnswersRecorded); no row  *)
(* is newer than the workload, and one that changed it is older            *)
(* (VersionsPast); a version stands for one state (SeenIsTrue); and what   *)
(* was dismissed cannot move (DismissedSettled).                           *)
(***************************************************************************)
EXTENDS DurableControl, FiniteSetTheorems, TLAPS

JobRow ==
    [state : State, version : Nat, revision : BOOLEAN, active : BOOLEAN,
     blocked : BOOLEAN, generation : Nat, clean : BOOLEAN]

CommandRow ==
    [key : Keys, command : Commands \ {"dismiss"}, version : Nat,
     changed : BOOLEAN, result : [code : {"ok"}, state : State, version : Nat]]

AnswerRecord ==
    [request : Request,
     answer : [code : {"ok", "version_conflict", "illegal_state",
                       "idempotency_conflict"},
               state : State \cup {""}, version : Nat]]

\* The table of commands is finite, and so is the number of its grants.
Records == answers \subseteq AnswerRecord /\ IsFiniteSet(commands)

KeysUnique == \A a, b \in commands : a.key = b.key => a = b

\* No command was issued on a version that is still to come, and a command
\* that changed the workload belongs to a version that has passed.
VersionsPast ==
    /\ \A r \in sent : r.version <= job.version
    /\ \A a \in commands : /\ a.version <= job.version
                           /\ a.changed => a.version < job.version

\* A request for the current version was issued on the current state.
SeenIsTrue == \A r \in sent : r.version = job.version => r.seen = job.state

\* Every accepted command has its row, with the answer that was given.
AnswersRecorded ==
    \A a \in answers :
        a.answer.code = "ok" /\ a.request.command # "dismiss" =>
            \E row \in commands : /\ row.key = a.request.key
                                  /\ SamePayload(row, a.request)
                                  /\ row.result = a.answer

\* A dismissed workload is at rest, and its dismissals told its last state.
DismissedSettled ==
    /\ dismissed => MayDismiss
    /\ \A a \in answers :
          a.answer.code = "ok" /\ a.request.command = "dismiss" =>
              /\ dismissed
              /\ a.request.version = job.version
              /\ a.answer = Answer(job)

IInv ==
    /\ TypeOK /\ Records /\ KeysUnique /\ VersionsPast /\ SeenIsTrue
    /\ AnswersRecorded /\ DismissedSettled
    /\ OneWinnerPerVersion /\ OneGrantPerDecision

-----------------------------------------------------------------------------
(* Rows of the workload.                                                   *)

\* A row that may follow the current one: a new state has a new version, and
\* a dismissed workload stays as it is.
Later(row) ==
    /\ row \in JobRow
    /\ row.version >= job.version
    /\ row.version = job.version => row.state = job.state
    /\ dismissed => row = job

LEMMA TypeOfJob == TypeOK => job \in JobRow /\ commands \subseteq CommandRow
BY DEF TypeOK, JobRow, CommandRow

\* A row with other values of the right kind is a row.
LEMMA RowTypes ==
  ASSUME NEW row \in JobRow, NEW state \in State, NEW n \in Nat, NEW b \in BOOLEAN
  PROVE  /\ [row EXCEPT !.state = state, !.version = n] \in JobRow
         /\ [row EXCEPT !.generation = n] \in JobRow
         /\ [row EXCEPT !.active = b] \in JobRow
         /\ [row EXCEPT !.blocked = b] \in JobRow
         /\ [row EXCEPT !.clean = b] \in JobRow
         /\ [row EXCEPT !.revision = TRUE, !.clean = FALSE] \in JobRow
<1>1. [row EXCEPT !.state = state, !.version = n] \in JobRow
  BY DEF JobRow
<1>2. [row EXCEPT !.generation = n] \in JobRow
  BY DEF JobRow
<1>3. [row EXCEPT !.active = b] \in JobRow
  BY DEF JobRow
<1>4. [row EXCEPT !.blocked = b] \in JobRow
  BY DEF JobRow
<1>5. [row EXCEPT !.clean = b] \in JobRow
  BY DEF JobRow
<1>6. [row EXCEPT !.revision = TRUE, !.clean = FALSE] \in JobRow
  BY DEF JobRow
<1> QED
  BY <1>1, <1>2, <1>3, <1>4, <1>5, <1>6

\* _update_state_in_transaction: a new version for a new state, no other
\* column.
LEMMA EnteredRow ==
  ASSUME NEW row \in JobRow, NEW state \in State
  PROVE  /\ Entered(row, state) \in JobRow
         /\ Entered(row, state).state = state
         /\ Entered(row, state).version >= row.version
         /\ Entered(row, state).version = row.version => state = row.state
         /\ state = row.state => Entered(row, state) = row
         /\ Entered(row, state).generation = row.generation
         /\ Entered(row, state).revision = row.revision
         /\ Entered(row, state).active = row.active
         /\ Entered(row, state).clean = row.clean
<1>1. CASE state = row.state
  <2>1. Entered(row, state) = row
    BY <1>1 DEF Entered
  <2>2. row.version \in Nat
    BY DEF JobRow
  <2> QED
    BY <1>1, <2>1, <2>2
<1>2. CASE state # row.state
  <2>1. Entered(row, state) = [row EXCEPT !.state = state, !.version = row.version + 1]
    BY <1>2 DEF Entered
  <2>2. row.version \in Nat
    BY DEF JobRow
  <2>3. Entered(row, state) \in JobRow
    <3> DEFINE n == row.version + 1
    <3>1. n \in Nat
      BY <2>2
    <3> HIDE DEF n
    <3>2. [row EXCEPT !.state = state, !.version = n] \in JobRow
      BY <3>1, RowTypes
    <3> QED
      BY <2>1, <3>2 DEF n
  <2>4. /\ Entered(row, state).state = state
        /\ Entered(row, state).version = row.version + 1
    BY <2>1, <2>2 DEF JobRow
  <2>5. /\ Entered(row, state).generation = row.generation
        /\ Entered(row, state).revision = row.revision
        /\ Entered(row, state).active = row.active
        /\ Entered(row, state).clean = row.clean
    BY <2>1 DEF JobRow
  <2> QED
    BY <1>2, <2>2, <2>3, <2>4, <2>5
<1> QED
  BY <1>1, <1>2

LEMMA SettledStates ==
  ASSUME NEW row \in JobRow
  PROVE  /\ Settled(row) \subseteq State
         /\ row.state \in Terminal => Settled(row) = {row.state}
BY DEF Settled, JobRow, State, Terminal

\* CONTROL_STATE_MATRIX leads to states, and leaves a workload that ended
\* where it is.
LEMMA Targets ==
  ASSUME NEW c \in DOMAIN ControlTransition, NEW s \in DOMAIN ControlTransition[c]
  PROVE  /\ c \in {"pause", "resume", "cancel"}
         /\ ControlTransition[c][s] \in State
         /\ s \in Terminal => ControlTransition[c][s] = s
<1>1. c \in {"pause", "resume", "cancel"}
  BY DEF ControlTransition
<1>2. CASE c = "pause"
  BY <1>2 DEF ControlTransition, State, Terminal
<1>3. CASE c = "resume"
  BY <1>3 DEF ControlTransition, State, Terminal
<1>4. CASE c = "cancel"
  BY <1>4 DEF ControlTransition, State, Terminal
<1> QED
  BY <1>1, <1>2, <1>3, <1>4

\* A change of state leads from a later row to a later one.
LEMMA LaterEntered ==
  ASSUME job \in JobRow, NEW row, Later(row), NEW state \in State,
         dismissed => state = row.state
  PROVE  Later(Entered(row, state)) /\ Entered(row, state).generation = row.generation
<1>1. row \in JobRow /\ row.version \in Nat /\ job.version \in Nat
  BY DEF Later, JobRow
<1>2. Entered(row, state) \in JobRow /\ Entered(row, state).version \in Nat
  BY <1>1, EnteredRow DEF JobRow
<1>3. /\ Entered(row, state).version >= job.version
      /\ Entered(row, state).version = job.version => Entered(row, state).state = job.state
  BY <1>1, <1>2, EnteredRow DEF Later
<1>4. dismissed => Entered(row, state) = job
  BY <1>1, EnteredRow DEF Later
<1> QED
  BY <1>1, <1>2, <1>3, <1>4, EnteredRow DEF Later

\* So does a settlement.
LEMMA LaterSettled ==
  ASSUME job \in JobRow, DismissedSettled, NEW row, Later(row), NEW s \in Settled(row)
  PROVE  Later(Entered(row, s)) /\ Entered(row, s).generation = row.generation
<1>1. row \in JobRow
  BY DEF Later
<1>2. s \in State
  BY <1>1, SettledStates
<1>3. dismissed => s = row.state
  BY <1>1, SettledStates DEF Later, DismissedSettled, MayDismiss
<1> QED
  BY <1>2, <1>3, LaterEntered

LEMMA LaterSelf == ASSUME job \in JobRow PROVE Later(job)
BY DEF Later, JobRow

\* A grant changes the generation only.
LEMMA LaterGranted ==
  ASSUME job \in JobRow, NEW row, Later(row), ~dismissed,
         row.generation = job.generation, NEW c
  PROVE  /\ Later(Granted(row, c))
         /\ Granted(row, c).generation =
               IF c = "retry" THEN job.generation + 1 ELSE job.generation
<1>1. row \in JobRow
  BY DEF Later
<1>2. CASE c # "retry"
  BY <1>2 DEF Granted
<1>3. CASE c = "retry"
  <2> DEFINE n == row.generation + 1
  <2>1. n \in Nat /\ n = job.generation + 1
    BY <1>1 DEF JobRow
  <2>2. Granted(row, c) = [row EXCEPT !.generation = n]
    BY <1>3 DEF Granted
  <2> HIDE DEF n
  <2>3. [row EXCEPT !.generation = n] \in JobRow
    BY <1>1, <2>1 DEF JobRow
  <2>4. /\ [row EXCEPT !.generation = n].version = row.version
        /\ [row EXCEPT !.generation = n].state = row.state
        /\ [row EXCEPT !.generation = n].generation = n
    BY <1>1 DEF JobRow
  <2> QED
    BY <1>3, <2>1, <2>2, <2>3, <2>4 DEF Later
<1> QED
  BY <1>2, <1>3

-----------------------------------------------------------------------------
(* What a delivery may do.                                                 *)

Refused(r) ==
    /\ Accepted(r) = {}
    /\ \E code \in {"version_conflict", "illegal_state", "idempotency_conflict"} :
          Refuse(r, code)

Replayed(r) ==
    /\ r.command # "dismiss"
    /\ \E row \in commands : /\ row.key = r.key
                             /\ SamePayload(row, r)
                             /\ Reply(r, row.result)
    /\ UNCHANGED <<job, commands, dismissed>>

Applied(r) ==
    /\ r.command # "dismiss"
    /\ ~Used(r.key)
    /\ Current(r)
    /\ \E row : /\ Later(row)
                /\ row.generation = IF r.command = "retry"
                                    THEN job.generation + 1 ELSE job.generation
                /\ Apply(r, row)

Dismissed(r) ==
    /\ r.command = "dismiss"
    /\ Current(r)
    /\ MayDismiss
    /\ dismissed' = TRUE
    /\ Reply(r, Answer(job))
    /\ UNCHANGED <<job, commands>>

\* A request without a row was never accepted.
LEMMA UnusedUnaccepted ==
  ASSUME IInv, NEW r, r.command # "dismiss", ~Used(r.key)
  PROVE  Accepted(r) = {}
BY DEF IInv, AnswersRecorded, Accepted, Used

LEMMA ReplayCases ==
  ASSUME IInv, NEW r \in sent, Replay(r)
  PROVE  Refused(r) \/ Replayed(r)
<1> DEFINE row == RowOf(r.key)
<1>1. row \in commands /\ row.key = r.key
  BY DEF Replay, Fresh, Used, RowOf
<1>2. CASE SamePayload(row, r)
  BY <1>1, <1>2 DEF Replay, Replayed
<1>3. CASE ~SamePayload(row, r)
  <2>1. Refuse(r, "idempotency_conflict")
    BY <1>3 DEF Replay
  <2>2. Accepted(r) = {}
    <3> SUFFICES ASSUME NEW a \in Accepted(r) PROVE FALSE
      OBVIOUS
    <3>1. a \in answers /\ a.request = r /\ a.answer.code = "ok"
      BY DEF Accepted
    <3>2. PICK other \in commands : other.key = r.key /\ SamePayload(other, r)
      BY <3>1 DEF IInv, AnswersRecorded, Replay
    <3> QED
      BY <1>1, <1>3, <3>2 DEF IInv, KeysUnique
  <2> QED
    BY <2>1, <2>2 DEF Refused
<1> QED
  BY <1>2, <1>3

LEMMA ControlCases ==
  ASSUME IInv, NEW r \in sent, Control(r)
  PROVE  Refused(r) \/ Applied(r)
<1> DEFINE targets == ControlTransition[r.command]
           next == Entered(job, targets[job.state])
<1>1. r.command \in DOMAIN ControlTransition /\ ~Used(r.key)
  BY DEF Control, Fresh
<1>2. r.command \in {"pause", "resume", "cancel"}
  BY <1>1 DEF ControlTransition
<1>3. Accepted(r) = {}
  BY <1>1, <1>2, UnusedUnaccepted
<1>4. CASE ~Current(r) \/ job.state \notin DOMAIN targets
  BY <1>3, <1>4 DEF Control, Refused
<1>5. CASE Current(r) /\ job.state \in DOMAIN targets
  <2>1. job \in JobRow /\ DismissedSettled
    BY TypeOfJob DEF IInv
  <2>2. Later(job)
    BY <2>1, LaterSelf
  <2>3. /\ targets[job.state] \in State
        /\ dismissed => targets[job.state] = job.state
    BY <1>1, <1>5, <2>1, Targets DEF DismissedSettled, MayDismiss
  <2>4. Later(next) /\ next.generation = job.generation
    BY <2>1, <2>2, <2>3, LaterEntered
  <2> HIDE DEF next
  <2>5. \A s \in Settled(next) : /\ Later(Entered(next, s))
                                 /\ Entered(next, s).generation = job.generation
    BY <2>1, <2>4, LaterSettled
  <2>6. (\E s \in Settled(next) : Apply(r, Entered(next, s))) \/ Apply(r, next)
    BY <1>5 DEF Control, next
  <2> QED
    BY <1>1, <1>2, <1>5, <2>4, <2>5, <2>6 DEF Applied
<1> QED
  BY <1>4, <1>5

LEMMA ResolveCases ==
  ASSUME IInv, NEW r \in sent, Resolve(r)
  PROVE  Refused(r) \/ Applied(r)
<1> DEFINE target == IF r.command = "drop" THEN "cancel_requested"
                     ELSE IF job.active THEN "running" ELSE "queued"
           moved == Entered(job, target)
           next == Granted(moved, r.command)
<1>1. r.command \in {"retry", "drop"} /\ ~Used(r.key)
  BY DEF Resolve, Fresh
<1>2. Accepted(r) = {}
  BY <1>1, UnusedUnaccepted
<1>3. CASE \/ ~Current(r) \/ job.state # "needs_attention" \/ ~job.revision
           \/ (r.command = "retry" /\ RetryBlocked)
  BY <1>2, <1>3 DEF Resolve, Refused
<1>4. CASE ~(\/ ~Current(r) \/ job.state # "needs_attention" \/ ~job.revision
             \/ (r.command = "retry" /\ RetryBlocked))
  <2>1. job \in JobRow /\ DismissedSettled
    BY TypeOfJob DEF IInv
  <2>2. ~dismissed
    BY <1>4, <2>1 DEF DismissedSettled, MayDismiss, Terminal
  <2>3. target \in State
    BY DEF State
  <2>4. Later(moved) /\ moved.generation = job.generation
    BY <2>1, <2>2, <2>3, LaterSelf, LaterEntered
  <2>5. IF r.command = "drop" THEN \E s \in Settled(next) : Apply(r, Entered(next, s))
        ELSE Apply(r, next)
    BY <1>4 DEF Resolve
  <2> HIDE DEF moved
  <2>6. Later(next) /\ next.generation = IF r.command = "retry" THEN job.generation + 1
                                         ELSE job.generation
    BY <2>1, <2>2, <2>4, LaterGranted
  <2> HIDE DEF next
  <2>7. \A s \in Settled(next) : /\ Later(Entered(next, s))
                                 /\ Entered(next, s).generation = next.generation
    BY <2>1, <2>6, LaterSettled
  <2> QED
    BY <1>1, <1>4, <2>5, <2>6, <2>7 DEF Applied
<1> QED
  BY <1>3, <1>4

LEMMA DismissCases ==
  ASSUME IInv, NEW r \in sent, Dismiss(r)
  PROVE  Refused(r) \/ Dismissed(r)
<1>1. r.command = "dismiss"
  BY DEF Dismiss
<1>2. CASE Current(r) /\ MayDismiss
  BY <1>1, <1>2 DEF Dismiss, Dismissed
<1>3. CASE ~(Current(r) /\ MayDismiss)
  <2>1. Accepted(r) = {}
    BY <1>1, <1>3 DEF IInv, DismissedSettled, Accepted, Current
  <2> QED
    BY <1>3, <2>1 DEF Dismiss, Refused
<1> QED
  BY <1>2, <1>3

\* Every delivery is one of four things.
LEMMA DeliveryCases ==
  ASSUME IInv, Deliver
  PROVE  \E r \in sent : Refused(r) \/ Replayed(r) \/ Applied(r) \/ Dismissed(r)
BY ReplayCases, ControlCases, ResolveCases, DismissCases DEF Deliver

-----------------------------------------------------------------------------
(* What the engine may do.                                                 *)

\* Columns that the owner's commands do not write.
LEMMA LaterColumns ==
  ASSUME job \in JobRow, ~dismissed, NEW row, Later(row),
         row.generation = job.generation, NEW b \in BOOLEAN
  PROVE  /\ Later([row EXCEPT !.active = b])
         /\ [row EXCEPT !.active = b].generation = job.generation
         /\ Later([row EXCEPT !.blocked = b])
         /\ [row EXCEPT !.blocked = b].generation = job.generation
         /\ Later([row EXCEPT !.clean = b])
         /\ [row EXCEPT !.clean = b].generation = job.generation
         /\ Later([row EXCEPT !.revision = TRUE, !.clean = FALSE])
         /\ [row EXCEPT !.revision = TRUE, !.clean = FALSE].generation = job.generation
<1>1. row \in JobRow
  BY DEF Later
<1>2. /\ [row EXCEPT !.active = b] \in JobRow
      /\ [row EXCEPT !.blocked = b] \in JobRow
      /\ [row EXCEPT !.clean = b] \in JobRow
      /\ [row EXCEPT !.revision = TRUE, !.clean = FALSE] \in JobRow
  <2>1. "draft" \in State /\ 0 \in Nat
    BY DEF State
  <2> QED
    BY <1>1, <2>1, RowTypes
<1>3. ASSUME NEW new \in JobRow, new.version = row.version, new.state = row.state
      PROVE  Later(new)
  BY <1>3 DEF Later
<1>4. /\ [row EXCEPT !.active = b].version = row.version
      /\ [row EXCEPT !.active = b].state = row.state
      /\ [row EXCEPT !.active = b].generation = row.generation
  BY <1>1 DEF JobRow
<1>5. /\ [row EXCEPT !.blocked = b].version = row.version
      /\ [row EXCEPT !.blocked = b].state = row.state
      /\ [row EXCEPT !.blocked = b].generation = row.generation
  BY <1>1 DEF JobRow
<1>6. /\ [row EXCEPT !.clean = b].version = row.version
      /\ [row EXCEPT !.clean = b].state = row.state
      /\ [row EXCEPT !.clean = b].generation = row.generation
  BY <1>1 DEF JobRow
<1>7. /\ [row EXCEPT !.revision = TRUE, !.clean = FALSE].version = row.version
      /\ [row EXCEPT !.revision = TRUE, !.clean = FALSE].state = row.state
      /\ [row EXCEPT !.revision = TRUE, !.clean = FALSE].generation = row.generation
  BY <1>1 DEF JobRow
<1> QED
  BY <1>2, <1>3, <1>4, <1>5, <1>6, <1>7

EngineAction == Submit \/ Claim \/ EndAttempt \/ Settle \/ Complete \/ ReportClean

\* The engine touches the row only, gives every new state a new version and
\* grants nothing; a dismissed workload is none of its business.
LEMMA EngineCases ==
  ASSUME IInv, EngineAction
  PROVE  /\ Later(job') /\ job'.generation = job.generation /\ ~dismissed
         /\ UNCHANGED <<sent, commands, dismissed, answers>>
<1>0. job \in JobRow /\ DismissedSettled
  BY TypeOfJob DEF IInv
<1>1. UNCHANGED <<sent, commands, dismissed, answers>>
  BY DEF EngineAction, Submit, Claim, EndAttempt, Settle, Complete, ReportClean, Engine
<1>2. ~dismissed
  <2>1. job.state \in Terminal => Settled(job) \ {job.state} = {}
    BY <1>0, SettledStates
  <2> QED
    BY <1>0, <2>1 DEF EngineAction, Submit, Claim, EndAttempt, Settle, Complete,
                      ReportClean, DismissedSettled, MayDismiss, Terminal
<1>3. Later(job) /\ job.generation = job.generation
  BY <1>0, LaterSelf
<1>4. \A s \in State : Later(Entered(job, s)) /\ Entered(job, s).generation = job.generation
  BY <1>0, <1>2, <1>3, LaterEntered
<1>5. /\ "admitted" \in State /\ "queued" \in State /\ "running" \in State
      /\ {"completed", "completed_with_errors"} \subseteq State
  BY DEF State, Terminal
<1>6. CASE Submit
  <2>1. /\ Later([Entered(job, "admitted") EXCEPT !.revision = TRUE, !.clean = FALSE])
        /\ [Entered(job, "admitted") EXCEPT !.revision = TRUE, !.clean = FALSE].generation
             = job.generation
    <3> DEFINE row == Entered(job, "admitted")
    <3>1. Later(row) /\ row.generation = job.generation
      BY <1>4, <1>5
    <3> HIDE DEF row
    <3>2. /\ Later([row EXCEPT !.revision = TRUE, !.clean = FALSE])
          /\ [row EXCEPT !.revision = TRUE, !.clean = FALSE].generation = job.generation
      BY <1>0, <1>2, <3>1, LaterColumns
    <3> QED
      BY <3>2 DEF row
  <2>2. Later(Entered(job, "queued")) /\ Entered(job, "queued").generation = job.generation
    BY <1>4, <1>5
  <2> QED
    BY <1>1, <1>2, <1>6, <2>1, <2>2 DEF Submit, Engine
<1>7. CASE Claim
  <2> DEFINE row == Entered(job, "running")
  <2>1. Later(row) /\ row.generation = job.generation
    BY <1>4, <1>5
  <2>2. job' = [row EXCEPT !.active = TRUE]
    BY <1>7 DEF Claim, Engine
  <2> HIDE DEF row
  <2> QED
    BY <1>0, <1>1, <1>2, <2>1, <2>2, LaterColumns
<1>8. CASE EndAttempt
  <2> DEFINE row == [job EXCEPT !.active = FALSE]
  <2>1. Later(row) /\ row.generation = job.generation
    BY <1>0, <1>2, <1>3, LaterColumns
  <2>2. PICK s \in Settled(row), blocked \in BOOLEAN :
          job' = [Entered(row, s) EXCEPT !.blocked = blocked]
    BY <1>8 DEF EndAttempt, Engine
  <2> HIDE DEF row
  <2> DEFINE next == Entered(row, s)
  <2>3. Later(next) /\ next.generation = job.generation
    BY <1>0, <2>1, LaterSettled
  <2>4. job' = [next EXCEPT !.blocked = blocked]
    BY <2>2
  <2> HIDE DEF next
  <2> QED
    BY <1>0, <1>1, <1>2, <2>3, <2>4, LaterColumns
<1>9. CASE Settle
  <2>1. PICK s \in Settled(job), blocked \in BOOLEAN :
          job' = [Entered(job, s) EXCEPT !.blocked = blocked]
    BY <1>9 DEF Settle, Engine
  <2> DEFINE next == Entered(job, s)
  <2>2. Later(next) /\ next.generation = job.generation
    BY <1>0, <1>3, LaterSettled
  <2>3. job' = [next EXCEPT !.blocked = blocked]
    BY <2>1
  <2> HIDE DEF next
  <2> QED
    BY <1>0, <1>1, <1>2, <2>2, <2>3, LaterColumns
<1>10. CASE Complete
  BY <1>1, <1>2, <1>4, <1>5, <1>10 DEF Complete, Engine
<1>11. CASE ReportClean
  <2>1. job' = [job EXCEPT !.clean = TRUE]
    BY <1>11 DEF ReportClean, Engine
  <2> QED
    BY <1>0, <1>1, <1>2, <1>3, <2>1, LaterColumns
<1> QED
  BY <1>6, <1>7, <1>8, <1>9, <1>10, <1>11 DEF EngineAction

-----------------------------------------------------------------------------
(* The invariant.                                                          *)

LEMMA InvInit == Init => IInv
<1> SUFFICES ASSUME Init PROVE IInv
  OBVIOUS
<1>1. /\ job = [state |-> "draft", version |-> 1, revision |-> FALSE,
                active |-> FALSE, blocked |-> FALSE, generation |-> 0,
                clean |-> TRUE]
      /\ sent = {} /\ commands = {} /\ dismissed = FALSE /\ answers = {}
  BY DEF Init
<1>2. TypeOK
  <2>1. "draft" \in State
    BY DEF State
  <2> QED
    BY <1>1, <2>1 DEF TypeOK
<1>3. Records
  BY <1>1, FS_EmptySet DEF Records
<1>4. KeysUnique /\ VersionsPast /\ SeenIsTrue /\ AnswersRecorded /\ DismissedSettled
      /\ OneWinnerPerVersion
  BY <1>1 DEF KeysUnique, VersionsPast, SeenIsTrue, AnswersRecorded, DismissedSettled,
              OneWinnerPerVersion
<1>5. OneGrantPerDecision
  <2>1. {row \in commands : row.command = "retry"} = {}
    BY <1>1
  <2> QED
    BY <1>1, <2>1, FS_EmptySet DEF OneGrantPerDecision
<1> QED
  BY <1>2, <1>3, <1>4, <1>5 DEF IInv

\* An issuer reads the current version and state.
LEMMA SendKeeps == ASSUME IInv, Send PROVE IInv'
<1>1. PICK k \in Keys, c \in Commands :
        sent' = sent \cup {[key |-> k, command |-> c, version |-> job.version,
                            seen |-> job.state]}
  BY DEF Send
<1>2. UNCHANGED <<job, commands, dismissed, answers>>
  BY DEF Send
<1>3. job.version \in Nat /\ job.state \in State
  BY DEF IInv, TypeOK
<1> DEFINE new == [key |-> k, command |-> c, version |-> job.version, seen |-> job.state]
<1>4. new \in Request /\ new.version = job.version /\ new.seen = job.state
  BY <1>3 DEF Request
<1>5. TypeOK'
  BY <1>1, <1>2, <1>4 DEF IInv, TypeOK, Request
<1> HIDE DEF new
<1>6. VersionsPast' /\ SeenIsTrue'
  BY <1>1, <1>2, <1>3, <1>4 DEF IInv, VersionsPast, SeenIsTrue, new
<1>7. Records' /\ KeysUnique' /\ AnswersRecorded' /\ DismissedSettled'
      /\ OneWinnerPerVersion' /\ OneGrantPerDecision'
  BY <1>2 DEF IInv, Records, KeysUnique, AnswersRecorded, DismissedSettled, MayDismiss,
              OneWinnerPerVersion, OneGrantPerDecision, Answer, SamePayload
<1> QED
  BY <1>5, <1>6, <1>7 DEF IInv

\* The engine makes versions pass.
LEMMA EngineKeeps == ASSUME IInv, EngineAction PROVE IInv'
<1>1. /\ Later(job') /\ job'.generation = job.generation /\ ~dismissed
      /\ UNCHANGED <<sent, commands, dismissed, answers>>
  BY EngineCases
<1>2. TypeOK'
  BY <1>1 DEF IInv, TypeOK, Later, JobRow
<1>3. job.version \in Nat /\ job'.version \in Nat /\ job'.version >= job.version
      /\ (job'.version = job.version => job'.state = job.state)
  BY <1>1 DEF IInv, TypeOK, Later, JobRow
<1>4. \A r \in sent : r.version \in Nat
  BY DEF IInv, TypeOK, Request
<1>5. \A a \in commands : a.version \in Nat
  BY DEF IInv, TypeOK
<1>6. VersionsPast' /\ SeenIsTrue'
  BY <1>1, <1>3, <1>4, <1>5 DEF IInv, VersionsPast, SeenIsTrue
<1>7. DismissedSettled'
  BY <1>1 DEF IInv, DismissedSettled
<1>8. Records' /\ KeysUnique' /\ AnswersRecorded' /\ OneWinnerPerVersion'
      /\ OneGrantPerDecision'
  BY <1>1 DEF IInv, Records, KeysUnique, AnswersRecorded, OneWinnerPerVersion,
              OneGrantPerDecision, SamePayload
<1> QED
  BY <1>2, <1>6, <1>7, <1>8 DEF IInv

\* One more answer, with nothing else changed.
LEMMA AnswerKeeps ==
  ASSUME IInv, NEW r \in sent, NEW answer, Reply(r, answer),
         [request |-> r, answer |-> answer] \in AnswerRecord,
         UNCHANGED <<job, sent, commands, dismissed>>,
         answer.code = "ok" =>
            /\ r.command # "dismiss"
            /\ \E row \in commands : /\ row.key = r.key
                                     /\ SamePayload(row, r)
                                     /\ row.result = answer
  PROVE  IInv'
<1> DEFINE new == [request |-> r, answer |-> answer]
<1>1. answers' = answers \cup {new} /\ new.request = r /\ new.answer = answer
  BY DEF Reply
<1> HIDE DEF new
<1>2. TypeOK'
  BY <1>1 DEF IInv, TypeOK
<1>3. Records'
  BY <1>1 DEF IInv, Records, new
<1>4. AnswersRecorded'
  BY <1>1 DEF IInv, AnswersRecorded, SamePayload
<1>5. DismissedSettled'
  BY <1>1 DEF IInv, DismissedSettled, MayDismiss, Answer
<1>6. KeysUnique' /\ VersionsPast' /\ SeenIsTrue' /\ OneWinnerPerVersion'
      /\ OneGrantPerDecision'
  BY DEF IInv, KeysUnique, VersionsPast, SeenIsTrue, OneWinnerPerVersion,
         OneGrantPerDecision
<1> QED
  BY <1>2, <1>3, <1>4, <1>5, <1>6 DEF IInv

LEMMA RefusedKeeps == ASSUME IInv, NEW r \in sent, Refused(r), UNCHANGED sent PROVE IInv'
<1>1. PICK code \in {"version_conflict", "illegal_state", "idempotency_conflict"} :
        Refuse(r, code)
  BY DEF Refused
<1>2. Refusal(code).code = code
  BY DEF Refusal
<1>3. [request |-> r, answer |-> Refusal(code)] \in AnswerRecord
  BY DEF IInv, TypeOK, AnswerRecord, Refusal
<1> QED
  BY <1>1, <1>2, <1>3, AnswerKeeps DEF Refuse

LEMMA ReplayedKeeps == ASSUME IInv, NEW r \in sent, Replayed(r), UNCHANGED sent PROVE IInv'
<1>1. PICK row \in commands : row.key = r.key /\ SamePayload(row, r) /\ Reply(r, row.result)
  BY DEF Replayed
<1>2. [request |-> r, answer |-> row.result] \in AnswerRecord
  <2>1. row.result \in [code : {"ok"}, state : State, version : Nat]
    BY DEF IInv, TypeOK
  <2> QED
    BY <2>1 DEF IInv, TypeOK, AnswerRecord
<1> QED
  BY <1>1, <1>2, AnswerKeeps DEF Replayed

LEMMA DismissedKeeps == ASSUME IInv, NEW r \in sent, Dismissed(r), UNCHANGED sent PROVE IInv'
<1> DEFINE new == [request |-> r, answer |-> Answer(job)]
<1>1. answers' = answers \cup {new} /\ new.request = r /\ new.answer = Answer(job)
  BY DEF Dismissed, Reply
<1>2. new \in AnswerRecord
  BY DEF IInv, TypeOK, AnswerRecord, Answer
<1> HIDE DEF new
<1>3. r.command = "dismiss" /\ r.version = job.version /\ MayDismiss /\ dismissed' = TRUE
      /\ UNCHANGED <<job, sent, commands>>
  BY DEF Dismissed, Current
<1>4. TypeOK'
  BY <1>1, <1>3 DEF IInv, TypeOK
<1>5. Records'
  BY <1>1, <1>2, <1>3 DEF IInv, Records
<1>6. AnswersRecorded'
  BY <1>1, <1>3 DEF IInv, AnswersRecorded, SamePayload
<1>7. DismissedSettled'
  BY <1>1, <1>3 DEF IInv, DismissedSettled, MayDismiss, Answer
<1>8. KeysUnique' /\ VersionsPast' /\ SeenIsTrue' /\ OneWinnerPerVersion'
      /\ OneGrantPerDecision'
  BY <1>3 DEF IInv, KeysUnique, VersionsPast, SeenIsTrue, OneWinnerPerVersion,
         OneGrantPerDecision
<1> QED
  BY <1>4, <1>5, <1>6, <1>7, <1>8 DEF IInv

\* A command is executed: one new row under a new key, for the version that
\* is current, and a grant if it is a retry.
LEMMA AppliedKeeps == ASSUME IInv, NEW r \in sent, Applied(r), UNCHANGED sent PROVE IInv'
<1>1. PICK row : /\ Later(row)
                 /\ row.generation = IF r.command = "retry"
                                     THEN job.generation + 1 ELSE job.generation
                 /\ Apply(r, row)
  BY DEF Applied
<1> DEFINE new == [key |-> r.key, command |-> r.command, version |-> r.version,
                   changed |-> row.version # job.version, result |-> Answer(row)]
           said == [request |-> r, answer |-> Answer(row)]
<1>2. /\ job' = row /\ commands' = commands \cup {new} /\ dismissed' = dismissed
      /\ answers' = answers \cup {said} /\ sent' = sent
  BY <1>1 DEF Apply, Reply
<1>3. row \in JobRow /\ job \in JobRow /\ r \in Request /\ r.command # "dismiss"
      /\ r.version = job.version /\ ~Used(r.key)
  BY <1>1, TypeOfJob DEF Later, IInv, TypeOK, Applied, Current
<1>4. row.version \in Nat /\ job.version \in Nat /\ row.version >= job.version
      /\ job.generation \in Nat
      /\ (row.version = job.version => row.state = job.state)
  BY <1>1, <1>3 DEF Later, JobRow
<1>5. Answer(row) \in [code : {"ok"}, state : State, version : Nat]
  BY <1>3 DEF Answer, JobRow
<1>6. new \in CommandRow
  <2> DEFINE changed == row.version # job.version
             answer == Answer(row)
  <2>1. changed \in BOOLEAN
    OBVIOUS
  <2>2. r.key \in Keys /\ r.command \in Commands \ {"dismiss"} /\ r.version \in Nat
    BY <1>3 DEF Request
  <2> HIDE DEF changed, answer
  <2>3. [key |-> r.key, command |-> r.command, version |-> r.version,
         changed |-> changed, result |-> answer] \in CommandRow
    BY <1>5, <2>1, <2>2 DEF CommandRow, answer
  <2> QED
    BY <2>3 DEF changed, answer
<1>7. said \in AnswerRecord
  BY <1>3, <1>5 DEF AnswerRecord
<1>8. /\ new.key = r.key /\ new.command = r.command /\ new.version = r.version
      /\ new.result = Answer(row) /\ (new.changed <=> row.version # job.version)
      /\ said.request = r /\ said.answer = Answer(row) /\ said.answer.code = "ok"
  BY DEF Answer
<1> HIDE DEF new, said
<1>9. \A a \in commands : a.key # r.key
  BY <1>3 DEF Used
<1>10. TypeOK'
  <2>1. row \in [state : State, version : Nat, revision : BOOLEAN, active : BOOLEAN,
                 blocked : BOOLEAN, generation : Nat, clean : BOOLEAN]
    BY <1>3 DEF JobRow
  <2>2. commands' \subseteq CommandRow
    BY <1>2, <1>6, TypeOfJob DEF IInv
  <2>3. \A a \in answers' : a.request \in sent
    BY <1>2, <1>8 DEF IInv, TypeOK
  <2> QED
    BY <1>2, <2>1, <2>2, <2>3 DEF IInv, TypeOK, CommandRow
<1>11. Records'
  BY <1>2, <1>7, FS_AddElement DEF IInv, Records
<1>12. KeysUnique'
  BY <1>2, <1>8, <1>9 DEF IInv, KeysUnique
<1>13. VersionsPast'
  <2>1. \A q \in sent : q.version \in Nat
    BY DEF IInv, TypeOK, Request
  <2>2. \A a \in commands : a.version \in Nat
    BY DEF IInv, TypeOK
  <2>3. \A q \in sent : q.version <= job'.version
    BY <1>2, <1>4, <2>1 DEF IInv, VersionsPast
  <2>4. \A a \in commands : a.version <= job'.version /\ (a.changed => a.version < job'.version)
    BY <1>2, <1>4, <2>2 DEF IInv, VersionsPast
  <2>5. new.version <= job'.version /\ (new.changed => new.version < job'.version)
    BY <1>2, <1>3, <1>4, <1>8
  <2> QED
    BY <1>2, <2>3, <2>4, <2>5 DEF VersionsPast
<1>14. SeenIsTrue'
  <2>1. \A q \in sent : q.version \in Nat /\ q.version <= job.version
    BY DEF IInv, TypeOK, Request, VersionsPast
  <2> QED
    BY <1>2, <1>4, <2>1 DEF IInv, SeenIsTrue
<1>15. AnswersRecorded'
  <2> SUFFICES ASSUME NEW a \in answers', a.answer.code = "ok",
                      a.request.command # "dismiss"
               PROVE  \E c \in commands' : /\ c.key = a.request.key
                                           /\ SamePayload(c, a.request)
                                           /\ c.result = a.answer
    BY DEF AnswersRecorded, SamePayload
  <2>1. CASE a = said
    <3>1. SamePayload(new, r)
      BY <1>8 DEF SamePayload
    <3> QED
      BY <1>2, <1>8, <2>1, <3>1
  <2>2. CASE a \in answers
    BY <1>2, <2>2 DEF IInv, AnswersRecorded
  <2> QED
    BY <1>2, <2>1, <2>2
<1>16. DismissedSettled'
  <2>1. dismissed => job' = job
    BY <1>1, <1>2 DEF Later
  <2>2. \A a \in answers' : a.request.command = "dismiss" => a \in answers
    BY <1>2, <1>3, <1>8
  <2> QED
    BY <1>2, <2>1, <2>2 DEF IInv, DismissedSettled, MayDismiss, Answer
<1>17. OneWinnerPerVersion'
  <2>1. \A a \in commands : a.changed => a.version # new.version
    <3>1. \A a \in commands : a.version \in Nat /\ (a.changed => a.version < job.version)
      BY DEF IInv, TypeOK, VersionsPast
    <3> QED
      BY <1>3, <1>4, <1>8, <3>1
  <2> QED
    BY <1>2, <2>1 DEF IInv, OneWinnerPerVersion
<1>18. OneGrantPerDecision'
  <2> DEFINE R == {c \in commands : c.command = "retry"}
  <2>1. IsFiniteSet(R) /\ new \notin R
    <3>1. IsFiniteSet(commands) /\ R \subseteq commands
      BY DEF IInv, Records
    <3> QED
      BY <1>8, <1>9, <3>1, FS_Subset
  <2>2. job.generation = Cardinality(R)
    BY DEF IInv, OneGrantPerDecision
  <2>3. CASE r.command = "retry"
    <3>1. {c \in commands' : c.command = "retry"} = R \cup {new}
      BY <1>2, <1>8, <2>3
    <3>2. Cardinality(R \cup {new}) = Cardinality(R) + 1
      BY <2>1, FS_AddElement
    <3> QED
      BY <1>1, <1>2, <2>2, <2>3, <3>1, <3>2 DEF OneGrantPerDecision
  <2>4. CASE r.command # "retry"
    <3>1. {c \in commands' : c.command = "retry"} = R
      BY <1>2, <1>8, <2>4
    <3> QED
      BY <1>1, <1>2, <2>2, <2>4, <3>1 DEF OneGrantPerDecision
  <2> QED
    BY <2>3, <2>4
<1> QED
  BY <1>10, <1>11, <1>12, <1>13, <1>14, <1>15, <1>16, <1>17, <1>18 DEF IInv

LEMMA InvNext == IInv /\ [Next]_vars => IInv'
<1> SUFFICES ASSUME IInv, [Next]_vars PROVE IInv'
  OBVIOUS
<1>1. CASE Send
  BY <1>1, SendKeeps
<1>2. CASE Deliver
  <2>1. UNCHANGED sent
    BY <1>2 DEF Deliver
  <2> QED
    BY <1>2, <2>1, DeliveryCases, RefusedKeeps, ReplayedKeeps, AppliedKeeps, DismissedKeeps
<1>3. CASE EngineAction
  BY <1>3, EngineKeeps
<1>4. CASE UNCHANGED vars
  BY <1>4 DEF vars, IInv, TypeOK, Records, KeysUnique, VersionsPast, SeenIsTrue,
       AnswersRecorded, DismissedSettled, OneWinnerPerVersion, OneGrantPerDecision,
       MayDismiss, Answer, SamePayload
<1> QED
  BY <1>1, <1>2, <1>3, <1>4 DEF Next, EngineAction

LEMMA Invariance == Spec => []IInv
BY InvInit, InvNext, PTL DEF Spec

-----------------------------------------------------------------------------
(* Theorems.                                                               *)

\* Two requests under one key are both accepted only if they are the same
\* command: each has a row, and the key has only one.
LEMMA InvBinds == IInv => KeyBindsOneCommand
<1> SUFFICES ASSUME IInv, NEW r \in sent, NEW s \in sent, r.key = s.key,
                    r.command # "dismiss", s.command # "dismiss",
                    NEW a \in Accepted(r), NEW b \in Accepted(s)
             PROVE  r.command = s.command /\ r.version = s.version
  BY DEF KeyBindsOneCommand
<1>1. PICK c \in commands : c.key = r.key /\ SamePayload(c, r)
  BY DEF IInv, AnswersRecorded, Accepted
<1>2. PICK d \in commands : d.key = s.key /\ SamePayload(d, s)
  BY DEF IInv, AnswersRecorded, Accepted
<1> QED
  BY <1>1, <1>2 DEF IInv, KeysUnique, SamePayload

\* However often, late and concurrently commands are delivered, nothing is
\* applied twice: a key stands for one command, one command wins a version,
\* and each retry decision is one grant (storage.py, _existing_command and
\* the version test of every command).
THEOREM AppliedOnce == Spec => []NothingAppliedTwice
<1>1. IInv => NothingAppliedTwice
  BY InvBinds DEF IInv, NothingAppliedTwice
<1> QED
  BY <1>1, Invariance, PTL

\* Only a delivery adds answers, and only to the request it delivers.
LEMMA AnswersOnlyDelivered ==
  ASSUME IInv, [Next]_vars, answers' # answers
  PROVE  Deliver
<1>1. ASSUME EngineAction PROVE FALSE
  BY <1>1, EngineCases
<1> QED
  BY <1>1 DEF Next, EngineAction, Send, vars

\* What was accepted is answered in the same way for ever: a replayed command
\* by its row, a repeated dismissal by the workload that cannot move.
THEOREM AnswersAreStable == Spec => AnswersStable
<1>1. ASSUME IInv, [Next]_vars, NEW r \in sent, NEW a \in Accepted(r)
      PROVE  {b \in answers' : b.request = r} \ answers = {}
  <2> SUFFICES ASSUME NEW b \in answers', b.request = r, b \notin answers PROVE FALSE
    OBVIOUS
  <2>1. a \in answers /\ a.request = r /\ a.answer.code = "ok" /\ a \in AnswerRecord
    BY <1>1 DEF Accepted, IInv, Records
  <2>2. Deliver
    BY <1>1, AnswersOnlyDelivered
  <2>3. PICK q \in sent : Refused(q) \/ Replayed(q) \/ Applied(q) \/ Dismissed(q)
    BY <1>1, <2>2, DeliveryCases
  <2>4. PICK answer : Reply(q, answer)
    BY <2>3 DEF Refused, Refuse, Replayed, Applied, Apply, Dismissed
  <2>5. b = [request |-> q, answer |-> answer]
    BY <2>4 DEF Reply
  <2>6. q = r
    BY <2>5
  <2>7. a = [request |-> r, answer |-> a.answer]
    BY <2>1 DEF AnswerRecord
  <2>8. ASSUME Reply(r, a.answer) PROVE FALSE
    BY <2>1, <2>7, <2>8 DEF Reply
  <2>9. CASE Refused(r)
    BY <1>1, <2>9 DEF Refused
  <2>10. CASE Replayed(r)
    <3>1. PICK row \in commands : row.key = r.key /\ SamePayload(row, r) /\ Reply(r, row.result)
      BY <2>10 DEF Replayed
    <3>2. PICK c \in commands : c.key = r.key /\ c.result = a.answer
      BY <1>1, <2>1, <2>10 DEF IInv, AnswersRecorded, Replayed
    <3>3. row = c
      BY <1>1, <3>1, <3>2 DEF IInv, KeysUnique
    <3> QED
      BY <2>8, <3>1, <3>2, <3>3
  <2>11. CASE Applied(r)
    BY <1>1, <2>11, UnusedUnaccepted DEF Applied
  <2>12. CASE Dismissed(r)
    <3>1. a.answer = Answer(job)
      BY <1>1, <2>1, <2>12 DEF IInv, DismissedSettled, Dismissed
    <3> QED
      BY <2>8, <2>12, <3>1 DEF Dismissed
  <2> QED
    BY <2>3, <2>6, <2>9, <2>10, <2>11, <2>12
<1>2. IInv /\ [Next]_vars =>
        [\A r \in sent : Accepted(r) # {} =>
            {a \in answers' : a.request = r} \ answers = {}]_vars
  BY <1>1
<1> QED
  BY <1>2, Invariance, PTL DEF Spec, AnswersStable

\* A command takes effect only on the state that its issuer saw: the version
\* it carries is still the current one, and a version stands for one state.
THEOREM ActsOnWhatIsSeen == Spec => ActsOnWhatWasSeen
<1>1. ASSUME IInv, [Next]_vars, commands' # commands \/ dismissed' # dismissed
      PROVE  \E r \in sent : r.seen = job.state /\ r.version = job.version
                             /\ Accepted(r)' # {}
  <2>1. ASSUME EngineAction PROVE FALSE
    BY <1>1, <2>1, EngineCases
  <2>2. Deliver
    BY <1>1, <2>1 DEF Next, EngineAction, Send, vars
  <2>3. PICK r \in sent : Refused(r) \/ Replayed(r) \/ Applied(r) \/ Dismissed(r)
    BY <1>1, <2>2, DeliveryCases
  <2>4. Applied(r) \/ Dismissed(r)
    BY <1>1, <2>3 DEF Refused, Refuse, Replayed
  <2>5. r.version = job.version /\ \E row : Reply(r, Answer(row))
    BY <2>4 DEF Applied, Apply, Dismissed, Current
  <2>6. PICK row : Reply(r, Answer(row))
    BY <2>5
  <2> DEFINE new == [request |-> r, answer |-> Answer(row)]
  <2>7. new \in answers' /\ new.request = r /\ new.answer.code = "ok"
    BY <2>6 DEF Reply, Answer
  <2> HIDE DEF new
  <2>8. Accepted(r)' # {}
    BY <2>7 DEF Accepted
  <2>9. r.seen = job.state
    BY <1>1, <2>5 DEF IInv, SeenIsTrue
  <2> QED
    BY <2>5, <2>8, <2>9
<1>2. IInv /\ [Next]_vars =>
        [commands' # commands \/ dismissed' # dismissed =>
            \E r \in sent : r.seen = job.state /\ r.version = job.version
                            /\ Accepted(r)' # {}]_vars
  BY <1>1
<1> QED
  BY <1>2, Invariance, PTL DEF Spec, ActsOnWhatWasSeen

\* A dismissed workload has ended for good: neither the engine nor a late
\* command changes its row.
THEOREM DismissalIsFinal == Spec => DismissedIsOver
<1>1. ASSUME IInv, [Next]_vars, dismissed PROVE job' = job
  <2>1. CASE EngineAction
    BY <1>1, <2>1, EngineCases
  <2>2. CASE Deliver
    <3>1. PICK r \in sent : Refused(r) \/ Replayed(r) \/ Applied(r) \/ Dismissed(r)
      BY <1>1, <2>2, DeliveryCases
    <3> QED
      BY <1>1, <3>1 DEF Refused, Refuse, Replayed, Applied, Apply, Dismissed, Later
  <2> QED
    BY <1>1, <2>1, <2>2 DEF Next, EngineAction, Send, vars
<1>2. IInv /\ [Next]_vars => [dismissed => job' = job]_vars
  BY <1>1
<1> QED
  BY <1>2, Invariance, PTL DEF Spec, DismissedIsOver
=============================================================================
