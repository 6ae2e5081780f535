---------------------------- MODULE DurableControl ----------------------------
(***************************************************************************)
(* The owner's commands on one durable workload: control.py and the store  *)
(* methods behind it (_control, record_attention_resolution and            *)
(* dismiss_terminal_workload).                                             *)
(*                                                                         *)
(* A request carries its idempotency key, the command and the version its  *)
(* issuer saw.  Once sent it may be delivered late, several times or never *)
(* (a browser retries, two tabs act at once), so the set of sent requests  *)
(* only grows.  Each store method is one transaction.  The engine moves    *)
(* the workload in between; of it only what the commands read is kept.     *)
(***************************************************************************)
EXTENDS Integers, FiniteSets

CONSTANTS
    Keys,           \* idempotency keys
    MaxRequests,    \* bound: requests sent
    MaxGeneration,  \* the cap on retry decisions (1,000,000 in the code)
    MaxVersion      \* bound: the engine acts below this version

ASSUME BoundsAssumption ==
    MaxRequests \in Nat /\ MaxGeneration \in Nat /\ MaxVersion \in Nat

VARIABLES
    job,        \* the workload row, and what the commands read of its units
    sent,       \* requests under way
    commands,   \* the commands table: one row per used key
    dismissed,  \* workload_dismissals has a row
    answers     \* history: what each delivery was answered

vars == <<job, sent, commands, dismissed, answers>>

-----------------------------------------------------------------------------
(* States, from models.py.                                                 *)

Terminal == {"cancelled", "failed", "completed", "completed_with_errors"}

State ==
    {"draft", "admitted", "queued", "running", "pause_requested", "paused",
     "cancel_requested", "needs_attention"} \cup Terminal

\* CONTROL_STATE_MATRIX; a state mapped to itself is an explicit no-op.
ControlTransition ==
    [pause |-> [queued |-> "paused", running |-> "pause_requested",
                pause_requested |-> "pause_requested", paused |-> "paused"],
     resume |-> [queued |-> "queued", paused |-> "queued"],
     cancel |-> [draft |-> "cancelled", admitted |-> "cancel_requested",
                 queued |-> "cancel_requested",
                 running |-> "cancel_requested",
                 pause_requested |-> "cancel_requested",
                 paused |-> "cancel_requested",
                 cancel_requested |-> "cancel_requested",
                 cancelled |-> "cancelled",
                 needs_attention |-> "cancel_requested"]]

\* "retry" and "drop" are the two decisions on a workload that needs attention.
Commands == DOMAIN ControlTransition \cup {"retry", "drop", "dismiss"}

-----------------------------------------------------------------------------
(* Changes of the workload row.                                            *)

\* Seeded fault: a change by the engine does not count as a new version.
EnteredKeepsVersion(row, state) == [row EXCEPT !.state = state]

\* _update_state_in_transaction: every change of state is a new version.
Entered(row, state) ==
    IF state = row.state THEN row
    ELSE [row EXCEPT !.state = state, !.version = @ + 1]

\* Where _settle_workload_in_transaction may leave a workload.  Attention,
\* an untolerated failure, and more waiting units than one batch cancels are
\* facts about the units.
Settled(row) ==
    IF row.state = "cancel_requested"
    THEN {row.state} \cup (IF row.active THEN {} ELSE {"cancelled"})
    ELSE IF row.state \in Terminal \cup {"draft", "needs_attention"}
    THEN {row.state}
    ELSE {row.state, "needs_attention"}
         \cup (IF row.active THEN {} ELSE {"failed"})
         \cup (IF row.state = "pause_requested" /\ ~row.active
               THEN {"paused"} ELSE {})

-----------------------------------------------------------------------------
(* Commands.                                                               *)

Used(key) == \E row \in commands : row.key = key

RowOf(key) == CHOOSE row \in commands : row.key = key

Answer(row) == [code |-> "ok", state |-> row.state, version |-> row.version]

Refusal(code) == [code |-> code, state |-> "", version |-> 0]

Reply(r, answer) == answers' = answers \cup {[request |-> r, answer |-> answer]}

Refuse(r, code) ==
    Reply(r, Refusal(code)) /\ UNCHANGED <<job, commands, dismissed>>

\* payload_digest covers the command, the decision and the expected version.
SamePayload(row, r) == row.command = r.command /\ row.version = r.version

\* Seeded fault: the version is tested before the key.
FreshByVersion(r) == ~Used(r.key) \/ job.version # r.version

\* _existing_command finds nothing: the command is to be executed.
Fresh(r) == ~Used(r.key)

\* _existing_command: the recorded answer again, or a conflict.
Replay(r) ==
    /\ r.command # "dismiss"
    /\ ~Fresh(r)
    /\ IF SamePayload(RowOf(r.key), r)
       THEN /\ Reply(r, RowOf(r.key).result)
            /\ UNCHANGED <<job, commands, dismissed>>
       ELSE Refuse(r, "idempotency_conflict")

Current(r) == job.version = r.version

\* The change that a command makes, its row and its answer, in one
\* transaction.
Apply(r, row) ==
    /\ job' = row
    /\ commands' = commands \cup
          {[key |-> r.key, command |-> r.command, version |-> r.version,
            changed |-> row.version # job.version, result |-> Answer(row)]}
    /\ Reply(r, Answer(row))
    /\ UNCHANGED dismissed

\* _control: the drain states settle at once, also after a no-op.
Control(r) ==
    /\ r.command \in DOMAIN ControlTransition
    /\ Fresh(r)
    /\ LET targets == ControlTransition[r.command]
       IN  IF ~Current(r) THEN Refuse(r, "version_conflict")
           ELSE IF job.state \notin DOMAIN targets
           THEN Refuse(r, "illegal_state")
           ELSE LET next == Entered(job, targets[job.state])
                IN  IF /\ next.revision
                       /\ next.state \in {"pause_requested", "cancel_requested"}
                    THEN \E s \in Settled(next) : Apply(r, Entered(next, s))
                    ELSE Apply(r, next)

\* Artifact, dependency, materialisation or budget attention, or the cap.
RetryBlocked == job.blocked \/ job.generation >= MaxGeneration

\* Seeded fault: any decision on the attention is a retry grant.
GrantedByAnyDecision(row, command) == [row EXCEPT !.generation = @ + 1]

Granted(row, command) ==
    IF command = "retry" THEN [row EXCEPT !.generation = @ + 1] ELSE row

\* record_attention_resolution: a retry renews the authority to run, and a
\* workload that still has active units is running again.
Resolve(r) ==
    /\ r.command \in {"retry", "drop"}
    /\ Fresh(r)
    /\ IF ~Current(r) THEN Refuse(r, "version_conflict")
       ELSE IF job.state # "needs_attention" \/ ~job.revision
       THEN Refuse(r, "illegal_state")
       ELSE IF r.command = "retry" /\ RetryBlocked
       THEN Refuse(r, "illegal_state")
       ELSE LET target == IF r.command = "drop" THEN "cancel_requested"
                          ELSE IF job.active THEN "running" ELSE "queued"
                next == Granted(Entered(job, target), r.command)
            IN  IF r.command = "drop"
                THEN \E s \in Settled(next) : Apply(r, Entered(next, s))
                ELSE Apply(r, next)

\* Seeded fault: a workload whose workspace is clean may be dismissed.
MayDismissWhenClean == job.clean

\* Terminal, without active attempts, and reported clean.
MayDismiss == job.state \in Terminal /\ ~job.active /\ job.clean

\* dismiss_terminal_workload: no row of commands, and idempotent by itself.
Dismiss(r) ==
    /\ r.command = "dismiss"
    /\ IF ~Current(r) THEN Refuse(r, "version_conflict")
       ELSE IF ~MayDismiss THEN Refuse(r, "illegal_state")
       ELSE /\ dismissed' = TRUE
            /\ Reply(r, Answer(job))
            /\ UNCHANGED <<job, commands>>

\* An owner's surface reads the workload and sends a command on it.
Send ==
    /\ Cardinality(sent) < MaxRequests
    /\ \E k \in Keys, c \in Commands :
          sent' = sent \cup {[key |-> k, command |-> c,
                              version |-> job.version, seen |-> job.state]}
    /\ UNCHANGED <<job, commands, dismissed, answers>>

Deliver ==
    /\ \E r \in sent : Replay(r) \/ Control(r) \/ Resolve(r) \/ Dismiss(r)
    /\ UNCHANGED sent

-----------------------------------------------------------------------------
(* The engine.                                                             *)

Engine(row) ==
    /\ job.version < MaxVersion
    /\ job' = row
    /\ UNCHANGED <<sent, commands, dismissed, answers>>

\* admit_revision and transition_workload, by a submission.
Submit ==
    \/ job.state = "draft"
       /\ Engine([Entered(job, "admitted")
                     EXCEPT !.revision = TRUE, !.clean = FALSE])
    \/ job.state = "admitted" /\ Engine(Entered(job, "queued"))

\* claim_next: the first attempt of a queued workload makes it run.
Claim ==
    /\ job.state \in {"queued", "running"}
    /\ ~job.active
    /\ Engine([Entered(job, "running") EXCEPT !.active = TRUE])

\* A unit's attempt ends, and the same transaction settles the workload.
EndAttempt ==
    /\ job.active
    /\ LET row == [job EXCEPT !.active = FALSE]
       IN  \E s \in Settled(row), blocked \in BOOLEAN :
              Engine([Entered(row, s) EXCEPT !.blocked = blocked])

\* settle_workloads.
Settle ==
    /\ job.state # "needs_attention"
    /\ \E s \in Settled(job) \ {job.state}, blocked \in BOOLEAN :
          Engine([Entered(job, s) EXCEPT !.blocked = blocked])

\* complete_ready_workloads.
Complete ==
    /\ job.state = "running"
    /\ ~job.active
    /\ \E s \in {"completed", "completed_with_errors"} : Engine(Entered(job, s))

\* TemporaryStorage reports a settled workload's workspace clean.
ReportClean ==
    /\ job.state \in Terminal
    /\ ~job.active /\ ~job.clean
    /\ Engine([job EXCEPT !.clean = TRUE])

\* A draft has no revision and nothing on disk.
Init ==
    /\ job = [state |-> "draft", version |-> 1, revision |-> FALSE,
              active |-> FALSE, blocked |-> FALSE, generation |-> 0,
              clean |-> TRUE]
    /\ sent = {}
    /\ commands = {}
    /\ dismissed = FALSE
    /\ answers = {}

Next ==
    \/ Send \/ Deliver
    \/ Submit \/ Claim \/ EndAttempt \/ Settle \/ Complete \/ ReportClean

Spec == Init /\ [][Next]_vars

-----------------------------------------------------------------------------
(* Properties.                                                             *)

Request == [key : Keys, command : Commands, version : Nat, seen : State]

\* Type correctness of the workload row, the requests and the command rows.
TypeOK ==
    /\ job \in [state : State, version : Nat, revision : BOOLEAN,
                active : BOOLEAN, blocked : BOOLEAN, generation : Nat,
                clean : BOOLEAN]
    /\ sent \subseteq Request
    /\ commands \subseteq
          [key : Keys, command : Commands \ {"dismiss"}, version : Nat,
           changed : BOOLEAN,
           result : [code : {"ok"}, state : State, version : Nat]]
    /\ dismissed \in BOOLEAN
    /\ \A a \in answers : a.request \in sent

Accepted(r) == {a \in answers : a.request = r /\ a.answer.code = "ok"}

\* A request that was once accepted gets that same answer for every further
\* delivery, whatever happened to the workload since.
AnswersStable ==
    [][\A r \in sent : Accepted(r) # {} =>
          {a \in answers' : a.request = r} \ answers = {}]_vars

\* A key stands for one command: two different requests under the same key
\* are never both accepted.  (A dismissal does not consult the keys.)
KeyBindsOneCommand ==
    \A r, s \in sent :
        /\ r.key = s.key
        /\ r.command # "dismiss" /\ s.command # "dismiss"
        /\ Accepted(r) # {} /\ Accepted(s) # {}
        => r.command = s.command /\ r.version = s.version

\* A command takes effect only on the state that its issuer saw: the version
\* stands for the state, however late the command is delivered.
ActsOnWhatWasSeen ==
    [][commands' # commands \/ dismissed' # dismissed =>
          \E r \in sent : r.seen = job.state /\ r.version = job.version
                          /\ Accepted(r)' # {}]_vars

\* Of the commands issued on one version at most one changes the workload.
OneWinnerPerVersion ==
    \A a, b \in commands :
        a.changed /\ b.changed /\ a.version = b.version => a = b

\* Every accepted retry decision, and nothing else, adds one retry grant.
OneGrantPerDecision ==
    job.generation = Cardinality({row \in commands : row.command = "retry"})

\* Whatever is repeated, late or raced by another command, nothing is applied
\* twice: not under its own key, not on its version, not as a grant.
NothingAppliedTwice ==
    TypeOK /\ KeyBindsOneCommand /\ OneWinnerPerVersion /\ OneGrantPerDecision

\* A dismissed workload has ended for good: it can neither change nor run.
DismissedIsOver == [][dismissed => job' = job]_vars
=============================================================================
