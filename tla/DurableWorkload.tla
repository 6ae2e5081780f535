--------------------------- MODULE DurableWorkload ---------------------------
(***************************************************************************)
(* The durable workload engine of Metnos (runtime/durable_workloads): one  *)
(* admitted revision of one workload, its units of work, the fenced leases *)
(* that workers take on them, and the transactions of DurableWorkloadStore *)
(* that claim, run, renew, commit, fail, abandon, reconcile, settle,       *)
(* control and complete.                                                   *)
(*                                                                         *)
(* Every store method is one BEGIN IMMEDIATE transaction, hence one action.*)
(* A worker runs its adapter OUTSIDE a transaction, so between its calls   *)
(* anything may happen to the row it holds a lease on; a worker may also   *)
(* restart at any point and forget its lease.                              *)
(*                                                                         *)
(* Instants are stored relative to the wall clock: lease = lease_expires_at*)
(* - now, wait = next_attempt_at - now, skew = clock_high_water_at - now.  *)
(* Tick lets one time unit pass and JumpBack sets the wall clock back.     *)
(***************************************************************************)
EXTENDS Integers, FiniteSets, Sequences

CONSTANTS
    Units,            \* the units of the active revision
    Workers,          \* the lanes that execute units
    NoWorker,         \* lease_worker_id IS NULL
    NoUnit,           \* a worker without a lease
    Effect,           \* the frozen effect_profile of each unit's stage
    ModelUnits,       \* the units whose stage calls a model (mode "llm")
    ErrorClasses,     \* the error classes an adapter can report
    RetryableClasses, \* retry_policy.retryable_error_classes
    Tolerated,        \* tolerated_error_classes of a "declared" failure policy
    MaxAttempts,      \* retry_policy.max_attempts
    RetryDelay,       \* deterministic_retry_delay_ms
    LeaseDuration,    \* DurableWorker.lease_duration
    Timeout,          \* the stage's timeout_s
    MaxConcurrency,   \* budgets.max_concurrency
    BatchSize,        \* units one transaction cancels, reconciles or promotes
    Tolerance,        \* _CLOCK_REGRESSION_TOLERANCE
    Jumps,            \* how far the wall clock may be set back in one step
    MaxSkew,          \* bound: how far the clock may be behind its high water
    Horizon,          \* bound: how far below zero a timer is told apart
    MaxFence,         \* bound: claims of one unit
    MaxGeneration     \* bound: owner decisions to retry (1,000,000 in the code)

ASSUME UnitsAssumption == NoUnit \notin Units
ASSUME WorkersAssumption == NoWorker \notin Workers
ASSUME EffectAssumption ==
    Effect \in [Units -> {"pure", "idempotent", "reconcilable", "manual_only"}]
ASSUME PolicyAssumption ==
    /\ MaxAttempts \in Nat \ {0}
    /\ RetryDelay \in Nat
    /\ LeaseDuration \in Nat \ {0}
    /\ Timeout \in Nat \ {0}
    /\ MaxConcurrency \in Nat \ {0}
    /\ BatchSize \in Nat \ {0}
    /\ Tolerance \in Nat
    /\ Jumps \subseteq Nat \ {0}
    /\ MaxSkew \in Nat
    /\ Horizon \in Nat
    /\ MaxFence \in Nat
    /\ MaxGeneration \in Nat
ASSUME ClassesAssumption ==
    ModelUnits \subseteq Units /\ RetryableClasses \subseteq ErrorClasses

VARIABLES
    workload,  \* workloads.state
    unit,      \* the units table
    attempts,  \* attempts[u][f]: state of the attempt of u with fence f
    result,    \* results: the fence whose result u committed, 0 for none
    rev,       \* revisions.manual_retry_generation and revision_usage
    worker,    \* each DurableWorker: the lease it holds and how far it got
    starts,    \* history: how often an execution of the unit was started
    grants     \* history: owner retry decisions taken while u needed attention

vars == <<workload, unit, attempts, result, rev, worker, starts, grants>>

-----------------------------------------------------------------------------
(* States, from models.py.                                                 *)

WorkloadState ==
    {"admitted", "queued", "running", "pause_requested", "paused",
     "cancel_requested", "needs_attention", "cancelled", "failed",
     "completed", "completed_with_errors"}

Completed == {"completed", "completed_with_errors"}

TerminalWorkload == Completed \cup {"cancelled", "failed"}

UnitState ==
    {"pending", "leased", "running", "retry_wait", "needs_attention",
     "committed", "failed_permanent", "cancelled"}

TerminalUnit == {"committed", "failed_permanent", "cancelled"}

AttemptState ==
    {"leased", "running", "succeeded", "failed", "timed_out", "abandoned"}

LiveAttempt == {"leased", "running"}

WorkloadTransitions ==
    [admitted |-> {"queued", "cancel_requested", "cancelled",
                   "needs_attention", "failed"},
     queued |-> {"running", "paused", "cancel_requested", "cancelled",
                 "needs_attention", "failed"},
     running |-> {"pause_requested", "cancel_requested", "needs_attention",
                  "failed", "completed_with_errors", "completed"},
     pause_requested |-> {"paused", "cancel_requested", "needs_attention",
                          "failed"},
     paused |-> {"queued", "cancel_requested", "cancelled",
                 "needs_attention", "failed"},
     cancel_requested |-> {"cancelled", "needs_attention", "failed"},
     needs_attention |-> {"queued", "running", "cancel_requested",
                          "cancelled", "failed"},
     cancelled |-> {}, failed |-> {}, completed |-> {},
     completed_with_errors |-> {}]

UnitTransitions ==
    [pending |-> {"leased", "cancelled"},
     leased |-> {"running", "pending", "needs_attention", "cancelled"},
     running |-> {"committed", "retry_wait", "failed_permanent",
                  "needs_attention", "cancelled"},
     retry_wait |-> {"pending", "cancelled"},
     needs_attention |-> {"pending", "cancelled"},
     committed |-> {}, failed_permanent |-> {}, cancelled |-> {}]

\* Seeded fault: a resume is accepted before the pause has drained.
ControlTargetResumesEarly ==
    [pause  |-> [queued |-> "paused", running |-> "pause_requested"],
     resume |-> [paused |-> "queued", pause_requested |-> "queued"],
     cancel |-> [s \in {"admitted", "queued", "running", "pause_requested",
                        "paused", "needs_attention"} |-> "cancel_requested"]]

\* control_transition: pause, resume and cancel; absent pairs are illegal.
ControlTarget ==
    [pause  |-> [queued |-> "paused", running |-> "pause_requested"],
     resume |-> [paused |-> "queued"],
     cancel |-> [s \in {"admitted", "queued", "running", "pause_requested",
                        "paused", "needs_attention"} |-> "cancel_requested"]]

-----------------------------------------------------------------------------
(* Facts that the transactions read.                                       *)

Least(a, b) == IF a <= b THEN a ELSE b
Greatest(a, b) == IF a >= b THEN a ELSE b

Fence(u) == Len(attempts[u])

Active(us) == {u \in Units : us[u].state \in {"leased", "running"}}

\* Rows of _cancel_waiting_units; active_attempt_id IS NULL in all of them.
Waiting(us) ==
    {u \in Units :
        us[u].state \in {"pending", "retry_wait", "needs_attention"}}

Due(us) == {u \in Units : us[u].state = "retry_wait" /\ us[u].wait <= 0}

Untolerated(us) ==
    {u \in Units : /\ us[u].state = "failed_permanent"
                   /\ us[u].error \notin Tolerated}

Exhausted(us) ==
    {u \in Units : /\ us[u].state = "pending"
                   /\ us[u].tokens = 0
                   /\ Fence(u) >= MaxAttempts}

\* A unit whose attention fact no owner decision has answered yet.
Unanswered(us, r) ==
    {u \in Units : us[u].state = "needs_attention" /\ us[u].gen >= r.gen}

\* _clock_regressed for an operation whose `now` is `at` past the wall clock.
Regressed(r, at) == r.skew - at > Tolerance

\* Seeded fault: missing model accounting does not block the revision.
BudgetViolationIgnoresUnknown(r, at) == r.spent \/ Regressed(r, at)

BudgetViolation(r, at) == r.unknown \/ r.spent \/ Regressed(r, at)

\* _advance_revision_clock: the high water never moves back.
Advance(r, at) == [r EXCEPT !.skew = Greatest(r.skew, at)]

\* _update_state_in_transaction: the clock of the revision starts, and is
\* advanced, when its workload enters the queue or runs.
EnterState(r, target) ==
    IF target \in {"queued", "running"} THEN Advance(r, 0) ELSE r

\* Whether an execution may have entered a model call without leaving an
\* exact usage record (_mark_unaccounted_model_usage_unknown_in_transaction).
MissingUsage(u) == IF u \in ModelUnits THEN BOOLEAN ELSE {FALSE}

\* Every way to fill one bounded batch from the rows in S.
Batches(S) ==
    {B \in SUBSET S : Cardinality(B) = Least(BatchSize, Cardinality(S))}

-----------------------------------------------------------------------------
(* _settle_workload_in_transaction: control and failure states follow from *)
(* unit facts.  B is the batch of waiting units this call may cancel.      *)

CancelUnits(us, B) ==
    [u \in Units |->
        IF u \in B
        THEN [us[u] EXCEPT !.state = "cancelled", !.wait = 0, !.tokens = 0,
                           !.error = IF @ = "" THEN "cancelled" ELSE @]
        ELSE us[u]]

RepairExhausted(us, r) ==
    [u \in Units |->
        IF u \in Exhausted(us)
        THEN [us[u] EXCEPT !.state = "needs_attention", !.gen = r.gen,
                           !.error = IF @ = "" THEN "budget_exhausted" ELSE @]
        ELSE us[u]]

Drained(us) == Active(us) = {} /\ Waiting(us) = {}

Settled(w, us, r, at, B, repair) ==
    LET cancelled == CancelUnits(us, B)
        repaired == IF repair THEN RepairExhausted(us, r) ELSE us
        failing == CancelUnits(repaired, B)
        Outcome(state, rows) == [workload |-> state, unit |-> rows]
    IN  IF w \in {"cancelled", "failed"} THEN Outcome(w, cancelled)
        ELSE IF w \in Completed THEN Outcome(w, us)
        ELSE IF w = "cancel_requested"
             THEN Outcome(IF Drained(cancelled) THEN "cancelled" ELSE w,
                          cancelled)
        ELSE IF w = "needs_attention" THEN Outcome(w, repaired)
        ELSE IF BudgetViolation(r, at) THEN Outcome("needs_attention", us)
        ELSE IF Unanswered(repaired, r) # {}
             THEN Outcome("needs_attention", repaired)
        ELSE IF Untolerated(repaired) # {}
             THEN Outcome(IF Drained(failing) THEN "failed" ELSE w, failing)
        ELSE IF w = "pause_requested" /\ Active(repaired) = {}
             THEN Outcome("paused", repaired)
        ELSE Outcome(w, repaired)

\* The write that ends a transaction: workload state w, rows us and revision
\* facts r, converged by the settlement the code calls before it returns.
Settle(w, us, r, at, repair) ==
    \E B \in Batches(Waiting(us)) :
        LET s == Settled(w, us, r, at, B, repair)
        IN  /\ workload' = s.workload
            /\ unit' = s.unit
            /\ rev' = r

-----------------------------------------------------------------------------
(* Leases.                                                                 *)

Idle == [pc |-> "idle", unit |-> NoUnit, fence |-> 0, manual |-> FALSE,
         deadline |-> 0, mono |-> 0, lost |-> FALSE, stopping |-> FALSE]

\* run_claimed has returned: the worker keeps only its stop flag.
Return(w) == worker' = [worker EXCEPT ![w] =
                            [Idle EXCEPT !.stopping = worker[w].stopping]]

\* Seeded fault: the fence is not compared.
MatchesAnyFence(w) == worker[w].unit \in Units

\* _lease_matches: the unit row still names this worker's attempt and fence.
Matches(w) ==
    /\ worker[w].unit \in Units
    /\ unit[worker[w].unit].active = worker[w].fence
    /\ unit[worker[w].unit].worker = w

\* Seeded fault: active_attempt_id survives the release.
ReleaseKeepsAttempt(row, state, wait, error, token, r) ==
    [state |-> state, active |-> row.active, worker |-> NoWorker,
     lease |-> 0, manual |-> FALSE, wait |-> wait,
     tokens |-> row.tokens + token,
     gen |-> IF state = "needs_attention" THEN r.gen ELSE row.gen,
     error |-> error]

\* The columns that every release of a lease clears, with the disposition of
\* the unit: its next state, retry delay, error class and returned grant.
Release(row, state, wait, error, token, r) ==
    [state |-> state, active |-> 0, worker |-> NoWorker,
     lease |-> 0, manual |-> FALSE, wait |-> wait,
     tokens |-> row.tokens + token,
     gen |-> IF state = "needs_attention" THEN r.gen ELSE row.gen,
     error |-> error]

Promote(us, B) ==
    [u \in Units |->
        IF u \in B
        THEN [us[u] EXCEPT !.state = "pending", !.wait = 0, !.error = ""]
        ELSE us[u]]

Claimable(us, r) ==
    {u \in Units :
        \/ /\ us[u].state = "pending"
           /\ Fence(u) < MaxAttempts \/ us[u].tokens > 0
        \/ us[u].state = "needs_attention" /\ us[u].gen < r.gen}

MayClaim(us) ==
    /\ workload \in {"queued", "running"}
    /\ ~BudgetViolation(rev, 0)
    /\ Untolerated(us) = {}
    /\ Cardinality(Active(us)) < MaxConcurrency

\* Seeded fault: an attention retry also spends a token.
TokenSpentOnAttention(row) == 1

\* A pending unit spends a returned grant, if it has one (token_retry).
TokenSpent(row) == IF row.state = "pending" /\ row.tokens > 0 THEN 1 ELSE 0

\* The claim runs on an owner decision: it answers attention, or spends a
\* returned grant.
ManualRetry(row) ==
    row.state = "needs_attention" \/ (row.state = "pending" /\ row.tokens > 0)

\* The unit row after claim_next gave it to w.
Leased(row, w, fence, r) ==
    [state |-> "leased", active |-> fence, worker |-> w,
     lease |-> LeaseDuration, manual |-> ManualRetry(row), wait |-> 0,
     tokens |-> row.tokens - TokenSpent(row),
     gen |-> IF row.state = "needs_attention" THEN r.gen ELSE row.gen,
     error |-> ""]

\* claim_next with a candidate.  Which ready unit comes first (retry instant,
\* creation, key) is left open.
ClaimNext(w) ==
    /\ worker[w].pc = "idle" /\ ~worker[w].stopping
    /\ LET us == Promote(unit, Due(unit))
       IN  /\ MayClaim(us)
           /\ \E u \in Claimable(us, rev) :
                LET fence == Fence(u) + 1
                IN  /\ fence <= MaxFence
                    /\ attempts' = [attempts EXCEPT ![u] = Append(@, "leased")]
                    /\ unit' = [us EXCEPT ![u] = Leased(@, w, fence, rev)]
                    /\ worker' = [worker EXCEPT ![w] =
                         [Idle EXCEPT !.pc = "claimed", !.unit = u,
                                      !.fence = fence,
                                      !.manual = ManualRetry(us[u])]]
    /\ workload' = "running"
    /\ rev' = Advance(rev, 0)
    /\ UNCHANGED <<result, starts, grants>>

\* claim_next when the chosen model stage cannot reserve its tokens: the
\* workload asks for attention instead of leasing a unit.
ClaimWithoutReservation(w) ==
    /\ worker[w].pc = "idle" /\ ~worker[w].stopping
    /\ LET us == Promote(unit, Due(unit))
       IN  /\ MayClaim(us)
           /\ Claimable(us, rev) \cap ModelUnits # {}
           /\ unit' = us
    /\ workload' = "needs_attention"
    /\ UNCHANGED <<attempts, result, rev, worker, starts, grants>>

\* mark_running applied: from here the adapter runs.
MarkRunning(w) ==
    LET u == worker[w].unit
    IN  /\ worker[w].pc = "claimed"
        /\ Matches(w)
        /\ ~Regressed(rev, 0)
        /\ unit[u].lease > 0
        /\ attempts' = [attempts EXCEPT ![u][worker[w].fence] = "running"]
        /\ unit' = [unit EXCEPT ![u].state = "running",
                                ![u].lease = Least(@, Timeout)]
        /\ rev' = Advance(rev, 0)
        /\ worker' = [worker EXCEPT ![w].pc = "executing",
                                    ![w].deadline = Timeout,
                                    ![w].mono = Timeout]
        /\ starts' = [starts EXCEPT ![u] = @ + 1]
        /\ UNCHANGED <<workload, result, grants>>

\* mark_running returned anything but APPLIED: run_claimed gives up.
StartRefused(w) ==
    /\ worker[w].pc = "claimed"
    /\ \/ ~Matches(w)
       \/ Regressed(rev, 0)
       \/ unit[worker[w].unit].lease <= 0
    /\ Return(w)
    /\ UNCHANGED <<workload, unit, attempts, result, rev, starts, grants>>

\* Seeded fault: the renewal ignores the execution deadline.
RenewedPastDeadline(w) == LeaseDuration

RenewedExpiry(w) == Least(LeaseDuration, worker[w].deadline)

\* The heartbeat thread renews the lease up to the execution deadline.
Heartbeat(w) ==
    LET u == worker[w].unit
        expiry == RenewedExpiry(w)
    IN  /\ worker[w].pc = "executing" /\ ~worker[w].lost
        /\ worker[w].deadline > 0 /\ worker[w].mono > 0
        /\ Matches(w)
        /\ ~Regressed(rev, 0)
        /\ unit[u].lease > 0 /\ unit[u].lease < expiry
        /\ unit' = [unit EXCEPT ![u].lease = expiry]
        /\ rev' = Advance(rev, 0)
        /\ UNCHANGED <<workload, attempts, result, worker, starts, grants>>

\* Any refused or failing renewal: the local result will be discarded.
HeartbeatFails(w) ==
    /\ worker[w].pc = "executing" /\ ~worker[w].lost
    /\ worker[w].deadline > 0 /\ worker[w].mono > 0
    /\ worker' = [worker EXCEPT ![w].lost = TRUE]
    /\ UNCHANGED <<workload, unit, attempts, result, rev, starts, grants>>

-----------------------------------------------------------------------------
(* The end of an execution.                                                *)

Overdue(w) == worker[w].deadline <= 0 \/ worker[w].mono <= 0

\* The unit row after commit_result wrote the result.
Committed(row) == Release(row, "committed", 0, "", 0, rev)

\* The adapter returned a valid result in time and its fence is current.  The
\* monotonic deadline was looked at before this transaction began, so only
\* the wall-clock deadline counts here.
CommitResult(w) ==
    LET u == worker[w].unit
    IN  /\ worker[w].pc = "executing" /\ ~worker[w].lost
        /\ worker[w].deadline > 0
        /\ result[u] = 0
        /\ Matches(w)
        /\ unit[u].state = "running"
        /\ unit[u].lease > 0
        /\ ~BudgetViolation(rev, 0)
        /\ result' = [result EXCEPT ![u] = worker[w].fence]
        /\ attempts' = [attempts EXCEPT ![u][worker[w].fence] = "succeeded"]
        /\ Settle(workload,
                  [unit EXCEPT ![u] = Committed(@)],
                  Advance(rev, 0), 0, FALSE)
        /\ Return(w)
        /\ UNCHANGED <<starts, grants>>

\* Seeded fault: one automatic retry too many is scheduled.
DecideRetryOffByOne(effect, attempt, class, manual) ==
    IF class \in {"budget_exhausted", "executor_unknown"}
    THEN "needs_attention"
    ELSE IF effect \in {"reconcilable", "manual_only"} THEN "needs_attention"
    ELSE IF class \notin RetryableClasses THEN "failed_permanent"
    ELSE IF manual \/ attempt > MaxAttempts THEN "needs_attention"
    ELSE "retry_wait"

\* decide_retry, from the frozen stage contract alone.
DecideRetry(effect, attempt, class, manual) ==
    IF class \in {"budget_exhausted", "capability_unavailable",
                  "publication_ambiguous", "source_missing",
                  "executor_unknown"}
    THEN "needs_attention"
    ELSE IF effect \in {"reconcilable", "manual_only"} THEN "needs_attention"
    ELSE IF class \in {"executor_permanent", "contract_violation",
                       "invalid_plan"}
    THEN "failed_permanent"
    ELSE IF class \notin RetryableClasses THEN "failed_permanent"
    ELSE IF manual \/ attempt >= MaxAttempts THEN "needs_attention"
    ELSE "retry_wait"

\* fail_attempt, called with `now` = wall clock + at.  unknown: the attempt
\* entered a model call that left no exact usage record.
FailAttempt(w, class, ended, at) ==
    LET u == worker[w].unit
    IN  /\ Matches(w)
        /\ unit[u].state = "running"
        /\ \/ unit[u].lease > at
           \/ ended = "timed_out" /\ worker[w].deadline <= at
        /\ \E unknown \in MissingUsage(u) :
             LET state == IF unknown \/ Regressed(rev, at)
                          THEN "needs_attention"
                          ELSE DecideRetry(Effect[u], worker[w].fence, class,
                                           worker[w].manual)
                 wait == IF state = "retry_wait" THEN at + RetryDelay ELSE 0
                 r == Advance([rev EXCEPT !.unknown = @ \/ unknown], at)
             IN  Settle(workload,
                        [unit EXCEPT ![u] =
                            Release(@, state, wait, class, 0, r)],
                        r, at, FALSE)
        /\ attempts' = [attempts EXCEPT ![u][worker[w].fence] = ended]

\* An adapter error, a contract violation or a budget refused by the commit,
\* of an adapter that returned before the deadlines.
RecordFailure(w) ==
    /\ worker[w].pc = "executing" /\ ~worker[w].lost
    /\ \E class \in ErrorClasses, ended \in {"failed", "timed_out"} :
          FailAttempt(w, class, ended, 0)
    /\ Return(w)
    /\ UNCHANGED <<result, starts, grants>>

\* _record_timeout: the failure is recorded no earlier than the deadline,
\* even when the wall clock was set back under the monotonic one.
RecordTimeout(w) ==
    /\ worker[w].pc = "executing" /\ ~worker[w].lost
    /\ Overdue(w)
    /\ FailAttempt(w, "executor_transient", "timed_out",
                   Greatest(0, worker[w].deadline))
    /\ Return(w)
    /\ UNCHANGED <<result, starts, grants>>

\* The result is dropped: the heartbeat lost the lease, or commit_result or
\* fail_attempt answered STALE_FENCE or LEASE_EXPIRED.
DropResult(w) ==
    /\ worker[w].pc = "executing"
    /\ \/ worker[w].lost
       \/ ~Matches(w)
       \/ unit[worker[w].unit].lease <= 0
    /\ Return(w)
    /\ UNCHANGED <<workload, unit, attempts, result, rev, starts, grants>>

\* manual_grant_returned: only while the runner has not started.
GrantReturned(w) ==
    unit[worker[w].unit].state = "leased" /\ worker[w].manual

\* abandon_attempt: only a pure unit may be given back.  A manual grant
\* comes back with it only while the execution has not started.
AbandonAttempt(w) ==
    LET u == worker[w].unit
        before == unit[u].state = "leased"
        returned == GrantReturned(w)
    IN  /\ Matches(w)
        /\ Effect[u] = "pure"
        /\ \E unknown \in IF before THEN {FALSE} ELSE MissingUsage(u) :
             LET retry == /\ worker[w].fence < MaxAttempts \/ returned
                          /\ ~unknown /\ ~Regressed(rev, 0)
                 state == IF ~retry THEN "needs_attention"
                          ELSE IF before THEN "pending" ELSE "retry_wait"
                 error == IF retry THEN "" ELSE "cancelled"
                 r == Advance([rev EXCEPT !.unknown = @ \/ unknown], 0)
             IN  Settle(workload,
                        [unit EXCEPT ![u] =
                            Release(@, state, 0, error,
                                    IF returned THEN 1 ELSE 0, r)],
                        r, 0, FALSE)
        /\ attempts' = [attempts EXCEPT ![u][worker[w].fence] = "abandoned"]

\* run_claimed of a stopping worker: the lease is handed back unstarted, or
\* left to expire when abandon_attempt refuses it.
HandBack(w) ==
    /\ worker[w].pc = "claimed" /\ worker[w].stopping
    /\ \/ AbandonAttempt(w)
       \/ /\ ~Matches(w) \/ Effect[worker[w].unit] # "pure"
          /\ UNCHANGED <<workload, unit, attempts, rev>>
    /\ Return(w)
    /\ UNCHANGED <<result, starts, grants>>

\* abandon_if_shutdown_due: the grace period ended; the adapter, if it still
\* runs, keeps running without a lease.
ShutdownDue(w) ==
    /\ worker[w].pc \in {"claimed", "executing"} /\ worker[w].stopping
    /\ AbandonAttempt(w)
    /\ UNCHANGED <<result, worker, starts, grants>>

RequestStop(w) ==
    /\ ~worker[w].stopping
    /\ worker' = [worker EXCEPT ![w].stopping = TRUE]
    /\ UNCHANGED <<workload, unit, attempts, result, rev, starts, grants>>

\* The process died, or its supervisor replaced it: nothing is remembered.
Restart(w) ==
    /\ worker[w] # Idle
    /\ worker' = [worker EXCEPT ![w] = Idle]
    /\ UNCHANGED <<workload, unit, attempts, result, rev, starts, grants>>

-----------------------------------------------------------------------------
(* Recovery and maintenance, run by every service cycle.                   *)

\* Seeded fault: a lease that expires before its execution is not recovered.
ExpiredForgetsLeased ==
    {u \in Units : unit[u].state = "running" /\ unit[u].lease <= 0}

Expired ==
    {u \in Active(unit) : unit[u].lease <= 0 \/ Regressed(rev, 0)}

\* Seeded fault: an effect that may not be replayed is retried on its own.
ReconciledReplaysEffects(u, r, unknown) ==
    LET row == unit[u]
        before == row.state = "leased"
        spare == Fence(u) < MaxAttempts
        state == IF unknown \/ Regressed(r, 0) \/ ~(spare \/ row.manual)
                 THEN "needs_attention"
                 ELSE IF before THEN "pending"
                 ELSE IF row.manual THEN "needs_attention"
                 ELSE "retry_wait"
        wait == IF state = "retry_wait" THEN row.lease + RetryDelay ELSE 0
    IN  Release(row, state, wait, "lease_lost",
                IF before /\ row.manual THEN 1 ELSE 0, r)

\* One row of reconcile_expired.
Reconciled(u, r, unknown) ==
    LET row == unit[u]
        before == row.state = "leased"
        spare == Fence(u) < MaxAttempts
        state == IF unknown \/ Regressed(r, 0) THEN "needs_attention"
                 ELSE IF before
                 THEN IF spare \/ row.manual
                      THEN "pending" ELSE "needs_attention"
                 ELSE IF \/ Effect[u] \in {"reconcilable", "manual_only"}
                         \/ row.manual
                         \/ ~spare
                 THEN "needs_attention"
                 ELSE "retry_wait"
        wait == IF state = "retry_wait" THEN row.lease + RetryDelay ELSE 0
    IN  Release(row, state, wait, "lease_lost",
                IF before /\ row.manual THEN 1 ELSE 0, r)

ReconciledRows(B, U) ==
    [u \in Units |->
        IF u \in B THEN Reconciled(u, rev, u \in U) ELSE unit[u]]

\* One transaction of reconcile_expired: the expired leases in B, of which the
\* executions in U left no exact model usage, and the due retries in P.
ReconcileBatch(B, U, P) ==
    LET rows == Promote(ReconciledRows(B, U), P)
        r == [rev EXCEPT !.unknown = @ \/ U # {}]
    IN  /\ attempts' = [u \in Units |->
               IF u \in B
               THEN [attempts[u] EXCEPT ![unit[u].active] =
                        IF unit[u].state = "leased"
                        THEN "abandoned" ELSE "timed_out"]
               ELSE attempts[u]]
        /\ \/ B = {} /\ unit' = rows /\ UNCHANGED <<workload, rev>>
           \/ B # {} /\ Settle(workload, rows, Advance(r, 0), 0, FALSE)
        /\ UNCHANGED <<result, worker, starts, grants>>

ReconcileExpired ==
    /\ Expired \cup Due(unit) # {}
    /\ \E B \in Batches(Expired) :
       \E U \in SUBSET {u \in B \cap ModelUnits : unit[u].state = "running"} :
         LET due == Due(ReconciledRows(B, U))
             room == Least(BatchSize - Cardinality(B), Cardinality(due))
         IN  \E P \in {Q \in SUBSET due : Cardinality(Q) = room} :
                ReconcileBatch(B, U, P)

\* settle_workloads: one workload, with the repair of exhausted retries.
SettleWorkloads ==
    /\ workload # "needs_attention"
    /\ Settle(workload, unit, rev, 0, TRUE)
    /\ UNCHANGED <<attempts, result, worker, starts, grants>>

\* Every unit ended in a way that completion accepts.
UnitsAccounted ==
    \A u \in Units :
        \/ unit[u].state = "committed" /\ result[u] # 0
        \/ unit[u].state = "failed_permanent" /\ unit[u].error \in Tolerated

\* Seeded fault: a tolerated failure does not show in the final state.
CompletionStateForgetsFailures == Completed

\* A committed payload may itself report domain errors or a partial output.
CompletionState ==
    IF \E u \in Units : unit[u].state = "failed_permanent"
    THEN {"completed_with_errors"} ELSE Completed

EvaluateCompletion ==
    /\ workload = "running"
    /\ UnitsAccounted
    /\ ~BudgetViolation(rev, 0)
    /\ workload' \in CompletionState
    /\ UNCHANGED <<unit, attempts, result, rev, worker, starts, grants>>

\* complete_ready_workloads, for one workload.  refresh_usage_complete finds
\* the usage incomplete exactly when it is unknown: an ended attempt that
\* entered a model call left an exact record or made the revision unknown.
CompleteReadyWorkloads ==
    /\ \A u \in Units : unit[u].state \in TerminalUnit
    /\ EvaluateCompletion

-----------------------------------------------------------------------------
(* The owner.                                                              *)

\* submit_candidate queues the admitted revision.
Enqueue ==
    /\ workload = "admitted"
    /\ workload' = "queued"
    /\ rev' = EnterState(rev, "queued")
    /\ UNCHANGED <<unit, attempts, result, worker, starts, grants>>

\* _control with a current version.  The drain states settle at once.
Control(command) ==
    /\ workload \in DOMAIN ControlTarget[command]
    /\ LET target == ControlTarget[command][workload]
       IN  IF target \in {"pause_requested", "cancel_requested"}
           THEN Settle(target, unit, rev, 0, FALSE)
           ELSE /\ workload' = target
                /\ rev' = EnterState(rev, target)
                /\ UNCHANGED unit
    /\ UNCHANGED <<attempts, result, worker, starts, grants>>

\* record_attention_resolution, decision "retry": one new grant for every
\* unit that needs attention now.
ResolveRetry ==
    /\ workload = "needs_attention"
    /\ ~\E u \in Units : /\ unit[u].state = "needs_attention"
                         /\ unit[u].error = "budget_exhausted"
    /\ ~BudgetViolation(rev, 0)
    /\ rev.gen < MaxGeneration
    /\ workload' = IF Active(unit) # {} THEN "running" ELSE "queued"
    /\ rev' = EnterState([rev EXCEPT !.gen = @ + 1], workload')
    /\ grants' = [u \in Units |->
                    IF unit[u].state = "needs_attention"
                    THEN grants[u] + 1 ELSE grants[u]]
    /\ UNCHANGED <<unit, attempts, result, worker, starts>>

\* record_attention_resolution, decision "cancel".
ResolveCancel ==
    /\ workload = "needs_attention"
    /\ Settle("cancel_requested", unit, rev, 0, FALSE)
    /\ UNCHANGED <<attempts, result, worker, starts, grants>>

-----------------------------------------------------------------------------
(* The environment.                                                        *)

\* Wall time, tokens, cost or artifacts went over a frozen budget.
SpendBudget ==
    /\ workload \notin TerminalWorkload \cup {"admitted"}
    /\ ~rev.spent
    /\ rev' = [rev EXCEPT !.spent = TRUE]
    /\ UNCHANGED <<workload, unit, attempts, result, worker, starts, grants>>

\* Move every wall-clock timer by d, and the monotonic ones by m.
Shift(d, m) ==
    LET Move(t, by) == Greatest(t + by, -Horizon)
    IN  /\ unit' = [u \in Units |->
              [unit[u] EXCEPT
                  !.lease = IF u \in Active(unit) THEN Move(@, d) ELSE @,
                  !.wait = IF unit[u].state = "retry_wait"
                           THEN Move(@, d) ELSE @]]
        /\ worker' = [w \in Workers |->
              IF worker[w].pc = "executing"
              THEN [worker[w] EXCEPT !.deadline = Move(@, d),
                                     !.mono = Greatest(@ + m, 0)]
              ELSE worker[w]]
        /\ rev' = [rev EXCEPT !.skew = Move(@, d)]

Tick ==
    /\ Shift(-1, -1)
    /\ UNCHANGED <<workload, attempts, result, starts, grants>>

JumpBack(d) ==
    /\ rev.skew + d <= MaxSkew
    /\ Shift(d, 0)
    /\ UNCHANGED <<workload, attempts, result, starts, grants>>

-----------------------------------------------------------------------------
Init ==
    /\ workload = "admitted"
    /\ unit = [u \in Units |->
                 [state |-> "pending", active |-> 0, worker |-> NoWorker,
                  lease |-> 0, manual |-> FALSE, wait |-> 0, tokens |-> 0,
                  gen |-> 0, error |-> ""]]
    /\ attempts = [u \in Units |-> <<>>]
    /\ result = [u \in Units |-> 0]
    /\ rev = [gen |-> 0, unknown |-> FALSE, spent |-> FALSE, skew |-> 0]
    /\ worker = [w \in Workers |-> Idle]
    /\ starts = [u \in Units |-> 0]
    /\ grants = [u \in Units |-> 0]

WorkerStep(w) ==
    \/ ClaimNext(w) \/ ClaimWithoutReservation(w)
    \/ MarkRunning(w) \/ StartRefused(w)
    \/ Heartbeat(w) \/ HeartbeatFails(w)
    \/ CommitResult(w) \/ RecordFailure(w) \/ RecordTimeout(w)
    \/ DropResult(w) \/ HandBack(w) \/ ShutdownDue(w)
    \/ RequestStop(w) \/ Restart(w)

Owner ==
    \/ Enqueue
    \/ \E command \in {"pause", "resume", "cancel"} : Control(command)
    \/ ResolveRetry \/ ResolveCancel

Service == ReconcileExpired \/ SettleWorkloads \/ CompleteReadyWorkloads

Environment == SpendBudget \/ Tick \/ \E d \in Jumps : JumpBack(d)

Next == (\E w \in Workers : WorkerStep(w)) \/ Owner \/ Service \/ Environment

Spec == Init /\ [][Next]_vars

(***************************************************************************)
(* Fairness.  A running service repeats its cycle (reconcile, settle,      *)
(* complete) and time passes; a lane that got a lease starts it and, once  *)
(* the deadline has passed, comes back; a stopped lane is replaced.  Nothing*)
(* is assumed of the owner, of the adapters' outcomes or of failures.      *)
(***************************************************************************)
Fairness ==
    /\ WF_vars(Tick)
    /\ WF_vars(ReconcileExpired)
    /\ WF_vars(SettleWorkloads)
    /\ WF_vars(CompleteReadyWorkloads)
    /\ \A w \in Workers :
          /\ WF_vars(MarkRunning(w) \/ StartRefused(w))
          /\ WF_vars(RecordTimeout(w) \/ DropResult(w))
          /\ WF_vars(worker[w].stopping /\ Restart(w))

FairSpec == Spec /\ Fairness

-----------------------------------------------------------------------------
(* Safety.                                                                 *)

\* units.error_class: what an adapter reported, or what the engine decided.
ErrorClass ==
    ErrorClasses \cup {"", "executor_transient", "budget_exhausted",
                      "lease_lost", "cancelled"}

UnitRow ==
    [state : UnitState, active : Nat, worker : Workers \cup {NoWorker},
     lease : Int, manual : BOOLEAN, wait : Int, tokens : Nat, gen : Nat,
     error : ErrorClass]

WorkerRow ==
    [pc : {"idle", "claimed", "executing"}, unit : Units \cup {NoUnit},
     fence : Nat, manual : BOOLEAN, deadline : Int, mono : Nat,
     lost : BOOLEAN, stopping : BOOLEAN]

RevisionRow == [gen : Nat, unknown : BOOLEAN, spent : BOOLEAN, skew : Int]

\* Every column holds a value of its domain.
TypeOK ==
    /\ workload \in WorkloadState
    /\ unit \in [Units -> UnitRow]
    /\ attempts \in [Units -> Seq(AttemptState)]
    /\ result \in [Units -> Nat]
    /\ rev \in RevisionRow
    /\ worker \in [Workers -> WorkerRow]
    /\ starts \in [Units -> Nat]
    /\ grants \in [Units -> Nat]

\* An active unit is held by exactly its newest attempt, in the same state;
\* every other attempt of any unit has ended (lease fencing).
LeaseConsistent ==
    \A u \in Units :
        /\ u \in Active(unit) =>
              /\ unit[u].active = Fence(u)
              /\ unit[u].active > 0
              /\ unit[u].worker # NoWorker
              /\ attempts[u][Fence(u)] = unit[u].state
        /\ u \notin Active(unit) =>
              unit[u].active = 0 /\ unit[u].worker = NoWorker
        /\ \A f \in 1..Fence(u) :
              attempts[u][f] \in LiveAttempt =>
                  f = Fence(u) /\ u \in Active(unit)

\* A committed unit has the result of its newest attempt, the only one that
\* succeeded; no other unit has a result (commit_result is fenced).
ResultFromNewestAttempt ==
    \A u \in Units :
        /\ (unit[u].state = "committed") <=> (result[u] # 0)
        /\ result[u] # 0 => result[u] = Fence(u)
        /\ \A f \in 1..Fence(u) :
              attempts[u][f] = "succeeded" <=> f = result[u]

\* An execution starts only within the automatic retry budget or by an owner
\* decision taken while that very unit needed attention; an effect that may
\* not be replayed is never started again without one.
StartsAuthorised ==
    \A u \in Units :
        /\ starts[u] <= MaxAttempts + grants[u]
        /\ Effect[u] \in {"reconcilable", "manual_only"} =>
              starts[u] <= 1 + grants[u]

\* A lease never outlives the clock that granted it by more than its
\* duration, nor, once the execution started, the frozen deadline.
LeaseBounded ==
    /\ \A u \in Active(unit) :
          unit[u].lease <= LeaseDuration + Greatest(rev.skew, 0)
    /\ \A w \in Workers :
          worker[w].pc = "executing" /\ Matches(w) =>
              unit[worker[w].unit].lease <= worker[w].deadline

\* A workload that is not working has no unit in a worker's hands.
QuietStatesQuiet ==
    workload \in TerminalWorkload \cup {"admitted", "queued", "paused"} =>
        Active(unit) = {}

\* A cancelled or failed workload left no unit that could still be claimed.
StoppedIsDrained ==
    workload \in {"cancelled", "failed"} =>
        \A u \in Units : unit[u].state \in TerminalUnit

\* Completion means what it says: every unit committed its result, or failed
\* in a way the plan declared tolerable and the final state admits it.
CompletionSound ==
    /\ workload = "completed" =>
          \A u \in Units : unit[u].state = "committed" /\ result[u] # 0
    /\ workload = "completed_with_errors" =>
          \A u \in Units : \/ unit[u].state = "committed" /\ result[u] # 0
                           \/ /\ unit[u].state = "failed_permanent"
                              /\ unit[u].error \in Tolerated

\* The workload state never contradicts its units: a state that is not at
\* work holds no lease, a stopped one leaves nothing behind, and a completed
\* one has accounted for every unit.
StatesMeanIt == QuietStatesQuiet /\ StoppedIsDrained /\ CompletionSound

\* No unit waits for the owner behind the owner's back: an unanswered
\* attention fact always shows in the workload state.
AttentionSurfaced ==
    (\E u \in Units : unit[u].state = "needs_attention"
                      /\ unit[u].gen >= rev.gen) =>
        workload \in {"needs_attention", "cancel_requested"}

\* A pending unit can always be claimed, so the repair of exhausted units
\* has nothing to repair.
PendingIsClaimable == Exhausted(unit) = {}

\* No unit is stranded between the claim, which takes pending units, and the
\* owner, who is told of units that need attention.
NothingStranded == PendingIsClaimable /\ AttentionSurfaced

-----------------------------------------------------------------------------
(* Action properties.                                                      *)

\* The settlement that every transaction ends with never derives a state
\* change the workload graph forbids (it would roll the transaction back): a
\* step is one edge, or an owner's request and the edge that settles it.
TransitionsLegal ==
    [][\/ workload' = workload
       \/ workload' \in WorkloadTransitions[workload]
       \/ \E request \in {"pause_requested", "cancel_requested"} :
             /\ request \in WorkloadTransitions[workload]
             /\ workload' \in WorkloadTransitions[request]]_vars

\* A result is final, and the attempt that wrote it was running under an
\* unexpired lease that no newer attempt had replaced.
ResultsFinal ==
    [][\A u \in Units :
          result'[u] # result[u] =>
             /\ result[u] = 0
             /\ unit[u].state = "running" /\ unit[u].lease > 0
             /\ result'[u] = Len(attempts'[u])]_vars

\* What is over stays over: no late start, answer, hand-back or recovery, of
\* whatever worker, touches the attempts or results of a workload that is
\* paused or has ended, although none of them looks at the workload state;
\* and a workload whose model usage one lane has lost is never completed by
\* what the other lanes finish.
OverIsOver ==
    [][/\ workload \in TerminalWorkload \cup {"paused"} =>
             UNCHANGED <<attempts, result, starts>>
       /\ rev.unknown => workload' \notin Completed]_vars

\* A unit moves along the graph of models.py, and late answers, expiries and
\* restarts never move it any other way.  Where due retries are promoted, one
\* transaction takes two edges at once (reconcile_expired from running,
\* claim_next to leased), and an owner's decision is leased without passing
\* through pending.
UnitTransitionsLegal ==
    [][\A u \in Units :
          LET from == unit[u].state
              to == unit'[u].state
          IN  from # to =>
                 \/ to \in UnitTransitions[from]
                 \/ from = "retry_wait" /\ to = "leased" /\ unit[u].wait <= 0
                 \/ from = "running" /\ to = "pending" /\ unit[u].lease <= 0
                 \/ /\ from = "needs_attention" /\ to = "leased"
                    /\ unit[u].gen < rev.gen]_vars

-----------------------------------------------------------------------------
(* Liveness.                                                               *)

\* A cancellation always ends, whatever the workers do.
CancelEnds == workload = "cancel_requested" ~> workload = "cancelled"

\* A pause request never hangs.
PauseEnds == workload = "pause_requested" ~> workload # "pause_requested"

\* A unit in a worker's hands always leaves them.
LeasesEnd == \A u \in Units : u \in Active(unit) ~> u \notin Active(unit)

\* Whatever was asked to stop stops, and whatever is held is let go, although
\* a worker may never report back.
StopsEnd == CancelEnds /\ PauseEnds /\ LeasesEnd

\* A workload whose durable graph is terminal is evaluated
\* (complete_ready_workloads says so of itself): when every unit has ended and
\* the owner has not stopped the workload, it does not stay queued or running
\* for ever while its budgets last.
FinishedIsEvaluated ==
    (/\ workload \in {"queued", "running"}
     /\ \A u \in Units : unit[u].state \in TerminalUnit)
    ~> (workload \notin {"queued", "running"} \/ BudgetViolation(rev, 0))
=============================================================================
