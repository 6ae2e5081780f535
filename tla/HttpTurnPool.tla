---------------------------- MODULE HttpTurnPool ----------------------------
(***************************************************************************)
(* Admission of blocking turns by the HTTP server (http_turn_pool.py and   *)
(* its callers in http_routes_agent.py).  A request takes a permit of the  *)
(* whole pool, then one of its principal's gate, and only then submits its *)
(* turn to the executor.  A client that goes away cancels the coroutine,   *)
(* never the thread, so the permits stay taken until the thread has ended. *)
(*                                                                         *)
(* The event loop runs one coroutine at a time: what happens between two   *)
(* awaits is one action.  Threads start and end beside it.  Which of the   *)
(* waiting requests a freed permit goes to is left open.                   *)
(***************************************************************************)
EXTENDS Integers, FiniteSets

CONSTANTS
    Turns,         \* requests that ask for a turn
    Principals,    \* whoever they belong to
    Owner,         \* the principal of each request
    Workers,       \* threads of the executor
    QueueSlots,    \* queue_slots
    PerPrincipal,  \* per_principal
    NoGate         \* a principal that has no gate, a request without one

ASSUME PoolAssumption ==
    /\ IsFiniteSet(Turns)
    /\ Owner \in [Turns -> Principals]
    /\ Workers \in Nat \ {0}
    /\ QueueSlots \in Nat
    /\ PerPrincipal \in Nat \ {0}
    /\ NoGate \notin Turns

VARIABLES
    turn,     \* each request: where its coroutine is, and its gate
    job,      \* each request's future in the executor
    gates,    \* _PrincipalGate objects, named by the request that made them
    current,  \* _principals: the gate of each principal
    free,     \* permits left in the global semaphore
    closed    \* close() was called

vars == <<turn, job, gates, current, free, closed>>

Capacity == Workers + QueueSlots

-----------------------------------------------------------------------------
(* Gates.                                                                  *)

\* gate.users += 1.
Entered(g) == [g EXCEPT !.users = @ + 1]

NewGate == [users |-> 0, free |-> PerPrincipal]

\* Seeded fault: the gate is forgotten although others still use it.
LastUserAlways(users) == TRUE

LastUser(users) == users = 0

\* _release_principal, with the gate's permit where the request has one.
Leaves(t, permit) ==
    LET g == turn[t].gate
        p == Owner[t]
        left == gates[g].users - 1
    IN  /\ gates' = [gates EXCEPT ![g] = [users |-> left,
                                          free |-> @.free + permit]]
        /\ current' = IF LastUser(left) /\ current[p] = g
                      THEN [current EXCEPT ![p] = NoGate] ELSE current

Goto(t, pc) == turn' = [turn EXCEPT ![t].pc = pc]

\* release: both permits go back, once.
Release(t) ==
    /\ free' = free + 1
    /\ Leaves(t, 1)
    /\ Goto(t, "done")

-----------------------------------------------------------------------------
(* reserve.                                                                *)

\* The principal's gate is found or made.
Reserve(t) ==
    /\ turn[t].pc = "new"
    /\ IF closed
       THEN Goto(t, "done") /\ UNCHANGED <<gates, current>>
       ELSE LET made == current[Owner[t]] = NoGate
                g == IF made THEN t ELSE current[Owner[t]]
            IN  /\ gates' = [gates EXCEPT ![g] =
                                Entered(IF made THEN NewGate ELSE @)]
                /\ current' = [current EXCEPT ![Owner[t]] = g]
                /\ turn' = [turn EXCEPT ![t] = [pc |-> "global", gate |-> g]]
    /\ UNCHANGED <<job, free, closed>>

AcquireGlobal(t) ==
    /\ turn[t].pc = "global"
    /\ free > 0
    /\ free' = free - 1
    /\ Goto(t, "gate")
    /\ UNCHANGED <<job, gates, current, closed>>

\* The wait for the pool times out or is cancelled.
GiveUpGlobal(t) ==
    /\ turn[t].pc = "global"
    /\ Leaves(t, 0)
    /\ Goto(t, "done")
    /\ UNCHANGED <<job, free, closed>>

AcquireGate(t) ==
    /\ turn[t].pc = "gate"
    /\ gates[turn[t].gate].free > 0
    /\ gates' = [gates EXCEPT ![turn[t].gate].free = @ - 1]
    /\ Goto(t, "held")
    /\ UNCHANGED <<job, current, free, closed>>

\* Seeded fault: the permit of the pool is kept.
GivenBackNothing == 0

\* self._global.release() of a request that has no reservation yet.
GivenBack == 1

\* The wait for the principal's gate times out or is cancelled.
GiveUpGate(t) ==
    /\ turn[t].pc = "gate"
    /\ free' = free + GivenBack
    /\ Leaves(t, 0)
    /\ Goto(t, "done")
    /\ UNCHANGED <<job, closed>>

-----------------------------------------------------------------------------
(* Between reserve and run_reserved.                                       *)

\* The request is answered without a turn, or fails: its handler's finally
\* block releases the reservation (dialog_submit, turn_submit).
ReleaseUnused(t) ==
    /\ turn[t].pc = "held"
    /\ Release(t)
    /\ UNCHANGED <<job, closed>>

\* The head of an event stream cannot be written: _turn_sse leaves without
\* having started the turn, and nobody releases its reservation.
PrepareFails(t) ==
    /\ turn[t].pc = "held"
    /\ Goto(t, "lost")
    /\ UNCHANGED <<job, gates, current, free, closed>>

-----------------------------------------------------------------------------
(* run_reserved and the executor.                                          *)

\* submit: a closed executor refuses, and the reservation is released.
Submit(t) ==
    /\ turn[t].pc = "held"
    /\ IF closed
       THEN Release(t) /\ UNCHANGED job
       ELSE /\ job' = [job EXCEPT ![t] = "queued"]
            /\ Goto(t, "submitted")
            /\ UNCHANGED <<gates, current, free>>
    /\ UNCHANGED closed

Executing == {t \in Turns : job[t] = "running"}

Start(t) ==
    /\ job[t] = "queued"
    /\ Cardinality(Executing) < Workers
    /\ job' = [job EXCEPT ![t] = "running"]
    /\ UNCHANGED <<turn, gates, current, free, closed>>

End(t) ==
    /\ job[t] = "running"
    /\ job' = [job EXCEPT ![t] = "ended"]
    /\ UNCHANGED <<turn, gates, current, free, closed>>

\* The coroutine resumes with the result, or with the turn's exception.
Return(t) ==
    /\ turn[t].pc = "submitted"
    /\ job[t] = "ended"
    /\ Release(t)
    /\ UNCHANGED <<job, closed>>

\* CancelledError: the client went away, or close() cancelled the future.
Cancelled(t) ==
    /\ turn[t].pc = "submitted"
    /\ Goto(t, "left")
    /\ UNCHANGED <<job, gates, current, free, closed>>

\* Seeded fault: a future that was cancelled has no callback.
FutureDoneByEnd(t) == job[t] = "ended"

\* When add_done_callback's function runs.
FutureDone(t) == job[t] \in {"ended", "cancelled"}

\* _release_when_done, called back on the loop.
ReleaseWhenDone(t) ==
    /\ turn[t].pc = "left"
    /\ FutureDone(t)
    /\ Release(t)
    /\ UNCHANGED <<job, closed>>

\* close: queued futures are cancelled, running ones go on.
Close ==
    /\ ~closed
    /\ closed' = TRUE
    /\ job' = [t \in Turns |-> IF job[t] = "queued" THEN "cancelled"
                               ELSE job[t]]
    /\ UNCHANGED <<turn, gates, current, free>>

-----------------------------------------------------------------------------
Init ==
    /\ turn = [t \in Turns |-> [pc |-> "new", gate |-> NoGate]]
    /\ job = [t \in Turns |-> "none"]
    /\ gates = [t \in Turns |-> NewGate]
    /\ current = [p \in Principals |-> NoGate]
    /\ free = Capacity
    /\ closed = FALSE

\* The coroutine of t goes on when it can.
Proceed(t) ==
    \/ AcquireGlobal(t) \/ GiveUpGlobal(t) \/ AcquireGate(t) \/ GiveUpGate(t)
    \/ ReleaseUnused(t) \/ Submit(t) \/ Return(t) \/ ReleaseWhenDone(t)

Next ==
    \/ \E t \in Turns : Reserve(t) \/ Proceed(t) \/ PrepareFails(t)
                        \/ Cancelled(t) \/ Start(t) \/ End(t)
    \/ Close

Spec == Init /\ [][Next]_vars

(***************************************************************************)
(* Fairness.  The loop runs what is ready, waits for permits are bounded   *)
(* by admission_timeout_s, idle workers take queued futures, turns end,    *)
(* and the coroutine of a future that close() cancelled is told so.        *)
(***************************************************************************)
Fairness ==
    \A t \in Turns :
        /\ WF_vars(Proceed(t))
        /\ WF_vars(Start(t))
        /\ WF_vars(End(t))
        /\ WF_vars(job[t] = "cancelled" /\ Cancelled(t))

FairSpec == Spec /\ Fairness

-----------------------------------------------------------------------------
(* Properties.                                                             *)

\* A gate counts its users and its permits within their ranges: neither
\* BoundedSemaphore is ever released beyond its initial value.
TypeOK ==
    /\ turn \in [Turns -> [pc : {"new", "global", "gate", "held", "lost",
                                 "submitted", "left", "done"},
                           gate : Turns \cup {NoGate}]]
    /\ job \in [Turns -> {"none", "queued", "running", "ended", "cancelled"}]
    /\ gates \in [Turns -> [users : 0..Cardinality(Turns),
                            free : 0..PerPrincipal]]
    /\ current \in [Principals -> Turns \cup {NoGate}]
    /\ free \in 0..Capacity
    /\ closed \in BOOLEAN

\* The executor never has more work than its threads and queue slots, those
\* turns included whose clients have gone away.
CapacityKept ==
    Cardinality({t \in Turns : job[t] \in {"queued", "running"}}) <= Capacity

\* No principal has more turns in the executor than its share, although its
\* gate is forgotten and made anew in between.
ShareKept ==
    \A p \in Principals :
        Cardinality({t \in Turns : /\ Owner[t] = p
                                   /\ job[t] \in {"queued", "running"}})
            <= PerPrincipal

\* Neither limit is exceeded, by threads nobody waits for any more either.
LimitsKept == CapacityKept /\ ShareKept

\* Requests that hold a permit of the pool.
Holders == {t \in Turns : turn[t].pc \in {"gate", "held", "lost", "submitted",
                                          "left"}}

\* No permit is dropped or made up: those that are not free are held by the
\* requests that are still on their way, through every timeout and
\* cancellation, or by an event stream whose head could not be written, which
\* is over and keeps its permits (pc "lost").
PermitsAccounted ==
    /\ free + Cardinality(Holders) = Capacity
    /\ \A p \in Principals : current[p] # NoGate =>
          gates[current[p]].free
              + Cardinality({t \in Holders : /\ Owner[t] = p
                                             /\ turn[t].pc # "gate"})
              = PerPrincipal

\* The pool remembers exactly the principals with a request on its way or
\* with such a stream, so arbitrary principals cannot make it grow.
GatesPruned ==
    \A p \in Principals :
        current[p] # NoGate <=>
            \E t \in Turns : Owner[t] = p /\ turn[t].pc \notin {"new", "done"}

\* Permits and gates always match the requests that have not given them back.
Accounted == TypeOK /\ PermitsAccounted /\ GatesPruned

\* Every request ends and gives its permits back, when its client has gone
\* and when the pool is closed under it, too.  An event stream whose head
\* could not be written is excepted: its permits are lost.
PermitsReturn ==
    \A t \in Turns : turn[t].pc # "new" ~> turn[t].pc \in {"done", "lost"}
=============================================================================
