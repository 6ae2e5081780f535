------------------------------ MODULE SchedulerV2 ------------------------------
(***************************************************************************)
(* The scheduler that is co-hosted with the HTTP server (scheduler_v2):    *)
(* one asyncio loop fetches the due entries, fires them all, waits for all *)
(* of them and sleeps until the next one; clients in this and in other     *)
(* processes write the same table in between.                              *)
(*                                                                         *)
(* A fire works on the copy of the row that was fetched.  Between two      *)
(* awaits the loop is not interrupted, but other processes write in        *)
(* between: reading the table at boot, each row that boot recovers,        *)
(* fetching, the start and the end of a fire are actions.  The process may *)
(* die at any point.  next is next_fire_at - now.                          *)
(***************************************************************************)
EXTENDS Integers, FiniteSets

CONSTANTS
    Names,         \* entry names
    Recurring,     \* names of recurring entries; the others are one-shot
    Times,         \* declared number of runs of a recurring entry, 0: unlimited
    Restricted,    \* names with a weekday filter or an expiry
    Sync,          \* names whose callback runs in a thread of the pool
    TimedOut,      \* names with a timeout_s
    Ops,           \* the client operations that occur
    Period,        \* the time from one slot of a trigger to the next
    Grace,         \* grace_window_s
    BreakAfter,    \* _CIRCUIT_BREAK_AFTER
    RetryBase, RetryMax,  \* _RETRY_BASE_S and _RETRY_MAX_S
    MaxSleep,      \* _MAX_SLEEP_S
    MaxConcurrent, \* max_concurrent
    MaxOps,        \* bound: client calls
    MaxMishaps,    \* bound: deaths and failed writes together
    MaxRuns,       \* bound: runs of one entry that are told apart
    MaxId          \* bound: ids of the table

ASSUME TimingAssumption ==
    /\ Period \in Nat \ {0} /\ Grace \in Nat /\ MaxSleep \in Nat \ {0}
    /\ BreakAfter \in Nat \ {0}
    /\ RetryBase \in Nat /\ RetryMax \in Nat
    /\ MaxConcurrent \in Nat \ {0}
    /\ MaxRuns \in Nat \ {0}
ASSUME NamesAssumption ==
    /\ "" \notin Names /\ IsFiniteSet(Names)
    /\ MaxId \in Nat /\ Cardinality(Names) <= MaxId
    /\ Recurring \cup Restricted \cup Sync \cup TimedOut \subseteq Names
    /\ Times \in [Names -> 0..MaxRuns]
    /\ Ops \subseteq {"add", "again", "delete", "disable", "enable", "run_now", "stop"}

VARIABLES
    rows,     \* schedule_entries by id
    runs,     \* rows of the runs table that are 'running', by entry id
    loop,     \* the loop: where it is, its sleep and its wake event
    fires,    \* what boot or the batch has in hand, by entry id
    running,  \* _running: in-flight count by entry id
    threads,  \* callbacks that execute, by name
    used      \* client calls, crashes and faults so far

vars == <<rows, runs, loop, fires, running, threads, used>>

Ids == 1..MaxId

-----------------------------------------------------------------------------
(* Entries.                                                                *)

\* A missing row has the name of none.
Here(i) == rows[i].name \in Names

IdOf(n) == {i \in Ids : rows[i].name = n}

Empty == [name |-> "", enabled |-> FALSE, next |-> 0, remaining |-> 0,
          total |-> 0, failures |-> 0, ran |-> 0, stopped |-> FALSE,
          allowed |-> 0, inherited |-> FALSE]

\* What a client registers.  The last four are history: the runs of this
\* registration, whether the owner, a filter or a missed slot ended it, the
\* runs that it may have, and whether the loop had a copy of an earlier
\* registration in hand on its id.
NewRow(n) ==
    [Empty EXCEPT !.name = n, !.enabled = TRUE, !.next = Period,
                  !.remaining = Times[n], !.allowed = Times[n]]

\* INTEGER PRIMARY KEY: one more than the largest id in the table.
NextId ==
    LET S == {i \in Ids : Here(i)}
    IN  IF S = {} THEN 1 ELSE 1 + CHOOSE i \in S : \A j \in S : j <= i

Due(i) == rows[i].enabled /\ rows[i].next <= 0

Advanced(row) == [row EXCEPT !.next = Period]

Disabled(row) == [row EXCEPT !.enabled = FALSE]

\* UPDATE ... WHERE id=?: nothing happens when the row is gone.
Update(i, row) == rows' = IF Here(i) THEN [rows EXCEPT ![i] = row] ELSE rows

-----------------------------------------------------------------------------
(* The loop.                                                               *)

NoFire == [pc |-> "none", copy |-> Empty]

InFlight(i) == fires[i].pc # "none"

Start ==
    /\ loop.pc = "off"
    /\ loop' = [loop EXCEPT !.pc = "boot"]
    /\ UNCHANGED <<rows, runs, fires, running, threads, used>>

\* Seeded fault: the runs that a crash interrupted stay 'running'.
CrashedRunsKept == runs

\* mark_crashed_runs.
CrashedRuns == [i \in Ids |-> 0]

\* The slot is older than the grace window.
Missed(row) == row.enabled /\ -row.next > Grace

\* mark_crashed_runs, and list_all in _recover_missed.
Boot ==
    /\ loop.pc = "boot"
    /\ runs' = CrashedRuns
    /\ fires' = [i \in Ids |-> IF Missed(rows[i])
                    THEN [pc |-> "missed", copy |-> rows[i]] ELSE NoFire]
    /\ loop' = [loop EXCEPT !.pc = "recover"]
    /\ UNCHANGED <<rows, running, threads, used>>

\* _recover_missed, for one entry: no run for a slot that was missed.
Recover(i) ==
    LET copy == fires[i].copy
    IN  /\ fires[i].pc = "missed"
        /\ Update(i, IF copy.name \in Recurring THEN Advanced(rows[i])
                     ELSE [Disabled(rows[i]) EXCEPT !.stopped = -copy.next > Grace])
        /\ fires' = [fires EXCEPT ![i] = NoFire]
        /\ UNCHANGED <<runs, loop, running, threads, used>>

\* The last entry is recovered.
Recovered ==
    /\ loop.pc = "recover"
    /\ \A i \in Ids : ~InFlight(i)
    /\ loop' = [loop EXCEPT !.pc = "fetch"]
    /\ UNCHANGED <<rows, runs, fires, running, threads, used>>

\* fetch_due.
Fetch ==
    /\ loop.pc = "fetch"
    /\ fires' = [i \in Ids |-> IF Due(i)
                    THEN [pc |-> "fetched", copy |-> rows[i]] ELSE NoFire]
    /\ loop' = [loop EXCEPT !.pc = "gather"]
    /\ UNCHANGED <<rows, runs, running, threads, used>>

\* The weekday and expiry filters: the slot is passed over, or the entry ends.
Filter(i) ==
    /\ fires[i].pc = "fetched"
    /\ fires[i].copy.name \in Restricted
    /\ LET over == [Disabled(rows[i]) EXCEPT !.stopped = TRUE]
       IN  \/ Update(i, IF fires[i].copy.name \in Recurring
                        THEN Advanced(rows[i]) ELSE over)
           \/ Update(i, over)
    /\ fires' = [fires EXCEPT ![i] = NoFire]
    /\ UNCHANGED <<runs, loop, running, threads, used>>

\* The countdown for a finite entry that was fetched without one, or 0.
Inferred(copy) ==
    LET times == Times[copy.name]
    IN  IF copy.name \notin Recurring \/ copy.remaining > 0 \/ times = 0 THEN 0
        ELSE IF times - copy.total > 1 THEN times - copy.total ELSE 1

\* initialize_remaining_runs: UPDATE ... WHERE id=? AND remaining_runs=0.
\* The copy gets the countdown only if the row did.
Initialized(i) ==
    IF Here(i) /\ rows[i].remaining = 0 THEN Inferred(fires[i].copy) ELSE 0

\* The row when a run of n starts: the run is one of this registration.
Began(row, n, left) ==
    LET counted == [row EXCEPT !.remaining = @ + left]
    IN  IF row.name # n THEN counted
        ELSE [counted EXCEPT !.ran = IF @ < MaxRuns THEN @ + 1 ELSE @]

\* The re-entrancy lock, begin_run and the start of the callback; an update
\* of a row that was deleted meanwhile changes nothing.
Fire(i) ==
    LET copy == fires[i].copy
        n == copy.name
        left == Initialized(i)
    IN  /\ fires[i].pc = "fetched"
        /\ IF running[i] >= MaxConcurrent
           THEN /\ Update(i, IF n \in Recurring
                             THEN Advanced(rows[i]) ELSE rows[i])
                /\ fires' = [fires EXCEPT ![i] = NoFire]
                /\ UNCHANGED <<runs, running, threads>>
           ELSE /\ running' = [running EXCEPT ![i] = @ + 1]
                /\ runs' = [runs EXCEPT ![i] = @ + 1]
                /\ threads' = [threads EXCEPT ![n] = @ + 1]
                /\ fires' = [fires EXCEPT ![i] =
                                [pc |-> "run",
                                 copy |-> [copy EXCEPT !.remaining = @ + left]]]
                /\ Update(i, Began(rows[i], n, left))
        /\ UNCHANGED <<loop, used>>

Failed(status) == status \in {"error", "timeout"}

\* _retry_cooldown_s.
Cooldown(failures) ==
    LET steps == failures - BreakAfter
        wait == RetryBase * 2 ^ (IF steps > 0 THEN steps ELSE 0)
    IN  IF wait \in 0..RetryMax THEN wait ELSE RetryMax

\* Seeded fault: the end of a countdown does not switch the entry off.
LastRunOneShot(copy) == copy.name \notin Recurring

\* A one-shot entry, or the last run of a countdown.
LastRun(copy) == copy.name \notin Recurring \/ copy.remaining = 1

\* The next slot, put off after repeated failures of a recurring entry.
NextSlot(copy, status) ==
    IF /\ Failed(status) /\ ~LastRun(copy)
       /\ copy.failures + 1 >= BreakAfter
       /\ Cooldown(copy.failures + 1) > Period
    THEN Cooldown(copy.failures + 1) ELSE Period

\* record_outcome, addressed by id.
Outcome(row, copy, status) ==
    [row EXCEPT
        !.total = IF @ < MaxRuns THEN @ + 1 ELSE @,
        !.failures = IF ~Failed(status) THEN 0
                     ELSE IF @ < MaxRuns THEN @ + 1 ELSE @,
        !.remaining = IF copy.name \in Recurring /\ @ > 0 /\ copy.remaining > 0
                      THEN @ - 1 ELSE @,
        !.next = IF copy.name \in Recurring THEN NextSlot(copy, status) ELSE @,
        !.enabled = @ /\ ~LastRun(copy)]

\* end_run, record_outcome and the release of the re-entrancy lock.
Finish(i, status) ==
    /\ fires[i].pc = "run"
    /\ runs' = [runs EXCEPT ![i] = @ - 1]
    /\ Update(i, Outcome(rows[i], fires[i].copy, status))
    /\ running' = [running EXCEPT ![i] = @ - 1]
    /\ fires' = [fires EXCEPT ![i] = NoFire]
    /\ UNCHANGED <<loop, used>>

\* The callback returns.
Return(i) ==
    /\ \E status \in {"success", "partial", "error"} : Finish(i, status)
    /\ threads' = [threads EXCEPT ![fires[i].copy.name] = @ - 1]

\* A callback that cancellation does not reach: its thread goes on.
Survives(n) == n \in Sync

\* wait_for gives up on the callback and cancels it.
Timeout(i) ==
    /\ fires[i].pc = "run"
    /\ fires[i].copy.name \in TimedOut
    /\ Finish(i, "timeout")
    /\ threads' = IF Survives(fires[i].copy.name) THEN threads
                  ELSE [threads EXCEPT ![fires[i].copy.name] = @ - 1]

\* A thread that nobody waits for any more ends.
ThreadEnds(n) ==
    /\ threads[n] > Cardinality({i \in Ids : /\ fires[i].pc = "run"
                                             /\ fires[i].copy.name = n})
    /\ threads' = [threads EXCEPT ![n] = @ - 1]
    /\ UNCHANGED <<rows, runs, loop, fires, running, used>>

\* end_run raises (the database stays locked): gather swallows it, and what
\* follows in the finally block is not executed.
WriteFails(i) ==
    /\ fires[i].pc = "run"
    /\ used.crashes + used.faults < MaxMishaps
    /\ used' = [used EXCEPT !.faults = @ + 1]
    /\ fires' = [fires EXCEPT ![i] = NoFire]
    /\ threads' = [threads EXCEPT ![fires[i].copy.name] = @ - 1]
    /\ UNCHANGED <<rows, runs, loop, running>>

\* Seeded fault: without an entry the loop sleeps without a limit.
SleepForEver ==
    LET S == {rows[i].next : i \in {j \in Ids : rows[j].enabled}}
    IN  IF S = {} THEN -1
        ELSE LET m == CHOOSE x \in S : \A y \in S : x <= y
             IN  IF m < 0 THEN 0 ELSE m

\* _compute_sleep: until the next entry is due, and never longer than the cap.
SleepFor ==
    LET S == {rows[i].next : i \in {j \in Ids : rows[j].enabled}}
        m == CHOOSE x \in S : \A y \in S : x <= y
    IN  IF S = {} THEN MaxSleep
        ELSE IF m <= 0 THEN 0
        ELSE IF m < MaxSleep THEN m ELSE MaxSleep

\* All fires ended: the wake event is cleared and the loop waits.
Sleep ==
    /\ loop.pc = "gather"
    /\ \A i \in Ids : ~InFlight(i)
    /\ loop' = [pc |-> "sleep", until |-> SleepFor, woken |-> FALSE]
    /\ UNCHANGED <<rows, runs, fires, running, threads, used>>

Wake ==
    /\ loop.pc = "sleep"
    /\ loop.until = 0 \/ loop.woken
    /\ loop' = [pc |-> "fetch", until |-> 0, woken |-> FALSE]
    /\ UNCHANGED <<rows, runs, fires, running, threads, used>>

\* The process dies, with its callbacks.
Crash ==
    /\ loop.pc # "off"
    /\ used.crashes + used.faults < MaxMishaps
    /\ used' = [used EXCEPT !.crashes = @ + 1]
    /\ loop' = [pc |-> "off", until |-> 0, woken |-> FALSE]
    /\ fires' = [i \in Ids |-> NoFire]
    /\ running' = [i \in Ids |-> 0]
    /\ threads' = [n \in Names |-> 0]
    /\ UNCHANGED <<rows, runs>>

\* The loop is cancelled after stop's patience ended: the fires run their
\* finally blocks with the status they started with.
Stop ==
    /\ "stop" \in Ops
    /\ loop.pc = "gather"
    /\ used.crashes + used.faults < MaxMishaps
    /\ used' = [used EXCEPT !.crashes = @ + 1]
    /\ LET cut == {i \in Ids : fires[i].pc = "run"}
       IN  /\ rows' = [i \in Ids |->
                  IF i \notin cut \/ ~Here(i) THEN rows[i]
                  ELSE Outcome(rows[i], fires[i].copy, "success")]
           /\ runs' = [i \in Ids |-> IF i \in cut THEN runs[i] - 1 ELSE runs[i]]
    /\ loop' = [pc |-> "off", until |-> 0, woken |-> FALSE]
    /\ fires' = [i \in Ids |-> NoFire]
    /\ running' = [i \in Ids |-> 0]
    /\ threads' = [n \in Names |-> 0]

-----------------------------------------------------------------------------
(* Clients, in this process (they kick the loop) or in another.            *)

\* A kick counts while the loop sleeps: Sleep clears an earlier one.
Call(op) ==
    /\ op \in Ops
    /\ used.ops < MaxOps
    /\ used' = [used EXCEPT !.ops = @ + 1]
    /\ \E kick \in BOOLEAN :
          loop' = [loop EXCEPT !.woken = loop.pc = "sleep" /\ (@ \/ kick)]
    /\ UNCHANGED <<runs, fires, running, threads>>

\* add_job, add_timer: an upsert by name.
Add(n) ==
    \/ /\ IdOf(n) = {}
       /\ NextId \in Ids
       /\ Call("add")
       /\ rows' = [rows EXCEPT ![NextId] =
                      [NewRow(n) EXCEPT !.inherited = InFlight(NextId)]]
    \/ /\ Call("again")
       /\ \E i \in IdOf(n) :
             rows' = [rows EXCEPT ![i] =
                         [NewRow(n) EXCEPT !.inherited = InFlight(i)]]

\* cancel_job.
Delete(i) == Call("delete") /\ Here(i) /\ rows' = [rows EXCEPT ![i] = Empty]

\* toggle_job with FALSE.
Disable(i) ==
    /\ Call("disable")
    /\ Here(i)
    /\ rows' = [rows EXCEPT ![i] = [Disabled(@) EXCEPT !.stopped = TRUE]]

\* enable: from the next slot on (an "at:" trigger has only its own), and
\* with a clean streak.
Enabled(row) ==
    [row EXCEPT !.enabled = TRUE, !.failures = 0,
                !.next = IF row.name \in Recurring THEN Period ELSE @,
                !.stopped = FALSE,
                !.allowed = IF @ = 0 THEN @ ELSE @ + 1]

\* toggle_job with TRUE, and resume_job.
Enable(i) ==
    /\ Call("enable")
    /\ Here(i)
    /\ rows' = [rows EXCEPT ![i] = Enabled(@)]

\* run_now: a disabled entry is enabled first.
RunNow(i) ==
    /\ Call("run_now")
    /\ Here(i)
    /\ LET row == IF rows[i].enabled THEN rows[i] ELSE Enabled(rows[i])
       IN  rows' = [rows EXCEPT ![i] = [row EXCEPT !.next = 0]]

Client ==
    \/ \E n \in Names : Add(n)
    \/ \E i \in Ids : Delete(i) \/ Disable(i) \/ Enable(i) \/ RunNow(i)

\* Time passes, unless the loop is to wake now; how late an entry is counts
\* up to the grace window.
Tick ==
    /\ ~(loop.pc = "sleep" /\ (loop.until = 0 \/ loop.woken))
    /\ rows' = [i \in Ids |-> IF Here(i) /\ rows[i].next >= -Grace
                   THEN [rows[i] EXCEPT !.next = @ - 1] ELSE rows[i]]
    /\ loop' = IF loop.pc = "sleep" /\ loop.until > 0
               THEN [loop EXCEPT !.until = @ - 1] ELSE loop
    /\ UNCHANGED <<runs, fires, running, threads, used>>

\* The table that an earlier process left: every name registered.
Registered ==
    LET first == 1..Cardinality(Names)
        order == CHOOSE f \in [first -> Names] :
                     \A i, j \in first : f[i] = f[j] => i = j
    IN  [i \in Ids |-> IF i \in first THEN NewRow(order[i]) ELSE Empty]

Init ==
    /\ rows \in {[i \in Ids |-> Empty], Registered}
    /\ runs = [i \in Ids |-> 0]
    /\ loop = [pc |-> "off", until |-> 0, woken |-> FALSE]
    /\ fires = [i \in Ids |-> NoFire]
    /\ running = [i \in Ids |-> 0]
    /\ threads = [n \in Names |-> 0]
    /\ used = [ops |-> 0, crashes |-> 0, faults |-> 0]

Loop == Start \/ Boot \/ Recovered \/ Fetch \/ Sleep \/ Wake

Step(i) == Recover(i) \/ Filter(i) \/ Fire(i) \/ Return(i) \/ Timeout(i)

Next ==
    \/ Loop \/ Client \/ Tick \/ Crash \/ Stop
    \/ \E i \in Ids : Step(i) \/ WriteFails(i)
    \/ \E n \in Names : ThreadEnds(n)

Spec == Init /\ [][Next]_vars

\* The service restarts the process, the event loop runs what is ready, time
\* passes, and a callback that is not cut off by a timeout returns.
Fairness ==
    /\ WF_vars(Loop) /\ WF_vars(Tick)
    /\ \A i \in Ids : WF_vars(Step(i))

FairSpec == Spec /\ Fairness

-----------------------------------------------------------------------------
(* Properties.                                                             *)

Row ==
    [name : Names \cup {""}, enabled : BOOLEAN, next : Int, remaining : Nat,
     total : 0..MaxRuns, failures : 0..MaxRuns, ran : 0..MaxRuns,
     stopped : BOOLEAN, allowed : Nat, inherited : BOOLEAN]

\* Type correctness: ids are in range, counters are never negative.
TypeOK ==
    /\ rows \in [Ids -> Row]
    /\ fires \in [Ids -> [pc : {"none", "missed", "fetched", "run"}, copy : Row]]
    /\ runs \in [Ids -> Nat]
    /\ running \in [Ids -> Nat]
    /\ threads \in [Names -> Nat]
    /\ loop.pc \in {"off", "boot", "recover", "fetch", "gather", "sleep"}

\* Once the loop is up, the history shows as running exactly the runs that
\* are in flight, whatever the last process left behind; a failed write
\* leaves one run more.
HistoryHonest ==
    loop.pc \notin {"off", "boot"} =>
        \A i \in Ids :
            LET inFlight == IF fires[i].pc = "run" THEN 1 ELSE 0
            IN  runs[i] \in inFlight..(inFlight + used.faults)

\* A one-shot entry has run, a finite one as often as it was declared for;
\* an unlimited one never has enough.
Served(row) ==
    IF row.name \in Recurring
    THEN Times[row.name] > 0 /\ row.ran >= Times[row.name]
    ELSE row.ran > 0

\* No fewer runs: an entry that is switched off has had its runs, unless its
\* owner, a filter or a slot missed by more than the grace window ended it.
\* A crash in the middle of a run does not use it up, and failures switch no
\* entry off.  Excepted is an entry that was registered while the loop had a
\* copy of an earlier one on its id in hand: what that copy leads to (a
\* countdown at its last run, a one-shot run) is written over the new row.
RunsServed ==
    \A i \in Ids :
        Here(i) /\ ~rows[i].enabled =>
            Served(rows[i]) \/ rows[i].stopped \/ rows[i].inherited

\* No more runs: an entry that was declared for a number of runs has these,
\* one more for each time it was switched on again, one for each crash or
\* failed write that kept a run from being counted, and one if the loop had a
\* copy of an earlier registration in hand, which may run it uncounted.
RunsBounded ==
    \A i \in Ids :
        Here(i) /\ rows[i].allowed > 0 =>
            rows[i].ran <= rows[i].allowed + used.crashes + used.faults
                               + (IF rows[i].inherited THEN 1 ELSE 0)

\* An entry runs as often as was asked, no less and no more, but for a
\* registration that a fire of an earlier one on its id meets.
RunsAsAsked == RunsServed /\ RunsBounded

\* At most max_concurrent callbacks of an entry execute at the same time,
\* unless a timeout has given up on one that runs in a thread.
NoOverlap ==
    \A n \in Names \ (Sync \cap TimedOut) : threads[n] <= MaxConcurrent

\* What the history shows, what executes and what the re-entrancy lock allows
\* agree.
RunsAccounted == TypeOK /\ HistoryHonest /\ NoOverlap

\* A due entry is fired, or it is switched off, deleted or filtered out: the
\* loop never sleeps through it and no other entry's failures hold it back.
\* A failed write is excepted: it leaves the re-entrancy lock taken.
EntriesFire ==
    \A n \in Names \ Restricted :
        (\E i \in IdOf(n) : Due(i))
            ~> \/ \A i \in IdOf(n) : ~rows[i].enabled
               \/ \E i \in Ids : fires[i].pc = "run" /\ fires[i].copy.name = n
               \/ used.faults > 0
=============================================================================
