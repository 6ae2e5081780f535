--------------------------- MODULE TemporaryStorage ---------------------------
(***************************************************************************)
(* The scratch workspaces of durable workloads (temporary_storage.py):     *)
(* attempts write in them under a shared file lock, and the maintenance    *)
(* cycle measures them and, once their workload ended, retires, detaches   *)
(* and purges them under the exclusive lock.  Workspaces may be shared by  *)
(* workloads (a recovery job refers to the same checkpoint generation).    *)
(*                                                                         *)
(* An attempt whose lease was taken away may still run, open its workspace *)
(* and write.  The cleaner may crash between any two steps: its locks are  *)
(* released, what it did to the files stays.                               *)
(***************************************************************************)
EXTENDS Integers, FiniteSets

CONSTANTS
    Jobs,        \* workloads
    Paths,       \* workspaces
    PathsOf,     \* the workspaces that a workload's plans declare
    Writers,     \* processes that execute attempts
    NoJob,       \* an idle writer or cleaner
    NoPath,      \* a writer without a workspace
    Custody,     \* whether a hand-off of detached data is configured
    MaxVersion,  \* bound: state changes of a workload
    MaxFaults    \* bound: crashes and I/O errors of the cleaner

ASSUME JobsAssumption ==
    /\ NoJob \notin Jobs /\ NoPath \notin Paths
    /\ PathsOf \in [Jobs -> SUBSET Paths]
    /\ Custody \in BOOLEAN
    /\ MaxVersion \in Nat /\ MaxFaults \in Nat

VARIABLES
    job,      \* workload rows: state and version
    writer,   \* each process: its attempt and the workspace it has open
    disk,     \* each workspace: its data, the detached data, the fence
    cleaner,  \* the observation under way
    report,   \* the workload_temporary_storage table
    faults    \* crashes and errors so far

vars == <<job, writer, disk, cleaner, report, faults>>

-----------------------------------------------------------------------------
(* What the store and the locks tell.                                      *)

\* Attempts that are leased or running, as the store knows them.
Busy(j) == \E w \in Writers : writer[w].job = j /\ writer[w].live

Users(p) == {w \in Writers : writer[w].open = p}

Locked(p) == p \in cleaner.locked

\* TemporaryWorkspace.measure of every path: something is left on disk.
Measure(S) == \E p \in S : disk[p].data \/ disk[p].removing

\* Seeded fault: a suspended workload is not asked.
SharedByRunning(j) ==
    \E k \in Jobs \ {j} : /\ PathsOf[j] \cap PathsOf[k] # {}
                          /\ job[k].state = "running"

\* shared: another workload that has not ended, or that still has attempts,
\* declares one of the paths.
Shared(j) ==
    \E k \in Jobs \ {j} :
        /\ PathsOf[j] \cap PathsOf[k] # {}
        /\ job[k].state \in {"running", "suspended"} \/ Busy(k)

-----------------------------------------------------------------------------
(* Attempts.                                                               *)

IdleWriter == [job |-> NoJob, path |-> NoPath, live |-> FALSE, open |-> NoPath]

\* claim_next: the process will work in one of the workload's workspaces.
Claim(w) ==
    /\ writer[w].job = NoJob
    /\ \E j \in Jobs : \E p \in PathsOf[j] :
          /\ job[j].state = "running"
          /\ writer' = [writer EXCEPT ![w] = [IdleWriter EXCEPT
                           !.job = j, !.path = p, !.live = TRUE]]
    /\ UNCHANGED <<job, disk, cleaner, report, faults>>

\* Seeded fault: the fence record is not read.
MayOpenRetired(p) == ~Locked(p)

\* use(): the shared lock is free and the workspace has not been retired.
MayOpen(p) == ~Locked(p) /\ ~disk[p].retired

\* An attempt that cannot open its workspace fails.
Open(w) ==
    /\ writer[w].job # NoJob /\ writer[w].open = NoPath
    /\ writer' = IF MayOpen(writer[w].path)
                 THEN [writer EXCEPT ![w].open = writer[w].path]
                 ELSE [writer EXCEPT ![w] = IdleWriter]
    /\ UNCHANGED <<job, disk, cleaner, report, faults>>

Write(w) ==
    /\ writer[w].open # NoPath
    /\ disk' = [disk EXCEPT ![writer[w].open].data = TRUE]
    /\ UNCHANGED <<job, writer, cleaner, report, faults>>

\* The attempt ends, or the process dies: the lock is released.
Close(w) ==
    /\ writer[w].open # NoPath
    /\ writer' = [writer EXCEPT ![w] = IdleWriter]
    /\ UNCHANGED <<job, disk, cleaner, report, faults>>

\* reconcile_expired takes the lease away; the process does not know.
Expire(w) ==
    /\ writer[w].live
    /\ writer' = [writer EXCEPT ![w].live = FALSE]
    /\ UNCHANGED <<job, disk, cleaner, report, faults>>

-----------------------------------------------------------------------------
(* Workloads.  "suspended" stands for paused, needs_attention and          *)
(* cancel_requested; a workload ends without active attempts.              *)

JobMoves ==
    [none |-> {"running"}, running |-> {"suspended", "terminal"},
     suspended |-> {"running", "terminal"}, terminal |-> {}]

Move(j) ==
    /\ \E state \in JobMoves[job[j].state] :
          /\ state = "terminal" => ~Busy(j)
          /\ job[j].version < MaxVersion
          /\ job' = [job EXCEPT ![j] = [state |-> state,
                                        version |-> @.version + 1]]
    /\ UNCHANGED <<writer, disk, cleaner, report, faults>>

-----------------------------------------------------------------------------
(* TemporaryStorage.observe.                                               *)

IdleCleaner ==
    [pc |-> "idle", job |-> NoJob, version |-> 0, state |-> "none",
     locked |-> {}, found |-> FALSE, status |-> "pending"]

\* The observation goes on to its report: the locks are released.
ToReport(status) ==
    cleaner' = [cleaner EXCEPT !.pc = "report", !.locked = {},
                               !.status = status]

\* reports: a report counts for the version that it was made for.
Current(j) == report[j].version = job[j].version

\* Seeded fault: one report for each version is thought to do.
UnfinishedOnce(j) == job[j].state \in {"suspended", "terminal"} /\ ~Current(j)

\* maintain selects the settled workloads without a final current report.
Unfinished(j) ==
    /\ job[j].state \in {"suspended", "terminal"}
    /\ ~Current(j) \/ report[j].status \in {"pending", "shared", "error"}

Pick(j) ==
    /\ cleaner.pc = "idle"
    /\ Unfinished(j)
    /\ cleaner' = [IdleCleaner EXCEPT !.pc = "busy", !.job = j,
                      !.version = job[j].version, !.state = job[j].state]
    /\ UNCHANGED <<job, writer, disk, report, faults>>

CheckBusy ==
    /\ cleaner.pc = "busy"
    /\ IF Busy(cleaner.job) THEN ToReport("pending")
       ELSE cleaner' = [cleaner EXCEPT !.pc = "lock"]
    /\ UNCHANGED <<job, writer, disk, report, faults>>

\* flock LOCK_EX | LOCK_NB is granted.
Granted(p) == Users(p) = {}

\* TemporaryStorage.paths: what the admitted revisions declare.
Declared(j) == PathsOf[j]

\* The paths are locked one by one; a writer's lock ends the observation.
Lock ==
    /\ cleaner.pc = "lock"
    /\ LET missing == Declared(cleaner.job) \ cleaner.locked
           p == CHOOSE q \in missing : TRUE
       IN  IF missing = {}
           THEN cleaner' = [cleaner EXCEPT !.pc = "measure"]
           ELSE IF Granted(p)
           THEN cleaner' = [cleaner EXCEPT !.locked = @ \cup {p}]
           ELSE ToReport("pending")
    /\ UNCHANGED <<job, writer, disk, report, faults>>

MeasureBefore ==
    /\ cleaner.pc = "measure"
    /\ LET found == Measure(PathsOf[cleaner.job])
       IN  IF cleaner.state = "terminal"
           THEN cleaner' = [cleaner EXCEPT !.pc = "detach", !.found = found]
           ELSE ToReport(IF found THEN "retained" ELSE "clean")
    /\ UNCHANGED <<job, writer, disk, report, faults>>

\* retire: the fence is closed; detach: the data is renamed away, unless an
\* earlier pass left detached data.
Retired(d) == [d EXCEPT !.retired = TRUE]

Detached(d) ==
    IF d.removing THEN d ELSE [d EXCEPT !.data = FALSE, !.removing = d.data]

\* The short transaction: nothing is detached when the workload moved on, is
\* busy again or shares a path.
Detach ==
    /\ cleaner.pc = "detach"
    /\ LET j == cleaner.job
       IN  IF job[j].version # cleaner.version \/ Busy(j)
           THEN cleaner' = IdleCleaner /\ UNCHANGED disk
           ELSE IF Shared(j)
           THEN ToReport("shared") /\ UNCHANGED disk
           ELSE /\ disk' = [p \in Paths |-> IF p \in PathsOf[j]
                               THEN Detached(Retired(disk[p])) ELSE disk[p]]
                /\ cleaner' = [cleaner EXCEPT !.pc = "handoff"]
    /\ UNCHANGED <<job, writer, report, faults>>

\* The cleaner dies inside that transaction: some paths are done, and one of
\* the others may be retired only.
CrashInDetach ==
    /\ cleaner.pc = "detach"
    /\ faults < MaxFaults
    /\ LET j == cleaner.job
       IN  /\ job[j].version = cleaner.version /\ ~Busy(j) /\ ~Shared(j)
           /\ \E S \in SUBSET PathsOf[j] : \E q \in PathsOf[j] \ S :
                 disk' = [p \in Paths |->
                             IF p \in S THEN Detached(Retired(disk[p]))
                             ELSE IF p = q THEN Retired(disk[p]) ELSE disk[p]]
    /\ cleaner' = IdleCleaner
    /\ faults' = faults + 1
    /\ UNCHANGED <<job, writer, report>>

\* DetachedWorkspaceCustody accepts: the fences are closed, nothing is left
\* under the old names and there is detached data.
Accepts(j) ==
    /\ \A p \in PathsOf[j] : disk[p].retired /\ ~disk[p].data
    /\ \E p \in PathsOf[j] : disk[p].removing

Handoff ==
    /\ cleaner.pc = "handoff"
    /\ IF Custody /\ cleaner.found /\ ~Accepts(cleaner.job)
       THEN ToReport("error")
       ELSE cleaner' = [cleaner EXCEPT !.pc = "purge"]
    /\ UNCHANGED <<job, writer, disk, report, faults>>

\* The detached data is removed, and what is left is measured.
Purge ==
    /\ cleaner.pc = "purge"
    /\ disk' = [p \in Paths |->
                   IF p \in PathsOf[cleaner.job]
                   THEN [disk[p] EXCEPT !.removing = FALSE] ELSE disk[p]]
    /\ cleaner' = [cleaner EXCEPT !.pc = "remeasure"]
    /\ UNCHANGED <<job, writer, report, faults>>

MeasureAfter ==
    /\ cleaner.pc = "remeasure"
    /\ ToReport(IF Measure(PathsOf[cleaner.job]) THEN "pending" ELSE "clean")
    /\ UNCHANGED <<job, writer, disk, report, faults>>

\* A removal that fails halfway: an error is reported, or the cleaner dies.
PurgeFails ==
    /\ cleaner.pc = "purge"
    /\ faults < MaxFaults
    /\ \E S \in SUBSET PathsOf[cleaner.job] :
          disk' = [p \in Paths |->
                      IF p \in S THEN [disk[p] EXCEPT !.removing = FALSE]
                      ELSE disk[p]]
    /\ cleaner' = IdleCleaner \/ ToReport("error")
    /\ faults' = faults + 1
    /\ UNCHANGED <<job, writer, report>>

\* The last transaction: nothing is reported for a workload that moved on.
Report ==
    /\ cleaner.pc = "report"
    /\ report' = IF job[cleaner.job].version # cleaner.version THEN report
                 ELSE [report EXCEPT ![cleaner.job] =
                          [version |-> cleaner.version,
                           status |-> cleaner.status]]
    /\ cleaner' = IdleCleaner
    /\ UNCHANGED <<job, writer, disk, faults>>

\* The cleaner dies, or measuring, locking or the hand-off fails.
Fail ==
    /\ cleaner.pc \notin {"idle", "purge"}
    /\ faults < MaxFaults
    /\ \/ cleaner' = IdleCleaner
       \/ cleaner.pc # "report" /\ ToReport("error")
    /\ faults' = faults + 1
    /\ UNCHANGED <<job, writer, disk, report>>

Observe ==
    \/ CheckBusy \/ Lock \/ MeasureBefore \/ Detach \/ Handoff \/ Purge
    \/ MeasureAfter \/ Report

Init ==
    /\ job = [j \in Jobs |-> [state |-> "none", version |-> 0]]
    /\ writer = [w \in Writers |-> IdleWriter]
    /\ disk = [p \in Paths |-> [data |-> FALSE, removing |-> FALSE,
                                retired |-> FALSE]]
    /\ cleaner = IdleCleaner
    /\ report = [j \in Jobs |-> [version |-> 0, status |-> "pending"]]
    /\ faults = 0

Next ==
    \/ \E w \in Writers : Claim(w) \/ Open(w) \/ Write(w) \/ Close(w) \/ Expire(w)
    \/ \E j \in Jobs : Move(j) \/ Pick(j)
    \/ Observe \/ CrashInDetach \/ PurgeFails \/ Fail

Spec == Init /\ [][Next]_vars

\* The service calls maintain in every cycle, and it takes the workloads in
\* the order of their last check: none is passed over for ever.  A process
\* does not hold its workspace for ever.
Fairness ==
    /\ WF_vars(Observe)
    /\ \A j \in Jobs : SF_vars(Pick(j))
    /\ \A w \in Writers : WF_vars(Open(w)) /\ WF_vars(Close(w))

FairSpec == Spec /\ Fairness

-----------------------------------------------------------------------------
(* Properties.                                                             *)

\* Type correctness; a lock is held by the observation that needs it only.
TypeOK ==
    /\ job \in [Jobs -> [state : DOMAIN JobMoves, version : 0..MaxVersion]]
    /\ writer \in [Writers -> [job : Jobs \cup {NoJob},
                               path : Paths \cup {NoPath}, live : BOOLEAN,
                               open : Paths \cup {NoPath}]]
    /\ disk \in [Paths -> [data : BOOLEAN, removing : BOOLEAN,
                           retired : BOOLEAN]]
    /\ report \in [Jobs -> [version : 0..MaxVersion,
                            status : {"pending", "retained", "shared",
                                      "error", "clean"}]]
    /\ cleaner.locked # {} => cleaner.locked \subseteq PathsOf[cleaner.job]

\* can_dismiss: what the owner's control surface goes by.
CanDismiss(j) ==
    job[j].state = "terminal" /\ Current(j) /\ report[j].status = "clean"

\* A workload that may be dismissed has nothing left on disk, and never will
\* have: not by an attempt that lost its lease and still runs, not by a
\* crash of the cleaner between two of its steps.
DismissableIsGone ==
    \A j \in Jobs : CanDismiss(j) => ~Measure(PathsOf[j])

\* A clean report means a clean disk.
CleanIsClean == TypeOK /\ DismissableIsGone

\* Data disappears from a workspace only after every workload that declares
\* it ended, and never under a process that has it open.
CheckpointsKept ==
    [][\A p \in Paths :
          disk[p].data /\ ~disk'[p].data =>
              /\ Users(p) = {}
              /\ \A j \in Jobs : p \in PathsOf[j] =>
                    job[j].state \in {"none", "terminal"}]_vars

\* Every workload that ended is reported clean, so that it can be dismissed,
\* unless another one that has not ended needs the workspace.
CleanupEnds ==
    \A j \in Jobs :
        job[j].state = "terminal" ~> (CanDismiss(j) \/ Shared(j))
=============================================================================
