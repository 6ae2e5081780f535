-------------------------- MODULE DurableSubmission --------------------------
(***************************************************************************)
(* How a request becomes a queued durable workload (lre_submission.py,     *)
(* durable_workloads/admission.py and the store methods they call).        *)
(*                                                                         *)
(* A delivery is one process that carries a request under its request key; *)
(* a redelivery is another one with the same key.  Each store call is one  *)
(* transaction and hence one action; between two of them other deliveries, *)
(* the owner, the service and the feature switch act, and a delivery may   *)
(* die at any point (its file locks are then released by the system).      *)
(*   "adapted"    an executor with an invocation plan: coalesced by scope, *)
(*                under the cross-process submissions lock;                *)
(*   "direct"     a single long step, no coalescing;                       *)
(*   "registered" a profile over local sources, which are sealed first.    *)
(***************************************************************************)
EXTENDS Integers, FiniteSets, Sequences

CONSTANTS
    Deliveries,  \* processes that carry a request
    Loads,       \* what the deliveries may carry
    Files,       \* local files that may be sealed as sources
    NoDelivery,  \* a free lock
    MaxVersion   \* bound: state changes of one job

(***************************************************************************)
(* A load gives each delivery the kind and the key of its request, its     *)
(* normalised arguments, which are also its scope, whether the scheduler   *)
(* makes it (is_scheduled_turn), and whether submit_candidate is given an  *)
(* admission boundary.                                                     *)
(***************************************************************************)
Kinds == {"adapted", "direct", "registered"}

ASSUME DeliveriesAssumption ==
    /\ NoDelivery \notin Deliveries
    /\ \A load \in Loads : \A d \in Deliveries :
          /\ load[d].kind \in Kinds
          /\ load[d].scheduled \in BOOLEAN
          /\ load[d].boundary \in BOOLEAN
    /\ MaxVersion \in Nat \ {0}

VARIABLES
    request,     \* what each delivery carries; it does not change
    jobs,        \* the workloads table, in the order of creation
    run,         \* each delivery: where it is and what it has read
    submissions, \* holder of the submissions lock
    feature,     \* holder of the feature configuration lock
    enabled,     \* the LRE feature switch
    files,       \* the local files that are there
    grants,      \* live source grants of each job
    steady       \* history: the files that have been there all along

vars == <<request, jobs, run, submissions, feature, enabled, files, grants, steady>>

-----------------------------------------------------------------------------
(* Jobs.  "queued" stands for queued, running and paused; "ended" for the  *)
(* terminal states.                                                        *)

Unqueued == {"draft", "admitted"}

\* Seeded fault: only a job that has not ended answers for its key.
WithKeyUnfinished(key) ==
    {i \in DOMAIN jobs : jobs[i].key = key /\ jobs[i].state # "ended"}

WithKey(key) == {i \in DOMAIN jobs : jobs[i].key = key}

First(S) == CHOOSE i \in S : \A j \in S : i <= j

\* find_active_submission: the oldest unfinished job of the scope; a
\* scheduled delivery ignores one that waits for the owner.
InScope(d) ==
    {i \in DOMAIN jobs :
        /\ jobs[i].kind = "adapted"
        /\ jobs[i].args = request[d].args
        /\ jobs[i].state # "ended"
        /\ request[d].scheduled => jobs[i].state # "needs_attention"}

\* Seeded fault: an admitted job is taken for one that runs.
ReachableWhenAdmitted(state) == state # "draft"

\* The job needs no further step of a submission.
Reachable(state) == state \notin Unqueued

-----------------------------------------------------------------------------
(* Steps of a delivery.                                                    *)

\* Seeded fault: the lock file does not keep others out.
FreeForAll(holder) == TRUE

Free(holder) == holder = NoDelivery

Unlocked(holder, d) == IF holder = d THEN NoDelivery ELSE holder

Goto(d, pc) == run' = [run EXCEPT ![d].pc = pc]

\* The delivery returns, or dies: its locks are released.
Finish(d, answer) ==
    /\ run' = [run EXCEPT ![d].pc = "done", ![d].answer = answer]
    /\ submissions' = Unlocked(submissions, d)
    /\ feature' = Unlocked(feature, d)

\* _require_ready, before anything is written.
Begin(d) ==
    /\ run[d].pc = "new"
    /\ IF ~enabled
       THEN Finish(d, "rejected")
       ELSE /\ Goto(d, CASE request[d].kind = "adapted" -> "lock"
                         [] request[d].kind = "registered" -> "prepare"
                         [] request[d].kind = "direct" -> "draft")
            /\ UNCHANGED <<submissions, feature>>
    /\ UNCHANGED <<jobs, enabled, files, steady, grants>>

LockSubmissions(d) ==
    /\ run[d].pc = "lock"
    /\ Free(submissions)
    /\ submissions' = d
    /\ Goto(d, "find_key")
    /\ UNCHANGED <<jobs, feature, enabled, files, steady, grants>>

\* find_submission_by_request_key: the delivery has a job already.
FindKey(d) ==
    /\ run[d].pc = "find_key"
    /\ LET found == WithKey(run[d].key)
           i == First(found)
       IN  IF found # {} /\ jobs[i].args # request[d].args
           THEN Finish(d, "conflict")
           ELSE /\ IF found # {} /\ Reachable(jobs[i].state)
                   THEN run' = [run EXCEPT ![d].pc = "reply", ![d].job = i]
                   ELSE Goto(d, "find_active")
                /\ UNCHANGED <<submissions, feature>>
    /\ UNCHANGED <<jobs, enabled, files, steady, grants>>

\* find_active_submission: an equivalent job is on its way; one that is not
\* queued yet is taken over under its own key.
FindActive(d) ==
    /\ run[d].pc = "find_active"
    /\ LET i == First(InScope(d))
       IN  IF InScope(d) = {}
           THEN Goto(d, "prepare")
           ELSE IF Reachable(jobs[i].state)
           THEN run' = [run EXCEPT ![d].pc = "reply", ![d].job = i]
           ELSE run' = [run EXCEPT ![d].pc = "prepare", ![d].key = jobs[i].key]
    /\ UNCHANGED <<jobs, submissions, feature, enabled, files, steady, grants>>

NewJob(d) ==
    [key |-> run[d].key, args |-> request[d].args, kind |-> request[d].kind,
     state |-> "draft", version |-> 1, revision |-> {}, sealed |-> FALSE,
     parked |-> FALSE]

\* Where create_draft's result leads: sources are sealed for a draft only.
AfterDraft(d, state) ==
    IF run[d].pc = "prepare"
    THEN IF request[d].kind = "registered" /\ state = "draft" THEN "seal" ELSE "draft"
    ELSE IF Reachable(state) THEN "reply" ELSE "boundary"

\* create_draft: the caller prepares its candidate for the draft's id, and
\* submit_candidate then calls it again.
CreateDraft(d) ==
    /\ run[d].pc \in {"prepare", "draft"}
    /\ LET found == WithKey(run[d].key)
           i == IF found = {} THEN Len(jobs) + 1 ELSE First(found)
           row == IF found = {} THEN NewJob(d) ELSE jobs[i]
       IN  IF row.args # request[d].args
           THEN Finish(d, "conflict") /\ UNCHANGED <<jobs, grants>>
           ELSE /\ jobs' = IF found = {} THEN Append(jobs, row) ELSE jobs
                /\ grants' = IF found = {} THEN Append(grants, {}) ELSE grants
                /\ run' = [run EXCEPT ![d].pc = AfterDraft(d, row.state),
                                      ![d].job = i]
                /\ UNCHANGED <<submissions, feature>>
    /\ UNCHANGED <<enabled, files, steady>>

\* Seeded fault: a grant that exists is not renewed after the revocation.
GrantedLosesOld(old, inventory) == inventory \ old

\* The live grants after all were revoked and the inventory's registered.
Granted(old, inventory) == inventory

\* seal_and_register: the grants of the job become those of the files that
\* exist now; outside of every lock.
Seal(d) ==
    /\ run[d].pc = "seal"
    /\ run' = [run EXCEPT ![d].pc = "draft", ![d].inventory = files]
    /\ grants' = [grants EXCEPT ![run[d].job] = Granted(@, files)]
    /\ UNCHANGED <<jobs, submissions, feature, enabled, files, steady>>

\* Seeded fault: the switch is read before the lock is taken only.
OpenGate == TRUE

\* _require_ready, under the lock that a change of the switch takes too.
Gate == enabled

LockFeature(d) ==
    /\ run[d].pc = "boundary"
    /\ IF ~request[d].boundary
       THEN Goto(d, "read") /\ UNCHANGED <<submissions, feature>>
       ELSE /\ Free(feature)
            /\ IF Gate
               THEN Goto(d, "read") /\ feature' = d /\ UNCHANGED submissions
               ELSE Finish(d, "rejected")
    /\ UNCHANGED <<jobs, enabled, files, steady, grants>>

\* feature_configuration_lock gives up after its timeout.
LockTimeout(d) ==
    /\ \/ run[d].pc = "lock" /\ ~Free(submissions)
       \/ run[d].pc = "boundary" /\ request[d].boundary /\ ~Free(feature)
    /\ Finish(d, "failed")
    /\ UNCHANGED <<jobs, enabled, files, steady, grants>>

\* for _step in range(4).
MaxSteps == 4

\* The next round of submit_candidate's loop reads the job again.
Reread(d) ==
    /\ run[d].pc = "read"
    /\ IF run[d].step = MaxSteps
       THEN Finish(d, "unconverged")
       ELSE /\ LET row == jobs[run[d].job]
               IN  run' = [run EXCEPT
                      ![d].pc = IF Reachable(row.state) THEN "reply" ELSE "act",
                      ![d].state = row.state,
                      ![d].version = row.version]
            /\ UNCHANGED <<submissions, feature>>
    /\ UNCHANGED <<jobs, enabled, files, steady, grants>>

SameVersion(d) == jobs[run[d].job].version = run[d].version

NextRound(d) ==
    run' = [run EXCEPT ![d].pc = "read", ![d].step = @ + 1]

\* admit_revision: a revision of the same plan and inventory is returned; a
\* version conflict is one more round.
Admit(d) ==
    /\ run[d].pc = "act" /\ run[d].state = "draft"
    /\ LET i == run[d].job
           duplicate == jobs[i].sealed /\ jobs[i].revision = run[d].inventory
       IN  jobs' = IF duplicate \/ ~SameVersion(d)
                   THEN jobs
                   ELSE [jobs EXCEPT ![i].state = "admitted",
                                     ![i].version = @ + 1,
                                     ![i].sealed = TRUE,
                                     ![i].revision = run[d].inventory]
    /\ NextRound(d)
    /\ UNCHANGED <<submissions, feature, enabled, files, steady, grants>>

\* transition_workload to queued.
Queue(d) ==
    /\ run[d].pc = "act" /\ run[d].state = "admitted"
    /\ IF SameVersion(d)
       THEN /\ jobs' = [jobs EXCEPT ![run[d].job].state = "queued",
                                    ![run[d].job].version = @ + 1]
            /\ Goto(d, "reply")
       ELSE NextRound(d) /\ UNCHANGED jobs
    /\ UNCHANGED <<submissions, feature, enabled, files, steady, grants>>

\* The locks are released and the receipt names the job.
Reply(d) ==
    /\ run[d].pc = "reply"
    /\ Finish(d, "accepted")
    /\ UNCHANGED <<jobs, enabled, files, steady, grants>>

\* The process dies, or an unexpected error ends the delivery.
Crash(d) ==
    /\ run[d].pc \notin {"new", "done"}
    /\ Finish(d, "failed")
    /\ UNCHANGED <<jobs, enabled, files, steady, grants>>

-----------------------------------------------------------------------------
(* The owner, the service, the switch and the file system.                 *)

JobMoves ==
    [draft |-> {"ended"}, admitted |-> {"needs_attention", "ended"},
     queued |-> {"needs_attention", "ended"},
     needs_attention |-> {"queued", "ended"}, ended |-> {}]

\* Commands and the service take the job on: every change has a new version.
MoveJob(i) ==
    \E state \in JobMoves[jobs[i].state] :
        /\ jobs[i].version < MaxVersion
        /\ jobs' = [jobs EXCEPT ![i].state = state, ![i].version = @ + 1,
                                ![i].parked = @ \/ state = "needs_attention"]
        /\ UNCHANGED <<run, submissions, feature, enabled, files, steady, grants>>

\* set_lre_enabled writes the switch under the feature lock.
SetFeature ==
    /\ Free(feature)
    /\ enabled' = ~enabled
    /\ UNCHANGED <<jobs, run, submissions, feature, files, steady, grants>>

\* A file is removed, moved or replaced, or its volume is unmounted.
RemoveFile ==
    /\ \E f \in files : files' = files \ {f} /\ steady' = steady \ {f}
    /\ UNCHANGED <<jobs, run, submissions, feature, enabled, grants>>

\* It is back, with the same identity.
RestoreFile ==
    /\ \E f \in Files \ files : files' = files \cup {f}
    /\ UNCHANGED <<jobs, run, submissions, feature, enabled, grants, steady>>

\* reconcile_workloads, in the service's maintenance: it asks for the state of
\* the jobs with live grants, and then revokes all grants of those that were
\* over (and are, for good); others may have ended in between.
ReconcileWorkloads ==
    /\ \E over \in SUBSET {i \in DOMAIN jobs :
                            jobs[i].state = "ended" /\ grants[i] # {}} :
          /\ over # {}
          /\ grants' = [i \in DOMAIN grants |->
                           IF i \in over THEN {} ELSE grants[i]]
    /\ UNCHANGED <<jobs, run, submissions, feature, enabled, files, steady>>

Init ==
    /\ request \in Loads
    /\ jobs = <<>>
    /\ grants = <<>>
    /\ run = [d \in Deliveries |->
                 [pc |-> "new", key |-> request[d].key, job |-> 0, state |-> "",
                  version |-> 0, step |-> 0, inventory |-> {},
                  answer |-> ""]]
    /\ submissions = NoDelivery
    /\ feature = NoDelivery
    /\ enabled = TRUE
    /\ files = Files
    /\ steady = Files

Deliver(d) ==
    \/ Begin(d) \/ LockSubmissions(d) \/ FindKey(d) \/ FindActive(d)
    \/ CreateDraft(d) \/ Seal(d) \/ LockFeature(d) \/ LockTimeout(d)
    \/ Reread(d) \/ Admit(d) \/ Queue(d) \/ Reply(d) \/ Crash(d)

Step ==
    \/ \E d \in Deliveries : Deliver(d)
    \/ \E i \in DOMAIN jobs : MoveJob(i)
    \/ SetFeature
    \/ RemoveFile \/ RestoreFile
    \/ ReconcileWorkloads

Next == Step /\ UNCHANGED request

Spec == Init /\ [][Next]_vars

-----------------------------------------------------------------------------
(* Properties.                                                             *)

Answered(d) == run[d].answer = "accepted"

\* Type correctness, and a lock is held by a delivery that is at work.
TypeOK ==
    /\ \A i \in DOMAIN jobs :
          /\ jobs[i].state \in DOMAIN JobMoves
          /\ jobs[i].version \in 1..MaxVersion + 2
          /\ jobs[i].revision \subseteq Files
    /\ \A d \in Deliveries :
          /\ run[d].job \in 0..Len(jobs)
          /\ run[d].step \in 0..MaxSteps
          /\ run[d].inventory \subseteq Files
    /\ submissions # NoDelivery =>
          run[submissions].pc \notin {"new", "lock", "seal", "done"}
    /\ feature # NoDelivery => run[feature].pc \in {"read", "act", "reply"}
    /\ enabled \in BOOLEAN
    /\ files \subseteq Files
    /\ steady \subseteq files
    /\ Len(grants) = Len(jobs)

\* An accepted delivery has a job for its own arguments that needs no
\* further step: nothing accepted is left behind as a draft or unqueued,
\* whichever delivery of the same job died halfway.
AcceptedIsQueued ==
    \A d \in Deliveries : Answered(d) =>
        /\ jobs[run[d].job].args = request[d].args
        /\ jobs[run[d].job].state \notin Unqueued

\* Deliveries of one request key that are accepted name the same job,
\* whatever became of it in between.  Adapted requests are excepted: one that
\* was coalesced into another's job leaves no trace of its own key.
SameKeySameJob ==
    \A d, e \in Deliveries :
        /\ Answered(d) /\ Answered(e)
        /\ request[d].key = request[e].key
        /\ request[d].kind # "adapted" /\ request[e].kind # "adapted"
        => run[d].job = run[e].job

\* Equivalent requests share one unfinished job, unless an earlier one had
\* to wait for the owner, which scheduled deliveries do not wait for.
OneLiveJob ==
    \A i, j \in DOMAIN jobs :
        /\ i # j
        /\ jobs[i].kind = "adapted" /\ jobs[j].kind = "adapted"
        /\ jobs[i].args = jobs[j].args
        /\ jobs[i].state # "ended" /\ jobs[j].state # "ended"
        => jobs[i].parked \/ jobs[j].parked

\* Concurrent deliveries of the same request converge: submit_candidate
\* never gives up with "concurrent submission did not converge".
Converges == \A d \in Deliveries : run[d].answer # "unconverged"

\* What deliveries leave behind: their own answers and their jobs agree.
DeliveriesSound == TypeOK /\ AcceptedIsQueued /\ Converges

\* Disabling the feature is final for admission: where submissions are given
\* the admission boundary, no draft is admitted and no admitted job is queued
\* while the switch is off.
GateRespected ==
    [][\A i \in DOMAIN jobs :
          /\ \A d \in Deliveries : request[d].boundary
          /\ jobs[i].state \in Unqueued
          /\ jobs'[i].state \in {"admitted", "queued"}
          /\ jobs'[i].state # jobs[i].state
          => enabled]_vars

\* Neither a delivery that seals late nor the revocation of what is over takes
\* sources away from a job that another delivery admitted and that has not
\* ended: what was admitted and has been there all along is granted.  (A file
\* that was away when another delivery sealed, and came back, is not.)
LiveSourcesGranted ==
    \A i \in DOMAIN jobs :
        jobs[i].sealed /\ jobs[i].state # "ended" =>
            jobs[i].revision \cap steady \subseteq grants[i]
=============================================================================
