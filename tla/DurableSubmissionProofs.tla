----------------------- MODULE DurableSubmissionProofs -----------------------
(***************************************************************************)
(* Proofs about the submission of durable workloads, for any number of     *)
(* deliveries, whatever they carry.  A delivery that dies may have left a  *)
(* draft behind, and what it read before a transaction may be out of date  *)
(* in the next: the invariant says what of it still holds, for each        *)
(* delivery at each of its steps.                                          *)
(***************************************************************************)
EXTENDS DurableSubmission, SequenceTheorems, WellFoundedInduction, TLAPS

-----------------------------------------------------------------------------
(* The inductive invariant.                                                *)

States == {"draft", "admitted", "queued", "needs_attention", "ended"}

Pcs == {"new", "lock", "find_key", "find_active", "prepare", "seal", "draft",
        "boundary", "read", "act", "reply", "done"}

Keys == {load[d].key : load \in Loads, d \in Deliveries}

AllArgs == {load[d].args : load \in Loads, d \in Deliveries}

JobRow ==
    [key : Keys, args : AllArgs, kind : Kinds, state : States, version : Nat,
     revision : SUBSET Files, sealed : BOOLEAN, parked : BOOLEAN]

Answers == {"", "accepted", "rejected", "conflict", "failed"}

RunRow ==
    [pc : Pcs, key : Keys, job : Nat, state : States \cup {""}, version : Nat,
     step : Nat, inventory : SUBSET Files, answer : Answers]

\* Every variable has its shape; no answer is "unconverged".
Shapes ==
    /\ request \in Loads
    /\ jobs \in Seq(JobRow)
    /\ run \in [Deliveries -> RunRow]
    /\ submissions \in Deliveries \cup {NoDelivery}
    /\ feature \in Deliveries \cup {NoDelivery}
    /\ enabled \in BOOLEAN
    /\ files \subseteq Files
    /\ steady \subseteq files
    /\ grants \in Seq(SUBSET Files)
    /\ Len(grants) = Len(jobs)

\* The database's UNIQUE (owner, request key).
KeysUnique ==
    \A i, j \in DOMAIN jobs : jobs[i].key = jobs[j].key => i = j

\* A job is a draft exactly in its first version and admitted in its second
\* only: a conflict of versions means that it is past the state that was read.
RowTrue(row) ==
    /\ row.version \in 1..MaxVersion + 2
    /\ row.version = 1 <=> row.state = "draft"
    /\ row.state = "admitted" => row.version = 2
    /\ row.sealed => row.state # "draft"
    /\ row.state = "needs_attention" => row.parked

JobsTrue == \A i \in DOMAIN jobs : RowTrue(jobs[i])

\* Which steps are taken under which lock.
LocksHeld(d) ==
    /\ run[d].pc \in {"lock", "find_key", "find_active"} => request[d].kind = "adapted"
    /\ run[d].pc = "seal" => request[d].kind = "registered"
    /\ request[d].kind = "adapted" /\ run[d].pc \notin {"new", "lock", "done"}
          => submissions = d
    /\ submissions = d
          => request[d].kind = "adapted" /\ run[d].pc \notin {"new", "lock", "done"}
    /\ request[d].boundary /\ run[d].pc \in {"read", "act"} => feature = d
    /\ feature = d => run[d].pc \in {"read", "act", "reply"}

\* The job that a delivery names is for its arguments, and under its key
\* unless the delivery was coalesced.
NamesItsJob(d) ==
    /\ run[d].answer = "accepted" => run[d].pc = "done"
    /\ run[d].pc \in {"seal", "boundary", "read", "act", "reply"}
       \/ run[d].answer = "accepted" \/ run[d].inventory # {}
          => run[d].job # 0
    /\ run[d].job # 0
          => /\ run[d].job \in DOMAIN jobs
             /\ jobs[run[d].job].args = request[d].args
             /\ request[d].kind # "adapted" => jobs[run[d].job].key = run[d].key
    /\ request[d].kind # "adapted" => run[d].key = request[d].key
    /\ run[d].inventory # {}
          => /\ request[d].kind # "adapted"
             /\ jobs[run[d].job].state # "ended" =>
                   run[d].inventory \cap steady \subseteq grants[run[d].job]

\* How far the job is at least, by the rounds of submit_candidate's loop.
RoundsTrue(d) ==
    LET row == jobs[run[d].job]
    IN  /\ run[d].step \in 0..2
        /\ run[d].pc \notin {"read", "act", "reply", "done"} => run[d].step = 0
        /\ run[d].pc = "read" /\ run[d].step >= 1 => row.state # "draft"
        /\ run[d].pc = "read" /\ run[d].step = 2 => Reachable(row.state)
        /\ run[d].pc = "act"
              => \/ run[d].state = "draft" /\ run[d].version = 1 /\ run[d].step = 0
                 \/ /\ run[d].state = "admitted" /\ run[d].version = 2
                    /\ run[d].step < 2 /\ row.version >= 2
                    /\ row.version = 2 => row.state = "admitted"
        /\ run[d].pc = "reply" \/ run[d].answer = "accepted" => Reachable(row.state)

\* What find_active saw still holds when the draft is created: a delivery
\* that is about to create a job for its scope has the scope for itself.
ScopeClear(d) ==
    request[d].kind = "adapted" =>
        /\ run[d].pc = "draft" => WithKey(run[d].key) # {}
        /\ run[d].pc = "prepare" =>
              \/ WithKey(run[d].key) # {}
              \/ \A i \in DOMAIN jobs :
                    jobs[i].kind = "adapted" /\ jobs[i].args = request[d].args
                        => jobs[i].state = "ended" \/ jobs[i].parked

Sane(d) == LocksHeld(d) /\ NamesItsJob(d) /\ RoundsTrue(d) /\ ScopeClear(d)

\* The feature is on while a delivery holds the lock of its switch.
SwitchHeld == feature # NoDelivery => enabled

IInv ==
    /\ Shapes
    /\ KeysUnique
    /\ JobsTrue
    /\ SwitchHeld
    /\ OneLiveJob
    /\ LiveSourcesGranted
    /\ \A d \in Deliveries : Sane(d)

-----------------------------------------------------------------------------
(* The first of a set of jobs.                                             *)

LEMMA FirstIsOne ==
  ASSUME NEW S, S \subseteq Nat, S # {}
  PROVE  First(S) \in S
<1> DEFINE Less == {ss \in Nat \X Nat : ss[1] < ss[2]}
<1>1. IsWellFoundedOn(Less, Nat)
  BY NatLessThanWellFounded, Zenon DEF OpToRel
<1>2. PICK x \in S : \A y \in S : ~ (<<y, x>> \in Less)
  BY <1>1, WFMin, Zenon
<1>3. \A y \in S : x <= y
  <2> SUFFICES ASSUME NEW y \in S PROVE x <= y
    OBVIOUS
  <2>1. <<y, x>> \in Nat \X Nat /\ <<y, x>>[1] = y /\ <<y, x>>[2] = x
    OBVIOUS
  <2>2. ~(y < x)
    BY <1>2, <2>1, Zenon
  <2> QED
    BY <2>2
<1> QED
  BY <1>3 DEF First

-----------------------------------------------------------------------------
(* A step of one delivery, for the others.                                 *)

LEMMA Types ==
  ASSUME IInv
  PROVE  /\ jobs \in Seq(JobRow) /\ run \in [Deliveries -> RunRow]
         /\ DOMAIN jobs = 1..Len(jobs) /\ Len(jobs) \in Nat
         /\ \A i \in DOMAIN jobs : jobs[i] \in JobRow /\ RowTrue(jobs[i])
         /\ \A d \in Deliveries : run[d] \in RunRow /\ Sane(d)
         /\ grants \in Seq(SUBSET Files) /\ DOMAIN grants = DOMAIN jobs
  BY DEF IInv, Shapes, JobsTrue

LEMMA Carried ==
  ASSUME IInv, NEW d \in Deliveries
  PROVE  /\ request[d].key \in Keys /\ request[d].args \in AllArgs
         /\ request[d].kind \in Kinds /\ request[d].boundary \in BOOLEAN
         /\ d # NoDelivery
  BY DeliveriesAssumption DEF IInv, Shapes, Keys, AllArgs

\* What no transaction takes back.
Onward(r, s) ==
    /\ s.key = r.key /\ s.args = r.args /\ s.kind = r.kind
    /\ r.version <= s.version
    /\ r.version = s.version => r.state = s.state
    /\ r.state # "draft" => s.state # "draft"
    /\ Reachable(r.state) => Reachable(s.state)
    /\ r.state = "ended" => s.state = "ended"
    /\ r.parked => s.parked

\* Jobs go onward, and one that has not ended loses the grant of no file that
\* has been there all along.
Grown ==
    /\ jobs' \in Seq(JobRow)
    /\ Len(jobs) <= Len(jobs')
    /\ \A i \in DOMAIN jobs : Onward(jobs[i], jobs'[i])
    /\ steady' \subseteq steady
    /\ \A i \in DOMAIN jobs :
          jobs[i].state # "ended" => grants[i] \cap steady' \subseteq grants'[i]
    /\ request' = request

\* A step that grows the jobs and leaves a delivery alone leaves it sane; a
\* new job of an adapted request is created under the submissions lock.
LEMMA OthersSane ==
  ASSUME IInv, Grown, NEW e \in Deliveries,
         run'[e] = run[e],
         (submissions' = e) <=> (submissions = e),
         (feature' = e) <=> (feature = e),
         \A i \in DOMAIN jobs' :
             i \in DOMAIN jobs \/ jobs'[i].kind # "adapted" \/ submissions # e
  PROVE  Sane(e)'
<1>0. Sane(e) /\ run[e] \in RunRow /\ DOMAIN jobs \subseteq DOMAIN jobs'
  BY Types DEF Grown
<1>1. LocksHeld(e)'
  BY <1>0 DEF Sane, LocksHeld, Grown
<1>2. NamesItsJob(e)'
  <2>2. run[e].job # 0 => Onward(jobs[run[e].job], jobs'[run[e].job])
    BY <1>0 DEF Sane, NamesItsJob, Grown
  <2>1. run[e].inventory # {} /\ jobs'[run[e].job].state # "ended" =>
           run[e].inventory \cap steady' \subseteq grants'[run[e].job]
    BY <1>0, <2>2 DEF Sane, NamesItsJob, Grown, Onward
  <2> QED
    BY <1>0, <2>1, <2>2 DEF Sane, NamesItsJob, Grown, Onward
<1>3. RoundsTrue(e)'
  <2>1. CASE run[e].job = 0
    BY <1>0, <2>1 DEF Sane, RoundsTrue, NamesItsJob
  <2>2. CASE run[e].job # 0
    <3>1. Onward(jobs[run[e].job], jobs'[run[e].job])
      BY <1>0, <2>2 DEF Sane, NamesItsJob, Grown
    <3>2. jobs[run[e].job].version \in Nat /\ jobs'[run[e].job].version \in Nat
      <4>1. run[e].job \in DOMAIN jobs /\ run[e].job \in DOMAIN jobs'
        BY <1>0, <2>2 DEF Sane, NamesItsJob
      <4>2. jobs[run[e].job] \in JobRow /\ jobs'[run[e].job] \in JobRow
        BY <4>1, Types DEF Grown
      <4> QED
        BY <4>2 DEF JobRow
    <3> QED
      BY <1>0, <3>1, <3>2 DEF Sane, RoundsTrue, Onward
  <2> QED
    BY <2>1, <2>2
<1>4. ScopeClear(e)'
  <2>1. WithKey(run[e].key) # {} => WithKey(run[e].key)' # {}
    BY <1>0 DEF WithKey, Grown, Onward
  <2>2. request[e].kind = "adapted" /\ run[e].pc = "prepare" => submissions = e
    BY <1>0 DEF Sane, LocksHeld
  <2>3. ASSUME request[e].kind = "adapted", run[e].pc = "prepare",
               \A i \in DOMAIN jobs :
                    jobs[i].kind = "adapted" /\ jobs[i].args = request[e].args
                        => jobs[i].state = "ended" \/ jobs[i].parked
        PROVE  \A i \in DOMAIN jobs' :
                    jobs'[i].kind = "adapted" /\ jobs'[i].args = request[e].args
                        => jobs'[i].state = "ended" \/ jobs'[i].parked
    BY <2>2, <2>3 DEF Grown, Onward
  <2> QED
    BY <1>0, <2>1, <2>3 DEF Sane, ScopeClear, Grown
<1> QED
  BY <1>1, <1>2, <1>3, <1>4 DEF Sane

\* A lock changes hands with the delivery that steps, if at all.
Turns(holder, next, d) ==
    \/ next = holder
    \/ holder = NoDelivery /\ next = d
    \/ holder = d /\ next = NoDelivery

LEMMA TurnsOthers ==
  ASSUME NEW holder, NEW next, NEW d \in Deliveries, NEW e \in Deliveries,
         Turns(holder, next, d), e # d
  PROVE  (next = e) <=> (holder = e)
  BY DeliveriesAssumption DEF Turns

\* A delivery steps and the jobs stay as they are.
LEMMA QuietStep ==
  ASSUME IInv, NEW d \in Deliveries, NEW new \in RunRow,
         run' = [run EXCEPT ![d] = new],
         UNCHANGED <<jobs, enabled, files, steady, request>>,
         grants' \in Seq(SUBSET Files), Len(grants') = Len(grants),
         \A i \in DOMAIN jobs : grants[i] \cap steady \subseteq grants'[i],
         Turns(submissions, submissions', d), Turns(feature, feature', d),
         SwitchHeld', Sane(d)'
  PROVE  IInv'
<1>1. Grown
  <2>1. \A i \in DOMAIN jobs : Onward(jobs[i], jobs'[i])
    BY Types DEF Onward, JobRow
  <2> QED
    BY <2>1, Types DEF Grown
<1>2. run' \in [Deliveries -> RunRow]
  BY Types
<1>3. Shapes'
  BY <1>2, Types DEF IInv, Shapes, Turns
<1>4. KeysUnique' /\ JobsTrue' /\ OneLiveJob'
  BY DEF IInv, KeysUnique, JobsTrue, OneLiveJob
<1>5. LiveSourcesGranted'
  BY Types DEF IInv, LiveSourcesGranted
<1>6. ASSUME NEW e \in Deliveries PROVE Sane(e)'
  <2>1. CASE e = d
    BY <2>1
  <2>2. CASE e # d
    <3>1. run'[e] = run[e]
      BY <2>2, Types
    <3>2. /\ (submissions' = e) <=> (submissions = e)
          /\ (feature' = e) <=> (feature = e)
      BY <2>2, TurnsOthers
    <3> QED
      BY <1>1, <3>1, <3>2, OthersSane
  <2> QED
    BY <2>1, <2>2
<1> QED
  BY <1>3, <1>4, <1>5, <1>6 DEF IInv

LEMMA FinishKeeps ==
  ASSUME IInv, NEW d \in Deliveries, NEW answer \in Answers,
         Finish(d, answer), UNCHANGED <<jobs, enabled, files, steady, grants, request>>,
         answer = "accepted" => run[d].pc = "reply", run[d].pc # "done"
  PROVE  IInv'
<1> DEFINE new == [run[d] EXCEPT !.pc = "done", !.answer = answer]
<1>0. Sane(d) /\ run[d] \in RunRow /\ run \in [Deliveries -> RunRow]
  BY Types
<1>1. new \in RunRow /\ new.pc = "done" /\ new.answer = answer
      /\ new.job = run[d].job /\ new.inventory = run[d].inventory
      /\ new.key = run[d].key /\ new.step = run[d].step
  BY <1>0 DEF RunRow, Pcs
<1>2. run' = [run EXCEPT ![d] = new]
  BY <1>0 DEF Finish
<1> HIDE DEF new
<1>3. run'[d] = new
  BY <1>0, <1>2
<1>4. Turns(submissions, submissions', d) /\ Turns(feature, feature', d)
      /\ submissions' # d /\ feature' # d
  BY DeliveriesAssumption DEF Finish, Unlocked, Turns
<1>5. SwitchHeld'
  BY <1>4 DEF IInv, SwitchHeld, Turns, Finish, Unlocked
<1>6. run[d].answer # "accepted"
  BY <1>0 DEF Sane, NamesItsJob
<1>7. LocksHeld(d)'
  BY <1>1, <1>3, <1>4 DEF LocksHeld
<1>8. NamesItsJob(d)'
  BY <1>0, <1>1, <1>3 DEF Sane, NamesItsJob
<1>9. RoundsTrue(d)'
  BY <1>0, <1>1, <1>3 DEF Sane, RoundsTrue
<1>10. ScopeClear(d)'
  BY <1>1, <1>3 DEF ScopeClear
<1>11. Sane(d)'
  BY <1>7, <1>8, <1>9, <1>10 DEF Sane
<1> QED
  BY <1>1, <1>2, <1>4, <1>5, <1>11, QuietStep, Types

-----------------------------------------------------------------------------
(* The steps of a delivery that write no job.                              *)

LEMMA BeginKeeps ==
  ASSUME IInv, NEW d \in Deliveries, Begin(d), request' = request
  PROVE  IInv'
<1>0. Sane(d) /\ run[d] \in RunRow /\ run \in [Deliveries -> RunRow] /\ run[d].pc = "new"
      /\ UNCHANGED <<jobs, enabled, files, steady, grants>>
  BY Types DEF Begin
<1>1. CASE ~enabled
  BY <1>0, <1>1, FinishKeeps DEF Begin, Answers
<1>2. CASE enabled
  <2>1. PICK pc \in {"lock", "prepare", "draft"} :
          /\ run' = [run EXCEPT ![d].pc = pc]
          /\ pc = "lock" <=> request[d].kind = "adapted"
    BY <1>2, Carried DEF Begin, Goto, Kinds
  <2> DEFINE new == [run[d] EXCEPT !.pc = pc]
  <2>2. /\ new \in RunRow /\ new.pc = pc /\ new.answer = run[d].answer
        /\ new.job = run[d].job /\ new.inventory = run[d].inventory
        /\ new.key = run[d].key /\ new.step = run[d].step
    BY <1>0 DEF RunRow, Pcs
  <2>3. run' = [run EXCEPT ![d] = new] /\ UNCHANGED <<submissions, feature>>
    BY <1>0, <1>2, <2>1 DEF Begin
  <2> HIDE DEF new
  <2>4. run'[d] = new
    BY <1>0, <2>3
  <2>5. LocksHeld(d)'
    BY <1>0, <2>1, <2>2, <2>3, <2>4 DEF Sane, LocksHeld
  <2>6. NamesItsJob(d)' /\ RoundsTrue(d)'
    BY <1>0, <2>1, <2>2, <2>4 DEF Sane, NamesItsJob, RoundsTrue
  <2>7. ScopeClear(d)'
    BY <2>1, <2>2, <2>4 DEF ScopeClear
  <2>8. SwitchHeld' /\ Turns(submissions, submissions', d) /\ Turns(feature, feature', d)
    BY <1>0, <2>3 DEF IInv, SwitchHeld, Turns
  <2> QED
    BY <1>0, <2>2, <2>3, <2>5, <2>6, <2>7, <2>8, QuietStep, Types DEF Sane
<1> QED
  BY <1>1, <1>2

LEMMA LockSubmissionsKeeps ==
  ASSUME IInv, NEW d \in Deliveries, LockSubmissions(d), request' = request
  PROVE  IInv'
<1> DEFINE new == [run[d] EXCEPT !.pc = "find_key"]
<1>0. Sane(d) /\ run[d] \in RunRow /\ run \in [Deliveries -> RunRow] /\ run[d].pc = "lock"
      /\ UNCHANGED <<jobs, enabled, files, steady, grants, feature>>
      /\ submissions = NoDelivery /\ submissions' = d
  BY Types DEF LockSubmissions, Free
<1>2. /\ new \in RunRow /\ new.pc = "find_key" /\ new.answer = run[d].answer
      /\ new.job = run[d].job /\ new.inventory = run[d].inventory
      /\ new.key = run[d].key /\ new.step = run[d].step
  BY <1>0 DEF RunRow, Pcs
<1>3. run' = [run EXCEPT ![d] = new]
  BY <1>0 DEF LockSubmissions, Goto
<1> HIDE DEF new
<1>4. run'[d] = new
  BY <1>0, <1>3
<1>5. LocksHeld(d)'
  BY <1>0, <1>2, <1>4 DEF Sane, LocksHeld
<1>6. NamesItsJob(d)' /\ RoundsTrue(d)'
  BY <1>0, <1>2, <1>4 DEF Sane, NamesItsJob, RoundsTrue
<1>7. ScopeClear(d)'
  BY <1>2, <1>4 DEF ScopeClear
<1>8. SwitchHeld' /\ Turns(submissions, submissions', d) /\ Turns(feature, feature', d)
  BY <1>0 DEF IInv, SwitchHeld, Turns
<1> QED
  BY <1>0, <1>2, <1>3, <1>5, <1>6, <1>7, <1>8, QuietStep, Types DEF Sane

\* A delivery finds the job that answers it: it replies with that job.
LEMMA FoundKeeps ==
  ASSUME IInv, NEW d \in Deliveries, NEW i \in DOMAIN jobs,
         run[d].pc \in {"find_key", "find_active"},
         run' = [run EXCEPT ![d].pc = "reply", ![d].job = i],
         jobs[i].args = request[d].args, Reachable(jobs[i].state),
         UNCHANGED <<jobs, submissions, feature, enabled, files, steady, grants, request>>
  PROVE  IInv'
<1> DEFINE new == [run[d] EXCEPT !.pc = "reply", !.job = i]
<1>0. /\ Sane(d) /\ run[d] \in RunRow /\ run \in [Deliveries -> RunRow]
      /\ i \in Nat /\ i # 0
  BY Types
<1>1. request[d].kind = "adapted" /\ submissions = d
  BY <1>0 DEF Sane, LocksHeld
<1>2. /\ new \in RunRow /\ new.pc = "reply" /\ new.answer = run[d].answer
      /\ new.job = i /\ new.inventory = run[d].inventory
      /\ new.key = run[d].key /\ new.step = run[d].step
  BY <1>0 DEF RunRow, Pcs
<1>3. run' = [run EXCEPT ![d] = new]
  BY <1>0
<1> HIDE DEF new
<1>4. run'[d] = new
  BY <1>0, <1>3
<1>5. LocksHeld(d)'
  BY <1>0, <1>1, <1>2, <1>4 DEF Sane, LocksHeld
<1>6. NamesItsJob(d)'
  BY <1>0, <1>1, <1>2, <1>4 DEF Sane, NamesItsJob
<1>7. RoundsTrue(d)'
  BY <1>0, <1>2, <1>4 DEF Sane, RoundsTrue
<1>8. ScopeClear(d)'
  BY <1>2, <1>4 DEF ScopeClear
<1>9. SwitchHeld' /\ Turns(submissions, submissions', d) /\ Turns(feature, feature', d)
  BY DEF IInv, SwitchHeld, Turns
<1> QED
  BY <1>0, <1>2, <1>3, <1>5, <1>6, <1>7, <1>8, <1>9, QuietStep, Types DEF Sane

LEMMA FindKeyKeeps ==
  ASSUME IInv, NEW d \in Deliveries, FindKey(d), request' = request
  PROVE  IInv'
<1> DEFINE found == WithKey(run[d].key)
           i == First(found)
           new == [run[d] EXCEPT !.pc = "find_active"]
<1>0. /\ Sane(d) /\ run[d] \in RunRow /\ run \in [Deliveries -> RunRow]
      /\ run[d].pc = "find_key" /\ UNCHANGED <<jobs, enabled, files, steady, grants>>
  BY Types DEF FindKey
<1>1. found # {} => i \in DOMAIN jobs
  <2>1. found \subseteq DOMAIN jobs /\ DOMAIN jobs \subseteq Nat
    BY Types DEF WithKey
  <2> HIDE DEF found
  <2> QED
    BY <2>1, FirstIsOne
<1>2. CASE found # {} /\ jobs[i].args # request[d].args
  <2>1. Finish(d, "conflict")
    BY <1>2 DEF FindKey
  <2> QED
    BY <1>0, <2>1, FinishKeeps DEF Answers
<1>3. CASE ~(found # {} /\ jobs[i].args # request[d].args)
           /\ found # {} /\ Reachable(jobs[i].state)
  <2>1. run' = [run EXCEPT ![d].pc = "reply", ![d].job = i]
        /\ UNCHANGED <<submissions, feature>>
    BY <1>3 DEF FindKey
  <2> HIDE DEF i
  <2>2. PICK k \in DOMAIN jobs : k = i
    BY <1>1, <1>3
  <2> QED
    BY <1>0, <1>3, <2>1, <2>2, FoundKeeps
<1>4. CASE ~(found # {} /\ jobs[i].args # request[d].args)
           /\ ~(found # {} /\ Reachable(jobs[i].state))
  <2>1. run' = [run EXCEPT ![d].pc = "find_active"] /\ UNCHANGED <<submissions, feature>>
    BY <1>4 DEF FindKey, Goto
  <2>2. /\ new \in RunRow /\ new.pc = "find_active" /\ new.answer = run[d].answer
        /\ new.job = run[d].job /\ new.inventory = run[d].inventory
        /\ new.key = run[d].key /\ new.step = run[d].step
    BY <1>0 DEF RunRow, Pcs
  <2>3. run' = [run EXCEPT ![d] = new]
    BY <1>0, <2>1
  <2> HIDE DEF new
  <2>4. run'[d] = new
    BY <1>0, <2>3
  <2>5. LocksHeld(d)'
    BY <1>0, <2>1, <2>2, <2>4 DEF Sane, LocksHeld
  <2>6. NamesItsJob(d)' /\ RoundsTrue(d)'
    BY <1>0, <2>2, <2>4 DEF Sane, NamesItsJob, RoundsTrue
  <2>7. ScopeClear(d)'
    BY <2>2, <2>4 DEF ScopeClear
  <2>8. SwitchHeld' /\ Turns(submissions, submissions', d) /\ Turns(feature, feature', d)
    BY <1>0, <2>1 DEF IInv, SwitchHeld, Turns
  <2> QED
    BY <1>0, <2>2, <2>3, <2>5, <2>6, <2>7, <2>8, QuietStep, Types DEF Sane
<1> QED
  BY <1>2, <1>3, <1>4

\* A delivery goes on to create its job, or takes over one of its scope.
LEMMA ToPrepareKeeps ==
  ASSUME IInv, NEW d \in Deliveries, NEW key \in Keys, run[d].pc = "find_active",
         run' = [run EXCEPT ![d].pc = "prepare", ![d].key = key],
         \/ WithKey(key) # {}
         \/ \A i \in DOMAIN jobs :
                jobs[i].kind = "adapted" /\ jobs[i].args = request[d].args
                    => jobs[i].state = "ended" \/ jobs[i].parked,
         UNCHANGED <<jobs, submissions, feature, enabled, files, steady, grants, request>>
  PROVE  IInv'
<1> DEFINE new == [run[d] EXCEPT !.pc = "prepare", !.key = key]
<1>0. Sane(d) /\ run[d] \in RunRow /\ run \in [Deliveries -> RunRow]
  BY Types
<1>1. request[d].kind = "adapted" /\ submissions = d
  BY <1>0 DEF Sane, LocksHeld
<1>2. /\ new \in RunRow /\ new.pc = "prepare" /\ new.answer = run[d].answer
      /\ new.job = run[d].job /\ new.inventory = run[d].inventory
      /\ new.key = key /\ new.step = run[d].step
  BY <1>0 DEF RunRow, Pcs
<1>3. run' = [run EXCEPT ![d] = new]
  BY <1>0
<1> HIDE DEF new
<1>4. run'[d] = new
  BY <1>0, <1>3
<1>5. LocksHeld(d)'
  BY <1>0, <1>1, <1>2, <1>4 DEF Sane, LocksHeld
<1>6. NamesItsJob(d)' /\ RoundsTrue(d)'
  BY <1>0, <1>1, <1>2, <1>4 DEF Sane, NamesItsJob, RoundsTrue
<1>7. ScopeClear(d)'
  BY <1>2, <1>4 DEF ScopeClear, WithKey
<1>8. SwitchHeld' /\ Turns(submissions, submissions', d) /\ Turns(feature, feature', d)
  BY DEF IInv, SwitchHeld, Turns
<1> QED
  BY <1>0, <1>2, <1>3, <1>5, <1>6, <1>7, <1>8, QuietStep, Types DEF Sane

\* find_active sees every unfinished job of the scope but those that wait
\* for the owner, and these are marked.
LEMMA FindActiveKeeps ==
  ASSUME IInv, NEW d \in Deliveries, FindActive(d), request' = request
  PROVE  IInv'
<1> DEFINE i == First(InScope(d))
<1>0. /\ Sane(d) /\ run[d] \in RunRow /\ run \in [Deliveries -> RunRow]
      /\ run[d].pc = "find_active"
      /\ UNCHANGED <<jobs, submissions, feature, enabled, files, steady, grants>>
  BY Types DEF FindActive
<1>1. CASE InScope(d) = {}
  <2>1. run' = [run EXCEPT ![d].pc = "prepare", ![d].key = run[d].key]
    BY <1>0, <1>1 DEF FindActive, Goto, RunRow
  <2>2. \A k \in DOMAIN jobs :
            jobs[k].kind = "adapted" /\ jobs[k].args = request[d].args
                => jobs[k].state = "ended" \/ jobs[k].parked
    BY <1>1, Types DEF InScope, RowTrue
  <2>3. run[d].key \in Keys
    BY <1>0 DEF RunRow
  <2> QED
    BY <1>0, <2>1, <2>2, <2>3, ToPrepareKeeps
<1>2. CASE InScope(d) # {}
  <2>1. PICK k \in InScope(d) : k = i
    <3>1. InScope(d) \subseteq Nat
      BY Types DEF InScope
    <3> QED
      BY <1>2, <3>1, FirstIsOne
  <2>2. /\ k \in DOMAIN jobs /\ jobs[k].args = request[d].args /\ jobs[k].key \in Keys
        /\ k \in WithKey(jobs[k].key)
    BY <2>1, Types DEF InScope, WithKey, JobRow
  <2> HIDE DEF i
  <2>3. CASE Reachable(jobs[k].state)
    <3>1. run' = [run EXCEPT ![d].pc = "reply", ![d].job = k]
      BY <1>2, <2>1, <2>3 DEF FindActive, i
    <3> QED
      BY <1>0, <2>2, <2>3, <3>1, FoundKeeps
  <2>4. CASE ~Reachable(jobs[k].state)
    <3>1. run' = [run EXCEPT ![d].pc = "prepare", ![d].key = jobs[k].key]
      BY <1>2, <2>1, <2>4 DEF FindActive, i
    <3>2. WithKey(jobs[k].key) # {}
      BY <2>2
    <3> QED
      BY <1>0, <2>2, <3>1, <3>2, ToPrepareKeeps
  <2> QED
    BY <2>3, <2>4
<1> QED
  BY <1>1, <1>2

\* Sealing renews the grants of everything that is there.
LEMMA SealKeeps ==
  ASSUME IInv, NEW d \in Deliveries, Seal(d), request' = request
  PROVE  IInv'
<1> DEFINE new == [run[d] EXCEPT !.pc = "draft", !.inventory = files]
           k == run[d].job
<1>0. /\ Sane(d) /\ run[d] \in RunRow /\ run \in [Deliveries -> RunRow]
      /\ run[d].pc = "seal" /\ files \subseteq Files /\ steady \subseteq files
      /\ UNCHANGED <<jobs, submissions, feature, enabled, files, steady>>
  BY Types DEF Seal, IInv, Shapes
<1>1. request[d].kind = "registered" /\ k # 0 /\ k \in DOMAIN jobs
  BY <1>0 DEF Sane, LocksHeld, NamesItsJob
<1>2. /\ new \in RunRow /\ new.pc = "draft" /\ new.answer = run[d].answer
      /\ new.job = k /\ new.inventory = files
      /\ new.key = run[d].key /\ new.step = run[d].step
  BY <1>0 DEF RunRow, Pcs
<1>3. run' = [run EXCEPT ![d] = new]
  BY <1>0 DEF Seal
<1>g. grants' = [grants EXCEPT ![k] = files]
  BY DEF Seal, Granted
<1> HIDE DEF new
<1>4. run'[d] = new
  BY <1>0, <1>3
<1>5. /\ grants' \in Seq(SUBSET Files) /\ Len(grants') = Len(grants)
      /\ \A i \in DOMAIN jobs : grants[i] \cap steady \subseteq grants'[i]
      /\ grants'[k] = files
  BY <1>0, <1>1, <1>g, Types
<1>6. LocksHeld(d)'
  BY <1>0, <1>1, <1>2, <1>4 DEF Sane, LocksHeld
<1>7. NamesItsJob(d)'
  BY <1>0, <1>1, <1>2, <1>4, <1>5 DEF Sane, NamesItsJob
<1>8. RoundsTrue(d)'
  BY <1>0, <1>2, <1>4 DEF Sane, RoundsTrue, NamesItsJob
<1>9. ScopeClear(d)'
  BY <1>1 DEF ScopeClear
<1>10. SwitchHeld' /\ Turns(submissions, submissions', d) /\ Turns(feature, feature', d)
  BY <1>0 DEF IInv, SwitchHeld, Turns
<1> QED
  BY <1>0, <1>2, <1>3, <1>5, <1>6, <1>7, <1>8, <1>9, <1>10, QuietStep DEF Sane

LEMMA LockFeatureKeeps ==
  ASSUME IInv, NEW d \in Deliveries, LockFeature(d), request' = request
  PROVE  IInv'
<1> DEFINE new == [run[d] EXCEPT !.pc = "read"]
<1>0. /\ Sane(d) /\ run[d] \in RunRow /\ run \in [Deliveries -> RunRow]
      /\ run[d].pc = "boundary"
      /\ UNCHANGED <<jobs, enabled, files, steady, grants>>
  BY Types DEF LockFeature
<1>1. CASE request[d].boundary /\ ~Gate
  BY <1>0, <1>1, FinishKeeps DEF LockFeature, Answers
<1>2. CASE ~request[d].boundary \/ Gate
  <2>1. /\ run' = [run EXCEPT ![d].pc = "read"] /\ submissions' = submissions
        /\ \/ ~request[d].boundary /\ feature' = feature
           \/ feature = NoDelivery /\ feature' = d /\ enabled
    BY <1>2 DEF LockFeature, Goto, Free, Gate
  <2>2. /\ new \in RunRow /\ new.pc = "read" /\ new.answer = run[d].answer
        /\ new.job = run[d].job /\ new.inventory = run[d].inventory
        /\ new.key = run[d].key /\ new.step = run[d].step
    BY <1>0 DEF RunRow, Pcs
  <2>3. run' = [run EXCEPT ![d] = new]
    BY <1>0, <2>1
  <2> HIDE DEF new
  <2>4. run'[d] = new
    BY <1>0, <2>3
  <2>5. LocksHeld(d)'
    BY <1>0, <2>1, <2>2, <2>4 DEF Sane, LocksHeld
  <2>6. NamesItsJob(d)'
    BY <1>0, <2>2, <2>4 DEF Sane, NamesItsJob
  <2>7. RoundsTrue(d)'
    BY <1>0, <2>2, <2>4 DEF Sane, RoundsTrue, NamesItsJob
  <2>8. ScopeClear(d)'
    BY <2>2, <2>4 DEF ScopeClear
  <2>9. SwitchHeld' /\ Turns(submissions, submissions', d) /\ Turns(feature, feature', d)
    BY <1>0, <2>1 DEF IInv, SwitchHeld, Turns
  <2> QED
    BY <1>0, <2>2, <2>3, <2>5, <2>6, <2>7, <2>8, <2>9, QuietStep, Types DEF Sane
<1> QED
  BY <1>1, <1>2

\* The rounds end before the loop's bound: whoever reads for the third time
\* finds the job queued.
LEMMA RereadKeeps ==
  ASSUME IInv, NEW d \in Deliveries, Reread(d), request' = request
  PROVE  IInv'
<1> DEFINE row == jobs[run[d].job]
           pc == IF Reachable(row.state) THEN "reply" ELSE "act"
           new == [run[d] EXCEPT !.pc = pc, !.state = row.state, !.version = row.version]
<1>0. /\ Sane(d) /\ run[d] \in RunRow /\ run \in [Deliveries -> RunRow]
      /\ run[d].pc = "read"
      /\ UNCHANGED <<jobs, enabled, files, steady, grants>>
  BY Types DEF Reread
<1>1. run[d].step # MaxSteps
  BY <1>0 DEF Sane, RoundsTrue, MaxSteps
<1>2. row \in JobRow /\ RowTrue(row)
  BY <1>0, Types DEF Sane, NamesItsJob
<1>3. run' = [run EXCEPT ![d].pc = pc, ![d].state = row.state, ![d].version = row.version]
      /\ UNCHANGED <<submissions, feature>>
  BY <1>1 DEF Reread
<1> HIDE DEF row
<1>4. pc \in Pcs /\ row.state \in States \cup {""} /\ row.version \in Nat
  BY <1>2 DEF Pcs, JobRow
<1>5. /\ new \in RunRow /\ new.pc = pc /\ new.answer = run[d].answer
      /\ new.job = run[d].job /\ new.inventory = run[d].inventory
      /\ new.key = run[d].key /\ new.step = run[d].step
      /\ new.state = row.state /\ new.version = row.version
  BY <1>0, <1>4 DEF RunRow
<1>6. run' = [run EXCEPT ![d] = new]
  BY <1>0, <1>3
<1> HIDE DEF new
<1>7. run'[d] = new
  BY <1>0, <1>6
<1>8. LocksHeld(d)'
  BY <1>0, <1>3, <1>5, <1>7 DEF Sane, LocksHeld
<1>9. NamesItsJob(d)'
  BY <1>0, <1>5, <1>7 DEF Sane, NamesItsJob
<1>10. RoundsTrue(d)'
  <2>1. row.state = "draft" => row.version = 1
    BY <1>2 DEF RowTrue
  <2>2. row.state = "admitted" => row.version = 2
    BY <1>2 DEF RowTrue
  <2> QED
    BY <1>0, <1>5, <1>7, <2>1, <2>2 DEF Sane, RoundsTrue, NamesItsJob, row, Reachable, Unqueued
<1>11. ScopeClear(d)'
  BY <1>5, <1>7 DEF ScopeClear
<1>12. SwitchHeld' /\ Turns(submissions, submissions', d) /\ Turns(feature, feature', d)
  BY <1>0, <1>3 DEF IInv, SwitchHeld, Turns
<1> QED
  BY <1>0, <1>5, <1>6, <1>8, <1>9, <1>10, <1>11, <1>12, QuietStep, Types DEF Sane

\* The steps that only end a delivery.
LEMMA EndsKeep ==
  ASSUME IInv, NEW d \in Deliveries, LockTimeout(d) \/ Reply(d) \/ Crash(d),
         request' = request
  PROVE  IInv'
<1>1. CASE LockTimeout(d)
  BY <1>1, FinishKeeps DEF LockTimeout, Answers
<1>2. CASE Reply(d)
  BY <1>2, FinishKeeps DEF Reply, Answers
<1>3. CASE Crash(d)
  BY <1>3, FinishKeeps DEF Crash, Answers
<1> QED
  BY <1>1, <1>2, <1>3

-----------------------------------------------------------------------------
(* The steps that write a job.                                             *)

\* One job goes onward.
LEMMA JobStep ==
  ASSUME IInv, NEW i \in DOMAIN jobs, NEW new \in JobRow,
         jobs' = [jobs EXCEPT ![i] = new],
         Onward(jobs[i], new), RowTrue(new),
         new.sealed /\ new.state # "ended" =>
             new.revision \cap steady \subseteq grants[i],
         UNCHANGED <<files, steady, grants, request>>
  PROVE  /\ Grown /\ KeysUnique' /\ JobsTrue' /\ OneLiveJob' /\ LiveSourcesGranted'
         /\ DOMAIN jobs' = DOMAIN jobs /\ Len(jobs') = Len(jobs) /\ jobs'[i] = new
<1>0. /\ jobs' \in Seq(JobRow) /\ DOMAIN jobs' = DOMAIN jobs /\ Len(jobs') = Len(jobs)
      /\ jobs'[i] = new /\ Len(jobs) \in Nat
      /\ \A k \in DOMAIN jobs : k # i => jobs'[k] = jobs[k]
  BY Types
<1>1. \A k \in DOMAIN jobs : Onward(jobs[k], jobs'[k])
  <2> SUFFICES ASSUME NEW k \in DOMAIN jobs PROVE Onward(jobs[k], jobs'[k])
    OBVIOUS
  <2>1. CASE k = i
    BY <1>0, <2>1
  <2>2. CASE k # i
    BY <1>0, <2>2, Types DEF Onward, JobRow
  <2> QED
    BY <2>1, <2>2
<1>2. Grown
  BY <1>0, <1>1 DEF Grown
<1>3. KeysUnique'
  BY <1>0, <1>1 DEF IInv, KeysUnique, Onward
<1>4. JobsTrue'
  BY <1>0 DEF IInv, JobsTrue
<1>5. OneLiveJob'
  BY <1>0, <1>1 DEF IInv, OneLiveJob, Onward
<1>6. LiveSourcesGranted'
  BY <1>0 DEF IInv, LiveSourcesGranted
<1> QED
  BY <1>0, <1>2, <1>3, <1>4, <1>5, <1>6

\* A delivery steps and the jobs grow.
LEMMA LoudStep ==
  ASSUME IInv, NEW d \in Deliveries, NEW new \in RunRow,
         run' = [run EXCEPT ![d] = new],
         Grown, KeysUnique', JobsTrue', OneLiveJob', LiveSourcesGranted',
         grants' \in Seq(SUBSET Files), Len(grants') = Len(jobs'),
         \A i \in DOMAIN jobs' :
             i \in DOMAIN jobs \/ jobs'[i].kind # "adapted" \/ submissions = d,
         UNCHANGED <<submissions, feature, enabled, files, steady>>, Sane(d)'
  PROVE  IInv'
<1>1. run' \in [Deliveries -> RunRow]
  BY Types
<1>2. Shapes'
  BY <1>1, Types DEF IInv, Shapes, Grown
<1>3. ASSUME NEW e \in Deliveries PROVE Sane(e)'
  <2>1. CASE e = d
    BY <2>1
  <2>2. CASE e # d
    <3>1. run'[e] = run[e]
      BY <2>2, Types
    <3> QED
      BY <2>2, <3>1, OthersSane
  <2> QED
    BY <2>1, <2>2
<1>4. SwitchHeld'
  BY DEF IInv, SwitchHeld
<1> QED
  BY <1>2, <1>3, <1>4 DEF IInv

\* The service and the owner move a job.
LEMMA MoveJobKeeps ==
  ASSUME IInv, NEW i \in DOMAIN jobs, MoveJob(i), request' = request
  PROVE  IInv'
<1>1. PICK state \in JobMoves[jobs[i].state] :
        /\ jobs[i].version < MaxVersion
        /\ jobs' = [jobs EXCEPT ![i].state = state, ![i].version = @ + 1,
                                ![i].parked = @ \/ state = "needs_attention"]
  BY DEF MoveJob
<1>2. UNCHANGED <<run, submissions, feature, enabled, files, steady, grants>>
  BY DEF MoveJob
<1> DEFINE n == jobs[i].version + 1
           p == jobs[i].parked \/ state = "needs_attention"
           new == [jobs[i] EXCEPT !.state = state, !.version = n, !.parked = p]
<1>3. jobs[i] \in JobRow /\ RowTrue(jobs[i]) /\ MaxVersion \in Nat
  BY Types, DeliveriesAssumption
<1>4. jobs[i].state \in States /\ jobs[i].version \in Nat /\ jobs[i].parked \in BOOLEAN
  BY <1>3 DEF JobRow
<1>5. /\ state \in States /\ state \notin Unqueued /\ state # "draft"
      /\ jobs[i].state = "ended" => state = "ended"
  BY <1>4 DEF JobMoves, States, Unqueued
<1>6. n \in Nat /\ n > jobs[i].version /\ n <= MaxVersion /\ n # 1 /\ n >= 1
  BY <1>1, <1>3, <1>4 DEF RowTrue
<1>7. p \in BOOLEAN /\ (jobs[i].parked => p) /\ (state = "needs_attention" => p)
  BY <1>4
<1>8. jobs' = [jobs EXCEPT ![i] = new]
  BY <1>1, Types
<1> HIDE DEF n, p
<1>9. /\ new \in JobRow /\ new.state = state /\ new.version = n /\ new.parked = p
      /\ new.key = jobs[i].key /\ new.args = jobs[i].args /\ new.kind = jobs[i].kind
      /\ new.sealed = jobs[i].sealed /\ new.revision = jobs[i].revision
  BY <1>3, <1>5, <1>6, <1>7 DEF JobRow
<1> HIDE DEF new
<1>10. Onward(jobs[i], new)
  BY <1>4, <1>5, <1>6, <1>7, <1>9 DEF Onward, Reachable
<1>11. RowTrue(new)
  BY <1>3, <1>5, <1>6, <1>7, <1>9 DEF RowTrue, Unqueued
<1>12. new.sealed /\ new.state # "ended" =>
          new.revision \cap steady \subseteq grants[i]
  BY <1>5, <1>9 DEF IInv, LiveSourcesGranted
<1>13. /\ Grown /\ KeysUnique' /\ JobsTrue' /\ OneLiveJob' /\ LiveSourcesGranted'
       /\ DOMAIN jobs' = DOMAIN jobs /\ Len(jobs') = Len(jobs)
  BY <1>2, <1>8, <1>9, <1>10, <1>11, <1>12, JobStep
<1>14. ASSUME NEW e \in Deliveries PROVE Sane(e)'
  BY <1>2, <1>13, OthersSane
<1>15. Shapes' /\ SwitchHeld'
  BY <1>2, <1>13 DEF IInv, Shapes, SwitchHeld, Grown
<1> QED
  BY <1>13, <1>14, <1>15 DEF IInv

\* The next round: the job is further than what the last one read.
LEMMA NextRoundSane ==
  ASSUME IInv, NEW d \in Deliveries, Grown, NextRound(d), run[d].pc = "act",
         UNCHANGED <<submissions, feature, files, steady>>,
         jobs'[run[d].job].state # "draft",
         run[d].state = "admitted" => Reachable(jobs'[run[d].job].state)
  PROVE  /\ Sane(d)'
         /\ \E new \in RunRow : run' = [run EXCEPT ![d] = new]
<1> DEFINE n == run[d].step + 1
           new == [run[d] EXCEPT !.pc = "read", !.step = n]
           k == run[d].job
<1>0. /\ Sane(d) /\ run[d] \in RunRow /\ run \in [Deliveries -> RunRow]
  BY Types
<1>1. k # 0 /\ k \in DOMAIN jobs /\ Onward(jobs[k], jobs'[k]) /\ k \in DOMAIN jobs'
  BY <1>0, Types DEF Sane, NamesItsJob, Grown
<1>2. n \in Nat /\ n \in 1..2 /\ (n = 2 => run[d].state = "admitted")
  <2>1. /\ run[d].step \in 0..2
        /\ run[d].step = 0 \/ (run[d].step < 2 /\ run[d].state = "admitted")
    BY <1>0 DEF Sane, RoundsTrue
  <2> QED
    BY <2>1
<1>3. run' = [run EXCEPT ![d] = new]
  BY <1>0 DEF NextRound
<1> HIDE DEF n
<1>4. /\ new \in RunRow /\ new.pc = "read" /\ new.answer = run[d].answer
      /\ new.job = k /\ new.inventory = run[d].inventory
      /\ new.key = run[d].key /\ new.step = n
  BY <1>0, <1>2 DEF RunRow, Pcs
<1> HIDE DEF new
<1>5. run'[d] = new
  BY <1>0, <1>3
<1>6. LocksHeld(d)'
  BY <1>0, <1>4, <1>5 DEF Sane, LocksHeld, Grown
<1>7. NamesItsJob(d)'
  <2>1. run[d].inventory # {} /\ jobs'[k].state # "ended" =>
           run[d].inventory \cap steady' \subseteq grants'[k]
    BY <1>0, <1>1 DEF Sane, NamesItsJob, Grown, Onward
  <2> QED
    BY <1>0, <1>1, <1>4, <1>5, <2>1 DEF Sane, NamesItsJob, Onward, Grown
<1>8. RoundsTrue(d)'
  <2>1. run[d].answer # "accepted"
    BY <1>0 DEF Sane, NamesItsJob
  <2> QED
    BY <1>2, <1>4, <1>5, <2>1 DEF RoundsTrue
<1>9. ScopeClear(d)'
  BY <1>4, <1>5 DEF ScopeClear
<1> QED
  BY <1>3, <1>4, <1>6, <1>7, <1>8, <1>9 DEF Sane

\* Nothing of the jobs changes.
LEMMA UnchangedGrown ==
  ASSUME IInv, UNCHANGED <<jobs, files, steady, grants, request>>
  PROVE  /\ Grown /\ KeysUnique' /\ JobsTrue' /\ OneLiveJob' /\ LiveSourcesGranted'
         /\ grants' \in Seq(SUBSET Files) /\ Len(grants') = Len(jobs')
         /\ DOMAIN jobs' = DOMAIN jobs
<1>1. \A i \in DOMAIN jobs : Onward(jobs[i], jobs'[i])
  BY Types DEF Onward, JobRow
<1>2. Grown
  BY <1>1, Types DEF Grown
<1>3. KeysUnique' /\ JobsTrue' /\ OneLiveJob' /\ LiveSourcesGranted'
  BY DEF IInv, KeysUnique, JobsTrue, OneLiveJob, LiveSourcesGranted
<1> QED
  BY <1>2, <1>3, Types DEF IInv, Shapes

LEMMA AdmitKeeps ==
  ASSUME IInv, NEW d \in Deliveries, Admit(d), request' = request
  PROVE  IInv'
<1> DEFINE i == run[d].job
           duplicate == jobs[i].sealed /\ jobs[i].revision = run[d].inventory
<1>0. /\ Sane(d) /\ run[d] \in RunRow /\ run[d].pc = "act" /\ run[d].state = "draft"
      /\ NextRound(d)
      /\ UNCHANGED <<submissions, feature, enabled, files, steady, grants>>
  BY Types DEF Admit
<1>1. i \in DOMAIN jobs /\ jobs[i] \in JobRow /\ RowTrue(jobs[i]) /\ run[d].version = 1
  BY <1>0, Types DEF Sane, NamesItsJob, RoundsTrue
<1>2. CASE duplicate \/ ~SameVersion(d)
  <2>1. jobs' = jobs /\ jobs[i].state # "draft"
    BY <1>1, <1>2 DEF Admit, SameVersion, RowTrue
  <2>2. Sane(d)' /\ \E new \in RunRow : run' = [run EXCEPT ![d] = new]
    BY <1>0, <2>1, UnchangedGrown, NextRoundSane
  <2> QED
    BY <1>0, <2>1, <2>2, UnchangedGrown, LoudStep
<1>3. CASE ~duplicate /\ SameVersion(d)
  <2> DEFINE n == jobs[i].version + 1
             new == [jobs[i] EXCEPT !.state = "admitted", !.version = n,
                                    !.sealed = TRUE, !.revision = run[d].inventory]
  <2>1. jobs[i].version = 1 /\ jobs[i].state = "draft"
    BY <1>1, <1>3 DEF SameVersion, RowTrue
  <2>2. jobs' = [jobs EXCEPT ![i].state = "admitted", ![i].version = @ + 1,
                             ![i].sealed = TRUE, ![i].revision = run[d].inventory]
    BY <1>3 DEF Admit
  <2>3. jobs' = [jobs EXCEPT ![i] = new]
    BY <1>1, <2>2, Types
  <2>n. n = 2
    BY <2>1
  <2> HIDE DEF n
  <2>4. /\ new \in JobRow /\ new.state = "admitted" /\ new.version = 2
        /\ new.key = jobs[i].key /\ new.args = jobs[i].args /\ new.kind = jobs[i].kind
        /\ new.sealed /\ new.revision = run[d].inventory /\ new.parked = jobs[i].parked
    BY <1>0, <1>1, <2>n DEF JobRow, RunRow, States
  <2> HIDE DEF new
  <2>5. Onward(jobs[i], new)
    BY <2>1, <2>4 DEF Onward, Reachable, Unqueued
  <2>6. RowTrue(new)
    BY <2>4, DeliveriesAssumption DEF RowTrue
  <2>7. new.revision \cap steady \subseteq grants[i]
    BY <1>0, <2>1, <2>4 DEF Sane, NamesItsJob
  <2>8. /\ Grown /\ KeysUnique' /\ JobsTrue' /\ OneLiveJob' /\ LiveSourcesGranted'
        /\ DOMAIN jobs' = DOMAIN jobs /\ Len(jobs') = Len(jobs) /\ jobs'[i] = new
    <3>1. PICK k \in DOMAIN jobs : k = i
      BY <1>1
    <3> QED
      BY <1>0, <2>3, <2>4, <2>5, <2>6, <2>7, <3>1, JobStep
  <2>9. Sane(d)' /\ \E r \in RunRow : run' = [run EXCEPT ![d] = r]
    BY <1>0, <2>4, <2>8, NextRoundSane
  <2> QED
    BY <1>0, <2>8, <2>9, LoudStep, Types DEF IInv, Shapes
<1> QED
  BY <1>2, <1>3

LEMMA QueueKeeps ==
  ASSUME IInv, NEW d \in Deliveries, Queue(d), request' = request
  PROVE  IInv'
<1> DEFINE i == run[d].job
<1>0. /\ Sane(d) /\ run[d] \in RunRow /\ run \in [Deliveries -> RunRow]
      /\ run[d].pc = "act" /\ run[d].state = "admitted"
      /\ UNCHANGED <<submissions, feature, enabled, files, steady, grants>>
  BY Types DEF Queue
<1>1. /\ i # 0 /\ i \in DOMAIN jobs /\ jobs[i] \in JobRow /\ RowTrue(jobs[i])
      /\ run[d].version = 2 /\ jobs[i].state # "draft"
  <2>1. /\ i # 0 /\ i \in DOMAIN jobs /\ jobs[i] \in JobRow /\ RowTrue(jobs[i])
        /\ run[d].version = 2 /\ jobs[i].version >= 2
    BY <1>0, Types DEF Sane, NamesItsJob, RoundsTrue
  <2> QED
    BY <2>1 DEF RowTrue
<1>2. CASE ~SameVersion(d)
  <2>1. jobs' = jobs /\ NextRound(d) /\ Reachable(jobs[i].state)
    BY <1>1, <1>2 DEF Queue, SameVersion, RowTrue, Reachable, Unqueued
  <2>2. Sane(d)' /\ \E new \in RunRow : run' = [run EXCEPT ![d] = new]
    BY <1>0, <1>1, <2>1, UnchangedGrown, NextRoundSane
  <2> QED
    BY <1>0, <2>1, <2>2, UnchangedGrown, LoudStep
<1>3. CASE SameVersion(d)
  <2> DEFINE n == jobs[i].version + 1
             new == [jobs[i] EXCEPT !.state = "queued", !.version = n]
             row == [run[d] EXCEPT !.pc = "reply"]
  <2>1. jobs[i].version = 2
    BY <1>1, <1>3 DEF SameVersion
  <2>2. jobs' = [jobs EXCEPT ![i].state = "queued", ![i].version = @ + 1]
        /\ run' = [run EXCEPT ![d].pc = "reply"]
    BY <1>3 DEF Queue, Goto
  <2>3. jobs' = [jobs EXCEPT ![i] = new]
    BY <1>1, <2>2, Types
  <2>n. n = 3
    BY <2>1
  <2> HIDE DEF n
  <2>4. /\ new \in JobRow /\ new.state = "queued" /\ new.version = 3
        /\ new.key = jobs[i].key /\ new.args = jobs[i].args /\ new.kind = jobs[i].kind
        /\ new.sealed = jobs[i].sealed /\ new.revision = jobs[i].revision
        /\ new.parked = jobs[i].parked
    BY <1>1, <2>n DEF JobRow, States
  <2>5. /\ row \in RunRow /\ row.pc = "reply" /\ row.answer = run[d].answer
        /\ row.job = i /\ row.inventory = run[d].inventory
        /\ row.key = run[d].key /\ row.step = run[d].step
    BY <1>0 DEF RunRow, Pcs
  <2>6. run' = [run EXCEPT ![d] = row]
    BY <1>0, <2>2
  <2> HIDE DEF new, row
  <2>7. jobs[i].state = "admitted"
    BY <1>0, <2>1 DEF Sane, RoundsTrue
  <2>8. Onward(jobs[i], new)
    BY <2>1, <2>4, <2>7 DEF Onward, Reachable, Unqueued
  <2>9. RowTrue(new)
    BY <2>4, DeliveriesAssumption DEF RowTrue
  <2>10. new.sealed => new.revision \cap steady \subseteq grants[i]
    BY <1>1, <2>4, <2>7 DEF IInv, LiveSourcesGranted
  <2>11. /\ Grown /\ KeysUnique' /\ JobsTrue' /\ OneLiveJob' /\ LiveSourcesGranted'
         /\ DOMAIN jobs' = DOMAIN jobs /\ Len(jobs') = Len(jobs) /\ jobs'[i] = new
    <3>1. PICK k \in DOMAIN jobs : k = i
      BY <1>1
    <3> QED
      BY <1>0, <2>3, <2>4, <2>8, <2>9, <2>10, <3>1, JobStep
  <2>12. run'[d] = row
    BY <1>0, <2>6
  <2>13. LocksHeld(d)'
    BY <1>0, <2>5, <2>12 DEF Sane, LocksHeld
  <2>14. NamesItsJob(d)'
    BY <1>0, <1>1, <2>4, <2>5, <2>7, <2>11, <2>12 DEF Sane, NamesItsJob
  <2>15. RoundsTrue(d)'
    BY <1>0, <2>4, <2>5, <2>11, <2>12 DEF Sane, RoundsTrue, Reachable, Unqueued
  <2>16. ScopeClear(d)'
    BY <2>5, <2>12 DEF ScopeClear
  <2> QED
    BY <1>0, <2>5, <2>6, <2>11, <2>13, <2>14, <2>15, <2>16, LoudStep, Types
       DEF Sane, IInv, Shapes
<1> QED
  BY <1>2, <1>3

\* A job is there for the key: the delivery goes on with it.
LEMMA DraftFoundKeeps ==
  ASSUME IInv, NEW d \in Deliveries, NEW i \in DOMAIN jobs,
         run[d].pc \in {"prepare", "draft"}, jobs[i].key = run[d].key,
         jobs[i].args = request[d].args,
         run' = [run EXCEPT ![d].pc = AfterDraft(d, jobs[i].state), ![d].job = i],
         UNCHANGED <<jobs, submissions, feature, enabled, files, steady, grants, request>>
  PROVE  IInv'
<1> DEFINE pc == AfterDraft(d, jobs[i].state)
           new == [run[d] EXCEPT !.pc = pc, !.job = i]
<1>0. /\ Sane(d) /\ run[d] \in RunRow /\ run \in [Deliveries -> RunRow]
      /\ i \in Nat /\ i # 0
  BY Types
<1>1. /\ pc \in {"seal", "draft", "boundary", "reply"}
      /\ pc = "seal" => request[d].kind = "registered"
      /\ pc = "reply" => Reachable(jobs[i].state)
  BY DEF AfterDraft
<1>2. run' = [run EXCEPT ![d] = new]
  BY <1>0
<1> HIDE DEF pc
<1>3. /\ new \in RunRow /\ new.pc = pc /\ new.answer = run[d].answer
      /\ new.job = i /\ new.inventory = run[d].inventory
      /\ new.key = run[d].key /\ new.step = run[d].step
  BY <1>0, <1>1 DEF RunRow, Pcs
<1> HIDE DEF new
<1>4. run'[d] = new
  BY <1>0, <1>2
<1>5. LocksHeld(d)'
  BY <1>0, <1>1, <1>3, <1>4 DEF Sane, LocksHeld
<1>6. NamesItsJob(d)'
  <2>1. run[d].inventory # {} => run[d].job = i
    BY <1>0 DEF Sane, NamesItsJob, IInv, KeysUnique
  <2> QED
    BY <1>0, <1>1, <1>3, <1>4, <2>1 DEF Sane, NamesItsJob
<1>7. RoundsTrue(d)'
  <2>1. run[d].answer # "accepted" /\ run[d].step = 0
    BY <1>0 DEF Sane, RoundsTrue, NamesItsJob
  <2>2. jobs'[run'[d].job] = jobs[i]
    BY <1>3, <1>4
  <2>3. run'[d].step = 0 /\ run'[d].answer # "accepted"
        /\ run'[d].pc \notin {"read", "act"}
    BY <1>1, <1>3, <1>4, <2>1
  <2>4. run'[d].step \in 0..2 /\ ~(run'[d].step >= 1) /\ run'[d].step # 2
    BY <2>3
  <2>5. run'[d].pc = "reply" => Reachable(jobs'[run'[d].job].state)
    BY <1>1, <1>3, <1>4, <2>2
  <2> QED
    BY <2>3, <2>4, <2>5 DEF RoundsTrue
<1>8. ScopeClear(d)'
  BY <1>1, <1>3, <1>4 DEF ScopeClear, WithKey
<1>9. SwitchHeld' /\ Turns(submissions, submissions', d) /\ Turns(feature, feature', d)
  BY DEF IInv, SwitchHeld, Turns
<1> QED
  BY <1>0, <1>2, <1>3, <1>5, <1>6, <1>7, <1>8, <1>9, QuietStep, Types DEF Sane

\* There is none: a draft is created.
LEMMA DraftNewKeeps ==
  ASSUME IInv, NEW d \in Deliveries, run[d].pc \in {"prepare", "draft"},
         WithKey(run[d].key) = {},
         jobs' = Append(jobs, NewJob(d)), grants' = Append(grants, {}),
         run' = [run EXCEPT ![d].pc = AfterDraft(d, "draft"), ![d].job = Len(jobs) + 1],
         UNCHANGED <<submissions, feature, enabled, files, steady, request>>
  PROVE  IInv'
<1> DEFINE n == Len(jobs) + 1
           row == NewJob(d)
           pc == AfterDraft(d, "draft")
           new == [run[d] EXCEPT !.pc = pc, !.job = n]
<1>0. /\ Sane(d) /\ run[d] \in RunRow /\ run \in [Deliveries -> RunRow]
      /\ n \in Nat /\ n # 0 /\ DOMAIN jobs = 1..Len(jobs) /\ Len(jobs) \in Nat
  BY Types
<1>1. /\ row \in JobRow /\ row.key = run[d].key /\ row.args = request[d].args
      /\ row.kind = request[d].kind /\ row.state = "draft" /\ row.version = 1
      /\ row.sealed = FALSE
  BY <1>0, Carried DEF NewJob, JobRow, RunRow, States
<1> HIDE DEF row
<1>2. /\ jobs' \in Seq(JobRow) /\ Len(jobs') = n /\ DOMAIN jobs' = 1..n
      /\ jobs'[n] = row /\ \A k \in DOMAIN jobs : jobs'[k] = jobs[k]
  BY <1>0, <1>1, Types DEF row
<1>3. /\ grants' \in Seq(SUBSET Files) /\ Len(grants') = n
      /\ \A k \in DOMAIN jobs : grants'[k] = grants[k]
  BY <1>0, Types DEF IInv, Shapes
<1>4. /\ DOMAIN jobs' = DOMAIN jobs \cup {n} /\ n \notin DOMAIN jobs
  BY <1>0, <1>2
<1>5. /\ pc \in {"seal", "draft", "boundary"}
      /\ pc = "seal" => request[d].kind = "registered"
  BY DEF AfterDraft, Reachable, Unqueued
<1>6. run' = [run EXCEPT ![d] = new]
  BY <1>0
<1>7. Len(jobs) <= n
  BY <1>0
<1> HIDE DEF pc, n
<1>8. /\ new \in RunRow /\ new.pc = pc /\ new.answer = run[d].answer
      /\ new.job = n /\ new.inventory = run[d].inventory
      /\ new.key = run[d].key /\ new.step = run[d].step
  BY <1>0, <1>5 DEF RunRow, Pcs
<1> HIDE DEF new
<1>9. run'[d] = new
  BY <1>0, <1>6
<1>10. \A k \in DOMAIN jobs : Onward(jobs[k], jobs'[k])
  BY <1>2, Types DEF Onward, JobRow
<1>11. Grown
  BY <1>2, <1>3, <1>7, <1>10 DEF Grown
<1>12. KeysUnique'
  BY <1>1, <1>2, <1>4 DEF IInv, KeysUnique, WithKey
<1>13. JobsTrue'
  <2>1. RowTrue(row)
    BY <1>1, DeliveriesAssumption DEF RowTrue
  <2> QED
    BY <1>2, <1>4, <2>1 DEF IInv, JobsTrue
<1>14. OneLiveJob'
  <2>1. request[d].kind = "adapted" =>
           \A i \in DOMAIN jobs :
                jobs[i].kind = "adapted" /\ jobs[i].args = request[d].args
                    => jobs[i].state = "ended" \/ jobs[i].parked
    BY <1>0 DEF Sane, ScopeClear
  <2> QED
    BY <1>1, <1>2, <1>4, <2>1 DEF IInv, OneLiveJob
<1>15. LiveSourcesGranted'
  BY <1>1, <1>2, <1>3, <1>4 DEF IInv, LiveSourcesGranted
<1>16. run[d].inventory = {}
  BY <1>0 DEF Sane, NamesItsJob, WithKey
<1>17. LocksHeld(d)'
  BY <1>0, <1>5, <1>8, <1>9 DEF Sane, LocksHeld
<1>18. NamesItsJob(d)'
  BY <1>0, <1>1, <1>2, <1>4, <1>5, <1>8, <1>9, <1>16 DEF Sane, NamesItsJob
<1>19. RoundsTrue(d)'
  BY <1>0, <1>5, <1>8, <1>9 DEF Sane, RoundsTrue, NamesItsJob
<1>20. ScopeClear(d)'
  BY <1>1, <1>2, <1>4, <1>5, <1>8, <1>9 DEF ScopeClear, WithKey
<1>21. \A i \in DOMAIN jobs' :
           i \in DOMAIN jobs \/ jobs'[i].kind # "adapted" \/ submissions = d
  BY <1>0, <1>1, <1>2, <1>4 DEF Sane, LocksHeld
<1> QED
  BY <1>2, <1>3, <1>6, <1>8, <1>11, <1>12, <1>13, <1>14, <1>15, <1>17, <1>18, <1>19,
     <1>20, <1>21, LoudStep DEF Sane

LEMMA CreateDraftKeeps ==
  ASSUME IInv, NEW d \in Deliveries, CreateDraft(d), request' = request
  PROVE  IInv'
<1>0. /\ run[d].pc \in {"prepare", "draft"} /\ UNCHANGED <<enabled, files, steady>>
      /\ run[d].pc # "done"
  BY DEF CreateDraft
<1>1. CASE WithKey(run[d].key) = {}
  <2>1. NewJob(d).args = request[d].args /\ NewJob(d).state = "draft"
    BY DEF NewJob
  <2>2. /\ jobs' = Append(jobs, NewJob(d)) /\ grants' = Append(grants, {})
        /\ run' = [run EXCEPT ![d].pc = AfterDraft(d, "draft"), ![d].job = Len(jobs) + 1]
        /\ UNCHANGED <<submissions, feature>>
    BY <1>1, <2>1 DEF CreateDraft
  <2> QED
    BY <1>0, <1>1, <2>2, DraftNewKeeps
<1>2. CASE WithKey(run[d].key) # {}
  <2>1. WithKey(run[d].key) \subseteq Nat
    BY Types DEF WithKey
  <2>2. PICK i \in WithKey(run[d].key) : i = First(WithKey(run[d].key))
    BY <1>2, <2>1, FirstIsOne
  <2>3. i \in DOMAIN jobs /\ jobs[i].key = run[d].key
    BY <2>2 DEF WithKey
  <2>4. CASE jobs[i].args # request[d].args
    <3>1. Finish(d, "conflict") /\ UNCHANGED <<jobs, grants>>
      BY <1>2, <2>2, <2>4 DEF CreateDraft
    <3> QED
      BY <1>0, <3>1, FinishKeeps DEF Answers
  <2>5. CASE jobs[i].args = request[d].args
    <3>1. /\ run' = [run EXCEPT ![d].pc = AfterDraft(d, jobs[i].state), ![d].job = i]
          /\ UNCHANGED <<jobs, grants, submissions, feature>>
      BY <1>2, <2>2, <2>5 DEF CreateDraft
    <3> QED
      BY <1>0, <2>3, <2>5, <3>1, DraftFoundKeeps
  <2> QED
    BY <2>4, <2>5
<1> QED
  BY <1>1, <1>2

LEMMA SetFeatureKeeps ==
  ASSUME IInv, SetFeature, request' = request
  PROVE  IInv'
<1>1. /\ feature = NoDelivery /\ enabled' \in BOOLEAN
      /\ UNCHANGED <<jobs, run, submissions, feature, files, steady, grants>>
  BY DEF SetFeature, Free, IInv, Shapes
<1>2. Shapes' /\ SwitchHeld'
  BY <1>1 DEF IInv, Shapes, SwitchHeld
<1>3. ASSUME NEW e \in Deliveries PROVE Sane(e)'
  BY <1>1, UnchangedGrown, OthersSane
<1> QED
  BY <1>1, <1>2, <1>3, UnchangedGrown DEF IInv

\* A file that goes is no longer steady; one that comes back does not become so.
LEMMA FilesMoveKeeps ==
  ASSUME IInv, RemoveFile \/ RestoreFile, request' = request
  PROVE  IInv'
<1>1. /\ files' \subseteq Files /\ steady' \subseteq files' /\ steady' \subseteq steady
      /\ UNCHANGED <<jobs, run, submissions, feature, enabled, grants>>
  BY DEF RemoveFile, RestoreFile, IInv, Shapes
<1>2. \A i \in DOMAIN jobs : Onward(jobs[i], jobs'[i])
  BY <1>1, Types DEF Onward, JobRow
<1>3. Grown
  BY <1>1, <1>2, Types DEF Grown
<1>4. Shapes' /\ SwitchHeld' /\ KeysUnique' /\ JobsTrue' /\ OneLiveJob'
  BY <1>1 DEF IInv, Shapes, SwitchHeld, KeysUnique, JobsTrue, OneLiveJob
<1>5. LiveSourcesGranted'
  BY <1>1 DEF IInv, LiveSourcesGranted
<1>6. ASSUME NEW e \in Deliveries PROVE Sane(e)'
  BY <1>1, <1>3, OthersSane
<1> QED
  BY <1>4, <1>5, <1>6 DEF IInv

\* Only what is over loses its grants.
LEMMA ReconcileKeeps ==
  ASSUME IInv, ReconcileWorkloads, request' = request
  PROVE  IInv'
<1>1. UNCHANGED <<jobs, run, submissions, feature, enabled, files, steady>>
  BY DEF ReconcileWorkloads
<1>2. PICK over \in SUBSET {i \in DOMAIN jobs : jobs[i].state = "ended"} :
        grants' = [i \in DOMAIN grants |-> IF i \in over THEN {} ELSE grants[i]]
  BY DEF ReconcileWorkloads
<1>3. DOMAIN grants = 1..Len(jobs) /\ Len(jobs) \in Nat /\ grants \in Seq(SUBSET Files)
  BY Types
<1>4. /\ grants' \in Seq(SUBSET Files) /\ Len(grants') = Len(jobs)
      /\ \A i \in DOMAIN jobs : jobs[i].state # "ended" => grants'[i] = grants[i]
  <2>1. \A i \in 1..Len(jobs) :
           (IF i \in over THEN {} ELSE grants[i]) \in SUBSET Files
    BY <1>3
  <2>2. grants' = [i \in 1..Len(jobs) |-> IF i \in over THEN {} ELSE grants[i]]
    BY <1>2, <1>3
  <2> QED
    BY <1>3, <2>1, <2>2, Types
<1>5. \A i \in DOMAIN jobs : Onward(jobs[i], jobs'[i])
  BY <1>1, Types DEF Onward, JobRow
<1>6. Grown
  BY <1>1, <1>4, <1>5, Types DEF Grown
<1>7. Shapes' /\ SwitchHeld' /\ KeysUnique' /\ JobsTrue' /\ OneLiveJob'
  BY <1>1, <1>4 DEF IInv, Shapes, SwitchHeld, KeysUnique, JobsTrue, OneLiveJob
<1>8. LiveSourcesGranted'
  BY <1>1, <1>4 DEF IInv, LiveSourcesGranted
<1>9. ASSUME NEW e \in Deliveries PROVE Sane(e)'
  BY <1>1, <1>6, OthersSane
<1> QED
  BY <1>7, <1>8, <1>9 DEF IInv

-----------------------------------------------------------------------------
(* Theorems.                                                               *)

LEMMA InvInit == Init => IInv
<1> SUFFICES ASSUME Init PROVE IInv
  OBVIOUS
<1>1. Shapes
  <2>0. request \in Loads /\ jobs = <<>> /\ grants = <<>>
    BY DEF Init
  <2>1. \A d \in Deliveries : request[d].key \in Keys
    BY <2>0 DEF Keys
  <2>2. run \in [Deliveries -> RunRow]
    BY <2>1 DEF Init, RunRow, Pcs, Answers
  <2>3. jobs \in Seq(JobRow) /\ grants \in Seq(SUBSET Files) /\ Len(grants) = Len(jobs)
    BY <2>0
  <2> QED
    BY <2>0, <2>2, <2>3 DEF Init, Shapes
<1>2. KeysUnique /\ JobsTrue /\ OneLiveJob /\ LiveSourcesGranted
  <2>1. DOMAIN jobs = {}
    <3>1. jobs = <<>>
      BY DEF Init
    <3> QED
      BY <3>1
  <2> QED
    BY <2>1 DEF KeysUnique, JobsTrue, OneLiveJob, LiveSourcesGranted
<1>3. SwitchHeld
  BY DEF Init, SwitchHeld
<1>4. ASSUME NEW d \in Deliveries PROVE Sane(d)
  <2>1. /\ run[d].pc = "new" /\ run[d].key = request[d].key /\ run[d].job = 0
        /\ run[d].step = 0 /\ run[d].inventory = {} /\ run[d].answer = ""
        /\ submissions # d /\ feature # d
    BY DeliveriesAssumption DEF Init
  <2>2. LocksHeld(d) /\ NamesItsJob(d)
    BY <2>1 DEF LocksHeld, NamesItsJob
  <2>3. RoundsTrue(d)
    <3>0. run[d].step = 0
      BY <2>1
    <3>1. run[d].step \in 0..2 /\ ~(run[d].step >= 1) /\ run[d].step # 2
      BY <3>0
    <3> QED
      BY <2>1, <3>1 DEF RoundsTrue
  <2>4. ScopeClear(d)
    BY <2>1 DEF ScopeClear
  <2> QED
    BY <2>2, <2>3, <2>4 DEF Sane
<1> QED
  BY <1>1, <1>2, <1>3, <1>4 DEF IInv

LEMMA InvNext == IInv /\ [Next]_vars => IInv'
<1> SUFFICES ASSUME IInv, [Next]_vars PROVE IInv'
  OBVIOUS
<1>1. CASE UNCHANGED vars
  BY <1>1 DEF vars, IInv, Shapes, KeysUnique, JobsTrue, SwitchHeld, OneLiveJob,
     LiveSourcesGranted, Sane, LocksHeld, NamesItsJob, RoundsTrue, ScopeClear, WithKey
<1>2. ASSUME NEW d \in Deliveries, Deliver(d), request' = request PROVE IInv'
  BY <1>2, BeginKeeps, LockSubmissionsKeeps, FindKeyKeeps, FindActiveKeeps,
     CreateDraftKeeps, SealKeeps, LockFeatureKeeps, RereadKeeps, AdmitKeeps,
     QueueKeeps, EndsKeep DEF Deliver
<1>3. CASE Next
  BY <1>2, <1>3, MoveJobKeeps, SetFeatureKeeps, FilesMoveKeeps, ReconcileKeeps
     DEF Next, Step
<1> QED
  BY <1>1, <1>3

LEMMA Inductive == Spec => []IInv
<1> QED
  BY InvInit, InvNext, PTL DEF Spec

\* An accepted delivery has a job for its own arguments that needs no further
\* step, and submit_candidate's four rounds always suffice.
THEOREM DeliveriesAreSound == Spec => []DeliveriesSound
<1>1. IInv => DeliveriesSound
  <2> SUFFICES ASSUME IInv PROVE DeliveriesSound
    OBVIOUS
  <2>1. TypeOK
    <3>1. \A i \in DOMAIN jobs :
             /\ jobs[i].state \in DOMAIN JobMoves
             /\ jobs[i].version \in 1..MaxVersion + 2
             /\ jobs[i].revision \subseteq Files
      <4> SUFFICES ASSUME NEW i \in DOMAIN jobs
                   PROVE  /\ jobs[i].state \in DOMAIN JobMoves
                          /\ jobs[i].version \in 1..MaxVersion + 2
                          /\ jobs[i].revision \subseteq Files
        OBVIOUS
      <4>1. jobs[i] \in JobRow /\ RowTrue(jobs[i])
        BY Types
      <4>2. DOMAIN JobMoves = States
        BY DEF JobMoves, States
      <4> QED
        BY <4>1, <4>2 DEF JobRow, RowTrue
    <3>2. \A d \in Deliveries :
             /\ run[d].job \in 0..Len(jobs)
             /\ run[d].step \in 0..MaxSteps
             /\ run[d].inventory \subseteq Files
      <4> SUFFICES ASSUME NEW d \in Deliveries
                   PROVE  /\ run[d].job \in 0..Len(jobs)
                          /\ run[d].step \in 0..MaxSteps
                          /\ run[d].inventory \subseteq Files
        OBVIOUS
      <4>1. run[d].job = 0 \/ run[d].job \in 1..Len(jobs)
        BY Types DEF Sane, NamesItsJob
      <4>2. run[d].step \in 0..2 /\ run[d].inventory \subseteq Files
        BY Types DEF Sane, RoundsTrue, RunRow
      <4> QED
        BY <4>1, <4>2, Types DEF MaxSteps
    <3>3. /\ submissions # NoDelivery =>
                run[submissions].pc \notin {"new", "lock", "seal", "done"}
          /\ feature # NoDelivery => run[feature].pc \in {"read", "act", "reply"}
      BY Types DEF IInv, Shapes, Sane, LocksHeld
    <3> QED
      BY <3>1, <3>2, <3>3 DEF TypeOK, IInv, Shapes
  <2>2. AcceptedIsQueued
    BY Types DEF AcceptedIsQueued, Answered, Sane, NamesItsJob, RoundsTrue, Reachable
  <2>3. Converges
    BY Types DEF Converges, RunRow, Answers
  <2> QED
    BY <2>1, <2>2, <2>3 DEF DeliveriesSound
<1> QED
  BY <1>1, Inductive, PTL

\* Accepted deliveries of one request key name the same job.
THEOREM OneJobPerKey == Spec => []SameKeySameJob
<1>1. IInv => SameKeySameJob
  BY Types DEF IInv, SameKeySameJob, Answered, Sane, NamesItsJob, KeysUnique
<1> QED
  BY <1>1, Inductive, PTL

\* Equivalent requests share one unfinished job.
THEOREM OneJobPerScope == Spec => []OneLiveJob
<1>1. IInv => OneLiveJob
  BY DEF IInv
<1> QED
  BY <1>1, Inductive, PTL

\* What was admitted, has been there all along and belongs to a job that has
\* not ended is granted (seal_and_register, reconcile_workloads).
THEOREM SourcesStayGranted == Spec => []LiveSourcesGranted
<1>1. IInv => LiveSourcesGranted
  BY DEF IInv
<1> QED
  BY <1>1, Inductive, PTL

\* No job is admitted or queued by a submission while the feature is off.
THEOREM GateIsRespected == Spec => GateRespected
<1> DEFINE Kept(i) ==
      /\ \A d \in Deliveries : request[d].boundary
      /\ jobs[i].state \in Unqueued
      /\ jobs'[i].state \in {"admitted", "queued"}
      /\ jobs'[i].state # jobs[i].state
      => enabled
<1>1. IInv /\ [Next]_vars => [\A i \in DOMAIN jobs : Kept(i)]_vars
  <2> SUFFICES ASSUME IInv, Next, NEW i \in DOMAIN jobs,
                      \A d \in Deliveries : request[d].boundary,
                      jobs[i].state \in Unqueued,
                      jobs'[i].state \in {"admitted", "queued"},
                      jobs'[i].state # jobs[i].state
               PROVE  enabled
    BY Zenon
  <2>1. PICK d \in Deliveries : Admit(d) \/ Queue(d)
    <3>1. jobs' # jobs
      OBVIOUS
    <3>2. ASSUME NEW k \in DOMAIN jobs, MoveJob(k) PROVE FALSE
      <4>1. PICK state \in JobMoves[jobs[k].state] :
                jobs' = [jobs EXCEPT ![k].state = state, ![k].version = @ + 1,
                                     ![k].parked = @ \/ state = "needs_attention"]
        BY <3>2 DEF MoveJob
      <4>2. k = i /\ jobs'[i].state = state
        BY <4>1, Types DEF JobRow
      <4> QED
        BY <4>1, <4>2 DEF JobMoves, Unqueued
    <3>3. ASSUME NEW d \in Deliveries, CreateDraft(d) PROVE FALSE
      <4>1. jobs' = jobs \/ jobs' = Append(jobs, NewJob(d))
        BY <3>3 DEF CreateDraft
      <4>2. jobs'[i] = jobs[i]
        BY <4>1, Types
      <4> QED
        BY <4>2
    <3> QED
      BY <3>1, <3>2, <3>3 DEF Next, Step, Deliver, Begin, LockSubmissions, FindKey,
         FindActive, Seal, LockFeature, LockTimeout, Reread, Reply, Crash, SetFeature,
         RemoveFile, RestoreFile, ReconcileWorkloads
  <2>2. run[d].pc = "act"
    BY <2>1 DEF Admit, Queue
  <2>3. feature = d
    BY <2>2, Types DEF Sane, LocksHeld
  <2> QED
    BY <2>3, Carried DEF IInv, SwitchHeld
<1> QED
  BY <1>1, Inductive, PTL DEF Spec, GateRespected
=============================================================================
