------------------------ MODULE DurableWorkloadProofs ------------------------
(***************************************************************************)
(* Machine-checked proofs about DurableWorkload, for every set of units    *)
(* and workers, every policy and every bound: its types, the fencing of    *)
(* leases and results, and what rows and workload states mean.             *)
(*                                                                         *)
(* The fencing invariants speak of one unit at a time: its row, its        *)
(* attempts and its result.  GoodUnit joins them; it is inductive together *)
(* with TypeOK, because a worker whose lease matches names a row that is   *)
(* held, and a held row names its newest attempt.  Every transaction       *)
(* changes a unit in one of five ways (a claim, a start, an end, a commit, *)
(* or a change of a row in nobody's hands) and may then settle the         *)
(* workload, which touches only rows in nobody's hands.                    *)
(***************************************************************************)
EXTENDS DurableWorkload, TLAPS

UnitRows == [Units -> UnitRow]

\* A row that no attempt and no worker holds.
Free(row) == row.active = 0 /\ row.worker = NoWorker

\* The states a failed, abandoned or expired attempt leaves its unit in.
GivenBack == {"pending", "retry_wait", "needs_attention", "failed_permanent"}

-----------------------------------------------------------------------------
(* The row operators keep the types of the columns.                        *)

\* Setting one attempt's state keeps the list of attempts a list.
LEMMA ExceptAttempt ==
    ASSUME NEW s \in Seq(AttemptState), NEW f, NEW x \in AttemptState
    PROVE  /\ [s EXCEPT ![f] = x] \in Seq(AttemptState)
           /\ Len([s EXCEPT ![f] = x]) = Len(s)
           /\ \A i \in 1..Len(s) :
                 [s EXCEPT ![f] = x][i] = IF i = f THEN x ELSE s[i]
  <1> DEFINE t == [s EXCEPT ![f] = x]
  <1>1. s \in [1..Len(s) -> AttemptState] /\ Len(s) \in Nat
    OBVIOUS
  <1>2. t \in [1..Len(s) -> AttemptState]
    BY <1>1
  <1>3. QED
    BY <1>1, <1>2

\* Literals of the domains.
LEMMA Literals ==
    /\ {"pending", "leased", "running", "retry_wait", "needs_attention",
        "committed", "failed_permanent", "cancelled"} = UnitState
    /\ {"", "executor_transient", "budget_exhausted", "lease_lost",
        "cancelled"} \subseteq ErrorClass
    /\ ErrorClasses \subseteq ErrorClass
  BY DEF UnitState, ErrorClass

\* What every release of a lease makes of the row.
LEMMA ReleaseType ==
    ASSUME NEW row \in UnitRow, NEW state \in UnitState, NEW wait \in Int,
           NEW error \in ErrorClass, NEW token \in {0, 1},
           NEW r \in RevisionRow
    PROVE  /\ Release(row, state, wait, error, token, r) \in UnitRow
           /\ Release(row, state, wait, error, token, r).state = state
           /\ Free(Release(row, state, wait, error, token, r))
  <1> DEFINE gen == IF state = "needs_attention" THEN r.gen ELSE row.gen
             tokens == row.tokens + token
  <1>1. gen \in Nat /\ tokens \in Nat
    BY DEF UnitRow, RevisionRow
  <1>2. Release(row, state, wait, error, token, r) =
          [state |-> state, active |-> 0, worker |-> NoWorker, lease |-> 0,
           manual |-> FALSE, wait |-> wait, tokens |-> tokens, gen |-> gen,
           error |-> error]
    BY DEF Release
  <1> HIDE DEF gen, tokens
  <1>3. QED
    BY <1>1, <1>2 DEF UnitRow, Free

\* What a claim makes of the row.
LEMMA LeasedType ==
    ASSUME NEW row \in UnitRow, NEW w \in Workers, NEW fence \in Nat,
           NEW r \in RevisionRow
    PROVE  Leased(row, w, fence, r) \in UnitRow
  <1> DEFINE gen == IF row.state = "needs_attention" THEN r.gen ELSE row.gen
             tokens == row.tokens - TokenSpent(row)
             manual == ManualRetry(row)
             state == "leased"
             error == ""
  <1>1. gen \in Nat /\ tokens \in Nat
    BY DEF UnitRow, RevisionRow, TokenSpent
  <1>2. manual \in BOOLEAN
    BY DEF ManualRetry
  <1>3. Leased(row, w, fence, r) =
          [state |-> state, active |-> fence, worker |-> w,
           lease |-> LeaseDuration, manual |-> manual, wait |-> 0,
           tokens |-> tokens, gen |-> gen, error |-> error]
    BY DEF Leased
  <1>4. LeaseDuration \in Int
    BY PolicyAssumption
  <1>5. state \in UnitState /\ error \in ErrorClass
    BY Literals
  <1> HIDE DEF gen, tokens, manual, state, error
  <1>6. QED
    BY <1>1, <1>2, <1>3, <1>4, <1>5 DEF UnitRow

\* A promoted retry is pending; every other row is as before.
LEMMA PromoteType ==
    ASSUME NEW us \in UnitRows, NEW P
    PROVE  Promote(us, P) \in UnitRows
  <1>1. ASSUME NEW u \in Units
        PROVE  [us[u] EXCEPT !.state = "pending", !.wait = 0, !.error = ""]
                  \in UnitRow
    <2> DEFINE row == us[u]
               state == "pending"
               zero == 0
               error == ""
    <2>1. row \in UnitRow
      BY DEF UnitRows
    <2>2. state \in UnitState /\ error \in ErrorClass
      BY Literals
    <2>0. zero \in Int
      OBVIOUS
    <2> HIDE DEF row, state, zero, error
    <2>3. [row EXCEPT !.state = state, !.wait = zero, !.error = error]
              \in UnitRow
      BY <2>0, <2>1, <2>2 DEF UnitRow
    <2>4. QED
      BY <2>3, Zenon DEF row, state, zero, error
  <1>2. QED
    BY <1>1 DEF Promote, UnitRows

LEMMA AdvanceType ==
    ASSUME NEW r \in RevisionRow, NEW at \in Int
    PROVE  Advance(r, at) \in RevisionRow /\ Advance(r, at).gen = r.gen
  BY DEF Advance, Greatest, RevisionRow

LEMMA CancelUnitsType ==
    ASSUME NEW us \in UnitRows, NEW B
    PROVE  CancelUnits(us, B) \in UnitRows
  <1>1. ASSUME NEW u \in Units
        PROVE  [us[u] EXCEPT !.state = "cancelled", !.wait = 0, !.tokens = 0,
                             !.error = IF @ = "" THEN "cancelled" ELSE @]
                  \in UnitRow
    <2> DEFINE row == us[u]
               error == IF row.error = "" THEN "cancelled" ELSE row.error
               state == "cancelled"
               zero == 0
    <2>1. row \in UnitRow
      BY DEF UnitRows
    <2>2. error \in ErrorClass
      BY <2>1, Literals DEF UnitRow
    <2>3. state \in UnitState
      BY Literals
    <2>0. zero \in Nat /\ zero \in Int
      OBVIOUS
    <2> HIDE DEF row, error, state, zero
    <2>4. [row EXCEPT !.state = state, !.wait = zero, !.tokens = zero,
                      !.error = error] \in UnitRow
      BY <2>0, <2>1, <2>2, <2>3 DEF UnitRow
    <2>5. QED
      BY <2>4, Zenon DEF row, error, state, zero
  <1>2. QED
    BY <1>1 DEF CancelUnits, UnitRows

LEMMA RepairExhaustedType ==
    ASSUME NEW us \in UnitRows, NEW r \in RevisionRow
    PROVE  RepairExhausted(us, r) \in UnitRows
  <1>1. ASSUME NEW u \in Units
        PROVE  [us[u] EXCEPT !.state = "needs_attention", !.gen = r.gen,
                             !.error = IF @ = "" THEN "budget_exhausted"
                                       ELSE @] \in UnitRow
    <2> DEFINE row == us[u]
               gen == r.gen
               error == IF row.error = "" THEN "budget_exhausted"
                        ELSE row.error
               state == "needs_attention"
    <2>1. row \in UnitRow
      BY DEF UnitRows
    <2>2. error \in ErrorClass
      BY <2>1, Literals DEF UnitRow
    <2>3. state \in UnitState /\ gen \in Nat
      BY Literals DEF RevisionRow
    <2> HIDE DEF row, gen, error, state
    <2>4. [row EXCEPT !.state = state, !.gen = gen, !.error = error]
              \in UnitRow
      BY <2>1, <2>2, <2>3 DEF UnitRow
    <2>5. QED
      BY <2>4 DEF row, gen, error, state
  <1>2. QED
    BY <1>1 DEF RepairExhausted, UnitRows

\* A settlement yields a workload state and well-typed rows.
LEMMA SettledType ==
    ASSUME NEW w \in WorkloadState, NEW us \in UnitRows,
           NEW r \in RevisionRow, NEW at, NEW B, NEW repair \in BOOLEAN
    PROVE  /\ Settled(w, us, r, at, B, repair).workload \in WorkloadState
           /\ Settled(w, us, r, at, B, repair).unit \in UnitRows
  <1> DEFINE repaired == IF repair THEN RepairExhausted(us, r) ELSE us
  <1>1. CancelUnits(us, B) \in UnitRows
    BY CancelUnitsType
  <1>2. repaired \in UnitRows
    BY RepairExhaustedType
  <1>3. CancelUnits(repaired, B) \in UnitRows
    BY <1>2, CancelUnitsType
  <1> HIDE DEF repaired
  <1>4. QED
    BY <1>1, <1>2, <1>3 DEF Settled, repaired, WorkloadState

\* The same for the transaction that ends with a settlement.
LEMMA SettleType ==
    ASSUME NEW w \in WorkloadState, NEW us \in UnitRows,
           NEW r \in RevisionRow, NEW at, NEW repair \in BOOLEAN,
           Settle(w, us, r, at, repair)
    PROVE  /\ workload' \in WorkloadState
           /\ unit' \in UnitRows
           /\ rev' \in RevisionRow
  BY SettledType DEF Settle

\* A worker that holds nothing.
LEMMA IdleRow ==
    /\ Idle \in WorkerRow
    /\ \A stopping \in BOOLEAN :
          [Idle EXCEPT !.stopping = stopping] \in WorkerRow
  <1>1. Idle \in WorkerRow
    BY DEF Idle, WorkerRow
  <1>2. QED
    BY <1>1 DEF WorkerRow

\* A worker that just claimed a unit.
LEMMA ClaimedRow ==
    ASSUME NEW u \in Units, NEW fence \in Nat, NEW manual \in BOOLEAN
    PROVE  [Idle EXCEPT !.pc = "claimed", !.unit = u, !.fence = fence,
                        !.manual = manual] \in WorkerRow
  <1> DEFINE PC == {"idle", "claimed", "executing"}
             pc == "claimed"
  <1>1. pc \in PC
    OBVIOUS
  <1>2. WorkerRow = [pc : PC, unit : Units \cup {NoUnit}, fence : Nat,
                     manual : BOOLEAN, deadline : Int, mono : Nat,
                     lost : BOOLEAN, stopping : BOOLEAN]
    BY DEF WorkerRow
  <1> HIDE DEF PC, pc
  <1>3. [Idle EXCEPT !.pc = pc, !.unit = u, !.fence = fence,
                     !.manual = manual] \in WorkerRow
    BY <1>1, <1>2, IdleRow
  <1>4. QED
    BY <1>3, Zenon DEF pc

\* decide_retry has three outcomes.
LEMMA DecideRetryType ==
    ASSUME NEW effect, NEW attempt, NEW class, NEW manual
    PROVE  DecideRetry(effect, attempt, class, manual) \in
              {"needs_attention", "failed_permanent", "retry_wait"}
  BY DEF DecideRetry

\* Every disposition of an expired lease is a unit row.
LEMMA ReconciledType ==
    ASSUME unit \in UnitRows, NEW u \in Units, NEW r \in RevisionRow,
           NEW unknown
    PROVE  /\ Reconciled(u, r, unknown) \in UnitRow
           /\ Reconciled(u, r, unknown).state \in GivenBack
           /\ Free(Reconciled(u, r, unknown))
  <1> DEFINE row == unit[u]
             before == row.state = "leased"
             spare == Fence(u) < MaxAttempts
             state == IF unknown \/ Regressed(r, 0) THEN "needs_attention"
                      ELSE IF before
                      THEN IF spare \/ row.manual
                           THEN "pending" ELSE "needs_attention"
                      ELSE IF \/ Effect[u] \in {"reconcilable", "manual_only"}
                              \/ row.manual
                              \/ ~spare
                      THEN "needs_attention"
                      ELSE "retry_wait"
             wait == IF state = "retry_wait" THEN row.lease + RetryDelay
                     ELSE 0
             token == IF before /\ row.manual THEN 1 ELSE 0
  <1>1. row \in UnitRow
    BY DEF UnitRows
  <1>2. state \in {"pending", "needs_attention", "retry_wait"}
    OBVIOUS
  <1>3. state \in UnitState /\ state \in GivenBack
    BY <1>2, Literals DEF GivenBack
  <1>4. token \in {0, 1}
    OBVIOUS
  <1>5. Reconciled(u, r, unknown) =
          Release(row, state, wait, "lease_lost", token, r)
    BY DEF Reconciled
  <1>6. row.lease \in Int /\ RetryDelay \in Int
    BY <1>1, PolicyAssumption DEF UnitRow
  <1> HIDE DEF row, state, token
  <1>7. wait \in Int
    BY <1>6
  <1>8. "lease_lost" \in ErrorClass
    BY Literals
  <1> HIDE DEF wait
  <1>9. QED
    BY <1>1, <1>3, <1>4, <1>5, <1>7, <1>8, ReleaseType

-----------------------------------------------------------------------------
(* Type correctness, one lemma per group of actions.                       *)

\* run_claimed returned.
LEMMA ReturnType ==
    ASSUME TypeOK, NEW w \in Workers, Return(w)
    PROVE  worker' \in [Workers -> WorkerRow]
  <1>1. worker[w].stopping \in BOOLEAN
    BY DEF TypeOK, WorkerRow
  <1>2. [Idle EXCEPT !.stopping = worker[w].stopping] \in WorkerRow
    BY <1>1, IdleRow
  <1>3. QED
    BY <1>2 DEF Return, TypeOK

LEMMA ClaimType ==
    ASSUME TypeOK, NEW w \in Workers
    PROVE  /\ ClaimNext(w) => TypeOK'
           /\ ClaimWithoutReservation(w) => TypeOK'
  <1> DEFINE us == Promote(unit, Due(unit))
  <1>1. us \in UnitRows
    BY PromoteType DEF TypeOK, UnitRows
  <1> HIDE DEF us
  <1>2. ASSUME ClaimNext(w)
        PROVE  TypeOK'
    <2>1. PICK u \in Claimable(us, rev) :
             /\ attempts' = [attempts EXCEPT ![u] = Append(@, "leased")]
             /\ unit' = [us EXCEPT ![u] = Leased(@, w, Fence(u) + 1, rev)]
             /\ worker' = [worker EXCEPT ![w] =
                  [Idle EXCEPT !.pc = "claimed", !.unit = u,
                               !.fence = Fence(u) + 1,
                               !.manual = ManualRetry(us[u])]]
      BY <1>2 DEF ClaimNext, us
    <2>2. u \in Units /\ us[u] \in UnitRow
      BY <1>1 DEF Claimable, UnitRows
    <2>3. attempts[u] \in Seq(AttemptState) /\ "leased" \in AttemptState
      BY <2>2 DEF TypeOK, AttemptState
    <2>4. Fence(u) + 1 \in Nat
      BY <2>3 DEF Fence
    <2>5. unit' \in UnitRows
      BY <1>1, <2>1, <2>2, <2>4, LeasedType DEF UnitRows, TypeOK
    <2>6. attempts' \in [Units -> Seq(AttemptState)]
      BY <2>1, <2>2, <2>3 DEF TypeOK
    <2>7. ManualRetry(us[u]) \in BOOLEAN
      BY DEF ManualRetry
    <2>8. worker' \in [Workers -> WorkerRow]
      BY <2>1, <2>2, <2>4, <2>7, ClaimedRow DEF TypeOK
    <2>9. workload' \in WorkloadState /\ rev' \in RevisionRow
      BY <1>2, AdvanceType DEF ClaimNext, WorkloadState, TypeOK
    <2>10. QED
      BY <1>2, <2>5, <2>6, <2>8, <2>9 DEF ClaimNext, TypeOK, UnitRows
  <1>3. ASSUME ClaimWithoutReservation(w)
        PROVE  TypeOK'
    <2>1. unit' \in UnitRows
      BY <1>1, <1>3 DEF ClaimWithoutReservation, us
    <2>2. workload' \in WorkloadState
      BY <1>3 DEF ClaimWithoutReservation, WorkloadState
    <2>3. QED
      BY <1>3, <2>1, <2>2 DEF ClaimWithoutReservation, TypeOK, UnitRows
  <1>4. QED
    BY <1>2, <1>3

\* The unit a matching lease names, and its attempts.
LEMMA MatchesType ==
    ASSUME TypeOK, NEW w \in Workers, Matches(w)
    PROVE  /\ worker[w].unit \in Units
           /\ unit[worker[w].unit] \in UnitRow
           /\ worker[w] \in WorkerRow
           /\ attempts[worker[w].unit] \in Seq(AttemptState)
  BY DEF TypeOK, Matches

LEMMA StartType ==
    ASSUME TypeOK, NEW w \in Workers
    PROVE  /\ MarkRunning(w) => TypeOK'
           /\ StartRefused(w) => TypeOK'
  <1>1. ASSUME MarkRunning(w)
        PROVE  TypeOK'
    <2> DEFINE u == worker[w].unit
               row == unit[u]
               lease == Least(row.lease, Timeout)
               state == "running"
               pc == "executing"
               PC == {"idle", "claimed", "executing"}
    <2>1. /\ u \in Units /\ row \in UnitRow /\ worker[w] \in WorkerRow
          /\ attempts[u] \in Seq(AttemptState)
      BY <1>1, MatchesType DEF MarkRunning
    <2>2. Timeout \in Int /\ Timeout \in Nat
      BY PolicyAssumption
    <2>3. lease \in Int
      BY <2>1, <2>2 DEF Least, UnitRow
    <2>4. state \in UnitState /\ state \in AttemptState
      BY Literals DEF AttemptState
    <2>5. /\ attempts' = [attempts EXCEPT ![u] =
                              [attempts[u] EXCEPT ![worker[w].fence] = state]]
          /\ unit' = [unit EXCEPT ![u] =
                          [row EXCEPT !.state = state, !.lease = lease]]
          /\ worker' = [worker EXCEPT ![w] =
                            [worker[w] EXCEPT !.pc = pc, !.deadline = Timeout,
                                              !.mono = Timeout]]
          /\ starts' = [starts EXCEPT ![u] = starts[u] + 1]
          /\ rev' = Advance(rev, 0)
          /\ UNCHANGED <<workload, result, grants>>
      BY <1>1, Zenon DEF MarkRunning
    <2>6. pc \in PC
      OBVIOUS
    <2>7. WorkerRow = [pc : PC, unit : Units \cup {NoUnit}, fence : Nat,
                       manual : BOOLEAN, deadline : Int, mono : Nat,
                       lost : BOOLEAN, stopping : BOOLEAN]
      BY DEF WorkerRow
    <2>8. rev' \in RevisionRow
      BY <2>5, AdvanceType DEF TypeOK
    <2> HIDE DEF u, row, lease, state, pc, PC
    <2>9. [row EXCEPT !.state = state, !.lease = lease] \in UnitRow
      BY <2>1, <2>3, <2>4 DEF UnitRow
    <2>10. [worker[w] EXCEPT !.pc = pc, !.deadline = Timeout,
                             !.mono = Timeout] \in WorkerRow
      BY <2>1, <2>2, <2>6, <2>7
    <2>11. [attempts[u] EXCEPT ![worker[w].fence] = state]
              \in Seq(AttemptState)
      BY <2>1, <2>4, ExceptAttempt
    <2>12. starts' \in [Units -> Nat]
      BY <2>1, <2>5 DEF TypeOK
    <2>13. QED
      BY <2>1, <2>5, <2>8, <2>9, <2>10, <2>11, <2>12 DEF TypeOK
  <1>2. ASSUME StartRefused(w)
        PROVE  TypeOK'
    BY <1>2, ReturnType DEF StartRefused, TypeOK
  <1>3. QED
    BY <1>1, <1>2

LEMMA HeartbeatType ==
    ASSUME TypeOK, NEW w \in Workers
    PROVE  /\ Heartbeat(w) => TypeOK'
           /\ HeartbeatFails(w) => TypeOK'
  <1>1. ASSUME Heartbeat(w)
        PROVE  TypeOK'
    <2> DEFINE u == worker[w].unit
               row == unit[u]
               expiry == RenewedExpiry(w)
    <2>1. u \in Units /\ row \in UnitRow /\ worker[w] \in WorkerRow
      BY <1>1, MatchesType DEF Heartbeat
    <2>2. expiry \in Int
      BY <2>1, PolicyAssumption DEF RenewedExpiry, Least, WorkerRow
    <2>3. /\ unit' = [unit EXCEPT ![u] = [row EXCEPT !.lease = expiry]]
          /\ rev' = Advance(rev, 0)
          /\ UNCHANGED <<workload, attempts, result, worker, starts, grants>>
      BY <1>1, Zenon DEF Heartbeat
    <2> HIDE DEF u, row, expiry
    <2>4. [row EXCEPT !.lease = expiry] \in UnitRow
      BY <2>1, <2>2 DEF UnitRow
    <2>5. rev' \in RevisionRow
      BY <2>3, AdvanceType DEF TypeOK
    <2>6. QED
      BY <2>1, <2>3, <2>4, <2>5 DEF TypeOK
  <1>2. ASSUME HeartbeatFails(w)
        PROVE  TypeOK'
    <2>1. worker' \in [Workers -> WorkerRow]
      BY <1>2 DEF HeartbeatFails, TypeOK, WorkerRow
    <2>2. QED
      BY <1>2, <2>1 DEF HeartbeatFails, TypeOK
  <1>3. QED
    BY <1>1, <1>2

LEMMA StopType ==
    ASSUME TypeOK, NEW w \in Workers
    PROVE  /\ RequestStop(w) => TypeOK'
           /\ Restart(w) => TypeOK'
           /\ DropResult(w) => TypeOK'
  <1>1. ASSUME RequestStop(w)
        PROVE  TypeOK'
    <2>1. worker' \in [Workers -> WorkerRow]
      BY <1>1 DEF RequestStop, TypeOK, WorkerRow
    <2>2. QED
      BY <1>1, <2>1 DEF RequestStop, TypeOK
  <1>2. ASSUME Restart(w)
        PROVE  TypeOK'
    BY <1>2, IdleRow DEF Restart, TypeOK
  <1>3. ASSUME DropResult(w)
        PROVE  TypeOK'
    BY <1>3, ReturnType DEF DropResult, TypeOK
  <1>4. QED
    BY <1>1, <1>2, <1>3

LEMMA CommitType ==
    ASSUME TypeOK, NEW w \in Workers, CommitResult(w)
    PROVE  TypeOK'
  <1> DEFINE u == worker[w].unit
             row == Release(unit[u], "committed", 0, "", 0, rev)
             us == [unit EXCEPT ![u] = row]
  <1>1. /\ u \in Units /\ unit[u] \in UnitRow /\ worker[w] \in WorkerRow
        /\ attempts[u] \in Seq(AttemptState)
    BY MatchesType DEF CommitResult
  <1>2. "committed" \in UnitState /\ "" \in ErrorClass
    BY Literals
  <1>3. rev \in RevisionRow /\ 0 \in Int /\ 0 \in {0, 1}
    BY DEF TypeOK
  <1>4. row \in UnitRow
    BY <1>1, <1>2, <1>3, ReleaseType
  <1>5. us \in UnitRows
    BY <1>1, <1>4 DEF TypeOK, UnitRows
  <1>6. /\ Settle(workload, us, Advance(rev, 0), 0, FALSE)
        /\ result' = [result EXCEPT ![u] = worker[w].fence]
        /\ attempts' = [attempts EXCEPT ![u] =
               [attempts[u] EXCEPT ![worker[w].fence] = "succeeded"]]
        /\ Return(w)
        /\ UNCHANGED <<starts, grants>>
    BY Zenon DEF CommitResult, Committed
  <1> HIDE DEF us, row, u
  <1>7. Advance(rev, 0) \in RevisionRow
    BY <1>3, AdvanceType
  <1>8. /\ workload' \in WorkloadState
        /\ unit' \in UnitRows
        /\ rev' \in RevisionRow
    BY <1>5, <1>6, <1>7, SettleType DEF TypeOK
  <1>9. result' \in [Units -> Nat]
    BY <1>1, <1>6 DEF TypeOK, WorkerRow
  <1>10. "succeeded" \in AttemptState
    BY DEF AttemptState
  <1>11. attempts' \in [Units -> Seq(AttemptState)]
    BY <1>1, <1>6, <1>10, ExceptAttempt DEF TypeOK
  <1>12. QED
    BY <1>6, <1>8, <1>9, <1>11, ReturnType DEF TypeOK, UnitRows

\* The row that fail_attempt writes before it settles the workload.
LEMMA FailAttemptRow ==
    ASSUME TypeOK, NEW w \in Workers, NEW class \in ErrorClass,
           NEW ended \in {"failed", "timed_out"}, NEW at \in Int,
           FailAttempt(w, class, ended, at)
    PROVE  \E row \in UnitRow, r \in RevisionRow :
              /\ row.state \in GivenBack /\ Free(row)
              /\ Settle(workload, [unit EXCEPT ![worker[w].unit] = row], r,
                        at, FALSE)
  <1> DEFINE u == worker[w].unit
             State(unknown) == IF unknown \/ Regressed(rev, at)
                               THEN "needs_attention"
                               ELSE DecideRetry(Effect[u], worker[w].fence,
                                                class, worker[w].manual)
             Wait(unknown) == IF State(unknown) = "retry_wait"
                              THEN at + RetryDelay ELSE 0
             R(unknown) == Advance([rev EXCEPT !.unknown = @ \/ unknown], at)
  <1>1. /\ u \in Units /\ unit[u] \in UnitRow /\ worker[w] \in WorkerRow
        /\ attempts[u] \in Seq(AttemptState)
    BY MatchesType DEF FailAttempt
  <1>2. PICK unknown \in BOOLEAN :
          Settle(workload,
                 [unit EXCEPT ![u] =
                     Release(unit[u], State(unknown), Wait(unknown), class, 0,
                             R(unknown))],
                 R(unknown), at, FALSE)
    BY Zenon DEF FailAttempt, MissingUsage
  <1>3. State(unknown) \in UnitState /\ State(unknown) \in GivenBack
    BY DecideRetryType, Literals DEF GivenBack
  <1>4. RetryDelay \in Int
    BY PolicyAssumption
  <1>5. [rev EXCEPT !.unknown = @ \/ unknown] \in RevisionRow
    BY DEF TypeOK, RevisionRow
  <1>6. R(unknown) \in RevisionRow
    BY <1>5, AdvanceType
  <1> HIDE DEF State, R
  <1>7. Wait(unknown) \in Int
    BY <1>4
  <1> HIDE DEF Wait, u
  <1> DEFINE row == Release(unit[u], State(unknown), Wait(unknown), class, 0,
                            R(unknown))
  <1>8. row \in UnitRow /\ row.state \in GivenBack /\ Free(row)
    BY <1>1, <1>3, <1>6, <1>7, ReleaseType
  <1> HIDE DEF row
  <1>9. QED
    BY <1>2, <1>6, <1>8, Zenon DEF row, u

\* The tables after a failed attempt; the worker's part is in its callers.
LEMMA FailAttemptType ==
    ASSUME TypeOK, NEW w \in Workers, NEW class \in ErrorClass,
           NEW ended \in {"failed", "timed_out"}, NEW at \in Int,
           FailAttempt(w, class, ended, at)
    PROVE  /\ workload' \in WorkloadState
           /\ unit' \in UnitRows
           /\ rev' \in RevisionRow
           /\ attempts' \in [Units -> Seq(AttemptState)]
  <1> DEFINE u == worker[w].unit
  <1>1. /\ u \in Units /\ unit[u] \in UnitRow /\ worker[w] \in WorkerRow
        /\ attempts[u] \in Seq(AttemptState)
    BY MatchesType DEF FailAttempt
  <1>2. PICK row \in UnitRow, r \in RevisionRow :
          Settle(workload, [unit EXCEPT ![u] = row], r, at, FALSE)
    BY FailAttemptRow
  <1>3. attempts' = [attempts EXCEPT ![u] =
                        [attempts[u] EXCEPT ![worker[w].fence] = ended]]
    BY Zenon DEF FailAttempt
  <1> HIDE DEF u
  <1>4. [unit EXCEPT ![u] = row] \in UnitRows
    BY <1>1 DEF TypeOK, UnitRows
  <1>5. /\ workload' \in WorkloadState
        /\ unit' \in UnitRows
        /\ rev' \in RevisionRow
    BY <1>2, <1>4, SettleType DEF TypeOK
  <1>6. ended \in AttemptState
    BY DEF AttemptState
  <1>7. QED
    BY <1>1, <1>3, <1>5, <1>6, ExceptAttempt DEF TypeOK

LEMMA FailureType ==
    ASSUME TypeOK, NEW w \in Workers
    PROVE  /\ RecordFailure(w) => TypeOK'
           /\ RecordTimeout(w) => TypeOK'
  <1>1. ASSUME RecordFailure(w)
        PROVE  TypeOK'
    <2>1. PICK class \in ErrorClasses, ended \in {"failed", "timed_out"} :
             FailAttempt(w, class, ended, 0)
      BY <1>1 DEF RecordFailure
    <2>2. class \in ErrorClass
      BY Literals
    <2>3. /\ workload' \in WorkloadState
          /\ unit' \in UnitRows
          /\ rev' \in RevisionRow
          /\ attempts' \in [Units -> Seq(AttemptState)]
      BY <2>1, <2>2, FailAttemptType
    <2>4. QED
      BY <1>1, <2>3, ReturnType DEF RecordFailure, TypeOK, UnitRows
  <1>2. ASSUME RecordTimeout(w)
        PROVE  TypeOK'
    <2> DEFINE at == Greatest(0, worker[w].deadline)
    <2>1. at \in Int
      BY DEF Greatest, TypeOK, WorkerRow
    <2>2. "executor_transient" \in ErrorClass
      BY Literals
    <2>3. FailAttempt(w, "executor_transient", "timed_out", at)
      BY <1>2 DEF RecordTimeout
    <2> HIDE DEF at
    <2>4. /\ workload' \in WorkloadState
          /\ unit' \in UnitRows
          /\ rev' \in RevisionRow
          /\ attempts' \in [Units -> Seq(AttemptState)]
      BY <2>1, <2>2, <2>3, FailAttemptType
    <2>5. QED
      BY <1>2, <2>4, ReturnType DEF RecordTimeout, TypeOK, UnitRows
  <1>3. QED
    BY <1>1, <1>2

\* The row that abandon_attempt writes before it settles the workload.
LEMMA AbandonRow ==
    ASSUME TypeOK, NEW w \in Workers, AbandonAttempt(w)
    PROVE  \E row \in UnitRow, r \in RevisionRow :
              /\ row.state \in GivenBack /\ Free(row)
              /\ Settle(workload, [unit EXCEPT ![worker[w].unit] = row], r,
                        0, FALSE)
  <1> DEFINE u == worker[w].unit
             before == unit[u].state = "leased"
             Retry(unknown) == /\ worker[w].fence < MaxAttempts
                                     \/ GrantReturned(w)
                               /\ ~unknown /\ ~Regressed(rev, 0)
             State(unknown) == IF ~Retry(unknown) THEN "needs_attention"
                               ELSE IF before THEN "pending" ELSE "retry_wait"
             Error(unknown) == IF Retry(unknown) THEN "" ELSE "cancelled"
             R(unknown) == Advance([rev EXCEPT !.unknown = @ \/ unknown], 0)
             token == IF GrantReturned(w) THEN 1 ELSE 0
  <1>1. /\ u \in Units /\ unit[u] \in UnitRow /\ worker[w] \in WorkerRow
        /\ attempts[u] \in Seq(AttemptState)
    BY MatchesType DEF AbandonAttempt
  <1>2. PICK unknown \in BOOLEAN :
          Settle(workload,
                 [unit EXCEPT ![u] =
                     Release(unit[u], State(unknown), 0, Error(unknown), token,
                             R(unknown))],
                 R(unknown), 0, FALSE)
    BY Zenon DEF AbandonAttempt, MissingUsage
  <1>3. State(unknown) \in UnitState /\ State(unknown) \in GivenBack
    BY Literals DEF GivenBack
  <1>4. Error(unknown) \in ErrorClass
    BY Literals
  <1>5. token \in {0, 1} /\ 0 \in Int
    OBVIOUS
  <1>6. [rev EXCEPT !.unknown = @ \/ unknown] \in RevisionRow
    BY DEF TypeOK, RevisionRow
  <1>7. R(unknown) \in RevisionRow
    BY <1>6, AdvanceType
  <1> HIDE DEF State, Error, R, token, u
  <1> DEFINE row == Release(unit[u], State(unknown), 0, Error(unknown), token,
                            R(unknown))
  <1>8. row \in UnitRow /\ row.state = State(unknown) /\ Free(row)
    <2>1. /\ unit[u] \in UnitRow /\ State(unknown) \in UnitState
          /\ 0 \in Int /\ Error(unknown) \in ErrorClass
          /\ token \in {0, 1} /\ R(unknown) \in RevisionRow
      BY <1>1, <1>3, <1>4, <1>5, <1>7
    <2>2. QED
      BY ONLY <2>1, ReleaseType
  <1> HIDE DEF row
  <1>9. row.state \in GivenBack
    BY <1>3, <1>8
  <1>10. QED
    BY <1>2, <1>7, <1>8, <1>9, Zenon DEF row, u

LEMMA AbandonType ==
    ASSUME TypeOK, NEW w \in Workers, AbandonAttempt(w)
    PROVE  /\ workload' \in WorkloadState
           /\ unit' \in UnitRows
           /\ rev' \in RevisionRow
           /\ attempts' \in [Units -> Seq(AttemptState)]
  <1> DEFINE u == worker[w].unit
  <1>1. /\ u \in Units /\ unit[u] \in UnitRow /\ worker[w] \in WorkerRow
        /\ attempts[u] \in Seq(AttemptState)
    BY MatchesType DEF AbandonAttempt
  <1>2. PICK row \in UnitRow, r \in RevisionRow :
          Settle(workload, [unit EXCEPT ![u] = row], r, 0, FALSE)
    BY AbandonRow
  <1>3. attempts' = [attempts EXCEPT ![u] =
                        [attempts[u] EXCEPT ![worker[w].fence] = "abandoned"]]
    BY Zenon DEF AbandonAttempt
  <1> HIDE DEF u
  <1>4. [unit EXCEPT ![u] = row] \in UnitRows
    BY <1>1 DEF TypeOK, UnitRows
  <1>5. /\ workload' \in WorkloadState
        /\ unit' \in UnitRows
        /\ rev' \in RevisionRow
    BY <1>2, <1>4, SettleType DEF TypeOK
  <1>6. "abandoned" \in AttemptState
    BY DEF AttemptState
  <1>7. QED
    BY <1>1, <1>3, <1>5, <1>6, ExceptAttempt DEF TypeOK

LEMMA HandBackType ==
    ASSUME TypeOK, NEW w \in Workers
    PROVE  /\ HandBack(w) => TypeOK'
           /\ ShutdownDue(w) => TypeOK'
  <1>1. ASSUME HandBack(w)
        PROVE  TypeOK'
    <2>1. worker' \in [Workers -> WorkerRow]
      BY <1>1, ReturnType DEF HandBack
    <2>2. CASE AbandonAttempt(w)
      BY <1>1, <2>1, <2>2, AbandonType DEF HandBack, TypeOK, UnitRows
    <2>3. CASE UNCHANGED <<workload, unit, attempts, rev>>
      BY <1>1, <2>1, <2>3 DEF HandBack, TypeOK
    <2>4. QED
      BY <1>1, <2>2, <2>3 DEF HandBack
  <1>2. ASSUME ShutdownDue(w)
        PROVE  TypeOK'
    BY <1>2, AbandonType DEF ShutdownDue, TypeOK, UnitRows
  <1>3. QED
    BY <1>1, <1>2

\* The rows of a batch of expired leases.
LEMMA ReconciledRowsType ==
    ASSUME TypeOK, NEW B, NEW U
    PROVE  ReconciledRows(B, U) \in UnitRows
  <1>1. unit \in UnitRows /\ rev \in RevisionRow
    BY DEF TypeOK, UnitRows
  <1>2. ASSUME NEW u \in Units
        PROVE  Reconciled(u, rev, u \in U) \in UnitRow
    BY <1>1, ReconciledType
  <1>3. QED
    BY <1>1, <1>2 DEF ReconciledRows, UnitRows

LEMMA ReconcileType ==
    ASSUME TypeOK, NEW B, NEW U, NEW P, ReconcileBatch(B, U, P)
    PROVE  TypeOK'
  <1> DEFINE rows == Promote(ReconciledRows(B, U), P)
             r == [rev EXCEPT !.unknown = @ \/ U # {}]
  <1>1. rows \in UnitRows
    BY ReconciledRowsType, PromoteType
  <1>2. r \in RevisionRow
    BY DEF TypeOK, RevisionRow
  <1>3. Advance(r, 0) \in RevisionRow
    BY <1>2, AdvanceType
  <1>4. \/ B = {} /\ unit' = rows /\ UNCHANGED <<workload, rev>>
        \/ B # {} /\ Settle(workload, rows, Advance(r, 0), 0, FALSE)
    BY Zenon DEF ReconcileBatch
  <1> HIDE DEF rows, r
  <1>5. /\ workload' \in WorkloadState
        /\ unit' \in UnitRows
        /\ rev' \in RevisionRow
    BY <1>1, <1>3, <1>4, SettleType DEF TypeOK
  <1>6. attempts' \in [Units -> Seq(AttemptState)]
    <2>1. ASSUME NEW u \in Units
          PROVE  attempts'[u] \in Seq(AttemptState)
      <3> DEFINE x == IF unit[u].state = "leased"
                      THEN "abandoned" ELSE "timed_out"
      <3>1. x \in AttemptState
        BY DEF AttemptState
      <3>2. attempts[u] \in Seq(AttemptState)
        BY DEF TypeOK
      <3>3. attempts'[u] = IF u \in B
                           THEN [attempts[u] EXCEPT ![unit[u].active] = x]
                           ELSE attempts[u]
        BY DEF ReconcileBatch
      <3> HIDE DEF x
      <3>4. [attempts[u] EXCEPT ![unit[u].active] = x] \in Seq(AttemptState)
        BY <3>1, <3>2, ExceptAttempt
      <3>5. QED
        BY <3>2, <3>3, <3>4
    <2>2. attempts' = [u \in Units |-> attempts'[u]]
      BY DEF ReconcileBatch
    <2>3. QED
      BY <2>1, <2>2
  <1>7. QED
    BY <1>5, <1>6 DEF ReconcileBatch, TypeOK, UnitRows

LEMMA MaintenanceType ==
    ASSUME TypeOK
    PROVE  /\ SettleWorkloads => TypeOK'
           /\ CompleteReadyWorkloads => TypeOK'
  <1>1. ASSUME SettleWorkloads
        PROVE  TypeOK'
    BY <1>1, SettleType DEF SettleWorkloads, TypeOK, UnitRows
  <1>2. ASSUME CompleteReadyWorkloads
        PROVE  TypeOK'
    BY <1>2 DEF CompleteReadyWorkloads, EvaluateCompletion, CompletionState,
                Completed, WorkloadState, TypeOK
  <1>3. QED
    BY <1>1, <1>2

\* Where the commands lead.
LEMMA ControlTargetType ==
    ASSUME NEW command \in {"pause", "resume", "cancel"},
           workload \in DOMAIN ControlTarget[command]
    PROVE  /\ ControlTarget[command][workload] \in
                 {"paused", "pause_requested", "queued", "cancel_requested"}
           /\ ControlTarget[command][workload] \in WorkloadState
  BY DEF ControlTarget, WorkloadState

LEMMA OwnerType ==
    ASSUME TypeOK
    PROVE  /\ Enqueue => TypeOK'
           /\ \A command \in {"pause", "resume", "cancel"} :
                 Control(command) => TypeOK'
           /\ ResolveRetry => TypeOK'
           /\ ResolveCancel => TypeOK'
  <1>1. ASSUME Enqueue
        PROVE  TypeOK'
    <2>1. rev' \in RevisionRow
      BY <1>1, AdvanceType DEF Enqueue, EnterState, TypeOK
    <2>2. QED
      BY <1>1, <2>1 DEF Enqueue, WorkloadState, TypeOK
  <1>2. ASSUME NEW command \in {"pause", "resume", "cancel"},
               Control(command)
        PROVE  TypeOK'
    <2> DEFINE target == ControlTarget[command][workload]
    <2>1. target \in WorkloadState
      BY <1>2, ControlTargetType DEF Control
    <2>2. Advance(rev, 0) \in RevisionRow
      BY AdvanceType DEF TypeOK
    <2>3. \/ Settle(target, unit, rev, 0, FALSE)
          \/ /\ workload' = target
             /\ rev' = Advance(rev, 0) \/ rev' = rev
             /\ UNCHANGED unit
      BY <1>2 DEF Control, EnterState
    <2> HIDE DEF target
    <2>4. QED
      BY <1>2, <2>1, <2>2, <2>3, SettleType DEF Control, TypeOK, UnitRows
  <1>3. ASSUME ResolveRetry
        PROVE  TypeOK'
    <2>1. [rev EXCEPT !.gen = @ + 1] \in RevisionRow
      <3> DEFINE gen == rev.gen + 1
      <3>1. rev \in RevisionRow /\ gen \in Nat
        BY DEF TypeOK, RevisionRow
      <3> HIDE DEF gen
      <3>2. [rev EXCEPT !.gen = gen] \in RevisionRow
        BY <3>1 DEF RevisionRow
      <3>3. QED
        BY <3>2 DEF gen
    <2>2. rev' \in RevisionRow
      BY <1>3, <2>1, AdvanceType DEF ResolveRetry, EnterState
    <2>3. grants' \in [Units -> Nat]
      BY <1>3 DEF ResolveRetry, TypeOK
    <2>4. QED
      BY <1>3, <2>2, <2>3 DEF ResolveRetry, WorkloadState, TypeOK
  <1>4. ASSUME ResolveCancel
        PROVE  TypeOK'
    <2>1. "cancel_requested" \in WorkloadState
      BY DEF WorkloadState
    <2>2. QED
      BY <1>4, <2>1, SettleType DEF ResolveCancel, TypeOK, UnitRows
  <1>5. QED
    BY <1>1, <1>2, <1>3, <1>4

\* The clocks move; no other column does.
LEMMA ShiftType ==
    ASSUME TypeOK, NEW d \in Int, NEW m \in Int, Shift(d, m)
    PROVE  /\ unit' \in UnitRows
           /\ worker' \in [Workers -> WorkerRow]
           /\ rev' \in RevisionRow
  <1> DEFINE Move(t, by) == Greatest(t + by, -Horizon)
  <1>1. ASSUME NEW t \in Int
        PROVE  Move(t, d) \in Int /\ Greatest(t + m, 0) \in Nat
    BY PolicyAssumption DEF Greatest
  <1>2. /\ unit' = [u \in Units |->
              [unit[u] EXCEPT
                  !.lease = IF u \in Active(unit) THEN Move(@, d) ELSE @,
                  !.wait = IF unit[u].state = "retry_wait"
                           THEN Move(@, d) ELSE @]]
        /\ worker' = [w \in Workers |->
              IF worker[w].pc = "executing"
              THEN [worker[w] EXCEPT !.deadline = Move(@, d),
                                     !.mono = Greatest(@ + m, 0)]
              ELSE worker[w]]
        /\ rev' = [rev EXCEPT !.skew = Move(@, d)]
    BY Zenon DEF Shift
  <1> HIDE DEF Move
  <1>3. ASSUME NEW u \in Units
        PROVE  unit'[u] \in UnitRow
    <2> DEFINE row == unit[u]
               lease == IF u \in Active(unit) THEN Move(row.lease, d)
                        ELSE row.lease
               wait == IF row.state = "retry_wait" THEN Move(row.wait, d)
                       ELSE row.wait
    <2>1. row \in UnitRow
      BY DEF TypeOK
    <2>2. lease \in Int /\ wait \in Int
      BY <1>1, <2>1 DEF UnitRow
    <2>3. unit'[u] = [row EXCEPT !.lease = lease, !.wait = wait]
      BY <1>2
    <2> HIDE DEF row, lease, wait
    <2>4. QED
      BY <2>1, <2>2, <2>3 DEF UnitRow
  <1>4. ASSUME NEW w \in Workers
        PROVE  worker'[w] \in WorkerRow
    <2> DEFINE deadline == Move(worker[w].deadline, d)
               mono == Greatest(worker[w].mono + m, 0)
    <2>1. worker[w] \in WorkerRow
      BY DEF TypeOK
    <2>2. deadline \in Int /\ mono \in Nat
      BY <1>1, <2>1 DEF WorkerRow
    <2>3. \/ worker'[w] = worker[w]
          \/ worker'[w] = [worker[w] EXCEPT !.deadline = deadline,
                                            !.mono = mono]
      BY <1>2
    <2> HIDE DEF deadline, mono
    <2>4. QED
      BY <2>1, <2>2, <2>3 DEF WorkerRow
  <1>5. rev' \in RevisionRow
    BY <1>1, <1>2 DEF TypeOK, RevisionRow
  <1>6. QED
    BY <1>2, <1>3, <1>4, <1>5 DEF UnitRows

LEMMA EnvironmentType ==
    ASSUME TypeOK
    PROVE  /\ SpendBudget => TypeOK'
           /\ Tick => TypeOK'
           /\ \A d \in Jumps : JumpBack(d) => TypeOK'
  <1>1. ASSUME SpendBudget
        PROVE  TypeOK'
    BY <1>1 DEF SpendBudget, TypeOK, RevisionRow
  <1>2. ASSUME Tick
        PROVE  TypeOK'
    BY <1>2, ShiftType DEF Tick, TypeOK, UnitRows
  <1>3. ASSUME NEW d \in Jumps, JumpBack(d)
        PROVE  TypeOK'
    BY <1>3, ShiftType, PolicyAssumption DEF JumpBack, TypeOK, UnitRows
  <1>4. QED
    BY <1>1, <1>2, <1>3

\* Every step keeps the columns in their domains.
LEMMA TypeInvariance ==
    ASSUME TypeOK, [Next]_vars
    PROVE  TypeOK'
  <1>1. ASSUME NEW w \in Workers, WorkerStep(w)
        PROVE  TypeOK'
    BY <1>1, ClaimType, StartType, HeartbeatType, CommitType, FailureType,
       StopType, HandBackType DEF WorkerStep
  <1>2. CASE Owner
    BY <1>2, OwnerType DEF Owner
  <1>3. CASE Service
    BY <1>3, ReconcileType, MaintenanceType DEF Service, ReconcileExpired
  <1>4. CASE Environment
    BY <1>4, EnvironmentType DEF Environment
  <1>5. CASE UNCHANGED vars
    BY <1>5 DEF vars, TypeOK
  <1>6. QED
    BY <1>1, <1>2, <1>3, <1>4, <1>5 DEF Next

LEMMA TypeInit == Init => TypeOK
  <1> SUFFICES ASSUME Init
               PROVE  TypeOK
    OBVIOUS
  <1> DEFINE state == "pending"
             error == ""
             row == [state |-> state, active |-> 0, worker |-> NoWorker,
                     lease |-> 0, manual |-> FALSE, wait |-> 0, tokens |-> 0,
                     gen |-> 0, error |-> error]
  <1>1. unit = [u \in Units |-> row]
    BY DEF Init
  <1>2. state \in UnitState /\ error \in ErrorClass
    BY Literals
  <1> HIDE DEF state, error
  <1>3. row \in UnitRow
    BY <1>2 DEF UnitRow
  <1> HIDE DEF row
  <1>4. unit \in UnitRows
    BY <1>1, <1>3 DEF UnitRows
  <1>5. worker \in [Workers -> WorkerRow]
    <2>1. worker = [w \in Workers |-> Idle]
      BY DEF Init
    <2>2. QED
      BY <2>1, IdleRow
  <1>6. rev \in RevisionRow
    <2>1. rev = [gen |-> 0, unknown |-> FALSE, spent |-> FALSE, skew |-> 0]
      BY DEF Init
    <2>2. QED
      BY <2>1 DEF RevisionRow
  <1>7. workload \in WorkloadState
    BY DEF Init, WorkloadState
  <1>8. attempts \in [Units -> Seq(AttemptState)]
    <2>1. attempts = [u \in Units |-> <<>>]
      BY DEF Init
    <2>2. QED
      BY <2>1
  <1>9. result \in [Units -> Nat]
        /\ starts \in [Units -> Nat]
        /\ grants \in [Units -> Nat]
    <2>1. /\ result = [u \in Units |-> 0]
          /\ starts = [u \in Units |-> 0]
          /\ grants = [u \in Units |-> 0]
      BY DEF Init
    <2>2. QED
      BY <2>1
  <1>10. QED
    BY <1>4, <1>5, <1>6, <1>7, <1>8, <1>9 DEF TypeOK, UnitRows

\* Type correctness: every column of every table, and every worker's local
\* state, stays in its domain whatever the transactions interleave.
THEOREM TypeCorrect == Spec => []TypeOK
  <1>1. Init => TypeOK
    BY TypeInit
  <1>2. TypeOK /\ [Next]_vars => TypeOK'
    BY TypeInvariance
  <1>3. QED
    BY <1>1, <1>2, PTL DEF Spec

-----------------------------------------------------------------------------
(* Fencing of leases and results.                                          *)

Held == {"leased", "running"}

\* What the row, the attempts s and the result f of one unit say of another.
GoodUnit(row, s, f) ==
    /\ row.state \in Held =>
          /\ row.active = Len(s)
          /\ row.active > 0
          /\ row.worker # NoWorker
          /\ s[Len(s)] = row.state
    /\ row.state \notin Held => row.active = 0 /\ row.worker = NoWorker
    /\ \A i \in 1..Len(s) :
          s[i] \in LiveAttempt => i = Len(s) /\ row.state \in Held
    /\ (row.state = "committed") <=> (f # 0)
    /\ f # 0 => f = Len(s)
    /\ \A i \in 1..Len(s) : s[i] = "succeeded" <=> i = f

GoodTables(us, as, rs) == \A u \in Units : GoodUnit(us[u], as[u], rs[u])

IInv == TypeOK /\ GoodTables(unit, attempts, result)

\* A row that stays in the same hands, or in nobody's, without a result.
Quiet(row, new) ==
    /\ new.active = row.active
    /\ new.worker = row.worker
    /\ \/ new.state = row.state
       \/ /\ row.state \notin Held \cup {"committed"}
          /\ new.state \notin Held \cup {"committed"}

-----------------------------------------------------------------------------
(* The five ways to change a unit.                                         *)

LEMMA QuietKeeps ==
    ASSUME NEW row, NEW new, NEW s, NEW f,
           GoodUnit(row, s, f), Quiet(row, new)
    PROVE  GoodUnit(new, s, f)
  <1>1. CASE new.state = row.state
    BY <1>1 DEF GoodUnit, Quiet
  <1>2. CASE /\ row.state \notin Held \cup {"committed"}
             /\ new.state \notin Held \cup {"committed"}
    BY <1>2 DEF GoodUnit, Quiet, Held
  <1>3. QED
    BY <1>1, <1>2 DEF Quiet

LEMMA ClaimKeeps ==
    ASSUME NEW row, NEW new, NEW s \in Seq(AttemptState), NEW f,
           GoodUnit(row, s, f),
           row.state \notin Held \cup {"committed"},
           new.state = "leased", new.active = Len(s) + 1,
           new.worker # NoWorker
    PROVE  GoodUnit(new, Append(s, "leased"), f)
  <1> DEFINE t == Append(s, "leased")
  <1>1. /\ Len(t) = Len(s) + 1 /\ t[Len(s) + 1] = "leased"
        /\ \A i \in 1..Len(s) : t[i] = s[i]
        /\ Len(s) \in Nat
    OBVIOUS
  <1>2. f = 0 /\ \A i \in 1..Len(s) : s[i] \notin LiveAttempt \cup {"succeeded"}
    BY <1>1 DEF GoodUnit, Held, LiveAttempt
  <1> HIDE DEF t
  <1>3. QED
    BY <1>1, <1>2 DEF GoodUnit, Held, LiveAttempt, t

LEMMA StartKeeps ==
    ASSUME NEW row, NEW new, NEW s \in Seq(AttemptState), NEW f,
           GoodUnit(row, s, f), row.state \in Held,
           new.state = "running", new.active = row.active,
           new.worker = row.worker
    PROVE  GoodUnit(new, [s EXCEPT ![row.active] = "running"], f)
  <1> DEFINE t == [s EXCEPT ![row.active] = "running"]
  <1>0. "running" \in AttemptState
    BY DEF AttemptState
  <1>1. /\ Len(t) = Len(s) /\ Len(s) \in Nat
        /\ \A i \in 1..Len(s) : t[i] = IF i = row.active THEN "running" ELSE s[i]
    BY <1>0, ExceptAttempt
  <1>2. row.active = Len(s) /\ row.active > 0 /\ row.worker # NoWorker /\ f = 0
    BY DEF GoodUnit, Held
  <1> HIDE DEF t
  <1>3. GoodUnit(new, t, f)
    <2>1. /\ \A i \in 1..Len(t) :
                t[i] \in LiveAttempt => i = Len(t) /\ new.state \in Held
          /\ \A i \in 1..Len(t) : t[i] = "succeeded" <=> i = f
      BY <1>1, <1>2 DEF GoodUnit, Held, LiveAttempt
    <2>2. QED
      BY <1>1, <1>2, <2>1 DEF GoodUnit, Held
  <1>4. QED
    BY <1>3 DEF t

LEMMA EndKeeps ==
    ASSUME NEW row, NEW new, NEW s \in Seq(AttemptState), NEW f,
           GoodUnit(row, s, f), row.state \in Held,
           NEW x \in {"failed", "timed_out", "abandoned"},
           new.state \notin Held \cup {"committed"},
           new.active = 0, new.worker = NoWorker
    PROVE  GoodUnit(new, [s EXCEPT ![row.active] = x], f)
  <1> DEFINE t == [s EXCEPT ![row.active] = x]
  <1>0. x \in AttemptState
    BY DEF AttemptState
  <1>1. /\ Len(t) = Len(s) /\ Len(s) \in Nat
        /\ \A i \in 1..Len(s) : t[i] = IF i = row.active THEN x ELSE s[i]
    BY <1>0, ExceptAttempt
  <1>2. row.active = Len(s) /\ f = 0
    BY DEF GoodUnit, Held
  <1> HIDE DEF t
  <1>3. GoodUnit(new, t, f)
    <2>1. /\ \A i \in 1..Len(t) :
                t[i] \in LiveAttempt => i = Len(t) /\ new.state \in Held
          /\ \A i \in 1..Len(t) : t[i] = "succeeded" <=> i = f
      BY <1>1, <1>2 DEF GoodUnit, Held, LiveAttempt
    <2>2. QED
      BY <1>1, <1>2, <2>1 DEF GoodUnit, Held
  <1>4. QED
    BY <1>3 DEF t

LEMMA CommitKeeps ==
    ASSUME NEW row, NEW new, NEW s \in Seq(AttemptState), NEW f,
           GoodUnit(row, s, f), row.state \in Held,
           new.state = "committed", new.active = 0, new.worker = NoWorker
    PROVE  GoodUnit(new, [s EXCEPT ![row.active] = "succeeded"], row.active)
  <1> DEFINE t == [s EXCEPT ![row.active] = "succeeded"]
  <1>0. "succeeded" \in AttemptState
    BY DEF AttemptState
  <1>1. /\ Len(t) = Len(s) /\ Len(s) \in Nat
        /\ \A i \in 1..Len(s) :
              t[i] = IF i = row.active THEN "succeeded" ELSE s[i]
    BY <1>0, ExceptAttempt
  <1>2. row.active = Len(s) /\ row.active > 0 /\ f = 0
    BY DEF GoodUnit, Held
  <1> HIDE DEF t
  <1>3. GoodUnit(new, t, row.active)
    <2>1. /\ \A i \in 1..Len(t) :
                t[i] \in LiveAttempt => i = Len(t) /\ new.state \in Held
          /\ \A i \in 1..Len(t) : t[i] = "succeeded" <=> i = row.active
      BY <1>1, <1>2 DEF GoodUnit, Held, LiveAttempt
    <2>2. QED
      BY <1>1, <1>2, <2>1 DEF GoodUnit, Held
  <1>4. QED
    BY <1>3 DEF t

-----------------------------------------------------------------------------
(* Promotion, cancellation, repair and settlement touch rows in nobody's   *)
(* hands only.                                                             *)

\* A change of the state of a row in nobody's hands.
LEMMA QuietRow ==
    ASSUME NEW row, NEW new,
           row.state \notin Held \cup {"committed"},
           new.state \notin Held \cup {"committed"},
           new.active = row.active, new.worker = row.worker
    PROVE  Quiet(row, new)
  BY DEF Quiet

LEMMA QuietTransitive ==
    ASSUME NEW a, NEW b, NEW c, Quiet(a, b), Quiet(b, c)
    PROVE  Quiet(a, c)
  BY DEF Quiet

LEMMA PromoteQuiet ==
    ASSUME NEW us \in UnitRows, NEW P, P \subseteq Due(us), NEW u \in Units
    PROVE  Quiet(us[u], Promote(us, P)[u])
  <1> DEFINE row == us[u]
             state == "pending"
             zero == 0
             error == ""
  <1>1. row \in UnitRow
    BY DEF UnitRows
  <1>2. state \notin Held \cup {"committed"}
    BY DEF Held
  <1>3. Promote(us, P)[u] =
          IF u \in P
          THEN [us[u] EXCEPT !.state = state, !.wait = zero, !.error = error]
          ELSE us[u]
    BY Zenon DEF Promote
  <1> HIDE DEF row, state, zero, error
  <1> DEFINE new == [row EXCEPT !.state = state, !.wait = zero, !.error = error]
  <1>fields. /\ new.state = state
             /\ new.active = row.active
             /\ new.worker = row.worker
    BY <1>1 DEF UnitRow
  <1> HIDE DEF new
  <1>4. CASE u \in P
    <2>1. row.state \notin Held \cup {"committed"}
      BY <1>4 DEF Due, Held, row
    <2>2. Quiet(row, new)
      BY <1>fields, <1>2, <2>1, QuietRow
    <2>3. QED
      BY <1>3, <1>4, <2>2 DEF row, new
  <1>5. CASE u \notin P
    BY <1>3, <1>5 DEF Quiet
  <1>6. QED
    BY <1>4, <1>5

LEMMA CancelQuiet ==
    ASSUME NEW us \in UnitRows, NEW B, NEW u \in Units,
           u \in B => us[u].state \notin Held \cup {"committed"}
    PROVE  Quiet(us[u], CancelUnits(us, B)[u])
  <1> DEFINE row == us[u]
             state == "cancelled"
             zero == 0
             error == IF us[u].error = "" THEN "cancelled" ELSE us[u].error
  <1>1. row \in UnitRow
    BY DEF UnitRows
  <1>2. state \notin Held \cup {"committed"}
    BY DEF Held
  <1>3. CancelUnits(us, B)[u] =
          IF u \in B
          THEN [us[u] EXCEPT !.state = state, !.wait = zero, !.tokens = zero,
                             !.error = error]
          ELSE us[u]
    BY Zenon DEF CancelUnits
  <1> HIDE DEF row, state, zero, error
  <1> DEFINE new == [row EXCEPT !.state = state, !.wait = zero,
                              !.tokens = zero, !.error = error]
  <1>fields. /\ new.state = state
             /\ new.active = row.active
             /\ new.worker = row.worker
    BY <1>1 DEF UnitRow
  <1> HIDE DEF new
  <1>4. CASE u \in B
    <2>1. Quiet(row, new)
      BY <1>fields, <1>2, <1>4, QuietRow DEF row
    <2>2. QED
      BY <1>3, <1>4, <2>1 DEF row, new
  <1>5. CASE u \notin B
    BY <1>3, <1>5 DEF Quiet
  <1>6. QED
    BY <1>4, <1>5

LEMMA RepairQuiet ==
    ASSUME NEW us \in UnitRows, NEW r, NEW u \in Units
    PROVE  Quiet(us[u], RepairExhausted(us, r)[u])
  <1> DEFINE row == us[u]
             state == "needs_attention"
             gen == r.gen
             error == IF us[u].error = "" THEN "budget_exhausted"
                      ELSE us[u].error
  <1>1. row \in UnitRow
    BY DEF UnitRows
  <1>2. state \notin Held \cup {"committed"}
    BY DEF Held
  <1>3. RepairExhausted(us, r)[u] =
          IF u \in Exhausted(us)
          THEN [us[u] EXCEPT !.state = state, !.gen = gen, !.error = error]
          ELSE us[u]
    BY Zenon DEF RepairExhausted
  <1> HIDE DEF row, state, gen, error
  <1> DEFINE new == [row EXCEPT !.state = state, !.gen = gen, !.error = error]
  <1>fields. /\ new.state = state
             /\ new.active = row.active
             /\ new.worker = row.worker
    BY <1>1 DEF UnitRow
  <1> HIDE DEF new
  <1>4. CASE u \in Exhausted(us)
    <2>1. row.state \notin Held \cup {"committed"}
      BY <1>4 DEF Exhausted, Held, row
    <2>2. Quiet(row, new)
      BY <1>fields, <1>2, <2>1, QuietRow
    <2>3. QED
      BY <1>3, <1>4, <2>2 DEF row, new
  <1>5. CASE u \notin Exhausted(us)
    BY <1>3, <1>5 DEF Quiet
  <1>6. QED
    BY <1>4, <1>5

LEMMA SettledQuiet ==
    ASSUME NEW w, NEW us \in UnitRows, NEW r \in RevisionRow, NEW at, NEW B,
           B \subseteq Waiting(us), NEW repair \in BOOLEAN, NEW u \in Units
    PROVE  Quiet(us[u], Settled(w, us, r, at, B, repair).unit[u])
  <1> DEFINE repaired == IF repair THEN RepairExhausted(us, r) ELSE us
  <1>1. Quiet(us[u], us[u])
    BY DEF Quiet
  <1>2. u \in B => us[u].state \notin Held \cup {"committed"}
    BY DEF Waiting, Held
  <1>3. Quiet(us[u], CancelUnits(us, B)[u])
    BY <1>2, CancelQuiet
  <1>4. repaired \in UnitRows /\ Quiet(us[u], repaired[u])
    BY <1>1, RepairQuiet, RepairExhaustedType
  <1>5. u \in B => repaired[u].state \notin Held \cup {"committed"}
    BY <1>2, <1>4 DEF Quiet
  <1> HIDE DEF repaired
  <1>6. Quiet(repaired[u], CancelUnits(repaired, B)[u])
    BY <1>4, <1>5, CancelQuiet
  <1>7. Quiet(us[u], CancelUnits(repaired, B)[u])
    BY <1>4, <1>6, QuietTransitive
  <1>8. Settled(w, us, r, at, B, repair).unit \in
           {us, repaired, CancelUnits(us, B), CancelUnits(repaired, B)}
    BY DEF Settled, repaired
  <1>9. QED
    BY <1>1, <1>3, <1>4, <1>7, <1>8

LEMMA SettleQuiet ==
    ASSUME NEW w, NEW us \in UnitRows, NEW r \in RevisionRow, NEW at,
           NEW repair \in BOOLEAN, Settle(w, us, r, at, repair),
           NEW u \in Units
    PROVE  Quiet(us[u], unit'[u])
  <1>1. PICK B \in Batches(Waiting(us)) :
          unit' = Settled(w, us, r, at, B, repair).unit
    BY DEF Settle
  <1>2. B \subseteq Waiting(us)
    BY DEF Batches
  <1>3. QED
    BY <1>1, <1>2, SettledQuiet

\* A transaction that leaves good tables and then settles leaves good tables.
LEMMA SettleKeeps ==
    ASSUME NEW w, NEW us \in UnitRows, NEW r \in RevisionRow, NEW at,
           NEW repair \in BOOLEAN, Settle(w, us, r, at, repair),
           GoodTables(us, attempts', result')
    PROVE  GoodTables(unit, attempts, result)'
  <1>1. ASSUME NEW u \in Units
        PROVE  GoodUnit(unit'[u], attempts'[u], result'[u])
    <2>1. GoodUnit(us[u], attempts'[u], result'[u])
      BY DEF GoodTables
    <2>2. Quiet(us[u], unit'[u])
      BY SettleQuiet
    <2>3. QED
      BY <2>1, <2>2, QuietKeeps
  <1>2. QED
    BY <1>1 DEF GoodTables

\* A change of one unit, the others as before.
LEMMA OneUnit ==
    ASSUME IInv, NEW u \in Units, NEW row, NEW s, NEW f,
           GoodUnit(row, s, f)
    PROVE  GoodTables([unit EXCEPT ![u] = row], [attempts EXCEPT ![u] = s],
                      [result EXCEPT ![u] = f])
  <1> DEFINE us == [unit EXCEPT ![u] = row]
             as == [attempts EXCEPT ![u] = s]
             rs == [result EXCEPT ![u] = f]
  <1>1. ASSUME NEW v \in Units
        PROVE  GoodUnit(us[v], as[v], rs[v])
    <2>1. /\ us[v] = IF v = u THEN row ELSE unit[v]
          /\ as[v] = IF v = u THEN s ELSE attempts[v]
          /\ rs[v] = IF v = u THEN f ELSE result[v]
      BY DEF IInv, TypeOK
    <2>2. GoodUnit(unit[v], attempts[v], result[v])
      BY DEF IInv, GoodTables
    <2> HIDE DEF us, as, rs
    <2>3. QED
      BY <2>1, <2>2
  <1> HIDE DEF us, as, rs
  <1>2. QED
    BY <1>1 DEF GoodTables, us, as, rs

\* The unit a matching lease names is held, by that very fence.
LEMMA MatchesHeld ==
    ASSUME IInv, NEW w \in Workers, Matches(w)
    PROVE  /\ worker[w].unit \in Units
           /\ unit[worker[w].unit].state \in Held
           /\ unit[worker[w].unit].active = worker[w].fence
           /\ attempts[worker[w].unit] \in Seq(AttemptState)
           /\ GoodUnit(unit[worker[w].unit], attempts[worker[w].unit],
                       result[worker[w].unit])
  <1> DEFINE u == worker[w].unit
  <1>1. /\ u \in Units /\ unit[u].active = worker[w].fence
        /\ unit[u].worker = w
    BY DEF Matches
  <1>2. GoodUnit(unit[u], attempts[u], result[u])
    BY <1>1 DEF IInv, GoodTables
  <1>3. w # NoWorker
    BY WorkersAssumption
  <1>4. unit[u].state \in Held
    BY <1>1, <1>2, <1>3 DEF GoodUnit
  <1>5. attempts[u] \in Seq(AttemptState)
    BY <1>1 DEF IInv, TypeOK
  <1>6. QED
    BY <1>1, <1>2, <1>4, <1>5

-----------------------------------------------------------------------------
(* One lemma per action, or per group of actions with the same effect.     *)

LEMMA ClaimNextKeeps ==
    ASSUME IInv, NEW w \in Workers, ClaimNext(w)
    PROVE  GoodTables(unit, attempts, result)'
  <1> DEFINE us == Promote(unit, Due(unit))
  <1>1. us \in UnitRows
    BY PromoteType DEF IInv, TypeOK, UnitRows
  <1>2. ASSUME NEW v \in Units
        PROVE  GoodUnit(us[v], attempts[v], result[v])
    <2>1. Quiet(unit[v], us[v])
      BY PromoteQuiet DEF IInv, TypeOK, UnitRows
    <2>2. GoodUnit(unit[v], attempts[v], result[v])
      BY DEF IInv, GoodTables
    <2>3. QED
      BY <2>1, <2>2, QuietKeeps
  <1> HIDE DEF us
  <1>3. PICK u \in Claimable(us, rev) :
          /\ attempts' = [attempts EXCEPT ![u] =
                              Append(attempts[u], "leased")]
          /\ unit' = [us EXCEPT ![u] = Leased(us[u], w, Fence(u) + 1, rev)]
    BY Zenon DEF ClaimNext, us
  <1>4. result' = result
    BY DEF ClaimNext
  <1>5. u \in Units /\ us[u].state \in {"pending", "needs_attention"}
    BY DEF Claimable
  <1>6. us[u].state \notin Held \cup {"committed"}
    BY <1>5 DEF Held
  <1> DEFINE new == Leased(us[u], w, Fence(u) + 1, rev)
  <1>7. /\ new.state = "leased" /\ new.worker # NoWorker
        /\ new.active = Len(attempts[u]) + 1
    BY WorkersAssumption DEF Leased, Fence
  <1> HIDE DEF new
  <1>8. attempts[u] \in Seq(AttemptState)
    BY <1>5 DEF IInv, TypeOK
  <1>9. GoodUnit(new, Append(attempts[u], "leased"), result[u])
    BY <1>2, <1>5, <1>6, <1>7, <1>8, ClaimKeeps
  <1>10. ASSUME NEW v \in Units
         PROVE  GoodUnit(unit'[v], attempts'[v], result'[v])
    <2>1. /\ unit'[v] = IF v = u THEN new ELSE us[v]
          /\ attempts'[v] = IF v = u THEN Append(attempts[u], "leased")
                            ELSE attempts[v]
          /\ result'[v] = result[v]
      BY <1>1, <1>3, <1>4, <1>5 DEF new, IInv, TypeOK, UnitRows
    <2>2. QED
      BY <1>2, <1>9, <2>1
  <1>11. QED
    BY <1>10 DEF GoodTables

LEMMA MarkRunningKeeps ==
    ASSUME IInv, NEW w \in Workers, MarkRunning(w)
    PROVE  GoodTables(unit, attempts, result)'
  <1> DEFINE u == worker[w].unit
             row == unit[u]
             state == "running"
             lease == Least(row.lease, Timeout)
             new == [row EXCEPT !.state = state, !.lease = lease]
             s == [attempts[u] EXCEPT ![row.active] = state]
  <1>1. /\ u \in Units /\ row.state \in Held
        /\ row.active = worker[w].fence
        /\ attempts[u] \in Seq(AttemptState)
        /\ GoodUnit(row, attempts[u], result[u])
    BY MatchesHeld DEF MarkRunning
  <1>2. /\ attempts' = [attempts EXCEPT ![u] =
                            [attempts[u] EXCEPT ![worker[w].fence] = state]]
        /\ unit' = [unit EXCEPT ![u] =
                        [row EXCEPT !.state = state, !.lease = lease]]
        /\ result' = result
    BY Zenon DEF MarkRunning
  <1>3. row \in UnitRow
    BY <1>1 DEF IInv, TypeOK
  <1> HIDE DEF u, row, lease
  <1>4. /\ new.state = state
        /\ new.active = row.active
        /\ new.worker = row.worker
    <2> HIDE DEF state
    <2>1. QED
      BY <1>3 DEF UnitRow
  <1> HIDE DEF new
  <1>5. GoodUnit(new, s, result[u])
    BY <1>1, <1>4, StartKeeps
  <1>6. /\ attempts' = [attempts EXCEPT ![u] = s]
        /\ unit' = [unit EXCEPT ![u] = new]
        /\ result' = [result EXCEPT ![u] = result[u]]
    BY <1>1, <1>2 DEF new, IInv, TypeOK
  <1> HIDE DEF s
  <1>7. QED
    BY <1>1, <1>5, <1>6, OneUnit

\* A failed or abandoned attempt ends, its unit is given back, and the
\* workload is settled.
LEMMA EndSettles ==
    ASSUME IInv, NEW w \in Workers, Matches(w),
           NEW x \in {"failed", "timed_out", "abandoned"},
           NEW row \in UnitRow, row.state \in GivenBack, Free(row),
           NEW r \in RevisionRow, NEW at,
           Settle(workload, [unit EXCEPT ![worker[w].unit] = row], r, at,
                  FALSE),
           attempts' = [attempts EXCEPT ![worker[w].unit] =
               [attempts[worker[w].unit] EXCEPT ![worker[w].fence] = x]],
           result' = result
    PROVE  GoodTables(unit, attempts, result)'
  <1> DEFINE u == worker[w].unit
             s == [attempts[u] EXCEPT ![unit[u].active] = x]
             us == [unit EXCEPT ![u] = row]
  <1>1. /\ u \in Units /\ unit[u].state \in Held
        /\ unit[u].active = worker[w].fence
        /\ attempts[u] \in Seq(AttemptState)
        /\ GoodUnit(unit[u], attempts[u], result[u])
    BY MatchesHeld
  <1>2. row.state \notin Held \cup {"committed"}
    BY DEF GivenBack, Held
  <1>3. GoodUnit(row, s, result[u])
    BY <1>1, <1>2, EndKeeps DEF Free
  <1>4. /\ attempts' = [attempts EXCEPT ![u] = s]
        /\ result' = [result EXCEPT ![u] = result[u]]
    BY <1>1 DEF IInv, TypeOK
  <1>5. us \in UnitRows
    BY <1>1 DEF IInv, TypeOK, UnitRows
  <1>6. Settle(workload, us, r, at, FALSE)
    OBVIOUS
  <1> HIDE DEF s, u
  <1>7. GoodTables(us, attempts', result')
    <2>1. GoodTables(us, [attempts EXCEPT ![u] = s],
                     [result EXCEPT ![u] = result[u]])
      BY <1>1, <1>3, OneUnit
    <2>2. QED
      BY <1>4, <2>1, Zenon
  <1> HIDE DEF us
  <1>8. QED
    BY <1>5, <1>6, <1>7, SettleKeeps

LEMMA CommitResultKeeps ==
    ASSUME IInv, NEW w \in Workers, CommitResult(w)
    PROVE  GoodTables(unit, attempts, result)'
  <1> DEFINE u == worker[w].unit
             row == Committed(unit[u])
             s == [attempts[u] EXCEPT ![unit[u].active] = "succeeded"]
             us == [unit EXCEPT ![u] = row]
  <1>1. /\ u \in Units /\ unit[u].state \in Held
        /\ unit[u].active = worker[w].fence
        /\ attempts[u] \in Seq(AttemptState)
        /\ GoodUnit(unit[u], attempts[u], result[u])
    BY MatchesHeld DEF CommitResult
  <1>2. /\ Settle(workload, us, Advance(rev, 0), 0, FALSE)
        /\ result' = [result EXCEPT ![u] = worker[w].fence]
        /\ attempts' = [attempts EXCEPT ![u] =
               [attempts[u] EXCEPT ![worker[w].fence] = "succeeded"]]
    BY Zenon DEF CommitResult
  <1>3. /\ unit[u] \in UnitRow /\ rev \in RevisionRow
        /\ Advance(rev, 0) \in RevisionRow
    BY <1>1, AdvanceType DEF IInv, TypeOK
  <1>4. "committed" \in UnitState /\ "" \in ErrorClass
    BY Literals
  <1>5. row \in UnitRow /\ row.state = "committed" /\ Free(row)
    <2> DEFINE state == "committed"
               error == ""
               zero == 0
    <2>0. zero \in Int /\ zero \in {0, 1}
      OBVIOUS
    <2>1. state \in UnitState /\ error \in ErrorClass
      BY <1>4, Zenon
    <2>2. row = Release(unit[u], state, zero, error, zero, rev)
      BY DEF Committed
    <2> HIDE DEF u, row, state, error, zero
    <2>3. row \in UnitRow /\ row.state = state /\ Free(row)
      BY ONLY <1>3, <2>0, <2>1, <2>2, ReleaseType
    <2>4. QED
      BY <2>3 DEF state
  <1>6. us \in UnitRows
    BY <1>1, <1>5 DEF IInv, TypeOK, UnitRows
  <1> HIDE DEF row
  <1>7. GoodUnit(row, s, unit[u].active)
    BY <1>1, <1>5, CommitKeeps DEF Free
  <1>8. /\ attempts' = [attempts EXCEPT ![u] = s]
        /\ result' = [result EXCEPT ![u] = unit[u].active]
    BY <1>1, <1>2
  <1> HIDE DEF s, u
  <1>9. GoodTables(us, attempts', result')
    <2>1. GoodTables(us, [attempts EXCEPT ![u] = s],
                     [result EXCEPT ![u] = unit[u].active])
      BY <1>1, <1>7, OneUnit
    <2>2. QED
      BY <1>8, <2>1, Zenon
  <1> HIDE DEF us
  <1>10. QED
    BY <1>2, <1>3, <1>6, <1>9, SettleKeeps

LEMMA FailAttemptKeeps ==
    ASSUME IInv, NEW w \in Workers, NEW class \in ErrorClass,
           NEW ended \in {"failed", "timed_out"}, NEW at \in Int,
           FailAttempt(w, class, ended, at), result' = result
    PROVE  GoodTables(unit, attempts, result)'
  <1>1. PICK row \in UnitRow, r \in RevisionRow :
          /\ row.state \in GivenBack /\ Free(row)
          /\ Settle(workload, [unit EXCEPT ![worker[w].unit] = row], r, at,
                    FALSE)
    BY FailAttemptRow DEF IInv
  <1>2. /\ Matches(w)
        /\ attempts' = [attempts EXCEPT ![worker[w].unit] =
               [attempts[worker[w].unit] EXCEPT ![worker[w].fence] = ended]]
    BY Zenon DEF FailAttempt
  <1>3. ended \in {"failed", "timed_out", "abandoned"}
    OBVIOUS
  <1>4. QED
    BY <1>1, <1>2, <1>3, EndSettles

LEMMA AbandonKeeps ==
    ASSUME IInv, NEW w \in Workers, AbandonAttempt(w), result' = result
    PROVE  GoodTables(unit, attempts, result)'
  <1>1. PICK row \in UnitRow, r \in RevisionRow :
          /\ row.state \in GivenBack /\ Free(row)
          /\ Settle(workload, [unit EXCEPT ![worker[w].unit] = row], r, 0,
                    FALSE)
    BY AbandonRow DEF IInv
  <1> DEFINE x == "abandoned"
  <1>2. /\ Matches(w)
        /\ attempts' = [attempts EXCEPT ![worker[w].unit] =
               [attempts[worker[w].unit] EXCEPT ![worker[w].fence] = x]]
    BY Zenon DEF AbandonAttempt
  <1>3. x \in {"failed", "timed_out", "abandoned"}
    OBVIOUS
  <1> HIDE DEF x
  <1>4. QED
    BY <1>1, <1>2, <1>3, EndSettles

\* Every expired lease of the batch ends like a failed attempt.
LEMMA ReconcileKeeps ==
    ASSUME IInv, NEW B, B \subseteq Expired, NEW U, NEW P,
           P \subseteq Due(ReconciledRows(B, U)), ReconcileBatch(B, U, P)
    PROVE  GoodTables(unit, attempts, result)'
  <1> DEFINE rows == ReconciledRows(B, U)
             us == Promote(rows, P)
             r == Advance([rev EXCEPT !.unknown = @ \/ U # {}], 0)
  <1>1. rows \in UnitRows /\ us \in UnitRows
    BY ReconciledRowsType, PromoteType DEF IInv
  <1>2. r \in RevisionRow
    <2>1. [rev EXCEPT !.unknown = @ \/ U # {}] \in RevisionRow
      BY DEF IInv, TypeOK, RevisionRow
    <2>2. QED
      BY <2>1, AdvanceType
  <1>3. /\ attempts' = [u \in Units |->
               IF u \in B
               THEN [attempts[u] EXCEPT ![unit[u].active] =
                        IF unit[u].state = "leased"
                        THEN "abandoned" ELSE "timed_out"]
               ELSE attempts[u]]
        /\ result' = result
        /\ \/ unit' = us
           \/ Settle(workload, us, r, 0, FALSE)
    BY Zenon DEF ReconcileBatch
  <1>4. ASSUME NEW u \in Units
        PROVE  GoodUnit(rows[u], attempts'[u], result[u])
    <2> DEFINE x == IF unit[u].state = "leased"
                    THEN "abandoned" ELSE "timed_out"
               new == Reconciled(u, rev, u \in U)
    <2>1. /\ GoodUnit(unit[u], attempts[u], result[u])
          /\ attempts[u] \in Seq(AttemptState)
      BY DEF IInv, GoodTables, TypeOK
    <2>2. CASE u \notin B
      <3>1. rows[u] = unit[u] /\ attempts'[u] = attempts[u]
        BY <1>3, <2>2 DEF ReconciledRows
      <3>2. QED
        BY <2>1, <3>1
    <2>3. CASE u \in B
      <3>1. unit[u].state \in Held
        BY <2>3 DEF Expired, Active, Held
      <3>2. rows[u] = new
        BY <2>3 DEF ReconciledRows
      <3>3. attempts'[u] = [attempts[u] EXCEPT ![unit[u].active] = x]
        BY <1>3, <2>3
      <3>4. x \in {"failed", "timed_out", "abandoned"}
        OBVIOUS
      <3>5. new.state \in GivenBack /\ Free(new)
        BY ReconciledType DEF IInv, TypeOK, UnitRows
      <3> HIDE DEF x, new, rows
      <3>6. new.state \notin Held \cup {"committed"}
        BY <3>5 DEF GivenBack, Held
      <3>7. new.active = 0 /\ new.worker = NoWorker
        BY <3>5 DEF Free
      <3>8. GoodUnit(new, [attempts[u] EXCEPT ![unit[u].active] = x],
                     result[u])
        BY ONLY <2>1, <3>1, <3>4, <3>6, <3>7, EndKeeps
      <3>9. QED
        BY <3>2, <3>3, <3>8, Zenon
    <2>4. QED
      BY <2>2, <2>3
  <1>5. ASSUME NEW u \in Units
        PROVE  GoodUnit(us[u], attempts'[u], result'[u])
    <2>1. Quiet(rows[u], us[u])
      BY <1>1, PromoteQuiet
    <2>2. result'[u] = result[u]
      BY <1>3
    <2> HIDE DEF rows, us
    <2>3. QED
      BY <1>4, <2>1, <2>2, QuietKeeps
  <1>6. GoodTables(us, attempts', result')
    BY <1>5 DEF GoodTables
  <1> HIDE DEF us, r, rows
  <1>7. CASE unit' = us
    BY <1>6, <1>7 DEF GoodTables
  <1>8. CASE Settle(workload, us, r, 0, FALSE)
    BY <1>1, <1>2, <1>6, <1>8, SettleKeeps
  <1>9. QED
    BY <1>3, <1>7, <1>8

\* A step that changes neither the attempts nor the results, and only rows
\* in nobody's hands, or none.
LEMMA QuietStepKeeps ==
    ASSUME IInv, UNCHANGED <<attempts, result>>,
           \A u \in Units : Quiet(unit[u], unit'[u])
    PROVE  GoodTables(unit, attempts, result)'
  <1>1. ASSUME NEW u \in Units
        PROVE  GoodUnit(unit'[u], attempts'[u], result'[u])
    BY QuietKeeps DEF IInv, GoodTables
  <1>2. QED
    BY <1>1 DEF GoodTables

LEMMA SameRowsKeep ==
    ASSUME IInv, UNCHANGED <<unit, attempts, result>>
    PROVE  GoodTables(unit, attempts, result)'
  BY DEF IInv, GoodTables

LEMMA SettleOnlyKeeps ==
    ASSUME IInv, NEW w, NEW r \in RevisionRow, NEW at,
           NEW repair \in BOOLEAN, Settle(w, unit, r, at, repair),
           UNCHANGED <<attempts, result>>
    PROVE  GoodTables(unit, attempts, result)'
  <1>1. unit \in UnitRows
    BY DEF IInv, TypeOK, UnitRows
  <1>2. \A u \in Units : Quiet(unit[u], unit'[u])
    BY <1>1, SettleQuiet
  <1>3. QED
    BY <1>2, QuietStepKeeps

LEMMA HeartbeatKeeps ==
    ASSUME IInv, NEW w \in Workers, Heartbeat(w)
    PROVE  GoodTables(unit, attempts, result)'
  <1> DEFINE u == worker[w].unit
             expiry == RenewedExpiry(w)
  <1>1. /\ unit' = [unit EXCEPT ![u] = [unit[u] EXCEPT !.lease = expiry]]
        /\ UNCHANGED <<attempts, result>>
    BY Zenon DEF Heartbeat
  <1> HIDE DEF u, expiry
  <1>2. ASSUME NEW v \in Units
        PROVE  Quiet(unit[v], unit'[v])
    <2>1. unit[v] \in UnitRow
      BY DEF IInv, TypeOK
    <2>2. unit'[v] = unit[v] \/ unit'[v] = [unit[v] EXCEPT !.lease = expiry]
      BY <1>1 DEF IInv, TypeOK
    <2>3. QED
      BY <2>1, <2>2 DEF Quiet, UnitRow
  <1>3. QED
    BY <1>1, <1>2, QuietStepKeeps

\* The clocks move; the hands do not.
LEMMA ShiftKeeps ==
    ASSUME IInv, NEW d \in Int, NEW m \in Int, Shift(d, m),
           UNCHANGED <<attempts, result>>
    PROVE  GoodTables(unit, attempts, result)'
  <1> DEFINE Move(t, by) == Greatest(t + by, -Horizon)
  <1>1. unit' = [u \in Units |->
              [unit[u] EXCEPT
                  !.lease = IF u \in Active(unit) THEN Move(@, d) ELSE @,
                  !.wait = IF unit[u].state = "retry_wait"
                           THEN Move(@, d) ELSE @]]
    BY Zenon DEF Shift
  <1> HIDE DEF Move
  <1>2. ASSUME NEW v \in Units
        PROVE  Quiet(unit[v], unit'[v])
    <2> DEFINE row == unit[v]
               lease == IF v \in Active(unit) THEN Move(row.lease, d)
                        ELSE row.lease
               wait == IF row.state = "retry_wait" THEN Move(row.wait, d)
                       ELSE row.wait
    <2>1. row \in UnitRow
      BY DEF IInv, TypeOK
    <2>2. unit'[v] = [row EXCEPT !.lease = lease, !.wait = wait]
      BY <1>1
    <2> HIDE DEF row, lease, wait
    <2>3. Quiet(row, unit'[v])
      BY <2>1, <2>2 DEF Quiet, UnitRow
    <2>4. QED
      BY <2>3 DEF row
  <1>3. QED
    BY <1>2, QuietStepKeeps

-----------------------------------------------------------------------------
(* The invariant.                                                          *)

LEMMA WorkerKeeps ==
    ASSUME IInv, NEW w \in Workers, WorkerStep(w)
    PROVE  GoodTables(unit, attempts, result)'
  <1>1. CASE ClaimNext(w)
    BY <1>1, ClaimNextKeeps
  <1>2. CASE ClaimWithoutReservation(w)
    <2>1. unit' = Promote(unit, Due(unit)) /\ UNCHANGED <<attempts, result>>
      BY <1>2, Zenon DEF ClaimWithoutReservation
    <2>2. \A u \in Units : Quiet(unit[u], unit'[u])
      BY <2>1, PromoteQuiet DEF IInv, TypeOK, UnitRows
    <2>3. QED
      BY <2>1, <2>2, QuietStepKeeps
  <1>3. CASE MarkRunning(w)
    BY <1>3, MarkRunningKeeps
  <1>4. CASE \/ StartRefused(w) \/ HeartbeatFails(w) \/ DropResult(w)
             \/ RequestStop(w) \/ Restart(w)
    <2>1. UNCHANGED <<unit, attempts, result>>
      BY <1>4 DEF StartRefused, HeartbeatFails, DropResult, RequestStop,
                  Restart
    <2>2. QED
      BY <2>1, SameRowsKeep
  <1>5. CASE Heartbeat(w)
    BY <1>5, HeartbeatKeeps
  <1>6. CASE CommitResult(w)
    BY <1>6, CommitResultKeeps
  <1>7. CASE RecordFailure(w)
    <2>1. PICK class \in ErrorClasses, ended \in {"failed", "timed_out"} :
             FailAttempt(w, class, ended, 0)
      BY <1>7 DEF RecordFailure
    <2>2. class \in ErrorClass /\ result' = result
      BY <1>7, Literals DEF RecordFailure
    <2>3. 0 \in Int
      OBVIOUS
    <2>4. QED
      BY <2>1, <2>2, <2>3, FailAttemptKeeps
  <1>8. CASE RecordTimeout(w)
    <2> DEFINE at == Greatest(0, worker[w].deadline)
    <2>1. at \in Int
      BY DEF Greatest, IInv, TypeOK, WorkerRow
    <2>2. "executor_transient" \in ErrorClass
      BY Literals
    <2>3. /\ FailAttempt(w, "executor_transient", "timed_out", at)
          /\ result' = result
      BY <1>8 DEF RecordTimeout
    <2> HIDE DEF at
    <2>4. QED
      BY <2>1, <2>2, <2>3, FailAttemptKeeps
  <1>9. CASE HandBack(w)
    <2>1. CASE AbandonAttempt(w)
      BY <1>9, <2>1, AbandonKeeps DEF HandBack
    <2>2. CASE UNCHANGED <<workload, unit, attempts, rev>>
      BY <1>9, <2>2, SameRowsKeep DEF HandBack
    <2>3. QED
      BY <1>9, <2>1, <2>2 DEF HandBack
  <1>10. CASE ShutdownDue(w)
    BY <1>10, AbandonKeeps DEF ShutdownDue
  <1>11. QED
    BY <1>1, <1>2, <1>3, <1>4, <1>5, <1>6, <1>7, <1>8, <1>9, <1>10
       DEF WorkerStep

LEMMA OwnerKeeps ==
    ASSUME IInv, Owner
    PROVE  GoodTables(unit, attempts, result)'
  <1>1. rev \in RevisionRow
    BY DEF IInv, TypeOK
  <1>2. CASE Enqueue \/ ResolveRetry
    <2>1. UNCHANGED <<unit, attempts, result>>
      BY <1>2 DEF Enqueue, ResolveRetry
    <2>2. QED
      BY <2>1, SameRowsKeep
  <1>3. ASSUME NEW command \in {"pause", "resume", "cancel"},
               Control(command)
        PROVE  GoodTables(unit, attempts, result)'
    <2>1. UNCHANGED <<attempts, result>>
      BY <1>3 DEF Control
    <2>2. \/ Settle(ControlTarget[command][workload], unit, rev, 0, FALSE)
          \/ UNCHANGED unit
      BY <1>3, Zenon DEF Control
    <2>3. QED
      BY <1>1, <2>1, <2>2, SettleOnlyKeeps, SameRowsKeep
  <1>4. CASE ResolveCancel
    BY <1>1, <1>4, SettleOnlyKeeps DEF ResolveCancel
  <1>5. QED
    BY <1>2, <1>3, <1>4 DEF Owner

LEMMA ServiceKeeps ==
    ASSUME IInv, Service
    PROVE  GoodTables(unit, attempts, result)'
  <1>1. CASE ReconcileExpired
    <2>1. PICK B \in Batches(Expired) :
             \E U, P : /\ P \subseteq Due(ReconciledRows(B, U))
                       /\ ReconcileBatch(B, U, P)
      BY <1>1 DEF ReconcileExpired
    <2>2. B \subseteq Expired
      BY DEF Batches
    <2>3. QED
      BY <2>1, <2>2, ReconcileKeeps
  <1>2. CASE SettleWorkloads
    <2>1. rev \in RevisionRow
      BY DEF IInv, TypeOK
    <2>2. QED
      BY <1>2, <2>1, SettleOnlyKeeps DEF SettleWorkloads
  <1>3. CASE CompleteReadyWorkloads
    BY <1>3, SameRowsKeep DEF CompleteReadyWorkloads, EvaluateCompletion
  <1>4. QED
    BY <1>1, <1>2, <1>3 DEF Service

LEMMA EnvironmentKeeps ==
    ASSUME IInv, Environment
    PROVE  GoodTables(unit, attempts, result)'
  <1>1. CASE SpendBudget
    BY <1>1, SameRowsKeep DEF SpendBudget
  <1>2. CASE Tick
    BY <1>2, ShiftKeeps DEF Tick
  <1>3. ASSUME NEW d \in Jumps, JumpBack(d)
        PROVE  GoodTables(unit, attempts, result)'
    BY <1>3, ShiftKeeps, PolicyAssumption DEF JumpBack
  <1>4. QED
    BY <1>1, <1>2, <1>3 DEF Environment

\* IInv is inductive.
LEMMA Inductive ==
    ASSUME IInv, [Next]_vars
    PROVE  IInv'
  <1>1. TypeOK'
    BY TypeInvariance DEF IInv
  <1>2. GoodTables(unit, attempts, result)'
    <2>1. CASE UNCHANGED vars
      BY <2>1, SameRowsKeep DEF vars
    <2>2. CASE Next
      BY <2>2, WorkerKeeps, OwnerKeeps, ServiceKeeps, EnvironmentKeeps
         DEF Next
    <2>3. QED
      BY <2>1, <2>2
  <1>3. QED
    BY <1>1, <1>2 DEF IInv

LEMMA InitGood == Init => IInv
  <1> SUFFICES ASSUME Init
               PROVE  IInv
    OBVIOUS
  <1>1. ASSUME NEW u \in Units
        PROVE  GoodUnit(unit[u], attempts[u], result[u])
    <2>1. /\ unit[u].state = "pending" /\ unit[u].active = 0
          /\ unit[u].worker = NoWorker
          /\ attempts[u] = <<>> /\ result[u] = 0
      BY DEF Init
    <2>2. QED
      BY <2>1 DEF GoodUnit, Held
  <1>2. QED
    BY <1>1, TypeInit DEF IInv, GoodTables

LEMMA Invariance == Spec => []IInv
  <1>1. Init => IInv
    BY InitGood
  <1>2. IInv /\ [Next]_vars => IInv'
    BY Inductive
  <1>3. QED
    BY <1>1, <1>2, PTL DEF Spec

\* Lease fencing: whatever workers, owner, maintenance and clock do, a held
\* unit names its newest attempt, and every other attempt has ended.
THEOREM LeaseFencing == Spec => []LeaseConsistent
  <1>1. IInv => LeaseConsistent
    <2> SUFFICES ASSUME IInv, NEW u \in Units
                 PROVE  /\ u \in Active(unit) =>
                              /\ unit[u].active = Fence(u)
                              /\ unit[u].active > 0
                              /\ unit[u].worker # NoWorker
                              /\ attempts[u][Fence(u)] = unit[u].state
                        /\ u \notin Active(unit) =>
                              unit[u].active = 0 /\ unit[u].worker = NoWorker
                        /\ \A f \in 1..Fence(u) :
                              attempts[u][f] \in LiveAttempt =>
                                  f = Fence(u) /\ u \in Active(unit)
      BY DEF LeaseConsistent
    <2>1. GoodUnit(unit[u], attempts[u], result[u])
      BY DEF IInv, GoodTables
    <2>2. u \in Active(unit) <=> unit[u].state \in Held
      BY DEF Active, Held
    <2>3. QED
      BY <2>1, <2>2 DEF GoodUnit, Fence
  <1>2. QED
    BY <1>1, Invariance, PTL

\* Provenance of results: a unit is committed exactly when it has a result,
\* and the result was written by its newest attempt, the only successful one.
THEOREM ResultProvenance == Spec => []ResultFromNewestAttempt
  <1>1. IInv => ResultFromNewestAttempt
    BY DEF IInv, GoodTables, GoodUnit, ResultFromNewestAttempt, Fence
  <1>2. QED
    BY <1>1, Invariance, PTL

-----------------------------------------------------------------------------
(* What a step may never do.                                               *)

\* Only commit_result writes results.
LEMMA OnlyCommitWrites ==
    ASSUME [Next]_vars, result' # result
    PROVE  \E w \in Workers : CommitResult(w)
  <1>1. ASSUME NEW w \in Workers, WorkerStep(w)
        PROVE  CommitResult(w)
    BY <1>1 DEF WorkerStep, ClaimNext, ClaimWithoutReservation, MarkRunning,
       StartRefused, Heartbeat, HeartbeatFails, RecordFailure, RecordTimeout,
       DropResult, HandBack, ShutdownDue, RequestStop, Restart
  <1>2. ~Owner
    BY DEF Owner, Enqueue, Control, ResolveRetry, ResolveCancel
  <1>3. ~Service
    BY DEF Service, ReconcileExpired, ReconcileBatch, SettleWorkloads,
           CompleteReadyWorkloads, EvaluateCompletion
  <1>4. ~Environment
    BY DEF Environment, SpendBudget, Tick, JumpBack
  <1>5. QED
    BY <1>1, <1>2, <1>3, <1>4 DEF Next, vars

\* A result, once written, is never written again, and it was written by an
\* attempt that was running under a lease that had not expired.
THEOREM ResultsAreFinal == Spec => ResultsFinal
  <1>1. ASSUME IInv, IInv', [Next]_vars, NEW u \in Units,
               result'[u] # result[u]
        PROVE  /\ result[u] = 0
               /\ unit[u].state = "running" /\ unit[u].lease > 0
               /\ result'[u] = Len(attempts'[u])
    <2>1. PICK w \in Workers : CommitResult(w)
      BY <1>1, OnlyCommitWrites
    <2>2. /\ result' = [result EXCEPT ![worker[w].unit] = worker[w].fence]
          /\ result[worker[w].unit] = 0
          /\ unit[worker[w].unit].state = "running"
          /\ unit[worker[w].unit].lease > 0
      BY <2>1, Zenon DEF CommitResult
    <2>3. u = worker[w].unit
      BY <1>1, <2>2 DEF IInv, TypeOK
    <2>4. GoodUnit(unit[u], attempts[u], result[u])'
      BY <1>1 DEF IInv, GoodTables
    <2>5. result'[u] = Len(attempts'[u])
      BY <1>1, <2>2, <2>3, <2>4 DEF GoodUnit
    <2>6. QED
      BY <2>2, <2>3, <2>5
  <1>2. IInv /\ IInv' /\ [Next]_vars =>
          [\A u \in Units :
              result'[u] # result[u] =>
                 /\ result[u] = 0
                 /\ unit[u].state = "running" /\ unit[u].lease > 0
                 /\ result'[u] = Len(attempts'[u])]_vars
    BY <1>1
  <1>3. QED
    BY <1>2, Invariance, PTL DEF Spec, ResultsFinal

\* Ending or starting an attempt adds none.
LEMMA SameLength ==
    ASSUME TypeOK, NEW u \in Units, NEW v, NEW f, NEW x \in AttemptState,
           attempts' = [attempts EXCEPT ![v] = [attempts[v] EXCEPT ![f] = x]]
    PROVE  Len(attempts'[u]) = Len(attempts[u])
  <1>1. attempts[u] \in Seq(AttemptState)
    BY DEF TypeOK
  <1>2. attempts'[u] = IF u = v THEN [attempts[u] EXCEPT ![f] = x]
                       ELSE attempts[u]
    BY DEF TypeOK
  <1>3. Len([attempts[u] EXCEPT ![f] = x]) = Len(attempts[u])
    BY <1>1, ExceptAttempt
  <1>4. QED
    BY <1>2, <1>3

\* Only claim_next adds an attempt.
LEMMA OnlyClaimLeases ==
    ASSUME TypeOK, [Next]_vars, NEW u \in Units,
           Len(attempts'[u]) # Len(attempts[u])
    PROVE  \E w \in Workers : ClaimNext(w)
  <1>0. {"running", "succeeded", "failed", "timed_out", "abandoned"}
           \subseteq AttemptState
    BY DEF AttemptState
  <1>1. ASSUME NEW w \in Workers, WorkerStep(w)
        PROVE  ClaimNext(w)
    <2>1. ~MarkRunning(w)
      <3>1. SUFFICES ASSUME MarkRunning(w)
                     PROVE  FALSE
        OBVIOUS
      <3>2. attempts' = [attempts EXCEPT ![worker[w].unit] =
               [attempts[worker[w].unit] EXCEPT
                   ![worker[w].fence] = "running"]]
        BY <3>1, Zenon DEF MarkRunning
      <3>3. "running" \in AttemptState
        BY <1>0
      <3>4. QED
        BY ONLY TypeOK, u \in Units, <3>2, <3>3, SameLength,
                Len(attempts'[u]) # Len(attempts[u])
    <2>2. ~CommitResult(w)
      <3>1. SUFFICES ASSUME CommitResult(w)
                     PROVE  FALSE
        OBVIOUS
      <3>2. attempts' = [attempts EXCEPT ![worker[w].unit] =
               [attempts[worker[w].unit] EXCEPT
                   ![worker[w].fence] = "succeeded"]]
        BY <3>1, Zenon DEF CommitResult
      <3>3. "succeeded" \in AttemptState
        BY <1>0
      <3>4. QED
        BY ONLY TypeOK, u \in Units, <3>2, <3>3, SameLength,
                Len(attempts'[u]) # Len(attempts[u])
    <2>3. \A class, at : \A ended \in {"failed", "timed_out"} :
             ~FailAttempt(w, class, ended, at)
      <3>1. SUFFICES ASSUME NEW class, NEW at,
                            NEW ended \in {"failed", "timed_out"},
                            FailAttempt(w, class, ended, at)
                     PROVE  FALSE
        OBVIOUS
      <3>2. attempts' = [attempts EXCEPT ![worker[w].unit] =
               [attempts[worker[w].unit] EXCEPT ![worker[w].fence] = ended]]
        BY <3>1, Zenon DEF FailAttempt
      <3>3. ended \in AttemptState
        BY <1>0
      <3>4. QED
        BY ONLY TypeOK, u \in Units, <3>2, <3>3, SameLength,
                Len(attempts'[u]) # Len(attempts[u])
    <2>4. ~AbandonAttempt(w)
      <3>1. SUFFICES ASSUME AbandonAttempt(w)
                     PROVE  FALSE
        OBVIOUS
      <3>2. attempts' = [attempts EXCEPT ![worker[w].unit] =
               [attempts[worker[w].unit] EXCEPT
                   ![worker[w].fence] = "abandoned"]]
        BY <3>1, Zenon DEF AbandonAttempt
      <3>3. "abandoned" \in AttemptState
        BY <1>0
      <3>4. QED
        BY ONLY TypeOK, u \in Units, <3>2, <3>3, SameLength,
                Len(attempts'[u]) # Len(attempts[u])
    <2>5. attempts' # attempts
      OBVIOUS
    <2>6. ~(RecordFailure(w) \/ RecordTimeout(w))
      BY <2>3 DEF RecordFailure, RecordTimeout
    <2>7. ~(HandBack(w) \/ ShutdownDue(w))
      BY <2>4, <2>5 DEF HandBack, ShutdownDue
    <2>8. QED
      BY <1>1, <2>1, <2>2, <2>5, <2>6, <2>7 DEF WorkerStep,
         ClaimWithoutReservation, StartRefused, Heartbeat, HeartbeatFails,
         DropResult, RequestStop, Restart
  <1>2. ~Owner
    BY DEF Owner, Enqueue, Control, ResolveRetry, ResolveCancel
  <1>3. ~Service
    <2>1. \A B, U, P : ~ReconcileBatch(B, U, P)
      <3>1. SUFFICES ASSUME NEW B, NEW U, NEW P, ReconcileBatch(B, U, P)
                     PROVE  FALSE
        OBVIOUS
      <3> DEFINE x == IF unit[u].state = "leased"
                      THEN "abandoned" ELSE "timed_out"
      <3>2. attempts'[u] = IF u \in B
                           THEN [attempts[u] EXCEPT ![unit[u].active] = x]
                           ELSE attempts[u]
        BY <3>1 DEF ReconcileBatch
      <3>3. x \in AttemptState /\ attempts[u] \in Seq(AttemptState)
        BY <1>0 DEF TypeOK
      <3> HIDE DEF x
      <3>4. Len([attempts[u] EXCEPT ![unit[u].active] = x]) = Len(attempts[u])
        BY <3>3, ExceptAttempt
      <3>5. QED
        BY <3>2, <3>4
    <2>2. QED
      BY <2>1 DEF Service, ReconcileExpired, SettleWorkloads,
                  CompleteReadyWorkloads, EvaluateCompletion
  <1>4. ~Environment
    BY DEF Environment, SpendBudget, Tick, JumpBack
  <1>5. QED
    BY <1>1, <1>2, <1>3, <1>4 DEF Next, vars

-----------------------------------------------------------------------------
(***************************************************************************)
(* What the rows of units and the state of the workload say of each other  *)
(* in DurableWorkload, for every set of units and workers, every policy    *)
(* and every bound.                                                        *)
(*                                                                         *)
(* A transaction may release a lease, promote a retry, repair and cancel   *)
(* units in one step.  UnitStep lists what can come of that for one unit,  *)
(* and EveryStep shows that nothing else can; the retry budget, the grants *)
(* of the owner and the graph of unit states are then arguments about one  *)
(* row.  What a settlement makes of the workload state is shown once, in   *)
(* SettledState, for all the transactions that end with one.               *)
(***************************************************************************)

(* What one step does to one unit.                                         *)

\* Effects that may not be replayed without the owner.
Unsafe == {"reconcilable", "manual_only"}

WaitingStates == {"pending", "retry_wait", "needs_attention"}

\* Timers and errors aside, the row is as before.
Stays(a, b) ==
    /\ b.state = a.state /\ b.tokens = a.tokens /\ b.gen = a.gen
    /\ b.active = a.active /\ b.worker = a.worker

\* A retry whose time has come.
Promoted(a, b) ==
    /\ a.state = "retry_wait" /\ a.wait <= 0
    /\ b.state = "pending" /\ b.tokens = a.tokens /\ b.gen = a.gen

\* A release notes the decision that its attention fact is to be answered by.
Noted(a, b) == b.gen = IF b.state = "needs_attention" THEN rev.gen ELSE a.gen

\* A lease that was not started comes back, perhaps with its grant.
Unstarted(u, a, b) ==
    /\ a.state = "leased"
    /\ b.state \in {"pending", "needs_attention"}
    /\ b.tokens = a.tokens \/ b.tokens = a.tokens + 1
    /\ b.state = "pending" => Fence(u) < MaxAttempts \/ b.tokens > 0
    /\ Noted(a, b)

\* An execution ends without a result; reconcile_expired may promote the
\* retry at once.
Unfinished(u, a, b) ==
    /\ a.state = "running"
    /\ \/ b.state \in {"needs_attention", "failed_permanent"}
       \/ /\ b.state = "retry_wait" \/ (b.state = "pending" /\ a.lease <= 0)
          /\ Fence(u) < MaxAttempts
          /\ Effect[u] \notin Unsafe
    /\ b.tokens = a.tokens
    /\ Noted(a, b)

Finished(a, b) ==
    /\ a.state = "running"
    /\ b.state = "committed" /\ b.tokens = a.tokens /\ b.gen = a.gen

\* The settlement cancels what waits, and what just came back.
Dropped(a, b) ==
    /\ a.state \notin TerminalUnit
    /\ b.state = "cancelled" /\ b.tokens = 0
    /\ b.gen = a.gen \/ b.gen = rev.gen

Repaired(u, a, b) ==
    /\ u \in Exhausted(unit)
    /\ b.state = "needs_attention" /\ b.tokens = a.tokens /\ b.gen = rev.gen

\* The worker that holds the lease starts it.
Started(a, b) ==
    /\ a.state = "leased" /\ b.state = "running"
    /\ b.tokens = a.tokens /\ b.gen = a.gen
    /\ b.worker = a.worker /\ worker'[a.worker].pc = "executing"

\* A claim spends a returned grant, an owner's decision, or one of the
\* automatic attempts.
Lent(u, a, b) ==
    /\ b.state = "leased"
    /\ \/ /\ a.state = "pending" \/ (a.state = "retry_wait" /\ a.wait <= 0)
          /\ \/ a.tokens = 0 /\ b.tokens = 0 /\ Fence(u) < MaxAttempts
             \/ a.tokens > 0 /\ b.tokens = a.tokens - 1
       \/ a.state = "needs_attention" /\ a.gen < rev.gen /\ b.tokens = a.tokens
    /\ b.gen = a.gen \/ b.gen = rev.gen

\* A step that neither claims nor starts.
Turned(u, a, b) ==
    \/ Stays(a, b) \/ Promoted(a, b) \/ Unstarted(u, a, b)
    \/ Unfinished(u, a, b) \/ Finished(a, b) \/ Dropped(a, b)
    \/ Repaired(u, a, b)

\* The owner decides to retry: every unit that needs attention has a grant.
Decided(u) ==
    /\ Stays(unit[u], unit'[u])
    /\ rev'.gen = rev.gen + 1
    /\ grants'[u] = IF unit[u].state = "needs_attention"
                    THEN grants[u] + 1 ELSE grants[u]
    /\ starts'[u] = starts[u] /\ Fence(u)' = Fence(u)

UnitStep(u) ==
    \/ Decided(u)
    \/ /\ rev'.gen = rev.gen /\ grants'[u] = grants[u]
       /\ \/ /\ Turned(u, unit[u], unit'[u])
             /\ Fence(u)' = Fence(u) /\ starts'[u] = starts[u]
          \/ /\ Started(unit[u], unit'[u])
             /\ Fence(u)' = Fence(u) /\ starts'[u] = starts[u] + 1
          \/ /\ Lent(u, unit[u], unit'[u])
             /\ Fence(u)' = Fence(u) + 1 /\ starts'[u] = starts[u]

-----------------------------------------------------------------------------
(* The invariants.                                                         *)

\* A worker that has not started its lease holds a unit that has not started.
ClaimsTrue ==
    \A w \in Workers :
        worker[w].pc = "claimed" /\ Matches(w) =>
            unit[worker[w].unit].state = "leased"

Answered(row, r) == row.state = "needs_attention" /\ row.gen < r.gen

One(p) == IF p THEN 1 ELSE 0

\* What has been started and what may still start without a new decision.
Claims(row, n, r) ==
    n + row.tokens + One(row.state = "leased") + One(Answered(row, r))

\* A unit waits to be retried only while it may be, has spent no more than
\* its automatic attempts and the owner's grants, and never waits on its own
\* when its effect may not be replayed.
Ready(u) ==
    /\ unit[u].gen <= rev.gen
    /\ unit[u].state = "retry_wait" => Fence(u) < MaxAttempts
    /\ unit[u].state = "pending" => Fence(u) < MaxAttempts \/ unit[u].tokens > 0
    /\ Claims(unit[u], starts[u], rev) <= Least(Fence(u), MaxAttempts) + grants[u]
    /\ Effect[u] \in Unsafe =>
          /\ unit[u].state # "retry_wait"
          /\ Claims(unit[u], starts[u], rev)
               + One(unit[u].state = "pending" /\ unit[u].tokens = 0)
                  <= 1 + grants[u]

UnitsReady == \A u \in Units : Ready(u)

\* A lease was given, and is renewed, for at most its duration from an
\* instant that the revision's clock has noted.
LeasesNoted ==
    \A u \in Active(unit) : unit[u].lease <= LeaseDuration + rev.skew

DeadlinesKept ==
    \A w \in Workers :
        worker[w].pc = "executing" /\ Matches(w) =>
            unit[worker[w].unit].lease <= worker[w].deadline

-----------------------------------------------------------------------------
(* Rows.                                                                   *)

\* The columns of a row that the steps above look at.
LEMMA RowColumns ==
    ASSUME NEW row \in UnitRow
    PROVE  /\ row.state \in UnitState /\ row.tokens \in Nat /\ row.gen \in Nat
           /\ row.lease \in Int /\ row.wait \in Int /\ row.manual \in BOOLEAN
  BY DEF UnitRow

LEMMA ReleaseRow ==
    ASSUME NEW row, NEW state, NEW wait, NEW error, NEW token, NEW r
    PROVE  LET b == Release(row, state, wait, error, token, r)
           IN  /\ b.state = state /\ b.tokens = row.tokens + token
               /\ b.gen = (IF state = "needs_attention" THEN r.gen ELSE row.gen)
               /\ b.wait = wait /\ b.error = error /\ b.lease = 0
  BY DEF Release

LEMMA LeasedRow ==
    ASSUME NEW row, NEW w, NEW fence, NEW r
    PROVE  LET b == Leased(row, w, fence, r)
           IN  /\ b.state = "leased" /\ b.tokens = row.tokens - TokenSpent(row)
               /\ b.gen = (IF row.state = "needs_attention" THEN r.gen ELSE row.gen)
               /\ b.lease = LeaseDuration /\ b.worker = w /\ b.active = fence
  BY DEF Leased

LEMMA PromoteRow ==
    ASSUME NEW us \in UnitRows, NEW P, P \subseteq Due(us), NEW u \in Units
    PROVE  LET b == Promote(us, P)[u]
           IN  \/ b = us[u] /\ u \notin P
               \/ u \in P /\ Promoted(us[u], b)
  <1> DEFINE row == us[u]
             state == "pending"
             zero == 0
             error == ""
  <1>1. row \in UnitRow
    BY DEF UnitRows
  <1>2. CASE u \notin P
    BY <1>2 DEF Promote
  <1>3. CASE u \in P
    <2>1. row.state = "retry_wait" /\ row.wait <= 0
      BY <1>3 DEF Due
    <2>2. Promote(us, P)[u] = [row EXCEPT !.state = state, !.wait = zero, !.error = error]
      BY <1>3 DEF Promote
    <2> HIDE DEF row
    <2>3. Promoted(row, Promote(us, P)[u])
      BY <1>1, <2>1, <2>2 DEF Promoted, UnitRow
    <2>4. QED
      BY <1>3, <2>3 DEF row
  <1>4. QED
    BY <1>2, <1>3

\* A row that a settlement cancels.
Cancelled(a, b) ==
    /\ a.state \in WaitingStates
    /\ b.state = "cancelled" /\ b.tokens = 0 /\ b.gen = a.gen

LEMMA CancelRow ==
    ASSUME NEW us \in UnitRows, NEW B, NEW u \in Units,
           u \in B => us[u].state \in WaitingStates
    PROVE  LET b == CancelUnits(us, B)[u]
           IN  \/ b = us[u] /\ u \notin B
               \/ u \in B /\ Cancelled(us[u], b)
  <1> DEFINE row == us[u]
             state == "cancelled"
             zero == 0
             error == IF us[u].error = "" THEN "cancelled" ELSE us[u].error
  <1>1. row \in UnitRow
    BY DEF UnitRows
  <1>2. CASE u \notin B
    BY <1>2 DEF CancelUnits
  <1>3. CASE u \in B
    <2>1. row.state \in WaitingStates
      BY <1>3
    <2>2. CancelUnits(us, B)[u] = [row EXCEPT !.state = state, !.wait = zero,
                                             !.tokens = zero, !.error = error]
      BY <1>3 DEF CancelUnits
    <2> HIDE DEF row, error
    <2>3. Cancelled(row, CancelUnits(us, B)[u])
      BY <1>1, <2>1, <2>2 DEF Cancelled, UnitRow
    <2>4. QED
      BY <1>3, <2>3 DEF row
  <1>4. QED
    BY <1>2, <1>3

\* A row that a settlement repairs.
Mended(u, us, b, r) ==
    /\ u \in Exhausted(us)
    /\ b.state = "needs_attention" /\ b.tokens = us[u].tokens /\ b.gen = r.gen

LEMMA RepairRow ==
    ASSUME NEW us \in UnitRows, NEW r, NEW u \in Units
    PROVE  LET b == RepairExhausted(us, r)[u]
           IN  b = us[u] \/ Mended(u, us, b, r)
  <1> DEFINE row == us[u]
             state == "needs_attention"
             gen == r.gen
             error == IF us[u].error = "" THEN "budget_exhausted"
                      ELSE us[u].error
  <1>1. row \in UnitRow
    BY DEF UnitRows
  <1>2. CASE u \notin Exhausted(us)
    BY <1>2 DEF RepairExhausted
  <1>3. CASE u \in Exhausted(us)
    <2>1. RepairExhausted(us, r)[u] = [row EXCEPT !.state = state, !.gen = gen,
                                                  !.error = error]
      BY <1>3 DEF RepairExhausted
    <2> HIDE DEF row, error, gen
    <2>2. /\ RepairExhausted(us, r)[u].state = "needs_attention"
          /\ RepairExhausted(us, r)[u].tokens = row.tokens
          /\ RepairExhausted(us, r)[u].gen = gen
      BY <1>1, <2>1 DEF UnitRow
    <2>3. QED
      BY <1>3, <2>2 DEF row, gen, Mended
  <1>4. QED
    BY <1>2, <1>3

-----------------------------------------------------------------------------
(* Settlements.                                                            *)

\* What a settlement makes of one row: nothing, or it cancels what waits, or
\* it repairs what was exhausted, and may cancel that in turn.
SettledRow(u, us, b, r, repair) ==
    \/ b = us[u]
    \/ us[u].state \in WaitingStates /\ b.state = "cancelled" /\ b.tokens = 0
       /\ b.gen \in {us[u].gen, r.gen} /\ (~repair => b.gen = us[u].gen)
    \/ repair /\ Mended(u, us, b, r)

LEMMA SettledRows ==
    ASSUME NEW w, NEW us \in UnitRows, NEW r \in RevisionRow, NEW at, NEW B,
           B \subseteq Waiting(us), NEW repair \in BOOLEAN, NEW u \in Units
    PROVE  SettledRow(u, us, Settled(w, us, r, at, B, repair).unit[u], r, repair)
  <1> DEFINE repaired == IF repair THEN RepairExhausted(us, r) ELSE us
  <1>1. u \in B => us[u].state \in WaitingStates
    BY DEF Waiting, WaitingStates
  <1>2. SettledRow(u, us, us[u], r, repair)
    BY DEF SettledRow
  <1>3. SettledRow(u, us, CancelUnits(us, B)[u], r, repair)
    BY <1>1, CancelRow DEF SettledRow, Cancelled
  <1>4. /\ repaired \in UnitRows
        /\ repaired[u] = us[u] \/ (repair /\ Mended(u, us, repaired[u], r))
    BY RepairRow, RepairExhaustedType
  <1>5. SettledRow(u, us, repaired[u], r, repair)
    BY <1>4 DEF SettledRow
  <1> HIDE DEF repaired
  <1>6. u \in B => repaired[u].state \in WaitingStates
    BY <1>1, <1>4 DEF Mended, WaitingStates
  <1>7. \/ CancelUnits(repaired, B)[u] = repaired[u]
        \/ u \in B /\ Cancelled(repaired[u], CancelUnits(repaired, B)[u])
    BY <1>4, <1>6, CancelRow
  <1>8. SettledRow(u, us, CancelUnits(repaired, B)[u], r, repair)
    BY <1>1, <1>4, <1>5, <1>7 DEF SettledRow, Cancelled, Mended
  <1>9. Settled(w, us, r, at, B, repair).unit \in
           {us, repaired, CancelUnits(us, B), CancelUnits(repaired, B)}
    BY DEF Settled, repaired
  <1>10. QED
    BY <1>2, <1>3, <1>5, <1>8, <1>9

LEMMA SettleRow ==
    ASSUME NEW w, NEW us \in UnitRows, NEW r \in RevisionRow, NEW at,
           NEW repair \in BOOLEAN, Settle(w, us, r, at, repair),
           NEW u \in Units
    PROVE  SettledRow(u, us, unit'[u], r, repair)
  <1>1. PICK B \in Batches(Waiting(us)) :
          unit' = Settled(w, us, r, at, B, repair).unit
    BY DEF Settle
  <1>2. B \subseteq Waiting(us)
    BY DEF Batches
  <1>3. QED
    BY <1>1, <1>2, SettledRows

\* Where a settlement can lead the workload, and what that says of its rows.
SettledTo(w, v, rows, r) ==
    \/ v = w
    \/ v = "needs_attention" /\ w \notin TerminalWorkload \cup {"cancel_requested"}
    \/ v = "cancelled" /\ w = "cancel_requested" /\ Drained(rows)
    \/ /\ v = "failed" /\ Drained(rows)
       /\ w \notin TerminalWorkload \cup {"cancel_requested", "needs_attention"}
    \/ v = "paused" /\ w = "pause_requested" /\ Active(rows) = {}

\* A settlement leads there, leaves the rows of a completed workload alone,
\* and surfaces every attention fact.
SettledWell(w, us, s, r) ==
    /\ SettledTo(w, s.workload, s.unit, r)
    /\ w \in Completed => s.unit = us
    /\ \/ s.workload \in TerminalWorkload \cup {"needs_attention", "cancel_requested"}
       \/ Unanswered(s.unit, r) = {}

LEMMA SettledState ==
    ASSUME NEW w, NEW us \in UnitRows, NEW r \in RevisionRow, NEW at, NEW B,
           B \subseteq Waiting(us), NEW repair \in BOOLEAN
    PROVE  SettledWell(w, us, Settled(w, us, r, at, B, repair), r)
  <1> DEFINE s == Settled(w, us, r, at, B, repair)
             cancelled == CancelUnits(us, B)
             repaired == IF repair THEN RepairExhausted(us, r) ELSE us
             failing == CancelUnits(repaired, B)
             Outcome(state, rows) == [workload |-> state, unit |-> rows]
  <1>1. s = IF w \in {"cancelled", "failed"} THEN Outcome(w, cancelled)
            ELSE IF w \in Completed THEN Outcome(w, us)
            ELSE IF w = "cancel_requested"
                 THEN Outcome(IF Drained(cancelled) THEN "cancelled" ELSE w,
                              cancelled)
            ELSE IF w = "needs_attention" THEN Outcome(w, repaired)
            ELSE IF BudgetViolation(r, at) THEN Outcome("needs_attention", us)
            ELSE IF Unanswered(repaired, r) # {}
                 THEN Outcome("needs_attention", repaired)
            ELSE IF Untolerated(repaired) # {}
                 THEN Outcome(IF Drained(failing) THEN "failed" ELSE w, failing)
            ELSE IF w = "pause_requested" /\ Active(repaired) = {}
                 THEN Outcome("paused", repaired)
            ELSE Outcome(w, repaired)
    BY Zenon DEF Settled
  <1>2. Unanswered(repaired, r) = {} => Unanswered(failing, r) = {}
    <2> SUFFICES ASSUME NEW u \in Unanswered(failing, r)
                 PROVE  u \in Unanswered(repaired, r)
      OBVIOUS
    <2>1. u \in Units /\ failing[u].state = "needs_attention" /\ failing[u].gen >= r.gen
      BY DEF Unanswered
    <2>2. repaired \in UnitRows
      BY RepairExhaustedType
    <2>3. u \in B => repaired[u].state \in WaitingStates
      <3>1. u \in B => us[u].state \in WaitingStates
        BY DEF Waiting, WaitingStates
      <3>2. repaired[u] = us[u] \/ Mended(u, us, repaired[u], r)
        BY <2>1, RepairRow
      <3>3. QED
        BY <3>1, <3>2 DEF Mended, WaitingStates
    <2> HIDE DEF repaired
    <2>4. failing[u] = repaired[u]
      BY <2>1, <2>2, <2>3, CancelRow DEF Cancelled
    <2>5. QED
      BY <2>1, <2>4 DEF Unanswered
  <1> SUFFICES SettledWell(w, us, s, r)
    OBVIOUS
  <1> HIDE DEF s, cancelled, repaired, failing
  <1>3. \A state, rows : Outcome(state, rows).workload = state
                            /\ Outcome(state, rows).unit = rows
    OBVIOUS
  <1> HIDE DEF Outcome
  <1>4. CASE w \in TerminalWorkload
    <2>1. s.workload = w /\ (w \in Completed => s.unit = us)
      BY <1>1, <1>3, <1>4 DEF TerminalWorkload, Completed
    <2>2. QED
      BY <1>4, <2>1 DEF SettledWell, SettledTo
  <1>5. CASE w = "cancel_requested"
    <2>1. s = Outcome(IF Drained(cancelled) THEN "cancelled" ELSE w, cancelled)
      BY <1>1, <1>5 DEF Completed
    <2>2. /\ s.unit = cancelled
          /\ s.workload = IF Drained(cancelled) THEN "cancelled" ELSE w
      BY <1>3, <2>1
    <2>3. QED
      BY <1>5, <2>2 DEF SettledWell, SettledTo, TerminalWorkload, Completed
  <1>6. CASE w = "needs_attention"
    <2>1. s = Outcome(w, repaired)
      BY <1>1, <1>6 DEF Completed
    <2>2. QED
      BY <1>3, <1>6, <2>1 DEF SettledWell, SettledTo, Completed
  <1>7. CASE w \notin TerminalWorkload \cup {"cancel_requested", "needs_attention"}
    <2>1. \/ s = Outcome("needs_attention", us)
          \/ s = Outcome("needs_attention", repaired)
          \/ /\ Unanswered(repaired, r) = {}
             /\ \/ s = Outcome("failed", failing) /\ Drained(failing)
                \/ s = Outcome(w, failing)
                \/ /\ s = Outcome("paused", repaired)
                   /\ w = "pause_requested" /\ Active(repaired) = {}
                \/ s = Outcome(w, repaired)
      BY <1>1, <1>7 DEF TerminalWorkload
    <2>2. \/ s.workload = "needs_attention"
          \/ /\ Unanswered(s.unit, r) = {}
             /\ \/ s.workload = "failed" /\ Drained(s.unit)
                \/ s.workload = w
                \/ s.workload = "paused" /\ w = "pause_requested" /\ Active(s.unit) = {}
      BY <1>2, <1>3, <2>1
    <2>3. QED
      BY <1>7, <2>2 DEF SettledWell, SettledTo, TerminalWorkload
  <1>8. QED
    BY <1>4, <1>5, <1>6, <1>7

\* The states in which no unit is in a worker's hands.
QuietState == TerminalWorkload \cup {"admitted", "queued", "paused"}

\* What StatesMeanIt says, of any rows and results.
Means(w, us, rs) ==
    /\ w \in QuietState => Active(us) = {}
    /\ w \in {"cancelled", "failed"} =>
          \A u \in Units : us[u].state \in TerminalUnit
    /\ w = "completed" =>
          \A u \in Units : us[u].state = "committed" /\ rs[u] # 0
    /\ w = "completed_with_errors" =>
          \A u \in Units : \/ us[u].state = "committed" /\ rs[u] # 0
                           \/ /\ us[u].state = "failed_permanent"
                              /\ us[u].error \in Tolerated

LEMMA StatesMeans == StatesMeanIt <=> Means(workload, unit, result)
  BY DEF StatesMeanIt, Means, QuietStatesQuiet, StoppedIsDrained,
         CompletionSound, QuietState

LEMMA DrainedMeans ==
    ASSUME NEW us \in UnitRows, Drained(us)
    PROVE  \A u \in Units : us[u].state \in TerminalUnit
  <1> SUFFICES ASSUME NEW u \in Units
               PROVE  us[u].state \in TerminalUnit
    OBVIOUS
  <1>1. us[u].state \in UnitState
    BY RowColumns DEF UnitRows
  <1>2. us[u].state \notin {"leased", "running", "pending", "retry_wait", "needs_attention"}
    BY DEF Drained, Active, Waiting
  <1>3. QED
    BY <1>1, <1>2 DEF UnitState, TerminalUnit

\* A transaction that ends with a settlement ends in a state that means what
\* it says, and surfaces attention, if its rows agree with the state before.
LEMMA SettleMeans ==
    ASSUME NEW w \in WorkloadState, NEW us \in UnitRows, NEW r \in RevisionRow, NEW at,
           NEW repair \in BOOLEAN, Settle(w, us, r, at, repair),
           Means(w, us, result')
    PROVE  StatesMeanIt' /\ AttentionSurfaced' /\ SettledTo(w, workload', unit', r)
  <1>1. PICK B \in Batches(Waiting(us)) :
          /\ unit' = Settled(w, us, r, at, B, repair).unit
          /\ workload' = Settled(w, us, r, at, B, repair).workload
          /\ rev' = r
    BY DEF Settle
  <1>2. B \subseteq Waiting(us)
    BY DEF Batches
  <1>3. /\ SettledTo(w, workload', unit', r)
        /\ w \in Completed => unit' = us
        /\ workload' \in TerminalWorkload \cup {"needs_attention", "cancel_requested"}
              \/ Unanswered(unit', r) = {}
    <2> DEFINE s == Settled(w, us, r, at, B, repair)
    <2>1. SettledWell(w, us, s, r)
      BY <1>2, SettledState
    <2>2. unit' = s.unit /\ workload' = s.workload
      BY <1>1
    <2> HIDE DEF s
    <2>3. QED
      BY <2>1, <2>2, Zenon DEF SettledWell
  <1>4. \A u \in Units : SettledRow(u, us, unit'[u], r, repair)
    BY SettleRow
  <1>5. unit' \in UnitRows
    BY SettleType
  <1>6. Active(unit') = Active(us)
    <2>1. \A u \in Units : Quiet(us[u], unit'[u])
      BY SettleQuiet
    <2>2. QED
      BY <2>1 DEF Active, Quiet, Held
  <1>7. workload' \in {"cancelled", "failed"} =>
          \A u \in Units : unit'[u].state \in TerminalUnit
    <2>1. CASE workload' = w /\ w \in {"cancelled", "failed"}
      <3>1. \A u \in Units : us[u].state \in TerminalUnit
        BY <2>1 DEF Means
      <3>2. \A u \in Units : unit'[u] = us[u]
        BY <1>4, <3>1 DEF SettledRow, TerminalUnit, WaitingStates, Mended, Exhausted
      <3>3. QED
        BY <3>1, <3>2
    <2>2. CASE Drained(unit')
      BY <1>5, <2>2, DrainedMeans
    <2>3. QED
      BY <1>3, <2>1, <2>2 DEF SettledTo
  <1>8. workload' \in QuietState => Active(unit') = {}
    <2>1. CASE workload' = w
      BY <1>6, <2>1 DEF Means
    <2>2. CASE Drained(unit') \/ Active(unit') = {}
      BY <2>2 DEF Drained
    <2>3. CASE workload' = "needs_attention"
      BY <2>3 DEF QuietState, TerminalWorkload, Completed
    <2>4. QED
      BY <1>3, <2>1, <2>2, <2>3 DEF SettledTo
  <1>9. workload' \in Completed => workload' = w /\ unit' = us
    BY <1>3 DEF SettledTo, Completed
  <1>10. Means(workload', unit', result')
    BY <1>7, <1>8, <1>9 DEF Means, Completed
  <1>11. StatesMeanIt'
    BY <1>10 DEF StatesMeanIt, Means, QuietStatesQuiet, StoppedIsDrained,
         CompletionSound, QuietState, Active
  <1>12. AttentionSurfaced'
    <2> SUFFICES ASSUME NEW u \in Units, unit'[u].state = "needs_attention",
                        unit'[u].gen >= rev'.gen,
                        workload' \notin {"needs_attention", "cancel_requested"}
                 PROVE  FALSE
      BY DEF AttentionSurfaced
    <2>1. workload' \in TerminalWorkload
      BY <1>1, <1>3 DEF Unanswered
    <2>2. QED
      BY <1>10, <2>1 DEF Means, TerminalWorkload, Completed, TerminalUnit
  <1>13. QED
    BY <1>3, <1>11, <1>12

-----------------------------------------------------------------------------
(* Every step is a UnitStep.                                               *)

LEMMA Tables ==
    ASSUME IInv
    PROVE  /\ unit \in UnitRows /\ rev \in RevisionRow
           /\ \A u \in Units : unit[u] \in UnitRow /\ attempts[u] \in Seq(AttemptState)
           /\ \A u \in Units : Fence(u) \in Nat
           /\ \A w \in Workers : worker[w] \in WorkerRow
           /\ workload \in WorkloadState
  <1>1. TypeOK
    BY DEF IInv
  <1>2. \A u \in Units : attempts[u] \in Seq(AttemptState)
    BY <1>1 DEF TypeOK
  <1>3. \A u \in Units : Fence(u) \in Nat
    BY <1>2 DEF Fence
  <1>4. QED
    BY <1>1, <1>2, <1>3 DEF TypeOK, UnitRows

\* The revision's generation moves only with an owner's decision.
LEMMA SameGeneration ==
    ASSUME NEW r \in RevisionRow, NEW at \in Int, NEW x \in BOOLEAN
    PROVE  LET s == Advance([r EXCEPT !.unknown = @ \/ x], at)
           IN  s \in RevisionRow /\ s.gen = r.gen
  <1> DEFINE t == [r EXCEPT !.unknown = @ \/ x]
  <1>1. t \in RevisionRow /\ t.gen = r.gen
    BY DEF RevisionRow
  <1> HIDE DEF t
  <1>2. Advance(t, at) \in RevisionRow /\ Advance(t, at).gen = r.gen
    BY <1>1, AdvanceType
  <1>3. QED
    BY <1>2 DEF t

\* A row that a transaction turned, and that the settlement may have cancelled.
LEMMA TurnSettles ==
    ASSUME IInv, NEW w, NEW us \in UnitRows, NEW r \in RevisionRow, NEW at,
           Settle(w, us, r, at, FALSE), r.gen = rev.gen,
           NEW u \in Units, Turned(u, unit[u], us[u])
    PROVE  Turned(u, unit[u], unit'[u])
  <1> DEFINE a == unit[u]
             b == us[u]
             c == unit'[u]
  <1>1. SettledRow(u, us, c, r, FALSE)
    BY SettleRow
  <1>2. c = b \/ (b.state \in WaitingStates /\ c.state = "cancelled" /\ c.tokens = 0
                  /\ c.gen = b.gen)
    BY <1>1 DEF SettledRow
  <1>3. b.state \in WaitingStates => a.state \notin TerminalUnit
    BY DEF Turned, Stays, Promoted, Unstarted, Unfinished, Finished, Dropped,
           Repaired, Exhausted, WaitingStates, TerminalUnit
  <1>4. b.gen = a.gen \/ b.gen = rev.gen
    BY DEF Turned, Stays, Promoted, Unstarted, Unfinished, Finished, Dropped,
           Repaired, Noted
  <1>5. CASE c = b
    BY <1>5
  <1>6. CASE b.state \in WaitingStates /\ c.state = "cancelled" /\ c.tokens = 0
             /\ c.gen = b.gen
    <2>1. Dropped(a, c)
      BY <1>3, <1>4, <1>6 DEF Dropped
    <2>2. QED
      BY <2>1 DEF Turned
  <1>7. QED
    BY <1>2, <1>5, <1>6

\* One row is released, and the workload settled.
LEMMA OneTurnSettles ==
    ASSUME IInv, NEW u \in Units, NEW row \in UnitRow, NEW r \in RevisionRow,
           NEW w, NEW at, Settle(w, [unit EXCEPT ![u] = row], r, at, FALSE),
           r.gen = rev.gen, Turned(u, unit[u], row), NEW v \in Units
    PROVE  Turned(v, unit[v], unit'[v]) /\ rev'.gen = rev.gen
  <1> DEFINE us == [unit EXCEPT ![u] = row]
  <1>1. us \in UnitRows
    BY Tables DEF UnitRows
  <1>2. Turned(v, unit[v], us[v])
    <2>1. CASE v = u
      <3>1. us[v] = row
        BY <2>1, Tables DEF UnitRows
      <3>2. QED
        BY <2>1, <3>1
    <2>2. CASE v # u
      <3>1. us[v] = unit[v]
        BY <2>2, Tables DEF UnitRows
      <3>2. QED
        BY <3>1 DEF Turned, Stays
    <2>3. QED
      BY <2>1, <2>2
  <1>3. rev' = r
    BY DEF Settle
  <1> HIDE DEF us
  <1>4. Settle(w, us, r, at, FALSE)
    BY DEF us
  <1>5. QED
    BY <1>1, <1>2, <1>3, <1>4, TurnSettles

LEMMA FailTurns ==
    ASSUME IInv, NEW w \in Workers, NEW class \in ErrorClass,
           NEW ended \in {"failed", "timed_out"}, NEW at \in Int,
           FailAttempt(w, class, ended, at), NEW v \in Units
    PROVE  Turned(v, unit[v], unit'[v]) /\ rev'.gen = rev.gen
  <1> DEFINE u == worker[w].unit
             State(unknown) == IF unknown \/ Regressed(rev, at)
                               THEN "needs_attention"
                               ELSE DecideRetry(Effect[u], worker[w].fence,
                                                class, worker[w].manual)
             Wait(unknown) == IF State(unknown) = "retry_wait"
                              THEN at + RetryDelay ELSE 0
             R(unknown) == Advance([rev EXCEPT !.unknown = @ \/ unknown], at)
  <1>1. /\ u \in Units /\ unit[u] \in UnitRow
        /\ worker[w].fence = Fence(u) /\ unit[u].state = "running"
    <2>1. /\ u \in Units /\ unit[u].active = worker[w].fence
          /\ unit[u].state \in Held
          /\ GoodUnit(unit[u], attempts[u], result[u])
      BY MatchesHeld DEF FailAttempt
    <2>2. QED
      BY <2>1, Tables DEF GoodUnit, Fence, FailAttempt
  <1>2. PICK unknown \in BOOLEAN :
          Settle(workload,
                 [unit EXCEPT ![u] =
                     Release(unit[u], State(unknown), Wait(unknown), class, 0,
                             R(unknown))],
                 R(unknown), at, FALSE)
    BY Zenon DEF FailAttempt, MissingUsage
  <1>3. /\ State(unknown) \in {"needs_attention", "failed_permanent", "retry_wait"}
        /\ State(unknown) \in UnitState
        /\ State(unknown) = "retry_wait" =>
              Fence(u) < MaxAttempts /\ Effect[u] \notin Unsafe
    <2>1. DecideRetry(Effect[u], Fence(u), class, worker[w].manual) = "retry_wait" =>
              Effect[u] \notin Unsafe /\ ~(Fence(u) >= MaxAttempts)
      BY DEF DecideRetry, Unsafe
    <2>2. MaxAttempts \in Nat /\ Fence(u) \in Nat
      BY <1>1, Tables, PolicyAssumption
    <2>3. State(unknown) = "retry_wait" => Fence(u) < MaxAttempts /\ Effect[u] \notin Unsafe
      BY <1>1, <2>1, <2>2
    <2>4. QED
      BY <2>3, DecideRetryType, Literals
  <1>4. RetryDelay \in Int
    BY PolicyAssumption
  <1>5. R(unknown) \in RevisionRow /\ R(unknown).gen = rev.gen
    BY Tables, SameGeneration
  <1> HIDE DEF State, R
  <1>6. Wait(unknown) \in Int
    BY <1>4
  <1> HIDE DEF Wait, u
  <1> DEFINE row == Release(unit[u], State(unknown), Wait(unknown), class, 0,
                            R(unknown))
  <1>7. row \in UnitRow
    BY <1>1, <1>3, <1>5, <1>6, ReleaseType
  <1>8. /\ row.state = State(unknown)
        /\ row.gen = IF State(unknown) = "needs_attention" THEN rev.gen ELSE unit[u].gen
        /\ row.tokens = unit[u].tokens
    <2>1. unit[u].tokens + 0 = unit[u].tokens
      BY <1>1, RowColumns
    <2>2. QED
      BY <1>5, <2>1, ReleaseRow
  <1> HIDE DEF row
  <1>9. Turned(u, unit[u], row)
    BY <1>1, <1>3, <1>8 DEF Turned, Unfinished, Noted
  <1>10. Settle(workload, [unit EXCEPT ![u] = row], R(unknown), at, FALSE)
    BY <1>2 DEF row
  <1>11. QED
    BY <1>1, <1>5, <1>7, <1>9, <1>10, OneTurnSettles

LEMMA AbandonTurns ==
    ASSUME IInv, NEW w \in Workers, AbandonAttempt(w), NEW v \in Units
    PROVE  Turned(v, unit[v], unit'[v]) /\ rev'.gen = rev.gen
  <1> DEFINE u == worker[w].unit
             before == unit[u].state = "leased"
             Retry(unknown) == /\ worker[w].fence < MaxAttempts
                                     \/ GrantReturned(w)
                               /\ ~unknown /\ ~Regressed(rev, 0)
             State(unknown) == IF ~Retry(unknown) THEN "needs_attention"
                               ELSE IF before THEN "pending" ELSE "retry_wait"
             Error(unknown) == IF Retry(unknown) THEN "" ELSE "cancelled"
             R(unknown) == Advance([rev EXCEPT !.unknown = @ \/ unknown], 0)
             token == IF GrantReturned(w) THEN 1 ELSE 0
  <1>1. /\ u \in Units /\ unit[u] \in UnitRow
        /\ worker[w].fence = Fence(u) /\ unit[u].state \in Held
        /\ Effect[u] \notin Unsafe
    <2>1. /\ u \in Units /\ unit[u].active = worker[w].fence
          /\ unit[u].state \in Held
          /\ GoodUnit(unit[u], attempts[u], result[u])
      BY MatchesHeld DEF AbandonAttempt
    <2>2. Effect[u] \notin Unsafe
      BY DEF AbandonAttempt, Unsafe
    <2>3. QED
      BY <2>1, <2>2, Tables DEF GoodUnit, Fence
  <1>2. PICK unknown \in BOOLEAN :
          Settle(workload,
                 [unit EXCEPT ![u] =
                     Release(unit[u], State(unknown), 0, Error(unknown), token,
                             R(unknown))],
                 R(unknown), 0, FALSE)
    BY Zenon DEF AbandonAttempt, MissingUsage
  <1>3. /\ State(unknown) \in UnitState /\ Error(unknown) \in ErrorClass
        /\ token \in {0, 1}
    BY Literals
  <1>4. R(unknown) \in RevisionRow /\ R(unknown).gen = rev.gen
    <2>1. 0 \in Int
      OBVIOUS
    <2>2. QED
      BY <2>1, Tables, SameGeneration
  <1>5. /\ before => State(unknown) \in {"pending", "needs_attention"}
        /\ ~before => State(unknown) \in {"retry_wait", "needs_attention"} /\ token = 0
        /\ State(unknown) # "needs_attention" => Fence(u) < MaxAttempts \/ token = 1
    BY <1>1 DEF GrantReturned
  <1> DEFINE row == Release(unit[u], State(unknown), 0, Error(unknown), token,
                            R(unknown))
  <1> HIDE DEF State, Error, R, token, u
  <1>6. row \in UnitRow
    <2>1. 0 \in Int
      OBVIOUS
    <2>2. QED
      BY <1>1, <1>3, <1>4, <2>1, ReleaseType
  <1>7. /\ row.state = State(unknown)
        /\ row.gen = IF State(unknown) = "needs_attention" THEN rev.gen ELSE unit[u].gen
        /\ row.tokens = unit[u].tokens + token
    BY <1>4, ReleaseRow
  <1> HIDE DEF row
  <1>8. unit[u].tokens \in Nat
    BY <1>1, RowColumns
  <1>9. Turned(u, unit[u], row)
    <2>1. CASE before
      <3>1. row.tokens = unit[u].tokens \/ row.tokens = unit[u].tokens + 1
        BY <1>3, <1>7, <1>8
      <3>2. row.state = "pending" => Fence(u) < MaxAttempts \/ row.tokens > 0
        BY <1>5, <1>7, <1>8
      <3>3. Unstarted(u, unit[u], row)
        BY <1>5, <1>7, <2>1, <3>1, <3>2 DEF Unstarted, Noted
      <3>4. QED
        BY <3>3 DEF Turned
    <2>2. CASE ~before
      <3>1. unit[u].state = "running"
        BY <1>1, <2>2 DEF Held
      <3>2. row.tokens = unit[u].tokens
        BY <1>5, <1>7, <1>8, <2>2
      <3>3. Unfinished(u, unit[u], row)
        BY <1>1, <1>5, <1>7, <2>2, <3>1, <3>2 DEF Unfinished, Noted
      <3>4. QED
        BY <3>3 DEF Turned
    <2>3. QED
      BY <2>1, <2>2
  <1>10. Settle(workload, [unit EXCEPT ![u] = row], R(unknown), 0, FALSE)
    BY <1>2 DEF row
  <1>11. QED
    BY <1>1, <1>4, <1>6, <1>9, <1>10, OneTurnSettles

LEMMA CommitTurns ==
    ASSUME IInv, NEW w \in Workers, CommitResult(w), NEW v \in Units
    PROVE  Turned(v, unit[v], unit'[v]) /\ rev'.gen = rev.gen
  <1> DEFINE u == worker[w].unit
             state == "committed"
             error == ""
             zero == 0
             r == Advance(rev, 0)
             row == Release(unit[u], state, zero, error, zero, rev)
  <1>1. u \in Units /\ unit[u] \in UnitRow /\ unit[u].state = "running"
    BY MatchesType DEF CommitResult, IInv
  <1>2. r \in RevisionRow /\ r.gen = rev.gen
    <2>1. zero \in Int
      OBVIOUS
    <2>2. QED
      BY <2>1, Tables, AdvanceType
  <1>3. Settle(workload, [unit EXCEPT ![u] = row], r, 0, FALSE)
    BY Zenon DEF CommitResult, Committed
  <1>4. state \in UnitState /\ error \in ErrorClass /\ zero \in Int /\ zero \in {0, 1}
    <2>1. state \in UnitState
      BY Literals
    <2>2. error \in ErrorClass
      BY Literals
    <2>3. zero \in Int /\ zero \in {0, 1}
      OBVIOUS
    <2>4. QED
      BY <2>1, <2>2, <2>3, Zenon
  <1>5. row \in UnitRow
    <2> HIDE DEF u, state, error, zero
    <2>1. QED
      BY <1>1, <1>4, Tables, ReleaseType
  <1>6. row.state = "committed" /\ row.gen = unit[u].gen /\ row.tokens = unit[u].tokens
    <2>1. unit[u].tokens + zero = unit[u].tokens
      BY <1>1, RowColumns
    <2>2. /\ row.state = state /\ row.tokens = unit[u].tokens + zero
          /\ row.gen = IF state = "needs_attention" THEN rev.gen ELSE unit[u].gen
      <3> HIDE DEF u, state, error, zero
      <3>1. QED
        BY ReleaseRow
    <2>3. state # "needs_attention"
      OBVIOUS
    <2>4. QED
      BY <2>1, <2>2, <2>3, Zenon
  <1> HIDE DEF u, row, r
  <1>7. Turned(u, unit[u], row)
    BY <1>1, <1>6 DEF Turned, Finished
  <1>8. QED
    BY <1>1, <1>2, <1>3, <1>5, <1>7, OneTurnSettles

\* The row of an expired lease, before it may be promoted.
LEMMA ReconciledTurns ==
    ASSUME IInv, NEW u \in Units, unit[u].state \in Held, NEW unknown
    PROVE  LET b == Reconciled(u, rev, unknown)
           IN  /\ \/ Unstarted(u, unit[u], b)
                  \/ Unfinished(u, unit[u], b) /\ b.state # "pending"
               /\ b.state = "retry_wait" => b.wait = unit[u].lease + RetryDelay
  <1> DEFINE row == unit[u]
             before == row.state = "leased"
             spare == Fence(u) < MaxAttempts
             state == IF unknown \/ Regressed(rev, 0) THEN "needs_attention"
                      ELSE IF before
                      THEN IF spare \/ row.manual
                           THEN "pending" ELSE "needs_attention"
                      ELSE IF \/ Effect[u] \in {"reconcilable", "manual_only"}
                              \/ row.manual
                              \/ ~spare
                      THEN "needs_attention"
                      ELSE "retry_wait"
             wait == IF state = "retry_wait" THEN row.lease + RetryDelay ELSE 0
             token == IF before /\ row.manual THEN 1 ELSE 0
             b == Reconciled(u, rev, unknown)
  <1>1. b = Release(row, state, wait, "lease_lost", token, rev)
    BY Zenon DEF Reconciled
  <1>2. row \in UnitRow /\ row.tokens \in Nat
    BY Tables, RowColumns
  <1>3. /\ before => state \in {"pending", "needs_attention"}
        /\ ~before => state \in {"retry_wait", "needs_attention"} /\ token = 0
        /\ state = "pending" => spare \/ token = 1
        /\ state = "retry_wait" => spare /\ Effect[u] \notin Unsafe
        /\ token \in {0, 1}
    BY DEF Unsafe
  <1>4. state = "retry_wait" => wait = row.lease + RetryDelay
    OBVIOUS
  <1> HIDE DEF state, wait, token, b
  <1>5. /\ b.state = state /\ b.tokens = row.tokens + token /\ b.wait = wait
        /\ b.gen = IF state = "needs_attention" THEN rev.gen ELSE row.gen
    BY <1>1, ReleaseRow
  <1>6. CASE before
    <2>1. b.tokens = row.tokens \/ b.tokens = row.tokens + 1
      BY <1>2, <1>3, <1>5
    <2>2. b.state = "pending" => Fence(u) < MaxAttempts \/ b.tokens > 0
      BY <1>2, <1>3, <1>5
    <2>3. Unstarted(u, row, b)
      BY <1>3, <1>5, <1>6, <2>1, <2>2 DEF Unstarted, Noted
    <2>4. QED
      BY <1>3, <1>4, <1>5, <1>6, <2>3 DEF b
  <1>7. CASE ~before
    <2>1. row.state = "running"
      BY <1>7 DEF Held
    <2>2. b.tokens = row.tokens
      BY <1>2, <1>3, <1>5, <1>7
    <2>3. Unfinished(u, row, b) /\ b.state # "pending"
      BY <1>3, <1>5, <1>7, <2>1, <2>2 DEF Unfinished, Noted
    <2>4. QED
      BY <1>4, <1>5, <2>3 DEF b
  <1>8. QED
    BY <1>6, <1>7

LEMMA ReconcileTurns ==
    ASSUME IInv, NEW B, B \subseteq Expired, NEW U, NEW P,
           P \subseteq Due(ReconciledRows(B, U)), ReconcileBatch(B, U, P),
           NEW v \in Units
    PROVE  Turned(v, unit[v], unit'[v]) /\ rev'.gen = rev.gen
  <1> DEFINE rows == ReconciledRows(B, U)
             us == Promote(rows, P)
             r == Advance([rev EXCEPT !.unknown = @ \/ U # {}], 0)
  <1>1. rows \in UnitRows /\ us \in UnitRows
    BY ReconciledRowsType, PromoteType DEF IInv
  <1>2. r \in RevisionRow /\ r.gen = rev.gen
    <2>1. 0 \in Int /\ (U # {}) \in BOOLEAN
      OBVIOUS
    <2>2. QED
      BY <2>1, Tables, SameGeneration
  <1>3. \/ unit' = us /\ rev' = rev
        \/ Settle(workload, us, r, 0, FALSE)
    BY Zenon DEF ReconcileBatch
  <1>4. us[v] = rows[v] \/ Promoted(rows[v], us[v])
    BY <1>1, PromoteRow
  <1>5. Turned(v, unit[v], us[v])
    <2>1. CASE v \notin B
      <3>1. rows[v] = unit[v]
        BY <2>1 DEF ReconciledRows
      <3>2. QED
        BY <1>4, <3>1 DEF Turned, Stays
    <2>2. CASE v \in B
      <3> DEFINE b == Reconciled(v, rev, v \in U)
      <3>1. unit[v].state \in Held
        BY <2>2 DEF Expired, Active, Held
      <3>2. rows[v] = b
        BY <2>2 DEF ReconciledRows
      <3>3. /\ \/ Unstarted(v, unit[v], b)
               \/ Unfinished(v, unit[v], b) /\ b.state # "pending"
            /\ b.state = "retry_wait" => b.wait = unit[v].lease + RetryDelay
        BY <3>1, ReconciledTurns
      <3> HIDE DEF b
      <3>4. CASE us[v] = rows[v]
        BY <3>2, <3>3, <3>4 DEF Turned
      <3>5. CASE Promoted(rows[v], us[v])
        <4>1. Unfinished(v, unit[v], b) /\ b.state = "retry_wait"
          BY <3>2, <3>3, <3>5 DEF Promoted, Unstarted
        <4>2. unit[v].lease <= 0
          <5>1. unit[v].lease \in Int /\ RetryDelay \in Nat
            BY Tables, RowColumns, PolicyAssumption
          <5>2. unit[v].lease + RetryDelay <= 0
            BY <3>2, <3>3, <3>5, <4>1 DEF Promoted
          <5>3. QED
            BY <5>1, <5>2
        <4>3. Unfinished(v, unit[v], us[v])
          BY <3>2, <3>5, <4>1, <4>2 DEF Unfinished, Promoted, Noted
        <4>4. QED
          BY <4>3 DEF Turned
      <3>6. QED
        BY <1>4, <3>4, <3>5
    <2>3. QED
      BY <2>1, <2>2
  <1> HIDE DEF us, rows, r
  <1>6. CASE unit' = us /\ rev' = rev
    BY <1>5, <1>6
  <1>7. CASE Settle(workload, us, r, 0, FALSE)
    <2>1. rev' = r
      BY <1>7 DEF Settle
    <2>2. QED
      BY <1>1, <1>2, <1>5, <1>7, <2>1, TurnSettles
  <1>8. QED
    BY <1>3, <1>6, <1>7

\* A settlement of the rows as they are, with or without repair.
LEMMA SettleTurns ==
    ASSUME IInv, NEW w, NEW at, NEW repair \in BOOLEAN,
           Settle(w, unit, rev, at, repair), NEW v \in Units
    PROVE  Turned(v, unit[v], unit'[v]) /\ rev'.gen = rev.gen
  <1>1. SettledRow(v, unit, unit'[v], rev, repair)
    BY Tables, SettleRow
  <1>2. rev' = rev
    BY DEF Settle
  <1>3. CASE unit'[v] = unit[v]
    BY <1>2, <1>3 DEF Turned, Stays
  <1>4. CASE /\ unit[v].state \in WaitingStates
             /\ unit'[v].state = "cancelled" /\ unit'[v].tokens = 0
             /\ unit'[v].gen \in {unit[v].gen, rev.gen}
    BY <1>2, <1>4 DEF Turned, Dropped, WaitingStates, TerminalUnit
  <1>5. CASE Mended(v, unit, unit'[v], rev)
    BY <1>2, <1>5 DEF Turned, Repaired, Mended
  <1>6. QED
    BY <1>1, <1>3, <1>4, <1>5 DEF SettledRow

LEMMA ShiftTurns ==
    ASSUME IInv, NEW d \in Int, NEW m \in Int, Shift(d, m), NEW v \in Units
    PROVE  Turned(v, unit[v], unit'[v]) /\ rev'.gen = rev.gen
  <1> DEFINE Move(t, by) == Greatest(t + by, -Horizon)
             skew == Move(rev.skew, d)
             row == unit[v]
             lease == IF v \in Active(unit) THEN Move(row.lease, d)
                      ELSE row.lease
             wait == IF row.state = "retry_wait" THEN Move(row.wait, d)
                     ELSE row.wait
  <1>1. unit'[v] = [row EXCEPT !.lease = lease, !.wait = wait]
    BY DEF Shift
  <1>2. rev' = [rev EXCEPT !.skew = skew]
    BY DEF Shift
  <1>3. row \in UnitRow /\ rev \in RevisionRow
    BY Tables
  <1> HIDE DEF row, lease, wait, skew
  <1>4. Stays(row, unit'[v])
    BY <1>1, <1>3 DEF Stays, UnitRow
  <1>5. rev'.gen = rev.gen
    BY <1>2, <1>3 DEF RevisionRow
  <1>6. QED
    BY <1>4, <1>5 DEF Turned, row

\* claim_next lends one unit and promotes the retries that are due.
LEMMA ClaimLends ==
    ASSUME IInv, NEW w \in Workers, ClaimNext(w), NEW v \in Units
    PROVE  /\ rev'.gen = rev.gen
           /\ \/ Turned(v, unit[v], unit'[v]) /\ Fence(v)' = Fence(v)
              \/ Lent(v, unit[v], unit'[v]) /\ Fence(v)' = Fence(v) + 1
  <1> DEFINE us == Promote(unit, Due(unit))
  <1>1. PICK u \in Claimable(us, rev) :
          /\ attempts' = [attempts EXCEPT ![u] = Append(attempts[u], "leased")]
          /\ unit' = [us EXCEPT ![u] = Leased(us[u], w, Fence(u) + 1, rev)]
    BY Zenon DEF ClaimNext
  <1>2. us \in UnitRows /\ unit \in UnitRows /\ rev \in RevisionRow
    BY Tables, PromoteType
  <1>3. rev'.gen = rev.gen
    <2>1. 0 \in Int
      OBVIOUS
    <2>2. rev' = Advance(rev, 0)
      BY DEF ClaimNext
    <2>3. QED
      BY <1>2, <2>1, <2>2, AdvanceType
  <1>4. us[v] = unit[v] \/ Promoted(unit[v], us[v])
    BY <1>2, PromoteRow
  <1>5. /\ u \in Units
        /\ \/ /\ us[u].state = "pending"
              /\ Fence(u) < MaxAttempts \/ us[u].tokens > 0
           \/ us[u].state = "needs_attention" /\ us[u].gen < rev.gen
    BY <1>1 DEF Claimable
  <1> HIDE DEF us
  <1>6. attempts \in [Units -> Seq(AttemptState)]
    BY DEF IInv, TypeOK
  <1>7. CASE v # u
    <2>1. unit'[v] = us[v]
      BY <1>1, <1>2, <1>7 DEF UnitRows
    <2>2. attempts'[v] = attempts[v]
      BY <1>1, <1>6, <1>7
    <2>3. Turned(v, unit[v], unit'[v])
      BY <1>4, <2>1 DEF Turned, Stays
    <2>4. QED
      BY <1>3, <2>2, <2>3 DEF Fence
  <1>8. CASE v = u
    <2> DEFINE b == Leased(us[u], w, Fence(u) + 1, rev)
               a == unit[u]
               spent == TokenSpent(us[u])
    <2>1. unit'[v] = b
      BY <1>1, <1>2, <1>5, <1>8 DEF UnitRows
    <2>2. Fence(v)' = Fence(v) + 1
      <3>1. attempts'[v] = Append(attempts[v], "leased")
        BY <1>1, <1>5, <1>6, <1>8
      <3>2. attempts[v] \in Seq(AttemptState) /\ "leased" \in AttemptState
        BY <1>6 DEF AttemptState
      <3>3. QED
        BY <3>1, <3>2 DEF Fence
    <2>3. /\ b.state = "leased" /\ b.tokens = us[u].tokens - spent
          /\ b.gen = IF us[u].state = "needs_attention" THEN rev.gen ELSE us[u].gen
      BY LeasedRow
    <2>4. us[u] \in UnitRow /\ a \in UnitRow /\ us[u].tokens \in Nat
      BY <1>2, <1>5, RowColumns DEF UnitRows
    <2>5. a.gen = us[u].gen /\ a.tokens = us[u].tokens
      BY <1>4, <1>8 DEF Promoted
    <2>6. CASE us[u].state = "pending"
      <3>1. a.state = "pending" \/ (a.state = "retry_wait" /\ a.wait <= 0)
        BY <1>4, <1>8, <2>6 DEF Promoted
      <3>2. CASE us[u].tokens = 0
        <4>1. spent = 0
          BY <3>2 DEF TokenSpent
        <4> HIDE DEF b, spent
        <4>2. Lent(u, a, b)
          BY <1>5, <2>3, <2>4, <2>5, <2>6, <3>1, <3>2, <4>1 DEF Lent
        <4>3. QED
          BY <1>3, <1>8, <2>1, <2>2, <4>2
      <3>3. CASE us[u].tokens > 0
        <4>1. spent = 1
          BY <2>6, <3>3 DEF TokenSpent
        <4> HIDE DEF b, spent
        <4>2. Lent(u, a, b)
          BY <2>3, <2>4, <2>5, <2>6, <3>1, <3>3, <4>1 DEF Lent
        <4>3. QED
          BY <1>3, <1>8, <2>1, <2>2, <4>2
      <3>4. QED
        BY <2>4, <3>2, <3>3
    <2>7. CASE us[u].state = "needs_attention" /\ us[u].gen < rev.gen
      <3>1. a = us[u]
        BY <1>4, <1>8, <2>7 DEF Promoted
      <3>2. spent = 0
        BY <2>7 DEF TokenSpent
      <3> HIDE DEF b, spent
      <3>3. Lent(u, a, b)
        BY <2>3, <2>4, <2>7, <3>1, <3>2 DEF Lent
      <3>4. QED
        BY <1>3, <1>8, <2>1, <2>2, <3>3
    <2>8. QED
      BY <1>5, <2>6, <2>7
  <1>9. QED
    BY <1>7, <1>8

\* claim_next without a reservation only promotes.
LEMMA ReservationTurns ==
    ASSUME IInv, NEW w \in Workers, ClaimWithoutReservation(w), NEW v \in Units
    PROVE  Turned(v, unit[v], unit'[v]) /\ rev'.gen = rev.gen
  <1>1. unit' = Promote(unit, Due(unit)) /\ rev' = rev
    BY DEF ClaimWithoutReservation
  <1>2. unit'[v] = unit[v] \/ Promoted(unit[v], unit'[v])
    BY <1>1, Tables, PromoteRow
  <1>3. QED
    BY <1>1, <1>2 DEF Turned, Stays

\* mark_running starts the unit that the worker claimed.
LEMMA MarkStarts ==
    ASSUME IInv, ClaimsTrue, NEW w \in Workers, MarkRunning(w), NEW v \in Units
    PROVE  /\ rev'.gen = rev.gen
           /\ \/ Stays(unit[v], unit'[v]) /\ starts'[v] = starts[v]
              \/ Started(unit[v], unit'[v]) /\ starts'[v] = starts[v] + 1
  <1> DEFINE u == worker[w].unit
             row == unit[u]
             state == "running"
             lease == Least(row.lease, Timeout)
             new == [row EXCEPT !.state = state, !.lease = lease]
  <1>1. /\ u \in Units /\ row \in UnitRow /\ row.state = "leased"
    BY MatchesType DEF MarkRunning, IInv, ClaimsTrue
  <1>2. rev'.gen = rev.gen
    <2>1. 0 \in Int
      OBVIOUS
    <2>2. rev' = Advance(rev, 0)
      BY DEF MarkRunning
    <2>3. QED
      BY <2>1, <2>2, Tables, AdvanceType
  <1>3. unit' = [unit EXCEPT ![u] = new]
    BY Zenon DEF MarkRunning
  <1>4. starts' = [starts EXCEPT ![u] = starts[u] + 1]
    BY Zenon DEF MarkRunning
  <1>5. unit \in [Units -> UnitRow] /\ starts \in [Units -> Nat]
    BY DEF IInv, TypeOK
  <1>6. CASE v = u
    <2>1. unit'[v] = new /\ starts'[v] = starts[v] + 1
      BY <1>1, <1>3, <1>4, <1>5, <1>6
    <2>2. row.worker = w /\ worker'[w].pc = "executing"
      <3>1. worker' = [worker EXCEPT ![w].pc = "executing", ![w].deadline = Timeout,
                                     ![w].mono = Timeout]
        BY DEF MarkRunning
      <3>2. worker \in [Workers -> WorkerRow]
        BY DEF IInv, TypeOK
      <3>3. worker'[w].pc = "executing"
        BY <3>1, <3>2 DEF WorkerRow
      <3>4. QED
        BY <3>3 DEF MarkRunning, Matches
    <2> HIDE DEF row, lease, u
    <2>3. Started(row, new)
      BY <1>1, <2>2 DEF Started, UnitRow
    <2>4. QED
      BY <1>2, <1>6, <2>1, <2>3 DEF row
  <1>7. CASE v # u
    <2> HIDE DEF new, u
    <2>1. unit'[v] = unit[v] /\ starts'[v] = starts[v]
      BY <1>3, <1>4, <1>5, <1>7
    <2>2. QED
      BY <1>2, <2>1 DEF Stays
  <1>8. QED
    BY <1>6, <1>7

LEMMA HeartbeatStays ==
    ASSUME IInv, NEW w \in Workers, Heartbeat(w), NEW v \in Units
    PROVE  Turned(v, unit[v], unit'[v]) /\ rev'.gen = rev.gen
  <1> DEFINE u == worker[w].unit
             row == unit[u]
             lease == RenewedExpiry(w)
             new == [row EXCEPT !.lease = lease]
  <1>1. u \in Units /\ row \in UnitRow
    BY MatchesType DEF Heartbeat, IInv
  <1>2. rev'.gen = rev.gen
    <2>1. 0 \in Int
      OBVIOUS
    <2>2. rev' = Advance(rev, 0)
      BY DEF Heartbeat
    <2>3. QED
      BY <2>1, <2>2, Tables, AdvanceType
  <1>3. unit' = [unit EXCEPT ![u] = new]
    BY Zenon DEF Heartbeat
  <1>4. unit \in [Units -> UnitRow]
    BY DEF IInv, TypeOK
  <1>5. CASE v = u
    <2>1. unit'[v] = new
      BY <1>1, <1>3, <1>4, <1>5
    <2> HIDE DEF row, lease, u
    <2>2. Stays(row, new)
      BY <1>1 DEF Stays, UnitRow
    <2>3. QED
      BY <1>2, <1>5, <2>1, <2>2 DEF row, Turned
  <1>6. CASE v # u
    <2> HIDE DEF new, u
    <2>1. unit'[v] = unit[v]
      BY <1>3, <1>4, <1>6
    <2>2. QED
      BY <1>2, <2>1 DEF Turned, Stays
  <1>7. QED
    BY <1>5, <1>6

LEMMA SameTurns ==
    ASSUME UNCHANGED <<unit, rev>>, NEW v \in Units
    PROVE  Turned(v, unit[v], unit'[v]) /\ rev'.gen = rev.gen
  BY DEF Turned, Stays

LEMMA WorkerTurns ==
    ASSUME IInv, NEW w \in Workers, WorkerStep(w), ~ClaimNext(w),
           ~MarkRunning(w), NEW v \in Units
    PROVE  /\ Turned(v, unit[v], unit'[v]) /\ rev'.gen = rev.gen
           /\ UNCHANGED <<starts, grants>>
  <1>1. CASE ClaimWithoutReservation(w)
    BY <1>1, ReservationTurns DEF ClaimWithoutReservation
  <1>2. CASE \/ StartRefused(w) \/ HeartbeatFails(w) \/ DropResult(w)
             \/ RequestStop(w) \/ Restart(w)
    BY <1>2, SameTurns DEF StartRefused, HeartbeatFails, DropResult, RequestStop,
       Restart
  <1>3. CASE Heartbeat(w)
    BY <1>3, HeartbeatStays DEF Heartbeat
  <1>4. CASE CommitResult(w)
    BY <1>4, CommitTurns DEF CommitResult
  <1>5. CASE RecordFailure(w)
    <2>1. PICK class \in ErrorClasses, ended \in {"failed", "timed_out"} :
             FailAttempt(w, class, ended, 0)
      BY <1>5 DEF RecordFailure
    <2>2. class \in ErrorClass
      BY <2>1, Literals
    <2>3. UNCHANGED <<starts, grants>>
      BY <1>5 DEF RecordFailure
    <2>4. QED
      BY <2>1, <2>2, <2>3, FailTurns
  <1>6. CASE RecordTimeout(w)
    <2> DEFINE class == "executor_transient"
               ended == "timed_out"
               at == Greatest(0, worker[w].deadline)
    <2>1. FailAttempt(w, class, ended, at)
      BY <1>6 DEF RecordTimeout
    <2>2. class \in ErrorClass /\ ended \in {"failed", "timed_out"}
      BY Literals
    <2>3. at \in Int
      BY Tables DEF Greatest, WorkerRow
    <2>4. UNCHANGED <<starts, grants>>
      BY <1>6 DEF RecordTimeout
    <2> HIDE DEF class, ended, at
    <2>5. QED
      BY <2>1, <2>2, <2>3, <2>4, FailTurns
  <1>7. CASE HandBack(w)
    <2>1. UNCHANGED <<starts, grants>>
      BY <1>7 DEF HandBack
    <2>2. AbandonAttempt(w) \/ UNCHANGED <<unit, rev>>
      BY <1>7 DEF HandBack
    <2>3. QED
      BY <2>1, <2>2, AbandonTurns, SameTurns
  <1>8. CASE ShutdownDue(w)
    BY <1>8, AbandonTurns DEF ShutdownDue
  <1>9. QED
    BY <1>1, <1>2, <1>3, <1>4, <1>5, <1>6, <1>7, <1>8 DEF WorkerStep

LEMMA OwnerTurns ==
    ASSUME IInv, Owner, ~ResolveRetry, NEW v \in Units
    PROVE  /\ Turned(v, unit[v], unit'[v]) /\ rev'.gen = rev.gen
           /\ UNCHANGED <<starts, grants>>
  <1>1. \A target : EnterState(rev, target).gen = rev.gen
    <2>1. 0 \in Int
      OBVIOUS
    <2>2. QED
      BY <2>1, Tables, AdvanceType DEF EnterState
  <1>2. CASE Enqueue
    <2>1. unit' = unit /\ rev'.gen = rev.gen /\ UNCHANGED <<starts, grants>>
      BY <1>1, <1>2 DEF Enqueue
    <2>2. QED
      BY <2>1 DEF Turned, Stays
  <1>3. ASSUME NEW command \in {"pause", "resume", "cancel"}, Control(command)
        PROVE  /\ Turned(v, unit[v], unit'[v]) /\ rev'.gen = rev.gen
               /\ UNCHANGED <<starts, grants>>
    <2> DEFINE target == ControlTarget[command][workload]
    <2>1. UNCHANGED <<starts, grants>>
      BY <1>3 DEF Control
    <2>2. \/ Settle(target, unit, rev, 0, FALSE)
          \/ unit' = unit /\ rev' = EnterState(rev, target)
      BY <1>3 DEF Control
    <2> HIDE DEF target
    <2>3. CASE Settle(target, unit, rev, 0, FALSE)
      BY <2>1, <2>3, SettleTurns
    <2>4. CASE unit' = unit /\ rev' = EnterState(rev, target)
      BY <1>1, <2>1, <2>4 DEF Turned, Stays
    <2>5. QED
      BY <2>2, <2>3, <2>4
  <1>4. CASE ResolveCancel
    BY <1>4, SettleTurns DEF ResolveCancel
  <1>5. QED
    BY <1>2, <1>3, <1>4 DEF Owner

LEMMA ServiceTurns ==
    ASSUME IInv, Service, NEW v \in Units
    PROVE  /\ Turned(v, unit[v], unit'[v]) /\ rev'.gen = rev.gen
           /\ UNCHANGED <<starts, grants>>
  <1>1. CASE ReconcileExpired
    <2>1. PICK B \in Batches(Expired) :
             \E U, P : /\ P \subseteq Due(ReconciledRows(B, U))
                       /\ ReconcileBatch(B, U, P)
      BY <1>1 DEF ReconcileExpired
    <2>2. PICK U, P : /\ P \subseteq Due(ReconciledRows(B, U))
                      /\ ReconcileBatch(B, U, P)
      BY <2>1
    <2>3. B \subseteq Expired
      BY DEF Batches
    <2>4. UNCHANGED <<starts, grants>>
      BY <2>2 DEF ReconcileBatch
    <2>5. QED
      BY <2>2, <2>3, <2>4, ReconcileTurns
  <1>2. CASE SettleWorkloads
    <2>1. Settle(workload, unit, rev, 0, TRUE) /\ UNCHANGED <<starts, grants>>
      BY <1>2 DEF SettleWorkloads
    <2>2. QED
      BY <2>1, SettleTurns
  <1>3. CASE CompleteReadyWorkloads
    BY <1>3, SameTurns DEF CompleteReadyWorkloads, EvaluateCompletion
  <1>4. QED
    BY <1>1, <1>2, <1>3 DEF Service

LEMMA EnvironmentTurns ==
    ASSUME IInv, Environment, NEW v \in Units
    PROVE  /\ Turned(v, unit[v], unit'[v]) /\ rev'.gen = rev.gen
           /\ UNCHANGED <<starts, grants>>
  <1>1. CASE SpendBudget
    <2>1. unit' = unit /\ rev' = [rev EXCEPT !.spent = TRUE] /\ UNCHANGED <<starts, grants>>
      BY <1>1 DEF SpendBudget
    <2>2. rev'.gen = rev.gen
      BY <2>1, Tables DEF RevisionRow
    <2>3. QED
      BY <2>1, <2>2 DEF Turned, Stays
  <1>2. CASE Tick
    <2>1. Shift(-1, -1) /\ UNCHANGED <<starts, grants>>
      BY <1>2 DEF Tick
    <2>2. QED
      BY <2>1, ShiftTurns
  <1>3. ASSUME NEW d \in Jumps, JumpBack(d)
        PROVE  /\ Turned(v, unit[v], unit'[v]) /\ rev'.gen = rev.gen
               /\ UNCHANGED <<starts, grants>>
    <2>1. Shift(d, 0) /\ UNCHANGED <<starts, grants>>
      BY <1>3 DEF JumpBack
    <2>2. d \in Int /\ 0 \in Int
      BY PolicyAssumption
    <2>3. QED
      BY <2>1, <2>2, ShiftTurns
  <1>4. QED
    BY <1>1, <1>2, <1>3 DEF Environment

\* The owner's decision to retry.
LEMMA ResolveDecides ==
    ASSUME IInv, ResolveRetry, NEW v \in Units
    PROVE  Decided(v)
  <1> DEFINE gen == rev.gen + 1
             r == [rev EXCEPT !.gen = gen]
  <1>1. rev' = EnterState(r, workload')
    BY DEF ResolveRetry
  <1>2. r \in RevisionRow /\ r.gen = gen
    <2>1. rev \in RevisionRow /\ rev.gen \in Nat
      BY Tables DEF RevisionRow
    <2>2. gen \in Nat
      BY <2>1
    <2> HIDE DEF gen
    <2>3. QED
      BY <2>1, <2>2 DEF RevisionRow
  <1> HIDE DEF r
  <1>3. rev'.gen = gen
    <2>1. 0 \in Int
      OBVIOUS
    <2>2. QED
      BY <1>1, <1>2, <2>1, AdvanceType DEF EnterState
  <1>4. /\ UNCHANGED <<unit, attempts, starts>>
        /\ grants'[v] = IF unit[v].state = "needs_attention"
                        THEN grants[v] + 1 ELSE grants[v]
    BY DEF ResolveRetry
  <1>5. QED
    BY <1>3, <1>4 DEF Decided, Stays, Fence

\* Whatever happens, one unit takes one of the steps of UnitStep.
LEMMA EveryStep ==
    ASSUME IInv, ClaimsTrue, [Next]_vars, NEW u \in Units
    PROVE  UnitStep(u)
  <1>1. CASE \E w \in Workers : ClaimNext(w)
    <2>1. PICK w \in Workers : ClaimNext(w)
      BY <1>1
    <2>2. UNCHANGED <<starts, grants>>
      BY <2>1 DEF ClaimNext
    <2>3. QED
      BY <2>1, <2>2, ClaimLends DEF UnitStep
  <1>2. CASE ~\E w \in Workers : ClaimNext(w)
    <2>1. Fence(u)' = Fence(u)
      BY <1>2, OnlyClaimLeases DEF IInv, Fence
    <2>2. ASSUME NEW w \in Workers, MarkRunning(w)
          PROVE  UnitStep(u)
      <3>1. grants' = grants
        BY <2>2 DEF MarkRunning
      <3>2. QED
        BY <2>1, <2>2, <3>1, MarkStarts DEF UnitStep, Turned
    <2>3. CASE ResolveRetry
      BY <2>3, ResolveDecides DEF UnitStep
    <2>4. CASE /\ Turned(u, unit[u], unit'[u]) /\ rev'.gen = rev.gen
               /\ UNCHANGED <<starts, grants>>
      BY <2>1, <2>4 DEF UnitStep
    <2>5. ASSUME NEW w \in Workers, WorkerStep(w), ~MarkRunning(w)
          PROVE  UnitStep(u)
      BY <1>2, <2>4, <2>5, WorkerTurns
    <2>6. CASE Owner /\ ~ResolveRetry
      BY <2>4, <2>6, OwnerTurns
    <2>7. CASE Service
      BY <2>4, <2>7, ServiceTurns
    <2>8. CASE Environment
      BY <2>4, <2>8, EnvironmentTurns
    <2>9. CASE vars' = vars
      BY <2>4, <2>9, SameTurns DEF vars
    <2>10. QED
      BY <2>2, <2>3, <2>5, <2>6, <2>7, <2>8, <2>9 DEF Next
  <1>3. QED
    BY <1>1, <1>2

-----------------------------------------------------------------------------
(* The rows stay ready.                                                    *)

LEMMA ReadyStep ==
    ASSUME IInv, IInv', NEW u \in Units, Ready(u), UnitStep(u)
    PROVE  Ready(u)'
  <1> DEFINE a == unit[u]
             b == unit'[u]
             n == starts[u]
             g == grants[u]
             f == Fence(u)
             r == rev.gen
  <1>1. /\ a.state \in UnitState /\ a.tokens \in Nat /\ a.gen \in Nat
        /\ b.state \in UnitState /\ b.tokens \in Nat /\ b.gen \in Nat
        /\ n \in Nat /\ g \in Nat /\ f \in Nat /\ r \in Nat
        /\ MaxAttempts \in Nat \ {0} /\ Least(f, MaxAttempts) \in Nat
    BY RowColumns, PolicyAssumption
       DEF IInv, TypeOK, UnitRow, RevisionRow, Fence, Least
  <1>2. /\ a.gen <= r
        /\ a.state = "retry_wait" => f < MaxAttempts
        /\ a.state = "pending" => f < MaxAttempts \/ a.tokens > 0
        /\ n + a.tokens + One(a.state = "leased")
             + One(a.state = "needs_attention" /\ a.gen < r)
               <= Least(f, MaxAttempts) + g
        /\ Effect[u] \in Unsafe =>
              /\ a.state # "retry_wait"
              /\ n + a.tokens + One(a.state = "leased")
                   + One(a.state = "needs_attention" /\ a.gen < r)
                   + One(a.state = "pending" /\ a.tokens = 0) <= 1 + g
    BY DEF Ready, Claims, Answered
  <1>3. SUFFICES
          /\ b.gen <= rev'.gen
          /\ b.state = "retry_wait" => Fence(u)' < MaxAttempts
          /\ b.state = "pending" => Fence(u)' < MaxAttempts \/ b.tokens > 0
          /\ starts'[u] + b.tokens + One(b.state = "leased")
               + One(b.state = "needs_attention" /\ b.gen < rev'.gen)
                 <= Least(Fence(u)', MaxAttempts) + grants'[u]
          /\ Effect[u] \in Unsafe =>
                /\ b.state # "retry_wait"
                /\ starts'[u] + b.tokens + One(b.state = "leased")
                     + One(b.state = "needs_attention" /\ b.gen < rev'.gen)
                     + One(b.state = "pending" /\ b.tokens = 0) <= 1 + grants'[u]
    BY DEF Ready, Claims, Answered, Fence
  <1>4. /\ Fence(u)' \in Nat /\ grants'[u] \in Nat /\ starts'[u] \in Nat
        /\ rev'.gen \in Nat
    BY DEF IInv, TypeOK, RevisionRow, Fence
  <1>5. CASE Decided(u)
    <2>1. /\ b.state = a.state /\ b.tokens = a.tokens /\ b.gen = a.gen
          /\ rev'.gen = r + 1 /\ starts'[u] = n /\ Fence(u)' = f
          /\ grants'[u] = IF a.state = "needs_attention" THEN g + 1 ELSE g
      BY <1>5 DEF Decided, Stays
    <2> HIDE DEF a, b, n, g, f, r
    <2>2. QED
      BY <1>1, <1>2, <2>1 DEF One
  <1>6. CASE /\ rev'.gen = r /\ grants'[u] = g
             /\ Fence(u)' = f /\ starts'[u] = n /\ Turned(u, a, b)
    <2>1. CASE Stays(a, b)
      BY <1>1, <1>2, <1>6, <2>1 DEF Stays
    <2>2. CASE Promoted(a, b)
      BY <1>1, <1>2, <1>6, <2>2 DEF Promoted, One
    <2>3. CASE Unstarted(u, a, b)
      BY <1>1, <1>2, <1>6, <2>3 DEF Unstarted, Noted, One
    <2>4. CASE Unfinished(u, a, b)
      BY <1>1, <1>2, <1>6, <2>4 DEF Unfinished, Noted, One
    <2>5. CASE Finished(a, b)
      BY <1>1, <1>2, <1>6, <2>5 DEF Finished, One
    <2>6. CASE Dropped(a, b)
      BY <1>1, <1>2, <1>6, <2>6 DEF Dropped, One
    <2>7. CASE Repaired(u, a, b)
      BY <1>1, <1>2, <2>7 DEF Repaired, Exhausted
    <2>8. QED
      BY <1>6, <2>1, <2>2, <2>3, <2>4, <2>5, <2>6, <2>7 DEF Turned
  <1>7. CASE /\ rev'.gen = r /\ grants'[u] = g
             /\ Fence(u)' = f /\ starts'[u] = n + 1 /\ Started(a, b)
    BY <1>1, <1>2, <1>7 DEF Started, One
  <1>8. CASE /\ rev'.gen = r /\ grants'[u] = g
             /\ Fence(u)' = f + 1 /\ starts'[u] = n /\ Lent(u, a, b)
    BY <1>1, <1>2, <1>8 DEF Lent, One, Least
  <1>9. QED
    BY <1>5, <1>6, <1>7, <1>8 DEF UnitStep

-----------------------------------------------------------------------------
(* The leases that workers carry.                                          *)

\* The worker carries on with the same lease.
CarriesOn(w) ==
    /\ worker'[w].pc = worker[w].pc
    /\ worker'[w].unit = worker[w].unit /\ worker'[w].fence = worker[w].fence

Keeps(w) == CarriesOn(w) /\ worker'[w].deadline = worker[w].deadline

LEMMA ReturnMoves ==
    ASSUME IInv, NEW x \in Workers, Return(x), NEW w \in Workers
    PROVE  worker'[w].pc = "idle" \/ Keeps(w)
  <1> DEFINE stopping == worker[x].stopping
             row == [Idle EXCEPT !.stopping = stopping]
  <1>1. worker' = [worker EXCEPT ![x] = row]
    BY DEF Return
  <1>2. row.pc = "idle"
    BY DEF Idle
  <1> HIDE DEF row
  <1>3. worker \in [Workers -> WorkerRow]
    BY DEF IInv, TypeOK
  <1>4. QED
    BY <1>1, <1>2, <1>3 DEF Keeps, CarriesOn

LEMMA LaneMoves ==
    ASSUME IInv, NEW x \in Workers, WorkerStep(x), NEW w \in Workers
    PROVE  \/ worker'[w].pc = "idle" \/ Keeps(w)
           \/ w = x /\ (ClaimNext(w) \/ MarkRunning(w))
  <1>1. worker \in [Workers -> WorkerRow]
    BY DEF IInv, TypeOK
  <1>2. CASE worker' = worker
    BY <1>2 DEF Keeps, CarriesOn
  <1>3. CASE Return(x)
    BY <1>3, ReturnMoves
  <1>4. CASE ClaimNext(x)
    <2>1. CASE w = x
      BY <1>4, <2>1
    <2>2. CASE w # x
      <3>1. PICK row : worker' = [worker EXCEPT ![x] = row]
        BY <1>4, Zenon DEF ClaimNext
      <3>2. QED
        BY <1>1, <2>2, <3>1 DEF Keeps, CarriesOn
    <2>3. QED
      BY <2>1, <2>2
  <1>5. CASE MarkRunning(x)
    <2>1. CASE w = x
      BY <1>5, <2>1
    <2>2. CASE w # x
      <3>1. PICK row : worker' = [worker EXCEPT ![x] = row]
        BY <1>5, Zenon DEF MarkRunning
      <3>2. QED
        BY <1>1, <2>2, <3>1 DEF Keeps, CarriesOn
    <2>3. QED
      BY <2>1, <2>2
  <1>6. CASE worker' = [worker EXCEPT ![x].lost = TRUE]
    BY <1>1, <1>6 DEF Keeps, CarriesOn, WorkerRow
  <1>7. CASE worker' = [worker EXCEPT ![x].stopping = TRUE]
    BY <1>1, <1>7 DEF Keeps, CarriesOn, WorkerRow
  <1>8. CASE worker' = [worker EXCEPT ![x] = Idle]
    <2>1. Idle.pc = "idle"
      BY DEF Idle
    <2>2. QED
      BY <1>1, <1>8, <2>1 DEF Keeps, CarriesOn
  <1>9. QED
    BY <1>2, <1>3, <1>4, <1>5, <1>6, <1>7, <1>8
       DEF WorkerStep, ClaimWithoutReservation, StartRefused, Heartbeat,
           HeartbeatFails, CommitResult, RecordFailure, RecordTimeout, DropResult,
           HandBack, ShutdownDue, RequestStop, Restart

LEMMA ShiftMoves ==
    ASSUME IInv, NEW d, NEW m, Shift(d, m), NEW w \in Workers
    PROVE  /\ CarriesOn(w)
           /\ worker[w].pc = "executing" =>
                worker'[w].deadline = Greatest(worker[w].deadline + d, -Horizon)
  <1> DEFINE row == worker[w]
             deadline == Greatest(row.deadline + d, -Horizon)
             mono == Greatest(row.mono + m, 0)
  <1>1. worker'[w] = IF row.pc = "executing"
                     THEN [row EXCEPT !.deadline = deadline, !.mono = mono]
                     ELSE row
    BY DEF Shift
  <1>2. row \in WorkerRow
    BY Tables
  <1> HIDE DEF row, deadline, mono
  <1>3. CASE row.pc = "executing"
    <2>1. /\ worker'[w].pc = row.pc /\ worker'[w].unit = row.unit
          /\ worker'[w].fence = row.fence /\ worker'[w].deadline = deadline
      BY <1>1, <1>2, <1>3 DEF WorkerRow
    <2>2. QED
      BY <2>1 DEF CarriesOn, row, deadline
  <1>4. CASE row.pc # "executing"
    BY <1>1, <1>4 DEF CarriesOn, row
  <1>5. QED
    BY <1>3, <1>4

\* Nobody comes to hold a lease but by a claim, and nobody starts but by
\* mark_running.
LEMMA WorkerMoves ==
    ASSUME IInv, [Next]_vars, NEW w \in Workers
    PROVE  \/ worker'[w].pc = "idle" \/ CarriesOn(w)
           \/ ClaimNext(w) \/ MarkRunning(w)
  <1>1. ASSUME NEW x \in Workers, WorkerStep(x)
        PROVE  \/ worker'[w].pc = "idle" \/ CarriesOn(w)
               \/ ClaimNext(w) \/ MarkRunning(w)
    BY <1>1, LaneMoves DEF Keeps
  <1>2. CASE worker' = worker
    BY <1>2 DEF CarriesOn
  <1>3. CASE Owner
    BY <1>2, <1>3 DEF Owner, Enqueue, Control, ResolveRetry, ResolveCancel
  <1>4. CASE Service
    BY <1>2, <1>4 DEF Service, ReconcileExpired, ReconcileBatch,
       SettleWorkloads, CompleteReadyWorkloads, EvaluateCompletion
  <1>5. CASE Environment
    <2>1. CASE SpendBudget
      BY <1>2, <2>1 DEF SpendBudget
    <2>2. CASE Tick
      BY <2>2, ShiftMoves DEF Tick
    <2>3. ASSUME NEW d \in Jumps, JumpBack(d)
          PROVE  CarriesOn(w)
      BY <2>3, ShiftMoves DEF JumpBack
    <2>4. QED
      BY <1>5, <2>1, <2>2, <2>3 DEF Environment
  <1>6. CASE vars' = vars
    BY <1>2, <1>6 DEF vars
  <1>7. QED
    BY <1>1, <1>3, <1>4, <1>5, <1>6 DEF Next

\* What claim_next leaves behind.
LEMMA ClaimLeaves ==
    ASSUME IInv, NEW w \in Workers, ClaimNext(w)
    PROVE  \E u \in Units :
              /\ unit'[u].state = "leased" /\ unit'[u].lease = LeaseDuration
              /\ worker'[w].pc = "claimed" /\ worker'[w].unit = u
              /\ \A v \in Units \ {u} :
                    unit'[v] = unit[v] \/ Promoted(unit[v], unit'[v])
  <1> DEFINE us == Promote(unit, Due(unit))
             Row(u) == Leased(us[u], w, Fence(u) + 1, rev)
             Lane(u) == [Idle EXCEPT !.pc = "claimed", !.unit = u,
                             !.fence = Fence(u) + 1, !.manual = ManualRetry(us[u])]
  <1>1. PICK u \in Claimable(us, rev) :
          /\ unit' = [us EXCEPT ![u] = Row(u)]
          /\ worker' = [worker EXCEPT ![w] = Lane(u)]
    BY Zenon DEF ClaimNext
  <1>2. us \in UnitRows /\ worker \in [Workers -> WorkerRow] /\ u \in Units
    BY <1>1, Tables, PromoteType DEF Claimable, IInv, TypeOK
  <1>3. Row(u).state = "leased" /\ Row(u).lease = LeaseDuration
    BY LeasedRow
  <1>4. Lane(u).pc = "claimed" /\ Lane(u).unit = u
    BY DEF Idle
  <1>5. \A v \in Units : us[v] = unit[v] \/ Promoted(unit[v], us[v])
    BY Tables, PromoteRow
  <1> HIDE DEF us, Row, Lane
  <1>6. unit'[u] = Row(u) /\ worker'[w] = Lane(u)
        /\ \A v \in Units \ {u} : unit'[v] = us[v]
    BY <1>1, <1>2 DEF UnitRows
  <1>7. QED
    BY <1>2, <1>3, <1>4, <1>5, <1>6

LEMMA StartedLane ==
    ASSUME IInv, NEW w \in Workers, MarkRunning(w)
    PROVE  worker'[w].pc = "executing" /\ worker'[w].unit = worker[w].unit
           /\ worker'[w].fence = worker[w].fence /\ worker'[w].deadline = Timeout
  <1>1. worker' = [worker EXCEPT ![w].pc = "executing", ![w].deadline = Timeout,
                                 ![w].mono = Timeout]
    BY DEF MarkRunning
  <1>2. worker \in [Workers -> WorkerRow]
    BY DEF IInv, TypeOK
  <1>3. QED
    BY <1>1, <1>2 DEF WorkerRow

\* A held row that stays held stays with its worker, unless it was lent.
LEMMA ClaimsStep ==
    ASSUME IInv, IInv', ClaimsTrue, [Next]_vars
    PROVE  ClaimsTrue'
  <1> SUFFICES ASSUME NEW w \in Workers, worker'[w].pc = "claimed", Matches(w)'
               PROVE  unit'[worker'[w].unit].state = "leased"
    BY DEF ClaimsTrue
  <1>1. CASE ClaimNext(w)
    BY <1>1, ClaimLeaves
  <1>2. CASE MarkRunning(w)
    BY <1>2, StartedLane
  <1>3. CASE CarriesOn(w)
    <2> DEFINE u == worker[w].unit
    <2>1. /\ worker[w].pc = "claimed" /\ u \in Units /\ worker'[w].unit = u
          /\ unit'[u].active = worker[w].fence /\ unit'[u].worker = w
      BY <1>3 DEF CarriesOn, Matches
    <2>2. unit'[u].state \in Held
      BY <2>1, WorkersAssumption DEF IInv, GoodTables, GoodUnit
    <2>3. UnitStep(u)
      BY <2>1, EveryStep
    <2>4. CASE Stays(unit[u], unit'[u])
      <3>1. Matches(w)
        BY <2>1, <2>4 DEF Stays, Matches
      <3>2. QED
        BY <2>1, <2>4, <3>1 DEF Stays, ClaimsTrue
    <2>5. CASE Started(unit[u], unit'[u])
      BY <2>1, <2>5 DEF Started
    <2>6. CASE Lent(u, unit[u], unit'[u])
      BY <2>1, <2>6 DEF Lent
    <2> HIDE DEF u
    <2>7. CASE Turned(u, unit[u], unit'[u])
      <3>1. Stays(unit[u], unit'[u])
        BY <2>2, <2>7 DEF Turned, Promoted, Unstarted, Unfinished, Finished,
           Dropped, Repaired, Held
      <3>2. QED
        BY <2>4, <3>1
    <2>8. QED
      BY <2>3, <2>4, <2>5, <2>6, <2>7 DEF UnitStep, Decided
  <1>4. QED
    BY <1>1, <1>2, <1>3, WorkerMoves

-----------------------------------------------------------------------------
(* What the rows of units promise.                                         *)

RowInv == IInv /\ ClaimsTrue /\ UnitsReady

LEMMA RowInductive ==
    ASSUME RowInv, [Next]_vars
    PROVE  RowInv'
  <1>1. IInv' /\ ClaimsTrue'
    BY Inductive, ClaimsStep DEF RowInv
  <1>2. \A u \in Units : Ready(u)'
    BY <1>1, EveryStep, ReadyStep DEF RowInv, UnitsReady
  <1>3. QED
    BY <1>1, <1>2 DEF RowInv, UnitsReady

LEMMA RowInit == Init => RowInv
  <1> SUFFICES ASSUME Init
               PROVE  RowInv
    OBVIOUS
  <1>1. IInv
    BY InitGood
  <1>2. ClaimsTrue
    BY DEF Init, ClaimsTrue, Idle
  <1>3. ASSUME NEW u \in Units
        PROVE  Ready(u)
    <2>1. /\ unit[u].state = "pending" /\ unit[u].tokens = 0 /\ unit[u].gen = 0
          /\ starts[u] = 0 /\ grants[u] = 0 /\ rev.gen = 0 /\ attempts[u] = <<>>
      BY DEF Init
    <2>2. Fence(u) = 0
      BY <2>1 DEF Fence
    <2>3. MaxAttempts \in Nat \ {0}
      BY PolicyAssumption
    <2>4. QED
      BY <2>1, <2>2, <2>3 DEF Ready, Claims, Answered, One, Least
  <1>4. QED
    BY <1>1, <1>2, <1>3 DEF RowInv, UnitsReady

LEMMA RowInvariance == Spec => []RowInv
  <1>1. Init => RowInv
    BY RowInit
  <1>2. RowInv /\ [Next]_vars => RowInv'
    BY RowInductive
  <1>3. QED
    BY <1>1, <1>2, PTL DEF Spec

\* No unit is started beyond its retry budget and the owner's decisions, and
\* one whose effect may not be replayed is started again only by a decision,
\* whatever expires, is handed back, or reports late.
THEOREM StartsAreAuthorised == Spec => []StartsAuthorised
  <1>1. RowInv => StartsAuthorised
    <2> SUFFICES ASSUME RowInv, NEW u \in Units
                 PROVE  /\ starts[u] <= MaxAttempts + grants[u]
                        /\ Effect[u] \in {"reconcilable", "manual_only"} =>
                              starts[u] <= 1 + grants[u]
      BY DEF StartsAuthorised
    <2>1. /\ unit[u].tokens \in Nat /\ starts[u] \in Nat /\ grants[u] \in Nat
          /\ Fence(u) \in Nat /\ MaxAttempts \in Nat
      BY PolicyAssumption, Tables, RowColumns DEF RowInv, IInv, TypeOK
    <2>2. /\ starts[u] + unit[u].tokens + One(unit[u].state = "leased")
               + One(Answered(unit[u], rev)) <= Least(Fence(u), MaxAttempts) + grants[u]
          /\ Effect[u] \in Unsafe =>
               starts[u] + unit[u].tokens + One(unit[u].state = "leased")
                 + One(Answered(unit[u], rev))
                 + One(unit[u].state = "pending" /\ unit[u].tokens = 0) <= 1 + grants[u]
      BY DEF RowInv, UnitsReady, Ready, Claims
    <2>3. QED
      BY <2>1, <2>2 DEF One, Least, Unsafe
  <1>2. QED
    BY <1>1, RowInvariance, PTL

\* Every step moves every unit along the graph of models.py, or takes one of
\* the three short cuts that its transactions document.
THEOREM UnitTransitionsAreLegal == Spec => UnitTransitionsLegal
  <1> DEFINE Legal(u) ==
               LET from == unit[u].state
                   to == unit'[u].state
               IN  from # to =>
                      \/ to \in UnitTransitions[from]
                      \/ from = "retry_wait" /\ to = "leased" /\ unit[u].wait <= 0
                      \/ from = "running" /\ to = "pending" /\ unit[u].lease <= 0
                      \/ /\ from = "needs_attention" /\ to = "leased"
                         /\ unit[u].gen < rev.gen
  <1>1. ASSUME RowInv, [Next]_vars, NEW u \in Units
        PROVE  Legal(u)
    <2>1. UnitStep(u) /\ Ready(u)
      BY <1>1, EveryStep DEF RowInv, UnitsReady
    <2>2. unit[u].state \in UnitState
      BY <1>1, Tables, RowColumns DEF RowInv
    <2>3. CASE Stays(unit[u], unit'[u])
      BY <2>3 DEF Stays
    <2>4. CASE Started(unit[u], unit'[u])
      BY <2>4 DEF Started, UnitTransitions
    <2>5. CASE Lent(u, unit[u], unit'[u])
      BY <2>5 DEF Lent, UnitTransitions
    <2>6. CASE Promoted(unit[u], unit'[u])
      BY <2>6 DEF Promoted, UnitTransitions
    <2>7. CASE Unstarted(u, unit[u], unit'[u])
      BY <2>7 DEF Unstarted, UnitTransitions
    <2>8. CASE Unfinished(u, unit[u], unit'[u])
      BY <2>8 DEF Unfinished, UnitTransitions
    <2>9. CASE Finished(unit[u], unit'[u])
      BY <2>9 DEF Finished, UnitTransitions
    <2>10. CASE Dropped(unit[u], unit'[u])
      BY <2>2, <2>10 DEF Dropped, UnitTransitions, UnitState, TerminalUnit
    <2>11. ~Repaired(u, unit[u], unit'[u])
      <3>1. unit[u].tokens \in Nat /\ Fence(u) \in Nat /\ MaxAttempts \in Nat
        BY <1>1, PolicyAssumption, Tables, RowColumns DEF RowInv
      <3>2. QED
        BY <2>1, <3>1 DEF Repaired, Exhausted, Ready
    <2> HIDE DEF Legal
    <2>12. QED
      BY <2>1, <2>3, <2>4, <2>5, <2>6, <2>7, <2>8, <2>9, <2>10, <2>11
         DEF UnitStep, Turned, Decided
  <1>2. RowInv /\ [Next]_vars => [\A u \in Units : Legal(u)]_vars
    BY <1>1
  <1>3. Spec => [][\A u \in Units : Legal(u)]_vars
    BY <1>2, RowInvariance, PTL DEF Spec
  <1>4. QED
    BY <1>3 DEF UnitTransitionsLegal

-----------------------------------------------------------------------------
(* What the state of the workload promises.                                *)

\* One edge of the workload graph, or an owner's request and the edge that
\* settles it.
Edge(from, to) ==
    \/ to = from
    \/ to \in WorkloadTransitions[from]
    \/ \E request \in {"pause_requested", "cancel_requested"} :
          /\ request \in WorkloadTransitions[from]
          /\ to \in WorkloadTransitions[request]

\* The step leads along the graph to a state that means what it says.
Sound == StatesMeanIt' /\ AttentionSurfaced' /\ Edge(workload, workload')

LEMMA NotQuietMeans ==
    ASSUME NEW w, w \notin QuietState, NEW us, NEW rs
    PROVE  Means(w, us, rs)
  BY DEF Means, QuietState, TerminalWorkload, Completed

\* A settlement takes an edge of the graph from the state it starts in.
LEMMA SettledEdge ==
    ASSUME NEW w \in WorkloadState, NEW v, NEW rows, NEW r,
           SettledTo(w, v, rows, r)
    PROVE  v = w \/ v \in WorkloadTransitions[w]
  BY DEF SettledTo, WorkloadState, WorkloadTransitions, TerminalWorkload, Completed

LEMMA SettleSound ==
    ASSUME IInv, NEW us \in UnitRows, NEW r \in RevisionRow, NEW at,
           NEW repair \in BOOLEAN, Settle(workload, us, r, at, repair),
           Means(workload, us, result')
    PROVE  Sound
  <1>1. workload \in WorkloadState
    BY Tables
  <1>2. StatesMeanIt' /\ AttentionSurfaced' /\ SettledTo(workload, workload', unit', r)
    BY <1>1, SettleMeans
  <1>3. QED
    BY <1>1, <1>2, SettledEdge DEF Sound, Edge

\* An owner's request, settled at once.
LEMMA RequestSound ==
    ASSUME IInv, NEW w \in {"pause_requested", "cancel_requested"},
           w \in WorkloadTransitions[workload], Settle(w, unit, rev, 0, FALSE)
    PROVE  Sound
  <1>1. w \in WorkloadState /\ unit \in UnitRows /\ rev \in RevisionRow
    BY Tables DEF WorkloadState
  <1>2. Means(w, unit, result')
    BY NotQuietMeans DEF QuietState, TerminalWorkload, Completed
  <1>3. StatesMeanIt' /\ AttentionSurfaced' /\ SettledTo(w, workload', unit', rev)
    BY <1>1, <1>2, SettleMeans
  <1>4. QED
    BY <1>1, <1>3, SettledEdge DEF Sound, Edge

\* A workload with a unit in a worker's hands is at work.
LEMMA HeldIsBusy ==
    ASSUME StatesMeanIt, NEW u \in Units, unit[u].state \in Held
    PROVE  workload \notin QuietState
  BY StatesMeans DEF Means, Active, Held

\* A release, settled.
LEMMA ReleaseSound ==
    ASSUME IInv, StatesMeanIt, NEW w \in Workers, Matches(w), NEW row \in UnitRow,
           NEW r \in RevisionRow, NEW at,
           Settle(workload, [unit EXCEPT ![worker[w].unit] = row], r, at, FALSE)
    PROVE  Sound
  <1> DEFINE us == [unit EXCEPT ![worker[w].unit] = row]
  <1>1. workload \notin QuietState
    BY MatchesHeld, HeldIsBusy
  <1>2. us \in UnitRows
    BY Tables DEF UnitRows
  <1> HIDE DEF us
  <1>3. Settle(workload, us, r, at, FALSE)
    BY DEF us
  <1>4. QED
    BY <1>1, <1>2, <1>3, NotQuietMeans, SettleSound

\* Nothing that the states speak of changes.
LEMMA SameSound ==
    ASSUME StatesMeanIt, AttentionSurfaced, UNCHANGED <<workload, unit, result>>,
           rev'.gen = rev.gen
    PROVE  Sound
  <1>1. StatesMeanIt'
    BY DEF StatesMeanIt, QuietStatesQuiet, StoppedIsDrained, CompletionSound, Active
  <1>2. AttentionSurfaced'
    BY DEF AttentionSurfaced
  <1>3. QED
    BY <1>1, <1>2 DEF Sound, Edge

\* A workload at work, whose units come to need no more attention than before.
LEMMA BusySound ==
    ASSUME AttentionSurfaced, workload \notin QuietState, workload' = workload,
           rev'.gen = rev.gen,
           \A v \in Units : unit'[v].state = "needs_attention" =>
              unit[v].state = "needs_attention" /\ unit[v].gen = unit'[v].gen
    PROVE  Sound
  <1>1. Means(workload', unit', result')
    BY NotQuietMeans
  <1>2. StatesMeanIt'
    BY <1>1 DEF StatesMeanIt, Means, QuietStatesQuiet, StoppedIsDrained,
         CompletionSound, QuietState, Active
  <1>3. AttentionSurfaced'
    BY DEF AttentionSurfaced
  <1>4. QED
    BY <1>2, <1>3 DEF Sound, Edge

LEMMA LaneSound ==
    ASSUME RowInv, StatesMeanIt, AttentionSurfaced, NEW w \in Workers, WorkerStep(w)
    PROVE  Sound
  <1> USE DEF RowInv
  <1>1. CASE ClaimNext(w)
    <2>1. workload \in {"queued", "running"} /\ workload' = "running"
      BY <1>1 DEF ClaimNext, MayClaim
    <2>2. rev'.gen = rev.gen
      <3>1. 0 \in Int
        OBVIOUS
      <3>2. rev' = Advance(rev, 0)
        BY <1>1 DEF ClaimNext
      <3>3. QED
        BY <3>1, <3>2, Tables, AdvanceType
    <2>3. \A v \in Units : unit'[v].state = "needs_attention" => unit'[v] = unit[v]
      BY <1>1, ClaimLeaves DEF Promoted
    <2>4. StatesMeanIt'
      BY <2>1 DEF StatesMeanIt, QuietStatesQuiet, StoppedIsDrained,
         CompletionSound, TerminalWorkload, Completed
    <2>5. AttentionSurfaced'
      BY <2>1, <2>2, <2>3 DEF AttentionSurfaced
    <2>6. Edge(workload, workload')
      BY <2>1 DEF Edge, WorkloadTransitions
    <2>7. QED
      BY <2>4, <2>5, <2>6 DEF Sound
  <1>2. CASE ClaimWithoutReservation(w)
    <2>1. workload \in {"queued", "running"} /\ workload' = "needs_attention"
      BY <1>2 DEF ClaimWithoutReservation, MayClaim
    <2>2. StatesMeanIt'
      BY <2>1 DEF StatesMeanIt, QuietStatesQuiet, StoppedIsDrained,
         CompletionSound, TerminalWorkload, Completed
    <2>3. AttentionSurfaced'
      BY <2>1 DEF AttentionSurfaced
    <2>4. Edge(workload, workload')
      BY <2>1 DEF Edge, WorkloadTransitions
    <2>5. QED
      BY <2>2, <2>3, <2>4 DEF Sound
  <1>3. CASE MarkRunning(w)
    <2>1. workload \notin QuietState /\ workload' = workload
      BY <1>3, MatchesHeld, HeldIsBusy DEF MarkRunning
    <2>2. ASSUME NEW v \in Units
          PROVE  /\ rev'.gen = rev.gen
                 /\ unit'[v].state = "needs_attention" =>
                     unit[v].state = "needs_attention" /\ unit[v].gen = unit'[v].gen
      BY <1>3, MarkStarts DEF Stays, Started
    <2>3. worker[w].unit \in Units
      BY <1>3 DEF MarkRunning, Matches
    <2>4. QED
      BY <2>1, <2>2, <2>3, BusySound
  <1>4. CASE Heartbeat(w)
    <2>1. workload \notin QuietState /\ workload' = workload /\ worker[w].unit \in Units
      BY <1>4, MatchesHeld, HeldIsBusy DEF Heartbeat
    <2>2. rev'.gen = rev.gen
      BY <1>4, <2>1, HeartbeatStays
    <2>3. ASSUME NEW v \in Units
          PROVE  unit'[v].state = unit[v].state /\ unit[v].gen = unit'[v].gen
      <3> DEFINE u == worker[w].unit
                 lease == RenewedExpiry(w)
      <3>1. unit' = [unit EXCEPT ![u].lease = lease]
        BY <1>4 DEF Heartbeat
      <3>2. unit \in [Units -> UnitRow]
        BY DEF IInv, TypeOK
      <3> HIDE DEF u, lease
      <3>3. QED
        BY <3>1, <3>2 DEF UnitRow
    <2>4. QED
      BY <2>1, <2>2, <2>3, BusySound
  <1>5. CASE \/ StartRefused(w) \/ HeartbeatFails(w) \/ DropResult(w)
             \/ RequestStop(w) \/ Restart(w)
    BY <1>5, SameSound DEF StartRefused, HeartbeatFails, DropResult, RequestStop,
       Restart
  <1>6. CASE CommitResult(w)
    <2> DEFINE u == worker[w].unit
               state == "committed"
               error == ""
               zero == 0
               row == Release(unit[u], state, zero, error, zero, rev)
               r == Advance(rev, 0)
    <2>1. Matches(w) /\ Settle(workload, [unit EXCEPT ![u] = row], r, 0, FALSE)
      BY <1>6, Zenon DEF CommitResult, Committed
    <2>2. r \in RevisionRow
      <3>1. zero \in Int
        OBVIOUS
      <3>2. QED
        BY <3>1, Tables, AdvanceType
    <2>3. row \in UnitRow
      <3>1. state \in UnitState
        BY Literals
      <3>2. error \in ErrorClass
        BY Literals
      <3>3. zero \in Int /\ zero \in {0, 1}
        OBVIOUS
      <3>4. unit[u] \in UnitRow
        BY <2>1, MatchesType DEF IInv
      <3> HIDE DEF u, state, error, zero
      <3>5. QED
        BY <3>1, <3>2, <3>3, <3>4, Tables, ReleaseType
    <2> HIDE DEF row, r
    <2>4. QED
      BY <2>1, <2>2, <2>3, ReleaseSound
  <1>7. ASSUME NEW class \in ErrorClass, NEW ended \in {"failed", "timed_out"},
               NEW at \in Int, FailAttempt(w, class, ended, at)
        PROVE  Sound
    <2>1. \E row \in UnitRow, r \in RevisionRow :
            Settle(workload, [unit EXCEPT ![worker[w].unit] = row], r, at, FALSE)
      BY <1>7, FailAttemptRow DEF IInv
    <2>2. Matches(w)
      BY <1>7 DEF FailAttempt
    <2>3. QED
      BY <2>1, <2>2, ReleaseSound
  <1>8. CASE RecordFailure(w)
    <2>1. PICK class \in ErrorClasses, ended \in {"failed", "timed_out"} :
             FailAttempt(w, class, ended, 0)
      BY <1>8 DEF RecordFailure
    <2>2. class \in ErrorClass
      BY <2>1, Literals
    <2>3. QED
      BY <1>7, <2>1, <2>2
  <1>9. CASE RecordTimeout(w)
    <2> DEFINE class == "executor_transient"
               ended == "timed_out"
               at == Greatest(0, worker[w].deadline)
    <2>1. FailAttempt(w, class, ended, at)
      BY <1>9 DEF RecordTimeout
    <2>2. class \in ErrorClass /\ ended \in {"failed", "timed_out"}
      BY Literals
    <2>3. at \in Int
      BY Tables DEF Greatest, WorkerRow
    <2> HIDE DEF class, ended, at
    <2>4. QED
      BY <1>7, <2>1, <2>2, <2>3
  <1>10. CASE AbandonAttempt(w)
    <2>1. \E row \in UnitRow, r \in RevisionRow :
            Settle(workload, [unit EXCEPT ![worker[w].unit] = row], r, 0, FALSE)
      BY <1>10, AbandonRow DEF IInv
    <2>2. Matches(w)
      BY <1>10 DEF AbandonAttempt
    <2>3. QED
      BY <2>1, <2>2, ReleaseSound
  <1>11. CASE HandBack(w)
    <2>1. AbandonAttempt(w) \/ UNCHANGED <<workload, unit, result, rev>>
      BY <1>11 DEF HandBack
    <2>2. QED
      BY <1>10, <2>1, SameSound
  <1>12. CASE ShutdownDue(w)
    BY <1>10, <1>12 DEF ShutdownDue
  <1>13. QED
    BY <1>1, <1>2, <1>3, <1>4, <1>5, <1>6, <1>8, <1>9, <1>11, <1>12 DEF WorkerStep

LEMMA OwnerSound ==
    ASSUME RowInv, StatesMeanIt, AttentionSurfaced, Owner
    PROVE  Sound
  <1> USE DEF RowInv
  <1>1. \A target : EnterState(rev, target).gen = rev.gen
    <2>1. 0 \in Int
      OBVIOUS
    <2>2. QED
      BY <2>1, Tables, AdvanceType DEF EnterState
  <1>2. ASSUME workload \in {"admitted", "queued", "paused"},
               workload' \in {"queued", "paused"}, unit' = unit, rev'.gen = rev.gen
        PROVE  StatesMeanIt' /\ AttentionSurfaced'
    <2>1. Active(unit) = {}
      BY <1>2 DEF StatesMeanIt, QuietStatesQuiet
    <2>2. Active(unit') = {}
      BY <1>2, <2>1
    <2>3. StatesMeanIt'
      BY <1>2, <2>2 DEF StatesMeanIt, QuietStatesQuiet, StoppedIsDrained,
         CompletionSound, Active
    <2>4. AttentionSurfaced'
      BY <1>2 DEF AttentionSurfaced
    <2>5. QED
      BY <2>3, <2>4
  <1>3. CASE Enqueue
    <2>1. /\ workload = "admitted" /\ workload' = "queued" /\ unit' = unit
          /\ rev'.gen = rev.gen
      BY <1>1, <1>3 DEF Enqueue
    <2>2. Edge(workload, workload')
      BY <2>1 DEF Edge, WorkloadTransitions
    <2>3. QED
      BY <1>2, <2>1, <2>2 DEF Sound
  <1>4. ASSUME NEW command \in {"pause", "resume", "cancel"}, Control(command)
        PROVE  Sound
    <2> DEFINE target == ControlTarget[command][workload]
    <2>1. workload \in DOMAIN ControlTarget[command]
      BY <1>4 DEF Control
    <2>2. /\ target \in {"pause_requested", "cancel_requested"} =>
                target \in WorkloadTransitions[workload]
          /\ target \in {"pause_requested", "cancel_requested"}
             \/ (workload = "queued" /\ target = "paused")
             \/ (workload = "paused" /\ target = "queued")
      BY <2>1 DEF ControlTarget, WorkloadTransitions
    <2>3. IF target \in {"pause_requested", "cancel_requested"}
          THEN Settle(target, unit, rev, 0, FALSE)
          ELSE workload' = target /\ rev' = EnterState(rev, target) /\ unit' = unit
      BY <1>4 DEF Control
    <2> HIDE DEF target
    <2>4. CASE target \in {"pause_requested", "cancel_requested"}
      BY <2>2, <2>3, <2>4, RequestSound
    <2>5. CASE target \notin {"pause_requested", "cancel_requested"}
      <3>1. /\ workload \in {"queued", "paused"} /\ workload' \in {"queued", "paused"}
            /\ unit' = unit /\ rev'.gen = rev.gen
        BY <1>1, <2>2, <2>3, <2>5
      <3>2. Edge(workload, workload')
        BY <3>1 DEF Edge, WorkloadTransitions
      <3>3. QED
        BY <1>2, <3>1, <3>2 DEF Sound
    <2>6. QED
      BY <2>4, <2>5
  <1>5. CASE ResolveRetry
    <2>1. /\ workload = "needs_attention" /\ unit' = unit
          /\ workload' = IF Active(unit) # {} THEN "running" ELSE "queued"
      BY <1>5 DEF ResolveRetry
    <2>2. ASSUME NEW u \in Units
          PROVE  unit'[u].gen < rev'.gen
      <3>1. Decided(u)
        BY <1>5, ResolveDecides
      <3>2. unit[u].gen <= rev.gen
        BY DEF UnitsReady, Ready
      <3>3. unit[u].gen \in Nat /\ rev.gen \in Nat
        BY Tables, RowColumns DEF RevisionRow
      <3>4. QED
        BY <2>1, <3>1, <3>2, <3>3 DEF Decided
    <2>3. AttentionSurfaced'
      <3> SUFFICES ASSUME NEW u \in Units, unit'[u].gen >= rev'.gen
                   PROVE  FALSE
        BY DEF AttentionSurfaced
      <3>1. IInv'
        BY <1>5, Inductive DEF Next, Owner
      <3>2. unit'[u].gen \in Nat /\ rev'.gen \in Nat
        BY <3>1 DEF IInv, TypeOK, UnitRow, RevisionRow
      <3>3. QED
        BY <2>2, <3>2
    <2>4. StatesMeanIt'
      BY <2>1 DEF StatesMeanIt, QuietStatesQuiet, StoppedIsDrained,
         CompletionSound, TerminalWorkload, Completed, Active
    <2>5. Edge(workload, workload')
      BY <2>1 DEF Edge, WorkloadTransitions
    <2>6. QED
      BY <2>3, <2>4, <2>5 DEF Sound
  <1>6. CASE ResolveCancel
    <2>1. workload = "needs_attention" /\ Settle("cancel_requested", unit, rev, 0, FALSE)
      BY <1>6 DEF ResolveCancel
    <2>2. "cancel_requested" \in WorkloadTransitions[workload]
      BY <2>1 DEF WorkloadTransitions
    <2>3. QED
      BY <2>1, <2>2, RequestSound
  <1>7. QED
    BY <1>3, <1>4, <1>5, <1>6 DEF Owner

LEMMA ReconcileSound ==
    ASSUME RowInv, StatesMeanIt, AttentionSurfaced, NEW B, B \subseteq Expired,
           NEW U, NEW P, P \subseteq Due(ReconciledRows(B, U)),
           ReconcileBatch(B, U, P)
    PROVE  Sound
  <1> USE DEF RowInv
  <1> DEFINE rows == ReconciledRows(B, U)
             us == Promote(rows, P)
             r == Advance([rev EXCEPT !.unknown = @ \/ U # {}], 0)
  <1>1. rows \in UnitRows /\ us \in UnitRows
    BY ReconciledRowsType, PromoteType DEF IInv
  <1>2. \/ B = {} /\ unit' = us /\ UNCHANGED <<workload, rev, result>>
        \/ B # {} /\ Settle(workload, us, r, 0, FALSE)
    BY Zenon DEF ReconcileBatch
  <1>3. CASE B # {} /\ Settle(workload, us, r, 0, FALSE)
    <2>1. PICK u \in B : u \in Units /\ unit[u].state \in Held
      BY <1>3 DEF Expired, Active, Held
    <2>2. workload \notin QuietState
      BY <2>1, HeldIsBusy
    <2>3. r \in RevisionRow
      <3>1. 0 \in Int /\ (U # {}) \in BOOLEAN
        OBVIOUS
      <3>2. QED
        BY <3>1, Tables, SameGeneration
    <2> HIDE DEF us, r
    <2>4. QED
      BY <1>1, <1>3, <2>2, <2>3, NotQuietMeans, SettleSound
  <1>4. CASE B = {} /\ unit' = us /\ UNCHANGED <<workload, rev, result>>
    <2>1. \A v \in Units : rows[v] = unit[v]
      BY <1>4 DEF ReconciledRows
    <2>2. \A v \in Units : unit'[v] = unit[v] \/ Promoted(unit[v], unit'[v])
      BY <1>1, <1>4, <2>1, PromoteRow
    <2>3. \A v \in Units :
             /\ unit'[v].state \in {"leased", "running", "needs_attention"} =>
                   unit'[v] = unit[v]
             /\ unit[v].state # "retry_wait" => unit'[v] = unit[v]
      BY <2>2 DEF Promoted
    <2> HIDE DEF us, rows
    <2>4. StatesMeanIt'
      BY <1>4, <2>3 DEF StatesMeanIt, QuietStatesQuiet, StoppedIsDrained,
         CompletionSound, Active, TerminalUnit
    <2>5. AttentionSurfaced'
      BY <1>4, <2>3 DEF AttentionSurfaced
    <2>6. QED
      BY <1>4, <2>4, <2>5 DEF Sound, Edge
  <1>5. QED
    BY <1>2, <1>3, <1>4

LEMMA ServiceSound ==
    ASSUME RowInv, StatesMeanIt, AttentionSurfaced, Service
    PROVE  Sound
  <1> USE DEF RowInv
  <1>1. CASE ReconcileExpired
    <2>1. PICK B \in Batches(Expired) :
             \E U, P : /\ P \subseteq Due(ReconciledRows(B, U))
                       /\ ReconcileBatch(B, U, P)
      BY <1>1 DEF ReconcileExpired
    <2>2. B \subseteq Expired
      BY DEF Batches
    <2>3. QED
      BY <2>1, <2>2, ReconcileSound
  <1>2. CASE SettleWorkloads
    <2>1. Settle(workload, unit, rev, 0, TRUE) /\ result' = result
      BY <1>2 DEF SettleWorkloads
    <2>2. Means(workload, unit, result')
      BY <2>1, StatesMeans
    <2>3. QED
      BY <2>1, <2>2, Tables, SettleSound
  <1>3. CASE CompleteReadyWorkloads
    <2>1. /\ workload = "running" /\ UnitsAccounted
          /\ workload' \in CompletionState /\ unit' = unit /\ result' = result
      BY <1>3 DEF CompleteReadyWorkloads, EvaluateCompletion
    <2>2. \A u \in Units : unit[u].state \in {"committed", "failed_permanent"}
      BY <2>1 DEF UnitsAccounted
    <2>3. workload' \in Completed
      BY <2>1 DEF CompletionState, Completed
    <2>4. StatesMeanIt'
      <3>1. QuietStatesQuiet'
        BY <2>1, <2>2 DEF QuietStatesQuiet, Active
      <3>2. StoppedIsDrained'
        BY <2>3 DEF StoppedIsDrained, Completed
      <3>3. CompletionSound'
        <4>1. workload' = "completed" => ~\E u \in Units : unit[u].state = "failed_permanent"
          BY <2>1 DEF CompletionState
        <4>2. QED
          BY <2>1, <4>1 DEF CompletionSound, UnitsAccounted
      <3>4. QED
        BY <3>1, <3>2, <3>3 DEF StatesMeanIt
    <2>5. AttentionSurfaced'
      BY <2>1, <2>2 DEF AttentionSurfaced
    <2>6. Edge(workload, workload')
      BY <2>1, <2>3 DEF Edge, WorkloadTransitions, Completed
    <2>7. QED
      BY <2>4, <2>5, <2>6 DEF Sound
  <1>4. QED
    BY <1>1, <1>2, <1>3 DEF Service

LEMMA ShiftSound ==
    ASSUME IInv, StatesMeanIt, AttentionSurfaced, NEW d \in Int, NEW m \in Int,
           Shift(d, m), UNCHANGED <<workload, result>>
    PROVE  Sound
  <1>1. ASSUME NEW v \in Units
        PROVE  /\ unit'[v].state = unit[v].state /\ unit'[v].gen = unit[v].gen
               /\ unit'[v].error = unit[v].error
    <2> DEFINE Move(t, by) == Greatest(t + by, -Horizon)
               row == unit[v]
               lease == IF v \in Active(unit) THEN Move(row.lease, d)
                        ELSE row.lease
               wait == IF row.state = "retry_wait" THEN Move(row.wait, d)
                       ELSE row.wait
    <2>1. unit'[v] = [row EXCEPT !.lease = lease, !.wait = wait]
      BY DEF Shift
    <2>2. row \in UnitRow
      BY Tables
    <2> HIDE DEF row, lease, wait
    <2>3. /\ unit'[v].state = row.state /\ unit'[v].gen = row.gen
          /\ unit'[v].error = row.error
      BY <2>1, <2>2 DEF UnitRow
    <2>4. QED
      BY <2>3 DEF row
  <1>2. rev'.gen = rev.gen
    <2> DEFINE skew == Greatest(rev.skew + d, -Horizon)
    <2>1. rev' = [rev EXCEPT !.skew = skew]
      BY DEF Shift
    <2>2. rev \in RevisionRow
      BY Tables
    <2> HIDE DEF skew
    <2>3. QED
      BY <2>1, <2>2 DEF RevisionRow
  <1>3. StatesMeanIt'
    BY <1>1 DEF StatesMeanIt, QuietStatesQuiet, StoppedIsDrained,
       CompletionSound, Active
  <1>4. AttentionSurfaced'
    BY <1>1, <1>2 DEF AttentionSurfaced
  <1>5. QED
    BY <1>3, <1>4 DEF Sound, Edge

LEMMA EveryStepSound ==
    ASSUME RowInv, StatesMeanIt, AttentionSurfaced, [Next]_vars
    PROVE  Sound
  <1>1. CASE \E w \in Workers : WorkerStep(w)
    BY <1>1, LaneSound
  <1>2. CASE Owner
    BY <1>2, OwnerSound
  <1>3. CASE Service
    BY <1>3, ServiceSound
  <1>4. CASE SpendBudget
    <2>1. UNCHANGED <<workload, unit, result>> /\ rev' = [rev EXCEPT !.spent = TRUE]
      BY <1>4 DEF SpendBudget
    <2>2. rev'.gen = rev.gen
      BY <2>1, Tables DEF RevisionRow, RowInv
    <2>3. QED
      BY <2>1, <2>2, SameSound
  <1>5. CASE Tick
    <2>1. Shift(-1, -1) /\ UNCHANGED <<workload, result>>
      BY <1>5 DEF Tick
    <2>2. QED
      BY <2>1, ShiftSound DEF RowInv
  <1>6. CASE \E d \in Jumps : JumpBack(d)
    <2>1. PICK d \in Jumps : JumpBack(d)
      BY <1>6
    <2>2. Shift(d, 0) /\ UNCHANGED <<workload, result>>
      BY <2>1 DEF JumpBack
    <2>3. d \in Int /\ 0 \in Int
      BY PolicyAssumption
    <2>4. QED
      BY <2>2, <2>3, ShiftSound DEF RowInv
  <1>7. CASE vars' = vars
    BY <1>7, SameSound DEF vars
  <1>8. QED
    BY <1>1, <1>2, <1>3, <1>4, <1>5, <1>6, <1>7 DEF Next, Environment

WorkloadInv == RowInv /\ StatesMeanIt /\ AttentionSurfaced

LEMMA WorkloadInit == Init => WorkloadInv
  <1> SUFFICES ASSUME Init
               PROVE  StatesMeanIt /\ AttentionSurfaced
    BY RowInit DEF WorkloadInv
  <1>1. workload = "admitted" /\ \A u \in Units : unit[u].state = "pending"
    BY DEF Init
  <1>2. QED
    BY <1>1 DEF StatesMeanIt, QuietStatesQuiet, StoppedIsDrained,
       CompletionSound, AttentionSurfaced, Active

LEMMA WorkloadInvariance == Spec => []WorkloadInv
  <1>1. Init => WorkloadInv
    BY WorkloadInit
  <1>2. WorkloadInv /\ [Next]_vars => WorkloadInv'
    BY RowInductive, EveryStepSound DEF WorkloadInv, Sound
  <1>3. QED
    BY <1>1, <1>2, PTL DEF Spec

\* The workload state never contradicts its units: quiet states hold no lease,
\* stopped ones are drained, completed ones have accounted for every unit.
THEOREM StatesMeanWhatTheySay == Spec => []StatesMeanIt
  <1>1. WorkloadInv => StatesMeanIt
    BY DEF WorkloadInv
  <1>2. QED
    BY <1>1, WorkloadInvariance, PTL

\* No unit is left pending without a claim that may take it, and none waits
\* for the owner while the workload does not say so.
THEOREM NoUnitIsStranded == Spec => []NothingStranded
  <1>1. WorkloadInv => NothingStranded
    <2> SUFFICES ASSUME WorkloadInv, NEW u \in Exhausted(unit)
                 PROVE  FALSE
      BY DEF WorkloadInv, NothingStranded, PendingIsClaimable
    <2>1. /\ u \in Units /\ unit[u].state = "pending" /\ unit[u].tokens = 0
          /\ Fence(u) >= MaxAttempts
      BY DEF Exhausted
    <2>2. Fence(u) < MaxAttempts \/ unit[u].tokens > 0
      BY <2>1 DEF WorkloadInv, RowInv, UnitsReady, Ready
    <2>3. Fence(u) \in Nat /\ MaxAttempts \in Nat
      BY <2>1, PolicyAssumption, Tables DEF WorkloadInv, RowInv
    <2>4. QED
      BY <2>1, <2>2, <2>3
  <1>2. QED
    BY <1>1, WorkloadInvariance, PTL

\* No transaction, and no settlement that ends one, derives a change of the
\* workload state that the graph of models.py forbids.
THEOREM TransitionsAreLegal == Spec => TransitionsLegal
  <1>1. WorkloadInv /\ [Next]_vars => [Edge(workload, workload')]_vars
    BY EveryStepSound DEF WorkloadInv, Sound
  <1>2. Spec => [][Edge(workload, workload')]_vars
    BY <1>1, WorkloadInvariance, PTL DEF Spec
  <1>3. QED
    BY <1>2 DEF TransitionsLegal, Edge

-----------------------------------------------------------------------------
(* What is over stays over.                                                *)

\* A workload whose model usage is lost has not been completed.
UsageKnown == rev.unknown => workload \notin Completed

\* No settlement completes a workload.
LEMMA SettleNeverCompletes ==
    ASSUME NEW w, w \notin Completed, NEW us, NEW r, NEW at, NEW repair,
           Settle(w, us, r, at, repair)
    PROVE  workload' \notin Completed
  <1>1. PICK B : workload' = Settled(w, us, r, at, B, repair).workload
    BY DEF Settle
  <1>2. \A v, rows : [workload |-> v, unit |-> rows].workload = v
    OBVIOUS
  <1>3. Settled(w, us, r, at, B, repair).workload
           \in {w, "cancelled", "needs_attention", "failed", "paused"}
    BY <1>2 DEF Settled
  <1>4. QED
    BY <1>1, <1>3 DEF Completed

\* Only evaluate_completion completes a workload.
LEMMA OnlyEvaluationCompletes ==
    ASSUME [Next]_vars, workload \notin Completed, workload' \in Completed
    PROVE  EvaluateCompletion
  <1>1. ASSUME NEW w \in Workers, WorkerStep(w)
        PROVE  FALSE
    <2>1. ~CommitResult(w)
      BY SettleNeverCompletes DEF CommitResult
    <2>2. \A class, ended, at : ~FailAttempt(w, class, ended, at)
      BY SettleNeverCompletes DEF FailAttempt
    <2>3. ~AbandonAttempt(w)
      BY SettleNeverCompletes DEF AbandonAttempt
    <2>4. ~(RecordFailure(w) \/ RecordTimeout(w))
      BY <2>2 DEF RecordFailure, RecordTimeout
    <2>5. workload' # workload
      OBVIOUS
    <2>6. ~(HandBack(w) \/ ShutdownDue(w))
      BY <2>3, <2>5 DEF HandBack, ShutdownDue
    <2>7. workload' \notin {"running", "needs_attention"}
      BY DEF Completed
    <2>8. QED
      BY <1>1, <2>1, <2>4, <2>5, <2>6, <2>7 DEF WorkerStep, ClaimNext,
         ClaimWithoutReservation, MarkRunning, StartRefused, Heartbeat,
         HeartbeatFails, DropResult, RequestStop, Restart
  <1>2. ASSUME Owner
        PROVE  FALSE
    <2>1. ASSUME NEW command \in {"pause", "resume", "cancel"}, Control(command)
          PROVE  FALSE
      <3>1. ControlTarget[command][workload] \notin Completed
        BY <2>1 DEF Control, ControlTarget, Completed
      <3>2. QED
        BY <2>1, <3>1, SettleNeverCompletes DEF Control
    <2>2. ~ResolveCancel
      <3>1. "cancel_requested" \notin Completed
        BY DEF Completed
      <3>2. QED
        BY <3>1, SettleNeverCompletes DEF ResolveCancel
    <2>3. ~(Enqueue \/ ResolveRetry)
      BY DEF Enqueue, ResolveRetry, Completed
    <2>4. QED
      BY <1>2, <2>1, <2>2, <2>3 DEF Owner
  <1>3. ASSUME Service
        PROVE  EvaluateCompletion
    <2>1. \A B, U, P : ~ReconcileBatch(B, U, P)
      BY SettleNeverCompletes DEF ReconcileBatch
    <2>2. ~SettleWorkloads
      BY SettleNeverCompletes DEF SettleWorkloads
    <2>3. QED
      BY <1>3, <2>1, <2>2 DEF Service, ReconcileExpired, CompleteReadyWorkloads
  <1>4. ~Environment
    BY DEF Environment, SpendBudget, Tick, JumpBack
  <1>5. QED
    BY <1>1, <1>2, <1>3, <1>4 DEF Next, vars

\* Nothing touches the attempts, the results or the accounting of a workload
\* without a unit in a worker's hands and nothing to claim.
LEMMA NothingTouchesTheOver ==
    ASSUME WorkloadInv, [Next]_vars, workload \in TerminalWorkload \cup {"paused"}
    PROVE  UNCHANGED <<attempts, result, starts>> /\ rev'.unknown = rev.unknown
  <1> USE DEF WorkloadInv, RowInv
  <1>1. Active(unit) = {}
    BY StatesMeans DEF Means, QuietState
  <1>2. \A w \in Workers : ~Matches(w)
    <2>1. SUFFICES ASSUME NEW w \in Workers, Matches(w)
                   PROVE  FALSE
      OBVIOUS
    <2>2. QED
      BY <1>1, <2>1, MatchesHeld DEF Active, Held
  <1>3. workload \notin {"queued", "running", "admitted", "needs_attention"}
    BY DEF TerminalWorkload, Completed
  <1>4. rev \in RevisionRow
    BY Tables
  <1>5. \A target : EnterState(rev, target).unknown = rev.unknown
    BY <1>4 DEF EnterState, Advance, RevisionRow
  <1>6. Advance(rev, 0).unknown = rev.unknown
    BY <1>4 DEF Advance, RevisionRow
  <1>7. ASSUME NEW w \in Workers, WorkerStep(w)
        PROVE  UNCHANGED <<attempts, result, starts, rev>>
    <2>1. ~Matches(w)
      BY <1>2
    <2>2. ~(ClaimNext(w) \/ ClaimWithoutReservation(w))
      BY <1>3 DEF ClaimNext, ClaimWithoutReservation, MayClaim
    <2>3. ~(MarkRunning(w) \/ Heartbeat(w) \/ CommitResult(w) \/ AbandonAttempt(w))
      BY <2>1 DEF MarkRunning, Heartbeat, CommitResult, AbandonAttempt
    <2>4. ~(RecordFailure(w) \/ RecordTimeout(w))
      BY <2>1 DEF RecordFailure, RecordTimeout, FailAttempt
    <2>5. QED
      BY <1>7, <2>2, <2>3, <2>4 DEF WorkerStep, StartRefused, HeartbeatFails,
         DropResult, HandBack, ShutdownDue, RequestStop, Restart
  <1>8. CASE Owner
    <2>1. ~(Enqueue \/ ResolveRetry \/ ResolveCancel)
      BY <1>3 DEF Enqueue, ResolveRetry, ResolveCancel
    <2>2. PICK command \in {"pause", "resume", "cancel"} : Control(command)
      BY <1>8, <2>1 DEF Owner
    <2>3. rev' = rev \/ \E target : rev' = EnterState(rev, target)
      BY <2>2 DEF Control, Settle
    <2>4. QED
      BY <1>5, <2>2, <2>3 DEF Control
  <1>9. CASE Service
    <2>1. ASSUME ReconcileExpired
          PROVE  UNCHANGED <<attempts, result, starts, rev>>
      <3>1. PICK B, U, P : B \in Batches(Expired) /\ ReconcileBatch(B, U, P)
        BY <2>1 DEF ReconcileExpired
      <3>2. B = {}
        BY <1>1, <3>1 DEF Batches, Expired
      <3>3. attempts' = [u \in Units |-> attempts[u]]
        BY <3>1, <3>2 DEF ReconcileBatch
      <3>4. attempts \in [Units -> Seq(AttemptState)]
        BY DEF IInv, TypeOK
      <3>5. QED
        BY <3>1, <3>2, <3>3, <3>4 DEF ReconcileBatch
    <2>2. QED
      BY <1>9, <2>1 DEF Service, SettleWorkloads, Settle,
         CompleteReadyWorkloads, EvaluateCompletion
  <1>10. CASE Environment
    BY <1>4, <1>10 DEF Environment, SpendBudget, Tick, JumpBack, Shift, RevisionRow
  <1>11. QED
    BY <1>7, <1>8, <1>9, <1>10 DEF Next, vars

LEMMA UsageKnownStep ==
    ASSUME WorkloadInv, UsageKnown, [Next]_vars
    PROVE  UsageKnown' /\ (rev.unknown => workload' \notin Completed)
  <1>1. CASE workload \in Completed
    <2>1. rev'.unknown = rev.unknown
      BY <1>1, NothingTouchesTheOver DEF TerminalWorkload
    <2>2. QED
      BY <1>1, <2>1 DEF UsageKnown
  <1>2. CASE workload \notin Completed /\ workload' \in Completed
    <2>1. EvaluateCompletion
      BY <1>2, OnlyEvaluationCompletes
    <2>2. rev' = rev /\ ~rev.unknown
      BY <2>1 DEF EvaluateCompletion, BudgetViolation
    <2>3. QED
      BY <2>2 DEF UsageKnown
  <1>3. CASE workload' \notin Completed
    BY <1>3 DEF UsageKnown
  <1>4. QED
    BY <1>1, <1>2, <1>3

\* Whatever workers, reconciler and owner do late, a workload that is paused
\* or has ended keeps its attempts and results, and one whose model usage was
\* lost is never completed (the fences of storage.py, evaluate_completion).
THEOREM WhatIsOverStaysOver == Spec => OverIsOver
  <1>1. Init => UsageKnown
    BY DEF Init, UsageKnown, Completed
  <1>2. WorkloadInv /\ UsageKnown /\ [Next]_vars => UsageKnown'
    BY UsageKnownStep
  <1>3. WorkloadInv /\ UsageKnown /\ [Next]_vars =>
          [/\ workload \in TerminalWorkload \cup {"paused"} =>
                UNCHANGED <<attempts, result, starts>>
           /\ rev.unknown => workload' \notin Completed]_vars
    BY UsageKnownStep, NothingTouchesTheOver
  <1>4. QED
    BY <1>1, <1>2, <1>3, WorkloadInvariance, PTL DEF Spec, OverIsOver

-----------------------------------------------------------------------------
(* How long a lease can last.                                              *)

\* A step that leaves alone what is still in a worker's hands after it, and
\* does not set the clock of the revision back.
Leaves(u) ==
    /\ unit'[u].state \in Held => unit'[u] = unit[u]
    /\ rev'.skew >= rev.skew

LEMMA AdvanceSkew ==
    ASSUME NEW r \in RevisionRow, NEW at \in Int, NEW x \in BOOLEAN
    PROVE  /\ Advance(r, at).skew >= r.skew /\ Advance(r, at).skew >= at
           /\ Advance([r EXCEPT !.unknown = @ \/ x], at).skew >= r.skew
  <1>1. ASSUME NEW s \in RevisionRow
        PROVE  Advance(s, at).skew >= s.skew /\ Advance(s, at).skew >= at
    <2> DEFINE skew == Greatest(s.skew, at)
    <2>1. s.skew \in Int
      BY DEF RevisionRow
    <2>2. skew >= s.skew /\ skew >= at
      BY <2>1 DEF Greatest
    <2>3. Advance(s, at) = [s EXCEPT !.skew = skew]
      BY DEF Advance
    <2> HIDE DEF skew
    <2>4. QED
      BY <2>2, <2>3 DEF RevisionRow
  <1> DEFINE t == [r EXCEPT !.unknown = @ \/ x]
  <1>2. t \in RevisionRow /\ t.skew = r.skew
    BY DEF RevisionRow
  <1> HIDE DEF t
  <1>3. Advance(t, at).skew >= r.skew
    BY <1>1, <1>2
  <1>4. QED
    BY <1>1, <1>3 DEF t

LEMMA SameLeaves ==
    ASSUME IInv, UNCHANGED <<unit, rev>>, NEW u \in Units
    PROVE  Leaves(u)
  <1>1. rev.skew \in Int
    BY Tables DEF RevisionRow
  <1>2. QED
    BY <1>1 DEF Leaves

\* A settlement never gives out a lease.
LEMMA SettleHeld ==
    ASSUME NEW w, NEW us \in UnitRows, NEW r \in RevisionRow, NEW at,
           NEW repair \in BOOLEAN, Settle(w, us, r, at, repair),
           NEW u \in Units, unit'[u].state \in Held
    PROVE  unit'[u] = us[u]
  BY SettleRow DEF SettledRow, Mended, Held

LEMMA ReleaseLeaves ==
    ASSUME IInv, NEW x \in Units, NEW row \in UnitRow, row.state \notin Held,
           NEW r \in RevisionRow, NEW at,
           Settle(workload, [unit EXCEPT ![x] = row], r, at, FALSE),
           NEW u \in Units, unit'[u].state \in Held
    PROVE  unit'[u] = unit[u]
  <1> DEFINE us == [unit EXCEPT ![x] = row]
  <1>1. us \in UnitRows
    BY Tables DEF UnitRows
  <1>2. us[u] = IF u = x THEN row ELSE unit[u]
    BY Tables DEF UnitRows
  <1> HIDE DEF us
  <1>3. Settle(workload, us, r, at, FALSE)
    BY DEF us
  <1>4. unit'[u] = us[u]
    BY <1>1, <1>3, SettleHeld
  <1>5. QED
    BY <1>2, <1>4

LEMMA FailLeaves ==
    ASSUME IInv, NEW w \in Workers, NEW class \in ErrorClass,
           NEW ended \in {"failed", "timed_out"}, NEW at \in Int,
           FailAttempt(w, class, ended, at), NEW u \in Units
    PROVE  Leaves(u)
  <1>1. rev'.skew >= rev.skew
    <2>1. \E unknown \in BOOLEAN :
            rev' = Advance([rev EXCEPT !.unknown = @ \/ unknown], at)
      BY Zenon DEF FailAttempt, MissingUsage, Settle
    <2>2. QED
      BY <2>1, Tables, AdvanceSkew
  <1>2. PICK row \in UnitRow, r \in RevisionRow :
          /\ row.state \in GivenBack
          /\ Settle(workload, [unit EXCEPT ![worker[w].unit] = row], r, at, FALSE)
    BY FailAttemptRow DEF IInv
  <1>3. row.state \notin Held /\ worker[w].unit \in Units
    BY <1>2 DEF GivenBack, Held, FailAttempt, Matches
  <1>4. unit'[u].state \in Held => unit'[u] = unit[u]
    BY <1>2, <1>3, ReleaseLeaves
  <1>5. QED
    BY <1>1, <1>4 DEF Leaves

LEMMA AbandonLeaves ==
    ASSUME IInv, NEW w \in Workers, AbandonAttempt(w), NEW u \in Units
    PROVE  Leaves(u)
  <1>1. rev'.skew >= rev.skew
    <2>1. \E unknown \in BOOLEAN :
            rev' = Advance([rev EXCEPT !.unknown = @ \/ unknown], 0)
      BY Zenon DEF AbandonAttempt, MissingUsage, Settle
    <2>2. 0 \in Int
      OBVIOUS
    <2>3. QED
      BY <2>1, <2>2, Tables, AdvanceSkew
  <1>2. PICK row \in UnitRow, r \in RevisionRow :
          /\ row.state \in GivenBack
          /\ Settle(workload, [unit EXCEPT ![worker[w].unit] = row], r, 0, FALSE)
    BY AbandonRow DEF IInv
  <1>3. row.state \notin Held /\ worker[w].unit \in Units
    BY <1>2 DEF GivenBack, Held, AbandonAttempt, Matches
  <1>4. unit'[u].state \in Held => unit'[u] = unit[u]
    BY <1>2, <1>3, ReleaseLeaves
  <1>5. QED
    BY <1>1, <1>4 DEF Leaves

LEMMA CommitLeaves ==
    ASSUME IInv, NEW w \in Workers, CommitResult(w), NEW u \in Units
    PROVE  Leaves(u)
  <1> DEFINE x == worker[w].unit
             state == "committed"
             error == ""
             zero == 0
             row == Release(unit[x], state, zero, error, zero, rev)
             r == Advance(rev, 0)
  <1>1. /\ Matches(w) /\ Settle(workload, [unit EXCEPT ![x] = row], r, 0, FALSE)
        /\ rev' = r
    BY Zenon DEF CommitResult, Committed, Settle
  <1>2. r \in RevisionRow /\ r.skew >= rev.skew
    <2>1. zero \in Int
      OBVIOUS
    <2>2. QED
      BY <2>1, Tables, AdvanceType, AdvanceSkew
  <1>3. row \in UnitRow /\ row.state = state
    <2>1. state \in UnitState
      BY Literals
    <2>2. error \in ErrorClass
      BY Literals
    <2>3. zero \in Int /\ zero \in {0, 1}
      OBVIOUS
    <2>4. unit[x] \in UnitRow
      BY <1>1, MatchesType DEF IInv
    <2> HIDE DEF x, state, error, zero
    <2>5. QED
      BY <2>1, <2>2, <2>3, <2>4, Tables, ReleaseType
  <1>4. state \notin Held
    BY DEF Held
  <1> HIDE DEF row, r, state
  <1>5. x \in Units
    BY <1>1 DEF Matches
  <1>6. unit'[u].state \in Held => unit'[u] = unit[u]
    BY <1>1, <1>2, <1>3, <1>4, <1>5, ReleaseLeaves
  <1>7. QED
    BY <1>1, <1>2, <1>6 DEF Leaves

LEMMA ReconcileLeaves ==
    ASSUME IInv, NEW B, B \subseteq Expired, NEW U, NEW P,
           P \subseteq Due(ReconciledRows(B, U)), ReconcileBatch(B, U, P),
           NEW u \in Units
    PROVE  Leaves(u)
  <1> DEFINE rows == ReconciledRows(B, U)
             us == Promote(rows, P)
             r == Advance([rev EXCEPT !.unknown = @ \/ U # {}], 0)
  <1>1. rows \in UnitRows /\ us \in UnitRows
    BY ReconciledRowsType, PromoteType DEF IInv
  <1>2. r \in RevisionRow /\ r.skew >= rev.skew
    <2>1. 0 \in Int /\ (U # {}) \in BOOLEAN
      OBVIOUS
    <2>2. QED
      BY <2>1, Tables, SameGeneration, AdvanceSkew
  <1>3. \/ unit' = us /\ rev' = rev
        \/ Settle(workload, us, r, 0, FALSE)
    BY Zenon DEF ReconcileBatch
  <1>4. us[u].state \in Held => us[u] = rows[u]
    BY <1>1, PromoteRow DEF Promoted, Held
  <1>5. rows[u].state \in Held => rows[u] = unit[u]
    <2>1. CASE u \notin B
      BY <2>1 DEF ReconciledRows
    <2>2. CASE u \in B
      <3>1. rows[u] = Reconciled(u, rev, u \in U)
        BY <2>2 DEF ReconciledRows
      <3>2. rows[u].state \in GivenBack
        BY <3>1, Tables, ReconciledType
      <3>3. QED
        BY <3>2 DEF GivenBack, Held
    <2>3. QED
      BY <2>1, <2>2
  <1> HIDE DEF us, rows, r
  <1>6. CASE unit' = us /\ rev' = rev
    <2>1. rev.skew \in Int
      BY Tables DEF RevisionRow
    <2>2. QED
      BY <1>4, <1>5, <1>6, <2>1 DEF Leaves
  <1>7. CASE Settle(workload, us, r, 0, FALSE)
    <2>1. rev' = r
      BY <1>7 DEF Settle
    <2>2. unit'[u].state \in Held => unit'[u] = us[u]
      BY <1>1, <1>2, <1>7, SettleHeld
    <2>3. QED
      BY <1>2, <1>4, <1>5, <2>1, <2>2 DEF Leaves
  <1>8. QED
    BY <1>3, <1>6, <1>7

LEMMA SettleLeaves ==
    ASSUME IInv, NEW w, NEW at, NEW repair \in BOOLEAN,
           Settle(w, unit, rev, at, repair), NEW u \in Units
    PROVE  Leaves(u)
  <1>1. rev' = rev /\ rev.skew \in Int
    BY Tables DEF Settle, RevisionRow
  <1>2. unit'[u].state \in Held => unit'[u] = unit[u]
    BY Tables, SettleHeld
  <1>3. QED
    BY <1>1, <1>2 DEF Leaves

\* A lane leaves what is held alone, or it claims, starts or renews.
LEMMA LaneLeaves ==
    ASSUME IInv, NEW w \in Workers, WorkerStep(w), NEW u \in Units,
           ~ClaimNext(w), ~MarkRunning(w), ~Heartbeat(w)
    PROVE  Leaves(u)
  <1>1. CASE ClaimWithoutReservation(w)
    <2>1. unit' = Promote(unit, Due(unit)) /\ rev' = rev
      BY <1>1 DEF ClaimWithoutReservation
    <2>2. unit'[u].state \in Held => unit'[u] = unit[u]
      BY <2>1, Tables, PromoteRow DEF Promoted, Held
    <2>3. rev.skew \in Int
      BY Tables DEF RevisionRow
    <2>4. QED
      BY <2>1, <2>2, <2>3 DEF Leaves
  <1>2. CASE \/ StartRefused(w) \/ HeartbeatFails(w) \/ DropResult(w)
             \/ RequestStop(w) \/ Restart(w)
    BY <1>2, SameLeaves DEF StartRefused, HeartbeatFails, DropResult, RequestStop,
       Restart
  <1>3. CASE CommitResult(w)
    BY <1>3, CommitLeaves
  <1>4. CASE RecordFailure(w)
    <2>1. PICK class \in ErrorClasses, ended \in {"failed", "timed_out"} :
             FailAttempt(w, class, ended, 0)
      BY <1>4 DEF RecordFailure
    <2>2. class \in ErrorClass
      BY <2>1, Literals
    <2>3. QED
      BY <2>1, <2>2, FailLeaves
  <1>5. CASE RecordTimeout(w)
    <2> DEFINE class == "executor_transient"
               ended == "timed_out"
               at == Greatest(0, worker[w].deadline)
    <2>1. FailAttempt(w, class, ended, at)
      BY <1>5 DEF RecordTimeout
    <2>2. class \in ErrorClass /\ ended \in {"failed", "timed_out"}
      BY Literals
    <2>3. at \in Int
      BY Tables DEF Greatest, WorkerRow
    <2> HIDE DEF class, ended, at
    <2>4. QED
      BY <2>1, <2>2, <2>3, FailLeaves
  <1>6. CASE HandBack(w)
    <2>1. AbandonAttempt(w) \/ UNCHANGED <<unit, rev>>
      BY <1>6 DEF HandBack
    <2>2. QED
      BY <2>1, AbandonLeaves, SameLeaves
  <1>7. CASE ShutdownDue(w)
    BY <1>7, AbandonLeaves DEF ShutdownDue
  <1>8. QED
    BY <1>1, <1>2, <1>3, <1>4, <1>5, <1>6, <1>7 DEF WorkerStep

LEMMA OwnerLeaves ==
    ASSUME IInv, Owner, NEW u \in Units
    PROVE  Leaves(u)
  <1>1. ASSUME NEW r \in RevisionRow, NEW target
        PROVE  EnterState(r, target).skew >= r.skew
    <2>1. 0 \in Int /\ TRUE \in BOOLEAN
      OBVIOUS
    <2>2. Advance(r, 0).skew >= r.skew
      BY <2>1, AdvanceSkew
    <2>3. r.skew >= r.skew
      BY DEF RevisionRow
    <2>4. EnterState(r, target) \in {Advance(r, 0), r}
      BY DEF EnterState
    <2>5. QED
      BY <2>2, <2>3, <2>4
  <1>2. CASE Enqueue
    BY <1>1, <1>2, Tables DEF Enqueue, Leaves
  <1>3. ASSUME NEW command \in {"pause", "resume", "cancel"}, Control(command)
        PROVE  Leaves(u)
    <2> DEFINE target == ControlTarget[command][workload]
    <2>1. \/ Settle(target, unit, rev, 0, FALSE)
          \/ unit' = unit /\ rev' = EnterState(rev, target)
      BY <1>3 DEF Control
    <2> HIDE DEF target
    <2>2. QED
      BY <1>1, <2>1, Tables, SettleLeaves DEF Leaves
  <1>4. CASE ResolveRetry
    <2> DEFINE gen == rev.gen + 1
               r == [rev EXCEPT !.gen = gen]
    <2>1. unit' = unit /\ rev' = EnterState(r, workload')
      BY <1>4 DEF ResolveRetry
    <2>2. r \in RevisionRow /\ r.skew = rev.skew
      <3>1. rev \in RevisionRow /\ rev.gen \in Nat
        BY Tables DEF RevisionRow
      <3>2. gen \in Nat
        BY <3>1
      <3> HIDE DEF gen
      <3>3. QED
        BY <3>1, <3>2 DEF RevisionRow
    <2> HIDE DEF r
    <2>3. QED
      BY <1>1, <2>1, <2>2 DEF Leaves
  <1>5. CASE ResolveCancel
    BY <1>5, SettleLeaves DEF ResolveCancel
  <1>6. QED
    BY <1>2, <1>3, <1>4, <1>5 DEF Owner

LEMMA ServiceLeaves ==
    ASSUME IInv, Service, NEW u \in Units
    PROVE  Leaves(u)
  <1>1. CASE ReconcileExpired
    <2>1. PICK B \in Batches(Expired) :
             \E U, P : /\ P \subseteq Due(ReconciledRows(B, U))
                       /\ ReconcileBatch(B, U, P)
      BY <1>1 DEF ReconcileExpired
    <2>2. B \subseteq Expired
      BY DEF Batches
    <2>3. QED
      BY <2>1, <2>2, ReconcileLeaves
  <1>2. CASE SettleWorkloads
    BY <1>2, SettleLeaves DEF SettleWorkloads
  <1>3. CASE CompleteReadyWorkloads
    BY <1>3, SameLeaves DEF CompleteReadyWorkloads, EvaluateCompletion
  <1>4. QED
    BY <1>1, <1>2, <1>3 DEF Service

LeaseInv == WorkloadInv /\ LeasesNoted /\ DeadlinesKept

\* Leases that are left alone keep their bounds.
LEMMA LeavesBounds ==
    ASSUME LeaseInv, IInv', \A u \in Units : Leaves(u),
           \A w \in Workers : worker'[w].pc = "executing" => Keeps(w)
    PROVE  LeasesNoted' /\ DeadlinesKept'
  <1>1. rev.skew \in Int /\ rev'.skew \in Int /\ LeaseDuration \in Nat
    BY PolicyAssumption, Tables DEF LeaseInv, WorkloadInv, RowInv, IInv, TypeOK, RevisionRow
  <1>2. LeasesNoted'
    <2> SUFFICES ASSUME NEW u \in Units, unit'[u].state \in Held
                 PROVE  unit'[u].lease <= LeaseDuration + rev'.skew
      BY DEF LeasesNoted, Active, Held
    <2>1. unit'[u] = unit[u] /\ rev'.skew >= rev.skew
      BY DEF Leaves
    <2>2. unit[u].lease <= LeaseDuration + rev.skew
      BY <2>1 DEF LeaseInv, LeasesNoted, Active, Held
    <2>3. unit[u].lease \in Int
      BY Tables, RowColumns DEF LeaseInv, WorkloadInv, RowInv
    <2>4. QED
      BY <1>1, <2>1, <2>2, <2>3
  <1>3. DeadlinesKept'
    <2> SUFFICES ASSUME NEW w \in Workers, worker'[w].pc = "executing", Matches(w)'
                 PROVE  unit'[worker'[w].unit].lease <= worker'[w].deadline
      BY DEF DeadlinesKept
    <2> DEFINE u == worker[w].unit
    <2>1. /\ worker[w].pc = "executing" /\ worker'[w].unit = u
          /\ worker'[w].fence = worker[w].fence
          /\ worker'[w].deadline = worker[w].deadline
      BY DEF Keeps, CarriesOn
    <2>2. u \in Units /\ unit'[u].active = worker[w].fence /\ unit'[u].worker = w
      BY <2>1 DEF Matches
    <2>3. unit'[u].state \in Held
      BY <2>2, WorkersAssumption DEF IInv, GoodTables, GoodUnit
    <2>4. unit'[u] = unit[u]
      BY <2>2, <2>3 DEF Leaves
    <2>5. Matches(w)
      BY <2>2, <2>4 DEF Matches
    <2>6. QED
      BY <2>1, <2>4, <2>5 DEF LeaseInv, DeadlinesKept
  <1>4. QED
    BY <1>2, <1>3

\* claim_next: the new lease starts with its duration, now.
LEMMA ClaimBounds ==
    ASSUME LeaseInv, IInv', NEW x \in Workers, ClaimNext(x)
    PROVE  LeasesNoted' /\ DeadlinesKept'
  <1>1. IInv
    BY DEF LeaseInv, WorkloadInv, RowInv
  <1>2. rev'.skew >= rev.skew /\ rev'.skew >= 0
    <2>1. 0 \in Int /\ TRUE \in BOOLEAN
      OBVIOUS
    <2>2. rev' = Advance(rev, 0)
      BY DEF ClaimNext
    <2>3. QED
      BY <1>1, <2>1, <2>2, Tables, AdvanceSkew
  <1>3. rev.skew \in Int /\ rev'.skew \in Int /\ LeaseDuration \in Nat
    BY PolicyAssumption, <1>1, Tables DEF IInv, TypeOK, RevisionRow
  <1>4. PICK y \in Units :
          /\ unit'[y].state = "leased" /\ unit'[y].lease = LeaseDuration
          /\ worker'[x].pc = "claimed" /\ worker'[x].unit = y
          /\ \A v \in Units \ {y} :
                unit'[v] = unit[v] \/ Promoted(unit[v], unit'[v])
    BY <1>1, ClaimLeaves
  <1>5. \A v \in Units \ {y} : unit'[v].state \in Held => unit'[v] = unit[v]
    BY <1>4 DEF Promoted, Held
  <1>6. unit'[y].worker = x
    <2> DEFINE us == Promote(unit, Due(unit))
               Row(u) == Leased(us[u], x, Fence(u) + 1, rev)
               Lane(u) == [Idle EXCEPT !.pc = "claimed", !.unit = u,
                               !.fence = Fence(u) + 1, !.manual = ManualRetry(us[u])]
    <2>1. PICK u \in Claimable(us, rev) :
            /\ unit' = [us EXCEPT ![u] = Row(u)]
            /\ worker' = [worker EXCEPT ![x] = Lane(u)]
      BY Zenon DEF ClaimNext
    <2>2. us \in UnitRows /\ worker \in [Workers -> WorkerRow] /\ u \in Units
      BY <1>1, <2>1, Tables, PromoteType DEF Claimable, IInv, TypeOK
    <2>3. Row(u).worker = x
      BY LeasedRow
    <2>4. Lane(u).unit = u
      BY DEF Idle
    <2> HIDE DEF us, Row, Lane
    <2>5. unit'[u] = Row(u) /\ worker'[x] = Lane(u)
      BY <2>1, <2>2 DEF UnitRows
    <2>6. QED
      BY <1>4, <2>3, <2>4, <2>5
  <1>7. LeasesNoted'
    <2> SUFFICES ASSUME NEW u \in Units, unit'[u].state \in Held
                 PROVE  unit'[u].lease <= LeaseDuration + rev'.skew
      BY DEF LeasesNoted, Active, Held
    <2>1. CASE u = y
      BY <1>2, <1>3, <1>4, <2>1
    <2>2. CASE u # y
      <3>1. unit'[u] = unit[u]
        BY <1>5, <2>2
      <3>2. unit[u].lease <= LeaseDuration + rev.skew
        BY <3>1 DEF LeaseInv, LeasesNoted, Active, Held
      <3>3. unit[u].lease \in Int
        BY <1>1, Tables, RowColumns
      <3>4. QED
        BY <1>2, <1>3, <3>1, <3>2, <3>3
    <2>3. QED
      BY <2>1, <2>2
  <1>8. DeadlinesKept'
    <2> SUFFICES ASSUME NEW w \in Workers, worker'[w].pc = "executing", Matches(w)'
                 PROVE  unit'[worker'[w].unit].lease <= worker'[w].deadline
      BY DEF DeadlinesKept
    <2>1. w # x
      BY <1>4
    <2>2. worker'[w] = worker[w]
      <3>1. PICK row : worker' = [worker EXCEPT ![x] = row]
        BY Zenon DEF ClaimNext
      <3>2. worker \in [Workers -> WorkerRow]
        BY <1>1 DEF IInv, TypeOK
      <3>3. QED
        BY <2>1, <3>1, <3>2
    <2> DEFINE u == worker[w].unit
    <2>3. u \in Units /\ unit'[u].active = worker[w].fence /\ unit'[u].worker = w
      BY <2>2 DEF Matches
    <2>4. u # y
      BY <1>6, <2>1, <2>3
    <2>5. unit'[u].state \in Held
      BY <2>3, WorkersAssumption DEF IInv, GoodTables, GoodUnit
    <2>6. unit'[u] = unit[u]
      BY <1>5, <2>3, <2>4, <2>5
    <2>7. Matches(w)
      BY <2>3, <2>6 DEF Matches
    <2>8. QED
      BY <2>2, <2>6, <2>7 DEF LeaseInv, DeadlinesKept
  <1>9. QED
    BY <1>7, <1>8

\* mark_running and the heartbeat set the lease of the worker that they run
\* for; it is no longer than its duration and ends by the deadline.
LEMMA RenewalBounds ==
    ASSUME LeaseInv, IInv', NEW x \in Workers, Matches(x), NEW row \in UnitRow,
           unit' = [unit EXCEPT ![worker[x].unit] = row],
           row.worker = x, rev' = Advance(rev, 0),
           row.lease <= unit[worker[x].unit].lease \/ row.lease <= LeaseDuration,
           worker'[x].pc = "executing", worker'[x].unit = worker[x].unit,
           row.lease <= worker'[x].deadline,
           \A w \in Workers \ {x} : worker'[w] = worker[w]
    PROVE  LeasesNoted' /\ DeadlinesKept'
  <1> DEFINE y == worker[x].unit
  <1>1. IInv
    BY DEF LeaseInv, WorkloadInv, RowInv
  <1>2. rev'.skew >= rev.skew /\ rev'.skew >= 0
    <2>1. 0 \in Int /\ TRUE \in BOOLEAN
      OBVIOUS
    <2>2. QED
      BY <1>1, <2>1, Tables, AdvanceSkew
  <1>3. rev.skew \in Int /\ rev'.skew \in Int /\ LeaseDuration \in Nat
    BY PolicyAssumption, <1>1, Tables DEF IInv, TypeOK, RevisionRow
  <1>4. y \in Units /\ unit[y].state \in Held
    BY <1>1, MatchesHeld
  <1>5. unit'[y] = row /\ \A v \in Units \ {y} : unit'[v] = unit[v]
    BY <1>1, <1>4, Tables DEF UnitRows
  <1>6. LeasesNoted'
    <2> SUFFICES ASSUME NEW u \in Units, unit'[u].state \in Held
                 PROVE  unit'[u].lease <= LeaseDuration + rev'.skew
      BY DEF LeasesNoted, Active, Held
    <2>1. unit[u].state \in Held => unit[u].lease <= LeaseDuration + rev.skew
      BY DEF LeaseInv, LeasesNoted, Active, Held
    <2>2. unit[u].lease \in Int /\ row.lease \in Int
      BY <1>1, Tables, RowColumns
    <2>3. CASE u = y
      BY <1>2, <1>3, <1>4, <1>5, <2>1, <2>2, <2>3
    <2>4. CASE u # y
      BY <1>2, <1>3, <1>5, <2>1, <2>2, <2>4
    <2>5. QED
      BY <2>3, <2>4
  <1>7. DeadlinesKept'
    <2> SUFFICES ASSUME NEW w \in Workers, worker'[w].pc = "executing", Matches(w)'
                 PROVE  unit'[worker'[w].unit].lease <= worker'[w].deadline
      BY DEF DeadlinesKept
    <2>1. CASE w = x
      BY <1>5, <2>1
    <2>2. CASE w # x
      <3> DEFINE u == worker[w].unit
      <3>1. worker'[w] = worker[w]
        BY <2>2
      <3>2. u \in Units /\ unit'[u].active = worker[w].fence /\ unit'[u].worker = w
        BY <3>1 DEF Matches
      <3>3. u # y
        BY <1>5, <2>2, <3>2
      <3>4. unit'[u] = unit[u]
        BY <1>5, <3>2, <3>3
      <3>5. Matches(w)
        BY <3>2, <3>4 DEF Matches
      <3>6. QED
        BY <3>1, <3>4, <3>5 DEF LeaseInv, DeadlinesKept
    <2>3. QED
      BY <2>1, <2>2
  <1>8. QED
    BY <1>6, <1>7

LEMMA MarkBounds ==
    ASSUME LeaseInv, IInv', NEW x \in Workers, MarkRunning(x)
    PROVE  LeasesNoted' /\ DeadlinesKept'
  <1> DEFINE y == worker[x].unit
             old == unit[y]
             state == "running"
             lease == Least(old.lease, Timeout)
             row == [old EXCEPT !.state = state, !.lease = lease]
  <1>1. IInv
    BY DEF LeaseInv, WorkloadInv, RowInv
  <1>2. Matches(x) /\ y \in Units /\ old \in UnitRow /\ old.worker = x
    BY <1>1, MatchesType DEF MarkRunning, Matches, IInv
  <1>3. lease \in Int /\ lease <= old.lease /\ lease <= Timeout
    BY <1>2, RowColumns, PolicyAssumption DEF Least
  <1>4. unit' = [unit EXCEPT ![y] = row] /\ rev' = Advance(rev, 0)
    BY Zenon DEF MarkRunning
  <1>5. /\ worker'[x].pc = "executing" /\ worker'[x].unit = y
        /\ worker'[x].deadline = Timeout
    BY <1>1, StartedLane
  <1>6. \A w \in Workers \ {x} : worker'[w] = worker[w]
    <2>1. PICK lane : worker' = [worker EXCEPT ![x] = lane]
      BY Zenon DEF MarkRunning
    <2>2. worker \in [Workers -> WorkerRow]
      BY <1>1 DEF IInv, TypeOK
    <2>3. QED
      BY <2>1, <2>2
  <1>7. row \in UnitRow /\ row.worker = x /\ row.lease = lease
    <2>1. state \in UnitState
      BY Literals
    <2> HIDE DEF old, state, lease
    <2>2. QED
      BY <1>2, <1>3, <2>1 DEF UnitRow
  <1> HIDE DEF row, lease
  <1>8. row.lease <= old.lease /\ row.lease <= worker'[x].deadline
    BY <1>3, <1>5, <1>7
  <1>9. QED
    BY <1>2, <1>4, <1>5, <1>6, <1>7, <1>8, RenewalBounds

LEMMA HeartbeatBounds ==
    ASSUME LeaseInv, IInv', NEW x \in Workers, Heartbeat(x)
    PROVE  LeasesNoted' /\ DeadlinesKept'
  <1> DEFINE y == worker[x].unit
             old == unit[y]
             lease == RenewedExpiry(x)
             row == [old EXCEPT !.lease = lease]
  <1>1. IInv
    BY DEF LeaseInv, WorkloadInv, RowInv
  <1>2. Matches(x) /\ y \in Units /\ old \in UnitRow /\ old.worker = x
    BY <1>1, MatchesType DEF Heartbeat, Matches, IInv
  <1>3. lease \in Int /\ lease <= LeaseDuration /\ lease <= worker[x].deadline
    BY <1>1, Tables, PolicyAssumption DEF RenewedExpiry, Least, WorkerRow
  <1>4. unit' = [unit EXCEPT ![y] = row] /\ rev' = Advance(rev, 0)
    BY Zenon DEF Heartbeat
  <1>5. worker' = worker /\ worker[x].pc = "executing"
    BY DEF Heartbeat
  <1>6. row \in UnitRow /\ row.worker = x /\ row.lease = lease
    <2> HIDE DEF old, lease
    <2>1. QED
      BY <1>2, <1>3 DEF UnitRow
  <1> HIDE DEF row, lease
  <1>7. row.lease <= LeaseDuration /\ row.lease <= worker'[x].deadline
    BY <1>3, <1>5, <1>6
  <1>8. QED
    BY <1>2, <1>4, <1>5, <1>6, <1>7, RenewalBounds

\* Time passes, or the wall clock is set back, for lease, deadline and high
\* water alike.
LEMMA ShiftBounds ==
    ASSUME LeaseInv, NEW d \in Int, NEW m \in Int, Shift(d, m)
    PROVE  LeasesNoted' /\ DeadlinesKept'
  <1> DEFINE Move(t) == Greatest(t + d, -Horizon)
  <1>1. IInv
    BY DEF LeaseInv, WorkloadInv, RowInv
  <1>2. Horizon \in Nat /\ LeaseDuration \in Nat
    BY PolicyAssumption
  <1>3. ASSUME NEW s \in Int, NEW t \in Int, NEW n \in Nat, s <= n + t
        PROVE  Move(s) <= n + Move(t)
    BY <1>2, <1>3 DEF Greatest
  <1>4. ASSUME NEW u \in Units
        PROVE  /\ unit'[u].state = unit[u].state /\ unit'[u].active = unit[u].active
               /\ unit'[u].worker = unit[u].worker
               /\ u \in Active(unit) => unit'[u].lease = Move(unit[u].lease)
    <2> DEFINE row == unit[u]
               lease == IF u \in Active(unit) THEN Move(row.lease)
                        ELSE row.lease
               wait == IF row.state = "retry_wait" THEN Move(row.wait)
                       ELSE row.wait
    <2>1. unit'[u] = [row EXCEPT !.lease = lease, !.wait = wait]
      BY DEF Shift
    <2>2. row \in UnitRow
      BY <1>1, Tables
    <2>3. u \in Active(unit) => lease = Move(row.lease)
      OBVIOUS
    <2> HIDE DEF row, lease, wait, Move
    <2>4. /\ unit'[u].state = row.state /\ unit'[u].active = row.active
          /\ unit'[u].worker = row.worker /\ unit'[u].lease = lease
      BY <2>1, <2>2 DEF UnitRow
    <2>5. QED
      BY <2>3, <2>4 DEF row
  <1>5. rev'.skew = Move(rev.skew)
    <2> DEFINE skew == Move(rev.skew)
    <2>1. rev' = [rev EXCEPT !.skew = skew]
      BY DEF Shift
    <2>2. rev \in RevisionRow
      BY <1>1, Tables
    <2> HIDE DEF skew
    <2>3. rev'.skew = skew
      BY <2>1, <2>2 DEF RevisionRow
    <2>4. QED
      BY <2>3 DEF skew
  <1>6. rev.skew \in Int
    BY <1>1, Tables DEF RevisionRow
  <1> HIDE DEF Move
  <1>7. LeasesNoted'
    <2> SUFFICES ASSUME NEW u \in Units, unit'[u].state \in Held
                 PROVE  unit'[u].lease <= LeaseDuration + rev'.skew
      BY DEF LeasesNoted, Active, Held
    <2>1. u \in Active(unit)
      BY <1>4 DEF Active, Held
    <2>2. unit[u].lease <= LeaseDuration + rev.skew /\ unit[u].lease \in Int
      BY <1>1, <2>1, Tables, RowColumns DEF LeaseInv, LeasesNoted
    <2>3. Move(unit[u].lease) <= LeaseDuration + Move(rev.skew)
      BY <1>2, <1>3, <1>6, <2>2
    <2>4. QED
      BY <1>4, <1>5, <2>1, <2>3
  <1>8. DeadlinesKept'
    <2> SUFFICES ASSUME NEW w \in Workers, worker'[w].pc = "executing", Matches(w)'
                 PROVE  unit'[worker'[w].unit].lease <= worker'[w].deadline
      BY DEF DeadlinesKept
    <2> DEFINE u == worker[w].unit
    <2>1. CarriesOn(w)
      BY <1>1, ShiftMoves
    <2>2. /\ worker[w].pc = "executing" /\ worker'[w].unit = u
          /\ worker'[w].fence = worker[w].fence
      BY <2>1 DEF CarriesOn
    <2>3. worker'[w].deadline = Move(worker[w].deadline)
      BY <1>1, <2>2, ShiftMoves DEF Move
    <2>4. u \in Units
      BY <2>2 DEF Matches
    <2>5. Matches(w)
      BY <1>4, <2>2, <2>4 DEF Matches
    <2>6. u \in Active(unit)
      BY <1>1, <2>5, MatchesHeld DEF Active, Held
    <2>7. unit[u].lease <= worker[w].deadline
      BY <2>2, <2>5 DEF LeaseInv, DeadlinesKept
    <2>8. unit[u].lease \in Int /\ worker[w].deadline \in Int
      BY <1>1, <2>4, Tables, RowColumns DEF WorkerRow
    <2>9. Move(unit[u].lease) <= Move(worker[w].deadline)
      <3>1. unit[u].lease <= 0 + worker[w].deadline
        BY <2>7, <2>8
      <3>2. Move(worker[w].deadline) \in Int
        BY <1>2, <2>8 DEF Move, Greatest
      <3>3. Move(unit[u].lease) <= 0 + Move(worker[w].deadline)
        BY <1>3, <2>8, <3>1
      <3>4. QED
        BY <3>2, <3>3
    <2>10. QED
      BY <1>4, <2>2, <2>3, <2>4, <2>6, <2>9
  <1>9. QED
    BY <1>7, <1>8

LEMMA BoundsInductive ==
    ASSUME LeaseInv, [Next]_vars
    PROVE  LeaseInv'
  <1>1. IInv /\ IInv' /\ WorkloadInv'
    BY RowInductive, EveryStepSound DEF LeaseInv, WorkloadInv, RowInv, Sound
  <1> SUFFICES LeasesNoted' /\ DeadlinesKept'
    BY <1>1 DEF LeaseInv
  <1>2. ASSUME \A u \in Units : Leaves(u), worker' = worker
        PROVE  LeasesNoted' /\ DeadlinesKept'
    <2>1. \A w \in Workers : Keeps(w)
      BY <1>2 DEF Keeps, CarriesOn
    <2>2. QED
      BY <1>1, <1>2, <2>1, LeavesBounds
  <1>3. ASSUME NEW w \in Workers, WorkerStep(w)
        PROVE  LeasesNoted' /\ DeadlinesKept'
    <2>1. CASE ClaimNext(w)
      BY <1>1, <2>1, ClaimBounds
    <2>2. CASE MarkRunning(w)
      BY <1>1, <2>2, MarkBounds
    <2>3. CASE Heartbeat(w)
      BY <1>1, <2>3, HeartbeatBounds
    <2>4. CASE ~ClaimNext(w) /\ ~MarkRunning(w) /\ ~Heartbeat(w)
      <3>1. \A u \in Units : Leaves(u)
        BY <1>1, <1>3, <2>4, LaneLeaves
      <3>2. \A x \in Workers : worker'[x].pc = "idle" \/ Keeps(x)
        BY <1>1, <1>3, <2>4, LaneMoves
      <3>3. \A x \in Workers : worker'[x].pc = "executing" => Keeps(x)
        BY <3>2
      <3>4. QED
        BY <1>1, <3>1, <3>3, LeavesBounds
    <2>5. QED
      BY <2>1, <2>2, <2>3, <2>4
  <1>4. CASE Owner
    <2>1. worker' = worker
      BY <1>4 DEF Owner, Enqueue, Control, ResolveRetry, ResolveCancel
    <2>2. QED
      BY <1>1, <1>2, <1>4, <2>1, OwnerLeaves
  <1>5. CASE Service
    <2>1. worker' = worker
      BY <1>5 DEF Service, ReconcileExpired, ReconcileBatch,
         SettleWorkloads, CompleteReadyWorkloads, EvaluateCompletion
    <2>2. QED
      BY <1>1, <1>2, <1>5, <2>1, ServiceLeaves
  <1>6. CASE SpendBudget
    <2>1. unit' = unit /\ worker' = worker /\ rev' = [rev EXCEPT !.spent = TRUE]
      BY <1>6 DEF SpendBudget
    <2>2. rev'.skew = rev.skew /\ rev.skew \in Int
      BY <1>1, <2>1, Tables DEF RevisionRow
    <2>3. QED
      BY <1>2, <2>1, <2>2 DEF Leaves
  <1>7. CASE Tick
    <2>1. Shift(-1, -1)
      BY <1>7 DEF Tick
    <2>2. QED
      BY <2>1, ShiftBounds
  <1>8. CASE \E d \in Jumps : JumpBack(d)
    <2>1. PICK d \in Jumps : JumpBack(d)
      BY <1>8
    <2>2. Shift(d, 0)
      BY <2>1 DEF JumpBack
    <2>3. d \in Int /\ 0 \in Int
      BY PolicyAssumption
    <2>4. QED
      BY <2>2, <2>3, ShiftBounds
  <1>9. CASE vars' = vars
    BY <1>1, <1>2, <1>9, SameLeaves DEF vars
  <1>10. QED
    BY <1>3, <1>4, <1>5, <1>6, <1>7, <1>8, <1>9 DEF Next, Environment

\* A lease never outlives the clock that granted it by more than its duration,
\* nor the frozen deadline of its execution, although the wall clock may be
\* set back between any two steps.
THEOREM LeasesAreBounded == Spec => []LeaseBounded
  <1>1. Init => LeaseInv
    <2> SUFFICES ASSUME Init
                 PROVE  LeasesNoted /\ DeadlinesKept
      BY RowInit, WorkloadInit DEF LeaseInv
    <2>1. /\ \A u \in Units : unit[u].state = "pending"
          /\ \A w \in Workers : worker[w].pc = "idle"
      BY DEF Init, Idle
    <2>2. QED
      BY <2>1 DEF LeasesNoted, DeadlinesKept, Active
  <1>2. LeaseInv /\ [Next]_vars => LeaseInv'
    BY BoundsInductive
  <1>3. LeaseInv => LeaseBounded
    <2> SUFFICES ASSUME LeaseInv, NEW u \in Active(unit)
                 PROVE  unit[u].lease <= LeaseDuration + Greatest(rev.skew, 0)
      BY DEF LeaseInv, LeaseBounded, DeadlinesKept
    <2>1. u \in Units /\ unit[u].lease <= LeaseDuration + rev.skew
      BY DEF LeaseInv, LeasesNoted, Active
    <2>2. unit[u].lease \in Int /\ rev.skew \in Int /\ LeaseDuration \in Nat
      BY <2>1, PolicyAssumption, Tables, RowColumns
         DEF LeaseInv, WorkloadInv, RowInv, RevisionRow
    <2>3. QED
      BY <2>1, <2>2 DEF Greatest
  <1>4. QED
    BY <1>1, <1>2, <1>3, PTL DEF Spec
=============================================================================
