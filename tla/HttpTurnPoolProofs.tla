--------------------------- MODULE HttpTurnPoolProofs ---------------------------
(***************************************************************************)
(* Theorems about HttpTurnPool, for every set of requests and principals   *)
(* and every size of the pool.  The argument: a request that is on its way *)
(* uses the gate its principal has now (GateKnown), that gate was made by  *)
(* a request of the same principal (GateOwned) and counts exactly the      *)
(* requests that use it (UsersCounted); hence a gate is forgotten only     *)
(* when nobody uses it, and its permits can be counted by its principal.   *)
(***************************************************************************)
EXTENDS HttpTurnPool, FiniteSetTheorems, TLAPS

\* A request between its entry into reserve and its release.
Active(t) == turn[t].pc \notin {"new", "done"}

\* The requests of a principal that use its gate, and that have its permit.
UsersOf(p) == {t \in Turns : Owner[t] = p /\ Active(t)}

PermitsOf(p) == {t \in Holders : Owner[t] = p /\ turn[t].pc # "gate"}

\* Every request on its way uses the gate that its principal has now.
GateKnown ==
    \A t \in Turns :
        Active(t) => /\ current[Owner[t]] # NoGate
                     /\ turn[t].gate = current[Owner[t]]

\* A gate is named by a request of its own principal that made it: no two
\* principals share one, and it is not made twice.
GateOwned ==
    \A p \in Principals :
        current[p] # NoGate =>
            Owner[current[p]] = p /\ turn[current[p]].pc # "new"

\* gate.users is the number of requests that use the gate.
UsersCounted ==
    \A p \in Principals :
        current[p] # NoGate =>
            gates[current[p]].users = Cardinality(UsersOf(p))

\* A turn in the executor belongs to a request that still has its permits.
JobsHeld ==
    \A t \in Turns :
        job[t] \in {"queued", "running"} => turn[t].pc \in {"submitted", "left"}

IInv ==
    /\ TypeOK /\ PermitsAccounted /\ GatesPruned
    /\ GateKnown /\ GateOwned /\ UsersCounted /\ JobsHeld

-----------------------------------------------------------------------------
(* Counting.                                                               *)

\* The sets that are counted are finite.
LEMMA Counts ==
  ASSUME NEW S, S \subseteq Turns
  PROVE  /\ IsFiniteSet(S)
         /\ Cardinality(S) \in Nat
         /\ Cardinality(S) <= Cardinality(Turns)
         /\ Cardinality(S) = 0 <=> S = {}
BY PoolAssumption, FS_Subset, FS_CardinalityType, FS_EmptySet

\* Two sets of requests that agree but for one request t differ by at most
\* one, as t is in the one or in the other.
LEMMA Recount ==
  ASSUME NEW t \in Turns, NEW S, S \subseteq Turns, NEW T, T \subseteq Turns,
         \A u \in Turns : u # t => (u \in S <=> u \in T)
  PROVE  Cardinality(T) = IF t \in S
                          THEN IF t \in T THEN Cardinality(S) ELSE Cardinality(S) - 1
                          ELSE IF t \in T THEN Cardinality(S) + 1 ELSE Cardinality(S)
<1>1. IsFiniteSet(S) /\ Cardinality(S) \in Nat
  BY Counts
<1>2. CASE (t \in S) <=> (t \in T)
  <2>1. S = T
    BY <1>2
  <2> QED
    BY <2>1
<1>3. CASE t \in S /\ t \notin T
  <2>1. T = S \ {t}
    BY <1>3
  <2> QED
    BY <1>1, <1>3, <2>1, FS_RemoveElement
<1>4. CASE t \notin S /\ t \in T
  <2>1. T = S \cup {t}
    BY <1>4
  <2> QED
    BY <1>1, <1>4, <2>1, FS_AddElement
<1> QED
  BY <1>2, <1>3, <1>4

\* A count that one request joins or leaves.
Changed(n, was, is) ==
    IF was THEN IF is THEN n ELSE n - 1 ELSE IF is THEN n + 1 ELSE n

\* A step of one request changes the counts by that request only, and those
\* of its own principal only.
LEMMA Moved ==
  ASSUME NEW t \in Turns, \A u \in Turns : u # t => turn'[u] = turn[u]
  PROVE  /\ Cardinality(Holders') =
              Changed(Cardinality(Holders), t \in Holders, t \in Holders')
         /\ Cardinality(UsersOf(Owner[t])') =
              Changed(Cardinality(UsersOf(Owner[t])), Active(t), Active(t)')
         /\ Cardinality(PermitsOf(Owner[t])') =
              Changed(Cardinality(PermitsOf(Owner[t])),
                      t \in PermitsOf(Owner[t]), t \in PermitsOf(Owner[t])')
         /\ \A p \in Principals : p # Owner[t] =>
              UsersOf(p)' = UsersOf(p) /\ PermitsOf(p)' = PermitsOf(p)
<1>1. Cardinality(Holders') =
        Changed(Cardinality(Holders), t \in Holders, t \in Holders')
  <2>1. \A u \in Turns : u # t => (u \in Holders <=> u \in Holders')
    BY DEF Holders
  <2>2. Holders \subseteq Turns /\ Holders' \subseteq Turns
    BY DEF Holders
  <2> QED
    BY <2>1, <2>2, Recount DEF Changed
<1>2. Cardinality(UsersOf(Owner[t])') =
        Changed(Cardinality(UsersOf(Owner[t])), Active(t), Active(t)')
  <2> DEFINE S == UsersOf(Owner[t])
             T == {u \in Turns : Owner[u] = Owner[t] /\ turn'[u].pc \notin {"new", "done"}}
  <2>1. \A u \in Turns : u # t => (u \in S <=> u \in T)
    BY DEF UsersOf, Active
  <2>2. S \subseteq Turns /\ T \subseteq Turns
    BY DEF UsersOf
  <2>3. (t \in S <=> Active(t)) /\ (t \in T <=> Active(t)')
    BY DEF UsersOf, Active
  <2>4. UsersOf(Owner[t])' = T
    BY DEF UsersOf, Active
  <2> HIDE DEF S, T
  <2>5. Cardinality(T) = Changed(Cardinality(S), t \in S, t \in T)
    BY <2>1, <2>2, Recount DEF Changed
  <2> QED
    BY <2>3, <2>4, <2>5 DEF Changed, S
<1>3. Cardinality(PermitsOf(Owner[t])') =
        Changed(Cardinality(PermitsOf(Owner[t])),
                t \in PermitsOf(Owner[t]), t \in PermitsOf(Owner[t])')
  <2> DEFINE S == PermitsOf(Owner[t])
             T == PermitsOf(Owner[t])'
  <2>1. \A u \in Turns : u # t => (u \in S <=> u \in T)
    BY DEF PermitsOf, Holders
  <2>2. S \subseteq Turns /\ T \subseteq Turns
    BY DEF PermitsOf, Holders
  <2> HIDE DEF S, T
  <2>3. Cardinality(T) = Changed(Cardinality(S), t \in S, t \in T)
    BY <2>1, <2>2, Recount DEF Changed
  <2> QED
    BY <2>3 DEF S, T
<1>4. ASSUME NEW p \in Principals, p # Owner[t]
      PROVE  UsersOf(p)' = UsersOf(p) /\ PermitsOf(p)' = PermitsOf(p)
  BY <1>4 DEF UsersOf, PermitsOf, Holders, Active
<1> QED
  BY <1>1, <1>2, <1>3, <1>4

-----------------------------------------------------------------------------
(* The invariant holds initially and is kept by every step.                *)

\* Nobody has asked yet: all permits are free and there is no gate.
LEMMA InvInit == Init => IInv
<1> SUFFICES ASSUME Init PROVE IInv
  OBVIOUS
<1>1. \A t \in Turns : turn[t].pc = "new" /\ job[t] = "none"
  BY DEF Init
<1>2. \A p \in Principals : current[p] = NoGate
  BY DEF Init
<1>3. Holders = {} /\ Cardinality(Holders) = 0
  BY <1>1, FS_EmptySet DEF Holders
<1>4. Cardinality(Turns) \in Nat
  BY Counts
<1>5. TypeOK
  <2>1. Capacity \in Nat
    BY PoolAssumption DEF Capacity
  <2>2. NewGate \in [users : 0..Cardinality(Turns), free : 0..PerPrincipal]
    BY <1>4, PoolAssumption DEF NewGate
  <2>3. gates \in [Turns -> [users : 0..Cardinality(Turns), free : 0..PerPrincipal]]
    BY <2>2 DEF Init
  <2>4. free \in 0..Capacity
    BY <2>1 DEF Init
  <2> QED
    BY <2>3, <2>4 DEF Init, TypeOK
<1>6. PermitsAccounted
  BY <1>2, <1>3, PoolAssumption DEF PermitsAccounted, Init, Capacity
<1>7. GatesPruned /\ GateKnown /\ GateOwned /\ UsersCounted /\ JobsHeld
  BY <1>1, <1>2, PoolAssumption
     DEF GatesPruned, GateKnown, GateOwned, UsersCounted, JobsHeld, Active
<1> QED
  BY <1>5, <1>6, <1>7 DEF IInv

\* A request that passes from one place to another with the same permits:
\* the gates and the pool do not change.
LEMMA PassKeeps ==
  ASSUME IInv, NEW t \in Turns,
         NEW pc \in {"lost", "submitted", "left"}, Goto(t, pc),
         turn[t].pc \in {"held", "submitted"},
         UNCHANGED <<gates, current, free, closed>>,
         job' \in [Turns -> {"none", "queued", "running", "ended", "cancelled"}],
         \A u \in Turns : u # t => job'[u] = job[u],
         job'[t] \in {"queued", "running"} => pc # "lost"
  PROVE  IInv'
<1>1. TypeOK'
  BY DEF IInv, TypeOK, Goto
<1>2. turn'[t].pc = pc /\ turn'[t].gate = turn[t].gate
  BY DEF IInv, TypeOK, Goto
<1>3. \A u \in Turns : u # t => turn'[u] = turn[u]
  BY DEF IInv, TypeOK, Goto
<1>4. \A u \in Turns : Active(u)' = Active(u)
  BY <1>2, <1>3 DEF Active
<1>5. Holders' = Holders
  BY <1>2, <1>3 DEF Holders
<1>6. \A p \in Principals : UsersOf(p)' = UsersOf(p) /\ PermitsOf(p)' = PermitsOf(p)
  BY <1>2, <1>3 DEF UsersOf, PermitsOf, Holders, Active
<1>7. PermitsAccounted'
  BY <1>5, <1>6 DEF IInv, PermitsAccounted, PermitsOf
<1>8. /\ GateKnown' /\ GateOwned' /\ UsersCounted' /\ GatesPruned'
  <2>1. \A u \in Turns : turn'[u].gate = turn[u].gate /\ (turn[u].pc # "new" => turn'[u].pc # "new")
    BY <1>2, <1>3
  <2>2. GateKnown'
    BY <1>4, <2>1 DEF IInv, GateKnown
  <2>3. GateOwned'
    BY <2>1 DEF IInv, GateOwned, TypeOK
  <2>4. UsersCounted'
    BY <1>6 DEF IInv, UsersCounted
  <2>5. GatesPruned'
    BY <1>4 DEF IInv, GatesPruned, Active
  <2> QED
    BY <2>2, <2>3, <2>4, <2>5
<1>9. JobsHeld'
  BY <1>2, <1>3 DEF IInv, JobsHeld
<1> QED
  BY <1>1, <1>7, <1>8, <1>9 DEF IInv

\* A gate that is in use belongs to one principal only.
LEMMA GatesApart ==
  ASSUME IInv, NEW p \in Principals, NEW q \in Principals,
         current[p] # NoGate, current[p] = current[q]
  PROVE  p = q
BY DEF IInv, GateOwned

\* A request takes a permit of the pool.
LEMMA AcquireGlobalKeeps ==
  ASSUME IInv, NEW t \in Turns, AcquireGlobal(t)
  PROVE  IInv'
<1> DEFINE p == Owner[t]
<1>1. TypeOK'
  BY PoolAssumption DEF IInv, TypeOK, AcquireGlobal, Goto, Capacity
<1>2. turn'[t].pc = "gate" /\ turn'[t].gate = turn[t].gate /\ turn[t].pc = "global"
  BY DEF IInv, TypeOK, AcquireGlobal, Goto
<1>3. \A u \in Turns : u # t => turn'[u] = turn[u]
  BY DEF IInv, TypeOK, AcquireGlobal, Goto
<1>4. \A u \in Turns : Active(u)' = Active(u)
  BY <1>2, <1>3 DEF Active
<1>5. t \notin Holders /\ t \in Holders'
  BY <1>2 DEF Holders
<1>6. Cardinality(Holders') = Cardinality(Holders) + 1
  BY <1>3, <1>5, Moved DEF Changed
<1>7. \A q \in Principals : UsersOf(q)' = UsersOf(q) /\ PermitsOf(q)' = PermitsOf(q)
  BY <1>2, <1>3 DEF UsersOf, PermitsOf, Holders, Active
<1>8. PermitsAccounted'
  <2>1. Cardinality(Holders) \in Nat
    BY Counts DEF Holders
  <2>2. free' + Cardinality(Holders') = Capacity
    BY <1>6, <2>1 DEF IInv, TypeOK, PermitsAccounted, AcquireGlobal
  <2> QED
    BY <1>7, <2>2 DEF IInv, PermitsAccounted, PermitsOf, AcquireGlobal, Capacity
<1>9. \A u \in Turns : turn'[u].gate = turn[u].gate /\ (turn[u].pc # "new" => turn'[u].pc # "new")
  BY <1>2, <1>3
<1>10. current' = current /\ gates' = gates /\ job' = job
  BY DEF AcquireGlobal
<1>11. GateKnown'
  BY <1>4, <1>9, <1>10 DEF IInv, GateKnown
<1>12. GateOwned'
  BY <1>9, <1>10 DEF IInv, GateOwned, TypeOK
<1>13. UsersCounted'
  BY <1>7, <1>10 DEF IInv, UsersCounted
<1>14. GatesPruned'
  BY <1>4, <1>10 DEF IInv, GatesPruned, Active
<1>15. JobsHeld'
  BY <1>2, <1>3, <1>10 DEF IInv, JobsHeld
<1> QED
  BY <1>1, <1>8, <1>11, <1>12, <1>13, <1>14, <1>15 DEF IInv

\* A request takes a permit of its principal's gate.
LEMMA AcquireGateKeeps ==
  ASSUME IInv, NEW t \in Turns, AcquireGate(t)
  PROVE  IInv'
<1> DEFINE p == Owner[t]
           g == turn[t].gate
<1>1. p \in Principals /\ Active(t)
  BY PoolAssumption DEF AcquireGate, Active
<1>2. g = current[p] /\ g # NoGate /\ g \in Turns
  BY <1>1 DEF IInv, GateKnown, TypeOK
<1>3. /\ turn'[t].pc = "held" /\ turn'[t].gate = g /\ turn[t].pc = "gate"
      /\ \A u \in Turns : u # t => turn'[u] = turn[u]
  BY DEF IInv, TypeOK, AcquireGate, Goto
<1>4. /\ gates'[g].free = gates[g].free - 1 /\ gates'[g].users = gates[g].users
      /\ gates[g].free > 0
      /\ \A h \in Turns : h # g => gates'[h] = gates[h]
  BY <1>2 DEF IInv, TypeOK, AcquireGate
<1>5. current' = current /\ free' = free /\ job' = job /\ closed' = closed
  BY DEF AcquireGate
<1>6. TypeOK'
  <2>1. turn' \in [Turns -> [pc : {"new", "global", "gate", "held", "lost",
                                   "submitted", "left", "done"},
                             gate : Turns \cup {NoGate}]]
    BY DEF IInv, TypeOK, AcquireGate, Goto
  <2>2. gates[g].free - 1 \in 0..PerPrincipal
    BY <1>2, <1>4, PoolAssumption DEF IInv, TypeOK
  <2>3. gates' \in [Turns -> [users : 0..Cardinality(Turns), free : 0..PerPrincipal]]
    BY <1>2, <2>2 DEF IInv, TypeOK, AcquireGate
  <2> QED
    BY <1>5, <2>1, <2>3 DEF IInv, TypeOK
<1>7. \A u \in Turns : Active(u)' = Active(u)
  BY <1>3 DEF Active
<1>8. Holders' = Holders
  BY <1>3 DEF Holders
<1>9. \A q \in Principals : UsersOf(q)' = UsersOf(q)
  BY <1>3 DEF UsersOf, Active
<1>10. t \notin PermitsOf(p) /\ t \in PermitsOf(p)'
  BY <1>3 DEF PermitsOf, Holders
<1>11. /\ Cardinality(PermitsOf(p)') = Cardinality(PermitsOf(p)) + 1
       /\ \A q \in Principals : q # p => PermitsOf(q)' = PermitsOf(q)
  BY <1>3, <1>10, Moved DEF Changed
<1>12. \A q \in Principals : q # p /\ current[q] # NoGate =>
          current[q] \in Turns /\ gates'[current[q]] = gates[current[q]]
  BY <1>1, <1>2, <1>4, GatesApart DEF IInv, TypeOK
<1>13. PermitsAccounted'
  <2>1. \A q \in Principals : current[q] # NoGate =>
            gates[current[q]].free + Cardinality(PermitsOf(q)) = PerPrincipal
    BY DEF IInv, PermitsAccounted, PermitsOf
  <2>2. Cardinality(PermitsOf(p)) \in Nat
    BY Counts DEF PermitsOf, Holders
  <2>3. gates'[current[p]].free + Cardinality(PermitsOf(p)') = PerPrincipal
    <3>1. gates[g].free + Cardinality(PermitsOf(p)) = PerPrincipal
      BY <1>1, <1>2, <2>1
    <3>2. gates[g].free \in Nat
      BY <1>2, PoolAssumption DEF IInv, TypeOK
    <3>3. gates'[g].free + Cardinality(PermitsOf(p)') = PerPrincipal
      BY <1>4, <1>11, <2>2, <3>1, <3>2
    <3> QED
      BY <1>2, <3>3
  <2>4. \A q \in Principals : current[q] # NoGate =>
            gates'[current[q]].free + Cardinality(PermitsOf(q)') = PerPrincipal
    BY <1>11, <1>12, <2>1, <2>3
  <2>5. free' + Cardinality(Holders') = Capacity
    BY <1>5, <1>8 DEF IInv, PermitsAccounted
  <2> QED
    BY <1>5, <2>4, <2>5 DEF PermitsAccounted, PermitsOf, Capacity
<1>14. GateKnown'
  BY <1>3, <1>5, <1>7 DEF IInv, GateKnown
<1>15. GateOwned'
  BY <1>3, <1>5 DEF IInv, GateOwned, TypeOK
<1>16. UsersCounted'
  BY <1>1, <1>2, <1>4, <1>5, <1>9, <1>12 DEF IInv, UsersCounted
<1>17. GatesPruned'
  BY <1>5, <1>7 DEF IInv, GatesPruned, Active
<1>18. JobsHeld'
  BY <1>3, <1>5 DEF IInv, JobsHeld
<1> QED
  BY <1>6, <1>13, <1>14, <1>15, <1>16, <1>17, <1>18 DEF IInv

\* A request leaves with the permits it has: those of the pool and of its
\* gate go back, and its gate is forgotten with its last user.
LEMMA LeaveKeeps ==
  ASSUME IInv, NEW t \in Turns, Active(t), NEW permit \in {0, 1},
         Leaves(t, permit), Goto(t, "done"),
         permit = 1 <=> t \in PermitsOf(Owner[t]),
         free' = IF t \in Holders THEN free + 1 ELSE free,
         job[t] \notin {"queued", "running"},
         UNCHANGED <<job, closed>>
  PROVE  IInv'
<1> DEFINE p == Owner[t]
           g == turn[t].gate
           left == gates[g].users - 1
<1>1. p \in Principals /\ t \in UsersOf(p)
  BY PoolAssumption DEF UsersOf
<1>2. g = current[p] /\ g # NoGate /\ g \in Turns
  BY <1>1 DEF IInv, GateKnown, TypeOK
<1>3. /\ turn'[t].pc = "done"
      /\ \A u \in Turns : u # t => turn'[u] = turn[u]
      /\ \A u \in Turns : turn'[u].gate = turn[u].gate
      /\ turn' \in [Turns -> [pc : {"new", "global", "gate", "held", "lost",
                                    "submitted", "left", "done"},
                              gate : Turns \cup {NoGate}]]
  BY DEF IInv, TypeOK, Goto
<1>4. ~Active(t)' /\ t \notin Holders' /\ t \notin PermitsOf(p)'
  BY <1>3 DEF Active, Holders, PermitsOf
<1>5. /\ Cardinality(UsersOf(p)) \in Nat /\ Cardinality(UsersOf(p)) >= 1
      /\ Cardinality(UsersOf(p)) <= Cardinality(Turns)
      /\ Cardinality(Turns) \in Nat
      /\ Cardinality(PermitsOf(p)) \in Nat
      /\ Cardinality(Holders) \in Nat
      /\ t \in PermitsOf(p) => Cardinality(PermitsOf(p)) >= 1
      /\ t \in Holders => Cardinality(Holders) >= 1
  <2>1. UsersOf(p) \subseteq Turns /\ PermitsOf(p) \subseteq Turns /\ Holders \subseteq Turns
    BY DEF UsersOf, PermitsOf, Holders
  <2>2. /\ Cardinality(UsersOf(p)) \in Nat /\ Cardinality(UsersOf(p)) # 0
        /\ Cardinality(UsersOf(p)) <= Cardinality(Turns)
    BY <1>1, <2>1, Counts
  <2>3. /\ Cardinality(PermitsOf(p)) \in Nat
        /\ t \in PermitsOf(p) => Cardinality(PermitsOf(p)) # 0
    BY <2>1, Counts
  <2>4. /\ Cardinality(Holders) \in Nat
        /\ t \in Holders => Cardinality(Holders) # 0
    BY <2>1, Counts
  <2>5. Cardinality(Turns) \in Nat
    BY Counts
  <2> QED
    BY <2>2, <2>3, <2>4, <2>5
<1>6. gates[g].users = Cardinality(UsersOf(p))
  BY <1>1, <1>2 DEF IInv, UsersCounted
<1>7. gates[g].free + Cardinality(PermitsOf(p)) = PerPrincipal /\ gates[g].free \in Nat
  BY <1>1, <1>2, PoolAssumption DEF IInv, TypeOK, PermitsAccounted, PermitsOf
<1>8. free + Cardinality(Holders) = Capacity /\ free \in Nat /\ Capacity \in Nat
  BY PoolAssumption DEF IInv, TypeOK, PermitsAccounted, Capacity
<1>9. Cardinality(Holders') =
        IF t \in Holders THEN Cardinality(Holders) - 1 ELSE Cardinality(Holders)
  BY <1>3, <1>4, Moved DEF Changed
<1>10. Cardinality(UsersOf(p)') = Cardinality(UsersOf(p)) - 1
  BY <1>3, <1>4, Moved DEF Changed
<1>11. Cardinality(PermitsOf(p)') = Cardinality(PermitsOf(p)) - permit
  <2>1. Cardinality(PermitsOf(p)') =
          IF t \in PermitsOf(p) THEN Cardinality(PermitsOf(p)) - 1
          ELSE Cardinality(PermitsOf(p))
    BY <1>3, <1>4, Moved DEF Changed
  <2> QED
    BY <1>5, <2>1
<1>12. \A q \in Principals : q # p =>
          UsersOf(q)' = UsersOf(q) /\ PermitsOf(q)' = PermitsOf(q)
  BY <1>3, Moved
<1>13. /\ gates'[g] = [users |-> left, free |-> gates[g].free + permit]
       /\ \A h \in Turns : h # g => gates'[h] = gates[h]
  BY <1>2 DEF IInv, TypeOK, Leaves
<1>14. current' = IF left = 0 THEN [current EXCEPT ![p] = NoGate] ELSE current
  BY <1>2 DEF Leaves, LastUser
<1>15. /\ current'[p] = IF left = 0 THEN NoGate ELSE g
       /\ \A q \in Principals : q # p => current'[q] = current[q]
       /\ current' \in [Principals -> Turns \cup {NoGate}]
  BY <1>1, <1>2, <1>14 DEF IInv, TypeOK
<1>16. left \in 0..Cardinality(Turns) /\ gates[g].free + permit \in 0..PerPrincipal
  BY <1>5, <1>6, <1>7, PoolAssumption
<1>17. TypeOK'
  <2>1. gates' \in [Turns -> [users : 0..Cardinality(Turns), free : 0..PerPrincipal]]
    BY <1>2, <1>16 DEF IInv, TypeOK, Leaves
  <2>2. free' \in 0..Capacity
    BY <1>5, <1>8
  <2> QED
    BY <1>3, <1>15, <2>1, <2>2 DEF IInv, TypeOK, Capacity
<1>18. \A q \in Principals : q # p /\ current[q] # NoGate =>
          gates'[current[q]] = gates[current[q]]
  BY <1>1, <1>2, <1>13, GatesApart DEF IInv, TypeOK
<1>19. PermitsAccounted'
  <2>1. free' + Cardinality(Holders') = Capacity
    BY <1>5, <1>8, <1>9
  <2>2. gates'[g].free + Cardinality(PermitsOf(p)') = PerPrincipal
    BY <1>5, <1>7, <1>11, <1>13
  <2>3. \A q \in Principals : current[q] # NoGate =>
            gates[current[q]].free + Cardinality(PermitsOf(q)) = PerPrincipal
    BY DEF IInv, PermitsAccounted, PermitsOf
  <2>4. \A q \in Principals : current'[q] # NoGate =>
            gates'[current'[q]].free + Cardinality(PermitsOf(q)') = PerPrincipal
    BY <1>2, <1>12, <1>15, <1>18, <2>2, <2>3
  <2> QED
    BY <2>1, <2>4 DEF PermitsAccounted, PermitsOf, Capacity
<1>20. UsersCounted'
  <2>1. gates'[g].users = Cardinality(UsersOf(p)')
    BY <1>6, <1>10, <1>13
  <2> QED
    BY <1>2, <1>12, <1>15, <1>18, <2>1 DEF IInv, UsersCounted
<1>21. GateKnown'
  <2> SUFFICES ASSUME NEW u \in Turns, Active(u)'
               PROVE  current'[Owner[u]] # NoGate /\ turn'[u].gate = current'[Owner[u]]
    BY DEF GateKnown
  <2>1. u # t /\ Active(u)
    BY <1>3, <1>4 DEF Active
  <2>2. Owner[u] \in Principals /\ current[Owner[u]] # NoGate
        /\ turn[u].gate = current[Owner[u]]
    BY <2>1, PoolAssumption DEF IInv, GateKnown
  <2>3. CASE Owner[u] # p
    BY <1>3, <1>15, <2>2, <2>3
  <2>4. CASE Owner[u] = p
    <3>1. u \in UsersOf(p)'
      BY <1>3, <2>1, <2>4 DEF UsersOf, Active
    <3>2. Cardinality(UsersOf(p)') # 0
      <4>1. UsersOf(p)' \subseteq Turns
        BY DEF UsersOf
      <4> QED
        BY <3>1, <4>1, Counts
    <3>3. left # 0
      BY <1>6, <1>10, <3>2
    <3> QED
      BY <1>2, <1>3, <1>15, <2>2, <2>4, <3>3
  <2> QED
    BY <2>3, <2>4
<1>22. GateOwned'
  BY <1>2, <1>3, <1>15 DEF IInv, GateOwned, TypeOK
<1>23. GatesPruned'
  <2> SUFFICES ASSUME NEW q \in Principals
               PROVE  current'[q] # NoGate <=> \E u \in Turns : Owner[u] = q /\ Active(u)'
    BY DEF GatesPruned, Active
  <2>1. ASSUME NEW u \in Turns, Owner[u] = q, Active(u)' PROVE current'[q] # NoGate
    BY <1>21, <2>1 DEF GateKnown
  <2>2. ASSUME current'[q] # NoGate PROVE \E u \in Turns : Owner[u] = q /\ Active(u)'
    <3>1. CASE q # p
      BY <1>3, <1>4, <1>15, <2>2, <3>1 DEF IInv, GatesPruned, Active
    <3>2. CASE q = p
      <4>1. left # 0
        BY <1>15, <2>2, <3>2
      <4>2. Cardinality(UsersOf(p)') # 0
        BY <1>6, <1>10, <4>1
      <4>3. UsersOf(p)' # {}
        BY <4>2, FS_EmptySet
      <4> QED
        BY <3>2, <4>3 DEF UsersOf
    <3> QED
      BY <3>1, <3>2
  <2> QED
    BY <2>1, <2>2
<1>24. JobsHeld'
  BY <1>3 DEF IInv, JobsHeld
<1> QED
  BY <1>17, <1>19, <1>20, <1>21, <1>22, <1>23, <1>24 DEF IInv

\* A request enters: it finds its principal's gate, or makes one.
LEMMA ReserveKeeps ==
  ASSUME IInv, NEW t \in Turns, Reserve(t)
  PROVE  IInv'
<1> DEFINE p == Owner[t]
           made == current[p] = NoGate
           g == IF made THEN t ELSE current[p]
<1>1. p \in Principals /\ turn[t].pc = "new" /\ t \notin UsersOf(p) /\ ~Active(t)
      /\ t \notin Holders /\ t \notin PermitsOf(p)
  BY PoolAssumption DEF Reserve, UsersOf, Active, Holders, PermitsOf
<1>2. UNCHANGED <<job, free, closed>>
  BY DEF Reserve
<1>3. CASE closed
  <2>1. Goto(t, "done") /\ UNCHANGED <<gates, current>>
    BY <1>3 DEF Reserve
  <2>2. /\ turn'[t].pc = "done"
        /\ \A u \in Turns : u # t => turn'[u] = turn[u]
        /\ \A u \in Turns : turn'[u].gate = turn[u].gate
    BY <2>1 DEF Goto, IInv, TypeOK
  <2>3. TypeOK'
    BY <1>2, <2>1 DEF IInv, TypeOK, Goto, Capacity
  <2>4. \A u \in Turns : Active(u)' = Active(u)
    BY <1>1, <2>2 DEF Active
  <2>5. Holders' = Holders
    BY <1>1, <2>2 DEF Holders
  <2>6. \A q \in Principals : UsersOf(q)' = UsersOf(q) /\ PermitsOf(q)' = PermitsOf(q)
    BY <1>1, <2>2 DEF UsersOf, PermitsOf, Holders, Active
  <2>7. PermitsAccounted'
    BY <1>2, <2>1, <2>5, <2>6 DEF IInv, PermitsAccounted, PermitsOf, Capacity
  <2>8. GateKnown' /\ UsersCounted'
    BY <2>1, <2>2, <2>4, <2>6 DEF IInv, GateKnown, UsersCounted
  <2>9. GateOwned'
    BY <2>1, <2>2 DEF IInv, GateOwned, TypeOK
  <2>10. GatesPruned'
    BY <2>1, <2>4 DEF IInv, GatesPruned, Active
  <2>11. JobsHeld'
    BY <1>1, <1>2, <2>2 DEF IInv, JobsHeld
  <2> QED
    BY <2>3, <2>7, <2>8, <2>9, <2>10, <2>11 DEF IInv
<1>4. CASE ~closed
  <2>1. /\ gates' = [gates EXCEPT ![g] = Entered(IF made THEN NewGate ELSE @)]
        /\ current' = [current EXCEPT ![p] = g]
        /\ turn' = [turn EXCEPT ![t] = [pc |-> "global", gate |-> g]]
    BY <1>4 DEF Reserve
  <2>2. g \in Turns
    BY <1>1 DEF IInv, TypeOK
  <2>3. /\ turn'[t].pc = "global" /\ turn'[t].gate = g
        /\ \A u \in Turns : u # t => turn'[u] = turn[u]
        /\ turn' \in [Turns -> [pc : {"new", "global", "gate", "held", "lost",
                                      "submitted", "left", "done"},
                                gate : Turns \cup {NoGate}]]
    BY <2>1, <2>2 DEF IInv, TypeOK
  <2>4. /\ current'[p] = g /\ g # NoGate
        /\ \A q \in Principals : q # p => current'[q] = current[q]
        /\ current' \in [Principals -> Turns \cup {NoGate}]
    BY <1>1, <2>1, <2>2, PoolAssumption DEF IInv, TypeOK
  <2>5. \A u \in Turns : Active(u)' <=> (u = t \/ Active(u))
    BY <2>3 DEF Active
  <2>6. Holders' = Holders
    BY <1>1, <2>3 DEF Holders
  <2>7. \A q \in Principals : PermitsOf(q)' = PermitsOf(q)
    BY <1>1, <2>3 DEF PermitsOf, Holders
  <2>8. /\ Cardinality(UsersOf(p)') = Cardinality(UsersOf(p)) + 1
        /\ \A q \in Principals : q # p => UsersOf(q)' = UsersOf(q)
    <3>1. Active(t)'
      BY <2>5
    <3> QED
      BY <1>1, <2>3, <3>1, Moved DEF Changed
  <2>9. \A q \in Principals : current[q] # NoGate /\ q # p => current[q] # g
    BY <1>1, GatesApart DEF IInv, GateOwned
  <2>10. /\ gates[g].users \in Nat /\ gates[g].free \in 0..PerPrincipal
         /\ PerPrincipal \in Nat
    BY <2>2, PoolAssumption, Counts DEF IInv, TypeOK
  <2>11. /\ gates'[g].users = (IF made THEN 0 ELSE gates[g].users) + 1
         /\ gates'[g].free = IF made THEN PerPrincipal ELSE gates[g].free
         /\ \A h \in Turns : h # g => gates'[h] = gates[h]
    BY <2>1, <2>2, <2>10 DEF IInv, TypeOK, Entered, NewGate
  <2>12. made => UsersOf(p) = {} /\ PermitsOf(p) = {}
    BY <1>1 DEF IInv, GateKnown, UsersOf, PermitsOf, Holders, Active
  <2>13. UsersOf(p) \subseteq Turns /\ UsersOf(p)' \subseteq Turns
    BY DEF UsersOf
  <2>14. /\ Cardinality(UsersOf(p)) \in Nat /\ Cardinality(UsersOf(p)') \in Nat
         /\ Cardinality(UsersOf(p)') <= Cardinality(Turns)
         /\ Cardinality(Turns) \in Nat
         /\ made => Cardinality(UsersOf(p)) = 0 /\ Cardinality(PermitsOf(p)) = 0
    BY <2>12, <2>13, Counts, FS_EmptySet
  <2>15. gates'[g].users = Cardinality(UsersOf(p)')
    <3>1. CASE made
      BY <2>8, <2>11, <2>14, <3>1
    <3>2. CASE ~made
      BY <1>1, <2>8, <2>11, <3>2 DEF IInv, UsersCounted
    <3> QED
      BY <3>1, <3>2
  <2>16. TypeOK'
    <3>1. gates'[g].users \in 0..Cardinality(Turns) /\ gates'[g].free \in 0..PerPrincipal
      BY <2>10, <2>11, <2>14, <2>15
    <3>2. gates' \in [Turns -> [users : 0..Cardinality(Turns), free : 0..PerPrincipal]]
      <4>1. gates'[g] \in [users : 0..Cardinality(Turns), free : 0..PerPrincipal]
        BY <2>1, <2>2, <2>10, <3>1 DEF IInv, TypeOK, Entered, NewGate
      <4> QED
        BY <2>1, <2>2, <4>1 DEF IInv, TypeOK
    <3> QED
      BY <1>2, <2>3, <2>4, <3>2 DEF IInv, TypeOK, Capacity
  <2>17. PermitsAccounted'
    <3>1. free' + Cardinality(Holders') = Capacity
      BY <1>2, <2>6 DEF IInv, PermitsAccounted
    <3>2. \A q \in Principals : current[q] # NoGate =>
              gates[current[q]].free + Cardinality(PermitsOf(q)) = PerPrincipal
      BY DEF IInv, PermitsAccounted, PermitsOf
    <3>3. gates'[g].free + Cardinality(PermitsOf(p)) = PerPrincipal
      <4>1. CASE made
        BY <2>10, <2>11, <2>14, <4>1
      <4>2. CASE ~made
        BY <1>1, <2>11, <3>2, <4>2
      <4> QED
        BY <4>1, <4>2
    <3>4. \A q \in Principals : current'[q] # NoGate =>
              gates'[current'[q]].free + Cardinality(PermitsOf(q)') = PerPrincipal
      <4> SUFFICES ASSUME NEW q \in Principals, current'[q] # NoGate
                   PROVE  gates'[current'[q]].free + Cardinality(PermitsOf(q)) = PerPrincipal
        BY <2>7
      <4>1. CASE q = p
        BY <2>4, <3>3, <4>1
      <4>2. CASE q # p
        <5>1. current'[q] = current[q] /\ current[q] \in Turns /\ current[q] # g
          BY <2>4, <2>9, <4>2 DEF IInv, TypeOK
        <5> QED
          BY <2>11, <3>2, <5>1
      <4> QED
        BY <4>1, <4>2
    <3> QED
      BY <3>1, <3>4 DEF PermitsAccounted, PermitsOf, Capacity
  <2>18. UsersCounted'
    <3> SUFFICES ASSUME NEW q \in Principals, current'[q] # NoGate
                 PROVE  gates'[current'[q]].users = Cardinality(UsersOf(q)')
      BY DEF UsersCounted
    <3>1. CASE q = p
      BY <2>4, <2>15, <3>1
    <3>2. CASE q # p
      <4>1. current'[q] = current[q] /\ current[q] \in Turns /\ current[q] # g
        BY <2>4, <2>9, <3>2 DEF IInv, TypeOK
      <4> QED
        BY <2>8, <2>11, <3>2, <4>1 DEF IInv, UsersCounted
    <3> QED
      BY <3>1, <3>2
  <2>19. GateKnown'
    <3> SUFFICES ASSUME NEW u \in Turns, u = t \/ Active(u)
                 PROVE  current'[Owner[u]] # NoGate /\ turn'[u].gate = current'[Owner[u]]
      BY <2>5 DEF GateKnown
    <3>1. CASE u = t
      BY <2>3, <2>4, <3>1
    <3>2. CASE u # t
      <4>1. /\ Owner[u] \in Principals /\ current[Owner[u]] # NoGate
            /\ turn[u].gate = current[Owner[u]]
        BY <3>2, PoolAssumption DEF IInv, GateKnown
      <4> QED
        BY <2>3, <2>4, <3>2, <4>1
    <3> QED
      BY <3>1, <3>2
  <2>20. GateOwned'
    <3> SUFFICES ASSUME NEW q \in Principals, current'[q] # NoGate
                 PROVE  Owner[current'[q]] = q /\ turn'[current'[q]].pc # "new"
      BY DEF GateOwned
    <3>1. CASE q = p
      BY <1>1, <2>3, <2>4, <3>1 DEF IInv, GateOwned, TypeOK
    <3>2. CASE q # p
      BY <2>3, <2>4, <3>2 DEF IInv, GateOwned, TypeOK
    <3> QED
      BY <3>1, <3>2
  <2>21. GatesPruned'
    <3> SUFFICES ASSUME NEW q \in Principals
                 PROVE  current'[q] # NoGate <=> \E u \in Turns : Owner[u] = q /\ Active(u)'
      BY DEF GatesPruned, Active
    <3>1. current[q] # NoGate <=> \E u \in Turns : Owner[u] = q /\ Active(u)
      BY DEF IInv, GatesPruned, Active
    <3>2. CASE q = p
      BY <2>4, <2>5, <3>2
    <3>3. CASE q # p
      BY <2>4, <2>5, <3>1, <3>3
    <3> QED
      BY <3>2, <3>3
  <2>22. JobsHeld'
    BY <1>1, <1>2, <2>3 DEF IInv, JobsHeld
  <2> QED
    BY <2>16, <2>17, <2>18, <2>19, <2>20, <2>21, <2>22 DEF IInv
<1> QED
  BY <1>3, <1>4

\* Threads start and end, and close() cancels what is queued: no request
\* moves, and nothing new gets into the executor.
LEMMA ThreadsKeep ==
  ASSUME IInv, UNCHANGED <<turn, gates, current, free>>, closed' \in BOOLEAN,
         job' \in [Turns -> {"none", "queued", "running", "ended", "cancelled"}],
         \A t \in Turns : job'[t] \in {"queued", "running"} =>
                             job[t] \in {"queued", "running"}
  PROVE  IInv'
<1>1. TypeOK'
  BY DEF IInv, TypeOK, Capacity
<1>2. Holders' = Holders
  BY DEF Holders
<1>3. \A p \in Principals : UsersOf(p)' = UsersOf(p)
  BY DEF UsersOf, Active
<1>4. PermitsAccounted'
  BY <1>2 DEF IInv, PermitsAccounted, Capacity
<1>5. GatesPruned' /\ GateKnown' /\ GateOwned'
  BY DEF IInv, GatesPruned, GateKnown, GateOwned, Active
<1>6. UsersCounted'
  BY <1>3 DEF IInv, UsersCounted
<1>7. JobsHeld'
  BY DEF IInv, JobsHeld
<1> QED
  BY <1>1, <1>4, <1>5, <1>6, <1>7 DEF IInv

\* release of a reservation whose turn is not in the executor any more.
LEMMA ReleaseKeeps ==
  ASSUME IInv, NEW t \in Turns, Release(t),
         turn[t].pc \in {"held", "submitted", "left"},
         job[t] \notin {"queued", "running"}, UNCHANGED <<job, closed>>
  PROVE  IInv'
<1>1. Active(t) /\ t \in Holders /\ t \in PermitsOf(Owner[t])
  BY DEF Active, Holders, PermitsOf
<1>2. Leaves(t, 1) /\ Goto(t, "done") /\ free' = free + 1
  BY DEF Release
<1> QED
  BY <1>1, <1>2, LeaveKeeps

\* Every step keeps the invariant.
LEMMA InvNext == IInv /\ [Next]_vars => IInv'
<1> SUFFICES ASSUME IInv, [Next]_vars PROVE IInv'
  OBVIOUS
<1>types. job \in [Turns -> {"none", "queued", "running", "ended", "cancelled"}]
          /\ closed \in BOOLEAN
  BY DEF IInv, TypeOK
<1>idle. \A t \in Turns : turn[t].pc \notin {"submitted", "left"} =>
            job[t] \notin {"queued", "running"}
  BY DEF IInv, JobsHeld
<1>1. ASSUME NEW t \in Turns, Reserve(t) PROVE IInv'
  BY <1>1, ReserveKeeps
<1>2. ASSUME NEW t \in Turns, AcquireGlobal(t) PROVE IInv'
  BY <1>2, AcquireGlobalKeeps
<1>3. ASSUME NEW t \in Turns, GiveUpGlobal(t) PROVE IInv'
  <2>1. Active(t) /\ t \notin Holders /\ t \notin PermitsOf(Owner[t])
    BY <1>3 DEF GiveUpGlobal, Active, Holders, PermitsOf
  <2>2. /\ Leaves(t, 0) /\ Goto(t, "done") /\ free' = free /\ UNCHANGED <<job, closed>>
        /\ job[t] \notin {"queued", "running"}
    BY <1>3, <1>idle DEF GiveUpGlobal
  <2> QED
    BY <2>1, <2>2, LeaveKeeps
<1>4. ASSUME NEW t \in Turns, AcquireGate(t) PROVE IInv'
  BY <1>4, AcquireGateKeeps
<1>5. ASSUME NEW t \in Turns, GiveUpGate(t) PROVE IInv'
  <2>1. Active(t) /\ t \in Holders /\ t \notin PermitsOf(Owner[t])
    BY <1>5 DEF GiveUpGate, Active, Holders, PermitsOf
  <2>2. /\ Leaves(t, 0) /\ Goto(t, "done") /\ free' = free + 1 /\ UNCHANGED <<job, closed>>
        /\ job[t] \notin {"queued", "running"}
    BY <1>5, <1>idle DEF GiveUpGate, GivenBack
  <2> QED
    BY <2>1, <2>2, LeaveKeeps
<1>6. ASSUME NEW t \in Turns, ReleaseUnused(t) PROVE IInv'
  BY <1>6, <1>idle, ReleaseKeeps DEF ReleaseUnused
<1>7. ASSUME NEW t \in Turns, PrepareFails(t) PROVE IInv'
  <2>1. /\ Goto(t, "lost") /\ turn[t].pc = "held"
        /\ UNCHANGED <<job, gates, current, free, closed>>
    BY <1>7 DEF PrepareFails
  <2> QED
    BY <1>types, <1>idle, <2>1, PassKeeps
<1>8. ASSUME NEW t \in Turns, Submit(t) PROVE IInv'
  <2>1. CASE closed
    BY <1>8, <1>idle, <2>1, ReleaseKeeps DEF Submit
  <2>2. CASE ~closed
    <3>1. /\ Goto(t, "submitted") /\ turn[t].pc = "held"
          /\ job' = [job EXCEPT ![t] = "queued"]
          /\ UNCHANGED <<gates, current, free, closed>>
      BY <1>8, <2>2 DEF Submit
    <3> QED
      BY <1>types, <3>1, PassKeeps
  <2> QED
    BY <2>1, <2>2
<1>9. ASSUME NEW t \in Turns, Start(t) PROVE IInv'
  <2>1. /\ job[t] = "queued" /\ job' = [job EXCEPT ![t] = "running"]
        /\ UNCHANGED <<turn, gates, current, free, closed>>
    BY <1>9 DEF Start
  <2> QED
    BY <1>types, <2>1, ThreadsKeep
<1>10. ASSUME NEW t \in Turns, End(t) PROVE IInv'
  <2>1. /\ job' = [job EXCEPT ![t] = "ended"]
        /\ UNCHANGED <<turn, gates, current, free, closed>>
    BY <1>10 DEF End
  <2> QED
    BY <1>types, <2>1, ThreadsKeep
<1>11. ASSUME NEW t \in Turns, Return(t) PROVE IInv'
  BY <1>11, ReleaseKeeps DEF Return
<1>12. ASSUME NEW t \in Turns, Cancelled(t) PROVE IInv'
  <2>1. /\ Goto(t, "left") /\ turn[t].pc = "submitted"
        /\ UNCHANGED <<job, gates, current, free, closed>>
    BY <1>12 DEF Cancelled
  <2> QED
    BY <1>types, <2>1, PassKeeps
<1>13. ASSUME NEW t \in Turns, ReleaseWhenDone(t) PROVE IInv'
  BY <1>13, ReleaseKeeps DEF ReleaseWhenDone, FutureDone
<1>14. ASSUME Close PROVE IInv'
  <2>1. /\ closed' \in BOOLEAN
        /\ job' = [t \in Turns |-> IF job[t] = "queued" THEN "cancelled" ELSE job[t]]
        /\ UNCHANGED <<turn, gates, current, free>>
    BY <1>14 DEF Close
  <2> QED
    BY <1>types, <2>1, ThreadsKeep
<1>15. ASSUME UNCHANGED vars PROVE IInv'
  BY <1>types, <1>15, ThreadsKeep DEF vars
<1> QED
  BY <1>1, <1>2, <1>3, <1>4, <1>5, <1>6, <1>7, <1>8, <1>9, <1>10, <1>11, <1>12,
     <1>13, <1>14, <1>15 DEF Next, Proceed

-----------------------------------------------------------------------------
(* What the invariant says.                                                *)

\* Turns in the executor have permits, and there are only so many of these.
LEMMA InvLimits == IInv => LimitsKept
<1> SUFFICES ASSUME IInv PROVE LimitsKept
  OBVIOUS
<1>1. CapacityKept
  <2> DEFINE S == {t \in Turns : job[t] \in {"queued", "running"}}
  <2>1. S \subseteq Holders /\ Holders \subseteq Turns
    BY DEF IInv, JobsHeld, Holders
  <2>2. IsFiniteSet(Holders) /\ Cardinality(Holders) \in Nat
    BY <2>1, Counts
  <2>3. Cardinality(S) <= Cardinality(Holders)
    BY <2>1, <2>2, FS_Subset
  <2>4. S \subseteq Turns
    BY <2>1
  <2>5. Cardinality(S) \in Nat
    BY <2>4, Counts
  <2>6. free + Cardinality(Holders) = Capacity /\ free \in Nat
    BY PoolAssumption DEF IInv, TypeOK, PermitsAccounted, Capacity
  <2>7. Cardinality(S) <= Capacity
    BY <2>2, <2>3, <2>5, <2>6
  <2> QED
    BY <2>7 DEF CapacityKept
<1>2. ASSUME NEW p \in Principals
      PROVE  Cardinality({t \in Turns : Owner[t] = p /\ job[t] \in {"queued", "running"}})
                <= PerPrincipal
  <2> DEFINE S == {t \in Turns : Owner[t] = p /\ job[t] \in {"queued", "running"}}
  <2>1. S \subseteq PermitsOf(p) /\ PermitsOf(p) \subseteq Turns
    BY DEF IInv, JobsHeld, Holders, PermitsOf
  <2>2. IsFiniteSet(PermitsOf(p)) /\ Cardinality(PermitsOf(p)) \in Nat
    BY <2>1, Counts
  <2>3. Cardinality(S) <= Cardinality(PermitsOf(p))
    BY <2>1, <2>2, FS_Subset
  <2>4. S \subseteq Turns
    BY <2>1
  <2>5. Cardinality(S) \in Nat /\ (S = {} => Cardinality(S) = 0)
    BY <2>4, Counts
  <2>6. CASE current[p] = NoGate
    <3>1. S = {}
      BY <2>6, <2>1 DEF IInv, GateKnown, PermitsOf, Holders, Active
    <3> QED
      BY <2>5, <3>1, PoolAssumption
  <2>7. CASE current[p] # NoGate
    <3>1. /\ gates[current[p]].free + Cardinality(PermitsOf(p)) = PerPrincipal
          /\ gates[current[p]].free \in Nat
      BY <2>7, PoolAssumption DEF IInv, TypeOK, PermitsAccounted, PermitsOf
    <3> QED
      BY <2>2, <2>3, <2>5, <3>1
  <2> QED
    BY <2>6, <2>7
<1> QED
  BY <1>1, <1>2 DEF LimitsKept, ShareKept

LEMMA Invariance == Spec => []IInv
BY InvInit, InvNext, PTL DEF Spec

\* "Bounded admission" (http_turn_pool.py:1): the executor never has more
\* turns than its workers and queue slots, nor more of one principal than its
\* share, whatever clients do and however often gates are forgotten.
THEOREM LimitsHold == Spec => []LimitsKept
BY Invariance, InvLimits, PTL

\* Permits and users are accounted for in every state, through every timeout,
\* cancellation, failure and close: no semaphore is released beyond its value,
\* and the pool keeps a gate exactly for the principals with a request on its
\* way.
THEOREM PermitsBalance == Spec => []Accounted
<1>1. IInv => Accounted
  BY DEF IInv, Accounted
<1> QED
  BY <1>1, Invariance, PTL
=============================================================================
