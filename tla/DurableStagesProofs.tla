------------------------- MODULE DurableStagesProofs -------------------------
(***************************************************************************)
(* Machine-checked proofs about DurableStages, for every set of plans and  *)
(* every limit.                                                            *)
(*                                                                         *)
(* IInv says of each stage what its cursor stands for (StageOK): which     *)
(* candidates are behind it, that each of them has one unit, and that no   *)
(* unit stands for anything else.  Two facts about the whole table keep    *)
(* it so: a stage is not begun before its parents have ended (Ordered),    *)
(* and the rows of ended parents do not change any more (ParentsFrozen).   *)
(*                                                                         *)
(* Every step is one of two (StepCases): Runs, which keeps every cursor    *)
(* and the place of every unit, and Works(s), which saves the cursor of s  *)
(* and adds a row to s or exposes its root.  So a stage that does not work *)
(* keeps its StageOK if its parents have ended (KeptOK) and has nothing to *)
(* keep otherwise (UntouchedOK), and one lemma a mode is about the stage   *)
(* that works.  ReductionStep lists the six steps of a reduction.          *)
(*                                                                         *)
(* The sums, the bound on the nodes and the leaves of a tree are recursive *)
(* definitions.  What they compute is shown by least counterexamples:      *)
(* LeastNat gives the first number for which a statement fails.            *)
(***************************************************************************)
EXTENDS DurableStages, WellFoundedInduction, FiniteSetTheorems, TLAPS

-----------------------------------------------------------------------------
(* Types.                                                                  *)

Payload == [array : BOOLEAN, ids : Seq(STRING)]

UnitStates ==
    {"pending", "running", "needs_attention", "committed",
     "failed_permanent", "skipped", "cancelled"}

\* The states a unit does not leave.
Closed == {"committed", "failed_permanent", "skipped", "cancelled"}

WorkloadStates ==
    {"queued", "running", "needs_attention", "failed", "cancel_requested",
     "cancelled", "completed", "completed_with_errors"}

ShardKinds ==
    {"none", "unavailable", "result", "entry", "reduction", "invalid-input",
     "input_too_large", "not_converging"}

Names == {""} \cup STRING

\* Why a unit failed or needs the owner.
Errors(p) ==
    {"", "contract_violation", "dependency_fan_in_exceeded",
     "dependency_result_unavailable", "dependency_input_too_large",
     "reduction_not_converging"} \cup p.failures \cup p.attentions

\* Why a stage cannot go on.
Attentions ==
    {"", "duplicate_entry_identity", "stage_unit_cap_exceeded",
     "dependency_payload_invalid", "entry_identity_invalid"}

UnitRow(p) ==
    [stage : DOMAIN p.mode, source : 0..p.sources, inputs : SUBSET Nat,
     shard : ShardKinds \X Nat \X Nat \X Names, level : Int, ord : Int,
     root : BOOLEAN, state : UnitStates, gen : Nat, error : Errors(p),
     out : Payload]

CursorRow(p) ==
    [completed : BOOLEAN, source : 0..p.sources,
     position : {0} \cup DOMAIN p.mode, parent : Nat, entry : Nat,
     level : Nat, ord : {-1} \cup Nat, waiting : BOOLEAN,
     attention : Attentions, count : Nat]

Types ==
    /\ plan \in Plans
    /\ workload \in WorkloadStates
    /\ units \in Seq(UnitRow(plan))
    /\ cursor \in [Stages -> CursorRow(plan)]
    /\ generation \in 0..plan.decisions
    /\ replayed \in BOOLEAN

-----------------------------------------------------------------------------
(* The inductive invariant.                                                *)

FreshCursor ==
    [completed |-> FALSE, source |-> 0, position |-> 0, parent |-> 0,
     entry |-> 0, level |-> 0, ord |-> -1, waiting |-> FALSE,
     attention |-> "", count |-> 0]

Untouched(s) == UnitsOf(s) = {} /\ cursor[s] = FreshCursor

\* A stage is not begun before its parents have ended, and an initial stage
\* is done.
Ordered ==
    \A s \in Stages :
        /\ ParentsEnded(s) \/ Untouched(s)
        /\ Initial(s) => cursor[s].completed

\* Rows and cursors name rows that exist, and a cursor counts its rows.
Placed ==
    /\ \A u \in DOMAIN units :
          /\ \A i \in units[u].inputs : i \in 1..(u - 1)
          /\ units[u].gen <= generation
    /\ \A s \in Stages :
          /\ cursor[s].parent <= Len(units)
          /\ cursor[s].count = UnitCount(s)

\* A unit is only given results, and commits only what it made of some.
Fed ==
    \A u \in DOMAIN units :
        /\ \A i \in units[u].inputs : units[i].state = "committed"
        /\ units[u].state = "committed" =>
              Initial(units[u].stage) \/ units[u].inputs # {}

Parents(s) == UNION {Exposed(p) : p \in DependsOn[s]}

SingletonOK(s) == ~cursor[s].completed => UnitsOf(s) = {}

\* One unit for every source up to the cursor.
SourcesOK(s) ==
    /\ \A v \in UnitsOf(s) : units[v].source \in 1..cursor[s].source
    /\ \A k \in 1..cursor[s].source :
          \E v \in UnitsOf(s) : units[v].source = k
    /\ \A v, w \in UnitsOf(s) : units[v].source = units[w].source => v = w
    /\ cursor[s].completed => cursor[s].source = Sources

\* The cursor of s is on parent unit u or after it.
Passed(s, u) ==
    \/ units[u].stage < cursor[s].position
    \/ units[u].stage = cursor[s].position /\ u <= cursor[s].parent

AllPassed(s) == \A u \in Parents(s) : Passed(s, u)

\* Unit v says that parent u has no result.
Reports(v, u) ==
    /\ units[u].state # "committed"
    /\ units[v].inputs = {}
    /\ units[v].shard = Shard("unavailable", u, 0, "")

\* Unit v works on the result of parent u.
Uses(v, u) ==
    /\ units[u].state = "committed"
    /\ units[v].inputs = {u}
    /\ units[v].shard = Shard("result", u, 0, "")

DependencyRows(s) ==
    \A v \in UnitsOf(s) : \E u \in Parents(s) :
        Passed(s, u) /\ (Reports(v, u) \/ Uses(v, u))

DependenciesServed(s) ==
    \A u \in Parents(s) : Passed(s, u) =>
        \E v \in UnitsOf(s) : units[v].shard[2] = u

DependenciesOnce(s) ==
    \A v, w \in UnitsOf(s) : units[v].shard[2] = units[w].shard[2] => v = w

\* One unit for every parent unit up to the cursor.
DependenciesOK(s) ==
    /\ cursor[s].entry = 0
    /\ DependencyRows(s) /\ DependenciesServed(s) /\ DependenciesOnce(s)
    /\ cursor[s].completed => AllPassed(s)

\* How many entries of parent unit u are behind the cursor.
Done(s, u) ==
    IF InEntries(s) /\ u = cursor[s].parent THEN cursor[s].entry - 1
    ELSE IF Passed(s, u) THEN Len(units[u].out.ids) ELSE 0

\* Unit v works on entry e of parent u.
Takes(v, u, e) ==
    /\ units[v].inputs = {u}
    /\ units[v].source = units[u].source
    /\ units[v].shard = Shard("entry", 0, 0, units[u].out.ids[e])

\* A cursor within a parent is on one of its entries.
EntryCursor(s) ==
    InEntries(s) =>
        LET u == cursor[s].parent
        IN  /\ u \in Parents(s) /\ units[u].stage = cursor[s].position
            /\ units[u].state = "committed" /\ units[u].out.array
            /\ cursor[s].entry <= Len(units[u].out.ids)
            /\ ~cursor[s].completed

EntryRows(s) ==
    \A v \in UnitsOf(s) : \E u \in Parents(s) :
        \/ Reports(v, u) /\ Passed(s, u)
        \/ /\ units[u].state = "committed"
           /\ \E e \in 1..Done(s, u) : Takes(v, u, e)

EntriesServed(s) ==
    \A u \in Parents(s) : units[u].state = "committed" =>
        \A e \in 1..Done(s, u) : \E v \in UnitsOf(s) : Takes(v, u, e)

EntriesOnce(s) ==
    \A v, w \in UnitsOf(s) :
        /\ units[v].inputs = units[w].inputs /\ units[v].inputs # {}
        /\ units[v].shard[4] = units[w].shard[4]
        => v = w

EntriesDistinct(s) ==
    \A u \in Parents(s) : units[u].state = "committed" =>
        \A e, f \in 1..Done(s, u) :
            units[u].out.ids[e] = units[u].out.ids[f] => e = f

\* One unit for every entry up to the cursor.
EntriesOK(s) ==
    /\ EntryCursor(s) /\ EntryRows(s) /\ EntriesServed(s)
    /\ EntriesOnce(s) /\ EntriesDistinct(s)
    /\ cursor[s].completed => AllPassed(s)

\* Every input of level l is in a group.
Covered(s, l) ==
    \A i \in LevelInputs(s, l) : \E v \in Level(s, l) : i \in units[v].inputs

\* Unit v is a group of the inputs of its level, at or before the cursor.
IsGroup(s, v) ==
    /\ units[v].shard = Shard("reduction", units[v].level, units[v].ord, "")
    /\ units[v].inputs \subseteq LevelInputs(s, units[v].level)
    /\ units[v].level = cursor[s].level =>
          /\ units[v].ord <= cursor[s].ord
          /\ \A i \in units[v].inputs : i <= cursor[s].parent

GroupRows(s) ==
    \A v \in UnitsOf(s) :
        /\ units[v].level \in 0..cursor[s].level
        /\ IsGroup(s, v) \/ (cursor[s].completed /\ units[v].inputs = {})

GroupsApart(s) ==
    \A v, w \in UnitsOf(s) :
        v # w /\ units[v].level = units[w].level =>
            units[v].inputs \cap units[w].inputs = {}

LevelsCovered(s) ==
    \A l \in 0..cursor[s].level :
        l < cursor[s].level \/ cursor[s].waiting => Covered(s, l)

CursorCovered(s) ==
    \A i \in LevelInputs(s, cursor[s].level) :
        i <= cursor[s].parent =>
            \E v \in Level(s, cursor[s].level) : i \in units[v].inputs

\* The levels below the cursor's are grouped, and its own up to the cursor.
ReductionOK(s) ==
    GroupRows(s) /\ GroupsApart(s) /\ LevelsCovered(s) /\ CursorCovered(s)

\* What the cursor of a stage says of its units, unless the stage is blocked.
StageOK(s) ==
    ~Initial(s) /\ cursor[s].attention = "" =>
        /\ Mode[s] = "singleton" => SingletonOK(s)
        /\ Mode[s] = "per_source" => SourcesOK(s)
        /\ Mode[s] = "per_dependency" => DependenciesOK(s)
        /\ Mode[s] = "entries" => EntriesOK(s)
        /\ Mode[s] = "reduction" => ReductionOK(s)

StagesOK == \A s \in Stages : StageOK(s)

IInv ==
    /\ Types /\ Ordered /\ Placed /\ Fed /\ StagesOK /\ ~replayed

-----------------------------------------------------------------------------
(* The execution of units.                                                 *)

\* What claims, ends and settlements make of row a.
RowStep(a, b) ==
    /\ b.stage = a.stage /\ b.source = a.source /\ b.inputs = a.inputs
    /\ b.shard = a.shard /\ b.level = a.level /\ b.ord = a.ord
    /\ b.root = a.root
    /\ a.state \in Closed => b = a
    /\ a.state = "needs_attention" =>
          \/ b = a
          \/ b.state = "cancelled"
          \/ b.state = "running" /\ a.gen < generation
    /\ b.state = "committed" /\ a.state # "committed" =>
          Initial(a.stage) \/ a.inputs # {}
    /\ a.gen <= generation => b.gen <= generation

\* A step of the workers, of the owner or of the settlement.
Runs ==
    /\ workload' \in WorkloadStates
    /\ units' \in Seq(UnitRow(plan))
    /\ Len(units') = Len(units)
    /\ \A u \in DOMAIN units : RowStep(units[u], units'[u])
    /\ generation' \in generation..plan.decisions
    /\ cursor' = cursor /\ replayed' = replayed /\ plan' = plan

\* What an admitted plan is.
LEMMA AdmittedPlan ==
    ASSUME plan \in Plans
    PROVE  /\ Stages \subseteq Nat /\ IsFiniteSet(Stages)
           /\ Sources \in Nat
           /\ Mode \in [Stages -> {"singleton", "per_source",
                                   "per_dependency", "entries", "reduction"}]
           /\ DependsOn \in [Stages -> SUBSET Stages]
           /\ \A s \in Stages : \A d \in DependsOn[s] : d < s
           /\ \A s \in Stages : Mode[s] = "reduction" =>
                                    Cardinality(DependsOn[s]) = 1
           /\ \A s \in Stages : Initial(s) =>
                                    Mode[s] \in {"singleton", "per_source"}
           /\ plan.cap \in [Stages -> Nat \ {0}]
           /\ plan.fanIn \in Nat \ {0, 1}
           /\ plan.decisions \in Nat
           /\ plan.partial \in BOOLEAN
           /\ \A s \in Stages : plan.payloads[s] \subseteq Payload
  <1> DEFINE stages == DOMAIN plan.mode
  <1>1. plan \in Plans
    OBVIOUS
  <1>2. stages \subseteq Nat
    <2>1. Cardinality(stages) \in Nat /\ stages = 1..Cardinality(stages)
      BY <1>1, PlansAssumption, FS_CardinalityType
    <2>2. QED
      BY <2>1
  <1>3. QED
    BY <1>1, <1>2, PlansAssumption
       DEF Stages, Sources, Mode, DependsOn, Initial, Payload

\* The same, of the plan that is carried out.
LEMMA PlanFacts ==
    ASSUME Types
    PROVE  /\ Stages \subseteq Nat /\ IsFiniteSet(Stages)
           /\ Sources \in Nat
           /\ Mode \in [Stages -> {"singleton", "per_source",
                                   "per_dependency", "entries", "reduction"}]
           /\ DependsOn \in [Stages -> SUBSET Stages]
           /\ \A s \in Stages : \A d \in DependsOn[s] : d < s
           /\ \A s \in Stages : Mode[s] = "reduction" =>
                                    Cardinality(DependsOn[s]) = 1
           /\ \A s \in Stages : Initial(s) =>
                                    Mode[s] \in {"singleton", "per_source"}
           /\ plan.cap \in [Stages -> Nat \ {0}]
           /\ plan.fanIn \in Nat \ {0, 1}
           /\ plan.decisions \in Nat
           /\ plan.partial \in BOOLEAN
           /\ \A s \in Stages : plan.payloads[s] \subseteq Payload
  BY AdmittedPlan DEF Types

\* Rows and cursors are typed, and rows are numbered from 1.
LEMMA RowFacts ==
    ASSUME Types
    PROVE  /\ Len(units) \in Nat
           /\ DOMAIN units = 1..Len(units)
           /\ \A u \in DOMAIN units : units[u] \in UnitRow(plan)
           /\ \A s \in Stages : cursor[s] \in CursorRow(plan)
  BY DEF Types

\* A settlement cancels rows or leaves them alone.
LEMMA SettledRows ==
    ASSUME Types, NEW w \in WorkloadStates, NEW us \in Seq(UnitRow(plan)),
           Settle(w, us)
    PROVE  /\ workload' \in WorkloadStates
           /\ units' \in Seq(UnitRow(plan))
           /\ Len(units') = Len(us)
           /\ \A u \in DOMAIN us :
                 \/ units'[u] = us[u]
                 \/ /\ us[u].state \in {"pending", "needs_attention"}
                    /\ units'[u] = [us[u] EXCEPT !.state = "cancelled"]
  <1>1. /\ workload' \in WorkloadStates
        /\ units' = us \/ units' = CancelWaiting(us)
    BY DEF Settle, WorkloadStates
  <1>2. /\ CancelWaiting(us) \in Seq(UnitRow(plan))
        /\ Len(CancelWaiting(us)) = Len(us)
    <2>1. ASSUME NEW u \in DOMAIN us
          PROVE  CancelWaiting(us)[u] \in UnitRow(plan)
      <3>1. us[u] \in UnitRow(plan)
        OBVIOUS
      <3>2. [us[u] EXCEPT !.state = "cancelled"] \in UnitRow(plan)
        BY <3>1 DEF UnitRow, UnitStates
      <3>3. QED
        BY <3>1, <3>2 DEF CancelWaiting
    <2>2. DOMAIN CancelWaiting(us) = 1..Len(us)
      BY DEF CancelWaiting
    <2>3. QED
      BY <2>1, <2>2 DEF CancelWaiting
  <1>3. \A u \in DOMAIN us : CancelWaiting(us)[u] =
            IF us[u].state \in {"pending", "needs_attention"}
            THEN [us[u] EXCEPT !.state = "cancelled"] ELSE us[u]
    BY DEF CancelWaiting
  <1>4. QED
    BY <1>1, <1>2, <1>3

\* Cancelling a row is a step of it.
LEMMA CancelRow ==
    ASSUME Types, NEW a \in UnitRow(plan),
           a.state \in {"pending", "needs_attention", "running"}
    PROVE  RowStep(a, [a EXCEPT !.state = "cancelled"])
  BY DEF RowStep, UnitRow, Closed, Types

\* A row that stays as it is makes a step of a row.
LEMMA StayRow ==
    ASSUME Types, NEW a \in UnitRow(plan)
    PROVE  RowStep(a, a)
  BY DEF RowStep, UnitRow, Closed, Types

\* The workload settles after row u has become `row`.
LEMMA SettleIsRun ==
    ASSUME Types, NEW w \in WorkloadStates, NEW u \in DOMAIN units,
           NEW row \in UnitRow(plan), RowStep(units[u], row),
           units[u].state = "running" \/ row = units[u],
           Settle(w, [units EXCEPT ![u] = row]),
           UNCHANGED <<cursor, generation, replayed, plan>>
    PROVE  Runs
  <1> DEFINE us == [units EXCEPT ![u] = row]
  <1>1. us \in Seq(UnitRow(plan)) /\ Len(us) = Len(units)
    BY DEF Types
  <1>2. /\ workload' \in WorkloadStates
        /\ units' \in Seq(UnitRow(plan))
        /\ Len(units') = Len(us)
        /\ \A v \in DOMAIN us :
              \/ units'[v] = us[v]
              \/ /\ us[v].state \in {"pending", "needs_attention"}
                 /\ units'[v] = [us[v] EXCEPT !.state = "cancelled"]
    BY <1>1, SettledRows
  <1>3. ASSUME NEW v \in DOMAIN units
        PROVE  RowStep(units[v], units'[v])
    <2>1. v \in DOMAIN us /\ us[v] = (IF v = u THEN row ELSE units[v])
      BY <1>1, RowFacts
    <2>2. units[v] \in UnitRow(plan)
      BY RowFacts
    <2>3. CASE units'[v] = us[v]
      BY <2>1, <2>2, <2>3, StayRow
    <2>4. CASE /\ us[v].state \in {"pending", "needs_attention"}
               /\ units'[v] = [us[v] EXCEPT !.state = "cancelled"]
      <3>1. CASE v # u \/ row = units[u]
        BY <2>1, <2>2, <2>4, <3>1, CancelRow
      <3>2. CASE v = u /\ units[u].state = "running"
        BY <2>1, <2>2, <2>4, <3>2 DEF RowStep, UnitRow, Closed
      <3>3. QED
        BY <3>1, <3>2
    <2>5. QED
      BY <1>2, <2>1, <2>3, <2>4
  <1>4. QED
    BY <1>1, <1>2, <1>3 DEF Runs, Types

\* A claim is a run.
LEMMA ClaimRuns ==
    ASSUME Types, NEW u \in DOMAIN units, Claim(u), plan' = plan
    PROVE  Runs
  <1> DEFINE row == [units[u] EXCEPT
                        !.state = "running", !.error = "",
                        !.gen = IF units[u].state = "needs_attention"
                                THEN generation ELSE @]
  <1>1. units[u] \in UnitRow(plan)
    BY RowFacts
  <1>2. generation \in Nat
    BY PlanFacts DEF Types
  <1>a. "" \in Errors(plan)
    BY DEF Errors
  <1>3. row \in UnitRow(plan)
    BY <1>1, <1>2, <1>a DEF UnitRow, UnitStates
  <1>4. RowStep(units[u], row)
    BY <1>1, <1>2 DEF Claim, RowStep, UnitRow, Closed
  <1>5. units' = [units EXCEPT ![u] = row]
    BY <1>1 DEF Claim, UnitRow
  <1>6. units' \in Seq(UnitRow(plan)) /\ Len(units') = Len(units)
    BY <1>3, <1>5 DEF Types
  <1>7. ASSUME NEW v \in DOMAIN units
        PROVE  RowStep(units[v], units'[v])
    <2>1. units'[v] = IF v = u THEN row ELSE units[v]
      BY <1>5, RowFacts
    <2>2. QED
      BY <1>4, <2>1, RowFacts, StayRow
  <1>8. workload' \in WorkloadStates /\ generation \in generation..plan.decisions
    BY PlanFacts DEF Claim, WorkloadStates, Types
  <1>9. QED
    BY <1>6, <1>7, <1>8 DEF Runs, Claim

\* So is the end of an execution, however it ends.
LEMMA EndRuns ==
    ASSUME Types, NEW u \in DOMAIN units, plan' = plan,
           Commit(u) \/ FailPermanent(u) \/ NeedAttention(u) \/ Retry(u)
    PROVE  Runs
  <1>1. units[u] \in UnitRow(plan)
    BY RowFacts
  <1>2. units[u].stage \in Stages
    BY <1>1 DEF UnitRow, Stages
  <1>3. PICK row \in UnitRow(plan) :
            End(u, row) /\ (units[u].state = "running" => RowStep(units[u], row))
    <2>1. CASE Commit(u)
      <3>1. PICK out \in plan.payloads[units[u].stage] :
                /\ HasInputs(u)
                /\ End(u, [units[u] EXCEPT !.state = "committed", !.out = out])
        BY <2>1 DEF Commit
      <3>2. out \in Payload
        BY <1>2, PlanFacts
      <3>3. [units[u] EXCEPT !.state = "committed", !.out = out]
                \in UnitRow(plan)
        BY <1>1, <3>2 DEF UnitRow, UnitStates
      <3>4. units[u].state = "running" =>
                RowStep(units[u],
                        [units[u] EXCEPT !.state = "committed", !.out = out])
        BY <1>1, <3>1 DEF RowStep, UnitRow, Closed, HasInputs
      <3>5. QED
        BY <3>1, <3>3, <3>4
    <2>2. CASE FailPermanent(u)
      <3>1. PICK error \in plan.failures \cup {"contract_violation"} :
                End(u, [units[u] EXCEPT !.state = "failed_permanent",
                                        !.error = error])
        BY <2>2 DEF FailPermanent
      <3>2. error \in Errors(plan)
        BY DEF Errors
      <3>3. [units[u] EXCEPT !.state = "failed_permanent", !.error = error]
                \in UnitRow(plan)
        BY <1>1, <3>2 DEF UnitRow, UnitStates
      <3>4. units[u].state = "running" =>
                RowStep(units[u], [units[u] EXCEPT !.state = "failed_permanent",
                                                   !.error = error])
        BY <1>1 DEF RowStep, UnitRow, Closed
      <3>5. QED
        BY <3>1, <3>3, <3>4
    <2>3. CASE NeedAttention(u)
      <3>1. PICK error \in plan.attentions :
                End(u, [units[u] EXCEPT !.state = "needs_attention",
                                        !.error = error, !.gen = generation])
        BY <2>3 DEF NeedAttention
      <3>2. generation \in Nat
        BY PlanFacts DEF Types
      <3>6. error \in Errors(plan)
        BY DEF Errors
      <3>3. [units[u] EXCEPT !.state = "needs_attention", !.error = error,
                             !.gen = generation] \in UnitRow(plan)
        BY <1>1, <3>2, <3>6 DEF UnitRow, UnitStates
      <3>4. units[u].state = "running" =>
                RowStep(units[u], [units[u] EXCEPT !.state = "needs_attention",
                                        !.error = error, !.gen = generation])
        BY <1>1, <3>2 DEF RowStep, UnitRow, Closed
      <3>5. QED
        BY <3>1, <3>3, <3>4
    <2>4. CASE Retry(u)
      <3>1. [units[u] EXCEPT !.state = "pending"] \in UnitRow(plan)
        BY <1>1 DEF UnitRow, UnitStates
      <3>2. units[u].state = "running" =>
                RowStep(units[u], [units[u] EXCEPT !.state = "pending"])
        BY <1>1 DEF RowStep, UnitRow, Closed
      <3>3. QED
        BY <2>4, <3>1, <3>2 DEF Retry
    <2>5. QED
      BY <2>1, <2>2, <2>3, <2>4
  <1>4. /\ units[u].state = "running"
        /\ Settle(workload, [units EXCEPT ![u] = row])
        /\ UNCHANGED <<cursor, generation, replayed>>
    BY <1>3 DEF End
  <1>5. workload \in WorkloadStates
    BY DEF Types
  <1>6. QED
    BY <1>3, <1>4, <1>5, SettleIsRun

\* So are the steps of the owner, of the settlement and of the completion.
LEMMA OwnerRuns ==
    ASSUME Types, plan' = plan,
           SettleWorkload \/ ResolveRetry \/ Cancel \/ Complete
    PROVE  Runs
  <1>1. \A u \in DOMAIN units : RowStep(units[u], units[u])
    BY RowFacts, StayRow
  <1>2. generation \in Nat /\ generation \in generation..plan.decisions
    BY PlanFacts DEF Types
  <1>3. ASSUME NEW w \in WorkloadStates, Settle(w, units),
               UNCHANGED <<cursor, generation, replayed>>
        PROVE  Runs
    <2>1. units \in Seq(UnitRow(plan))
      BY DEF Types
    <2>2. /\ workload' \in WorkloadStates
          /\ units' \in Seq(UnitRow(plan))
          /\ Len(units') = Len(units)
          /\ \A v \in DOMAIN units :
                \/ units'[v] = units[v]
                \/ /\ units[v].state \in {"pending", "needs_attention"}
                   /\ units'[v] = [units[v] EXCEPT !.state = "cancelled"]
      BY <1>3, <2>1, SettledRows
    <2>3. ASSUME NEW v \in DOMAIN units
          PROVE  RowStep(units[v], units'[v])
      BY <1>1, <2>2, RowFacts, CancelRow
    <2>4. QED
      BY <1>2, <1>3, <2>2, <2>3 DEF Runs
  <1>4. CASE SettleWorkload
    BY <1>3, <1>4 DEF SettleWorkload, Types
  <1>5. CASE Cancel
    <2>1. "cancel_requested" \in WorkloadStates
      BY DEF WorkloadStates
    <2>2. QED
      BY <1>3, <1>5, <2>1 DEF Cancel
  <1>6. CASE ResolveRetry
    <2>1. generation' \in generation..plan.decisions
      BY <1>2, <1>6, PlanFacts DEF ResolveRetry, Types
    <2>2. QED
      BY <1>1, <1>6, <2>1 DEF ResolveRetry, Runs, WorkloadStates, Types
  <1>7. CASE Complete
    BY <1>1, <1>2, <1>7 DEF Complete, Runs, WorkloadStates, Types
  <1>8. QED
    BY <1>4, <1>5, <1>6, <1>7

\* Every step that does not materialise is one of the workers, of the owner
\* or of the settlement.
LEMMA NextCases ==
    ASSUME Types, Next
    PROVE  Runs \/ (\E s \in Stages : Materialize(s) /\ plan' = plan)
  BY ClaimRuns, EndRuns, OwnerRuns DEF Next, Step

-----------------------------------------------------------------------------
(* What a step of either kind leaves alone.                                *)

\* A row that a stage may add, and a cursor it may save.
GoodRow(s, row) ==
    /\ row \in UnitRow(plan) /\ row.stage = s
    /\ row.gen = generation /\ row.state # "committed"
    /\ \A i \in row.inputs : i \in DOMAIN units /\ units[i].state = "committed"

GoodCursor(s, c) ==
    /\ c \in CursorRow(plan) /\ c.parent <= Len(units)
    /\ c.count = cursor[s].count

\* A step of stage s: it saves a cursor, and may add a row or expose a root.
Works(s) ==
    /\ Ready(s)
    /\ plan' = plan /\ workload' = workload /\ generation' = generation
    /\ replayed' = replayed
    /\ \E c : GoodCursor(s, c) /\
          \/ /\ units' = units
             /\ cursor' = [cursor EXCEPT ![s] = c]
          \/ /\ \E row : GoodRow(s, row) /\ units' = Append(units, row)
             /\ cursor' = [cursor EXCEPT ![s] = [c EXCEPT !.count = @ + 1]]
          \/ /\ \E r \in UnitsOf(s) : units' = [units EXCEPT ![r].root = TRUE]
             /\ cursor' = [cursor EXCEPT ![s] = c]

SameShape(a, b) ==
    /\ b.stage = a.stage /\ b.source = a.source /\ b.inputs = a.inputs
    /\ b.shard = a.shard /\ b.level = a.level /\ b.ord = a.ord
    /\ b.root = a.root

\* Stage s keeps its cursor and the place of its units.
Kept(s) ==
    /\ cursor'[s] = cursor[s]
    /\ UnitsOf(s)' = UnitsOf(s)
    /\ \A u \in UnitsOf(s) : SameShape(units[u], units'[u])

\* The parents of stage s keep their rows.
Frozen(s) ==
    \A p \in DependsOn[s] :
        /\ cursor'[p] = cursor[p]
        /\ UnitsOf(p)' = UnitsOf(p)
        /\ \A u \in UnitsOf(p) : units'[u] = units[u]

\* What is read off the plan does not change.
LEMMA SamePlan ==
    ASSUME plan' = plan
    PROVE  /\ Stages' = Stages /\ Mode' = Mode /\ DependsOn' = DependsOn
           /\ Sources' = Sources
           /\ \A s : Initial(s)' = Initial(s)
  BY DEF Stages, Mode, DependsOn, Sources, Initial

\* A row is added.
LEMMA AppendFacts ==
    ASSUME Types, NEW row \in UnitRow(plan), units' = Append(units, row)
    PROVE  /\ units' \in Seq(UnitRow(plan))
           /\ Len(units') = Len(units) + 1
           /\ DOMAIN units' = 1..(Len(units) + 1)
           /\ Len(units) + 1 \notin DOMAIN units
           /\ units'[Len(units) + 1] = row
           /\ \A u \in DOMAIN units : u \in DOMAIN units' /\ units'[u] = units[u]
           /\ UnitsOf(row.stage)' = UnitsOf(row.stage) \cup {Len(units) + 1}
           /\ \A t : t # row.stage => UnitsOf(t)' = UnitsOf(t)
  <1>1. /\ units' \in Seq(UnitRow(plan))
        /\ Len(units') = Len(units) + 1
        /\ DOMAIN units' = 1..(Len(units) + 1)
        /\ DOMAIN units = 1..Len(units)
        /\ Len(units) \in Nat
        /\ units'[Len(units) + 1] = row
        /\ \A u \in 1..Len(units) : units'[u] = units[u]
    BY DEF Types
  <1>2. QED
    BY <1>1 DEF UnitsOf

\* A root is exposed.
LEMMA RootFacts ==
    ASSUME Types, NEW s \in Stages, NEW r \in UnitsOf(s),
           units' = [units EXCEPT ![r].root = TRUE]
    PROVE  /\ units' \in Seq(UnitRow(plan))
           /\ Len(units') = Len(units)
           /\ DOMAIN units' = DOMAIN units
           /\ units'[r] = [units[r] EXCEPT !.root = TRUE]
           /\ \A u \in DOMAIN units : u # r => units'[u] = units[u]
           /\ \A u \in DOMAIN units :
                 /\ units'[u].stage = units[u].stage
                 /\ units'[u].source = units[u].source
                 /\ units'[u].inputs = units[u].inputs
                 /\ units'[u].shard = units[u].shard
                 /\ units'[u].level = units[u].level
                 /\ units'[u].ord = units[u].ord
                 /\ units'[u].state = units[u].state
                 /\ units'[u].gen = units[u].gen
                 /\ units'[u].out = units[u].out
           /\ \A t : UnitsOf(t)' = UnitsOf(t)
  <1>1. r \in DOMAIN units
    BY DEF UnitsOf
  <1>2. units[r] \in UnitRow(plan)
    BY <1>1, RowFacts
  <1>3. units' = [units EXCEPT ![r] = [units[r] EXCEPT !.root = TRUE]]
    BY <1>1, <1>2 DEF UnitRow
  <1>4. [units[r] EXCEPT !.root = TRUE] \in UnitRow(plan)
    BY <1>2 DEF UnitRow
  <1>5. /\ units' \in Seq(UnitRow(plan))
        /\ Len(units') = Len(units)
        /\ DOMAIN units' = DOMAIN units
        /\ units'[r] = [units[r] EXCEPT !.root = TRUE]
        /\ \A u \in DOMAIN units : u # r => units'[u] = units[u]
    BY <1>1, <1>3, <1>4 DEF Types
  <1>6. ASSUME NEW u \in DOMAIN units
        PROVE  /\ units'[u].stage = units[u].stage
               /\ units'[u].source = units[u].source
               /\ units'[u].inputs = units[u].inputs
               /\ units'[u].shard = units[u].shard
               /\ units'[u].level = units[u].level
               /\ units'[u].ord = units[u].ord
               /\ units'[u].state = units[u].state
               /\ units'[u].gen = units[u].gen
               /\ units'[u].out = units[u].out
    BY <1>2, <1>5 DEF UnitRow
  <1>7. QED
    BY <1>5, <1>6 DEF UnitsOf

\* A step of stage s touches no other stage.
LEMMA WorksElsewhere ==
    ASSUME Types, NEW s \in Stages, Works(s), NEW t \in Stages, t # s
    PROVE  /\ cursor'[t] = cursor[t]
           /\ UnitsOf(t)' = UnitsOf(t)
           /\ \A u \in UnitsOf(t) : units'[u] = units[u]
  <1>1. cursor'[t] = cursor[t]
    BY DEF Works, Types
  <1>2. CASE units' = units
    BY <1>1, <1>2 DEF UnitsOf
  <1>3. CASE \E row : GoodRow(s, row) /\ units' = Append(units, row)
    <2>1. PICK row : GoodRow(s, row) /\ units' = Append(units, row)
      BY <1>3
    <2>2. row \in UnitRow(plan) /\ row.stage = s
      BY <2>1 DEF GoodRow
    <2>3. QED
      BY <1>1, <2>1, <2>2, AppendFacts DEF UnitsOf
  <1>4. CASE \E r \in UnitsOf(s) : units' = [units EXCEPT ![r].root = TRUE]
    <2>1. PICK r \in UnitsOf(s) : units' = [units EXCEPT ![r].root = TRUE]
      BY <1>4
    <2>2. \A u \in UnitsOf(t) : u \in DOMAIN units /\ u # r
      BY DEF UnitsOf
    <2>3. QED
      BY <1>1, <2>1, <2>2, RootFacts
  <1>5. QED
    BY <1>2, <1>3, <1>4 DEF Works

\* A run keeps the place of every unit, and the rows that are closed.
LEMMA RunsEverywhere ==
    ASSUME Types, Runs, NEW t \in Stages
    PROVE  /\ Kept(t)
           /\ \A u \in UnitsOf(t) :
                 units[u].state \in Closed => units'[u] = units[u]
  <1>1. DOMAIN units' = DOMAIN units
    BY DEF Runs, Types
  <1>2. \A u \in DOMAIN units : RowStep(units[u], units'[u])
    BY DEF Runs
  <1>3. UnitsOf(t)' = UnitsOf(t)
    BY <1>1, <1>2 DEF UnitsOf, RowStep
  <1>4. QED
    BY <1>2, <1>3 DEF Runs, Kept, SameShape, RowStep, UnitsOf

\* Ended parents stay as they are.
LEMMA ParentsFrozen ==
    ASSUME Types, Runs \/ (\E s \in Stages : Works(s)),
           NEW t \in Stages, ParentsEnded(t)
    PROVE  Frozen(t)
  <1> SUFFICES ASSUME NEW p \in DependsOn[t]
               PROVE  /\ cursor'[p] = cursor[p]
                      /\ UnitsOf(p)' = UnitsOf(p)
                      /\ \A u \in UnitsOf(p) : units'[u] = units[u]
    BY DEF Frozen
  <1>1. p \in Stages
    BY PlanFacts
  <1>2. cursor[p].completed
    BY DEF ParentsEnded
  <1>3. \A u \in UnitsOf(p) : units[u].state \in Closed
    <2>1. \A u \in UnitsOf(p) : units[u].state \in UnitStates
      BY RowFacts DEF UnitsOf, UnitRow
    <2>2. QED
      BY <2>1 DEF ParentsEnded, Open, UnitStates, Closed
  <1>4. CASE Runs
    BY <1>1, <1>3, <1>4, RunsEverywhere DEF Kept
  <1>5. CASE \E s \in Stages : Works(s)
    <2>1. PICK s \in Stages : Works(s)
      BY <1>5
    <2>2. p # s
      BY <1>2, <2>1 DEF Works, Ready
    <2>3. QED
      BY <1>1, <2>1, <2>2, WorksElsewhere
  <1>6. QED
    BY <1>4, <1>5

\* Types, order, places and inputs are kept by both kinds of step.
LEMMA TypesKept ==
    ASSUME Types, Runs \/ (\E s \in Stages : Works(s))
    PROVE  Types'
  <1>1. CASE Runs
    <2>1. generation' \in 0..plan.decisions
      BY <1>1, PlanFacts DEF Runs, Types
    <2>2. QED
      BY <1>1, <2>1 DEF Runs, Types, Stages
  <1>2. CASE \E s \in Stages : Works(s)
    <2>1. PICK s \in Stages : Works(s)
      BY <1>2
    <2>2. units' \in Seq(UnitRow(plan))
      BY <2>1, AppendFacts, RootFacts DEF Works, GoodRow, Types
    <2>3. cursor' \in [Stages -> CursorRow(plan)]
      <3>1. PICK c : /\ GoodCursor(s, c)
                     /\ \/ cursor' = [cursor EXCEPT ![s] = c]
                        \/ cursor' = [cursor EXCEPT ![s] =
                                         [c EXCEPT !.count = @ + 1]]
        BY <2>1 DEF Works
      <3>2. c \in CursorRow(plan) /\ [c EXCEPT !.count = @ + 1] \in CursorRow(plan)
        BY <3>1 DEF GoodCursor, CursorRow
      <3>3. QED
        BY <3>1, <3>2 DEF Types
    <2>4. QED
      BY <2>1, <2>2, <2>3 DEF Works, Types, Stages
  <1>3. QED
    BY <1>1, <1>2

LEMMA OrderedKept ==
    ASSUME Types, Ordered, Runs \/ (\E s \in Stages : Works(s))
    PROVE  Ordered'
  <1> SUFFICES ASSUME NEW t \in Stages
               PROVE  ParentsEnded(t)' \/ Untouched(t)'
    <2>1. Stages' = Stages
      BY SamePlan DEF Runs, Works
    <2>2. ASSUME NEW s \in Stages, Initial(s)
          PROVE  cursor'[s].completed
      <3>1. cursor[s].completed
        BY <2>2 DEF Ordered
      <3>2. \A r \in Stages : Works(r) => r # s
        BY <3>1 DEF Works, Ready
      <3>3. cursor'[s] = cursor[s]
        BY <3>2, WorksElsewhere, RunsEverywhere DEF Kept
      <3>4. QED
        BY <3>1, <3>3
    <2>3. \A s : Initial(s)' = Initial(s)
      BY SamePlan DEF Runs, Works
    <2>4. QED
      BY <2>1, <2>2, <2>3 DEF Ordered
  <1>1. DependsOn' = DependsOn
    BY SamePlan DEF Runs, Works
  <1>2. CASE ParentsEnded(t)
    <2>1. Frozen(t)
      BY <1>2, ParentsFrozen
    <2>2. QED
      BY <1>1, <1>2, <2>1 DEF ParentsEnded, Frozen
  <1>3. CASE ~ParentsEnded(t)
    <2>1. Untouched(t)
      BY <1>3 DEF Ordered
    <2>2. \A s \in Stages : Works(s) => s # t
      BY <1>3 DEF Works, Ready
    <2>3. cursor'[t] = cursor[t] /\ UnitsOf(t)' = UnitsOf(t)
      BY <2>2, WorksElsewhere, RunsEverywhere DEF Kept
    <2>4. QED
      BY <2>1, <2>3 DEF Untouched
  <1>4. QED
    BY <1>2, <1>3

\* Closed rows are never changed, but for the mark of a root.
LEMMA CommittedKept ==
    ASSUME Types, Runs \/ (\E s \in Stages : Works(s)),
           NEW u \in DOMAIN units
    PROVE  /\ u \in DOMAIN units'
           /\ units[u].state = "committed" =>
                 units'[u].state = "committed" /\ units'[u].out = units[u].out
           /\ units'[u].inputs = units[u].inputs
           /\ units'[u].stage = units[u].stage
           /\ units'[u].level = units[u].level
           /\ units[u].root => units'[u].root
           /\ generation <= generation'
           /\ units[u].gen <= generation => units'[u].gen <= generation'
  <1>1. units[u] \in UnitRow(plan) /\ generation \in Nat
    BY RowFacts, PlanFacts DEF Types
  <1>2. CASE Runs
    <2>1. DOMAIN units' = DOMAIN units /\ RowStep(units[u], units'[u])
      BY <1>2 DEF Runs, Types
    <2>2. generation' \in Int /\ generation <= generation'
      BY <1>1, <1>2, PlanFacts DEF Runs
    <2>3. units'[u] \in UnitRow(plan)
      BY <1>2, <2>1 DEF Runs
    <2>4. units'[u].gen \in Nat /\ units[u].gen \in Nat
      BY <1>1, <2>3 DEF UnitRow
    <2>5. QED
      BY <1>1, <2>1, <2>2, <2>4 DEF RowStep, Closed
  <1>3. CASE \E s \in Stages : Works(s)
    <2>1. PICK s \in Stages : Works(s)
      BY <1>3
    <2>2. generation' = generation
      BY <2>1 DEF Works
    <2>3. CASE units' = units
      BY <1>1, <2>2, <2>3
    <2>4. CASE \E row : GoodRow(s, row) /\ units' = Append(units, row)
      BY <1>1, <2>2, <2>4, AppendFacts DEF GoodRow
    <2>5. CASE \E r \in UnitsOf(s) : units' = [units EXCEPT ![r].root = TRUE]
      <3>1. PICK r \in UnitsOf(s) : units' = [units EXCEPT ![r].root = TRUE]
        BY <2>5
      <3>2. units[u].root => units'[u].root
        BY <1>1, <3>1, RootFacts DEF UnitRow
      <3>3. QED
        BY <1>1, <2>2, <3>1, <3>2, RootFacts
    <2>6. QED
      BY <2>1, <2>3, <2>4, <2>5 DEF Works
  <1>4. QED
    BY <1>2, <1>3

LEMMA FedKept ==
    ASSUME Types, Placed, Fed, Runs \/ (\E s \in Stages : Works(s))
    PROVE  Fed'
  <1>1. DependsOn' = DependsOn
    BY SamePlan DEF Runs, Works
  <1>2. ASSUME NEW u \in DOMAIN units, NEW i \in units[u].inputs
        PROVE  i \in DOMAIN units /\ units'[i].state = "committed"
    <2>1. i \in DOMAIN units /\ units[i].state = "committed"
      BY RowFacts DEF Placed, Fed
    <2>2. QED
      BY <2>1, CommittedKept
  <1>3. ASSUME NEW u \in DOMAIN units, units'[u].state = "committed"
        PROVE  Initial(units[u].stage) \/ units[u].inputs # {}
    <2>1. CASE units[u].state = "committed"
      BY <2>1 DEF Fed
    <2>2. CASE units[u].state # "committed"
      <3>1. CASE Runs
        BY <1>3, <2>2, <3>1 DEF Runs, RowStep
      <3>2. CASE \E s \in Stages : Works(s)
        BY <1>3, <2>2, <3>2, AppendFacts, RootFacts DEF Works, GoodRow
      <3>3. QED
        BY <3>1, <3>2
    <2>3. QED
      BY <2>1, <2>2
  <1>4. ASSUME NEW u \in DOMAIN units', u \notin DOMAIN units
        PROVE  /\ \A i \in units'[u].inputs : units'[i].state = "committed"
               /\ units'[u].state # "committed"
    <2>1. ~Runs
      BY <1>4 DEF Runs, Types
    <2>2. PICK s \in Stages : Works(s)
      BY <2>1
    <2>3. PICK row : GoodRow(s, row) /\ units' = Append(units, row)
      BY <1>4, <2>2, RootFacts DEF Works
    <2>4. units'[u] = row
      BY <1>4, <2>3, AppendFacts, RowFacts DEF GoodRow
    <2>5. QED
      BY <2>2, <2>3, <2>4, CommittedKept DEF GoodRow
  <1>5. ASSUME NEW u \in DOMAIN units'
        PROVE  /\ \A i \in units'[u].inputs : units'[i].state = "committed"
               /\ units'[u].state = "committed" =>
                     DependsOn'[units'[u].stage] = {} \/ units'[u].inputs # {}
    <2>1. CASE u \in DOMAIN units
      BY <1>1, <1>2, <1>3, <2>1, CommittedKept DEF Initial
    <2>2. CASE u \notin DOMAIN units
      BY <1>4, <2>2
    <2>3. QED
      BY <2>1, <2>2
  <1>6. QED
    BY <1>5 DEF Fed, Initial

\* Units of one stage are finitely many, and an added one counts.
LEMMA UnitCounts ==
    ASSUME Types, NEW s
    PROVE  /\ IsFiniteSet(DOMAIN units)
           /\ IsFiniteSet(UnitsOf(s))
           /\ UnitCount(s) \in Nat
           /\ \A u : u \notin UnitsOf(s) =>
                 /\ IsFiniteSet(UnitsOf(s) \cup {u})
                 /\ Cardinality(UnitsOf(s) \cup {u}) = UnitCount(s) + 1
  <1>1. IsFiniteSet(DOMAIN units)
    BY RowFacts, FS_Interval
  <1>2. UnitsOf(s) \in SUBSET (DOMAIN units)
    BY DEF UnitsOf
  <1>3. IsFiniteSet(UnitsOf(s))
    BY <1>1, <1>2, FS_Subset
  <1>4. QED
    BY <1>1, <1>3, FS_CardinalityType, FS_AddElement DEF UnitCount

LEMMA PlacedKept ==
    ASSUME Types, Placed, Runs \/ (\E s \in Stages : Works(s))
    PROVE  Placed'
  <1>1. Stages' = Stages
    BY SamePlan DEF Runs, Works
  <1>2. Len(units) \in Nat /\ DOMAIN units = 1..Len(units)
    BY RowFacts
  <1>3. ASSUME NEW u \in DOMAIN units'
        PROVE  /\ \A i \in units'[u].inputs : i \in 1..(u - 1)
               /\ units'[u].gen <= generation'
    <2>1. CASE u \in DOMAIN units
      BY <2>1, CommittedKept DEF Placed
    <2>2. CASE u \notin DOMAIN units
      <3>1. ~Runs
        BY <1>3, <2>2 DEF Runs, Types
      <3>2. PICK s \in Stages : Works(s)
        BY <3>1
      <3>3. PICK row : GoodRow(s, row) /\ units' = Append(units, row)
        BY <1>3, <2>2, <3>2, RootFacts DEF Works
      <3>4. units'[u] = row /\ u = Len(units) + 1
        BY <1>2, <1>3, <2>2, <3>3, AppendFacts DEF GoodRow
      <3>5. row.gen = generation /\ generation' = generation /\ generation \in Nat
        BY <3>2, <3>3, PlanFacts DEF GoodRow, Works, Types
      <3>6. \A i \in row.inputs : i \in 1..(u - 1)
        BY <1>2, <3>3, <3>4 DEF GoodRow
      <3>7. QED
        BY <3>4, <3>5, <3>6
    <2>3. QED
      BY <2>1, <2>2
  <1>4. ASSUME NEW t \in Stages
        PROVE  cursor'[t].parent <= Len(units') /\ cursor'[t].count = UnitCount(t)'
    <2>0. cursor[t] \in CursorRow(plan) /\ cursor[t].parent <= Len(units)
          /\ cursor[t].count = UnitCount(t)
      BY RowFacts DEF Placed
    <2>1. CASE Runs
      <3>1. cursor'[t] = cursor[t] /\ Len(units') = Len(units)
            /\ UnitsOf(t)' = UnitsOf(t)
        BY <2>1, RunsEverywhere DEF Runs, Kept
      <3>2. QED
        BY <2>0, <3>1 DEF UnitCount
    <2>2. ASSUME NEW s \in Stages, Works(s)
          PROVE  cursor'[t].parent <= Len(units')
                 /\ cursor'[t].count = UnitCount(t)'
      <3>0. Len(units') \in Nat /\ Len(units) <= Len(units')
        BY <1>2, <2>2, AppendFacts, RootFacts DEF Works, GoodRow
      <3>1. CASE t # s
        <4>1. cursor'[t] = cursor[t] /\ UnitsOf(t)' = UnitsOf(t)
          BY <2>2, <3>1, WorksElsewhere
        <4>2. cursor[t].parent \in Nat
          BY <2>0 DEF CursorRow
        <4>3. QED
          BY <1>2, <2>0, <3>0, <4>1, <4>2 DEF UnitCount
      <3>2. CASE t = s
        <4>1. PICK c : GoodCursor(s, c) /\
                \/ /\ units' = units
                   /\ cursor' = [cursor EXCEPT ![s] = c]
                \/ /\ \E row : GoodRow(s, row) /\ units' = Append(units, row)
                   /\ cursor' = [cursor EXCEPT ![s] = [c EXCEPT !.count = @ + 1]]
                \/ /\ \E r \in UnitsOf(s) :
                          units' = [units EXCEPT ![r].root = TRUE]
                   /\ cursor' = [cursor EXCEPT ![s] = c]
          BY <2>2 DEF Works
        <4>2. c.parent \in Nat /\ c.parent <= Len(units)
              /\ c.count = UnitCount(s) /\ c \in CursorRow(plan)
          BY <2>0, <3>2, <4>1 DEF GoodCursor, CursorRow
        <4>3. CASE cursor' = [cursor EXCEPT ![s] = c] /\ UnitsOf(s)' = UnitsOf(s)
          <5>1. cursor'[s] = c
            BY <4>3 DEF Types
          <5>2. QED
            BY <1>2, <3>0, <3>2, <4>2, <4>3, <5>1 DEF UnitCount
        <4>4. CASE /\ \E row : GoodRow(s, row) /\ units' = Append(units, row)
                   /\ cursor' = [cursor EXCEPT ![s] = [c EXCEPT !.count = @ + 1]]
          <5>1. cursor'[s] = [c EXCEPT !.count = @ + 1]
            BY <4>4 DEF Types
          <5>2. cursor'[s].parent = c.parent /\ cursor'[s].count = UnitCount(s) + 1
            BY <4>2, <5>1 DEF CursorRow
          <5>3. /\ UnitsOf(s)' = UnitsOf(s) \cup {Len(units) + 1}
                /\ Len(units) + 1 \notin UnitsOf(s)
            BY <4>4, AppendFacts DEF GoodRow, UnitsOf
          <5>4. UnitCount(s)' = UnitCount(s) + 1
            <6>1. Cardinality(UnitsOf(s) \cup {Len(units) + 1}) = UnitCount(s) + 1
              BY <5>3, UnitCounts
            <6>2. QED
              BY <5>3, <6>1 DEF UnitCount
          <5>5. QED
            BY <1>2, <3>0, <3>2, <4>2, <5>2, <5>4
        <4>5. QED
          BY <4>1, <4>3, <4>4, RootFacts DEF UnitsOf
      <3>3. QED
        BY <3>1, <3>2
    <2>3. QED
      BY <2>1, <2>2
  <1>5. QED
    BY <1>1, <1>3, <1>4 DEF Placed

-----------------------------------------------------------------------------
(* A stage that does nothing.                                              *)

\* The parents of a stage are rows.
LEMMA ParentFacts ==
    ASSUME Types, NEW s \in Stages, NEW u
    PROVE  u \in Parents(s) <=>
              /\ u \in DOMAIN units
              /\ units[u].stage \in DependsOn[s]
              /\ Mode[units[u].stage] = "reduction" => units[u].root
  BY DEF Parents, Exposed, UnitsOf

\* Frozen parents are the same parents.
LEMMA FrozenParents ==
    ASSUME Types, plan' = plan, NEW s \in Stages, Frozen(s)
    PROVE  /\ Parents(s)' = Parents(s)
           /\ \A u \in Parents(s) :
                 units'[u] = units[u] /\ u \in DOMAIN units /\ u \in DOMAIN units'
           /\ \A p \in DependsOn[s] : Exposed(p)' = Exposed(p)
  <1>1. DependsOn' = DependsOn /\ Mode' = Mode
    BY SamePlan
  <1>2. ASSUME NEW p \in DependsOn[s]
        PROVE  /\ Exposed(p)' = Exposed(p)
               /\ \A u \in Exposed(p) : /\ units'[u] = units[u]
                                        /\ u \in DOMAIN units /\ u \in DOMAIN units'
    <2>1. UnitsOf(p)' = UnitsOf(p) /\ \A u \in UnitsOf(p) : units'[u] = units[u]
      BY DEF Frozen
    <2>2. \A u \in UnitsOf(p) : u \in DOMAIN units /\ u \in DOMAIN units'
      BY <2>1 DEF UnitsOf
    <2>3. QED
      BY <1>1, <2>1, <2>2 DEF Exposed
  <1>3. Parents(s)' = UNION {Exposed(p)' : p \in DependsOn[s]}
    BY <1>1 DEF Parents
  <1>4. QED
    BY <1>2, <1>3 DEF Parents

\* A stage that has not begun is in order, whatever its mode.
LEMMA UntouchedOK ==
    Types => \A t \in Stages : Untouched(t) => StageOK(t)
  <1> SUFFICES ASSUME Types, NEW t \in Stages, Untouched(t)
               PROVE  StageOK(t)
    OBVIOUS
  <1>1. /\ UnitsOf(t) = {}
        /\ ~cursor[t].completed /\ cursor[t].source = 0
        /\ cursor[t].position = 0 /\ cursor[t].parent = 0
        /\ cursor[t].entry = 0 /\ cursor[t].level = 0
        /\ cursor[t].ord = -1 /\ ~cursor[t].waiting
    <2>1. UnitsOf(t) = {} /\ cursor[t] = FreshCursor
      BY DEF Untouched, FreshCursor
    <2>2. ~FreshCursor.completed
      BY DEF FreshCursor
    <2>3. ~FreshCursor.waiting
      BY DEF FreshCursor
    <2>4. /\ FreshCursor.source = 0 /\ FreshCursor.position = 0
          /\ FreshCursor.parent = 0 /\ FreshCursor.entry = 0
          /\ FreshCursor.level = 0 /\ FreshCursor.ord = -1
      BY DEF FreshCursor
    <2>5. QED
      BY <2>1, <2>2, <2>3, <2>4
  <1>2. \A u \in Parents(t) : units[u].stage \in Nat \ {0} /\ u \in Nat \ {0}
    <2>1. \A u \in Parents(t) : u \in DOMAIN units
      BY DEF Parents, Exposed, UnitsOf
    <2>2. \A u \in DOMAIN units : u \in Nat \ {0} /\ units[u] \in UnitRow(plan)
      BY DEF Types
    <2>3. DOMAIN plan.mode \subseteq Nat \ {0}
      <3>1. plan \in Plans
        BY DEF Types
      <3>2. /\ Cardinality(DOMAIN plan.mode) \in Nat
            /\ DOMAIN plan.mode = 1..Cardinality(DOMAIN plan.mode)
        BY <3>1, PlansAssumption, FS_CardinalityType
      <3>3. QED
        BY <3>2
    <2>4. QED
      BY <2>1, <2>2, <2>3 DEF UnitRow
  <1>3. \A u \in Parents(t) : ~Passed(t, u)
    BY <1>1, <1>2 DEF Passed
  <1>4. SingletonOK(t) /\ SourcesOK(t)
    BY <1>1 DEF SingletonOK, SourcesOK
  <1>5. DependenciesOK(t)
    BY <1>1, <1>3 DEF DependenciesOK, DependencyRows, DependenciesServed,
                      DependenciesOnce
  <1>6. \A u \in Parents(t) : Done(t, u) = 0
    BY <1>1, <1>3 DEF Done, InEntries
  <1>7. EntriesOK(t)
    BY <1>1, <1>6 DEF EntriesOK, EntryCursor, EntryRows, EntriesServed,
                      EntriesOnce, EntriesDistinct, InEntries
  <1>8. ReductionOK(t)
    <2>1. \A i \in LevelInputs(t, 0) : i \in Nat \ {0}
      BY <1>2 DEF LevelInputs, Parents
    <2>2. QED
      BY <1>1, <2>1 DEF ReductionOK, GroupRows, GroupsApart, LevelsCovered,
                        CursorCovered
  <1>9. QED
    BY <1>4, <1>5, <1>7, <1>8 DEF StageOK

LEMMA UntouchedNext ==
    (Types => \A t \in Stages : Untouched(t) => StageOK(t))'
  BY UntouchedOK, PTL

\* A stage that does not work, and whose parents have ended, is as it was.
LEMMA KeptOK ==
    ASSUME Types, plan' = plan, NEW t \in Stages, Kept(t), Frozen(t), StageOK(t)
    PROVE  StageOK(t)'
  <1>1. Mode' = Mode /\ Sources' = Sources /\ Initial(t)' = Initial(t)
    BY SamePlan
  <1>2. /\ cursor'[t] = cursor[t] /\ UnitsOf(t)' = UnitsOf(t)
        /\ \A u \in UnitsOf(t) : SameShape(units[u], units'[u])
    BY DEF Kept
  <1>3. /\ Parents(t)' = Parents(t)
        /\ \A u \in Parents(t) : units'[u] = units[u]
    BY FrozenParents
  <1>4. \A u \in Parents(t) : /\ Passed(t, u)' <=> Passed(t, u)
                              /\ Done(t, u)' = Done(t, u)
    BY <1>2, <1>3 DEF Passed, Done, InEntries
  <1>5. AllPassed(t)' <=> AllPassed(t)
    BY <1>3, <1>4 DEF AllPassed
  <1>6. \A v \in UnitsOf(t), u \in Parents(t) :
            /\ Reports(v, u)' <=> Reports(v, u)
            /\ Uses(v, u)' <=> Uses(v, u)
            /\ \A e : Takes(v, u, e)' <=> Takes(v, u, e)
    BY <1>2, <1>3 DEF Reports, Uses, Takes, SameShape, Shard
  <1>7. \A u \in UnitsOf(t) :
            /\ units'[u].source = units[u].source
            /\ units'[u].inputs = units[u].inputs
            /\ units'[u].shard = units[u].shard
            /\ units'[u].level = units[u].level
            /\ units'[u].ord = units[u].ord
    BY <1>2 DEF SameShape
  <1>8. SingletonOK(t) => SingletonOK(t)'
    BY <1>2 DEF SingletonOK
  <1>9. SourcesOK(t) => SourcesOK(t)'
    BY <1>1, <1>2, <1>7 DEF SourcesOK
  <1>10. DependenciesOK(t) => DependenciesOK(t)'
    <2>1. DependencyRows(t) => DependencyRows(t)'
      BY <1>2, <1>3, <1>4, <1>6 DEF DependencyRows
    <2>2. DependenciesServed(t) => DependenciesServed(t)'
      BY <1>2, <1>3, <1>4, <1>7 DEF DependenciesServed
    <2>3. DependenciesOnce(t) => DependenciesOnce(t)'
      BY <1>2, <1>7 DEF DependenciesOnce
    <2>4. QED
      BY <1>2, <1>5, <2>1, <2>2, <2>3 DEF DependenciesOK
  <1>11. EntriesOK(t) => EntriesOK(t)'
    <2>1. EntryCursor(t) => EntryCursor(t)'
      BY <1>2, <1>3 DEF EntryCursor, InEntries
    <2>2. EntryRows(t) => EntryRows(t)'
      BY <1>2, <1>3, <1>4, <1>6 DEF EntryRows
    <2>3. EntriesServed(t) => EntriesServed(t)'
      BY <1>2, <1>3, <1>4, <1>6 DEF EntriesServed
    <2>4. EntriesOnce(t) => EntriesOnce(t)'
      BY <1>2, <1>7 DEF EntriesOnce
    <2>5. EntriesDistinct(t) => EntriesDistinct(t)'
      BY <1>3, <1>4 DEF EntriesDistinct
    <2>6. QED
      BY <1>2, <1>5, <2>1, <2>2, <2>3, <2>4, <2>5 DEF EntriesOK
  <1>12. ReductionOK(t) => ReductionOK(t)'
    <2>1. \A l : Level(t, l)' = Level(t, l)
      BY <1>2, <1>7 DEF Level
    <2>2. \A l : LevelInputs(t, l)' = LevelInputs(t, l)
      BY <1>3, <2>1 DEF LevelInputs, Parents
    <2>3. \A l, i : (\E v \in Level(t, l)' : i \in units'[v].inputs)
                       <=> (\E v \in Level(t, l) : i \in units[v].inputs)
      BY <1>7, <2>1 DEF Level
    <2>4. \A l : Covered(t, l)' <=> Covered(t, l)
      BY <2>2, <2>3 DEF Covered
    <2>5. \A v \in UnitsOf(t) : IsGroup(t, v)' <=> IsGroup(t, v)
      BY <1>2, <1>7, <2>2 DEF IsGroup, Shard
    <2>6. GroupRows(t) => GroupRows(t)'
      BY <1>2, <1>7, <2>5 DEF GroupRows
    <2>7. GroupsApart(t) => GroupsApart(t)'
      BY <1>2, <1>7 DEF GroupsApart
    <2>8. LevelsCovered(t) => LevelsCovered(t)'
      BY <1>2, <2>4 DEF LevelsCovered
    <2>9. CursorCovered(t) => CursorCovered(t)'
      BY <1>2, <2>2, <2>3 DEF CursorCovered
    <2>10. QED
      BY <2>6, <2>7, <2>8, <2>9 DEF ReductionOK
  <1>13. QED
    BY <1>1, <1>2, <1>8, <1>9, <1>10, <1>11, <1>12 DEF StageOK

-----------------------------------------------------------------------------
(* Candidates.                                                             *)

ShardSet == ShardKinds \X Nat \X Nat \X Names

\* The fields of a candidate.
LEMMA CandidateRow ==
    ASSUME Types, NEW s \in Stages, NEW source \in 0..Sources,
           NEW inputs \in SUBSET Nat, NEW shard \in ShardSet,
           NEW level \in Int, NEW ord \in Int
    PROVE  LET row == Candidate(s, source, inputs, shard, level, ord)
           IN  /\ row \in UnitRow(plan)
               /\ row.stage = s /\ row.source = source /\ row.inputs = inputs
               /\ row.shard = shard /\ row.level = level /\ row.ord = ord
               /\ row.gen = generation /\ row.state = "pending"
               /\ ~row.root
  <1> DEFINE row == Candidate(s, source, inputs, shard, level, ord)
  <1>1. NoPayload \in Payload
    BY DEF NoPayload, Payload
  <1>2. generation \in Nat
    BY PlanFacts DEF Types
  <1>3. "" \in Errors(plan)
    BY DEF Errors
  <1>4. "pending" \in UnitStates
    BY DEF UnitStates
  <1>5. row \in UnitRow(plan)
    BY <1>1, <1>2, <1>3, <1>4
       DEF Candidate, UnitRow, ShardSet, Stages, Sources
  <1>6. /\ row.stage = s /\ row.source = source /\ row.inputs = inputs
        /\ row.shard = shard /\ row.level = level /\ row.ord = ord
        /\ row.gen = generation /\ row.state = "pending"
    BY DEF Candidate
  <1>7. ~row.root
    BY DEF Candidate
  <1>8. QED
    BY <1>5, <1>6, <1>7

\* The fields of a candidate that has no inputs.
LEMMA UnavailableRow ==
    ASSUME Types, NEW row \in UnitRow(plan), NEW reason \in Errors(plan),
           NEW force \in BOOLEAN
    PROVE  LET un == Unavailable(row, reason, force)
           IN  /\ un \in UnitRow(plan)
               /\ un.stage = row.stage /\ un.source = row.source
               /\ un.inputs = row.inputs /\ un.shard = row.shard
               /\ un.level = row.level /\ un.ord = row.ord
               /\ un.gen = row.gen /\ un.root = row.root
               /\ un.state \in {"needs_attention", "skipped"}
               /\ force => un.state = "needs_attention"
  <1> DEFINE new == IF force \/ (row.stage \in plan.required /\ ~plan.partial)
                    THEN "needs_attention" ELSE "skipped"
  <1>1. new \in UnitStates /\ new \in {"needs_attention", "skipped"}
        /\ (force => new = "needs_attention")
    BY DEF UnitStates
  <1>2. Unavailable(row, reason, force)
            = [row EXCEPT !.state = new, !.error = reason]
    BY DEF Unavailable
  <1> HIDE DEF new
  <1>3. QED
    BY <1>1, <1>2 DEF UnitRow

LEMMA ShardParts ==
    ASSUME NEW u \in Nat
    PROVE  /\ Shard("unavailable", u, 0, "")[2] = u
           /\ Shard("result", u, 0, "")[2] = u
  BY DEF Shard

LEMMA ShardNames ==
    ASSUME NEW id
    PROVE  Shard("entry", 0, 0, id)[4] = id
  BY DEF Shard

LEMMA ShardTypes ==
    /\ NoShard \in ShardSet
    /\ \A kind \in ShardKinds, n, m \in Nat, id \in Names :
          /\ Shard(kind, n, m, id) \in ShardSet
          /\ Shard(kind, n, m, id)[1] = kind
          /\ Shard(kind, n, m, id)[2] = n
          /\ Shard(kind, n, m, id)[3] = m
          /\ Shard(kind, n, m, id)[4] = id
    /\ "" \in Names
    /\ \A x \in STRING : x \in Names
    /\ {"none", "unavailable", "result", "entry", "reduction",
        "invalid-input", "input_too_large", "not_converging"}
           \subseteq ShardKinds
  <1>1. "none" \in ShardKinds /\ "" \in Names
    BY DEF ShardKinds, Names
  <1>2. \A kind \in ShardKinds, n, m \in Nat, id \in Names :
          /\ Shard(kind, n, m, id) \in ShardSet
          /\ Shard(kind, n, m, id)[1] = kind
          /\ Shard(kind, n, m, id)[2] = n
          /\ Shard(kind, n, m, id)[3] = m
          /\ Shard(kind, n, m, id)[4] = id
    BY DEF Shard, ShardSet
  <1>3. NoShard \in ShardSet
    BY <1>1 DEF NoShard, Shard, ShardSet
  <1>4. QED
    BY <1>1, <1>2, <1>3 DEF Names, ShardKinds

\* The row is added and the cursor saved.
Added(s, row, saved) ==
    /\ units' = Append(units, row)
    /\ cursor' = [cursor EXCEPT ![s] =
                     [saved EXCEPT !.count = @ + 1, !.attention = ""]]
    /\ \A u \in DOMAIN units : ~SameKey(units[u], row)

\* The stage needs the owner.
Refused(s) == units' = units /\ cursor'[s].attention # ""

\* insert_candidate adds the row, or the stage needs the owner.
LEMMA InsertCases ==
    ASSUME Types, NEW s \in Stages, Ready(s), plan' = plan,
           NEW row, GoodRow(s, row), NEW saved, GoodCursor(s, saved),
           NEW identity \in BOOLEAN,
           identity \/ (\A u \in DOMAIN units : ~SameKey(units[u], row)),
           Insert(s, row, saved, identity)
    PROVE  Works(s) /\ (Added(s, row, saved) \/ Refused(s))
  <1> DEFINE known == \E u \in DOMAIN units : SameKey(units[u], row)
             code == IF known THEN "duplicate_entry_identity"
                     ELSE "stage_unit_cap_exceeded"
             idle == [saved EXCEPT !.attention = code]
             ok == [saved EXCEPT !.attention = ""]
  <1>0. saved \in CursorRow(plan)
    BY DEF GoodCursor
  <1>1. GoodCursor(s, idle) /\ GoodCursor(s, ok)
    <2>1. code \in Attentions /\ "" \in Attentions
      BY DEF Attentions
    <2> HIDE DEF code
    <2>2. QED
      BY <1>0, <2>1 DEF GoodCursor, CursorRow
  <1>2. idle.attention # ""
    <2>1. idle.attention = code
      BY <1>0 DEF CursorRow
    <2>2. QED
      BY <2>1
  <1>3. [saved EXCEPT !.count = @ + 1, !.attention = ""]
            = [ok EXCEPT !.count = @ + 1]
    BY <1>0 DEF CursorRow
  <1>4. /\ replayed' = replayed /\ workload' = workload
        /\ generation' = generation
    BY DEF Insert, Types
  <1>5. CASE ~known /\ ~Full(s)
    <2>1. /\ units' = Append(units, row)
          /\ cursor' = [cursor EXCEPT ![s] =
                           [saved EXCEPT !.count = @ + 1, !.attention = ""]]
      BY <1>5 DEF Insert
    <2>2. Added(s, row, saved)
      BY <1>5, <2>1 DEF Added
    <2>3. QED
      BY <1>1, <1>3, <1>4, <2>1, <2>2 DEF Works
  <1>6. CASE known \/ Full(s)
    <2>1. units' = units /\ cursor' = [cursor EXCEPT ![s] =
                                          [saved EXCEPT !.count = @,
                                                        !.attention = code]]
      BY <1>6 DEF Insert
    <2>2. [saved EXCEPT !.count = @, !.attention = code] = idle
      BY <1>0 DEF CursorRow
    <2>3. cursor'[s] = idle
      BY <2>1, <2>2 DEF Types
    <2>4. QED
      BY <1>1, <1>2, <1>4, <2>1, <2>2, <2>3 DEF Works, Refused
  <1>7. QED
    BY <1>5, <1>6

\* save_cursor alone is a step of the stage.
LEMMA SaveCursorWorks ==
    ASSUME Types, NEW s \in Stages, Ready(s), plan' = plan,
           NEW saved, GoodCursor(s, saved), SaveCursor(s, saved)
    PROVE  /\ Works(s) /\ units' = units
           /\ cursor'[s] = saved
  BY DEF SaveCursor, Works, Types

\* What a new row and the saved cursor say.
LEMMA AddedFacts ==
    ASSUME Types, NEW s \in Stages, NEW row, GoodRow(s, row),
           NEW saved, GoodCursor(s, saved), Added(s, row, saved)
    PROVE  /\ UnitsOf(s)' = UnitsOf(s) \cup {Len(units) + 1}
           /\ Len(units) + 1 \notin UnitsOf(s)
           /\ units'[Len(units) + 1] = row
           /\ \A u \in DOMAIN units : u \in DOMAIN units' /\ units'[u] = units[u]
           /\ \A u \in UnitsOf(s) : u \in DOMAIN units
           /\ cursor'[s].completed = saved.completed
           /\ cursor'[s].source = saved.source
           /\ cursor'[s].position = saved.position
           /\ cursor'[s].parent = saved.parent
           /\ cursor'[s].entry = saved.entry
           /\ cursor'[s].level = saved.level
           /\ cursor'[s].ord = saved.ord
           /\ cursor'[s].waiting = saved.waiting
  <1>1. row \in UnitRow(plan) /\ row.stage = s
    BY DEF GoodRow
  <1>2. cursor'[s] = [saved EXCEPT !.count = @ + 1, !.attention = ""]
    BY DEF Added, Types
  <1>3. saved \in CursorRow(plan)
    BY DEF GoodCursor
  <1>4. /\ cursor'[s].completed = saved.completed
        /\ cursor'[s].source = saved.source
        /\ cursor'[s].position = saved.position
        /\ cursor'[s].parent = saved.parent
        /\ cursor'[s].entry = saved.entry
        /\ cursor'[s].level = saved.level
        /\ cursor'[s].ord = saved.ord
        /\ cursor'[s].waiting = saved.waiting
    BY <1>2, <1>3 DEF CursorRow
  <1>5. QED
    BY <1>1, <1>4, AppendFacts DEF Added, UnitsOf

-----------------------------------------------------------------------------
(* Stages that depend on all or on the matching of their parents.          *)

\* The cursor of a ready stage is typed, and its parents exist.
LEMMA ReadyFacts ==
    ASSUME Types, NEW s \in Stages, Selected(s)
    PROVE  /\ Ready(s) /\ ~cursor[s].completed /\ cursor[s].attention = ""
           /\ ParentsEnded(s)
           /\ cursor[s] \in CursorRow(plan)
           /\ \A p \in DependsOn[s] : p \in Stages /\ p # s
           /\ Parents(s) \subseteq DOMAIN units
           /\ \A u \in Parents(s) : u \notin UnitsOf(s)
  <1>1. /\ Ready(s) /\ ~cursor[s].completed /\ cursor[s].attention = ""
        /\ ParentsEnded(s)
    BY DEF Selected, Ready
  <1>2. \A p \in DependsOn[s] : p \in Stages /\ p # s
    <2>1. \A p \in DependsOn[s] : p \in Stages /\ p < s
      BY PlanFacts
    <2>2. s \in Nat
      BY PlanFacts
    <2>3. QED
      BY <2>1, <2>2, PlanFacts
  <1>3. /\ Parents(s) \subseteq DOMAIN units
        /\ \A u \in Parents(s) : u \notin UnitsOf(s)
    BY <1>2, ParentFacts DEF UnitsOf
  <1>4. QED
    BY <1>1, <1>2, <1>3, RowFacts

\* A stage that the owner has to look at is in order.
LEMMA RefusedOK ==
    ASSUME NEW s, Refused(s)
    PROVE  StageOK(s)'
  BY DEF Refused, StageOK

\* The row of a singleton or of a source has its parents, or none.
LEMMA InsertedCases ==
    ASSUME Types, NEW s \in Stages, Ready(s), plan' = plan,
           NEW parents \in SUBSET (DOMAIN units), NEW source \in 0..Sources,
           NEW missing, NEW saved, GoodCursor(s, saved),
           \A u \in UnitsOf(s) : units[u].source # source,
           Inserted(s, parents, source, missing, saved)
    PROVE  /\ Works(s)
           /\ \/ Refused(s)
              \/ \E row : /\ GoodRow(s, row) /\ row.source = source
                          /\ Added(s, row, saved)
  <1> DEFINE shard == Shard("unavailable", 0, 0, "")
             row == Candidate(s, source, parents, NoShard, -1, -1)
             none == Candidate(s, source, {}, shard, -1, -1)
             Un(reason, force) == Unavailable(none, reason, force)
  <1>1. shard \in ShardSet /\ NoShard \in ShardSet
    BY ShardTypes
  <1>2. parents \in SUBSET Nat /\ {} \in SUBSET Nat
    BY RowFacts
  <1>a. -1 \in Int
    OBVIOUS
  <1> HIDE DEF shard
  <1>3. /\ row \in UnitRow(plan) /\ row.stage = s /\ row.source = source
        /\ row.inputs = parents /\ row.gen = generation
        /\ row.state = "pending"
    BY <1>1, <1>2, <1>a, CandidateRow
  <1>4. /\ none \in UnitRow(plan) /\ none.stage = s /\ none.source = source
        /\ none.inputs = {} /\ none.gen = generation
    BY <1>1, <1>2, <1>a, CandidateRow
  <1> HIDE DEF row, none
  <1>5. ASSUME NEW reason \in Errors(plan), NEW force \in BOOLEAN
        PROVE  GoodRow(s, Un(reason, force)) /\ Un(reason, force).source = source
    BY <1>4, <1>5, UnavailableRow DEF GoodRow
  <1>6. ASSUME NEW new, GoodRow(s, new), new.source = source,
               Insert(s, new, saved, FALSE)
        PROVE  Works(s) /\ (Added(s, new, saved) \/ Refused(s))
    <2>1. new.stage = s
      BY <1>6 DEF GoodRow
    <2>2. \A u \in DOMAIN units : ~SameKey(units[u], new)
      BY <1>6, <2>1 DEF SameKey, UnitsOf
    <2>3. QED
      BY <1>6, <2>2, InsertCases
  <1>7. CASE Cardinality(parents) > MaxDependencies
    <2>1. Insert(s, Un("dependency_fan_in_exceeded", TRUE), saved, FALSE)
      BY <1>7 DEF Inserted, none, shard
    <2>2. "dependency_fan_in_exceeded" \in Errors(plan)
      BY DEF Errors
    <2>3. QED
      BY <1>5, <1>6, <2>1, <2>2
  <1>8. CASE /\ ~(Cardinality(parents) > MaxDependencies)
             /\ \/ missing \/ parents = {}
                \/ \E u \in parents : units[u].state # "committed"
    <2>1. Insert(s, Un("dependency_result_unavailable", FALSE), saved, FALSE)
      BY <1>8 DEF Inserted, none, shard
    <2>2. "dependency_result_unavailable" \in Errors(plan)
      BY DEF Errors
    <2>3. QED
      BY <1>5, <1>6, <2>1, <2>2
  <1>9. CASE /\ ~(Cardinality(parents) > MaxDependencies)
             /\ ~(\/ missing \/ parents = {}
                  \/ \E u \in parents : units[u].state # "committed")
    <2>1. Insert(s, row, saved, FALSE)
      BY <1>9 DEF Inserted, row
    <2>2. GoodRow(s, row)
      BY <1>3, <1>9 DEF GoodRow
    <2>3. QED
      BY <1>3, <1>6, <2>1, <2>2
  <1>10. QED
    BY <1>7, <1>8, <1>9

\* A singleton has no unit before its only step.
LEMMA SingletonWorks ==
    ASSUME IInv, NEW s \in Stages, MaterializeSingleton(s), plan' = plan
    PROVE  Works(s) /\ StageOK(s)'
  <1> DEFINE saved == [cursor[s] EXCEPT !.completed = TRUE]
  <1>0. Types /\ Selected(s) /\ Mode[s] = "singleton" /\ StageOK(s) /\ Placed
    BY DEF IInv, MaterializeSingleton, StagesOK
  <1>1. /\ Ready(s) /\ ~cursor[s].completed /\ cursor[s].attention = ""
        /\ cursor[s] \in CursorRow(plan) /\ Parents(s) \subseteq DOMAIN units
    BY <1>0, ReadyFacts
  <1>2. GoodCursor(s, saved) /\ saved.completed
    <2>1. cursor[s].parent <= Len(units)
      BY <1>0 DEF Placed
    <2>2. QED
      BY <1>1, <2>1 DEF GoodCursor, CursorRow
  <1> HIDE DEF saved
  <1>3. ~Initial(s)
    BY <1>1 DEF IInv, Ordered
  <1>4. UnitsOf(s) = {}
    BY <1>0, <1>1, <1>3 DEF StageOK, SingletonOK
  <1>5. Inserted(s, Parents(s), 0, FALSE, saved)
    BY DEF MaterializeSingleton, Parents, saved
  <1>6. 0 \in 0..Sources
    BY <1>0, PlanFacts
  <1>7. Works(s) /\ (Refused(s) \/ \E row : GoodRow(s, row) /\ Added(s, row, saved))
    BY <1>0, <1>1, <1>2, <1>4, <1>5, <1>6, InsertedCases
  <1>8. CASE \E row : GoodRow(s, row) /\ Added(s, row, saved)
    <2>1. cursor'[s].completed
      BY <1>0, <1>2, <1>8, AddedFacts
    <2>2. Mode' = Mode
      BY SamePlan
    <2>3. QED
      BY <1>0, <1>7, <2>1, <2>2 DEF StageOK, SingletonOK
  <1>9. QED
    BY <1>7, <1>8, RefusedOK

\* The cursor at the next source, or at the end.
LEMMA SourceWorks ==
    ASSUME IInv, NEW s \in Stages, MaterializeSource(s), plan' = plan
    PROVE  Works(s) /\ StageOK(s)'
  <1> DEFINE k == cursor[s].source + 1
             done == [cursor[s] EXCEPT !.completed = TRUE]
             saved == [cursor[s] EXCEPT !.source = k]
             parents == UNION {Matching(p, k) : p \in DependsOn[s]}
             missing == \E p \in DependsOn[s] : Matching(p, k) = {}
  <1>0. Types /\ Selected(s) /\ Mode[s] = "per_source" /\ StageOK(s) /\ Placed
    BY DEF IInv, MaterializeSource, StagesOK
  <1>1. /\ Ready(s) /\ ~cursor[s].completed /\ cursor[s].attention = ""
        /\ cursor[s] \in CursorRow(plan) /\ cursor[s].parent <= Len(units)
    BY <1>0, ReadyFacts DEF Placed
  <1>2. ~Initial(s) /\ SourcesOK(s)
    BY <1>0, <1>1 DEF IInv, Ordered, StageOK
  <1>3. cursor[s].source \in 0..Sources /\ Sources \in Nat
    BY <1>0, <1>1, PlanFacts DEF CursorRow, Sources
  <1>4. Mode' = Mode /\ Sources' = Sources
    BY SamePlan
  <1>5. CASE SourcesDone(k)
    <2>1. GoodCursor(s, done) /\ done.completed /\ done.source = cursor[s].source
      BY <1>1 DEF GoodCursor, CursorRow
    <2>2. SaveCursor(s, done)
      BY <1>5 DEF MaterializeSource
    <2> HIDE DEF done
    <2>3. Works(s) /\ units' = units /\ cursor'[s] = done
      BY <1>0, <1>1, <2>1, <2>2, SaveCursorWorks
    <2>4. cursor[s].source = Sources
      BY <1>3, <1>5 DEF SourcesDone
    <2>5. UnitsOf(s)' = UnitsOf(s)
      BY <2>3 DEF UnitsOf
    <2>6. SourcesOK(s)'
      BY <1>2, <1>4, <2>1, <2>3, <2>4, <2>5 DEF SourcesOK
    <2>7. QED
      BY <1>0, <1>4, <2>3, <2>6 DEF StageOK
  <1>6. CASE ~SourcesDone(k)
    <2>1. k \in 1..Sources
      BY <1>3, <1>6 DEF SourcesDone
    <2>2. GoodCursor(s, saved) /\ saved.source = k
          /\ saved.completed = cursor[s].completed
      <3>1. k \in 0..plan.sources
        BY <2>1, <1>3 DEF Sources
      <3>2. QED
        BY <1>1, <3>1 DEF GoodCursor, CursorRow
    <2>3. Inserted(s, parents, k, missing, saved)
      BY <1>6 DEF MaterializeSource
    <2>4. parents \in SUBSET (DOMAIN units)
      BY DEF Matching, Exposed, UnitsOf
    <2>5. \A u \in UnitsOf(s) : units[u].source # k
      BY <1>2, <1>3 DEF SourcesOK
    <2>a. k \in 0..Sources
      BY <1>3, <2>1
    <2> HIDE DEF saved, parents, missing, k
    <2>6. /\ Works(s)
          /\ \/ Refused(s)
             \/ \E row : GoodRow(s, row) /\ row.source = k /\ Added(s, row, saved)
      BY <1>0, <1>1, <2>a, <2>2, <2>3, <2>4, <2>5, InsertedCases
    <2>7. CASE \E row : GoodRow(s, row) /\ row.source = k /\ Added(s, row, saved)
      <3>1. PICK row : GoodRow(s, row) /\ row.source = k /\ Added(s, row, saved)
        BY <2>7
      <3> DEFINE new == Len(units) + 1
      <3>2. /\ UnitsOf(s)' = UnitsOf(s) \cup {new} /\ new \notin UnitsOf(s)
            /\ units'[new].source = k
            /\ \A u \in UnitsOf(s) : units'[u] = units[u]
            /\ cursor'[s].source = k
            /\ cursor'[s].completed = cursor[s].completed
        BY <1>0, <2>2, <3>1, AddedFacts
      <3> HIDE DEF new
      <3>3. /\ \A i \in 1..k : i \in 1..cursor[s].source \/ i = k
            /\ \A i \in 1..cursor[s].source : i \in 1..k
            /\ k \in 1..k
        BY <1>3 DEF k
      <3>4. SourcesOK(s)'
        <4>1. \A v \in UnitsOf(s)' : units'[v].source \in 1..k
          BY <1>2, <3>2, <3>3 DEF SourcesOK
        <4>2. \A i \in 1..k : \E v \in UnitsOf(s)' : units'[v].source = i
          BY <1>2, <3>2, <3>3 DEF SourcesOK
        <4>3. \A v, w \in UnitsOf(s)' :
                  units'[v].source = units'[w].source => v = w
          BY <1>2, <2>5, <3>2 DEF SourcesOK
        <4>4. QED
          BY <1>1, <3>2, <4>1, <4>2, <4>3 DEF SourcesOK
      <3>5. QED
        BY <1>0, <1>4, <2>6, <3>4 DEF StageOK
    <2>8. QED
      BY <2>6, <2>7, RefusedOK
  <1>7. QED
    BY <1>5, <1>6

-----------------------------------------------------------------------------
(* Stages with a unit for each parent unit or each of its entries.         *)

\* Numbers have a least one.
LEMMA LeastNat ==
    ASSUME NEW T \in SUBSET Nat, T # {}
    PROVE  \E n \in T : \A m \in T : n <= m
  <1> DEFINE less == {ss \in Nat \X Nat : ss[1] < ss[2]}
  <1>1. IsWellFoundedOn(less, Nat)
    BY NatLessThanWellFounded DEF OpToRel
  <1>2. PICK x \in T : \A y \in T : ~(<<y, x>> \in less)
    BY <1>1, WFMin
  <1>3. ASSUME NEW y \in T PROVE x <= y
    <2>1. ~(y < x)
      BY <1>2
    <2>2. QED
      BY <2>1
  <1>4. QED
    BY <1>3

LEMMA UnitNumbers ==
    ASSUME Types
    PROVE  \A u \in DOMAIN units :
              u \in Nat \ {0} /\ units[u].stage \in Stages /\ units[u].stage \in Nat
  <1>1. \A u \in DOMAIN units : u \in Nat \ {0}
    BY RowFacts
  <1>2. \A u \in DOMAIN units : units[u].stage \in Stages
    BY RowFacts DEF UnitRow, Stages
  <1>3. QED
    BY <1>1, <1>2, PlanFacts

\* There is a first unit of any units, in the order of stage and number.
LEMMA FirstOfSome ==
    ASSUME Types, NEW S \in SUBSET (DOMAIN units), S # {}
    PROVE  /\ FirstOf(S) \in S
           /\ \A v \in S :
                 \/ units[FirstOf(S)].stage < units[v].stage
                 \/ units[FirstOf(S)].stage = units[v].stage /\ FirstOf(S) <= v
  <1>1. \A u \in S : units[u].stage \in Nat /\ u \in Nat
    BY UnitNumbers
  <1> DEFINE low == {units[u].stage : u \in S}
  <1>2. low \in SUBSET Nat /\ low # {}
    BY <1>1
  <1>3. PICK m \in low : \A n \in low : m <= n
    BY <1>2, LeastNat
  <1> DEFINE same == {u \in S : units[u].stage = m}
  <1>4. same \in SUBSET Nat /\ same # {}
    BY <1>1
  <1>5. PICK x \in same : \A y \in same : x <= y
    BY <1>4, LeastNat
  <1>6. ASSUME NEW v \in S
        PROVE  \/ units[x].stage < units[v].stage
               \/ units[x].stage = units[v].stage /\ x <= v
    <2>1. units[v].stage \in low /\ m <= units[v].stage /\ units[x].stage = m
      BY <1>3, <1>5
    <2>2. CASE units[v].stage = m
      BY <1>5, <2>1, <2>2
    <2>3. CASE units[v].stage # m
      BY <1>1, <1>2, <2>1, <2>3
    <2>4. QED
      BY <2>2, <2>3
  <1>7. x \in S
    OBVIOUS
  <1>8. QED
    BY <1>6, <1>7 DEF FirstOf

\* The units after the cursor are those it has not passed.
LEMMA LaterFacts ==
    ASSUME Types, NEW s \in Stages
    PROVE  /\ Later(s) = {u \in Parents(s) : ~Passed(s, u)}
           /\ Later(s) \in SUBSET (DOMAIN units)
  <1>1. /\ Parents(s) \subseteq DOMAIN units
        /\ \A u \in DOMAIN units : units[u].stage \in Nat /\ u \in Nat
    BY ParentFacts, UnitNumbers
  <1>2. cursor[s].position \in Nat /\ cursor[s].parent \in Nat
    BY RowFacts, PlanFacts DEF CursorRow, Stages
  <1>3. \A u \in DOMAIN units :
            ~Passed(s, u) <=> \/ units[u].stage > cursor[s].position
                              \/ /\ units[u].stage = cursor[s].position
                                 /\ u > cursor[s].parent
    BY <1>1, <1>2 DEF Passed
  <1>4. QED
    BY <1>1, <1>3 DEF Later, Parents

\* A stage ends when no parent is left.
LEMMA EndOfParentsWorks ==
    ASSUME IInv, NEW s \in Stages, EndOfParents(s), plan' = plan
    PROVE  Works(s) /\ StageOK(s)'
  <1> DEFINE done == [cursor[s] EXCEPT !.completed = TRUE]
  <1>0. /\ Types /\ Selected(s) /\ StageOK(s) /\ Placed
        /\ Mode[s] \in {"per_dependency", "entries"}
        /\ ~InEntries(s) /\ Later(s) = {} /\ SaveCursor(s, done)
    BY DEF IInv, EndOfParents, StagesOK
  <1>1. /\ Ready(s) /\ ~cursor[s].completed /\ cursor[s].attention = ""
        /\ ParentsEnded(s)
        /\ cursor[s] \in CursorRow(plan) /\ cursor[s].parent <= Len(units)
    BY <1>0, ReadyFacts DEF Placed
  <1>2. ~Initial(s)
    BY <1>1 DEF IInv, Ordered
  <1>3. /\ GoodCursor(s, done) /\ done.completed
        /\ done.position = cursor[s].position /\ done.parent = cursor[s].parent
        /\ done.entry = cursor[s].entry
    BY <1>1 DEF GoodCursor, CursorRow
  <1> HIDE DEF done
  <1>4. Works(s) /\ units' = units /\ cursor'[s] = done
    BY <1>0, <1>1, <1>3, SaveCursorWorks
  <1>5. Mode' = Mode /\ UnitsOf(s)' = UnitsOf(s)
    BY <1>4, SamePlan DEF UnitsOf
  <1>6. /\ Parents(s)' = Parents(s)
        /\ \A u : Passed(s, u)' <=> Passed(s, u)
        /\ \A u : Done(s, u)' = Done(s, u)
        /\ ~InEntries(s)'
    <2>1. DependsOn' = DependsOn
      BY SamePlan
    <2>2. Parents(s)' = Parents(s)
      BY <1>4, <1>5, <2>1 DEF Parents, Exposed, UnitsOf
    <2>3. QED
      BY <1>0, <1>3, <1>4, <2>2 DEF Passed, Done, InEntries
  <1>7. AllPassed(s)'
    BY <1>0, <1>6, LaterFacts DEF AllPassed
  <1>8. CASE Mode[s] = "per_dependency"
    <2>1. DependenciesOK(s)
      BY <1>0, <1>1, <1>2, <1>8 DEF StageOK
    <2>2. \A u, v : /\ Reports(v, u)' <=> Reports(v, u)
                    /\ Uses(v, u)' <=> Uses(v, u)
      BY <1>4 DEF Reports, Uses, Shard
    <2>3. DependencyRows(s)'
      BY <1>5, <1>6, <2>1, <2>2 DEF DependenciesOK, DependencyRows
    <2>4. DependenciesServed(s)' /\ DependenciesOnce(s)'
      BY <1>4, <1>5, <1>6, <2>1
         DEF DependenciesOK, DependenciesServed, DependenciesOnce
    <2>5. cursor'[s].entry = 0
      BY <1>3, <1>4, <2>1 DEF DependenciesOK
    <2>6. DependenciesOK(s)'
      BY <1>7, <2>3, <2>4, <2>5 DEF DependenciesOK
    <2>7. QED
      BY <1>4, <1>5, <1>8, <2>6 DEF StageOK
  <1>9. CASE Mode[s] = "entries"
    <2>1. EntriesOK(s)
      BY <1>0, <1>1, <1>2, <1>9 DEF StageOK
    <2>2. \A u, v, e : /\ Reports(v, u)' <=> Reports(v, u)
                       /\ Takes(v, u, e)' <=> Takes(v, u, e)
      BY <1>4 DEF Reports, Takes, Shard
    <2>3. EntryRows(s)' /\ EntriesServed(s)'
      BY <1>4, <1>5, <1>6, <2>1, <2>2 DEF EntriesOK, EntryRows, EntriesServed
    <2>4. EntriesOnce(s)' /\ EntriesDistinct(s)'
      BY <1>4, <1>5, <1>6, <2>1 DEF EntriesOK, EntriesOnce, EntriesDistinct
    <2>5. EntryCursor(s)'
      BY <1>6 DEF EntryCursor
    <2>6. EntriesOK(s)'
      BY <1>7, <2>3, <2>4, <2>5 DEF EntriesOK
    <2>7. QED
      BY <1>4, <1>5, <1>9, <2>6 DEF StageOK
  <1>10. QED
    BY <1>0, <1>8, <1>9

\* The first unit after the cursor: on it, the cursor has passed one more.
LEMMA Advance ==
    ASSUME Types, NEW s \in Stages, Later(s) # {}
    PROVE  LET u == FirstOf(Later(s))
           IN  /\ u \in Parents(s) /\ ~Passed(s, u)
               /\ \A w \in Parents(s) :
                     (Passed(s, w) \/ w = u) <=>
                         \/ units[w].stage < units[u].stage
                         \/ units[w].stage = units[u].stage /\ w <= u
  <1> DEFINE u == FirstOf(Later(s))
  <1>1. /\ u \in Later(s)
        /\ \A v \in Later(s) :
              \/ units[u].stage < units[v].stage
              \/ units[u].stage = units[v].stage /\ u <= v
    BY LaterFacts, FirstOfSome
  <1>2. u \in Parents(s) /\ ~Passed(s, u)
    BY <1>1, LaterFacts
  <1> HIDE DEF u
  <1>3. \A w \in Parents(s) : w \in Nat /\ units[w].stage \in Nat
    BY UnitNumbers, ParentFacts
  <1>4. cursor[s].position \in Nat /\ cursor[s].parent \in Nat
    BY RowFacts, PlanFacts DEF CursorRow, Stages
  <1>5. ASSUME NEW w \in Parents(s)
        PROVE  (Passed(s, w) \/ w = u) <=>
                   \/ units[w].stage < units[u].stage
                   \/ units[w].stage = units[u].stage /\ w <= u
    <2>1. CASE Passed(s, w)
      BY <1>2, <1>3, <1>4, <1>5, <2>1 DEF Passed
    <2>2. CASE ~Passed(s, w)
      <3>1. w \in Later(s)
        BY <2>2, LaterFacts
      <3>2. QED
        BY <1>1, <1>2, <1>3, <2>2, <3>1
    <2>3. QED
      BY <2>1, <2>2
  <1>6. QED
    BY <1>2, <1>5 DEF u

\* The cursor on a parent.
LEMMA AtFacts ==
    ASSUME Types, Placed, NEW s \in Stages, NEW u \in DOMAIN units,
           NEW e \in Nat
    PROVE  /\ GoodCursor(s, At(s, u, e))
           /\ At(s, u, e).position = units[u].stage
           /\ At(s, u, e).parent = u /\ At(s, u, e).entry = e
           /\ At(s, u, e).completed = cursor[s].completed
  <1>1. cursor[s] \in CursorRow(plan)
    BY RowFacts
  <1>2. u \in Nat /\ units[u].stage \in Stages /\ u <= Len(units)
    BY UnitNumbers, RowFacts
  <1>3. QED
    BY <1>1, <1>2 DEF At, GoodCursor, CursorRow, Stages

\* What a step of stage s leaves of its parents and of its own units.
LEMMA WorksFacts ==
    ASSUME Types, NEW s \in Stages, Works(s), ParentsEnded(s)
    PROVE  /\ Mode' = Mode /\ Sources' = Sources
           /\ Parents(s)' = Parents(s)
           /\ \A u \in Parents(s) : units'[u] = units[u]
           /\ \A p \in DependsOn[s] : Exposed(p)' = Exposed(p)
  <1>1. plan' = plan
    BY DEF Works
  <1>2. Frozen(s)
    BY ParentsFrozen
  <1>3. QED
    BY <1>1, <1>2, FrozenParents, SamePlan

LEMMA RelationsKept ==
    ASSUME Types, NEW s \in Stages, NEW v, NEW u,
           units'[v] = units[v], units'[u] = units[u]
    PROVE  /\ Reports(v, u)' <=> Reports(v, u)
           /\ Uses(v, u)' <=> Uses(v, u)
           /\ \A e : Takes(v, u, e)' <=> Takes(v, u, e)
  BY DEF Reports, Uses, Takes, Shard

\* Rows for parent unit u.
ReportRow(row, u) ==
    /\ units[u].state # "committed"
    /\ row.inputs = {} /\ row.shard = Shard("unavailable", u, 0, "")

UseRow(row, u) ==
    /\ units[u].state = "committed"
    /\ row.inputs = {u} /\ row.shard = Shard("result", u, 0, "")

\* A unit for the next parent unit, in a stage with one unit for each.
LEMMA DependencyAdded ==
    ASSUME IInv, NEW s \in Stages, Works(s),
           Mode[s] = "per_dependency", DependenciesOK(s), Later(s) # {},
           NEW u, u = FirstOf(Later(s)),
           NEW row, GoodRow(s, row),
           ReportRow(row, u) \/ UseRow(row, u),
           Added(s, row, At(s, u, 0))
    PROVE  StageOK(s)'
  <1>a. PICK new : new = Len(units) + 1
    OBVIOUS
  <1>0. Types /\ Placed /\ ParentsEnded(s)
    BY DEF IInv, Works, Ready
  <1>1. /\ u \in Parents(s) /\ ~Passed(s, u)
        /\ \A w \in Parents(s) :
              (Passed(s, w) \/ w = u) <=>
                  \/ units[w].stage < units[u].stage
                  \/ units[w].stage = units[u].stage /\ w <= u
    BY <1>0, Advance
  <1>2. /\ Mode' = Mode /\ Parents(s)' = Parents(s)
        /\ \A w \in Parents(s) : units'[w] = units[w]
    BY <1>0, WorksFacts
  <1>3. u \in DOMAIN units /\ u \in Nat
    BY <1>0, <1>1, ParentFacts, UnitNumbers
  <1>4. /\ GoodCursor(s, At(s, u, 0))
        /\ At(s, u, 0).position = units[u].stage
        /\ At(s, u, 0).parent = u /\ At(s, u, 0).entry = 0
        /\ At(s, u, 0).completed = cursor[s].completed
    BY <1>0, <1>3, AtFacts
  <1>6. /\ UnitsOf(s)' = UnitsOf(s) \cup {new} /\ new \notin UnitsOf(s)
        /\ units'[new] = row
        /\ \A v \in UnitsOf(s) : units'[v] = units[v]
        /\ cursor'[s].position = units[u].stage /\ cursor'[s].parent = u
        /\ cursor'[s].entry = 0
        /\ cursor'[s].completed = cursor[s].completed
    BY <1>0, <1>4, <1>a, AddedFacts
  <1>7. \A w \in Parents(s) : Passed(s, w)' <=> (Passed(s, w) \/ w = u)
    BY <1>1, <1>2, <1>6 DEF Passed
  <1>8. \A v \in UnitsOf(s), w \in Parents(s) :
            /\ Reports(v, w)' <=> Reports(v, w)
            /\ Uses(v, w)' <=> Uses(v, w)
    BY <1>0, <1>2, <1>6, RelationsKept
  <1>9. Reports(new, u)' \/ Uses(new, u)'
    BY <1>1, <1>2, <1>3, <1>6 DEF Reports, Uses, ReportRow, UseRow, Shard
  <1>10. DependencyRows(s)'
    <2>1. ASSUME NEW v \in UnitsOf(s)
          PROVE  \E w \in Parents(s) :
                    Passed(s, w)' /\ (Reports(v, w)' \/ Uses(v, w)')
      <3>1. PICK w \in Parents(s) : Passed(s, w) /\ (Reports(v, w) \/ Uses(v, w))
        BY DEF DependenciesOK, DependencyRows
      <3>2. QED
        BY <1>7, <1>8, <3>1
    <2>2. Passed(s, u)'
      BY <1>1, <1>7
    <2>3. QED
      BY <1>1, <1>2, <1>6, <1>9, <2>1, <2>2 DEF DependencyRows
  <1>11. row.shard[2] = u
    <2>1. /\ Shard("unavailable", u, 0, "")[2] = u
          /\ Shard("result", u, 0, "")[2] = u
      BY <1>3, ShardParts
    <2>2. QED
      BY <2>1 DEF ReportRow, UseRow
  <1>12. DependenciesServed(s)'
    BY <1>2, <1>6, <1>7, <1>11 DEF DependenciesOK, DependenciesServed
  <1>13. \A v \in UnitsOf(s) : units[v].shard[2] # u
    <2>1. ASSUME NEW v \in UnitsOf(s), units[v].shard[2] = u PROVE FALSE
      <3>1. PICK w \in Parents(s) : Passed(s, w) /\ (Reports(v, w) \/ Uses(v, w))
        BY DEF DependenciesOK, DependencyRows
      <3>2. units[v].shard[2] = w
        <4>1. /\ Shard("unavailable", w, 0, "")[2] = w
              /\ Shard("result", w, 0, "")[2] = w
          BY <1>0, ParentFacts, UnitNumbers, ShardParts
        <4>2. QED
          BY <3>1, <4>1 DEF Reports, Uses
      <3>3. QED
        BY <1>1, <2>1, <3>1, <3>2
    <2>2. QED
      BY <2>1
  <1>14. DependenciesOnce(s)'
    BY <1>6, <1>11, <1>13 DEF DependenciesOK, DependenciesOnce
  <1>15. DependenciesOK(s)'
    BY <1>6, <1>10, <1>12, <1>14 DEF DependenciesOK, Works, Ready
  <1>16. QED
    BY <1>2, <1>15 DEF StageOK

\* A parent unit without result, in a stage with a unit for each entry.
LEMMA EntryReported ==
    ASSUME IInv, NEW s \in Stages, Works(s),
           Mode[s] = "entries", EntriesOK(s), Later(s) # {}, ~InEntries(s),
           NEW u, u = FirstOf(Later(s)),
           NEW row, GoodRow(s, row), ReportRow(row, u),
           Added(s, row, At(s, u, 0))
    PROVE  StageOK(s)'
  <1>a. PICK new : new = Len(units) + 1
    OBVIOUS
  <1>0. Types /\ Placed /\ ParentsEnded(s)
    BY DEF IInv, Works, Ready
  <1>1. /\ u \in Parents(s) /\ ~Passed(s, u)
        /\ \A w \in Parents(s) :
              (Passed(s, w) \/ w = u) <=>
                  \/ units[w].stage < units[u].stage
                  \/ units[w].stage = units[u].stage /\ w <= u
    BY <1>0, Advance
  <1>2. /\ Mode' = Mode /\ Parents(s)' = Parents(s)
        /\ \A w \in Parents(s) : units'[w] = units[w]
    BY <1>0, WorksFacts
  <1>3. u \in DOMAIN units /\ u \in Nat
    BY <1>0, <1>1, ParentFacts, UnitNumbers
  <1>4. /\ GoodCursor(s, At(s, u, 0))
        /\ At(s, u, 0).position = units[u].stage
        /\ At(s, u, 0).parent = u /\ At(s, u, 0).entry = 0
        /\ At(s, u, 0).completed = cursor[s].completed
    BY <1>0, <1>3, AtFacts
  <1>5. units[u].state # "committed" /\ row.inputs = {}
    BY DEF ReportRow
  <1>6. /\ UnitsOf(s)' = UnitsOf(s) \cup {new} /\ new \notin UnitsOf(s)
        /\ units'[new] = row
        /\ \A v \in UnitsOf(s) : units'[v] = units[v]
        /\ cursor'[s].position = units[u].stage /\ cursor'[s].parent = u
        /\ cursor'[s].entry = 0
        /\ cursor'[s].completed = cursor[s].completed
    BY <1>0, <1>4, <1>a, AddedFacts
  <1>7. /\ \A w \in Parents(s) : Passed(s, w)' <=> (Passed(s, w) \/ w = u)
        /\ ~InEntries(s)'
    BY <1>1, <1>2, <1>6 DEF Passed, InEntries
  <1>8. \A w \in Parents(s) : w # u => Done(s, w)' = Done(s, w)
    BY <1>2, <1>7 DEF Done
  <1>9. \A v \in UnitsOf(s), w \in Parents(s) :
            /\ Reports(v, w)' <=> Reports(v, w)
            /\ \A e : Takes(v, w, e)' <=> Takes(v, w, e)
    BY <1>0, <1>2, <1>6, RelationsKept
  <1>10. Reports(new, u)'
    BY <1>1, <1>2, <1>3, <1>6 DEF Reports, ReportRow, Shard
  <1>11. EntryRows(s)'
    <2>1. ASSUME NEW v \in UnitsOf(s)
          PROVE  \E w \in Parents(s) :
                    \/ Reports(v, w)' /\ Passed(s, w)'
                    \/ /\ units'[w].state = "committed"
                       /\ \E e \in 1..Done(s, w)' : Takes(v, w, e)'
      <3>1. PICK w \in Parents(s) :
                    \/ Reports(v, w) /\ Passed(s, w)
                    \/ /\ units[w].state = "committed"
                       /\ \E e \in 1..Done(s, w) : Takes(v, w, e)
        BY DEF EntriesOK, EntryRows
      <3>2. QED
        BY <1>2, <1>5, <1>7, <1>8, <1>9, <3>1
    <2>2. QED
      <3>1. Passed(s, u)'
        BY <1>1, <1>7
      <3>2. QED
        BY <1>1, <1>2, <1>6, <1>10, <2>1, <3>1 DEF EntryRows
  <1>12. EntriesServed(s)'
    BY <1>2, <1>5, <1>6, <1>8, <1>9 DEF EntriesOK, EntriesServed
  <1>13. EntriesOnce(s)'
    BY <1>5, <1>6 DEF EntriesOK, EntriesOnce
  <1>14. EntriesDistinct(s)'
    BY <1>2, <1>5, <1>8 DEF EntriesOK, EntriesDistinct
  <1>15. EntriesOK(s)'
    BY <1>6, <1>7, <1>11, <1>12, <1>13, <1>14
       DEF EntriesOK, EntryCursor, Works, Ready
  <1>16. QED
    BY <1>2, <1>15 DEF StageOK

\* No unit has been made for a parent unit after the cursor.
LEMMA FreshParent ==
    ASSUME Types, NEW s \in Stages, NEW u \in Parents(s), ~Passed(s, u),
           NEW row, row.stage = s,
           \/ /\ Mode[s] = "per_dependency" /\ DependenciesOK(s)
              /\ ReportRow(row, u) \/ UseRow(row, u)
           \/ Mode[s] = "entries" /\ EntriesOK(s) /\ ReportRow(row, u)
    PROVE  \A v \in DOMAIN units : ~SameKey(units[v], row)
  <1> SUFFICES ASSUME NEW v \in DOMAIN units, SameKey(units[v], row)
               PROVE  FALSE
    OBVIOUS
  <1>1. /\ v \in UnitsOf(s) /\ units[v].inputs = row.inputs
        /\ units[v].shard = row.shard
    BY DEF SameKey, UnitsOf
  <1>2. row.shard[2] = u
    <2>1. u \in Nat
      BY ParentFacts, UnitNumbers
    <2>2. QED
      BY <2>1, ShardParts DEF ReportRow, UseRow
  <1>3. ASSUME NEW w \in Parents(s), Passed(s, w), Reports(v, w) \/ Uses(v, w)
        PROVE  FALSE
    <2>1. w \in Nat
      BY ParentFacts, UnitNumbers
    <2>2. units[v].shard[2] = w
      BY <1>3, <2>1, ShardParts DEF Reports, Uses
    <2>3. QED
      BY <1>1, <1>2, <1>3, <2>2
  <1>4. CASE Mode[s] = "per_dependency" /\ DependenciesOK(s)
    BY <1>1, <1>3, <1>4 DEF DependenciesOK, DependencyRows
  <1>5. CASE Mode[s] = "entries" /\ EntriesOK(s) /\ ReportRow(row, u)
    <2>1. units[v].inputs = {}
      BY <1>1, <1>5 DEF ReportRow
    <2>2. \A w, e : ~Takes(v, w, e)
      BY <2>1 DEF Takes
    <2>3. QED
      BY <1>1, <1>3, <1>5, <2>2 DEF EntriesOK, EntryRows
  <1>6. QED
    BY <1>4, <1>5

\* A step for a parent without entries.
LEMMA DependencyWorks ==
    ASSUME IInv, NEW s \in Stages, MaterializeDependency(s), plan' = plan
    PROVE  Works(s) /\ StageOK(s)'
  <1>0. /\ Types /\ Placed /\ Selected(s) /\ StageOK(s)
        /\ Mode[s] \in {"per_dependency", "entries"}
        /\ InEntries(s) \/ Later(s) # {}
    BY DEF IInv, MaterializeDependency, StagesOK
  <1>1. Ready(s) /\ ParentsEnded(s) /\ Parents(s) \subseteq DOMAIN units
    BY <1>0, ReadyFacts
  <1>2. ~Initial(s) /\ cursor[s].attention = ""
    BY <1>0, ReadyFacts DEF IInv, Ordered
  <1>3. /\ Mode[s] = "per_dependency" => DependenciesOK(s)
        /\ Mode[s] = "entries" => EntriesOK(s)
    BY <1>0, <1>2 DEF StageOK
  <1>4. ~InEntries(s)
    <2>1. ASSUME InEntries(s) PROVE FALSE
      <3>1. Mode[s] = "entries"
        BY <1>0, <1>3, <2>1 DEF DependenciesOK, InEntries
      <3>2. units[cursor[s].parent].state = "committed"
        BY <1>3, <2>1, <3>1 DEF EntriesOK, EntryCursor
      <3>3. QED
        BY <2>1, <3>1, <3>2 DEF MaterializeDependency, NextParent
    <2>2. QED
      BY <2>1
  <1>5. PICK u : u = FirstOf(Later(s))
    OBVIOUS
  <1>6. u \in Parents(s) /\ ~Passed(s, u) /\ Later(s) # {}
    BY <1>0, <1>4, <1>5, Advance
  <1>7. u \in DOMAIN units /\ u \in Nat /\ units[u].source \in 0..Sources
    <2>1. u \in DOMAIN units /\ u \in Nat
      BY <1>0, <1>1, <1>6, UnitNumbers
    <2>2. units[u].source \in 0..Sources
      BY <1>0, <2>1, RowFacts DEF UnitRow, Sources
    <2>3. QED
      BY <2>1, <2>2
  <1> DEFINE lost == Shard("unavailable", u, 0, "")
             found == Shard("result", u, 0, "")
             saved == At(s, u, 0)
             none == Candidate(s, units[u].source, {}, lost, -1, -1)
             un == Unavailable(none, "dependency_result_unavailable", FALSE)
             row == Candidate(s, units[u].source, {u}, found, -1, -1)
  <1>8. GoodCursor(s, saved)
    BY <1>0, <1>7, AtFacts
  <1>9. -1 \in Int /\ {} \in SUBSET Nat /\ {u} \in SUBSET Nat
    BY <1>7
  <1>10. lost \in ShardSet /\ found \in ShardSet
    <2>1. "unavailable" \in ShardKinds /\ "result" \in ShardKinds /\ "" \in Names
      BY DEF ShardKinds, Names
    <2>2. QED
      BY <1>7, <2>1 DEF Shard, ShardSet
  <1> HIDE DEF lost, found
  <1>11. NextParent(s) = u
    BY <1>4, <1>5 DEF NextParent
  <1>12. CASE /\ units[u].state # "committed"
              /\ Insert(s, un, saved, FALSE)
    <2>1. /\ none \in UnitRow(plan) /\ none.stage = s /\ none.inputs = {}
          /\ none.shard = lost
          /\ none.gen = generation
      BY <1>0, <1>7, <1>9, <1>10, CandidateRow
    <2> HIDE DEF none
    <2>2. "dependency_result_unavailable" \in Errors(plan)
      BY DEF Errors
    <2>3. /\ un \in UnitRow(plan) /\ un.stage = s /\ un.inputs = {}
          /\ un.shard = lost
          /\ un.gen = generation
          /\ un.state \in {"needs_attention", "skipped"}
      BY <1>0, <2>1, <2>2, UnavailableRow
    <2>4. PICK new : new = un
      OBVIOUS
    <2> HIDE DEF un, saved
    <2>5. GoodRow(s, new) /\ ReportRow(new, u)
      BY <1>12, <2>3, <2>4 DEF GoodRow, ReportRow, lost
    <2>6. \A v \in DOMAIN units : ~SameKey(units[v], new)
      BY <1>0, <1>3, <1>6, <2>3, <2>4, <2>5, FreshParent
    <2>7. Works(s) /\ (Added(s, new, saved) \/ Refused(s))
      BY <1>0, <1>1, <1>8, <1>12, <2>4, <2>5, <2>6, InsertCases
    <2>8. CASE Added(s, new, saved)
      <3>1. CASE Mode[s] = "per_dependency"
        BY <1>3, <1>5, <1>6, <2>5, <2>7, <2>8, <3>1, DependencyAdded DEF saved
      <3>2. CASE Mode[s] = "entries"
        BY <1>3, <1>4, <1>5, <1>6, <2>5, <2>7, <2>8, <3>2, EntryReported
           DEF saved
      <3>3. QED
        BY <1>0, <2>7, <3>1, <3>2
    <2>9. QED
      BY <2>7, <2>8, RefusedOK
  <1>13. CASE /\ units[u].state = "committed"
              /\ Mode[s] = "per_dependency"
              /\ Insert(s, row, saved, FALSE)
    <2>1. /\ row \in UnitRow(plan) /\ row.stage = s /\ row.inputs = {u}
          /\ row.shard = found
          /\ row.gen = generation /\ row.state = "pending"
      BY <1>0, <1>7, <1>9, <1>10, CandidateRow
    <2>2. PICK new : new = row
      OBVIOUS
    <2> HIDE DEF row, saved
    <2>3. GoodRow(s, new) /\ UseRow(new, u)
      BY <1>7, <1>13, <2>1, <2>2 DEF GoodRow, UseRow, found
    <2>4. \A v \in DOMAIN units : ~SameKey(units[v], new)
      BY <1>0, <1>3, <1>6, <1>13, <2>1, <2>2, <2>3, FreshParent
    <2>5. Works(s) /\ (Added(s, new, saved) \/ Refused(s))
      BY <1>0, <1>1, <1>8, <1>13, <2>2, <2>3, <2>4, InsertCases
    <2>6. CASE Added(s, new, saved)
      BY <1>3, <1>5, <1>6, <1>13, <2>3, <2>5, <2>6, DependencyAdded DEF saved
    <2>7. QED
      BY <2>5, <2>6, RefusedOK
  <1>14. QED
    BY <1>11, <1>12, <1>13 DEF MaterializeDependency, lost, found

\* Where a stage with a unit for each entry is: on entry e of parent unit u.
OnEntry(s, u, e) ==
    /\ u \in Parents(s) /\ u \in DOMAIN units /\ u \in Nat
    /\ units[u].source \in 0..Sources /\ units[u].out \in Payload
    /\ units[u].state = "committed"
    /\ e \in Nat \ {0} /\ Done(s, u) = e - 1
    /\ IF InEntries(s)
       THEN /\ u = cursor[s].parent /\ e = cursor[s].entry
            /\ e <= Len(units[u].out.ids)
       ELSE u = FirstOf(Later(s)) /\ e = 1
    /\ \A w \in Parents(s) : (Passed(s, w) \/ w = u) <=>
          \/ units[w].stage < units[u].stage
          \/ units[w].stage = units[u].stage /\ w <= u

\* Which parent and which entry comes next.
LEMMA EntryPlace ==
    ASSUME Types, NEW s \in Stages, Parents(s) \subseteq DOMAIN units,
           EntriesOK(s), InEntries(s) \/ Later(s) # {},
           NEW u, u = NextParent(s), units[u].state = "committed",
           NEW e, e = IF InEntries(s) THEN cursor[s].entry ELSE 1
    PROVE  OnEntry(s, u, e)
  <1>1. CASE InEntries(s)
    <2>1. /\ u = cursor[s].parent /\ u \in Parents(s)
          /\ units[u].stage = cursor[s].position
          /\ cursor[s].entry <= Len(units[u].out.ids)
          /\ e = cursor[s].entry
      BY <1>1 DEF EntriesOK, EntryCursor, NextParent
    <2>2. /\ cursor[s].entry \in Nat \ {0} /\ cursor[s].parent \in Nat
          /\ cursor[s].position \in Nat
      BY <1>1, RowFacts, PlanFacts DEF CursorRow, InEntries, Stages
    <2>3. u \in DOMAIN units /\ units[u].out \in Payload
          /\ units[u].source \in 0..Sources
      BY <2>1, RowFacts DEF UnitRow, Sources
    <2>4. Done(s, u) = e - 1
      BY <1>1, <2>1 DEF Done
    <2>5. \A w \in Parents(s) : w \in Nat /\ units[w].stage \in Nat
      BY UnitNumbers
    <2>6. \A w \in Parents(s) : (Passed(s, w) \/ w = u) <=>
              \/ units[w].stage < units[u].stage
              \/ units[w].stage = units[u].stage /\ w <= u
      BY <2>1, <2>5 DEF Passed
    <2>7. QED
      BY <1>1, <2>1, <2>2, <2>3, <2>4, <2>6 DEF OnEntry
  <1>2. CASE ~InEntries(s)
    <2>1. u = FirstOf(Later(s)) /\ e = 1 /\ Later(s) # {}
      BY <1>2 DEF NextParent
    <2>2. /\ u \in Parents(s) /\ ~Passed(s, u)
          /\ \A w \in Parents(s) : (Passed(s, w) \/ w = u) <=>
                \/ units[w].stage < units[u].stage
                \/ units[w].stage = units[u].stage /\ w <= u
      BY <2>1, Advance
    <2>3. u \in DOMAIN units /\ u \in Nat /\ units[u].out \in Payload
          /\ units[u].source \in 0..Sources
      BY <2>2, RowFacts, UnitNumbers DEF UnitRow, Sources
    <2>4. Done(s, u) = 0
      BY <1>2, <2>2 DEF Done
    <2>5. QED
      BY <1>2, <2>1, <2>2, <2>3, <2>4 DEF OnEntry
  <1>3. QED
    BY <1>1, <1>2

\* A parent unit without entries is passed.
LEMMA EmptyPassed ==
    ASSUME IInv, NEW s \in Stages, Works(s), Mode[s] = "entries", EntriesOK(s),
           NEW u, OnEntry(s, u, 1), ~InEntries(s), Len(units[u].out.ids) = 0,
           units' = units, cursor'[s] = At(s, u, 0)
    PROVE  StageOK(s)'
  <1>0. Types /\ Placed /\ ParentsEnded(s)
    BY DEF IInv, Works, Ready
  <1>1. /\ u \in Parents(s) /\ u \in DOMAIN units /\ Done(s, u) = 0
        /\ \A w \in Parents(s) : (Passed(s, w) \/ w = u) <=>
              \/ units[w].stage < units[u].stage
              \/ units[w].stage = units[u].stage /\ w <= u
    BY DEF OnEntry
  <1>2. Mode' = Mode /\ Parents(s)' = Parents(s) /\ UnitsOf(s)' = UnitsOf(s)
    BY <1>0, WorksFacts DEF UnitsOf
  <1>3. /\ cursor'[s].position = units[u].stage /\ cursor'[s].parent = u
        /\ cursor'[s].entry = 0 /\ cursor'[s].completed = cursor[s].completed
    BY <1>0, <1>1, AtFacts
  <1>4. ~InEntries(s)' /\ \A w \in Parents(s) :
            Passed(s, w)' <=> (Passed(s, w) \/ w = u)
    BY <1>1, <1>3 DEF Passed, InEntries
  <1>5. \A w \in Parents(s) : Done(s, w)' = Done(s, w)
    BY <1>1, <1>4 DEF Done
  <1>6. \A v, w, e : /\ Reports(v, w)' <=> Reports(v, w)
                     /\ Takes(v, w, e)' <=> Takes(v, w, e)
    BY DEF Reports, Takes, Shard
  <1>7. EntryRows(s)'
    <2>1. ASSUME NEW v \in UnitsOf(s)
          PROVE  \E w \in Parents(s) :
                    \/ Reports(v, w)' /\ Passed(s, w)'
                    \/ /\ units'[w].state = "committed"
                       /\ \E e \in 1..Done(s, w)' : Takes(v, w, e)'
      <3>1. PICK w \in Parents(s) :
                    \/ Reports(v, w) /\ Passed(s, w)
                    \/ /\ units[w].state = "committed"
                       /\ \E e \in 1..Done(s, w) : Takes(v, w, e)
        BY DEF EntriesOK, EntryRows
      <3>2. QED
        BY <1>4, <1>5, <1>6, <3>1
    <2>2. QED
      BY <1>2, <2>1 DEF EntryRows
  <1>8. EntriesServed(s)'
    BY <1>2, <1>5, <1>6 DEF EntriesOK, EntriesServed
  <1>9. EntriesOnce(s)'
    BY <1>2 DEF EntriesOK, EntriesOnce
  <1>10. EntriesDistinct(s)'
    BY <1>2, <1>5 DEF EntriesOK, EntriesDistinct
  <1>11. EntriesOK(s)'
    BY <1>3, <1>4, <1>7, <1>8, <1>9, <1>10
       DEF EntriesOK, EntryCursor, Works, Ready
  <1>12. QED
    BY <1>2, <1>11 DEF StageOK

\* A unit for an entry that has none.
LEMMA EntryAdded ==
    ASSUME IInv, NEW s \in Stages, Works(s), Mode[s] = "entries", EntriesOK(s),
           NEW u, NEW e, OnEntry(s, u, e), e <= Len(units[u].out.ids),
           units[u].out.array,
           NEW row, GoodRow(s, row), row.inputs = {u},
           row.source = units[u].source,
           row.shard = Shard("entry", 0, 0, units[u].out.ids[e]),
           Added(s, row, At(s, u, NextEntry(units[u].out.ids, e)))
    PROVE  StageOK(s)'
  <1>0. Types /\ Placed /\ ParentsEnded(s)
    BY DEF IInv, Works, Ready
  <1>a. PICK new : new = Len(units) + 1
    OBVIOUS
  <1>b. PICK ids : ids = units[u].out.ids
    OBVIOUS
  <1>c. PICK next : next = NextEntry(ids, e)
    OBVIOUS
  <1>1. /\ u \in Parents(s) /\ u \in DOMAIN units /\ units[u].state = "committed"
        /\ e \in Nat \ {0} /\ Done(s, u) = e - 1
        /\ \A w \in Parents(s) : (Passed(s, w) \/ w = u) <=>
              \/ units[w].stage < units[u].stage
              \/ units[w].stage = units[u].stage /\ w <= u
    BY DEF OnEntry
  <1>2. Len(ids) \in Nat /\ e <= Len(ids)
    BY <1>b DEF OnEntry, Payload
  <1>3. next \in Nat /\ (next > 0 => next = e + 1 /\ next <= Len(ids))
        /\ (next = 0 => e = Len(ids))
    BY <1>1, <1>2, <1>c DEF NextEntry
  <1>4. /\ Mode' = Mode /\ Parents(s)' = Parents(s)
        /\ \A w \in Parents(s) : units'[w] = units[w]
    BY <1>0, WorksFacts
  <1>5. /\ GoodCursor(s, At(s, u, next))
        /\ At(s, u, next).position = units[u].stage
        /\ At(s, u, next).parent = u /\ At(s, u, next).entry = next
        /\ At(s, u, next).completed = cursor[s].completed
    BY <1>0, <1>1, <1>3, AtFacts
  <1>6. Added(s, row, At(s, u, next))
    BY <1>b, <1>c
  <1>7. /\ UnitsOf(s)' = UnitsOf(s) \cup {new} /\ new \notin UnitsOf(s)
        /\ units'[new] = row
        /\ \A v \in UnitsOf(s) : units'[v] = units[v] /\ v \in DOMAIN units
        /\ cursor'[s].position = units[u].stage /\ cursor'[s].parent = u
        /\ cursor'[s].entry = next
        /\ cursor'[s].completed = cursor[s].completed
    BY <1>0, <1>5, <1>6, <1>a, AddedFacts
  <1>8. \A w \in Parents(s) : Passed(s, w)' <=> (Passed(s, w) \/ w = u)
    BY <1>1, <1>4, <1>7 DEF Passed
  <1>9. Done(s, u)' = e
    BY <1>1, <1>3, <1>4, <1>7, <1>8, <1>b DEF Done, InEntries
  <1>10. ASSUME NEW w \in Parents(s), w # u
         PROVE  Done(s, w)' = Done(s, w)
    <2>1. ~(InEntries(s) /\ w = cursor[s].parent)
      BY <1>10 DEF OnEntry
    <2>2. QED
      BY <1>4, <1>7, <1>8, <1>10, <2>1 DEF Done
  <1>11. \A v \in UnitsOf(s), w \in Parents(s) :
            /\ Reports(v, w)' <=> Reports(v, w)
            /\ \A f : Takes(v, w, f)' <=> Takes(v, w, f)
    BY <1>0, <1>4, <1>7, RelationsKept
  <1>12. Takes(new, u, e)'
    BY <1>1, <1>4, <1>7 DEF Takes, Shard
  <1>13. ASSUME NEW v \in UnitsOf(s), NEW f, Takes(v, u, f), ids[f] = ids[e]
         PROVE  FALSE
    <2>1. /\ units[v].stage = s /\ units[v].inputs = {u}
          /\ units[v].source = units[u].source
          /\ units[v].shard = Shard("entry", 0, 0, ids[e])
      BY <1>13, <1>b DEF UnitsOf, Takes
    <2>2. row.stage = s
      BY DEF GoodRow
    <2>3. SameKey(units[v], row)
      BY <1>b, <2>1, <2>2 DEF SameKey
    <2>4. QED
      BY <1>7, <2>3 DEF Added
  <1>14. \A f \in 1..e : f \in 1..Done(s, u) \/ f = e
    BY <1>1
  <1>15. \A f \in 1..Done(s, u) : f \in 1..e
    BY <1>1
  <1>16. e \in 1..e
    BY <1>1
  <1>17. EntryRows(s)'
    <2>1. ASSUME NEW v \in UnitsOf(s)
          PROVE  \E w \in Parents(s) :
                    \/ Reports(v, w)' /\ Passed(s, w)'
                    \/ /\ units'[w].state = "committed"
                       /\ \E f \in 1..Done(s, w)' : Takes(v, w, f)'
      <3>1. PICK w \in Parents(s) :
                    \/ Reports(v, w) /\ Passed(s, w)
                    \/ /\ units[w].state = "committed"
                       /\ \E f \in 1..Done(s, w) : Takes(v, w, f)
        BY DEF EntriesOK, EntryRows
      <3>2. CASE Reports(v, w) /\ Passed(s, w)
        BY <1>8, <1>11, <3>2
      <3>3. CASE /\ units[w].state = "committed"
                 /\ \E f \in 1..Done(s, w) : Takes(v, w, f)
        <4>1. \A f \in 1..Done(s, w) : f \in 1..Done(s, w)'
          BY <1>9, <1>10, <1>15
        <4>2. QED
          BY <1>4, <1>11, <3>3, <4>1
      <3>4. QED
        BY <3>1, <3>2, <3>3
    <2>2. \E f \in 1..Done(s, u)' : Takes(new, u, f)'
      BY <1>9, <1>12, <1>16
    <2>3. units'[u].state = "committed"
      BY <1>1, <1>4
    <2>4. QED
      BY <1>1, <1>4, <1>7, <2>1, <2>2, <2>3 DEF EntryRows
  <1>18. EntriesServed(s)'
    <2>1. ASSUME NEW w \in Parents(s), units'[w].state = "committed",
                 NEW f \in 1..Done(s, w)'
          PROVE  \E v \in UnitsOf(s)' : Takes(v, w, f)'
      <3>1. CASE f \in 1..Done(s, w)
        <4>1. PICK v \in UnitsOf(s) : Takes(v, w, f)
          BY <1>4, <2>1, <3>1 DEF EntriesOK, EntriesServed
        <4>2. QED
          BY <1>7, <1>11, <4>1
      <3>2. CASE w = u /\ f = e
        BY <1>7, <1>12, <3>2
      <3>3. QED
        BY <1>9, <1>10, <1>14, <2>1, <3>1, <3>2
    <2>2. QED
      BY <1>4, <2>1 DEF EntriesServed
  <1>19. ASSUME NEW v \in UnitsOf(s), units[v].inputs = {u},
                units[v].shard[4] = ids[e]
         PROVE  FALSE
    <2>1. PICK w \in Parents(s) :
                  \/ Reports(v, w) /\ Passed(s, w)
                  \/ /\ units[w].state = "committed"
                     /\ \E f \in 1..Done(s, w) : Takes(v, w, f)
      BY DEF EntriesOK, EntryRows
    <2>2. PICK f : Takes(v, w, f)
      BY <1>19, <2>1 DEF Reports
    <2>3. w = u
      BY <1>19, <2>2 DEF Takes
    <2>4. units[v].shard[4] = ids[f]
      BY <1>b, <2>2, <2>3, ShardNames DEF Takes
    <2>5. QED
      BY <1>13, <1>19, <2>2, <2>3, <2>4
  <1>20. row.shard[4] = ids[e]
    BY <1>b, ShardNames
  <1>21. EntriesOnce(s)'
    BY <1>7, <1>19, <1>20 DEF EntriesOK, EntriesOnce
  <1>22. EntriesDistinct(s)'
    <2>1. ASSUME NEW f \in 1..Done(s, u), ids[f] = ids[e]
          PROVE  FALSE
      BY <1>1, <1>13, <2>1 DEF EntriesOK, EntriesServed
    <2>2. ASSUME NEW w \in Parents(s), units'[w].state = "committed",
                 NEW f \in 1..Done(s, w)', NEW g \in 1..Done(s, w)',
                 units'[w].out.ids[f] = units'[w].out.ids[g]
          PROVE  f = g
      <3>1. CASE f \in 1..Done(s, w) /\ g \in 1..Done(s, w)
        BY <1>4, <2>2, <3>1 DEF EntriesOK, EntriesDistinct
      <3>2. CASE w = u
        BY <1>4, <1>9, <1>14, <1>b, <2>1, <2>2, <3>1, <3>2
      <3>3. QED
        BY <1>10, <2>2, <3>1, <3>2
    <2>3. QED
      BY <1>4, <2>2 DEF EntriesDistinct
  <1>23. EntryCursor(s)'
    BY <1>1, <1>3, <1>4, <1>7, <1>b
       DEF EntryCursor, InEntries, Works, Ready
  <1>24. EntriesOK(s)'
    BY <1>7, <1>17, <1>18, <1>21, <1>22, <1>23 DEF EntriesOK, Works, Ready
  <1>25. QED
    BY <1>4, <1>24 DEF StageOK

\* A step for an entry.
LEMMA EntryWorks ==
    ASSUME IInv, NEW s \in Stages, MaterializeEntry(s), plan' = plan
    PROVE  Works(s) /\ StageOK(s)'
  <1>0. /\ Types /\ Placed /\ Selected(s) /\ StageOK(s)
        /\ Mode[s] = "entries"
        /\ InEntries(s) \/ Later(s) # {}
    BY DEF IInv, MaterializeEntry, StagesOK
  <1>1. /\ Ready(s) /\ ParentsEnded(s) /\ Parents(s) \subseteq DOMAIN units
        /\ cursor[s] \in CursorRow(plan)
    BY <1>0, ReadyFacts
  <1>2. ~Initial(s) /\ cursor[s].attention = ""
    BY <1>0, ReadyFacts DEF IInv, Ordered
  <1>3. EntriesOK(s)
    BY <1>0, <1>2 DEF StageOK
  <1>4. PICK u : u = NextParent(s)
    OBVIOUS
  <1>5. PICK e : e = IF InEntries(s) THEN cursor[s].entry ELSE 1
    OBVIOUS
  <1>6. PICK ids : ids = units[u].out.ids
    OBVIOUS
  <1>7. units[u].state = "committed"
    BY <1>4 DEF MaterializeEntry
  <1>8. OnEntry(s, u, e)
    BY <1>0, <1>1, <1>3, <1>4, <1>5, <1>7, EntryPlace
  <1>9. /\ u \in DOMAIN units /\ u \in Nat /\ e \in Nat \ {0}
        /\ units[u].source \in 0..Sources /\ ids \in Seq(STRING)
    BY <1>6, <1>8 DEF OnEntry, Payload
  <1>10. Len(ids) \in Nat /\ (ids = <<>> <=> Len(ids) = 0)
    BY <1>9
  <1>11. ASSUME NEW code \in Attentions, code # "",
                SaveCursor(s, [cursor[s] EXCEPT !.attention = code])
         PROVE  Works(s) /\ StageOK(s)'
    <2>1. PICK saved : saved = [cursor[s] EXCEPT !.attention = code]
      OBVIOUS
    <2>2. cursor[s].parent <= Len(units)
      BY <1>0 DEF Placed
    <2>3. GoodCursor(s, saved) /\ saved.attention = code
      BY <1>1, <2>1, <2>2 DEF GoodCursor, CursorRow
    <2>4. Works(s) /\ units' = units /\ cursor'[s] = saved
      BY <1>0, <1>1, <1>11, <2>1, <2>3, SaveCursorWorks
    <2>5. Refused(s)
      BY <1>11, <2>3, <2>4 DEF Refused
    <2>6. QED
      BY <2>4, <2>5, RefusedOK
  <1>12. CASE ~units[u].out.array
    <2>1. SaveCursor(s, [cursor[s] EXCEPT
                            !.attention = "dependency_payload_invalid"])
      BY <1>4, <1>12 DEF MaterializeEntry
    <2>2. QED
      BY <1>11, <2>1 DEF Attentions
  <1>13. CASE units[u].out.array /\ ids = <<>>
    <2>1. SaveCursor(s, At(s, u, 0))
      BY <1>4, <1>6, <1>13 DEF MaterializeEntry
    <2>2. GoodCursor(s, At(s, u, 0))
      BY <1>0, <1>9, AtFacts
    <2>3. Works(s) /\ units' = units /\ cursor'[s] = At(s, u, 0)
      BY <1>0, <1>1, <2>1, <2>2, SaveCursorWorks
    <2>4. ~InEntries(s) /\ e = 1
      BY <1>6, <1>8, <1>9, <1>10, <1>13 DEF OnEntry
    <2>a. OnEntry(s, u, 1) /\ Len(units[u].out.ids) = 0
      BY <1>6, <1>8, <1>10, <1>13, <2>4
    <2>5. StageOK(s)'
      BY <1>0, <1>3, <2>3, <2>4, <2>a, EmptyPassed
    <2>6. QED
      BY <2>3, <2>5
  <1>14. CASE units[u].out.array /\ ids # <<>> /\ ids[e] = ""
    <2>1. SaveCursor(s, [cursor[s] EXCEPT
                            !.attention = "entry_identity_invalid"])
      BY <1>4, <1>5, <1>6, <1>14 DEF MaterializeEntry
    <2>2. QED
      BY <1>11, <2>1 DEF Attentions
  <1>15. CASE units[u].out.array /\ ids # <<>> /\ ids[e] # ""
    <2> DEFINE shard == Shard("entry", 0, 0, ids[e])
               row == Candidate(s, units[u].source, {u}, shard, -1, -1)
               saved == At(s, u, NextEntry(ids, e))
    <2>1. Insert(s, row, saved, TRUE)
      BY <1>4, <1>5, <1>6, <1>15 DEF MaterializeEntry
    <2>2. e <= Len(ids)
      <3>1. CASE InEntries(s)
        BY <1>6, <1>8, <3>1 DEF OnEntry
      <3>2. CASE ~InEntries(s)
        <4>1. e = 1
          BY <1>8, <3>2 DEF OnEntry
        <4>2. Len(ids) # 0
          BY <1>10, <1>15
        <4>3. QED
          BY <1>10, <4>1, <4>2
      <3>3. QED
        BY <3>1, <3>2
    <2>3. shard \in ShardSet
      <3>a. ids[e] \in STRING
        BY <1>9, <2>2
      <3>1. ids[e] \in Names
        BY <3>a DEF Names
      <3>2. "entry" \in ShardKinds
        BY DEF ShardKinds
      <3>3. QED
        BY <3>1, <3>2 DEF Shard, ShardSet
    <2>4. -1 \in Int /\ {u} \in SUBSET Nat
      BY <1>9
    <2> HIDE DEF shard
    <2>5. /\ row \in UnitRow(plan) /\ row.stage = s /\ row.inputs = {u}
          /\ row.source = units[u].source /\ row.shard = shard
          /\ row.gen = generation /\ row.state = "pending"
      BY <1>0, <1>9, <2>3, <2>4, CandidateRow
    <2> HIDE DEF row
    <2>6. GoodRow(s, row)
      BY <1>7, <1>9, <2>5 DEF GoodRow
    <2>7. GoodCursor(s, saved)
      <3>1. NextEntry(ids, e) \in Nat
        BY <1>9, <1>10 DEF NextEntry
      <3>2. QED
        BY <1>0, <1>9, <3>1, AtFacts
    <2> HIDE DEF saved
    <2>8. Works(s) /\ (Added(s, row, saved) \/ Refused(s))
      BY <1>0, <1>1, <2>1, <2>6, <2>7, InsertCases
    <2>9. CASE Added(s, row, saved)
      <3>a. /\ row.shard = Shard("entry", 0, 0, units[u].out.ids[e])
            /\ Added(s, row, At(s, u, NextEntry(units[u].out.ids, e)))
            /\ e <= Len(units[u].out.ids)
        BY <1>6, <2>2, <2>5, <2>9 DEF shard, saved
      <3>b. row.inputs = {u} /\ row.source = units[u].source
        BY <2>5
      <3>c. units[u].out.array
        BY <1>15
      <3>1. StageOK(s)'
        BY <1>0, <1>3, <1>8, <2>6, <2>8, <3>a, <3>b, <3>c, EntryAdded
      <3>2. QED
        BY <2>8, <3>1
    <2>10. QED
      BY <2>8, <2>9, RefusedOK
  <1>16. QED
    BY <1>12, <1>13, <1>14, <1>15

-----------------------------------------------------------------------------
(* Sums over finite sets, as MapThenSumSet computes them.                  *)

Pick(T) == CHOOSE x \in T : TRUE

\* Function `it` adds up f over every subset of S.
Adds(it, f, S) ==
    it = [T \in SUBSET S |->
             IF T = {} THEN 0 ELSE f[Pick(T)] + it[T \ {Pick(T)}]]

Total(f, S) == (CHOOSE it : Adds(it, f, S))[S]

\* The size of a part of a finite set, and of the part without one element.
LEMMA PartSizes ==
    ASSUME NEW S, IsFiniteSet(S), NEW T \in SUBSET S
    PROVE  /\ IsFiniteSet(T) /\ Cardinality(T) \in Nat
           /\ Cardinality(T) <= Cardinality(S) /\ Cardinality(S) \in Nat
           /\ T # {} => /\ Pick(T) \in T /\ T \ {Pick(T)} \in SUBSET S
                        /\ Cardinality(T \ {Pick(T)}) = Cardinality(T) - 1
  <1>1. IsFiniteSet(T) /\ Cardinality(T) <= Cardinality(S)
    BY FS_Subset
  <1>2. Cardinality(T) \in Nat /\ Cardinality(S) \in Nat
    BY <1>1, FS_CardinalityType
  <1>3. ASSUME T # {} PROVE Pick(T) \in T
    BY <1>3 DEF Pick
  <1>4. QED
    BY <1>1, <1>2, <1>3, FS_RemoveElement

\* A sum over a finite set exists,
LEMMA FoldExists ==
    ASSUME NEW S, IsFiniteSet(S), NEW f \in [S -> Int]
    PROVE  \E it \in [SUBSET S -> Int] : Adds(it, f, S)
  <1> DEFINE Small(n) == {T \in SUBSET S : Cardinality(T) < n}
             Body(it, T) == IF T = {} THEN 0
                            ELSE f[Pick(T)] + it[T \ {Pick(T)}]
             Good(n) == \E it \in [Small(n) -> Int] :
                            \A T \in Small(n) : it[T] = Body(it, T)
  <1>0. /\ Cardinality(S) \in Nat
        /\ \A T \in SUBSET S : /\ Cardinality(T) \in Nat
                               /\ Cardinality(T) <= Cardinality(S)
    <2>1. ASSUME NEW T \in SUBSET S
          PROVE  Cardinality(T) \in Nat /\ Cardinality(T) <= Cardinality(S)
      BY PartSizes
    <2>2. QED
      BY <2>1, FS_CardinalityType
  <1>1. \A n \in Nat : Good(n)
    <2> DEFINE Bad == {n \in Nat : ~Good(n)}
    <2>0. Good(0)
      <3>1. Small(0) = {}
        BY <1>0
      <3>2. [T \in {} |-> 0] \in [Small(0) -> Int]
        BY <3>1
      <3>3. QED
        BY <3>1, <3>2
    <2> HIDE DEF Good
    <2> SUFFICES ASSUME Bad # {} PROVE FALSE
      OBVIOUS
    <2>1. PICK n \in Bad : \A m \in Bad : n <= m
      <3>1. Bad \in SUBSET Nat
        OBVIOUS
      <3> HIDE DEF Bad
      <3>2. QED
        BY <3>1, LeastNat
    <2>2. n \in Nat /\ n # 0 /\ ~Good(n)
      BY <2>0
    <2>3. n - 1 \in Nat /\ Good(n - 1)
      <3>1. n - 1 \in Nat /\ ~(n <= n - 1)
        BY <2>2
      <3>2. n - 1 \notin Bad
        BY <2>1, <3>1
      <3>3. QED
        BY <3>1, <3>2
    <2>4. PICK it \in [Small(n - 1) -> Int] :
                  \A T \in Small(n - 1) : it[T] = Body(it, T)
      BY <2>3 DEF Good
    <2> DEFINE jt == [T \in Small(n) |-> Body(it, T)]
    <2>5. ASSUME NEW T \in Small(n), T # {}
          PROVE  T \ {Pick(T)} \in Small(n - 1) /\ f[Pick(T)] \in Int
      <3>1. /\ Pick(T) \in T /\ T \ {Pick(T)} \in SUBSET S
            /\ Cardinality(T \ {Pick(T)}) = Cardinality(T) - 1
            /\ Cardinality(T) \in Nat
        BY <2>5, PartSizes
      <3>2. QED
        BY <2>2, <3>1
    <2>6. ASSUME NEW T \in Small(n)
          PROVE  jt[T] = Body(it, T) /\ jt[T] \in Int
      <3>1. CASE T = {}
        BY <3>1
      <3>2. CASE T # {}
        <4>1. it[T \ {Pick(T)}] \in Int /\ f[Pick(T)] \in Int
          BY <2>5, <3>2
        <4>2. QED
          BY <3>2, <4>1
      <3>3. QED
        BY <3>1, <3>2
    <2>7. ASSUME NEW T \in Small(n - 1)
          PROVE  T \in Small(n) /\ it[T] = jt[T]
      <3>1. T \in Small(n)
        <4>1. T \in SUBSET S /\ Cardinality(T) < n - 1
          OBVIOUS
        <4>2. QED
          BY <1>0, <2>2, <4>1
      <3>2. QED
        BY <2>4, <2>6, <3>1
    <2>8. jt \in [Small(n) -> Int]
      BY <2>6
    <2>9. ASSUME NEW T \in Small(n)
          PROVE  jt[T] = Body(jt, T)
      <3>1. CASE T = {}
        BY <2>6, <3>1
      <3>2. CASE T # {}
        <4>1. it[T \ {Pick(T)}] = jt[T \ {Pick(T)}]
          BY <2>5, <2>7, <3>2
        <4>2. QED
          BY <2>6, <3>2, <4>1
      <3>3. QED
        BY <3>1, <3>2
    <2> HIDE DEF jt
    <2>10. Good(n)
      BY <2>8, <2>9 DEF Good
    <2>11. QED
      BY <2>2, <2>10
  <1>2. Small(Cardinality(S) + 1) = SUBSET S
    BY <1>0
  <1>3. PICK it \in [SUBSET S -> Int] : \A T \in SUBSET S : it[T] = Body(it, T)
    <2>1. Good(Cardinality(S) + 1)
      <3> HIDE DEF Good
      <3>1. QED
        BY <1>0, <1>1
    <2>2. PICK it \in [Small(Cardinality(S) + 1) -> Int] :
                  \A T \in Small(Cardinality(S) + 1) : it[T] = Body(it, T)
      BY <2>1
    <2> HIDE DEF Small
    <2>3. QED
      BY <1>2, <2>2
  <1>4. it = [T \in SUBSET S |-> Body(it, T)]
    BY <1>3
  <1>5. QED
    BY <1>4 DEF Adds

\* Function `it` says what the sum of f over S is made of.
Sums(it, f, S) ==
    /\ Total(f, S) = it[S]
    /\ \A T \in SUBSET S :
          /\ it[T] \in Int
          /\ it[T] = IF T = {} THEN 0 ELSE f[Pick(T)] + it[T \ {Pick(T)}]

\* and Total is one.
LEMMA TotalFacts ==
    ASSUME NEW S, IsFiniteSet(S), NEW f \in [S -> Int]
    PROVE  \E it : Sums(it, f, S)
  <1>0. /\ Cardinality(S) \in Nat
        /\ \A T \in SUBSET S : /\ Cardinality(T) \in Nat
                               /\ Cardinality(T) <= Cardinality(S)
    <2>1. ASSUME NEW T \in SUBSET S
          PROVE  Cardinality(T) \in Nat /\ Cardinality(T) <= Cardinality(S)
      BY PartSizes
    <2>2. QED
      BY <2>1, FS_CardinalityType
  <1> DEFINE it == CHOOSE it : Adds(it, f, S)
  <1>1. Adds(it, f, S)
    BY FoldExists
  <1> HIDE DEF it
  <1>2. \A T \in SUBSET S :
            it[T] = IF T = {} THEN 0 ELSE f[Pick(T)] + it[T \ {Pick(T)}]
    BY <1>1 DEF Adds
  <1>3. \A T \in SUBSET S : it[T] \in Int
    <2> DEFINE Bad == {Cardinality(T) : T \in {X \in SUBSET S : it[X] \notin Int}}
    <2> SUFFICES ASSUME Bad # {} PROVE FALSE
      OBVIOUS
    <2>1. Bad \in SUBSET Nat
      BY <1>0
    <2>2. PICK n \in Bad : \A m \in Bad : n <= m
      <3> HIDE DEF Bad
      <3>1. QED
        BY <2>1, LeastNat
    <2>3. PICK T \in SUBSET S : it[T] \notin Int /\ Cardinality(T) = n
      BY <2>2
    <2>4. T # {}
      <3>1. it[{}] = 0
        BY <1>2
      <3>2. QED
        BY <2>3, <3>1
    <2>5. /\ Pick(T) \in T /\ T \ {Pick(T)} \in SUBSET S
          /\ Cardinality(T \ {Pick(T)}) = Cardinality(T) - 1
          /\ Cardinality(T) \in Nat
      BY <2>4, PartSizes
    <2>6. it[T \ {Pick(T)}] \in Int
      <3>1. ~(n <= Cardinality(T \ {Pick(T)}))
        BY <2>3, <2>5
      <3>2. QED
        BY <2>2, <2>5, <3>1
    <2>7. f[Pick(T)] \in Int
      BY <2>5
    <2>8. it[T] = f[Pick(T)] + it[T \ {Pick(T)}]
      BY <1>2, <2>4
    <2>9. QED
      BY <2>3, <2>6, <2>7, <2>8
  <1>4. Total(f, S) = it[S]
    BY DEF Total, it
  <1>5. QED
    BY <1>2, <1>3, <1>4 DEF Sums

Lengths(us, S) == [u \in S |-> Len(us[u].out.ids)]

Insides(us, S) == [u \in S |-> EntriesBytes(us[u].out.ids) - 2]

\* Items and contents are such sums.
LEMMA FoldsAreTotals ==
    ASSUME NEW us, NEW S
    PROVE  /\ Items(us, S) = Total(Lengths(us, S), S)
           /\ Contents(us, S) = Total(Insides(us, S), S)
  <1> DEFINE Eq(it) == it = [T \in SUBSET S |-> IF T = {} THEN 0
                                ELSE Len(us[Pick(T)].out.ids)
                                         + it[T \ {Pick(T)}]]
             Eq2(it) == it = [T \in SUBSET S |-> IF T = {} THEN 0
                                ELSE (EntriesBytes(us[Pick(T)].out.ids) - 2)
                                         + it[T \ {Pick(T)}]]
  <1>0. \A T \in SUBSET S : T # {} =>
            /\ Lengths(us, S)[Pick(T)] = Len(us[Pick(T)].out.ids)
            /\ Insides(us, S)[Pick(T)] = EntriesBytes(us[Pick(T)].out.ids) - 2
    BY DEF Pick, Lengths, Insides
  <1>1. \A it : Eq(it) <=> Adds(it, Lengths(us, S), S)
    BY <1>0 DEF Adds
  <1>2. \A it : Eq2(it) <=> Adds(it, Insides(us, S), S)
    BY <1>0 DEF Adds
  <1>3. Items(us, S) = (CHOOSE it : Eq(it))[S]
    BY DEF Items, MapThenSumSet, MapThenFoldSet, Pick
  <1>4. Contents(us, S) = (CHOOSE it : Eq2(it))[S]
    BY DEF Contents, MapThenSumSet, MapThenFoldSet, Pick
  <1> HIDE DEF Eq, Eq2
  <1>5. (CHOOSE it : Eq(it)) = (CHOOSE it : Adds(it, Lengths(us, S), S))
    BY <1>1
  <1>6. (CHOOSE it : Eq2(it)) = (CHOOSE it : Adds(it, Insides(us, S), S))
    BY <1>2
  <1>7. QED
    BY <1>3, <1>4, <1>5, <1>6 DEF Total

\* Rows that can be measured: a finite set of them, with payloads.
Measured(us, S) == IsFiniteSet(S) /\ \A u \in S : us[u].out \in Payload

Nonempty(us, S) == {u \in S : us[u].out.ids # <<>>}

\* An array of k > 0 items takes 2 + k + (k - 1) bytes: between the brackets
\* and with a comma each, arrays take twice their items.
LEMMA ArraySizes ==
    ASSUME NEW us, NEW S, Measured(us, S)
    PROVE  /\ Items(us, S) \in Nat /\ Contents(us, S) \in Int
           /\ IsFiniteSet(Nonempty(us, S))
           /\ Cardinality(Nonempty(us, S)) \in Nat
           /\ Contents(us, S) + Cardinality(Nonempty(us, S)) = 2 * Items(us, S)
           /\ Nonempty(us, S) = {} <=> Items(us, S) = 0
  <1> DEFINE N(T) == Nonempty(us, T)
             f == Lengths(us, S)
             g == Insides(us, S)
  <1>1. \A u \in S : LET ids == us[u].out.ids
                     IN  /\ Len(ids) \in Nat /\ (ids = <<>> <=> Len(ids) = 0)
                         /\ EntriesBytes(ids) - 2 =
                              IF ids = <<>> THEN 0 ELSE 2 * Len(ids) - 1
    BY DEF Measured, Payload, EntriesBytes
  <1>2. /\ f \in [S -> Int] /\ g \in [S -> Int]
        /\ \A u \in S : /\ f[u] \in Nat /\ (us[u].out.ids = <<>> <=> f[u] = 0)
                        /\ g[u] = IF us[u].out.ids = <<>> THEN 0 ELSE 2 * f[u] - 1
    BY <1>1 DEF Lengths, Insides
  <1>3. IsFiniteSet(S)
    BY DEF Measured
  <1> HIDE DEF f, g
  <1>4. PICK it : Sums(it, f, S)
    BY <1>2, <1>3, TotalFacts
  <1>5. PICK jt : Sums(jt, g, S)
    BY <1>2, <1>3, TotalFacts
  <1>6. \A T \in SUBSET S : /\ Cardinality(T) \in Nat /\ IsFiniteSet(T)
                            /\ IsFiniteSet(N(T)) /\ Cardinality(N(T)) \in Nat
    <2>1. ASSUME NEW T \in SUBSET S
          PROVE  /\ Cardinality(T) \in Nat /\ IsFiniteSet(T)
                 /\ IsFiniteSet(N(T)) /\ Cardinality(N(T)) \in Nat
      <3>1. N(T) \in SUBSET S
        BY DEF Nonempty
      <3>2. QED
        BY <1>3, <3>1, PartSizes
    <2>2. QED
      BY <2>1
  <1> DEFINE Right(T) == /\ it[T] \in Nat
                         /\ jt[T] + Cardinality(N(T)) = 2 * it[T]
                         /\ N(T) = {} <=> it[T] = 0
  <1>7. \A T \in SUBSET S : Right(T)
    <2> DEFINE Wrong == {X \in SUBSET S : ~Right(X)}
               Bad == {Cardinality(T) : T \in Wrong}
    <2>0. Right({})
      <3>1. N({}) = {}
        BY DEF Nonempty
      <3>2. it[{}] = 0 /\ jt[{}] = 0
        BY <1>4, <1>5 DEF Sums
      <3>3. Cardinality({}) = 0
        BY FS_EmptySet
      <3>4. QED
        BY <3>1, <3>2, <3>3
    <2> HIDE DEF Right
    <2> SUFFICES ASSUME Wrong # {} PROVE FALSE
      OBVIOUS
    <2>1. Bad \in SUBSET Nat /\ Bad # {}
      BY <1>6
    <2>2. PICK n \in Bad : \A m \in Bad : n <= m
      <3> HIDE DEF Bad
      <3>1. QED
        BY <2>1, LeastNat
    <2>3. PICK T \in Wrong : Cardinality(T) = n
      BY <2>2
    <2>4. T \in SUBSET S /\ ~Right(T) /\ T # {}
      BY <2>0
    <2>5. PICK x : x = Pick(T)
      OBVIOUS
    <2>6. /\ x \in T /\ T \ {x} \in SUBSET S
          /\ Cardinality(T \ {x}) = Cardinality(T) - 1 /\ Cardinality(T) \in Nat
      BY <1>3, <2>4, <2>5, PartSizes
    <2>7. Right(T \ {x})
      <3>1. ~(n <= Cardinality(T \ {x}))
        BY <2>3, <2>6
      <3>2. T \ {x} \notin Wrong
        BY <2>2, <3>1
      <3>3. QED
        BY <2>6, <3>2
    <2>8. /\ it[T] = f[x] + it[T \ {x}] /\ jt[T] = g[x] + jt[T \ {x}]
          /\ it[T \ {x}] \in Int /\ jt[T \ {x}] \in Int
      BY <1>4, <1>5, <2>4, <2>5, <2>6 DEF Sums
    <2>9. PICK b, c : b = it[T \ {x}] /\ c = jt[T \ {x}]
      OBVIOUS
    <2>10. PICK k : k = Cardinality(N(T \ {x}))
      OBVIOUS
    <2>11. /\ b \in Nat /\ c \in Int /\ k \in Nat /\ c + k = 2 * b
           /\ N(T \ {x}) = {} <=> b = 0
      BY <1>6, <2>6, <2>7, <2>8, <2>9, <2>10 DEF Right
    <2>12. CASE us[x].out.ids = <<>>
      <3>1. f[x] = 0 /\ g[x] = 0
        BY <1>2, <2>4, <2>6, <2>12
      <3>2. N(T) = N(T \ {x})
        BY <2>12 DEF Nonempty
      <3>a. it[T] = b /\ jt[T] = c
        BY <2>8, <2>9, <2>11, <3>1
      <3>b. Cardinality(N(T)) = k /\ (N(T) = {} <=> b = 0)
        BY <2>10, <2>11, <3>2
      <3>3. Right(T)
        BY <2>11, <3>a, <3>b DEF Right
      <3>4. QED
        BY <2>4, <3>3
    <2>13. CASE us[x].out.ids # <<>>
      <3>1. f[x] \in Nat /\ f[x] # 0 /\ g[x] = 2 * f[x] - 1
        BY <1>2, <2>4, <2>6, <2>13
      <3>2. N(T) = N(T \ {x}) \cup {x} /\ x \notin N(T \ {x})
        BY <2>6, <2>13 DEF Nonempty
      <3>3. Cardinality(N(T)) = k + 1
        BY <1>6, <2>6, <2>10, <3>2, FS_AddElement
      <3>4. N(T) # {}
        BY <3>2
      <3>5. /\ f[x] + b \in Nat /\ f[x] + b # 0
            /\ (2 * f[x] - 1 + c) + (k + 1) = 2 * (f[x] + b)
        BY <2>11, <3>1
      <3>6. Right(T)
        BY <2>8, <2>9, <3>1, <3>3, <3>4, <3>5 DEF Right
      <3>7. QED
        BY <2>4, <3>6
    <2>14. QED
      BY <2>12, <2>13
  <1>8. Items(us, S) = it[S] /\ Contents(us, S) = jt[S]
    BY <1>4, <1>5, FoldsAreTotals DEF f, g, Sums
  <1>9. S \in SUBSET S
    OBVIOUS
  <1>10. Right(S)
    BY <1>7, <1>9
  <1>11. QED
    BY <1>4, <1>5, <1>6, <1>8, <1>9, <1>10 DEF Sums

\* combined_bytes is the size of the joined array.
LEMMA CombinedSize ==
    ASSUME NEW S, Measured(units, S)
    PROVE  /\ Items(units, S) \in Nat
           /\ CombinedBytes(S) = IF Items(units, S) = 0 THEN 2
                                 ELSE 2 * Items(units, S) + 1
           /\ CombinedBytes(S) \in Int
  <1> DEFINE items == Items(units, S)
             many == Cardinality(Nonempty(units, S))
             inside == Contents(units, S)
  <1>1. /\ items \in Nat /\ inside \in Int /\ many \in Nat
        /\ inside + many = 2 * items
        /\ Nonempty(units, S) = {} <=> items = 0
    BY ArraySizes
  <1>2. many = 0 <=> Nonempty(units, S) = {}
    BY ArraySizes, FS_EmptySet
  <1>3. CombinedBytes(S) =
            2 + inside + (IF Nonempty(units, S) = {} THEN 0 ELSE many - 1)
    BY DEF CombinedBytes, Nonempty
  <1> HIDE DEF items, many, inside
  <1>4. CombinedBytes(S) = IF items = 0 THEN 2 ELSE 2 * items + 1
    BY <1>1, <1>2, <1>3
  <1>5. CombinedBytes(S) \in Int
    BY <1>1, <1>4
  <1>6. QED
    BY <1>1, <1>4, <1>5 DEF items

-----------------------------------------------------------------------------
(* Groups.                                                                 *)

\* Finite sets of numbers have a greatest one.
LEMMA GreatestOf ==
    ASSUME NEW S \in SUBSET Nat, S # {}, NEW b \in Nat, \A x \in S : x <= b
    PROVE  Max(S) \in S /\ \A y \in S : y <= Max(S)
  <1> DEFINE T == {b - x : x \in S}
  <1>1. T \in SUBSET Nat /\ T # {}
    <2>1. ASSUME NEW x \in S PROVE b - x \in Nat
      <3>1. x \in Nat /\ x <= b
        OBVIOUS
      <3>2. QED
        BY <3>1
    <2>2. QED
      BY <2>1
  <1>2. PICK n \in T : \A m \in T : n <= m
    <2> HIDE DEF T
    <2>1. QED
      BY <1>1, LeastNat
  <1>3. PICK x \in S : n = b - x
    BY <1>2
  <1>4. \A y \in S : x >= y
    <2>1. ASSUME NEW y \in S PROVE x >= y
      <3>1. n <= b - y
        BY <1>2
      <3>2. QED
        BY <1>3, <3>1
    <2>2. QED
      BY <2>1
  <1>5. /\ Max(S) \in S /\ \A y \in S : Max(S) >= y
    BY <1>3, <1>4 DEF Max
  <1>6. Max(S) \in Nat
    BY <1>5
  <1>7. ASSUME NEW y \in S PROVE y <= Max(S)
    BY <1>5, <1>6
  <1>8. QED
    BY <1>5, <1>7

\* The first n of S: an initial part of S, with n elements if S has so many.
LEMMA TakeFacts ==
    ASSUME NEW S \in SUBSET Nat, IsFiniteSet(S), NEW n \in Nat
    PROVE  /\ Take(S, n) \in SUBSET S /\ IsFiniteSet(Take(S, n))
           /\ Cardinality(Take(S, n)) \in Nat
           /\ \A u \in Take(S, n), v \in S : v < u => v \in Take(S, n)
           /\ Take(S, n) = S \/ Cardinality(Take(S, n)) >= n
           /\ n > 0 /\ S # {} => Take(S, n) # {}
  <1> DEFINE Below(u) == {v \in S : v < u}
             T == Take(S, n)
  <1>1. \A u : IsFiniteSet(Below(u)) /\ Cardinality(Below(u)) \in Nat
    BY FS_Subset, FS_CardinalityType
  <1>2. T \in SUBSET S /\ \A u \in S : u \in T <=> Cardinality(Below(u)) < n
    BY DEF Take
  <1>3. IsFiniteSet(T) /\ Cardinality(T) \in Nat
    BY <1>2, FS_Subset, FS_CardinalityType
  <1> HIDE DEF T
  <1>4. ASSUME NEW u \in T, NEW v \in S, v < u PROVE v \in T
    <2>1. u \in Nat /\ v \in Nat
      BY <1>2
    <2>2. Below(v) \subseteq Below(u)
      <3>1. ASSUME NEW w \in S, w < v PROVE w < u
        <4>1. w \in Nat
          OBVIOUS
        <4>2. QED
          BY <1>4, <2>1, <3>1, <4>1
      <3>2. QED
        BY <3>1
    <2>3. Cardinality(Below(v)) <= Cardinality(Below(u))
      BY <1>1, <2>2, FS_Subset
    <2>4. Cardinality(Below(u)) < n
      BY <1>2
    <2>5. Cardinality(Below(v)) \in Nat /\ Cardinality(Below(u)) \in Nat
      BY <1>1
    <2>6. QED
      BY <1>2, <2>3, <2>4, <2>5
  <1>5. ASSUME T # S, ~(Cardinality(T) >= n) PROVE FALSE
    <2> DEFINE R == S \ T
    <2>1. R \in SUBSET Nat /\ R # {}
      BY <1>2, <1>5
    <2>2. PICK m \in R : \A y \in R : m <= y
      <3> HIDE DEF R
      <3>1. QED
        BY <2>1, LeastNat
    <2>3. Below(m) \subseteq T
      <3>1. ASSUME NEW w \in S, w < m, w \notin T PROVE FALSE
        <4>1. w \in Nat /\ m \in Nat /\ m <= w
          BY <2>2, <3>1
        <4>2. QED
          BY <3>1, <4>1
      <3>2. QED
        BY <3>1
    <2>4. Cardinality(Below(m)) <= Cardinality(T)
      BY <1>3, <2>3, FS_Subset
    <2>5. Cardinality(Below(m)) \in Nat
      BY <1>1
    <2>6. Cardinality(Below(m)) < n
      BY <1>3, <1>5, <2>4, <2>5
    <2>7. QED
      BY <1>2, <2>2, <2>6
  <1>6. ASSUME n > 0, S # {}, T = {} PROVE FALSE
    <2>1. Cardinality(T) = 0
      BY <1>6, FS_EmptySet
    <2>2. QED
      BY <1>5, <1>6, <2>1
  <1>7. QED
    BY <1>2, <1>3, <1>4, <1>5, <1>6 DEF T

\* The candidates of a group are counted until one does not fit.
LEMMA FittingFacts ==
    ASSUME NEW S \in SUBSET Nat, Measured(units, S)
    PROVE  /\ Fitting(S) \in 0..Cardinality(S) /\ Cardinality(S) \in Nat
           /\ \A k \in 1..Fitting(S) : CombinedBytes(Take(S, k)) <= ByteLimit
  <1>0. IsFiniteSet(S) /\ Cardinality(S) \in Nat /\ ByteLimit \in Nat
    BY FS_CardinalityType, LimitsAssumption DEF Measured
  <1>1. \A k \in Nat : CombinedBytes(Take(S, k)) \in Int
    <2>1. ASSUME NEW k \in Nat PROVE CombinedBytes(Take(S, k)) \in Int
      <3>1. Take(S, k) \in SUBSET S /\ IsFiniteSet(Take(S, k))
        BY <1>0, TakeFacts
      <3>2. Measured(units, Take(S, k))
        BY <3>1 DEF Measured
      <3>3. QED
        BY <3>2, CombinedSize
    <2>2. QED
      BY <2>1
  <1> DEFINE Size(k) == CombinedBytes(Take(S, k))
             Ok(n) == /\ \A k \in 1..n : Size(k) <= ByteLimit
                      /\ n < Cardinality(S) => Size(n + 1) > ByteLimit
             Over == {k \in 1..Cardinality(S) : ~(Size(k) <= ByteLimit)}
  <1>2. \E n \in 0..Cardinality(S) : Ok(n)
    <2> HIDE DEF Size
    <2>1. CASE Over = {}
      <3>1. Ok(Cardinality(S))
        BY <1>0, <2>1
      <3>2. Cardinality(S) \in 0..Cardinality(S)
        BY <1>0
      <3> HIDE DEF Ok
      <3>3. QED
        BY <3>1, <3>2
    <2>2. CASE Over # {}
      <3>1. Over \in SUBSET Nat
        BY <1>0
      <3>2. PICK m \in Over : \A y \in Over : m <= y
        <4> HIDE DEF Over
        <4>1. QED
          BY <2>2, <3>1, LeastNat
      <3>3. m \in 1..Cardinality(S) /\ ~(Size(m) <= ByteLimit)
        BY <3>2
      <3>4. \A k \in 1..(m - 1) : Size(k) <= ByteLimit
        <4>1. ASSUME NEW k \in 1..(m - 1) PROVE Size(k) <= ByteLimit
          <5>1. k \in 1..Cardinality(S) /\ ~(m <= k)
            BY <1>0, <3>3
          <5>2. QED
            BY <3>2, <5>1
        <4>2. QED
          BY <4>1
      <3>5. (m - 1) + 1 = m /\ m - 1 \in 0..Cardinality(S)
        BY <1>0, <3>3
      <3>6. Size(m) \in Int
        BY <1>0, <1>1, <3>3 DEF Size
      <3>7. Size((m - 1) + 1) > ByteLimit
        BY <1>0, <3>3, <3>5, <3>6
      <3>8. Ok(m - 1)
        BY <3>4, <3>7
      <3> HIDE DEF Ok
      <3>9. QED
        BY <3>5, <3>8
    <2>3. QED
      BY <2>1, <2>2
  <1>3. Fitting(S) = CHOOSE n \in 0..Cardinality(S) : Ok(n)
    BY DEF Fitting
  <1> HIDE DEF Ok
  <1>4. Fitting(S) \in 0..Cardinality(S) /\ Ok(Fitting(S))
    BY <1>2, <1>3
  <1>5. QED
    BY <1>0, <1>4 DEF Ok

\* The inputs of a level are rows.
LEMMA LevelFacts ==
    ASSUME Types, NEW s \in Stages, NEW l
    PROVE  /\ LevelInputs(s, l) \subseteq DOMAIN units
           /\ LevelInputs(s, l) \in SUBSET (Nat \ {0})
           /\ IsFiniteSet(LevelInputs(s, l))
           /\ \A u \in LevelInputs(s, l) : u <= Len(units) /\ units[u].out \in Payload
           /\ LevelInputs(s, 0) = Parents(s)
  <1>1. LevelInputs(s, l) \subseteq DOMAIN units /\ LevelInputs(s, 0) = Parents(s)
    BY ParentFacts DEF LevelInputs, Parents, Level, UnitsOf
  <1>2. \A u \in DOMAIN units : u \in Nat \ {0} /\ u <= Len(units)
    BY RowFacts
  <1>3. \A u \in DOMAIN units : units[u].out \in Payload
    BY RowFacts DEF UnitRow
  <1>4. IsFiniteSet(DOMAIN units)
    BY UnitCounts
  <1>5. IsFiniteSet(LevelInputs(s, l))
    BY <1>1, <1>4, FS_Subset
  <1>6. QED
    BY <1>1, <1>2, <1>3, <1>5

\* The inputs of the level that no group has yet.
Left(s) == {u \in LevelInputs(s, cursor[s].level) : u > cursor[s].parent}

\* A group that the cursor of s may go on with.
NextGroup(s, group) ==
    /\ group \in SUBSET Left(s) /\ group # {}
    /\ \A u \in group : units[u].state = "committed"
    /\ \A u \in group, v \in Left(s) : v < u => v \in group
    /\ CombinedBytes(group) <= ByteLimit
    /\ group = Left(s) \/ Cardinality(group) >= 2

\* The first inputs of the window that fit are a group to go on with.
LEMMA GroupTaken ==
    ASSUME Types, NEW s \in Stages, NEW window, NEW n,
           window = Take(Left(s), plan.fanIn), window # {},
           \A u \in window : units[u].state = "committed",
           n = Fitting(window), n # 0, ~Stuck(window, n)
    PROVE  NextGroup(s, Take(window, n))
  <1> DEFINE left == Left(s)
             group == Take(window, n)
  <1>1. left \in SUBSET Nat /\ IsFiniteSet(left)
        /\ \A u \in left : units[u].out \in Payload
    <2>1. left \in SUBSET LevelInputs(s, cursor[s].level)
      BY DEF Left
    <2>2. QED
      BY <2>1, LevelFacts, FS_Subset
  <1>2. plan.fanIn \in Nat /\ plan.fanIn >= 2
    BY PlanFacts
  <1> HIDE DEF left
  <1>3. window = Take(left, plan.fanIn)
    BY DEF left
  <1>4. /\ window \in SUBSET left /\ IsFiniteSet(window)
        /\ Cardinality(window) \in Nat
        /\ \A u \in window, v \in left : v < u => v \in window
        /\ window = left \/ Cardinality(window) >= plan.fanIn
    BY <1>1, <1>2, <1>3, TakeFacts
  <1>5. window \in SUBSET Nat /\ Measured(units, window)
    BY <1>1, <1>4 DEF Measured
  <1>6. n \in 1..Cardinality(window)
        /\ \A k \in 1..n : CombinedBytes(Take(window, k)) <= ByteLimit
    <2>1. /\ Fitting(window) \in 0..Cardinality(window)
          /\ \A k \in 1..Fitting(window) :
                CombinedBytes(Take(window, k)) <= ByteLimit
      BY <1>5, FittingFacts
    <2>2. QED
      BY <1>4, <2>1
  <1>7. n \in Nat /\ n >= 1 /\ n \in 1..n
    BY <1>4, <1>6
  <1>8. /\ group \in SUBSET window /\ IsFiniteSet(group)
        /\ Cardinality(group) \in Nat
        /\ \A u \in group, v \in window : v < u => v \in group
        /\ group = window \/ Cardinality(group) >= n
        /\ group # {}
    <2>1. IsFiniteSet(window) /\ n > 0
      BY <1>4, <1>7
    <2>2. QED
      BY <1>5, <1>7, <2>1, TakeFacts
  <1>9. CombinedBytes(group) <= ByteLimit
    BY <1>6, <1>7
  <1> HIDE DEF group
  <1>10. \A u \in group, v \in left : v < u => v \in group
    BY <1>4, <1>8
  <1>11. group = left \/ Cardinality(group) >= 2
    <2>1. CASE n >= 2
      BY <1>2, <1>4, <1>7, <1>8, <2>1
    <2>2. CASE n = 1
      <3>1. Cardinality(window) = 1
        BY <1>4, <1>6, <2>2 DEF Stuck
      <3>2. window = left
        BY <1>2, <1>4, <3>1
      <3>3. group = window
        <4>1. Cardinality(group) # 0
          BY <1>8, FS_EmptySet
        <4>2. Cardinality(group) = Cardinality(window)
          BY <1>4, <1>8, <3>1, <4>1, FS_Subset
        <4>3. QED
          BY <1>4, <1>8, <4>2, FS_Subset
      <3>4. QED
        BY <3>2, <3>3
    <2>3. QED
      BY <1>7, <2>1, <2>2
  <1>12. group \in SUBSET left /\ \A u \in group : units[u].state = "committed"
    BY <1>4, <1>8
  <1>13. NextGroup(s, group)
    BY <1>8, <1>9, <1>10, <1>11, <1>12 DEF NextGroup, left
  <1>14. QED
    BY <1>13 DEF group

\* The last of a group is the place of the cursor after it.
LEMMA GroupEnd ==
    ASSUME Types, NEW s \in Stages, NEW group, NextGroup(s, group)
    PROVE  /\ group \in SUBSET (DOMAIN units) /\ IsFiniteSet(group)
           /\ Max(group) \in group /\ Max(group) \in Nat
           /\ Max(group) <= Len(units) /\ Max(group) > cursor[s].parent
           /\ \A i \in LevelInputs(s, cursor[s].level) :
                 i <= Max(group) => i <= cursor[s].parent \/ i \in group
           /\ \A i \in group : i <= Max(group) /\ i > cursor[s].parent
  <1>1. /\ group \in SUBSET LevelInputs(s, cursor[s].level) /\ group # {}
        /\ \A i \in group : i > cursor[s].parent
    BY DEF NextGroup, Left
  <1>2. /\ group \in SUBSET Nat /\ group \in SUBSET (DOMAIN units)
        /\ \A i \in group : i <= Len(units)
        /\ \A i \in LevelInputs(s, cursor[s].level) : i \in Nat
    BY <1>1, LevelFacts
  <1>3. IsFiniteSet(group)
    BY <1>1, LevelFacts, FS_Subset
  <1>4. Len(units) \in Nat
    BY RowFacts
  <1>5. Max(group) \in group /\ \A y \in group : y <= Max(group)
    BY <1>1, <1>2, <1>4, GreatestOf
  <1>6. cursor[s].parent \in Nat
    BY RowFacts DEF CursorRow
  <1>7. ASSUME NEW i \in LevelInputs(s, cursor[s].level), i <= Max(group),
               ~(i <= cursor[s].parent)
        PROVE  i \in group
    <2>1. i \in Left(s) /\ i \in Nat
      BY <1>2, <1>6, <1>7 DEF Left
    <2>2. CASE i = Max(group)
      BY <1>5, <2>2
    <2>3. CASE i < Max(group)
      BY <1>5, <2>1, <2>3 DEF NextGroup
    <2>4. Max(group) \in Nat
      BY <1>2, <1>5
    <2>5. i = Max(group) \/ i < Max(group)
      BY <1>7, <2>1, <2>4
    <2>6. QED
      BY <2>2, <2>3, <2>5
  <1>8. QED
    BY <1>1, <1>2, <1>3, <1>5, <1>7

\* What an added row changes of the levels of its stage.
LEMMA AddedLevels ==
    ASSUME Types, NEW s \in Stages, Works(s), ParentsEnded(s),
           NEW row, GoodRow(s, row), NEW saved, GoodCursor(s, saved),
           Added(s, row, saved), NEW new, new = Len(units) + 1
    PROVE  /\ Mode' = Mode
           /\ UnitsOf(s)' = UnitsOf(s) \cup {new} /\ new \notin UnitsOf(s)
           /\ units'[new] = row
           /\ \A v \in UnitsOf(s) : units'[v] = units[v]
           /\ \A l : Level(s, l)' = IF l = row.level THEN Level(s, l) \cup {new}
                                    ELSE Level(s, l)
           /\ \A l \in Int : l # row.level + 1 \/ l = 0 =>
                              LevelInputs(s, l)' = LevelInputs(s, l)
  <1>1. /\ UnitsOf(s)' = UnitsOf(s) \cup {new} /\ new \notin UnitsOf(s)
        /\ units'[new] = row
        /\ \A v \in UnitsOf(s) : units'[v] = units[v]
    BY AddedFacts
  <1>2. \A l : Level(s, l)' = IF l = row.level THEN Level(s, l) \cup {new}
                              ELSE Level(s, l)
    BY <1>1 DEF Level
  <1>3. Mode' = Mode /\ Parents(s)' = Parents(s)
    BY WorksFacts
  <1>4. row.level \in Int
    BY DEF GoodRow, UnitRow
  <1>5. ASSUME NEW l \in Int, l # row.level + 1 \/ l = 0
        PROVE  LevelInputs(s, l)' = LevelInputs(s, l)
    <2>1. CASE l = 0
      BY <1>3, <2>1 DEF LevelInputs, Parents
    <2>2. CASE l # 0 /\ l - 1 # row.level
      BY <1>2, <2>2 DEF LevelInputs
    <2>3. CASE l # 0 /\ l - 1 = row.level
      BY <1>4, <1>5, <2>3
    <2>4. QED
      BY <2>1, <2>2, <2>3
  <1>6. QED
    BY <1>1, <1>2, <1>3, <1>5

\* The row of a new group, and that of a failed root.
GroupRow(s, row) ==
    /\ GoodRow(s, row) /\ NextGroup(s, row.inputs)
    /\ row.level = cursor[s].level /\ row.ord = cursor[s].ord + 1
    /\ row.shard = Shard("reduction", row.level, row.ord, "")
    /\ ~row.root /\ row.state = "pending"

FailedRow(s, row) ==
    /\ GoodRow(s, row) /\ row.inputs = {} /\ row.level = cursor[s].level
    /\ row.state = "needs_attention"
    /\ row.shard[1] # "reduction"

\* The cursor after a group, and that after a failure or the root.
GroupCursor(s, group, c) ==
    /\ GoodCursor(s, c)
    /\ c.parent = Max(group) /\ c.ord = cursor[s].ord + 1
    /\ c.level = cursor[s].level /\ c.completed = cursor[s].completed
    /\ c.attention = cursor[s].attention
    /\ c.waiting <=> group = Left(s)

DoneCursor(s, c) ==
    /\ GoodCursor(s, c) /\ c.completed /\ (c.waiting => cursor[s].waiting)
    /\ c.parent = cursor[s].parent /\ c.ord = cursor[s].ord
    /\ c.level = cursor[s].level

\* Every unit of a reduction that goes on is a group.
LEMMA GroupFacts ==
    ASSUME Types, NEW s \in Stages, ReductionOK(s), ~cursor[s].completed,
           NEW v \in UnitsOf(s)
    PROVE  /\ IsGroup(s, v) /\ units[v].level \in 0..cursor[s].level
           /\ units[v].level \in Nat /\ units[v].ord \in Nat
           /\ units[v].shard[1] = "reduction"
           /\ units[v].shard[2] = units[v].level
           /\ units[v].shard[3] = units[v].ord
  <1>1. IsGroup(s, v) /\ units[v].level \in 0..cursor[s].level
    BY DEF ReductionOK, GroupRows
  <1>2. units[v].shard = Shard("reduction", units[v].level, units[v].ord, "")
    BY <1>1 DEF IsGroup
  <1>3. units[v].level \in Int /\ units[v].ord \in Int /\ units[v].shard \in ShardSet
    BY RowFacts DEF UnitsOf, UnitRow, ShardSet
  <1>4. units[v].shard[1] = "reduction" /\ units[v].shard[2] = units[v].level
        /\ units[v].shard[3] = units[v].ord
    <2>1. PICK x : x = units[v].shard
      OBVIOUS
    <2>2. PICK a : a = units[v].level
      OBVIOUS
    <2>3. PICK b : b = units[v].ord
      OBVIOUS
    <2>4. a \in Int /\ b \in Int /\ x = Shard("reduction", a, b, "")
      BY <1>2, <1>3, <2>1, <2>2, <2>3
    <2>5. x[1] = "reduction" /\ x[2] = a /\ x[3] = b
      BY <2>4 DEF Shard
    <2>6. QED
      BY <2>1, <2>2, <2>3, <2>5
  <1>5. units[v].shard[2] \in Nat /\ units[v].shard[3] \in Nat
    BY <1>3 DEF ShardSet
  <1>6. QED
    BY <1>1, <1>4, <1>5

\* The key of a new group is new.
LEMMA FreshGroup ==
    ASSUME Types, NEW s \in Stages, ReductionOK(s), ~cursor[s].completed,
           NEW row, GroupRow(s, row) \/ FailedRow(s, row)
    PROVE  \A v \in DOMAIN units : ~SameKey(units[v], row)
  <1> SUFFICES ASSUME NEW v \in DOMAIN units, SameKey(units[v], row)
               PROVE  FALSE
    OBVIOUS
  <1>1. v \in UnitsOf(s) /\ units[v].shard = row.shard
    BY DEF SameKey, UnitsOf, GroupRow, FailedRow, GoodRow
  <1>2. /\ IsGroup(s, v) /\ units[v].level \in Nat /\ units[v].ord \in Nat
        /\ units[v].shard[1] = "reduction"
        /\ units[v].shard[2] = units[v].level
        /\ units[v].shard[3] = units[v].ord
    BY <1>1, GroupFacts
  <1>3. CASE FailedRow(s, row)
    BY <1>1, <1>2, <1>3 DEF FailedRow
  <1>4. CASE GroupRow(s, row)
    <2>1. row.shard = Shard("reduction", row.level, row.ord, "")
      BY <1>4 DEF GroupRow
    <2>2. row.level \in Int /\ row.ord \in Int
      BY <1>4 DEF GroupRow, GoodRow, UnitRow
    <2>3. row.shard[2] = row.level /\ row.shard[3] = row.ord
      <3>1. PICK x : x = row.shard
        OBVIOUS
      <3>2. PICK a : a = row.level
        OBVIOUS
      <3>3. PICK b : b = row.ord
        OBVIOUS
      <3>4. a \in Int /\ b \in Int /\ x = Shard("reduction", a, b, "")
        BY <2>1, <2>2, <3>1, <3>2, <3>3
      <3>5. x[2] = a /\ x[3] = b
        BY <3>4 DEF Shard
      <3>6. QED
        BY <3>1, <3>2, <3>3, <3>5
    <2>4. units[v].level = cursor[s].level /\ units[v].ord = cursor[s].ord + 1
      BY <1>1, <1>2, <1>4, <2>3 DEF GroupRow
    <2>5. cursor[s].ord \in Int
      BY RowFacts DEF CursorRow
    <2>6. units[v].ord <= cursor[s].ord
      BY <1>2, <2>4 DEF IsGroup
    <2>7. QED
      BY <2>4, <2>5, <2>6
  <1>5. QED
    BY <1>3, <1>4

\* A new group keeps the reduction in order.
LEMMA GroupAdded ==
    ASSUME Types, NEW s \in Stages, Works(s), Mode[s] = "reduction",
           ReductionOK(s), ~cursor[s].waiting,
           NEW row, GroupRow(s, row), NEW saved,
           GroupCursor(s, row.inputs, saved), Added(s, row, saved)
    PROVE  ReductionOK(s)'
  <1>a. PICK new : new = Len(units) + 1
    OBVIOUS
  <1>b. PICK l0 : l0 = cursor[s].level
    OBVIOUS
  <1>c. PICK group : group = row.inputs
    OBVIOUS
  <1>0. /\ ParentsEnded(s) /\ ~cursor[s].completed /\ GoodRow(s, row)
        /\ NextGroup(s, group) /\ GoodCursor(s, saved)
    BY <1>c DEF Works, Ready, GroupRow, GroupCursor
  <1>1. row.level = l0 /\ row.ord = cursor[s].ord + 1 /\ row.inputs = group
    BY <1>b, <1>c DEF GroupRow
  <1>2. /\ l0 \in Nat /\ cursor[s].ord \in Int /\ cursor[s].parent \in Nat
    BY <1>b, RowFacts DEF CursorRow
  <1>3. /\ UnitsOf(s)' = UnitsOf(s) \cup {new} /\ new \notin UnitsOf(s)
        /\ units'[new] = row
        /\ \A v \in UnitsOf(s) : units'[v] = units[v]
        /\ \A l : Level(s, l)' = IF l = row.level THEN Level(s, l) \cup {new}
                                 ELSE Level(s, l)
        /\ \A l \in Int : l # row.level + 1 \/ l = 0 =>
                              LevelInputs(s, l)' = LevelInputs(s, l)
    BY <1>0, <1>a, AddedLevels
  <1>4. /\ cursor'[s].level = l0 /\ cursor'[s].ord = cursor[s].ord + 1
        /\ cursor'[s].parent = Max(group)
        /\ cursor'[s].waiting = saved.waiting
    BY <1>0, <1>b, <1>c, AddedFacts DEF GroupCursor
  <1>5. cursor'[s].waiting => group = Left(s)
    BY <1>4, <1>c DEF GroupCursor
  <1>6. /\ Max(group) \in Nat /\ Max(group) > cursor[s].parent
        /\ \A i \in LevelInputs(s, l0) :
              i <= Max(group) => i <= cursor[s].parent \/ i \in group
        /\ \A i \in group : i <= Max(group) /\ i > cursor[s].parent
    BY <1>0, <1>b, GroupEnd
  <1>7. \A l \in 0..l0 : LevelInputs(s, l)' = LevelInputs(s, l)
    <2>1. \A l \in 0..l0 : l \in Int /\ l # row.level + 1
      BY <1>1, <1>2
    <2>2. QED
      BY <1>3, <2>1
  <1>8. \A i \in LevelInputs(s, l0) : i \in Nat
    BY LevelFacts
  <1>9. group \subseteq LevelInputs(s, l0)
    BY <1>0, <1>b DEF NextGroup, Left
  <1>10. GroupRows(s)'
    <2>1. ASSUME NEW v \in UnitsOf(s)
          PROVE  units[v].level \in 0..l0 /\ IsGroup(s, v)'
      <3>1. IsGroup(s, v) /\ units[v].level \in 0..l0 /\ units[v].ord \in Nat
        BY <1>0, <1>b, GroupFacts
      <3>2. PICK l : l = units[v].level
        OBVIOUS
      <3>3. units[v].inputs \in SUBSET Nat
        BY RowFacts DEF UnitsOf, UnitRow
      <3>4. ASSUME units[v].level = l0
            PROVE  /\ units[v].ord <= cursor[s].ord + 1
                   /\ \A i \in units[v].inputs : i <= Max(group)
        <4>1. /\ units[v].ord <= cursor[s].ord
              /\ \A i \in units[v].inputs : i <= cursor[s].parent
          BY <1>b, <3>1, <3>4 DEF IsGroup
        <4>2. QED
          BY <1>2, <1>6, <3>1, <3>3, <4>1
      <3>5. units'[v] = units[v]
        BY <1>3
      <3>6. units[v].inputs \subseteq LevelInputs(s, units[v].level)
            /\ units[v].shard = Shard("reduction", units[v].level, units[v].ord, "")
        BY <3>1 DEF IsGroup
      <3>7. LevelInputs(s, l)' = LevelInputs(s, l)
        BY <1>7, <3>1, <3>2
      <3>8. QED
        BY <1>4, <3>1, <3>2, <3>4, <3>5, <3>6, <3>7 DEF IsGroup, Shard
    <2>2. row.level \in 0..l0 /\ IsGroup(s, new)'
      <3>1. l0 \in 0..l0
        BY <1>2
      <3>2. LevelInputs(s, l0)' = LevelInputs(s, l0)
        BY <1>7, <3>1
      <3>3. row.shard = Shard("reduction", row.level, row.ord, "")
        BY DEF GroupRow
      <3>4. row.ord <= cursor[s].ord + 1
        BY <1>1, <1>2
      <3>5. QED
        BY <1>1, <1>3, <1>4, <1>6, <1>9, <3>1, <3>2, <3>3, <3>4
           DEF IsGroup, Shard
    <2>3. QED
      BY <1>1, <1>3, <1>4, <2>1, <2>2 DEF GroupRows
  <1>11. GroupsApart(s)'
    <2>1. ASSUME NEW v \in UnitsOf(s), units[v].level = l0
          PROVE  units[v].inputs \cap group = {}
      <3>1. \A i \in units[v].inputs : i <= cursor[s].parent
        BY <1>0, <1>b, <2>1, GroupFacts DEF IsGroup
      <3>2. \A i \in group : i > cursor[s].parent /\ i \in Nat
        BY <1>6, <1>8, <1>9
      <3>3. QED
        BY <1>2, <3>1, <3>2
    <2>2. QED
      BY <1>1, <1>3, <2>1 DEF ReductionOK, GroupsApart
  <1>12. \A l : \A v \in Level(s, l) : /\ v \in Level(s, l)'
                                       /\ units'[v].inputs = units[v].inputs
    BY <1>3 DEF Level
  <1>13. ASSUME NEW i \in LevelInputs(s, l0), i <= Max(group)
         PROVE  \E v \in Level(s, l0)' : i \in units'[v].inputs
    <2>1. CASE i <= cursor[s].parent
      <3>1. PICK v \in Level(s, l0) : i \in units[v].inputs
        BY <1>b, <2>1 DEF ReductionOK, CursorCovered
      <3>2. QED
        BY <1>12, <3>1
    <2>2. CASE i \in group
      BY <1>1, <1>3, <2>2
    <2>3. QED
      BY <1>6, <1>13, <2>1, <2>2
  <1>14. l0 \in 0..l0 /\ LevelInputs(s, l0)' = LevelInputs(s, l0)
    BY <1>2, <1>7
  <1>15. CursorCovered(s)'
    BY <1>4, <1>13, <1>14 DEF CursorCovered
  <1>16. LevelsCovered(s)'
    <2>1. ASSUME NEW l \in 0..l0, l < l0
          PROVE  Covered(s, l)'
      <3>1. Covered(s, l)
        BY <1>b, <2>1 DEF ReductionOK, LevelsCovered
      <3>2. QED
        BY <1>7, <1>12, <3>1 DEF Covered
    <2>2. ASSUME cursor'[s].waiting
          PROVE  Covered(s, l0)'
      <3>1. \A i \in LevelInputs(s, l0) : i <= Max(group)
        <4>1. ASSUME NEW i \in LevelInputs(s, l0) PROVE i <= Max(group)
          <5>1. CASE i > cursor[s].parent
            <6>1. i \in group
              BY <1>5, <1>b, <2>2, <5>1 DEF Left
            <6>2. QED
              BY <1>6, <6>1
          <5>2. CASE ~(i > cursor[s].parent)
            BY <1>2, <1>6, <1>8, <5>2
          <5>3. QED
            BY <5>1, <5>2
        <4>2. QED
          BY <4>1
      <3>2. QED
        BY <1>13, <1>14, <3>1 DEF Covered
    <2>3. \A l \in 0..l0 : l < l0 \/ l = l0
      BY <1>2
    <2>4. QED
      BY <1>4, <2>1, <2>2, <2>3 DEF LevelsCovered
  <1>17. QED
    BY <1>10, <1>11, <1>15, <1>16 DEF ReductionOK

\* So does a failed root.
LEMMA FailedAdded ==
    ASSUME Types, NEW s \in Stages, Works(s), Mode[s] = "reduction",
           ReductionOK(s), NEW row, FailedRow(s, row), NEW saved,
           DoneCursor(s, saved), Added(s, row, saved)
    PROVE  ReductionOK(s)'
  <1>a. PICK new : new = Len(units) + 1
    OBVIOUS
  <1>b. PICK l0 : l0 = cursor[s].level
    OBVIOUS
  <1>0. /\ ParentsEnded(s) /\ ~cursor[s].completed /\ GoodRow(s, row)
        /\ GoodCursor(s, saved)
    BY DEF Works, Ready, FailedRow, DoneCursor
  <1>1. row.level = l0 /\ row.inputs = {}
    BY <1>b DEF FailedRow
  <1>2. l0 \in Nat
    BY <1>b, RowFacts DEF CursorRow
  <1>3. /\ UnitsOf(s)' = UnitsOf(s) \cup {new} /\ new \notin UnitsOf(s)
        /\ units'[new] = row
        /\ \A v \in UnitsOf(s) : units'[v] = units[v]
        /\ \A l : Level(s, l)' = IF l = row.level THEN Level(s, l) \cup {new}
                                 ELSE Level(s, l)
        /\ \A l \in Int : l # row.level + 1 \/ l = 0 =>
                              LevelInputs(s, l)' = LevelInputs(s, l)
    BY <1>0, <1>a, AddedLevels
  <1>4. /\ cursor'[s].level = l0 /\ cursor'[s].ord = cursor[s].ord
        /\ cursor'[s].parent = cursor[s].parent
        /\ cursor'[s].completed = saved.completed
        /\ cursor'[s].waiting = saved.waiting
    <2>1. /\ cursor'[s].level = saved.level /\ cursor'[s].ord = saved.ord
          /\ cursor'[s].parent = saved.parent
          /\ cursor'[s].completed = saved.completed
          /\ cursor'[s].waiting = saved.waiting
      BY <1>0, AddedFacts
    <2>2. saved.level = l0 /\ saved.ord = cursor[s].ord
          /\ saved.parent = cursor[s].parent
      BY <1>b DEF DoneCursor
    <2>3. QED
      BY <2>1, <2>2
  <1>5. cursor'[s].completed /\ (cursor'[s].waiting => cursor[s].waiting)
    BY <1>4 DEF DoneCursor
  <1>6. \A l \in 0..l0 : LevelInputs(s, l)' = LevelInputs(s, l)
    <2>1. \A l \in 0..l0 : l \in Int /\ l # row.level + 1
      BY <1>1, <1>2
    <2>2. QED
      BY <1>3, <2>1
  <1>7. GroupRows(s)'
    <2>1. ASSUME NEW v \in UnitsOf(s)
          PROVE  units[v].level \in 0..l0 /\ IsGroup(s, v)'
      <3>1. IsGroup(s, v) /\ units[v].level \in 0..l0
        BY <1>0, <1>b, GroupFacts
      <3>2. PICK l : l = units[v].level
        OBVIOUS
      <3>3. units'[v] = units[v]
        BY <1>3
      <3>4. LevelInputs(s, l)' = LevelInputs(s, l)
        BY <1>6, <3>1, <3>2
      <3>5. QED
        BY <1>4, <1>b, <3>1, <3>2, <3>3, <3>4 DEF IsGroup, Shard
    <2>2. row.level \in 0..l0
      BY <1>1, <1>2
    <2>3. QED
      BY <1>1, <1>3, <1>4, <1>5, <2>1, <2>2 DEF GroupRows
  <1>8. GroupsApart(s)'
    BY <1>1, <1>3 DEF ReductionOK, GroupsApart
  <1>9. \A l : \A v \in Level(s, l) : /\ v \in Level(s, l)'
                                      /\ units'[v].inputs = units[v].inputs
    BY <1>3 DEF Level
  <1>10. l0 \in 0..l0
    BY <1>2
  <1>11. CursorCovered(s)'
    BY <1>4, <1>6, <1>9, <1>10, <1>b DEF ReductionOK, CursorCovered
  <1>12. LevelsCovered(s)'
    <2>1. ASSUME NEW l \in 0..l0, l < l0 \/ cursor'[s].waiting
          PROVE  Covered(s, l)'
      <3>1. Covered(s, l)
        BY <1>5, <1>b, <2>1 DEF ReductionOK, LevelsCovered
      <3>2. QED
        BY <1>6, <1>9, <3>1 DEF Covered
    <2>2. QED
      BY <1>4, <2>1 DEF LevelsCovered
  <1>13. QED
    BY <1>7, <1>8, <1>11, <1>12 DEF ReductionOK

\* The row of a reduction that cannot go on.
LEMMA FailedRowFacts ==
    ASSUME Types, NEW s \in Stages, NEW ord \in Int,
           NEW kind \in {"unavailable", "invalid-input", "input_too_large",
                         "not_converging"},
           NEW reason \in {"dependency_result_unavailable",
                           "dependency_input_too_large",
                           "reduction_not_converging"}
    PROVE  FailedRow(s, FailedRoot(s, ord, kind, reason))
  <1>1. PICK level : level = cursor[s].level
    OBVIOUS
  <1>2. level \in Nat /\ level \in Int
    BY <1>1, RowFacts DEF CursorRow
  <1>3. PICK shard : shard = Shard(kind, level, 0, "")
    OBVIOUS
  <1>4. kind \in ShardKinds /\ kind # "reduction"
    BY DEF ShardKinds
  <1>5. "" \in Names
    BY DEF Names
  <1>6. shard \in ShardSet /\ shard[1] = kind
    BY <1>2, <1>3, <1>4, <1>5 DEF Shard, ShardSet
  <1>7. PICK cand : cand = Candidate(s, 0, {}, shard, level, ord)
    OBVIOUS
  <1>8. 0 \in 0..Sources /\ {} \in SUBSET Nat
    BY PlanFacts
  <1>9. /\ cand \in UnitRow(plan)
        /\ cand.stage = s /\ cand.source = 0 /\ cand.inputs = {}
        /\ cand.shard = shard /\ cand.level = level /\ cand.ord = ord
        /\ cand.gen = generation
    BY <1>2, <1>6, <1>7, <1>8, CandidateRow
  <1>10. PICK rooted : rooted = [cand EXCEPT !.root = TRUE]
    OBVIOUS
  <1>11. /\ rooted \in UnitRow(plan)
         /\ rooted.stage = s /\ rooted.inputs = {} /\ rooted.shard = shard
         /\ rooted.level = level /\ rooted.gen = generation
    BY <1>9, <1>10 DEF UnitRow
  <1>12. reason \in Errors(plan)
    BY DEF Errors
  <1>13. PICK row : row = Unavailable(rooted, reason, TRUE)
    OBVIOUS
  <1>14. /\ row \in UnitRow(plan)
         /\ row.stage = s /\ row.inputs = {} /\ row.shard = shard
         /\ row.level = level /\ row.gen = generation
         /\ row.state = "needs_attention"
    BY <1>11, <1>12, <1>13, UnavailableRow
  <1>15. row = FailedRoot(s, ord, kind, reason)
    BY <1>1, <1>3, <1>7, <1>10, <1>13 DEF FailedRoot
  <1>16. GoodRow(s, row)
    BY <1>14 DEF GoodRow
  <1>17. row.shard[1] # "reduction"
    BY <1>4, <1>6, <1>14
  <1>18. FailedRow(s, row)
    BY <1>1, <1>14, <1>16, <1>17 DEF FailedRow
  <1>19. QED
    BY <1>15, <1>18

-----------------------------------------------------------------------------
(* The steps of a reduction.                                               *)

\* No unit can be added: the stage is full.
OverflowStep(s) ==
    /\ Refused(s) /\ Full(s)
    /\ IF cursor[s].waiting THEN Level(s, cursor[s].level) = {}
       ELSE LevelInputs(s, cursor[s].level) = {} \/ Left(s) # {}

\* A failed root ends the reduction.
FailedStep(s) ==
    \E row, c : FailedRow(s, row) /\ DoneCursor(s, c) /\ Added(s, row, c)

GroupStep(s) ==
    /\ ~cursor[s].waiting
    /\ \E row, c :
          /\ GroupRow(s, row) /\ GroupCursor(s, row.inputs, c)
          /\ Added(s, row, c)

LevelEndStep(s) ==
    /\ ~cursor[s].waiting
    /\ LevelInputs(s, cursor[s].level) # {} /\ Left(s) = {}
    /\ units' = units
    /\ cursor'[s] = [cursor[s] EXCEPT !.waiting = TRUE]

NextLevelStep(s) ==
    /\ cursor[s].waiting
    /\ Cardinality(Level(s, cursor[s].level)) > 1
    /\ \A u \in Level(s, cursor[s].level) : units[u].state = "committed"
    /\ units' = units
    /\ cursor'[s] = NextLevel(s)

RootStep(s) ==
    /\ cursor[s].waiting
    /\ \E r \in Level(s, cursor[s].level) :
          /\ units' = [units EXCEPT ![r].root = TRUE]
          /\ \/ Cardinality(Level(s, cursor[s].level)) <= 1
             \/ units[r].state # "committed"
    /\ cursor'[s] = [cursor[s] EXCEPT !.completed = TRUE, !.waiting = FALSE]

ReductionStep(s) ==
    \/ OverflowStep(s) \/ FailedStep(s) \/ GroupStep(s)
    \/ LevelEndStep(s) \/ NextLevelStep(s) \/ RootStep(s)

\* A stage is refused a unit only if it is full.
LEMMA RefusedFull ==
    ASSUME Types, NEW s \in Stages, NEW row, NEW saved, Refused(s),
           \A v \in DOMAIN units : ~SameKey(units[v], row),
           Insert(s, row, saved, FALSE)
    PROVE  Full(s)
  <1> SUFFICES ASSUME ~Full(s) PROVE FALSE
    OBVIOUS
  <1>1. units' = Append(units, row)
    BY DEF Insert
  <1>2. PICK x : x = Append(units, row)
    OBVIOUS
  <1>3. Len(x) = Len(units) + 1 /\ Len(units) \in Nat
    BY <1>2 DEF Types
  <1>4. x = units
    BY <1>1, <1>2 DEF Refused
  <1>5. QED
    BY <1>3, <1>4

\* A ready reduction is in order.
LEMMA ReadyReduction ==
    ASSUME IInv, NEW s \in Stages, Ready(s), Mode[s] = "reduction"
    PROVE  Types /\ ReductionOK(s) /\ ~cursor[s].completed
  <1>1. StageOK(s) /\ cursor[s].attention = "" /\ Types
    BY DEF IInv, StagesOK, Ready
  <1>2. ~Initial(s)
    BY <1>1, PlanFacts
  <1>3. QED
    BY <1>1, <1>2 DEF StageOK, Ready

\* A reduction that cannot go on exposes a failed root, if there is room.
LEMMA FailCases ==
    ASSUME IInv, NEW s \in Stages, Ready(s), Mode[s] = "reduction",
           plan' = plan, NEW row, FailedRow(s, row), NEW done,
           DoneCursor(s, done), Insert(s, row, done, FALSE)
    PROVE  Works(s) /\ (FailedStep(s) \/ (Refused(s) /\ Full(s)))
  <1>1. Types /\ ReductionOK(s) /\ ~cursor[s].completed
    BY ReadyReduction
  <1>2. GoodRow(s, row) /\ GoodCursor(s, done)
    BY DEF FailedRow, DoneCursor
  <1>3. \A v \in DOMAIN units : ~SameKey(units[v], row)
    BY <1>1, FreshGroup
  <1>4. Works(s) /\ (Added(s, row, done) \/ Refused(s))
    BY <1>1, <1>2, <1>3, InsertCases
  <1>5. CASE Refused(s)
    BY <1>1, <1>3, <1>4, <1>5, RefusedFull
  <1>6. CASE Added(s, row, done)
    BY <1>4, <1>6 DEF FailedStep
  <1>7. QED
    BY <1>4, <1>5, <1>6

LEMMA DoneCursors ==
    ASSUME Types, Placed, NEW s \in Stages
    PROVE  /\ DoneCursor(s, [cursor[s] EXCEPT !.completed = TRUE])
           /\ DoneCursor(s, [cursor[s] EXCEPT !.completed = TRUE,
                                              !.waiting = FALSE])
  <1> DEFINE done == [cursor[s] EXCEPT !.completed = TRUE]
             rest == [cursor[s] EXCEPT !.completed = TRUE, !.waiting = FALSE]
  <1>1. cursor[s] \in CursorRow(plan) /\ cursor[s].parent <= Len(units)
    BY RowFacts DEF Placed
  <1>2. done.completed /\ rest.completed /\ ~rest.waiting
    BY <1>1 DEF CursorRow
  <1>3. done.waiting = cursor[s].waiting
    BY <1>1 DEF CursorRow
  <1>4. GoodCursor(s, done) /\ GoodCursor(s, rest)
    BY <1>1 DEF GoodCursor, CursorRow
  <1>5. /\ done.parent = cursor[s].parent /\ done.ord = cursor[s].ord
        /\ done.level = cursor[s].level
        /\ rest.parent = cursor[s].parent /\ rest.ord = cursor[s].ord
        /\ rest.level = cursor[s].level
    BY <1>1 DEF CursorRow
  <1> HIDE DEF done, rest
  <1>6. DoneCursor(s, done) /\ DoneCursor(s, rest)
    BY <1>2, <1>3, <1>4, <1>5 DEF DoneCursor
  <1>7. QED
    BY <1>6 DEF done, rest

LEMMA GroupRowFacts ==
    ASSUME Types, NEW s \in Stages, NEW group, NextGroup(s, group)
    PROVE  LET ord == cursor[s].ord + 1
           IN  GroupRow(s, Candidate(s, 0, group,
                                     Shard("reduction", cursor[s].level, ord, ""),
                                     cursor[s].level, ord))
  <1>1. PICK level : level = cursor[s].level
    OBVIOUS
  <1>2. PICK ord : ord = cursor[s].ord + 1
    OBVIOUS
  <1>3. level \in Nat /\ level \in Int /\ ord \in Nat /\ ord \in Int
    BY <1>1, <1>2, RowFacts DEF CursorRow
  <1>4. PICK shard : shard = Shard("reduction", level, ord, "")
    OBVIOUS
  <1>5. "reduction" \in ShardKinds /\ "" \in Names
    BY DEF ShardKinds, Names
  <1>6. shard \in ShardSet
    BY <1>3, <1>4, <1>5 DEF Shard, ShardSet
  <1>7. group \in SUBSET (DOMAIN units) /\ group \in SUBSET Nat
    <2>1. group \in SUBSET (DOMAIN units)
      BY GroupEnd
    <2>2. \A u \in DOMAIN units : u \in Nat
      BY RowFacts
    <2>3. QED
      BY <2>1, <2>2
  <1>8. 0 \in 0..Sources
    BY PlanFacts
  <1>9. PICK row : row = Candidate(s, 0, group, shard, level, ord)
    OBVIOUS
  <1>10. /\ row \in UnitRow(plan)
         /\ row.stage = s /\ row.inputs = group
         /\ row.shard = shard /\ row.level = level /\ row.ord = ord
         /\ row.gen = generation /\ row.state = "pending" /\ ~row.root
    BY <1>3, <1>6, <1>7, <1>8, <1>9, CandidateRow
  <1>11. GoodRow(s, row)
    <2>1. \A i \in group : i \in DOMAIN units /\ units[i].state = "committed"
      BY <1>7 DEF NextGroup
    <2>2. QED
      BY <1>10, <2>1 DEF GoodRow
  <1>12. row.shard = Shard("reduction", row.level, row.ord, "")
    BY <1>4, <1>10 DEF Shard
  <1>13. GroupRow(s, row)
    BY <1>1, <1>2, <1>10, <1>11, <1>12 DEF GroupRow
  <1>14. QED
    BY <1>1, <1>2, <1>4, <1>9, <1>13

LEMMA GroupCursorFacts ==
    ASSUME Types, NEW s \in Stages, NEW group, NextGroup(s, group)
    PROVE  GroupCursor(s, group, Grouped(s, group, group # Left(s)))
  <1>1. cursor[s] \in CursorRow(plan)
    BY RowFacts
  <1>2. Max(group) \in Nat /\ Max(group) <= Len(units)
    BY GroupEnd
  <1>3. PICK m : m = Max(group)
    OBVIOUS
  <1>4. PICK w : w = ~(group # Left(s))
    OBVIOUS
  <1>5. w \in BOOLEAN /\ (w <=> group = Left(s))
    BY <1>4
  <1>6. PICK c : c = [cursor[s] EXCEPT !.parent = m, !.ord = cursor[s].ord + 1,
                                       !.waiting = w]
    OBVIOUS
  <1>7. c = Grouped(s, group, group # Left(s))
    BY <1>1, <1>3, <1>4, <1>6 DEF Grouped, CursorRow
  <1>8. c \in CursorRow(plan)
    <2>1. cursor[s].ord + 1 \in Nat
      BY <1>1 DEF CursorRow
    <2>2. QED
      BY <1>1, <1>2, <1>3, <1>5, <1>6, <2>1 DEF CursorRow
  <1>9. /\ c.parent = m /\ c.ord = cursor[s].ord + 1 /\ c.level = cursor[s].level
        /\ c.count = cursor[s].count /\ c.attention = cursor[s].attention
    BY <1>1, <1>6 DEF CursorRow
  <1>10. c.completed = cursor[s].completed
    BY <1>1, <1>6 DEF CursorRow
  <1>11. c.waiting = w
    BY <1>1, <1>6 DEF CursorRow
  <1>12. GoodCursor(s, c)
    BY <1>2, <1>3, <1>8, <1>9 DEF GoodCursor
  <1>13. GroupCursor(s, group, c)
    BY <1>3, <1>5, <1>9, <1>10, <1>11, <1>12 DEF GroupCursor
  <1>14. QED
    BY <1>7, <1>13

\* A level that is being built makes one of the steps above,
LEMMA ReduceGroupCases ==
    ASSUME IInv, NEW s \in Stages, ReduceGroup(s), plan' = plan
    PROVE  Works(s) /\ ReductionStep(s)
  <1>a. PICK level : level = cursor[s].level
    OBVIOUS
  <1>b. PICK ord : ord = cursor[s].ord + 1
    OBVIOUS
  <1>c. PICK left : left = Left(s)
    OBVIOUS
  <1>d. PICK window : window = Take(left, plan.fanIn)
    OBVIOUS
  <1>e. PICK n : n = Fitting(window)
    OBVIOUS
  <1>f. PICK group : group = Take(window, n)
    OBVIOUS
  <1>g. PICK done : done = [cursor[s] EXCEPT !.completed = TRUE]
    OBVIOUS
  <1>0. /\ Ready(s) /\ Mode[s] = "reduction" /\ ~cursor[s].waiting
        /\ Types /\ Placed
    BY DEF ReduceGroup, Selected, IInv
  <1>1. ReductionOK(s) /\ ~cursor[s].completed
    BY <1>0, ReadyReduction
  <1>2. ord \in Int /\ 0 \in Int
    BY <1>0, <1>b, RowFacts DEF CursorRow
  <1>3. DoneCursor(s, done)
    BY <1>0, <1>g, DoneCursors
  <1> DEFINE Fail(o, kind, reason) ==
                 Insert(s, FailedRoot(s, o, kind, reason), done, FALSE)
             bad == \E u \in window : \/ units[u].state # "committed"
                                      \/ ~units[u].out.array
  <1>4. IF LevelInputs(s, level) = {}
        THEN Fail(0, "unavailable", "dependency_result_unavailable")
        ELSE IF bad THEN Fail(ord, "invalid-input", "dependency_result_unavailable")
        ELSE IF n = 0 /\ window # {}
        THEN Fail(ord, "input_too_large", "dependency_input_too_large")
        ELSE IF Stuck(window, n)
        THEN Fail(ord, "not_converging", "reduction_not_converging")
        ELSE IF window = {}
        THEN SaveCursor(s, [cursor[s] EXCEPT !.waiting = TRUE])
        ELSE Insert(s, Candidate(s, 0, group, Shard("reduction", level, ord, ""),
                                 level, ord),
                    Grouped(s, group, group # left), FALSE)
    BY <1>a, <1>b, <1>c, <1>d, <1>e, <1>f, <1>g DEF ReduceGroup, Left
  <1>5. left \in SUBSET Nat /\ IsFiniteSet(left)
    <2>1. left \in SUBSET LevelInputs(s, cursor[s].level)
      BY <1>c DEF Left
    <2>2. QED
      BY <1>0, <2>1, LevelFacts, FS_Subset
  <1>6. plan.fanIn \in Nat /\ plan.fanIn > 0
    BY <1>0, PlanFacts
  <1>7. window \in SUBSET left /\ IsFiniteSet(window) /\ Cardinality(window) \in Nat
        /\ (left # {} => window # {})
    BY <1>5, <1>6, <1>d, TakeFacts
  <1>8. window # {} => left # {}
    BY <1>7
  <1>9. ASSUME NEW o \in Int,
               NEW kind \in {"unavailable", "invalid-input", "input_too_large",
                             "not_converging"},
               NEW reason \in {"dependency_result_unavailable",
                               "dependency_input_too_large",
                               "reduction_not_converging"},
               Fail(o, kind, reason),
               LevelInputs(s, level) = {} \/ left # {}
        PROVE  Works(s) /\ ReductionStep(s)
    <2>1. FailedRow(s, FailedRoot(s, o, kind, reason))
      BY <1>0, FailedRowFacts
    <2>2. Works(s) /\ (FailedStep(s) \/ (Refused(s) /\ Full(s)))
      BY <1>0, <1>3, <1>9, <2>1, FailCases
    <2>3. QED
      BY <1>0, <1>9, <1>a, <1>c, <2>2 DEF ReductionStep, OverflowStep
  <1>10. CASE LevelInputs(s, level) = {}
    <2>1. Fail(0, "unavailable", "dependency_result_unavailable")
      BY <1>4, <1>10
    <2> HIDE DEF Fail
    <2>2. QED
      BY <1>2, <1>9, <1>10, <2>1
  <1>11. CASE LevelInputs(s, level) # {} /\ bad
    <2>1. Fail(ord, "invalid-input", "dependency_result_unavailable")
      BY <1>4, <1>11
    <2>2. left # {}
      BY <1>8, <1>11
    <2> HIDE DEF Fail
    <2>3. QED
      BY <1>2, <1>9, <2>1, <2>2
  <1>12. CASE LevelInputs(s, level) # {} /\ ~bad /\ n = 0 /\ window # {}
    <2>1. Fail(ord, "input_too_large", "dependency_input_too_large")
      BY <1>4, <1>12
    <2> HIDE DEF Fail
    <2>2. QED
      BY <1>2, <1>8, <1>9, <1>12, <2>1
  <1>13. CASE /\ LevelInputs(s, level) # {} /\ ~bad /\ ~(n = 0 /\ window # {})
              /\ Stuck(window, n)
    <2>1. Fail(ord, "not_converging", "reduction_not_converging")
      BY <1>4, <1>13
    <2>2. window # {}
      <3>1. Cardinality(window) # 0
        BY <1>7, <1>13 DEF Stuck
      <3>2. QED
        BY <3>1, FS_EmptySet
    <2> HIDE DEF Fail
    <2>3. QED
      BY <1>2, <1>8, <1>9, <2>1, <2>2
  <1>14. CASE /\ LevelInputs(s, level) # {} /\ ~bad /\ ~(n = 0 /\ window # {})
              /\ ~Stuck(window, n) /\ window = {}
    <2> DEFINE rest == [cursor[s] EXCEPT !.waiting = TRUE]
    <2>1. SaveCursor(s, rest)
      BY <1>4, <1>14
    <2>2. GoodCursor(s, rest)
      <3>1. cursor[s] \in CursorRow(plan) /\ cursor[s].parent <= Len(units)
        BY <1>0, RowFacts DEF Placed
      <3>2. QED
        BY <3>1 DEF GoodCursor, CursorRow
    <2> HIDE DEF rest
    <2>3. Works(s) /\ units' = units /\ cursor'[s] = rest
      BY <1>0, <2>1, <2>2, SaveCursorWorks
    <2>4. Left(s) = {} /\ LevelInputs(s, cursor[s].level) # {}
      BY <1>7, <1>14, <1>a, <1>c
    <2>5. QED
      BY <1>0, <2>3, <2>4 DEF ReductionStep, LevelEndStep, rest
  <1>15. CASE /\ LevelInputs(s, level) # {} /\ ~bad /\ ~(n = 0 /\ window # {})
              /\ ~Stuck(window, n) /\ window # {}
    <2>1. PICK row : row = Candidate(s, 0, group,
                               Shard("reduction", level, ord, ""), level, ord)
      OBVIOUS
    <2>2. PICK saved : saved = Grouped(s, group, group # left)
      OBVIOUS
    <2>3. Insert(s, row, saved, FALSE)
      BY <1>4, <1>15, <2>1, <2>2
    <2>4. NextGroup(s, group)
      <3>1. window = Take(Left(s), plan.fanIn) /\ window # {} /\ n # 0
        BY <1>15, <1>c, <1>d
      <3>2. \A u \in window : units[u].state = "committed"
        BY <1>15
      <3>3. NextGroup(s, Take(window, n))
        BY <1>0, <1>15, <1>e, <3>1, <3>2, GroupTaken
      <3>4. QED
        BY <1>f, <3>3
    <2>5. GroupRow(s, row) /\ GroupCursor(s, group, saved)
      BY <1>0, <1>a, <1>b, <1>c, <2>1, <2>2, <2>4, GroupRowFacts,
         GroupCursorFacts
    <2>6. row.inputs = group
      BY <2>1 DEF Candidate
    <2>7. GoodRow(s, row) /\ GoodCursor(s, saved)
      BY <2>5 DEF GroupRow, GroupCursor
    <2>8. \A v \in DOMAIN units : ~SameKey(units[v], row)
      BY <1>0, <1>1, <2>5, FreshGroup
    <2>9. Works(s) /\ (Added(s, row, saved) \/ Refused(s))
      BY <1>0, <2>3, <2>7, <2>8, InsertCases
    <2>10. CASE Refused(s)
      <3>1. Full(s)
        BY <1>0, <2>3, <2>8, <2>10, RefusedFull
      <3>2. left # {}
        BY <1>8, <1>15
      <3>3. QED
        BY <1>0, <1>c, <2>9, <2>10, <3>1, <3>2 DEF ReductionStep, OverflowStep
    <2>11. CASE Added(s, row, saved)
      BY <1>0, <2>5, <2>6, <2>9, <2>11 DEF ReductionStep, GroupStep
    <2>12. QED
      BY <2>9, <2>10, <2>11
  <1>16. QED
    BY <1>10, <1>11, <1>12, <1>13, <1>14, <1>15

\* The first group of a level exists.
LEMMA LeastOrd ==
    ASSUME Types, NEW S \in SUBSET (DOMAIN units), S # {},
           \A u \in S : units[u].ord \in Nat
    PROVE  \E u \in S : \A v \in S : units[u].ord <= units[v].ord
  <1> DEFINE R == {units[u].ord : u \in S}
  <1>1. R \in SUBSET Nat /\ R # {}
    OBVIOUS
  <1>2. PICK m \in R : \A y \in R : m <= y
    <2> HIDE DEF R
    <2>1. QED
      BY <1>1, LeastNat
  <1>3. PICK u \in S : units[u].ord = m
    BY <1>2
  <1>4. \A v \in S : units[u].ord <= units[v].ord
    BY <1>2, <1>3
  <1>5. QED
    BY <1>4

LEMMA NextLevelFacts ==
    ASSUME Types, NEW s \in Stages
    PROVE  /\ GoodCursor(s, NextLevel(s))
           /\ NextLevel(s).level = cursor[s].level + 1
           /\ NextLevel(s).parent = 0 /\ NextLevel(s).ord = -1
           /\ ~NextLevel(s).waiting
           /\ NextLevel(s).completed = cursor[s].completed
           /\ NextLevel(s).attention = cursor[s].attention
  <1>1. cursor[s] \in CursorRow(plan)
    BY RowFacts
  <1>2. PICK l : l = cursor[s].level + 1
    OBVIOUS
  <1>3. l \in Nat
    BY <1>1, <1>2 DEF CursorRow
  <1>4. -1 \in {-1} \cup Nat /\ 0 \in Nat /\ Len(units) \in Nat
    BY DEF Types
  <1>5. PICK minus : minus = -1 /\ minus \in {-1} \cup Nat
    BY <1>4
  <1>6. PICK c : c = [cursor[s] EXCEPT !.parent = 0, !.level = l, !.ord = minus,
                                       !.waiting = FALSE]
    OBVIOUS
  <1>7. c = NextLevel(s)
    BY <1>1, <1>2, <1>5, <1>6 DEF NextLevel, CursorRow
  <1>8. c \in CursorRow(plan)
    BY <1>1, <1>3, <1>4, <1>5, <1>6 DEF CursorRow
  <1>9. /\ c.level = l /\ c.parent = 0 /\ c.ord = minus
        /\ c.count = cursor[s].count /\ c.attention = cursor[s].attention
    BY <1>1, <1>6 DEF CursorRow
  <1>10. ~c.waiting
    BY <1>1, <1>6 DEF CursorRow
  <1>11. c.completed = cursor[s].completed
    BY <1>1, <1>6 DEF CursorRow
  <1>12. GoodCursor(s, c)
    BY <1>4, <1>8, <1>9 DEF GoodCursor
  <1>13. QED
    BY <1>2, <1>5, <1>7, <1>9, <1>10, <1>11, <1>12

\* and so does one that is complete.
LEMMA ReduceLevelCases ==
    ASSUME IInv, NEW s \in Stages, ReduceLevel(s), plan' = plan
    PROVE  Works(s) /\ ReductionStep(s)
  <1>a. PICK level : level = cursor[s].level
    OBVIOUS
  <1>b. PICK all : all = Level(s, level)
    OBVIOUS
  <1>c. PICK done : done = [cursor[s] EXCEPT !.completed = TRUE,
                                             !.waiting = FALSE]
    OBVIOUS
  <1>0. /\ Ready(s) /\ Mode[s] = "reduction" /\ cursor[s].waiting
        /\ Types /\ Placed
    BY DEF ReduceLevel, Selected, IInv
  <1>1. ReductionOK(s) /\ ~cursor[s].completed
    BY <1>0, ReadyReduction
  <1>2. DoneCursor(s, done)
    BY <1>0, <1>c, DoneCursors
  <1>3. cursor[s] \in CursorRow(plan) /\ cursor[s].parent <= Len(units)
    BY <1>0, RowFacts DEF Placed
  <1>4. CASE all = {}
    <2>1. PICK row : row = FailedRoot(s, 0, "unavailable",
                                      "dependency_result_unavailable")
      OBVIOUS
    <2>2. Insert(s, row, done, FALSE)
      BY <1>4, <1>a, <1>b, <1>c, <2>1 DEF ReduceLevel
    <2>3. 0 \in Int
      OBVIOUS
    <2>4. FailedRow(s, row)
      BY <1>0, <2>1, <2>3, FailedRowFacts
    <2>5. Works(s) /\ (FailedStep(s) \/ (Refused(s) /\ Full(s)))
      BY <1>0, <1>2, <2>2, <2>4, FailCases
    <2>6. QED
      BY <1>0, <1>4, <1>a, <1>b, <2>5 DEF ReductionStep, OverflowStep
  <1>5. CASE /\ all # {} /\ Cardinality(all) > 1
             /\ \A u \in all : units[u].state = "committed"
    <2>1. SaveCursor(s, NextLevel(s))
      BY <1>5, <1>a, <1>b DEF ReduceLevel
    <2>2. GoodCursor(s, NextLevel(s))
      BY <1>0, NextLevelFacts
    <2>3. Works(s) /\ units' = units /\ cursor'[s] = NextLevel(s)
      BY <1>0, <2>1, <2>2, SaveCursorWorks
    <2>4. QED
      BY <1>0, <1>5, <1>a, <1>b, <2>3 DEF ReductionStep, NextLevelStep
  <1>6. CASE /\ all # {}
             /\ ~(/\ Cardinality(all) > 1
                  /\ \A u \in all : units[u].state = "committed")
    <2> DEFINE bad == {u \in all : units[u].state # "committed"}
               First(S) == CHOOSE u \in S : \A v \in S : units[u].ord <= units[v].ord
    <2>1. /\ units' = [units EXCEPT ![Root(s)].root = TRUE]
          /\ cursor' = [cursor EXCEPT ![s] = done]
          /\ workload' = workload /\ generation' = generation
          /\ replayed' = replayed
      BY <1>6, <1>a, <1>b, <1>c DEF ReduceLevel
    <2>2. all \in SUBSET UnitsOf(s) /\ all \in SUBSET (DOMAIN units)
      BY <1>b DEF Level, UnitsOf
    <2>3. \A u \in all : units[u].ord \in Nat
      BY <1>0, <1>1, <2>2, GroupFacts
    <2>4. \A S \in SUBSET all : S # {} => First(S) \in S
      <3>1. ASSUME NEW S \in SUBSET all, S # {} PROVE First(S) \in S
        <4>1. \E u \in S : \A v \in S : units[u].ord <= units[v].ord
          BY <1>0, <2>2, <2>3, <3>1, LeastOrd
        <4>2. QED
          BY <4>1
      <3>2. QED
        BY <3>1
    <2>5. Root(s) = IF bad # {} THEN First(bad) ELSE First(all)
      BY <1>a, <1>b DEF Root
    <2>6. bad \in SUBSET all /\ all \in SUBSET all
      OBVIOUS
    <2> HIDE DEF First
    <2>7. /\ Root(s) \in all
          /\ units[Root(s)].state # "committed" \/ \A u \in all : units[u].state = "committed"
      <3>1. CASE bad # {}
        <4>1. Root(s) \in bad
          BY <2>4, <2>5, <2>6, <3>1
        <4>2. QED
          BY <4>1
      <3>2. CASE bad = {}
        BY <1>6, <2>4, <2>5, <2>6, <3>2
      <3>3. QED
        BY <3>1, <3>2
    <2>8. PICK r : r = Root(s)
      OBVIOUS
    <2>9. r \in UnitsOf(s) /\ units' = [units EXCEPT ![r].root = TRUE]
      BY <2>1, <2>2, <2>7, <2>8
    <2>10. Works(s)
      BY <1>0, <1>2, <2>1, <2>9 DEF Works, DoneCursor
    <2>11. cursor'[s] = done
      BY <1>0, <2>1 DEF Types
    <2>12. IsFiniteSet(all) /\ Cardinality(all) \in Nat
      BY <1>0, <2>2, UnitCounts, FS_Subset, FS_CardinalityType
    <2>13. Cardinality(all) <= 1 \/ units[r].state # "committed"
      BY <1>6, <2>7, <2>8, <2>12
    <2>14. RootStep(s)
      BY <1>0, <1>a, <1>b, <1>c, <2>7, <2>8, <2>9, <2>11, <2>13 DEF RootStep
    <2>15. QED
      BY <2>10, <2>14 DEF ReductionStep
  <1>7. QED
    BY <1>4, <1>5, <1>6

\* The cursor moves, the units stay.
LEMMA SameLevels ==
    ASSUME Types, NEW s \in Stages, Works(s),
           UnitsOf(s)' = UnitsOf(s),
           \A u \in UnitsOf(s) : /\ units'[u].level = units[u].level
                                 /\ units'[u].inputs = units[u].inputs
    PROVE  /\ \A l : Level(s, l)' = Level(s, l)
           /\ \A l : LevelInputs(s, l)' = LevelInputs(s, l)
           /\ \A l : Covered(s, l)' <=> Covered(s, l)
           /\ GroupsApart(s)' <=> GroupsApart(s)
  <1>1. ParentsEnded(s)
    BY DEF Works, Ready
  <1>2. \A l : Level(s, l)' = Level(s, l)
    BY DEF Level
  <1>3. Parents(s)' = Parents(s)
    BY <1>1, WorksFacts
  <1>4. \A l : LevelInputs(s, l)' = LevelInputs(s, l)
    BY <1>2, <1>3 DEF LevelInputs, Parents
  <1>5. \A l, i : (\E v \in Level(s, l)' : i \in units'[v].inputs)
                     <=> (\E v \in Level(s, l) : i \in units[v].inputs)
    BY <1>2 DEF Level
  <1>6. \A l : Covered(s, l)' <=> Covered(s, l)
    BY <1>4, <1>5 DEF Covered
  <1>7. GroupsApart(s)' <=> GroupsApart(s)
    BY DEF GroupsApart
  <1>8. QED
    BY <1>2, <1>4, <1>6, <1>7

\* The other steps keep the reduction in order, too.
LEMMA LevelEndOK ==
    ASSUME Types, NEW s \in Stages, Works(s), ReductionOK(s), LevelEndStep(s)
    PROVE  ReductionOK(s)'
  <1>a. PICK l0 : l0 = cursor[s].level
    OBVIOUS
  <1>0. cursor[s] \in CursorRow(plan) /\ ~cursor[s].completed
    BY RowFacts DEF Works, Ready
  <1>1. units' = units /\ UnitsOf(s)' = UnitsOf(s)
    BY DEF LevelEndStep, UnitsOf
  <1>2. /\ \A l : Level(s, l)' = Level(s, l)
        /\ \A l : LevelInputs(s, l)' = LevelInputs(s, l)
        /\ \A l : Covered(s, l)' <=> Covered(s, l)
        /\ GroupsApart(s)' <=> GroupsApart(s)
    BY <1>1, SameLevels
  <1>3. /\ cursor'[s].level = l0 /\ cursor'[s].ord = cursor[s].ord
        /\ cursor'[s].parent = cursor[s].parent
    BY <1>0, <1>a DEF LevelEndStep, CursorRow
  <1>4. \A v \in UnitsOf(s) : IsGroup(s, v) /\ units[v].level \in 0..l0
    BY <1>0, <1>a, GroupFacts
  <1>5. \A v \in UnitsOf(s) : IsGroup(s, v)'
    BY <1>1, <1>2, <1>3, <1>4, <1>a DEF IsGroup, Shard
  <1>6. GroupRows(s)'
    BY <1>1, <1>3, <1>4, <1>5 DEF GroupRows
  <1>7. CursorCovered(s)'
    BY <1>1, <1>2, <1>3, <1>a DEF ReductionOK, CursorCovered
  <1>8. Covered(s, l0)
    <2>1. cursor[s].parent \in Nat
      BY <1>0 DEF CursorRow
    <2>2. \A i \in LevelInputs(s, l0) : i \in Nat
      BY LevelFacts
    <2>3. \A i \in LevelInputs(s, l0) : i <= cursor[s].parent
      BY <1>a, <2>1, <2>2 DEF LevelEndStep, Left
    <2>4. QED
      BY <1>a, <2>3 DEF ReductionOK, CursorCovered, Covered
  <1>9. LevelsCovered(s)'
    <2>1. ASSUME NEW l \in 0..l0 PROVE Covered(s, l)'
      <3>1. CASE l < l0
        BY <1>2, <1>a, <3>1 DEF ReductionOK, LevelsCovered
      <3>2. CASE l = l0
        BY <1>2, <1>8, <3>2
      <3>3. l0 \in Nat
        BY <1>0, <1>a DEF CursorRow
      <3>4. QED
        BY <3>1, <3>2, <3>3
    <2>2. QED
      BY <1>3, <2>1 DEF LevelsCovered
  <1>10. QED
    BY <1>2, <1>6, <1>7, <1>9 DEF ReductionOK

LEMMA NextLevelOK ==
    ASSUME Types, NEW s \in Stages, Works(s), ReductionOK(s), NextLevelStep(s)
    PROVE  ReductionOK(s)'
  <1>a. PICK l0 : l0 = cursor[s].level
    OBVIOUS
  <1>0. l0 \in Nat /\ ~cursor[s].completed
    BY <1>a, RowFacts DEF Works, Ready, CursorRow
  <1>1. units' = units /\ UnitsOf(s)' = UnitsOf(s)
    BY DEF NextLevelStep, UnitsOf
  <1>2. /\ \A l : Level(s, l)' = Level(s, l)
        /\ \A l : LevelInputs(s, l)' = LevelInputs(s, l)
        /\ \A l : Covered(s, l)' <=> Covered(s, l)
        /\ GroupsApart(s)' <=> GroupsApart(s)
    BY <1>1, SameLevels
  <1>3. cursor'[s].level = l0 + 1 /\ cursor'[s].parent = 0
    BY <1>a, NextLevelFacts DEF NextLevelStep
  <1>4. \A v \in UnitsOf(s) : IsGroup(s, v) /\ units[v].level \in 0..l0
    BY <1>0, <1>a, GroupFacts
  <1>5. \A v \in UnitsOf(s) : units[v].level \in 0..(l0 + 1) /\ units[v].level # l0 + 1
    BY <1>0, <1>4
  <1>6. \A v \in UnitsOf(s) : IsGroup(s, v)'
    BY <1>1, <1>2, <1>3, <1>4, <1>5 DEF IsGroup, Shard
  <1>7. GroupRows(s)'
    BY <1>1, <1>3, <1>5, <1>6 DEF GroupRows
  <1>8. CursorCovered(s)'
    <2>1. \A l : \A i \in LevelInputs(s, l) : ~(i <= 0)
      BY LevelFacts
    <2>2. QED
      BY <1>2, <1>3, <2>1 DEF CursorCovered
  <1>9. ~cursor'[s].waiting
    BY NextLevelFacts DEF NextLevelStep
  <1>10. LevelsCovered(s)'
    <2>1. ASSUME NEW l \in 0..(l0 + 1), l < l0 + 1 PROVE Covered(s, l)'
      <3>1. l \in 0..l0
        BY <1>0, <2>1
      <3>2. cursor[s].waiting
        BY DEF NextLevelStep
      <3>3. Covered(s, l)
        BY <1>a, <3>1, <3>2 DEF ReductionOK, LevelsCovered
      <3>4. QED
        BY <1>2, <3>3
    <2>2. QED
      BY <1>3, <1>9, <2>1 DEF LevelsCovered
  <1>11. QED
    BY <1>2, <1>7, <1>8, <1>10 DEF ReductionOK

LEMMA RootOK ==
    ASSUME Types, NEW s \in Stages, Works(s), ReductionOK(s), RootStep(s)
    PROVE  ReductionOK(s)'
  <1>a. PICK l0 : l0 = cursor[s].level
    OBVIOUS
  <1>0. cursor[s] \in CursorRow(plan) /\ ~cursor[s].completed
    BY RowFacts DEF Works, Ready
  <1>1. PICK r \in UnitsOf(s) : units' = [units EXCEPT ![r].root = TRUE]
    BY DEF RootStep, Level
  <1>2. /\ UnitsOf(s)' = UnitsOf(s)
        /\ \A u \in UnitsOf(s) : /\ units'[u].inputs = units[u].inputs
                                 /\ units'[u].shard = units[u].shard
                                 /\ units'[u].level = units[u].level
                                 /\ units'[u].ord = units[u].ord
    BY <1>1, RootFacts DEF UnitsOf
  <1>3. /\ \A l : Level(s, l)' = Level(s, l)
        /\ \A l : LevelInputs(s, l)' = LevelInputs(s, l)
        /\ \A l : Covered(s, l)' <=> Covered(s, l)
        /\ GroupsApart(s)' <=> GroupsApart(s)
    BY <1>2, SameLevels
  <1>4. /\ cursor'[s].level = l0 /\ cursor'[s].ord = cursor[s].ord
        /\ cursor'[s].parent = cursor[s].parent
    BY <1>0, <1>a DEF RootStep, CursorRow
  <1>5. ~cursor'[s].waiting
    BY <1>0 DEF RootStep, CursorRow
  <1>6. \A v \in UnitsOf(s) : IsGroup(s, v) /\ units[v].level \in 0..l0
    BY <1>0, <1>a, GroupFacts
  <1>7. ASSUME NEW v \in UnitsOf(s) PROVE IsGroup(s, v)'
    <2>1. PICK l : l = units[v].level
      OBVIOUS
    <2>2. PICK row : row = units'[v]
      OBVIOUS
    <2>3. /\ row.level = l /\ row.inputs = units[v].inputs
          /\ row.shard = units[v].shard /\ row.ord = units[v].ord
      BY <1>2, <2>1, <2>2
    <2>4. LevelInputs(s, l)' = LevelInputs(s, l)
      BY <1>3
    <2>5. /\ row.shard = Shard("reduction", l, row.ord, "")
          /\ row.inputs \subseteq LevelInputs(s, l)
          /\ l = l0 => /\ row.ord <= cursor[s].ord
                       /\ \A i \in row.inputs : i <= cursor[s].parent
      BY <1>6, <1>a, <2>1, <2>3 DEF IsGroup, Shard
    <2>6. QED
      BY <1>4, <2>2, <2>3, <2>4, <2>5 DEF IsGroup, Shard
  <1>8. GroupRows(s)'
    BY <1>2, <1>4, <1>6, <1>7 DEF GroupRows
  <1>9. \A l, i : (\E v \in Level(s, l)' : i \in units'[v].inputs)
                     <=> (\E v \in Level(s, l) : i \in units[v].inputs)
    BY <1>2, <1>3 DEF Level
  <1>10. CursorCovered(s)'
    BY <1>3, <1>4, <1>9, <1>a DEF ReductionOK, CursorCovered
  <1>11. LevelsCovered(s)'
    BY <1>3, <1>4, <1>5, <1>a DEF ReductionOK, LevelsCovered
  <1>12. QED
    BY <1>3, <1>8, <1>10, <1>11 DEF ReductionOK

\* A reduction that works stays in order.
LEMMA ReductionWorks ==
    ASSUME IInv, NEW s \in Stages, Mode[s] = "reduction", Works(s),
           ReductionStep(s)
    PROVE  StageOK(s)'
  <1>1. Ready(s) /\ plan' = plan
    BY DEF Works
  <1>2. Types /\ ReductionOK(s) /\ Mode' = Mode
    BY <1>1, ReadyReduction, SamePlan
  <1>3. CASE OverflowStep(s)
    BY <1>3, RefusedOK DEF OverflowStep
  <1>4. ASSUME ReductionOK(s)' PROVE StageOK(s)'
    BY <1>2, <1>4 DEF StageOK
  <1>5. CASE FailedStep(s)
    BY <1>2, <1>4, <1>5, FailedAdded DEF FailedStep
  <1>6. CASE GroupStep(s)
    BY <1>2, <1>4, <1>6, GroupAdded DEF GroupStep
  <1>7. CASE LevelEndStep(s)
    BY <1>2, <1>4, <1>7, LevelEndOK
  <1>8. CASE NextLevelStep(s)
    BY <1>2, <1>4, <1>8, NextLevelOK
  <1>9. CASE RootStep(s)
    BY <1>2, <1>4, <1>9, RootOK
  <1>10. QED
    BY <1>3, <1>5, <1>6, <1>7, <1>8, <1>9 DEF ReductionStep

-----------------------------------------------------------------------------
(* The invariant is inductive.                                             *)

\* A step of a stage, and what it does if the stage is a reduction.
WorksOn(s) ==
    /\ Works(s) /\ StageOK(s)'
    /\ Mode[s] = "reduction" => ReductionStep(s)

\* Every step is a run, or that of one stage.
LEMMA StepCases ==
    ASSUME IInv, [Next]_vars
    PROVE  Runs \/ (\E s \in Stages : WorksOn(s))
  <1>0. Types
    BY DEF IInv
  <1>1. CASE UNCHANGED vars
    <2>1. \A u \in DOMAIN units : RowStep(units[u], units[u])
      BY <1>0, RowFacts, StayRow
    <2>2. generation \in generation..plan.decisions
      BY <1>0, PlanFacts DEF Types
    <2>3. Runs
      BY <1>0, <1>1, <2>1, <2>2 DEF Runs, Types, vars, tables
    <2>4. QED
      BY <2>3
  <1>2. ASSUME NEW s \in Stages, Materialize(s), plan' = plan
        PROVE  WorksOn(s)
    <2>1. CASE MaterializeSingleton(s)
      BY <1>2, <2>1, SingletonWorks DEF WorksOn, MaterializeSingleton
    <2>2. CASE MaterializeSource(s)
      BY <1>2, <2>2, SourceWorks DEF WorksOn, MaterializeSource
    <2>3. CASE EndOfParents(s)
      BY <1>2, <2>3, EndOfParentsWorks DEF WorksOn, EndOfParents
    <2>4. CASE MaterializeDependency(s)
      BY <1>2, <2>4, DependencyWorks DEF WorksOn, MaterializeDependency
    <2>5. CASE MaterializeEntry(s)
      BY <1>2, <2>5, EntryWorks DEF WorksOn, MaterializeEntry
    <2>6. CASE ReduceGroup(s)
      <3>1. Mode[s] = "reduction"
        BY <2>6 DEF ReduceGroup
      <3>2. QED
        BY <1>2, <2>6, <3>1, ReduceGroupCases, ReductionWorks DEF WorksOn
    <2>7. CASE ReduceLevel(s)
      <3>1. Mode[s] = "reduction"
        BY <2>7 DEF ReduceLevel
      <3>2. QED
        BY <1>2, <2>7, <3>1, ReduceLevelCases, ReductionWorks DEF WorksOn
    <2>8. QED
      BY <1>2, <2>1, <2>2, <2>3, <2>4, <2>5, <2>6, <2>7 DEF Materialize
  <1>3. CASE Next
    BY <1>0, <1>2, <1>3, NextCases
  <1>4. QED
    BY <1>1, <1>3

\* What the cursors say of the units is kept,
LEMMA StagesKept ==
    ASSUME IInv, Types', Runs \/ (\E s \in Stages : WorksOn(s))
    PROVE  StagesOK'
  <1>0. Types /\ Ordered /\ StagesOK
    BY DEF IInv
  <1>1. plan' = plan /\ Stages' = Stages
    BY SamePlan DEF Runs, WorksOn, Works
  <1>2. Runs \/ (\E s \in Stages : Works(s))
    BY DEF WorksOn
  <1>3. ASSUME NEW t \in Stages, ~StageOK(t)' PROVE FALSE
    <2>1. Kept(t)
      <3>1. CASE Runs
        BY <1>0, <3>1, RunsEverywhere
      <3>2. CASE \E s \in Stages : WorksOn(s)
        <4>1. PICK s \in Stages : Works(s) /\ StageOK(s)'
          BY <3>2 DEF WorksOn
        <4>2. t # s
          BY <1>3, <4>1
        <4>3. QED
          BY <1>0, <4>1, <4>2, WorksElsewhere DEF Kept, SameShape
      <3>3. QED
        BY <3>1, <3>2
    <2>2. CASE ParentsEnded(t)
      <3>1. Frozen(t)
        BY <1>0, <1>2, <2>2, ParentsFrozen
      <3>2. QED
        BY <1>0, <1>1, <1>3, <2>1, <3>1, KeptOK DEF StagesOK
    <2>3. CASE ~ParentsEnded(t)
      <3>1. Untouched(t)
        BY <1>0, <2>3 DEF Ordered
      <3>2. Untouched(t)'
        BY <2>1, <3>1 DEF Untouched, Kept
      <3>3. QED
        BY <1>1, <1>3, <3>2, UntouchedNext
    <2>4. QED
      BY <2>2, <2>3
  <1>4. QED
    BY <1>1, <1>3 DEF StagesOK

\* and with it the invariant.
LEMMA IInvNext ==
    ASSUME IInv, [Next]_vars
    PROVE  IInv'
  <1>1. Runs \/ (\E s \in Stages : WorksOn(s))
    BY StepCases
  <1>2. Runs \/ (\E s \in Stages : Works(s))
    BY <1>1 DEF WorksOn
  <1>3. Types /\ Ordered /\ Placed /\ Fed /\ ~replayed
    BY DEF IInv
  <1>4. Types'
    BY <1>2, <1>3, TypesKept
  <1>5. Ordered'
    BY <1>2, <1>3, OrderedKept
  <1>6. Placed'
    BY <1>2, <1>3, PlacedKept
  <1>7. Fed'
    BY <1>2, <1>3, FedKept
  <1>8. StagesOK'
    BY <1>1, <1>4, StagesKept
  <1>9. ~replayed'
    BY <1>2, <1>3 DEF Runs, Works
  <1>10. QED
    BY <1>4, <1>5, <1>6, <1>7, <1>8, <1>9 DEF IInv

-----------------------------------------------------------------------------
(* The admitted units.                                                     *)

\* A bijection keeps the cardinality.
LEMMA SameSize ==
    ASSUME NEW S, NEW T, IsFiniteSet(T), NEW f \in [S -> T],
           \A x, y \in S : f[x] = f[y] => x = y,
           \A z \in T : \E x \in S : f[x] = z
    PROVE  IsFiniteSet(S) /\ Cardinality(S) = Cardinality(T)
  <1>1. f \in Injection(S, T) /\ f \in Surjection(S, T)
    BY DEF Injection, IsInjective, Surjection
  <1>2. QED
    BY <1>1, FS_Injection

\* The rows of the admission, counted in their order.
LEMMA RowRanks ==
    ASSUME plan \in Plans
    PROVE  /\ IsFiniteSet(InitialRows) /\ Cardinality(InitialRows) \in Nat
           /\ \A i \in 1..Cardinality(InitialRows) : InitialRow(i) \in InitialRows
           /\ \A i, j \in 1..Cardinality(InitialRows) :
                 InitialRow(i) = InitialRow(j) => i = j
           /\ \A r \in InitialRows : \E i \in 1..Cardinality(InitialRows) :
                 InitialRow(i) = r
  <1> DEFINE R == InitialRows
             n == Cardinality(R)
             Before(r) == {q \in R : RowBefore(q, r)}
             rank == [r \in R |-> Cardinality(Before(r))]
  <1>0. Stages \subseteq Nat /\ IsFiniteSet(Stages) /\ Sources \in Nat
    BY AdmittedPlan
  <1>1. R \in SUBSET (Stages \X (0..Sources))
    BY DEF InitialRows
  <1>2. IsFiniteSet(R) /\ n \in Nat
    <2>1. IsFiniteSet(0..Sources)
      BY <1>0, FS_Interval
    <2>2. IsFiniteSet(Stages \X (0..Sources))
      BY <1>0, <2>1, FS_Product
    <2>3. IsFiniteSet(R)
      BY <1>1, <2>2, FS_Subset
    <2>4. QED
      BY <2>3, FS_CardinalityType
  <1> HIDE DEF R
  <1>3. \A r \in R : r[1] \in Nat /\ r[2] \in Nat /\ r = <<r[1], r[2]>>
    <2>1. PICK T : T = Stages
      OBVIOUS
    <2>2. PICK K : K = 0..Sources
      OBVIOUS
    <2>3. \A r \in T \X K : r[1] \in T /\ r[2] \in K /\ r = <<r[1], r[2]>>
      OBVIOUS
    <2>4. T \subseteq Nat /\ K \subseteq Nat /\ R \in SUBSET (T \X K)
      BY <1>0, <1>1, <2>1, <2>2
    <2>5. QED
      BY <2>3, <2>4
  <1>4. \A q, r \in R : q # r => RowBefore(q, r) \/ RowBefore(r, q)
    <2>1. ASSUME NEW q \in R, NEW r \in R, q # r
          PROVE  RowBefore(q, r) \/ RowBefore(r, q)
      <3>1. /\ q[1] \in Nat /\ q[2] \in Nat /\ r[1] \in Nat /\ r[2] \in Nat
            /\ q = <<q[1], q[2]>> /\ r = <<r[1], r[2]>>
        BY <1>3
      <3>2. q[1] # r[1] \/ q[2] # r[2]
        BY <2>1, <3>1
      <3>3. QED
        BY <3>1, <3>2 DEF RowBefore
    <2>2. QED
      BY <2>1
  <1>5. \A q, r, x \in R : RowBefore(x, q) /\ RowBefore(q, r) => RowBefore(x, r)
    BY <1>3 DEF RowBefore
  <1>6. \A r \in R : ~RowBefore(r, r)
    BY <1>3 DEF RowBefore
  <1>7. \A r \in R : /\ IsFiniteSet(Before(r)) /\ Cardinality(Before(r)) \in Nat
                     /\ Cardinality(Before(r)) < n
    <2>1. ASSUME NEW r \in R
          PROVE  /\ IsFiniteSet(Before(r)) /\ Cardinality(Before(r)) \in Nat
                 /\ Cardinality(Before(r)) < n
      <3>1. Before(r) \in SUBSET R /\ r \notin Before(r)
        BY <1>6
      <3>2. /\ IsFiniteSet(Before(r)) /\ Cardinality(Before(r)) <= n
            /\ Cardinality(Before(r)) # n
        BY <1>2, <3>1, FS_Subset
      <3>3. Cardinality(Before(r)) \in Nat
        BY <3>2, FS_CardinalityType
      <3>4. QED
        BY <1>2, <3>2, <3>3
    <2>2. QED
      BY <2>1
  <1>8. ASSUME NEW q \in R, NEW r \in R, RowBefore(q, r)
        PROVE  Cardinality(Before(q)) # Cardinality(Before(r))
    <2>1. Before(q) \in SUBSET Before(r)
      BY <1>5, <1>8
    <2>2. q \in Before(r) /\ q \notin Before(q)
      BY <1>6, <1>8
    <2>3. IsFiniteSet(Before(r)) /\ Before(q) # Before(r)
      BY <1>7, <2>2
    <2> HIDE DEF Before
    <2>4. QED
      BY <2>1, <2>3, FS_Subset
  <1>9. \A q, r \in R : Cardinality(Before(q)) = Cardinality(Before(r)) => q = r
    BY <1>4, <1>8
  <1>10. \A k \in 0..(n - 1) : \E r \in R : Cardinality(Before(r)) = k
    <2> HIDE DEF Before
    <2>1. rank \in [R -> 0..(n - 1)]
      <3>1. \A r \in R : Cardinality(Before(r)) \in 0..(n - 1)
        BY <1>2, <1>7
      <3>2. QED
        BY <3>1
    <2>2. \A x, y \in R : rank[x] = rank[y] => x = y
      BY <1>9
    <2>3. rank \in Injection(R, 0..(n - 1))
      BY <2>1, <2>2 DEF Injection, IsInjective
    <2>4. IsFiniteSet(0..(n - 1)) /\ Cardinality(0..(n - 1)) = n
      <3>1. 0 \in Int /\ n - 1 \in Int
        BY <1>2
      <3>2. /\ IsFiniteSet(0..(n - 1))
            /\ Cardinality(0..(n - 1)) = IF 0 > n - 1 THEN 0 ELSE (n - 1) - 0 + 1
        BY <3>1, FS_Interval
      <3>3. QED
        BY <1>2, <3>2
    <2>5. rank \in Surjection(R, 0..(n - 1))
      <3>1. Cardinality(R) = Cardinality(0..(n - 1))
        BY <2>4
      <3>2. QED
        BY <2>3, <2>4, <3>1, FS_Injection
    <2>6. QED
      BY <2>5 DEF Surjection
  <1>11. \A i : InitialRow(i) = CHOOSE r \in R : Cardinality(Before(r)) = i - 1
    BY DEF InitialRow, R
  <1> HIDE DEF Before
  <1>12. \A i \in 1..n : /\ InitialRow(i) \in R
                         /\ Cardinality(Before(InitialRow(i))) = i - 1
    <2>1. ASSUME NEW i \in 1..n
          PROVE  /\ InitialRow(i) \in R
                 /\ Cardinality(Before(InitialRow(i))) = i - 1
      <3>1. i - 1 \in 0..(n - 1)
        BY <1>2
      <3>2. \E r \in R : Cardinality(Before(r)) = i - 1
        BY <1>10, <3>1
      <3>3. QED
        BY <1>11, <3>2
    <2>2. QED
      BY <2>1
  <1>13. \A i, j \in 1..n : InitialRow(i) = InitialRow(j) => i = j
    <2>1. ASSUME NEW i \in 1..n, NEW j \in 1..n, InitialRow(i) = InitialRow(j)
          PROVE  i = j
      <3>1. i - 1 = j - 1
        BY <1>12, <2>1
      <3>2. QED
        BY <1>2, <3>1
    <2>2. QED
      BY <2>1
  <1>14. ASSUME NEW r \in R
         PROVE  \E i \in 1..n : InitialRow(i) = r
    <2>1. PICK k : k = Cardinality(Before(r))
      OBVIOUS
    <2>2. k \in Nat /\ k < n
      BY <1>7, <2>1
    <2>3. k + 1 \in 1..n /\ (k + 1) - 1 = k
      BY <1>2, <2>2
    <2>4. InitialRow(k + 1) = r
      BY <1>9, <1>12, <2>1, <2>3
    <2>5. QED
      BY <2>3, <2>4
  <1>15. QED
    BY <1>2, <1>12, <1>13, <1>14 DEF R

\* The units of an initial stage, one a source or one.
LEMMA InitialUnits ==
    ASSUME Init
    PROVE  /\ DOMAIN units = 1..Cardinality(InitialRows)
           /\ \A i \in DOMAIN units :
                 units[i] = [stage |-> InitialRow(i)[1], source |-> InitialRow(i)[2],
                             inputs |-> {}, shard |-> NoShard, level |-> -1,
                             ord |-> -1, root |-> FALSE, state |-> "pending",
                             gen |-> 0, error |-> "", out |-> NoPayload]
           /\ \A i \in DOMAIN units :
                 /\ units[i].stage = InitialRow(i)[1]
                 /\ units[i].source = InitialRow(i)[2]
                 /\ units[i].inputs = {} /\ units[i].state = "pending"
                 /\ units[i].gen = 0
  <1>1. Cardinality(InitialRows) \in Nat
    BY RowRanks DEF Init
  <1>2. PICK n \in Nat : n = Cardinality(InitialRows)
    BY <1>1
  <1>3. units = [i \in 1..n |->
          [stage |-> InitialRow(i)[1], source |-> InitialRow(i)[2],
           inputs |-> {}, shard |-> NoShard, level |-> -1, ord |-> -1,
           root |-> FALSE, state |-> "pending", gen |-> 0, error |-> "",
           out |-> NoPayload]]
    BY <1>2 DEF Init
  <1>4. DOMAIN units = 1..n
    BY <1>3
  <1>5. QED
    BY <1>2, <1>3, <1>4

LEMMA CursorTypes ==
    ASSUME NEW p, NEW done \in BOOLEAN, NEW count \in Nat,
           NEW none \in Attentions, NEW minus \in {-1} \cup Nat,
           0 \in 0..p.sources
    PROVE  [completed |-> done, source |-> 0, position |-> 0, parent |-> 0,
            entry |-> 0, level |-> 0, ord |-> minus, waiting |-> FALSE,
            attention |-> none, count |-> count] \in CursorRow(p)
  BY DEF CursorRow

LEMMA UnitTypes ==
    ASSUME NEW p, NEW a \in DOMAIN p.mode, NEW b \in 0..p.sources,
           NEW shard \in ShardKinds \X Nat \X Nat \X Names,
           NEW minus \in Int, NEW state \in UnitStates,
           NEW error \in Errors(p), NEW out \in Payload
    PROVE  [stage |-> a, source |-> b, inputs |-> {}, shard |-> shard,
            level |-> minus, ord |-> minus, root |-> FALSE, state |-> state,
            gen |-> 0, error |-> error, out |-> out] \in UnitRow(p)
  BY DEF UnitRow

\* The admitted rows and cursors are typed,
LEMMA InitTypes ==
    ASSUME Init
    PROVE  Types
  <1>0. plan \in Plans
    BY DEF Init
  <1>1. /\ Sources \in Nat /\ plan.decisions \in Nat
        /\ Mode \in [Stages -> {"singleton", "per_source",
                                "per_dependency", "entries", "reduction"}]
    BY <1>0, AdmittedPlan
  <1>2. ASSUME NEW i \in DOMAIN units
        PROVE  units[i] \in UnitRow(plan)
    <2>1. InitialRow(i) \in InitialRows
      BY <1>0, InitialUnits, RowRanks
    <2>2. PICK a : a = InitialRow(i)[1]
      OBVIOUS
    <2>3. PICK b : b = InitialRow(i)[2]
      OBVIOUS
    <2>4. a \in DOMAIN plan.mode /\ b \in 0..plan.sources
      BY <2>1, <2>2, <2>3 DEF InitialRows, Stages, Sources
    <2>5. PICK shard : shard = NoShard
      OBVIOUS
    <2>6. shard \in ShardKinds \X Nat \X Nat \X Names
      BY <2>5, ShardTypes DEF ShardSet
    <2>7. PICK minus : minus = -1 /\ minus \in Int
      OBVIOUS
    <2>8. PICK out : out = NoPayload /\ out \in Payload
      <3>1. NoPayload \in Payload
        BY DEF NoPayload, Payload
      <3>2. QED
        BY <3>1
    <2>9. PICK state : state = "pending" /\ state \in UnitStates
      BY DEF UnitStates
    <2>10. PICK error : error = "" /\ error \in Errors(plan)
      BY DEF Errors
    <2>11. units[i] = [stage |-> a, source |-> b, inputs |-> {}, shard |-> shard,
                       level |-> minus, ord |-> minus, root |-> FALSE,
                       state |-> state, gen |-> 0, error |-> error, out |-> out]
      BY <2>2, <2>3, <2>5, <2>7, <2>8, <2>9, <2>10, InitialUnits
    <2>12. /\ minus \in Int /\ out \in Payload /\ state \in UnitStates
           /\ error \in Errors(plan)
      BY <2>7, <2>8, <2>9, <2>10
    <2>13. QED
      BY <2>4, <2>6, <2>11, <2>12, UnitTypes
  <1>3. units \in Seq(UnitRow(plan))
    <2>1. PICK n \in Nat : DOMAIN units = 1..n
      BY <1>0, InitialUnits, RowRanks
    <2>2. PICK S : S = UnitRow(plan)
      OBVIOUS
    <2>3. units = [i \in 1..n |-> units[i]]
      <3>1. units = [i \in DOMAIN units |-> units[i]]
        BY DEF Init
      <3>2. QED
        BY <2>1, <3>1
    <2>4. \A i \in 1..n : units[i] \in S
      BY <1>2, <2>1, <2>2
    <2>5. units \in [1..n -> S]
      BY <2>3, <2>4
    <2>6. units \in Seq(S)
      BY <2>5
    <2>7. QED
      BY <2>2, <2>6
  <1>4. ASSUME NEW s \in Stages
        PROVE  cursor[s] \in CursorRow(plan)
    <2>1. PICK count : count = IF Initial(s)
                               THEN IF Mode[s] = "per_source" THEN Sources ELSE 1
                               ELSE 0
      OBVIOUS
    <2>2. count \in Nat
      BY <1>1, <2>1
    <2>3. PICK done : done = Initial(s) /\ done \in BOOLEAN
      BY DEF Initial
    <2>4. PICK none : none = "" /\ none \in Attentions
      BY DEF Attentions
    <2>5. PICK minus : minus = -1 /\ minus \in {-1} \cup Nat
      OBVIOUS
    <2>6. 0 \in 0..plan.sources
      BY <1>1 DEF Sources
    <2>7. cursor[s] = [completed |-> done, source |-> 0, position |-> 0,
                       parent |-> 0, entry |-> 0, level |-> 0, ord |-> minus,
                       waiting |-> FALSE, attention |-> none, count |-> count]
      BY <2>1, <2>3, <2>4, <2>5 DEF Init
    <2>8. done \in BOOLEAN /\ none \in Attentions /\ minus \in {-1} \cup Nat
      BY <2>3, <2>4, <2>5
    <2>9. QED
      BY <2>2, <2>6, <2>7, <2>8, CursorTypes
  <1>5. cursor \in [Stages -> CursorRow(plan)]
    <2>1. cursor = [s \in Stages |-> cursor[s]]
      BY DEF Init
    <2>2. QED
      BY <1>4, <2>1
  <1>6. generation \in 0..plan.decisions
    <2>1. generation = 0
      BY DEF Init
    <2>2. QED
      BY <1>1, <2>1
  <1>7. workload \in WorkloadStates /\ replayed \in BOOLEAN
    BY DEF Init, WorkloadStates
  <1>8. QED
    BY <1>0, <1>3, <1>5, <1>6, <1>7 DEF Types

\* counted,
LEMMA InitCounts ==
    ASSUME Init, NEW s \in Stages
    PROVE  /\ ~Initial(s) => UnitsOf(s) = {}
           /\ cursor[s].count = UnitCount(s)
  <1>0. plan \in Plans
    BY DEF Init
  <1>1. Sources \in Nat
    BY <1>0, AdmittedPlan
  <1>2. /\ \A i \in DOMAIN units : InitialRow(i) \in InitialRows
        /\ \A i, j \in DOMAIN units : InitialRow(i) = InitialRow(j) => i = j
        /\ \A r \in InitialRows : \E i \in DOMAIN units : InitialRow(i) = r
        /\ \A i \in DOMAIN units : /\ units[i].stage = InitialRow(i)[1]
                                   /\ units[i].source = InitialRow(i)[2]
    BY <1>0, RowRanks, InitialUnits
  <1>3. cursor[s].count = IF Initial(s)
                          THEN IF Mode[s] = "per_source" THEN Sources ELSE 1
                          ELSE 0
    BY DEF Init
  <1>4. CASE ~Initial(s)
    <2>1. UnitsOf(s) = {}
      BY <1>2, <1>4 DEF UnitsOf, InitialRows
    <2>2. QED
      BY <1>3, <1>4, <2>1, FS_EmptySet DEF UnitCount
  <1>5. CASE Initial(s)
    <2> DEFINE K == IF Mode[s] = "per_source" THEN 1..Sources ELSE {0}
               f == [v \in UnitsOf(s) |-> units[v].source]
    <2>1. \A k : <<s, k>> \in InitialRows <=> k \in K
      BY <1>1, <1>5 DEF InitialRows
    <2>2. \A r \in InitialRows : r = <<r[1], r[2]>>
      BY DEF InitialRows
    <2> HIDE DEF K
    <2>3. ASSUME NEW v \in UnitsOf(s)
          PROVE  /\ v \in DOMAIN units /\ InitialRow(v) = <<s, units[v].source>>
                 /\ units[v].source \in K
      <3>1. v \in DOMAIN units /\ units[v].stage = s
        BY DEF UnitsOf
      <3>2. InitialRow(v) \in InitialRows /\ InitialRow(v)[1] = s
            /\ InitialRow(v)[2] = units[v].source
        BY <1>2, <3>1
      <3>3. InitialRow(v) = <<s, units[v].source>>
        BY <2>2, <3>2
      <3>4. QED
        BY <2>1, <3>1, <3>2, <3>3
    <2>4. f \in [UnitsOf(s) -> K]
      BY <2>3
    <2>5. \A v, w \in UnitsOf(s) : f[v] = f[w] => v = w
      BY <1>2, <2>3
    <2>6. ASSUME NEW k \in K
          PROVE  \E v \in UnitsOf(s) : f[v] = k
      <3>1. <<s, k>> \in InitialRows
        BY <2>1
      <3>2. PICK i \in DOMAIN units : InitialRow(i) = <<s, k>>
        BY <1>2, <3>1
      <3>3. units[i].stage = s /\ units[i].source = k
        BY <1>2, <3>2
      <3>4. i \in UnitsOf(s)
        BY <3>3 DEF UnitsOf
      <3>5. QED
        BY <3>3, <3>4
    <2>7. IsFiniteSet(K) /\ Cardinality(K) = cursor[s].count
      <3>1. CASE Mode[s] = "per_source"
        <4>1. 1 \in Int /\ Sources \in Int
          BY <1>1
        <4>2. /\ IsFiniteSet(1..Sources)
              /\ Cardinality(1..Sources) = IF 1 > Sources THEN 0 ELSE Sources - 1 + 1
          BY <4>1, FS_Interval
        <4>3. QED
          BY <1>1, <1>3, <1>5, <3>1, <4>2 DEF K
      <3>2. CASE Mode[s] # "per_source"
        BY <1>3, <1>5, <3>2, FS_Singleton DEF K
      <3>3. QED
        BY <3>1, <3>2
    <2> HIDE DEF f
    <2>8. Cardinality(UnitsOf(s)) = Cardinality(K)
      BY <2>4, <2>5, <2>6, <2>7, SameSize
    <2>9. QED
      BY <1>5, <2>7, <2>8 DEF UnitCount
  <1>6. QED
    BY <1>4, <1>5

\* A stage that is not initial has not begun.
LEMMA InitUntouched ==
    ASSUME Init, NEW s \in Stages, ~Initial(s)
    PROVE  Untouched(s)
  <1>1. UnitsOf(s) = {}
    BY InitCounts
  <1>2. cursor[s] = FreshCursor
    <2>1. Initial(s) = FALSE
      BY DEF Initial
    <2>2. cursor[s] = [completed |-> Initial(s), source |-> 0, position |-> 0,
                       parent |-> 0, entry |-> 0, level |-> 0, ord |-> -1,
                       waiting |-> FALSE, attention |-> "", count |-> 0]
      BY DEF Init
    <2>3. QED
      BY <2>1, <2>2 DEF FreshCursor
  <1>3. QED
    BY <1>1, <1>2 DEF Untouched

\* and in order.
LEMMA InitIInv ==
    ASSUME Init
    PROVE  IInv
  <1>1. Types
    BY InitTypes
  <1>2. ASSUME NEW s \in Stages, ~Initial(s) PROVE Untouched(s)
    BY <1>2, InitUntouched
  <1>3. Ordered
    <2>1. ASSUME NEW s \in Stages, Initial(s)
          PROVE  cursor[s].completed /\ ParentsEnded(s)
      <3>1. cursor[s].completed = Initial(s)
        BY DEF Init
      <3>2. QED
        BY <2>1, <3>1 DEF ParentsEnded, Initial
    <2>2. QED
      BY <1>2, <2>1 DEF Ordered
  <1>4. Placed
    <2>1. \A u \in DOMAIN units : units[u].inputs = {} /\ units[u].gen <= generation
      <3>1. generation = 0
        BY DEF Init
      <3>2. \A u \in DOMAIN units : units[u].inputs = {} /\ units[u].gen = 0
        BY InitialUnits
      <3>3. QED
        BY <3>1, <3>2
    <2>2. \A s \in Stages : cursor[s].parent = 0
      BY DEF Init
    <2>3. 0 <= Len(units)
      BY <1>1, RowFacts
    <2>4. \A s \in Stages : cursor[s].count = UnitCount(s)
      BY InitCounts
    <2>5. QED
      BY <2>1, <2>2, <2>3, <2>4 DEF Placed
  <1>5. Fed
    <2>1. \A u \in DOMAIN units : units[u].inputs = {} /\ units[u].state = "pending"
      BY InitialUnits
    <2>2. QED
      BY <2>1 DEF Fed
  <1>6. StagesOK
    <2>1. ASSUME NEW s \in Stages PROVE StageOK(s)
      <3>1. CASE Initial(s)
        BY <3>1 DEF StageOK
      <3>2. CASE ~Initial(s)
        BY <1>1, <1>2, <3>2, UntouchedOK
      <3>3. QED
        BY <3>1, <3>2
    <2>2. QED
      BY <2>1 DEF StagesOK
  <1>7. ~replayed
    BY DEF Init
  <1>8. QED
    BY <1>1, <1>3, <1>4, <1>5, <1>6, <1>7 DEF IInv

-----------------------------------------------------------------------------
(* What the invariant says.                                                *)

\* The cursor of every stage stands for exactly the units that the stage has,
\* whatever steps of the service, the workers and the owner come before.
THEOREM InductiveInvariant == Spec => []IInv
  <1>1. Init => IInv
    BY InitIInv
  <1>2. IInv /\ [Next]_vars => IInv'
    BY IInvNext
  <1>3. QED
    BY <1>1, <1>2, PTL DEF Spec

\* The parts of CandidatesOnce follow.
LEMMA IInvTypeOK ==
    ASSUME IInv
    PROVE  TypeOK
  <1>0. Types /\ Placed
    BY DEF IInv
  <1>1. generation \in Nat
    BY <1>0, PlanFacts DEF Types
  <1>2. ASSUME NEW u \in DOMAIN units
        PROVE  /\ units[u].stage \in Stages
               /\ units[u].source \in 0..Sources
               /\ \A i \in units[u].inputs : i \in 1..(u - 1)
               /\ units[u].state \in Open \cup {"needs_attention", "committed",
                      "failed_permanent", "skipped", "cancelled"}
               /\ units[u].gen \in 0..generation
    <2>1. units[u] \in UnitRow(plan)
      BY <1>0, RowFacts
    <2>2. units[u].gen \in Nat /\ units[u].gen <= generation
      BY <1>0, <2>1 DEF Placed, UnitRow
    <2>3. units[u].state \in UnitStates
      BY <2>1 DEF UnitRow
    <2>4. units[u].stage \in Stages /\ units[u].source \in 0..Sources
      BY <2>1 DEF UnitRow, Stages, Sources
    <2>5. QED
      BY <1>0, <1>1, <2>2, <2>3, <2>4 DEF Placed, UnitStates, Open
  <1>3. ASSUME NEW s \in Stages
        PROVE  /\ cursor[s].completed \in BOOLEAN
               /\ cursor[s].waiting \in BOOLEAN
               /\ cursor[s].source \in 0..Sources
               /\ cursor[s].position \in {0} \cup Stages
               /\ cursor[s].parent \in 0..Len(units)
               /\ cursor[s].count = UnitCount(s)
    <2>1. cursor[s] \in CursorRow(plan) /\ Len(units) \in Nat
      BY <1>0, RowFacts
    <2>2. cursor[s].completed \in BOOLEAN
      BY <2>1 DEF CursorRow
    <2>3. cursor[s].waiting \in BOOLEAN
      BY <2>1 DEF CursorRow
    <2>4. /\ cursor[s].source \in 0..Sources
          /\ cursor[s].position \in {0} \cup Stages
          /\ cursor[s].parent \in Nat
      BY <2>1 DEF CursorRow, Sources, Stages
    <2>5. cursor[s].parent <= Len(units) /\ cursor[s].count = UnitCount(s)
      BY <1>0 DEF Placed
    <2>6. cursor[s].parent \in 0..Len(units)
      BY <2>1, <2>4, <2>5
    <2>7. QED
      BY <2>2, <2>3, <2>4, <2>5, <2>6
  <1>4. QED
    BY <1>0, <1>2, <1>3 DEF TypeOK, Types, WorkloadStates

\* A set with one member.
LEMMA OneOf ==
    ASSUME NEW S, NEW x \in S, \A y \in S : y = x
    PROVE  Cardinality(S) = 1
  <1>1. S = {x}
    OBVIOUS
  <1>2. QED
    BY <1>1, FS_Singleton

\* A source has one unit.
LEMMA SourcesOnce ==
    ASSUME NEW s \in Stages, SourcesOK(s), cursor[s].completed,
           NEW k \in 1..Sources
    PROVE  Cardinality({v \in UnitsOf(s) : units[v].source = k}) = 1
  <1>1. cursor[s].source = Sources
    BY DEF SourcesOK
  <1>2. PICK v \in UnitsOf(s) : units[v].source = k
    BY <1>1 DEF SourcesOK
  <1>3. \A w \in UnitsOf(s) : units[w].source = k => w = v
    BY <1>2 DEF SourcesOK
  <1>4. QED
    BY <1>2, <1>3, OneOf

LEMMA ParentNumbers ==
    ASSUME Types, NEW s \in Stages
    PROVE  /\ \A u \in Parents(s) : u \in Nat
           /\ IsFiniteSet(Parents(s))
  <1>1. Parents(s) \in SUBSET (DOMAIN units)
    BY ParentFacts
  <1>2. QED
    BY <1>1, RowFacts, UnitCounts, FS_Subset

\* A parent has one unit.
LEMMA ParentsOnce ==
    ASSUME Types, NEW s \in Stages, DependenciesOK(s), cursor[s].completed
    PROVE  /\ UnitCount(s) = Cardinality(Parents(s))
           /\ \A u \in Parents(s) : units[u].state = "committed" =>
                 Cardinality({v \in UnitsOf(s) : units[v].inputs = {u}}) = 1
  <1>1. /\ DependencyRows(s) /\ DependenciesServed(s) /\ DependenciesOnce(s)
        /\ AllPassed(s)
    BY DEF DependenciesOK
  <1>2. ASSUME NEW v \in UnitsOf(s)
        PROVE  /\ units[v].shard[2] \in Parents(s)
               /\ Reports(v, units[v].shard[2]) \/ Uses(v, units[v].shard[2])
    <2>1. PICK u \in Parents(s) : Reports(v, u) \/ Uses(v, u)
      BY <1>1 DEF DependencyRows
    <2>2. u \in Nat
      BY ParentNumbers
    <2>3. units[v].shard[2] = u
      BY <2>1, <2>2, ShardParts DEF Reports, Uses
    <2>4. QED
      BY <2>1, <2>3
  <1>3. \A u \in Parents(s) : \E v \in UnitsOf(s) : units[v].shard[2] = u
    BY <1>1 DEF DependenciesServed, AllPassed
  <1>4. \A v, w \in UnitsOf(s) : units[v].shard[2] = units[w].shard[2] => v = w
    BY <1>1 DEF DependenciesOnce
  <1>5. UnitCount(s) = Cardinality(Parents(s))
    <2> DEFINE f == [v \in UnitsOf(s) |-> units[v].shard[2]]
    <2>1. f \in [UnitsOf(s) -> Parents(s)]
      BY <1>2
    <2>2. \A v, w \in UnitsOf(s) : f[v] = f[w] => v = w
      BY <1>4
    <2>3. \A u \in Parents(s) : \E v \in UnitsOf(s) : f[v] = u
      BY <1>3
    <2> HIDE DEF f
    <2>4. IsFiniteSet(Parents(s))
      BY ParentNumbers
    <2>5. QED
      BY <2>1, <2>2, <2>3, <2>4, SameSize DEF UnitCount
  <1>6. ASSUME NEW u \in Parents(s), units[u].state = "committed"
        PROVE  Cardinality({v \in UnitsOf(s) : units[v].inputs = {u}}) = 1
    <2>1. PICK v \in UnitsOf(s) : units[v].shard[2] = u
      BY <1>3
    <2>2. units[v].inputs = {u}
      BY <1>2, <1>6, <2>1 DEF Reports, Uses
    <2>3. ASSUME NEW w \in UnitsOf(s), units[w].inputs = {u}
          PROVE  w = v
      <3>1. PICK x : x = units[w].shard[2] /\ (Reports(w, x) \/ Uses(w, x))
        BY <1>2
      <3>2. units[w].inputs = {x}
        BY <2>3, <3>1 DEF Reports, Uses
      <3>3. x = u
        BY <2>3, <3>2
      <3>4. QED
        BY <1>4, <2>1, <3>1, <3>3
    <2>4. QED
      BY <2>2, <2>3, OneOf
  <1>7. QED
    BY <1>5, <1>6

\* A parent has a unit for each of its entries.
LEMMA EntriesCounted ==
    ASSUME Types, NEW s \in Stages, EntriesOK(s), cursor[s].completed,
           NEW u \in Parents(s), units[u].state = "committed"
    PROVE  LET users == {v \in UnitsOf(s) : units[v].inputs = {u}}
               ids == units[u].out.ids
           IN  /\ Cardinality(users) = Len(ids)
               /\ \A e \in DOMAIN ids : \E v \in users : units[v].shard[4] = ids[e]
  <1>a. PICK ids : ids = units[u].out.ids
    OBVIOUS
  <1>b. PICK users : users = {v \in UnitsOf(s) : units[v].inputs = {u}}
    OBVIOUS
  <1>0. /\ EntryCursor(s) /\ EntryRows(s) /\ EntriesServed(s)
        /\ EntriesOnce(s) /\ EntriesDistinct(s) /\ AllPassed(s)
    BY DEF EntriesOK
  <1>1. ids \in Seq(STRING) /\ Len(ids) \in Nat /\ DOMAIN ids = 1..Len(ids)
    <2>1. u \in DOMAIN units
      BY ParentFacts
    <2>2. units[u].out \in Payload
      BY <2>1, RowFacts DEF UnitRow
    <2>3. ids \in Seq(STRING)
      BY <1>a, <2>2 DEF Payload
    <2>4. QED
      BY <2>3
  <1>2. Done(s, u) = Len(ids)
    <2>1. ~InEntries(s)
      BY <1>0 DEF EntryCursor
    <2>2. QED
      BY <1>0, <1>a, <2>1 DEF Done, AllPassed
  <1> DEFINE K == 1..Len(ids)
             g == [v \in users |-> CHOOSE e \in K : Takes(v, u, e)]
  <1>3. ASSUME NEW v \in users
        PROVE  \E e \in K : Takes(v, u, e)
    <2>1. v \in UnitsOf(s) /\ units[v].inputs = {u}
      BY <1>b
    <2>2. PICK x \in Parents(s) :
             \/ Reports(v, x)
             \/ \E e \in 1..Done(s, x) : Takes(v, x, e)
      BY <1>0, <2>1 DEF EntryRows
    <2>3. ~Reports(v, x)
      BY <2>1 DEF Reports
    <2>4. PICK e \in 1..Done(s, x) : Takes(v, x, e)
      BY <2>2, <2>3
    <2>5. units[v].inputs = {x}
      BY <2>4 DEF Takes
    <2>6. x = u
      BY <2>1, <2>5
    <2>7. QED
      BY <1>2, <2>4, <2>6
  <1>4. \A v \in users : g[v] \in K /\ Takes(v, u, g[v])
    BY <1>3
  <1>5. \A v, e : Takes(v, u, e) => units[v].shard[4] = ids[e]
    BY <1>a, ShardNames DEF Takes
  <1> HIDE DEF g
  <1>6. g \in [users -> K]
    <2>1. g = [v \in users |-> g[v]]
      BY DEF g
    <2>2. QED
      BY <1>4, <2>1
  <1>7. \A v, w \in users : g[v] = g[w] => v = w
    <2>1. ASSUME NEW v \in users, NEW w \in users, g[v] = g[w]
          PROVE  v = w
      <3>1. /\ v \in UnitsOf(s) /\ w \in UnitsOf(s)
            /\ units[v].inputs = {u} /\ units[w].inputs = {u}
        BY <1>b
      <3>2. units[v].shard[4] = units[w].shard[4]
        BY <1>4, <1>5, <2>1
      <3>3. units[v].inputs # {}
        BY <3>1
      <3>4. QED
        BY <1>0, <3>1, <3>2, <3>3 DEF EntriesOnce
    <2>2. QED
      BY <2>1
  <1>8. ASSUME NEW e \in K
        PROVE  \E v \in users : g[v] = e /\ units[v].shard[4] = ids[e]
    <2>1. PICK v \in UnitsOf(s) : Takes(v, u, e)
      BY <1>0, <1>2 DEF EntriesServed
    <2>2. v \in users
      BY <1>b, <2>1 DEF Takes
    <2>3. g[v] \in K /\ ids[g[v]] = ids[e] /\ units[v].shard[4] = ids[e]
      BY <1>4, <1>5, <2>1, <2>2
    <2>4. g[v] = e
      BY <1>0, <1>2, <1>a, <2>3 DEF EntriesDistinct
    <2>5. QED
      BY <2>2, <2>3, <2>4
  <1>9. IsFiniteSet(K) /\ Cardinality(K) = Len(ids)
    <2>1. 1 \in Int /\ Len(ids) \in Int
      BY <1>1
    <2>2. /\ IsFiniteSet(1..Len(ids))
          /\ Cardinality(1..Len(ids)) = IF 1 > Len(ids) THEN 0 ELSE Len(ids) - 1 + 1
      BY <2>1, FS_Interval
    <2>3. QED
      BY <1>1, <2>2
  <1>10. Cardinality(users) = Cardinality(K)
    <2> HIDE DEF K
    <2>1. \A e \in K : \E v \in users : g[v] = e
      BY <1>8
    <2>2. QED
      BY <1>6, <1>7, <1>9, <2>1, SameSize
  <1>11. QED
    BY <1>1, <1>8, <1>9, <1>10, <1>a, <1>b

LEMMA IInvCandidates ==
    ASSUME IInv
    PROVE  EveryCandidateOnce
  <1> SUFFICES ASSUME NEW s \in Stages, ~Initial(s), cursor[s].completed,
                      cursor[s].attention = ""
               PROVE  LET parents == Parents(s)
                          UsersOf(u) == {v \in UnitsOf(s) : units[v].inputs = {u}}
                          committed == {u \in parents : units[u].state = "committed"}
                          Ids(u) == units[u].out.ids
                      IN  /\ Mode[s] = "per_source" =>
                                \A k \in 1..Sources :
                                    Cardinality({v \in UnitsOf(s) :
                                                    units[v].source = k}) = 1
                          /\ Mode[s] = "per_dependency" =>
                                /\ UnitCount(s) = Cardinality(parents)
                                /\ \A u \in committed : Cardinality(UsersOf(u)) = 1
                          /\ Mode[s] = "entries" =>
                                \A u \in committed :
                                    /\ Cardinality(UsersOf(u)) = Len(Ids(u))
                                    /\ \A e \in DOMAIN Ids(u) : \E v \in UsersOf(u) :
                                          units[v].shard[4] = Ids(u)[e]
    BY DEF EveryCandidateOnce, Parents
  <1>1. Types /\ StageOK(s)
    BY DEF IInv, StagesOK
  <1>2. CASE Mode[s] = "per_source"
    BY <1>1, <1>2, SourcesOnce DEF StageOK
  <1>3. CASE Mode[s] = "per_dependency"
    BY <1>1, <1>3, ParentsOnce DEF StageOK
  <1>4. CASE Mode[s] = "entries"
    BY <1>1, <1>4, EntriesCounted DEF StageOK
  <1>5. QED
    BY <1>2, <1>3, <1>4

LEMMA IInvLevels ==
    ASSUME IInv
    PROVE  LevelsPartitioned
  <1> SUFFICES ASSUME NEW s \in Stages, Mode[s] = "reduction",
                      cursor[s].attention = ""
               PROVE  /\ GroupsApart(s)
                      /\ \A l \in 0..cursor[s].level :
                            l < cursor[s].level \/ cursor[s].waiting =>
                                UNION {units[u].inputs : u \in Level(s, l)}
                                    = LevelInputs(s, l)
    BY DEF LevelsPartitioned, GroupsApart
  <1>1. Types /\ StageOK(s) /\ ~Initial(s)
    BY PlanFacts DEF IInv, StagesOK
  <1>2. ReductionOK(s)
    BY <1>1 DEF StageOK
  <1>3. ASSUME NEW l \in 0..cursor[s].level,
               l < cursor[s].level \/ cursor[s].waiting
        PROVE  UNION {units[u].inputs : u \in Level(s, l)} = LevelInputs(s, l)
    <2>1. Covered(s, l)
      BY <1>2, <1>3 DEF ReductionOK, LevelsCovered
    <2>2. \A u \in Level(s, l) : units[u].inputs \subseteq LevelInputs(s, l)
      BY <1>2 DEF ReductionOK, GroupRows, IsGroup, Level
    <2>3. QED
      BY <2>1, <2>2 DEF Covered
  <1>4. QED
    BY <1>2, <1>3 DEF ReductionOK

\* Every candidate of a stage becomes one unit, however batches are cut and
\* whatever the workers, the owner and the settlement do between them.
THEOREM EachCandidateBecomesOneUnit == Spec => []CandidatesOnce
  <1>1. IInv => CandidatesOnce
    BY IInvTypeOK, IInvCandidates, IInvLevels
       DEF CandidatesOnce, NeverReplayed, IInv
  <1>2. QED
    BY <1>1, InductiveInvariant, PTL

\* Once a stage has a unit, the stages it depends on expose the same units in
\* the same states for ever: no step of a worker, of the owner or of another
\* stage changes what its units were derived from.
THEOREM InputsStayFrozen == Spec => InputsFrozen
  <1> DEFINE A == \A s \in Stages : \A p \in DependsOn[s] :
                    UnitsOf(s) # {} =>
                        /\ Exposed(p)' = Exposed(p)
                        /\ \A u \in Exposed(p) : units'[u].state = units[u].state
  <1>1. ASSUME IInv, [Next]_vars PROVE A
    <2> SUFFICES ASSUME NEW s \in Stages, NEW p \in DependsOn[s], UnitsOf(s) # {}
                 PROVE  /\ Exposed(p)' = Exposed(p)
                        /\ \A u \in Exposed(p) : units'[u].state = units[u].state
      OBVIOUS
    <2>1. Types /\ Ordered
      BY <1>1 DEF IInv
    <2>2. Runs \/ (\E t \in Stages : Works(t))
      BY <1>1, StepCases DEF WorksOn
    <2>3. plan' = plan
      BY <2>2 DEF Runs, Works
    <2>4. ParentsEnded(s)
      BY <2>1 DEF Ordered, Untouched
    <2>5. Frozen(s)
      BY <2>1, <2>2, <2>4, ParentsFrozen
    <2>6. Exposed(p)' = Exposed(p)
      BY <2>1, <2>3, <2>5, FrozenParents
    <2>7. \A u \in Exposed(p) : u \in UnitsOf(p)
      BY DEF Exposed
    <2>8. QED
      BY <2>5, <2>6, <2>7 DEF Frozen
  <1>2. IInv /\ [Next]_vars => [A]_vars
    BY <1>1
  <1>3. QED
    BY <1>2, InductiveInvariant, PTL DEF Spec, InputsFrozen, A

-----------------------------------------------------------------------------
(* The arrays that reducers are given.                                     *)

\* Items depend on the payloads alone.
LEMMA SameItems ==
    ASSUME NEW us, NEW vs, NEW S, \A u \in S : vs[u].out = us[u].out
    PROVE  Items(vs, S) = Items(us, S)
  <1>1. Lengths(vs, S) = Lengths(us, S)
    BY DEF Lengths
  <1>2. QED
    BY <1>1, FoldsAreTotals

LEMMA NoItems ==
    ASSUME NEW us
    PROVE  Items(us, {}) = 0
  <1>1. Measured(us, {}) /\ Nonempty(us, {}) = {}
    BY FS_EmptySet DEF Measured, Nonempty
  <1>2. QED
    BY <1>1, ArraySizes

\* The array that joins the results of S fits.
Fits(us, S) ==
    Items(us, S) > 0 => 2 + Items(us, S) + (Items(us, S) - 1) <= ByteLimit

\* The groups that a step adds fit, and the results of others are final.
LEMMA FitsNext ==
    ASSUME IInv, GroupsFit, [Next]_vars
    PROVE  GroupsFit'
  <1>0. Types /\ Placed /\ Fed
    BY DEF IInv
  <1>1. Runs \/ (\E s \in Stages : WorksOn(s))
    BY StepCases
  <1>2. Runs \/ (\E s \in Stages : Works(s))
    BY <1>1 DEF WorksOn
  <1>3. plan' = plan /\ Mode' = Mode
    BY <1>2, SamePlan DEF Runs, Works
  <1> SUFFICES ASSUME NEW u \in DOMAIN units', Mode[units'[u].stage] = "reduction"
               PROVE  Fits(units', units'[u].inputs)
    BY <1>3 DEF GroupsFit, Fits
  <1>4. \A v \in DOMAIN units :
            units[v].state = "committed" => units'[v].out = units[v].out
    BY <1>0, <1>2, CommittedKept
  <1>5. CASE u \in DOMAIN units
    <2>1. units'[u].inputs = units[u].inputs /\ units'[u].stage = units[u].stage
      BY <1>0, <1>2, <1>5, CommittedKept
    <2>2. \A i \in units[u].inputs : i \in DOMAIN units /\ units[i].state = "committed"
      <3>1. u \in 1..Len(units) /\ Len(units) \in Nat /\ DOMAIN units = 1..Len(units)
        BY <1>0, <1>5, RowFacts
      <3>2. \A i \in 1..(u - 1) : i \in 1..Len(units)
        BY <3>1
      <3>3. \A i \in units[u].inputs : i \in 1..(u - 1)
        BY <1>0, <1>5 DEF Placed
      <3>4. \A i \in units[u].inputs : units[i].state = "committed"
        BY <1>0, <1>5 DEF Fed
      <3>5. QED
        BY <3>1, <3>2, <3>3, <3>4
    <2>3. Items(units', units[u].inputs) = Items(units, units[u].inputs)
      BY <1>4, <2>2, SameItems
    <2>4. Fits(units, units[u].inputs)
      BY <1>5, <2>1 DEF GroupsFit, Fits
    <2>5. QED
      BY <2>1, <2>3, <2>4 DEF Fits
  <1>6. CASE u \notin DOMAIN units
    <2>1. ~Runs
      BY <1>0, <1>6 DEF Runs, Types
    <2>2. PICK s \in Stages : WorksOn(s)
      BY <1>1, <2>1
    <2>3. Works(s) /\ Ready(s)
      BY <2>2 DEF WorksOn, Works
    <2>4. units'[u].stage \in Stages
      <3>1. Types'
        BY <1>0, <1>2, TypesKept
      <3>2. units'[u] \in UnitRow(plan)
        BY <1>3, <3>1 DEF Types
      <3>3. QED
        BY <3>2 DEF UnitRow, Stages
    <2>5. units'[u].stage = s
      <3>1. ASSUME units'[u].stage # s PROVE FALSE
        <4>1. PICK t \in Stages : t = units'[u].stage
          BY <2>4
        <4>2. UnitsOf(t)' = UnitsOf(t)
          BY <1>0, <2>3, <3>1, <4>1, WorksElsewhere
        <4>3. u \in UnitsOf(t)'
          BY <4>1 DEF UnitsOf
        <4>4. QED
          BY <1>6, <4>2, <4>3 DEF UnitsOf
      <3>2. QED
        BY <3>1
    <2>6. ReductionStep(s)
      BY <2>2, <2>5 DEF WorksOn
    <2>7. ASSUME NEW row, NEW c, Added(s, row, c), GoodRow(s, row)
          PROVE  units'[u] = row
      <3>1. row \in UnitRow(plan) /\ units' = Append(units, row)
        BY <2>7 DEF Added, GoodRow
      <3>2. u \in 1..(Len(units) + 1) /\ Len(units) \in Nat
            /\ DOMAIN units = 1..Len(units) /\ units'[Len(units) + 1] = row
        BY <1>0, <3>1, AppendFacts, RowFacts
      <3>3. u = Len(units) + 1
        BY <1>6, <3>2
      <3>4. QED
        BY <3>2, <3>3
    <2>8. CASE FailedStep(s)
      <3>1. PICK row, c : FailedRow(s, row) /\ Added(s, row, c)
        BY <2>8 DEF FailedStep
      <3>2. units'[u].inputs = {}
        BY <2>7, <3>1 DEF FailedRow
      <3>3. Items(units', {}) = 0
        BY NoItems
      <3>4. QED
        BY <3>2, <3>3 DEF Fits
    <2>9. CASE GroupStep(s)
      <3>1. PICK row, c : GroupRow(s, row) /\ Added(s, row, c)
        BY <2>9 DEF GroupStep
      <3>2. PICK group : group = row.inputs
        OBVIOUS
      <3>3. NextGroup(s, group) /\ GoodRow(s, row)
        BY <3>1, <3>2 DEF GroupRow
      <3>4. units'[u].inputs = group
        BY <2>7, <3>1, <3>2, <3>3
      <3>5. group \in SUBSET (DOMAIN units) /\ IsFiniteSet(group)
        BY <1>0, <3>3, GroupEnd
      <3>6. \A v \in group : units[v].state = "committed"
        BY <3>3 DEF NextGroup
      <3>7. Items(units', group) = Items(units, group)
        BY <1>4, <3>5, <3>6, SameItems
      <3>8. Measured(units, group)
        BY <1>0, <3>5, RowFacts DEF Measured, UnitRow
      <3>9. /\ Items(units, group) \in Nat
            /\ CombinedBytes(group) = IF Items(units, group) = 0 THEN 2
                                      ELSE 2 * Items(units, group) + 1
        BY <3>8, CombinedSize
      <3>10. CombinedBytes(group) <= ByteLimit
        BY <3>3 DEF NextGroup
      <3>11. Fits(units, group)
        <4>1. PICK k \in Nat : k = Items(units, group)
          BY <3>9
        <4>2. k > 0 => 2 * k + 1 <= ByteLimit
          BY <3>9, <3>10, <4>1
        <4>3. ByteLimit \in Nat
          BY LimitsAssumption
        <4>4. k > 0 => 2 + k + (k - 1) <= ByteLimit
          BY <4>2, <4>3
        <4>5. QED
          BY <4>1, <4>4 DEF Fits
      <3>12. QED
        BY <3>4, <3>7, <3>11 DEF Fits
    <2>10. CASE OverflowStep(s)
      BY <1>6, <2>10 DEF OverflowStep, Refused
    <2>11. CASE LevelEndStep(s) \/ NextLevelStep(s)
      BY <1>6, <2>11 DEF LevelEndStep, NextLevelStep
    <2>12. CASE RootStep(s)
      <3>1. PICK r \in UnitsOf(s) : units' = [units EXCEPT ![r].root = TRUE]
        BY <2>12 DEF RootStep, Level
      <3>2. DOMAIN units' = DOMAIN units
        BY <1>0, <3>1, RootFacts
      <3>3. QED
        BY <1>6, <3>2
    <2>13. QED
      BY <2>6, <2>8, <2>9, <2>10, <2>11, <2>12 DEF ReductionStep
  <1>7. QED
    BY <1>5, <1>6

LEMMA FitsInit ==
    ASSUME Init
    PROVE  GroupsFit
  <1>1. \A u \in DOMAIN units : units[u].inputs = {}
    BY InitialUnits
  <1>2. Items(units, {}) = 0
    BY NoItems
  <1>3. QED
    BY <1>1, <1>2 DEF GroupsFit

-----------------------------------------------------------------------------
(* The bound on the units of a reduction.                                  *)

\* The groups of a level with n inputs.
Half(n) == (Max({1, n}) + 1) \div 2

\* The rounding of Half.
LEMMA HalfFacts ==
    ASSUME NEW n \in Nat
    PROVE  /\ Half(n) \in Nat \ {0}
           /\ 2 * Half(n) >= n /\ (n >= 1 => 2 * Half(n) <= n + 1)
           /\ Half(n) = 1 <=> n <= 2
           /\ Half(n) # 1 => Half(n) < n
  <1>1. Max({1, n}) = IF n >= 1 THEN n ELSE 1
    <2> DEFINE S == {1, n}
               m == IF n >= 1 THEN n ELSE 1
    <2>1. m \in S /\ \A y \in S : m >= y
      OBVIOUS
    <2>2. \A x \in S : (\A y \in S : x >= y) => x = m
      OBVIOUS
    <2>3. Max(S) = CHOOSE x \in S : \A y \in S : x >= y
      BY DEF Max
    <2> HIDE DEF S, m
    <2>4. Max(S) = m
      BY <2>1, <2>2, <2>3
    <2>5. QED
      BY <2>4 DEF S, m
  <1>2. PICK m \in Nat : m = (IF n >= 1 THEN n ELSE 1) /\ Half(n) = (m + 1) \div 2
    BY <1>1 DEF Half
  <1>3. QED
    BY <1>2

LEMMA HalfGrows ==
    ASSUME NEW n \in Nat, NEW m \in Nat, m <= n
    PROVE  Half(m) <= Half(n)
  <1>1. PICK a \in Nat : a = Half(m)
    BY HalfFacts
  <1>2. PICK b \in Nat : b = Half(n)
    BY HalfFacts
  <1>3. /\ a >= 1 /\ b >= 1 /\ 2 * b >= n /\ (m >= 1 => 2 * a <= m + 1)
        /\ (a = 1 <=> m <= 2)
    <2>1. a >= 1 /\ (m >= 1 => 2 * a <= m + 1) /\ (a = 1 <=> m <= 2)
      <3>1. /\ Half(m) \in Nat \ {0}
            /\ m >= 1 => 2 * Half(m) <= m + 1
            /\ Half(m) = 1 <=> m <= 2
        BY HalfFacts
      <3>2. QED
        BY <1>1, <3>1
    <2>2. b >= 1 /\ 2 * b >= n
      <3>1. Half(n) \in Nat \ {0} /\ 2 * Half(n) >= n
        BY HalfFacts
      <3>2. QED
        BY <1>2, <3>1
    <2>3. QED
      BY <2>1, <2>2
  <1>4. a <= b
    BY <1>3
  <1>5. QED
    BY <1>1, <1>2, <1>4

\* One unfolding of the bound.
Unfold(f, n) == IF Half(n) = 1 THEN 1 ELSE Half(n) + f[Half(n)]

\* f is the bound up to n.
BoundTo(f, n) ==
    f \in [0..n -> Nat \ {0}] /\ \A m \in 0..n : f[m] = Unfold(f, m)

\* The recursion of NodeBound up to n has a solution,
LEMMA BoundsExist ==
    ASSUME NEW n \in Nat
    PROVE  \E f : BoundTo(f, n)
  <1> DEFINE Bad == {k \in Nat : ~\E f : BoundTo(f, k)}
  <1> SUFFICES ASSUME Bad # {} PROVE FALSE
    OBVIOUS
  <1>1. PICK k \in Bad : \A j \in Bad : k <= j
    <2>1. Bad \in SUBSET Nat
      OBVIOUS
    <2> HIDE DEF Bad
    <2>2. QED
      BY <2>1, LeastNat
  <1>2. k \in Nat /\ ~\E f : BoundTo(f, k)
    BY <1>1
  <1>3. PICK old : k > 0 => BoundTo(old, k - 1)
    <2>1. ASSUME k > 0 PROVE \E f : BoundTo(f, k - 1)
      <3>1. k - 1 \in Nat /\ ~(k <= k - 1)
        BY <1>2, <2>1
      <3>2. k - 1 \notin Bad
        BY <1>1, <3>1
      <3>3. QED
        BY <3>1, <3>2
    <2>2. QED
      BY <2>1
  <1> DEFINE new == [m \in 0..k |-> IF m = k THEN Unfold(old, k) ELSE old[m]]
  <1>4. ASSUME NEW m \in 0..k
        PROVE  /\ m \in Nat /\ Half(m) \in Nat \ {0}
               /\ Half(m) # 1 => Half(m) < m /\ k > 0
    <2>1. m \in Nat
      BY <1>2
    <2>2. QED
      BY <1>2, <1>4, <2>1, HalfFacts
  <1>5. ASSUME NEW m \in 0..k, m # k
        PROVE  k > 0 /\ m \in 0..(k - 1)
    BY <1>2, <1>5
  <1>6. Unfold(old, k) \in Nat \ {0}
    <2>1. CASE Half(k) = 1
      BY <2>1 DEF Unfold
    <2>2. CASE Half(k) # 1
      <3>1. k \in 0..k
        BY <1>2
      <3>2. Half(k) \in Nat \ {0} /\ Half(k) < k /\ k > 0
        BY <1>4, <2>2, <3>1
      <3>3. Half(k) \in 0..(k - 1) /\ BoundTo(old, k - 1)
        BY <1>2, <1>3, <3>2
      <3>4. old[Half(k)] \in Nat \ {0}
        BY <3>3 DEF BoundTo
      <3>5. QED
        BY <2>2, <3>2, <3>4 DEF Unfold
    <2>3. QED
      BY <2>1, <2>2
  <1>7. ASSUME NEW m \in 0..k PROVE new[m] \in Nat \ {0}
    <2>1. CASE m = k
      BY <1>6, <2>1
    <2>2. CASE m # k
      BY <1>3, <1>5, <2>2 DEF BoundTo
    <2>3. QED
      BY <2>1, <2>2
  <1>8. ASSUME NEW m \in 0..k PROVE new[m] = Unfold(new, m)
    <2>1. new[m] = Unfold(old, m)
      <3>1. CASE m = k
        BY <3>1
      <3>2. CASE m # k
        <4>1. BoundTo(old, k - 1) /\ m \in 0..(k - 1)
          BY <1>3, <1>5, <3>2
        <4>2. old[m] = Unfold(old, m)
          BY <4>1 DEF BoundTo
        <4>3. QED
          BY <3>2, <4>2
      <3>3. QED
        BY <3>1, <3>2
    <2>2. CASE Half(m) = 1
      BY <2>1, <2>2 DEF Unfold
    <2>3. CASE Half(m) # 1
      <3>1. PICK h : h = Half(m)
        OBVIOUS
      <3>2. h \in Nat /\ h < m /\ m \in Nat /\ m <= k
        BY <1>2, <1>4, <2>3, <3>1
      <3>3. h \in 0..k /\ h # k
        BY <1>2, <3>2
      <3>4. new[h] = old[h]
        BY <3>3
      <3> HIDE DEF new
      <3>5. QED
        BY <2>1, <2>3, <3>1, <3>4 DEF Unfold
    <2>4. QED
      BY <2>2, <2>3
  <1>9. new \in [0..k -> Nat \ {0}]
    <2>1. new = [m \in 0..k |-> new[m]]
      OBVIOUS
    <2> HIDE DEF new
    <2>2. QED
      BY <1>7, <2>1
  <1> HIDE DEF new
  <1>10. BoundTo(new, k)
    BY <1>8, <1>9 DEF BoundTo
  <1>11. QED
    BY <1>2, <1>10

\* and only one,
LEMMA BoundsAgree ==
    ASSUME NEW n \in Nat, NEW k \in Nat, NEW f, BoundTo(f, n),
           NEW g, BoundTo(g, k), NEW m \in Nat, m <= n, m <= k
    PROVE  f[m] = g[m]
  <1> DEFINE Bad == {j \in Nat : j <= n /\ j <= k /\ f[j] # g[j]}
  <1> SUFFICES ASSUME Bad # {} PROVE FALSE
    OBVIOUS
  <1>1. PICK j \in Bad : \A i \in Bad : j <= i
    <2>1. Bad \in SUBSET Nat
      OBVIOUS
    <2> HIDE DEF Bad
    <2>2. QED
      BY <2>1, LeastNat
  <1>2. j \in Nat /\ j <= n /\ j <= k /\ f[j] # g[j]
    BY <1>1
  <1>3. j \in 0..n /\ j \in 0..k
    BY <1>2
  <1>4. f[j] = Unfold(f, j) /\ g[j] = Unfold(g, j)
    BY <1>3 DEF BoundTo
  <1>5. PICK h : h = Half(j)
    OBVIOUS
  <1>6. h # 1 /\ f[h] # g[h]
    BY <1>2, <1>4, <1>5 DEF Unfold
  <1>7. h \in Nat /\ h < j
    BY <1>2, <1>5, <1>6, HalfFacts
  <1>8. h \in Bad
    BY <1>2, <1>6, <1>7
  <1>9. QED
    BY <1>1, <1>2, <1>7, <1>8

\* so NodeBound follows its definition,
LEMMA NodeBoundFacts ==
    /\ \A n \in Nat : NodeBound[n] \in Nat \ {0}
    /\ \A n \in Nat : NodeBound[n] = Unfold(NodeBound, n)
  <1> DEFINE F(n) == CHOOSE f : BoundTo(f, n)
             b == [n \in Nat |-> F(n)[n]]
             IsBound(f) == f = [n \in Nat |-> Unfold(f, n)]
  <1>1. \A n \in Nat : BoundTo(F(n), n)
    BY BoundsExist
  <1> HIDE DEF F
  <1>2. ASSUME NEW n \in Nat PROVE b[n] \in Nat \ {0} /\ b[n] = Unfold(b, n)
    <2>1. n \in 0..n /\ b[n] = F(n)[n]
      OBVIOUS
    <2>2. F(n)[n] \in Nat \ {0} /\ F(n)[n] = Unfold(F(n), n)
      BY <1>1, <2>1 DEF BoundTo
    <2>3. PICK h : h = Half(n)
      OBVIOUS
    <2>4. CASE h = 1
      BY <2>1, <2>2, <2>3, <2>4 DEF Unfold
    <2>5. CASE h # 1
      <3>1. h \in Nat /\ h < n
        BY <2>3, <2>5, HalfFacts
      <3>2. h <= n /\ h <= h
        BY <3>1
      <3>3. F(n)[h] = F(h)[h]
        BY <1>1, <3>1, <3>2, BoundsAgree
      <3>4. b[h] = F(h)[h]
        BY <3>1
      <3> HIDE DEF b
      <3>5. QED
        BY <2>1, <2>2, <2>3, <2>5, <3>3, <3>4 DEF Unfold
    <2>6. QED
      BY <2>4, <2>5
  <1>3. IsBound(b)
    <2>1. b = [n \in Nat |-> b[n]]
      OBVIOUS
    <2> HIDE DEF b
    <2>2. QED
      BY <1>2, <2>1
  <1>4. NodeBound = CHOOSE f : IsBound(f)
    BY DEF NodeBound, Unfold, Half
  <1> HIDE DEF IsBound, b
  <1>5. IsBound(NodeBound)
    BY <1>3, <1>4
  <1>6. \A n \in Nat : NodeBound[n] = Unfold(NodeBound, n)
    BY <1>5 DEF IsBound
  <1>7. ASSUME NEW n \in Nat PROVE NodeBound[n] \in Nat \ {0}
    <2> DEFINE Bad == {k \in Nat : NodeBound[k] \notin Nat \ {0}}
    <2> SUFFICES ASSUME Bad # {} PROVE FALSE
      OBVIOUS
    <2>1. PICK k \in Bad : \A i \in Bad : k <= i
      <3>1. Bad \in SUBSET Nat
        OBVIOUS
      <3> HIDE DEF Bad
      <3>2. QED
        BY <3>1, LeastNat
    <2>2. k \in Nat /\ NodeBound[k] \notin Nat \ {0}
      BY <2>1
    <2>3. PICK h : h = Half(k)
      OBVIOUS
    <2>4. CASE h = 1
      <3>1. NodeBound[k] = Unfold(NodeBound, k)
        BY <1>6, <2>2
      <3>2. Unfold(NodeBound, k) = 1
        BY <2>3, <2>4 DEF Unfold
      <3>3. QED
        BY <2>2, <3>1, <3>2
    <2>5. CASE h # 1
      <3>1. h \in Nat /\ h < k
        BY <2>2, <2>3, <2>5, HalfFacts
      <3>2. h \notin Bad
        BY <2>1, <2>2, <3>1
      <3>3. NodeBound[h] \in Nat \ {0}
        BY <3>1, <3>2
      <3>4. NodeBound[k] = h + NodeBound[h]
        BY <1>6, <2>2, <2>3, <2>5 DEF Unfold
      <3>5. QED
        BY <2>2, <3>1, <3>3, <3>4
    <2>6. QED
      BY <2>4, <2>5
  <1>8. QED
    BY <1>6, <1>7

\* and does not fall.
LEMMA NodeBoundGrows ==
    ASSUME NEW n \in Nat, NEW m \in Nat, m <= n
    PROVE  NodeBound[m] <= NodeBound[n]
  <1> DEFINE Bad == {k \in Nat : \E j \in Nat : j <= k /\ ~(NodeBound[j] <= NodeBound[k])}
  <1> SUFFICES ASSUME Bad # {} PROVE FALSE
    OBVIOUS
  <1>1. PICK k \in Bad : \A i \in Bad : k <= i
    <2>1. Bad \in SUBSET Nat
      OBVIOUS
    <2> HIDE DEF Bad
    <2>2. QED
      BY <2>1, LeastNat
  <1>2. PICK j \in Nat : k \in Nat /\ j <= k /\ ~(NodeBound[j] <= NodeBound[k])
    BY <1>1
  <1>3. PICK hk : hk = Half(k)
    OBVIOUS
  <1>4. PICK hj : hj = Half(j)
    OBVIOUS
  <1>5. /\ hk \in Nat /\ hj \in Nat /\ hj >= 1 /\ hk >= 1 /\ hj <= hk
        /\ hk # 1 => hk < k
    BY <1>2, <1>3, <1>4, HalfFacts, HalfGrows
  <1>6. /\ NodeBound[k] \in Nat \ {0} /\ NodeBound[j] \in Nat \ {0}
        /\ NodeBound[hk] \in Nat \ {0} /\ NodeBound[hj] \in Nat \ {0}
    BY <1>2, <1>5, NodeBoundFacts
  <1>7. NodeBound[k] = IF hk = 1 THEN 1 ELSE hk + NodeBound[hk]
    BY <1>2, <1>3, NodeBoundFacts DEF Unfold
  <1>8. NodeBound[j] = IF hj = 1 THEN 1 ELSE hj + NodeBound[hj]
    BY <1>2, <1>4, NodeBoundFacts DEF Unfold
  <1>9. hj # 1 /\ hk # 1
    BY <1>2, <1>5, <1>6, <1>7, <1>8
  <1>10. hk \notin Bad
    BY <1>1, <1>2, <1>5, <1>9
  <1>11. NodeBound[hj] <= NodeBound[hk]
    BY <1>5, <1>10
  <1>12. QED
    BY <1>2, <1>5, <1>6, <1>7, <1>8, <1>9, <1>11

-----------------------------------------------------------------------------
(* A reduction and its bound.                                              *)

\* The inputs of the level the cursor is on, those that are grouped, and the
\* groups.
Inputs(s) == LevelInputs(s, cursor[s].level)
Taken(s) == {i \in Inputs(s) : i <= cursor[s].parent}
Groups(s) == Level(s, cursor[s].level)

\* The units of the levels below, with the bound for the level, stay within
\* the bound for all inputs; a level has at most a unit for every two inputs,
\* but for the last.
CountsOK(s) ==
    /\ UnitCount(s) - Cardinality(Groups(s)) + NodeBound[Cardinality(Inputs(s))]
           <= NodeBound[Cardinality(LevelInputs(s, 0))]
    /\ cursor[s].waiting =>
          /\ Cardinality(Groups(s)) > 0
          /\ 2 * Cardinality(Groups(s)) <= Cardinality(Inputs(s)) + 1
    /\ ~cursor[s].waiting =>
          /\ 2 * Cardinality(Groups(s)) <= Cardinality(Taken(s))
          /\ Inputs(s) # {} => Inputs(s) # Taken(s)

\* A reduction that goes on is within its bound.
BoundsOK ==
    \A s \in Stages :
        Mode[s] = "reduction" /\ ~cursor[s].completed /\ cursor[s].attention = ""
            => CountsOK(s)

\* What is counted is finite.
LEMMA CountTypes ==
    ASSUME Types, NEW s \in Stages
    PROVE  /\ \A l : /\ IsFiniteSet(LevelInputs(s, l)) /\ IsFiniteSet(Level(s, l))
                     /\ Cardinality(LevelInputs(s, l)) \in Nat
                     /\ Cardinality(Level(s, l)) \in Nat
           /\ IsFiniteSet(Taken(s)) /\ Cardinality(Taken(s)) \in Nat
           /\ UnitCount(s) \in Nat
  <1>1. ASSUME NEW l
        PROVE  /\ IsFiniteSet(LevelInputs(s, l)) /\ IsFiniteSet(Level(s, l))
               /\ Cardinality(LevelInputs(s, l)) \in Nat
               /\ Cardinality(Level(s, l)) \in Nat
    <2>1. IsFiniteSet(LevelInputs(s, l))
      BY LevelFacts
    <2>2. IsFiniteSet(Level(s, l))
      <3>1. Level(s, l) \in SUBSET UnitsOf(s)
        BY DEF Level
      <3>2. QED
        BY <3>1, UnitCounts, FS_Subset
    <2>3. QED
      BY <2>1, <2>2, FS_CardinalityType
  <1>2. IsFiniteSet(Taken(s))
    <2>1. Taken(s) \in SUBSET Inputs(s) /\ IsFiniteSet(Inputs(s))
      BY <1>1 DEF Taken, Inputs
    <2>2. QED
      BY <2>1, FS_Subset
  <1>3. QED
    BY <1>1, <1>2, FS_CardinalityType, UnitCounts

\* A reduction that has not begun is within its bound.
LEMMA UntouchedCounts ==
    Types => \A s \in Stages : Untouched(s) => CountsOK(s)
  <1> SUFFICES ASSUME Types, NEW s \in Stages, Untouched(s)
               PROVE  CountsOK(s)
    OBVIOUS
  <1>1. UnitsOf(s) = {} /\ cursor[s].level = 0 /\ cursor[s].parent = 0
    <2>1. FreshCursor.level = 0 /\ FreshCursor.parent = 0
      BY DEF FreshCursor
    <2>2. QED
      BY <2>1 DEF Untouched
  <1>2. ~cursor[s].waiting
    <2>1. ~FreshCursor.waiting
      BY DEF FreshCursor
    <2>2. QED
      BY <2>1 DEF Untouched
  <1>3. Groups(s) = {} /\ Inputs(s) = LevelInputs(s, 0)
    BY <1>1 DEF Groups, Level, Inputs
  <1>4. UnitCount(s) = 0 /\ Cardinality(Groups(s)) = 0
    BY <1>1, <1>3, FS_EmptySet DEF UnitCount
  <1>5. Taken(s) = {}
    <2>1. \A i \in LevelInputs(s, 0) : ~(i <= 0)
      BY LevelFacts
    <2>2. QED
      BY <1>1, <1>3, <2>1 DEF Taken
  <1>6. Cardinality(Taken(s)) = 0
    BY <1>5, FS_EmptySet
  <1>7. PICK n \in Nat : n = Cardinality(LevelInputs(s, 0))
    BY CountTypes
  <1>8. NodeBound[n] \in Nat
    BY NodeBoundFacts
  <1>9. UnitCount(s) - Cardinality(Groups(s)) + NodeBound[Cardinality(Inputs(s))]
            <= NodeBound[Cardinality(LevelInputs(s, 0))]
    BY <1>3, <1>4, <1>7, <1>8
  <1>10. 2 * Cardinality(Groups(s)) <= Cardinality(Taken(s))
    BY <1>4, <1>6
  <1>11. QED
    BY <1>2, <1>5, <1>9, <1>10 DEF CountsOK

LEMMA UntouchedCountsNext ==
    (Types => \A s \in Stages : Untouched(s) => CountsOK(s))'
  BY UntouchedCounts, PTL

\* So is one that does not work,
LEMMA KeptCounts ==
    ASSUME Types, plan' = plan, NEW s \in Stages, Kept(s), Frozen(s), CountsOK(s)
    PROVE  CountsOK(s)'
  <1>1. /\ cursor'[s] = cursor[s] /\ UnitsOf(s)' = UnitsOf(s)
        /\ \A u \in UnitsOf(s) : SameShape(units[u], units'[u])
    BY DEF Kept
  <1>2. Parents(s)' = Parents(s)
    BY FrozenParents
  <1>3. \A l : Level(s, l)' = Level(s, l)
    BY <1>1 DEF Level, SameShape
  <1>4. \A l : LevelInputs(s, l)' = LevelInputs(s, l)
    BY <1>2, <1>3 DEF LevelInputs, Parents
  <1>5. /\ Inputs(s)' = Inputs(s) /\ Groups(s)' = Groups(s)
        /\ UnitCount(s)' = UnitCount(s)
    BY <1>1, <1>3, <1>4 DEF Inputs, Groups, UnitCount
  <1>6. Taken(s)' = Taken(s)
    BY <1>1, <1>5 DEF Taken
  <1>7. LevelInputs(s, 0)' = LevelInputs(s, 0)
    BY <1>4
  <1>8. QED
    BY <1>1, <1>5, <1>6, <1>7 DEF CountsOK

\* one that adds a group,
LEMMA GroupCounts ==
    ASSUME Types, NEW s \in Stages, Works(s), CountsOK(s), GroupStep(s)
    PROVE  CountsOK(s)'
  <1>a. PICK row, c : /\ GroupRow(s, row) /\ GroupCursor(s, row.inputs, c)
                      /\ Added(s, row, c) /\ ~cursor[s].waiting
    BY DEF GroupStep
  <1>b. PICK group : group = row.inputs
    OBVIOUS
  <1>c. PICK l0 : l0 = cursor[s].level
    OBVIOUS
  <1>d. PICK new : new = Len(units) + 1
    OBVIOUS
  <1>0. /\ GoodRow(s, row) /\ GoodCursor(s, c) /\ NextGroup(s, group)
        /\ ParentsEnded(s) /\ row.level = l0
    BY <1>a, <1>b, <1>c DEF GroupRow, GroupCursor, Works, Ready
  <1>1. l0 \in Nat /\ cursor[s].parent \in Nat
    BY <1>c, RowFacts DEF CursorRow
  <1>2. /\ UnitsOf(s)' = UnitsOf(s) \cup {new} /\ new \notin UnitsOf(s)
        /\ \A l : Level(s, l)' = IF l = row.level THEN Level(s, l) \cup {new}
                                 ELSE Level(s, l)
        /\ \A l \in Int : l # row.level + 1 \/ l = 0 =>
                              LevelInputs(s, l)' = LevelInputs(s, l)
    BY <1>0, <1>a, <1>d, AddedLevels
  <1>3. cursor'[s].level = l0 /\ cursor'[s].parent = Max(group)
    BY <1>0, <1>a, <1>b, <1>c, AddedFacts DEF GroupCursor
  <1>4. cursor'[s].waiting <=> group = Left(s)
    <2>1. cursor'[s].waiting = c.waiting
      BY <1>0, <1>a, AddedFacts
    <2>2. c.waiting <=> group = Left(s)
      BY <1>a, <1>b DEF GroupCursor
    <2>3. QED
      BY <2>1, <2>2
  <1>5. Inputs(s)' = Inputs(s) /\ LevelInputs(s, 0)' = LevelInputs(s, 0)
    <2>1. l0 \in Int /\ l0 # row.level + 1 /\ 0 \in Int
      BY <1>0, <1>1
    <2>2. LevelInputs(s, l0)' = LevelInputs(s, l0)
      BY <1>2, <2>1
    <2>3. LevelInputs(s, 0)' = LevelInputs(s, 0)
      BY <1>2, <2>1
    <2>4. QED
      BY <1>3, <1>c, <2>2, <2>3 DEF Inputs
  <1>6. Groups(s)' = Groups(s) \cup {new} /\ new \notin Groups(s)
    <2>1. Level(s, l0)' = Level(s, l0) \cup {new}
      BY <1>0, <1>2
    <2>2. QED
      BY <1>2, <1>3, <1>c, <2>1 DEF Groups, Level
  <1>7. /\ IsFiniteSet(Inputs(s)) /\ IsFiniteSet(Groups(s)) /\ IsFiniteSet(Taken(s))
        /\ Cardinality(Inputs(s)) \in Nat /\ Cardinality(Groups(s)) \in Nat
        /\ Cardinality(Taken(s)) \in Nat /\ UnitCount(s) \in Nat
    BY CountTypes DEF Inputs, Groups
  <1>8. /\ Cardinality(Groups(s)') = Cardinality(Groups(s)) + 1
        /\ UnitCount(s)' = UnitCount(s) + 1
    BY <1>2, <1>6, <1>7, FS_AddElement, UnitCounts DEF UnitCount
  <1>9. /\ Max(group) \in Nat /\ Max(group) > cursor[s].parent
        /\ IsFiniteSet(group)
        /\ \A i \in Inputs(s) :
              i <= Max(group) => i <= cursor[s].parent \/ i \in group
        /\ \A i \in group : i <= Max(group) /\ i > cursor[s].parent
    BY <1>0, GroupEnd DEF Inputs
  <1>10. group \in SUBSET Inputs(s) /\ group # {} /\ \A i \in Inputs(s) : i \in Nat
    <2>1. group \in SUBSET Inputs(s) /\ group # {}
      BY <1>0 DEF NextGroup, Left, Inputs
    <2>2. QED
      BY <2>1, LevelFacts DEF Inputs
  <1>11. Taken(s)' = Taken(s) \cup group /\ Taken(s) \cap group = {}
    <2>1. Taken(s)' = {i \in Inputs(s) : i <= Max(group)}
      BY <1>3, <1>5 DEF Taken
    <2>2. ASSUME NEW i \in Inputs(s)
          PROVE  i <= Max(group) <=> i <= cursor[s].parent \/ i \in group
      <3>1. i \in Nat
        BY <1>10
      <3>2. QED
        BY <1>1, <1>9, <3>1
    <2>3. ASSUME NEW i \in group, i <= cursor[s].parent PROVE FALSE
      <3>1. i \in Nat /\ i > cursor[s].parent
        BY <1>9, <1>10
      <3>2. QED
        BY <1>1, <2>3, <3>1
    <2>4. QED
      BY <1>10, <2>1, <2>2, <2>3 DEF Taken
  <1>12. Cardinality(group) \in Nat /\ Cardinality(group) # 0
    BY <1>9, <1>10, FS_CardinalityType, FS_EmptySet
  <1>13. Cardinality(Taken(s)') = Cardinality(Taken(s)) + Cardinality(group)
    <2>1. PICK T : T = Taken(s)
      OBVIOUS
    <2>2. IsFiniteSet(T) /\ Cardinality(T) \in Nat /\ T \cap group = {}
      BY <1>7, <1>11, <2>1
    <2>3. Cardinality(T \cap group) = 0
      BY <2>2, FS_EmptySet
    <2>4. Cardinality(T \cup group)
             = Cardinality(T) + Cardinality(group) - Cardinality(T \cap group)
      BY <1>9, <2>2, FS_Union
    <2>5. Cardinality(T \cup group) = Cardinality(T) + Cardinality(group)
      BY <1>12, <2>2, <2>3, <2>4
    <2>6. QED
      BY <1>11, <2>1, <2>5
  <1>14. group = Left(s) <=> Taken(s)' = Inputs(s)
    <2>1. ASSUME NEW i \in Inputs(s) PROVE i \in Left(s) <=> ~(i <= cursor[s].parent)
      <3>1. i \in Nat
        BY <1>10
      <3>2. QED
        BY <1>1, <3>1 DEF Left, Inputs
    <2>2. Left(s) \in SUBSET Inputs(s)
      BY DEF Left, Inputs
    <2>3. QED
      BY <1>10, <1>11, <2>1, <2>2 DEF Taken
  <1>15. PICK g \in Nat : g = Cardinality(Groups(s))
    BY <1>7
  <1>16. PICK k \in Nat : k = Cardinality(Taken(s))
    BY <1>7
  <1>17. PICK x \in Nat : x = Cardinality(group) /\ x >= 1
    BY <1>12
  <1>18. 2 * g <= k
    BY <1>15, <1>16, <1>a DEF CountsOK
  <1>19. UnitCount(s)' - Cardinality(Groups(s)') + NodeBound[Cardinality(Inputs(s)')]
             <= NodeBound[Cardinality(LevelInputs(s, 0)')]
    <2>1. PICK a : a = NodeBound[Cardinality(Inputs(s))]
      OBVIOUS
    <2>2. PICK b : b = NodeBound[Cardinality(LevelInputs(s, 0))]
      OBVIOUS
    <2>3. PICK n \in Nat : n = UnitCount(s)
      BY <1>7
    <2>4. Cardinality(LevelInputs(s, 0)) \in Nat
      BY CountTypes
    <2>5. a \in Nat /\ b \in Nat
      BY <1>7, <2>1, <2>2, <2>4, NodeBoundFacts
    <2>6. n - g + a <= b
      BY <1>15, <2>1, <2>2, <2>3 DEF CountsOK
    <2>7. (n + 1) - (g + 1) + a <= b
      BY <2>5, <2>6
    <2>8. QED
      BY <1>5, <1>8, <1>15, <2>1, <2>2, <2>3, <2>7
  <1>20. CASE group = Left(s)
    <2>1. Cardinality(Inputs(s)) = k + x
      BY <1>13, <1>14, <1>16, <1>17, <1>20
    <2>2. g + 1 > 0 /\ 2 * (g + 1) <= k + x + 1
      BY <1>17, <1>18
    <2>3. cursor'[s].waiting
      BY <1>4, <1>20
    <2>4. /\ Cardinality(Groups(s)') > 0
          /\ 2 * Cardinality(Groups(s)') <= Cardinality(Inputs(s)') + 1
      BY <1>5, <1>8, <1>15, <2>1, <2>2
    <2>5. QED
      BY <1>19, <2>3, <2>4 DEF CountsOK
  <1>21. CASE group # Left(s)
    <2>1. x >= 2
      BY <1>0, <1>17, <1>21 DEF NextGroup
    <2>2. 2 * (g + 1) <= k + x
      BY <1>17, <1>18, <2>1
    <2>3. ~cursor'[s].waiting
      BY <1>4, <1>21
    <2>4. 2 * Cardinality(Groups(s)') <= Cardinality(Taken(s)')
      BY <1>8, <1>13, <1>15, <1>16, <1>17, <2>2
    <2>5. Inputs(s)' # Taken(s)'
      BY <1>5, <1>14, <1>21
    <2>6. QED
      BY <1>19, <2>3, <2>4, <2>5 DEF CountsOK
  <1>22. QED
    BY <1>20, <1>21

\* and one that goes up a level: the groups become the inputs.
LEMMA NextLevelCounts ==
    ASSUME Types, NEW s \in Stages, Works(s), ReductionOK(s), CountsOK(s),
           NextLevelStep(s)
    PROVE  CountsOK(s)'
  <1>a. PICK l0 : l0 = cursor[s].level
    OBVIOUS
  <1>0. l0 \in Nat /\ ~cursor[s].completed /\ cursor[s].waiting
    BY <1>a, RowFacts DEF Works, Ready, CursorRow, NextLevelStep
  <1>1. units' = units /\ UnitsOf(s)' = UnitsOf(s)
    BY DEF NextLevelStep, UnitsOf
  <1>2. /\ \A l : Level(s, l)' = Level(s, l)
        /\ \A l : LevelInputs(s, l)' = LevelInputs(s, l)
    BY <1>1, SameLevels
  <1>3. cursor'[s].level = l0 + 1 /\ cursor'[s].parent = 0
    BY <1>a, NextLevelFacts DEF NextLevelStep
  <1>4. ~cursor'[s].waiting
    BY NextLevelFacts DEF NextLevelStep
  <1>5. Level(s, l0 + 1) = {}
    <2>1. \A v \in UnitsOf(s) : units[v].level \in 0..l0
      BY <1>0, <1>a, GroupFacts
    <2>2. \A v \in UnitsOf(s) : units[v].level # l0 + 1
      BY <1>0, <2>1
    <2>3. QED
      BY <2>2 DEF Level
  <1>6. Groups(s)' = {} /\ LevelInputs(s, 0)' = LevelInputs(s, 0)
        /\ UnitCount(s)' = UnitCount(s)
    BY <1>1, <1>2, <1>3, <1>5 DEF Groups, UnitCount
  <1>7. Inputs(s)' = Groups(s)
    <2>1. l0 + 1 # 0 /\ (l0 + 1) - 1 = l0
      BY <1>0
    <2>2. LevelInputs(s, l0 + 1) = Level(s, l0)
      BY <2>1 DEF LevelInputs
    <2>3. QED
      BY <1>2, <1>3, <1>a, <2>2 DEF Inputs, Groups
  <1>8. Taken(s)' = {}
    <2>1. \A i \in Groups(s) : i \in Nat \ {0}
      <3>1. \A u \in DOMAIN units : u \in Nat \ {0}
        BY RowFacts
      <3>2. QED
        BY <3>1 DEF Groups, Level, UnitsOf
    <2>2. \A i \in Groups(s) : ~(i <= 0)
      BY <2>1
    <2>3. QED
      BY <1>3, <1>7, <2>2 DEF Taken
  <1>9. /\ Cardinality(Inputs(s)) \in Nat /\ Cardinality(Groups(s)) \in Nat
        /\ UnitCount(s) \in Nat /\ Cardinality(LevelInputs(s, 0)) \in Nat
        /\ IsFiniteSet(Groups(s))
    BY CountTypes DEF Inputs, Groups
  <1>10. PICK g \in Nat : g = Cardinality(Groups(s))
    BY <1>9
  <1>11. PICK m \in Nat : m = Cardinality(Inputs(s))
    BY <1>9
  <1>12. g > 1 /\ 2 * g <= m + 1
    BY <1>0, <1>10, <1>11, <1>a DEF NextLevelStep, Groups, CountsOK
  <1>13. PICK h : h = Half(m)
    OBVIOUS
  <1>14. h \in Nat /\ g <= h /\ h # 1
    <2>1. h \in Nat /\ 2 * h >= m /\ (h = 1 <=> m <= 2)
      BY <1>13, HalfFacts
    <2>2. h # 1
      BY <1>12, <2>1
    <2>3. QED
      BY <1>12, <2>1, <2>2
  <1>15. NodeBound[m] = h + NodeBound[h]
    BY <1>13, <1>14, NodeBoundFacts DEF Unfold
  <1>16. NodeBound[g] <= NodeBound[h]
    BY <1>14, NodeBoundGrows
  <1>17. PICK b : b = NodeBound[Cardinality(LevelInputs(s, 0))]
    OBVIOUS
  <1>18. NodeBound[g] \in Nat /\ NodeBound[h] \in Nat /\ b \in Nat
    BY <1>9, <1>14, <1>17, NodeBoundFacts
  <1>19. UnitCount(s) - g + NodeBound[m] <= b
    BY <1>10, <1>11, <1>17 DEF CountsOK
  <1>20. UnitCount(s) - 0 + NodeBound[g] <= b
    <2>1. PICK n \in Nat : n = UnitCount(s)
      BY <1>9
    <2>2. PICK x \in Nat : x = NodeBound[g]
      BY <1>18
    <2>3. PICK y \in Nat : y = NodeBound[h]
      BY <1>18
    <2>4. n - g + (h + y) <= b /\ x <= y
      BY <1>15, <1>16, <1>19, <2>1, <2>2, <2>3
    <2>5. n - 0 + x <= b
      BY <1>14, <1>18, <2>4
    <2>6. QED
      BY <2>1, <2>2, <2>5
  <1>21. Cardinality(Groups(s)') = 0 /\ Cardinality(Taken(s)') = 0
    BY <1>6, <1>8, FS_EmptySet
  <1>22. UnitCount(s)' - Cardinality(Groups(s)') + NodeBound[Cardinality(Inputs(s)')]
             <= NodeBound[Cardinality(LevelInputs(s, 0)')]
    BY <1>6, <1>7, <1>10, <1>17, <1>20, <1>21
  <1>23. 2 * Cardinality(Groups(s)') <= Cardinality(Taken(s)')
    BY <1>21
  <1>24. QED
    BY <1>4, <1>8, <1>22, <1>23 DEF CountsOK

\* A level that ends has no input left.
LEMMA NothingLeft ==
    ASSUME Types, NEW s \in Stages, LevelEndStep(s)
    PROVE  Inputs(s) # {} /\ Inputs(s) = Taken(s)
  <1>1. Inputs(s) # {} /\ Left(s) = {}
    BY DEF LevelEndStep, Inputs
  <1>2. PICK p \in Nat : p = cursor[s].parent
    BY RowFacts DEF CursorRow
  <1>3. Inputs(s) \in SUBSET Nat
    BY LevelFacts DEF Inputs
  <1>4. \A i \in Inputs(s) : ~(i > p)
    BY <1>1, <1>2 DEF Left, Inputs
  <1>5. \A i \in Inputs(s) : i <= p
    BY <1>3, <1>4
  <1>6. QED
    BY <1>1, <1>2, <1>5 DEF Taken

\* A failed root ends its stage.
LEMMA FailedEnds ==
    ASSUME Types, NEW s \in Stages, FailedStep(s)
    PROVE  cursor'[s].completed
  <1>1. PICK row, c : FailedRow(s, row) /\ DoneCursor(s, c) /\ Added(s, row, c)
    BY DEF FailedStep
  <1>2. GoodCursor(s, c) /\ c.completed
    BY <1>1 DEF DoneCursor
  <1>3. c \in CursorRow(plan)
    BY <1>2 DEF GoodCursor
  <1>4. cursor'[s] = [c EXCEPT !.count = @ + 1, !.attention = ""]
    BY <1>1 DEF Added, Types
  <1>5. QED
    BY <1>2, <1>3, <1>4 DEF CursorRow

\* No other step than an overflow blocks a reduction.
LEMMA OnlyOverflowBlocks ==
    ASSUME Types, NEW s \in Stages, Ready(s), ReductionStep(s), ~OverflowStep(s)
    PROVE  cursor'[s].attention = ""
  <1>1. cursor[s] \in CursorRow(plan) /\ cursor[s].attention = ""
    BY RowFacts DEF Ready
  <1>2. ASSUME NEW row, NEW c, GoodCursor(s, c), Added(s, row, c)
        PROVE  cursor'[s].attention = ""
    <2>1. cursor'[s] = [c EXCEPT !.count = @ + 1, !.attention = ""]
      BY <1>2 DEF Added, Types
    <2>2. c \in CursorRow(plan)
      BY <1>2 DEF GoodCursor
    <2>3. QED
      BY <2>1, <2>2 DEF CursorRow
  <1>3. CASE FailedStep(s)
    BY <1>2, <1>3 DEF FailedStep, DoneCursor
  <1>4. CASE GroupStep(s)
    BY <1>2, <1>4 DEF GroupStep, GroupCursor
  <1>5. CASE LevelEndStep(s)
    BY <1>1, <1>5 DEF LevelEndStep, CursorRow
  <1>6. CASE NextLevelStep(s)
    BY <1>1, <1>6 DEF NextLevelStep, NextLevel, CursorRow
  <1>7. CASE RootStep(s)
    BY <1>1, <1>7 DEF RootStep, CursorRow
  <1>8. QED
    BY <1>3, <1>4, <1>5, <1>6, <1>7 DEF ReductionStep

\* Every step keeps reductions within their bounds.
LEMMA BoundsNext ==
    ASSUME IInv, BoundsOK, [Next]_vars
    PROVE  BoundsOK'
  <1>0. Types /\ Ordered
    BY DEF IInv
  <1>1. Runs \/ (\E s \in Stages : WorksOn(s))
    BY StepCases
  <1>2. Runs \/ (\E s \in Stages : Works(s))
    BY <1>1 DEF WorksOn
  <1>3. plan' = plan /\ Mode' = Mode /\ Stages' = Stages
    BY <1>2, SamePlan DEF Runs, Works
  <1>4. Types'
    BY <1>0, <1>2, TypesKept
  <1> SUFFICES ASSUME NEW s \in Stages, Mode[s] = "reduction",
                      ~cursor'[s].completed, cursor'[s].attention = ""
               PROVE  CountsOK(s)'
    BY <1>3 DEF BoundsOK
  <1>5. CASE Works(s) /\ ReductionStep(s)
    <2>1. Ready(s)
      BY <1>5 DEF Works
    <2>2. ReductionOK(s)
      BY <2>1, ReadyReduction
    <2>3. CountsOK(s)
      BY <2>1 DEF BoundsOK, Ready
    <2>4. CASE OverflowStep(s)
      BY <2>4 DEF OverflowStep, Refused
    <2>5. CASE FailedStep(s)
      <3>1. cursor'[s].completed
        BY <1>0, <2>5, FailedEnds
      <3>2. QED
        BY <3>1
    <2>6. CASE GroupStep(s)
      BY <1>0, <1>5, <2>3, <2>6, GroupCounts
    <2>7. CASE LevelEndStep(s)
      <3>1. ~cursor[s].waiting
        BY <2>7 DEF LevelEndStep
      <3>2. Inputs(s) # {} /\ Inputs(s) = Taken(s)
        BY <1>0, <2>7, NothingLeft
      <3>3. QED
        BY <2>3, <3>1, <3>2 DEF CountsOK
    <2>8. CASE NextLevelStep(s)
      BY <1>0, <1>5, <2>2, <2>3, <2>8, NextLevelCounts
    <2>9. CASE RootStep(s)
      <3>1. cursor[s] \in CursorRow(plan)
        BY <1>0, RowFacts
      <3>2. cursor'[s].completed
        BY <2>9, <3>1 DEF RootStep, CursorRow
      <3>3. QED
        BY <3>2
    <2>10. QED
      BY <1>5, <2>4, <2>5, <2>6, <2>7, <2>8, <2>9 DEF ReductionStep
  <1>6. CASE ~(Works(s) /\ ReductionStep(s))
    <2>1. Kept(s)
      <3>1. CASE Runs
        BY <1>0, <3>1, RunsEverywhere
      <3>2. CASE \E t \in Stages : WorksOn(t)
        <4>1. PICK t \in Stages : WorksOn(t)
          BY <3>2
        <4>2. t # s /\ Works(t)
          BY <1>6, <4>1 DEF WorksOn
        <4>3. QED
          BY <1>0, <4>2, WorksElsewhere DEF Kept, SameShape
      <3>3. QED
        BY <1>1, <3>1, <3>2
    <2>2. CASE ParentsEnded(s)
      <3>1. Frozen(s)
        BY <1>0, <1>2, <2>2, ParentsFrozen
      <3>2. cursor'[s] = cursor[s]
        BY <2>1 DEF Kept
      <3>3. CountsOK(s)
        BY <3>2 DEF BoundsOK
      <3>4. QED
        BY <1>0, <1>3, <2>1, <3>1, <3>3, KeptCounts
    <2>3. CASE ~ParentsEnded(s)
      <3>1. Untouched(s)
        BY <1>0, <2>3 DEF Ordered
      <3>2. Untouched(s)'
        BY <2>1, <3>1 DEF Untouched, Kept
      <3>3. QED
        BY <1>3, <1>4, <3>2, UntouchedCountsNext
    <2>4. QED
      BY <2>2, <2>3
  <1>7. QED
    BY <1>5, <1>6

\* A full stage has a unit for every node of its bound.
LEMMA OverflowBound ==
    ASSUME IInv, BoundsOK, NEW s \in Stages, Mode[s] = "reduction", Ready(s),
           OverflowStep(s)
    PROVE  plan.cap[s] < NodeBound[Cardinality(LevelInputs(s, 0))]
  <1>0. Types /\ Placed /\ CountsOK(s)
    BY DEF IInv, BoundsOK, Ready
  <1>1. /\ IsFiniteSet(Inputs(s)) /\ IsFiniteSet(Groups(s)) /\ IsFiniteSet(Taken(s))
        /\ Cardinality(Inputs(s)) \in Nat /\ Cardinality(Groups(s)) \in Nat
        /\ Cardinality(Taken(s)) \in Nat /\ UnitCount(s) \in Nat
        /\ Cardinality(LevelInputs(s, 0)) \in Nat
    BY <1>0, CountTypes DEF Inputs, Groups
  <1>2. plan.cap[s] \in Nat /\ UnitCount(s) >= plan.cap[s]
    <2>1. cursor[s].count = UnitCount(s)
      BY <1>0 DEF Placed
    <2>2. QED
      BY <1>0, <2>1, PlanFacts DEF OverflowStep, Full
  <1>3. PICK g \in Nat : g = Cardinality(Groups(s))
    BY <1>1
  <1>4. PICK m \in Nat : m = Cardinality(Inputs(s))
    BY <1>1
  <1>5. PICK h \in Nat \ {0} : h = Half(m)
    BY HalfFacts
  <1>6. NodeBound[m] \in Nat \ {0} /\ NodeBound[m] >= h
    <2>1. NodeBound[m] \in Nat \ {0}
      BY NodeBoundFacts
    <2>2. NodeBound[m] = IF h = 1 THEN 1 ELSE h + NodeBound[h]
      BY <1>5, NodeBoundFacts DEF Unfold
    <2>3. NodeBound[h] \in Nat
      BY NodeBoundFacts
    <2>4. QED
      BY <2>1, <2>2, <2>3
  <1>7. ~cursor[s].waiting
    <2>1. ASSUME cursor[s].waiting PROVE FALSE
      <3>1. Groups(s) = {}
        BY <2>1 DEF OverflowStep, Groups
      <3>2. Cardinality(Groups(s)) = 0
        BY <3>1, FS_EmptySet
      <3>3. QED
        BY <1>0, <2>1, <3>2 DEF CountsOK
    <2>2. QED
      BY <2>1
  <1>8. 2 * g <= Cardinality(Taken(s))
    BY <1>0, <1>3, <1>7 DEF CountsOK
  <1>9. Taken(s) \in SUBSET Inputs(s)
    BY DEF Taken
  <1>10. g < NodeBound[m]
    <2>1. CASE Inputs(s) = {}
      <3>1. Cardinality(Taken(s)) = 0
        BY <1>9, <2>1, FS_EmptySet
      <3>2. QED
        BY <1>6, <1>8, <3>1
    <2>2. CASE Inputs(s) # {}
      <3>1. Taken(s) # Inputs(s)
        BY <1>0, <1>7, <2>2 DEF CountsOK
      <3>2. Cardinality(Taken(s)) <= m /\ Cardinality(Taken(s)) # m
        BY <1>1, <1>4, <1>9, <3>1, FS_Subset
      <3>3. 2 * g < m
        BY <1>1, <1>8, <3>2
      <3>4. 2 * h >= m
        BY <1>5, HalfFacts
      <3>5. QED
        BY <1>6, <3>3, <3>4
    <2>3. QED
      BY <2>1, <2>2
  <1>11. PICK b : b = NodeBound[Cardinality(LevelInputs(s, 0))]
    OBVIOUS
  <1>12. b \in Nat
    BY <1>1, <1>11, NodeBoundFacts
  <1>13. UnitCount(s) - g + NodeBound[m] <= b
    BY <1>0, <1>3, <1>4, <1>11 DEF CountsOK
  <1>14. UnitCount(s) < b
    BY <1>1, <1>6, <1>10, <1>12, <1>13
  <1>15. QED
    BY <1>1, <1>2, <1>11, <1>12, <1>14

LEMMA BoundsInit ==
    ASSUME Init
    PROVE  BoundsOK
  <1>1. Types
    BY InitTypes
  <1>2. ASSUME NEW s \in Stages, Mode[s] = "reduction" PROVE CountsOK(s)
    <2>1. ~Initial(s)
      BY <1>1, <1>2, PlanFacts
    <2>2. Untouched(s)
      BY <2>1, InitUntouched
    <2>3. QED
      BY <1>1, <2>2, UntouchedCounts
  <1>3. QED
    BY <1>2 DEF BoundsOK

\* Stages whose parents have ended keep their inputs.
LEMMA LeavesKept ==
    ASSUME Types, plan' = plan, NEW s \in Stages, ParentsEnded(s),
           Runs \/ (\E t \in Stages : Works(t))
    PROVE  LevelInputs(s, 0)' = LevelInputs(s, 0)
  <1>1. Frozen(s)
    BY ParentsFrozen
  <1>2. Parents(s)' = Parents(s)
    BY <1>1, FrozenParents
  <1>3. QED
    BY <1>2 DEF LevelInputs, Parents

\* Only a reduction whose cap is too small overflows.
LEMMA HonestNext ==
    ASSUME IInv, BoundsOK, NodeBoundHonest, [Next]_vars
    PROVE  NodeBoundHonest'
  <1>0. Types /\ Ordered
    BY DEF IInv
  <1>1. Runs \/ (\E s \in Stages : WorksOn(s))
    BY StepCases
  <1>2. Runs \/ (\E s \in Stages : Works(s))
    BY <1>1 DEF WorksOn
  <1>3. plan' = plan /\ Mode' = Mode /\ Stages' = Stages
    BY <1>2, SamePlan DEF Runs, Works
  <1> SUFFICES ASSUME NEW s \in Stages, Mode[s] = "reduction",
                      plan.cap[s] >= NodeBound[Cardinality(LevelInputs(s, 0)')],
                      cursor'[s].attention = "stage_unit_cap_exceeded"
               PROVE  FALSE
    BY <1>3 DEF NodeBoundHonest
  <1>4. CASE Works(s) /\ ReductionStep(s)
    <2>1. Ready(s) /\ ParentsEnded(s)
      BY <1>4 DEF Works, Ready
    <2>2. LevelInputs(s, 0)' = LevelInputs(s, 0)
      BY <1>0, <1>2, <1>3, <2>1, LeavesKept
    <2>3. OverflowStep(s)
      BY <1>0, <1>4, <2>1, OnlyOverflowBlocks
    <2>4. PICK c \in Nat : c = plan.cap[s]
      BY <1>0, PlanFacts
    <2>5. PICK b \in Nat : b = NodeBound[Cardinality(LevelInputs(s, 0))]
      BY <1>0, CountTypes, NodeBoundFacts
    <2>6. c < b
      BY <2>1, <2>3, <2>4, <2>5, OverflowBound
    <2>7. c >= b
      BY <2>2, <2>4, <2>5
    <2>8. QED
      BY <2>6, <2>7
  <1>5. CASE ~(Works(s) /\ ReductionStep(s))
    <2>1. cursor'[s] = cursor[s]
      <3>1. CASE Runs
        BY <3>1 DEF Runs
      <3>2. CASE \E t \in Stages : WorksOn(t)
        <4>1. PICK t \in Stages : WorksOn(t)
          BY <3>2
        <4>2. t # s /\ Works(t)
          BY <1>5, <4>1 DEF WorksOn
        <4>3. QED
          BY <1>0, <4>2, WorksElsewhere
      <3>3. QED
        BY <1>1, <3>1, <3>2
    <2>2. ~Untouched(s)
      <3>1. FreshCursor.attention = ""
        BY DEF FreshCursor
      <3>2. QED
        BY <2>1, <3>1 DEF Untouched
    <2>3. ParentsEnded(s)
      BY <1>0, <2>2 DEF Ordered
    <2>4. LevelInputs(s, 0)' = LevelInputs(s, 0)
      BY <1>0, <1>2, <1>3, <2>3, LeavesKept
    <2>5. QED
      BY <2>1, <2>3, <2>4 DEF NodeBoundHonest
  <1>6. QED
    BY <1>4, <1>5

\* A reduction stays within the limits it was admitted with: no reducer is
\* given an array beyond ByteLimit, and a stage whose cap holds the compiler's
\* bound for its inputs is never stopped by the cap, whatever groups the limit
\* and the fan-in make.
THEOREM ReductionStaysBounded == Spec => []ReductionBounded
  <1>1. Init => IInv /\ BoundsOK /\ ReductionBounded
    <2>1. Init => NodeBoundHonest
      <3>1. ASSUME Init PROVE \A s \in Stages : cursor[s].attention = ""
        BY <3>1 DEF Init
      <3>2. QED
        BY <3>1 DEF NodeBoundHonest
    <2>2. QED
      BY <2>1, InitIInv, BoundsInit, FitsInit DEF ReductionBounded
  <1>2. IInv /\ BoundsOK /\ ReductionBounded /\ [Next]_vars
            => IInv' /\ BoundsOK' /\ ReductionBounded'
    BY IInvNext, BoundsNext, FitsNext, HonestNext DEF ReductionBounded
  <1>3. QED
    BY <1>1, <1>2, PTL DEF Spec

-----------------------------------------------------------------------------
(* The inputs of a root.                                                   *)

\* Unit v did not commit, and will not unless the owner retries.
Stopped(v) ==
    generation = 0 =>
        units[v].state \in {"needs_attention", "failed_permanent", "skipped",
                            "cancelled"}

\* A root has no input, or stopped its level, or is all of its level and has
\* all the inputs of it.
RootOf(s, v) ==
    /\ cursor[s].completed /\ cursor[s].attention = ""
    /\ units[v].level = cursor[s].level
    /\ \/ units[v].inputs = {}
       \/ Stopped(v)
       \/ /\ Level(s, cursor[s].level) = {v}
          /\ LevelInputs(s, cursor[s].level) \subseteq units[v].inputs

RootsOK ==
    \A s \in Stages : Mode[s] = "reduction" =>
        \A v \in UnitsOf(s) : units[v].root => RootOf(s, v)

\* A row that stopped stays so until the owner retries.
LEMMA StoppedKept ==
    ASSUME Types, Runs, NEW v \in DOMAIN units, Stopped(v)
    PROVE  Stopped(v)'
  <1> SUFFICES ASSUME generation' = 0
               PROVE  units'[v].state \in {"needs_attention", "failed_permanent",
                                           "skipped", "cancelled"}
    BY DEF Stopped
  <1>1. generation = 0
    <2>1. generation \in Nat /\ generation' \in generation..plan.decisions
      BY PlanFacts DEF Types, Runs
    <2>2. plan.decisions \in Nat
      BY PlanFacts
    <2>3. generation <= generation'
      BY <2>1, <2>2
    <2>4. QED
      BY <2>1, <2>3
  <1>2. units[v].state \in {"needs_attention", "failed_permanent", "skipped",
                            "cancelled"}
    BY <1>1 DEF Stopped
  <1>3. RowStep(units[v], units'[v])
    BY DEF Runs
  <1>4. ~(units[v].gen < generation)
    <2>1. units[v].gen \in Nat
      BY RowFacts DEF UnitRow
    <2>2. QED
      BY <1>1, <2>1
  <1>5. CASE units[v].state = "needs_attention"
    BY <1>2, <1>3, <1>4, <1>5 DEF RowStep
  <1>6. CASE units[v].state # "needs_attention"
    BY <1>2, <1>3, <1>6 DEF RowStep, Closed
  <1>7. QED
    BY <1>5, <1>6

\* A step of the workers or of another stage keeps the roots of s.
LEMMA RootsKept ==
    ASSUME IInv, plan' = plan, NEW s \in Stages, Mode[s] = "reduction",
           Runs \/ (\E t \in Stages : t # s /\ Works(t)),
           NEW v \in UnitsOf(s)', units'[v].root, RootsOK
    PROVE  RootOf(s, v)'
  <1>0. Types /\ Ordered
    BY DEF IInv
  <1>1. Kept(s)
    <2>1. CASE Runs
      BY <1>0, <2>1, RunsEverywhere
    <2>2. CASE \E t \in Stages : t # s /\ Works(t)
      BY <1>0, <2>2, WorksElsewhere DEF Kept, SameShape
    <2>3. QED
      BY <2>1, <2>2
  <1>2. v \in UnitsOf(s) /\ v \in DOMAIN units
    BY <1>1 DEF Kept, UnitsOf
  <1>3. SameShape(units[v], units'[v])
    BY <1>1, <1>2 DEF Kept
  <1>4. RootOf(s, v)
    BY <1>2, <1>3 DEF RootsOK, SameShape
  <1>5. ParentsEnded(s)
    BY <1>0, <1>2 DEF Ordered, Untouched
  <1>6. Frozen(s)
    BY <1>0, <1>5, ParentsFrozen
  <1>7. Parents(s)' = Parents(s)
    BY <1>0, <1>6, FrozenParents
  <1>8. \A l : Level(s, l)' = Level(s, l)
    BY <1>1 DEF Level, Kept, SameShape
  <1>9. \A l : LevelInputs(s, l)' = LevelInputs(s, l)
    BY <1>7, <1>8 DEF LevelInputs, Parents
  <1>10. PICK l0 : l0 = cursor[s].level
    OBVIOUS
  <1>11. cursor'[s] = cursor[s]
    BY <1>1 DEF Kept
  <1>12. /\ units'[v].level = l0 /\ units'[v].inputs = units[v].inputs
         /\ cursor'[s].completed /\ cursor'[s].attention = ""
         /\ cursor'[s].level = l0
    BY <1>3, <1>4, <1>10, <1>11 DEF RootOf, SameShape
  <1>13. Level(s, l0)' = Level(s, l0) /\ LevelInputs(s, l0)' = LevelInputs(s, l0)
    BY <1>8, <1>9
  <1>14. Stopped(v) => Stopped(v)'
    <2>1. CASE Runs
      BY <1>0, <1>2, <2>1, StoppedKept
    <2>2. CASE \E t \in Stages : t # s /\ Works(t)
      <3>1. units'[v] = units[v]
        BY <1>0, <1>2, <2>2, WorksElsewhere
      <3>2. generation' = generation
        BY <2>2 DEF Works
      <3>3. QED
        BY <3>1, <3>2 DEF Stopped
    <2>3. QED
      BY <2>1, <2>2
  <1>15. \/ units[v].inputs = {}
         \/ Stopped(v)
         \/ Level(s, l0) = {v} /\ LevelInputs(s, l0) \subseteq units[v].inputs
    BY <1>4, <1>10 DEF RootOf
  <1>16. QED
    BY <1>12, <1>13, <1>14, <1>15 DEF RootOf

\* A set with at most one member.
LEMMA OneAtMost ==
    ASSUME NEW S, IsFiniteSet(S), Cardinality(S) <= 1, NEW x \in S
    PROVE  S = {x}
  <1>1. ASSUME NEW y \in S, y # x PROVE FALSE
    <2>1. Cardinality({x}) = 1 /\ IsFiniteSet({x}) /\ y \notin {x}
      BY <1>1, FS_Singleton
    <2>2. Cardinality({x} \cup {y}) = 1 + 1
      BY <2>1, FS_AddElement
    <2>3. {x} \cup {y} \in SUBSET S
      OBVIOUS
    <2>4. Cardinality({x} \cup {y}) <= Cardinality(S) /\ Cardinality(S) \in Nat
      BY <2>3, FS_Subset, FS_CardinalityType
    <2>5. QED
      BY <2>2, <2>4
  <1>2. QED
    BY <1>1

LEMMA UpToItself ==
    ASSUME NEW n \in Nat
    PROVE  n \in 0..n
  OBVIOUS

\* The root that a level ends with.
LEMMA RootExposed ==
    ASSUME IInv, NEW s \in Stages, Mode[s] = "reduction", Works(s), RootStep(s),
           NEW v \in UnitsOf(s)', units'[v].root,
           \A u \in UnitsOf(s) : ~units[u].root
    PROVE  RootOf(s, v)'
  <1>0. Types
    BY DEF IInv
  <1>a. PICK l0 : l0 = cursor[s].level
    OBVIOUS
  <1>1. /\ cursor[s] \in CursorRow(plan) /\ l0 \in Nat
        /\ ParentsEnded(s) /\ cursor[s].attention = "" /\ LevelEnded(s)
    BY <1>0, <1>a, RowFacts DEF Works, Ready, CursorRow
  <1>2. PICK r \in Level(s, l0) :
            /\ units' = [units EXCEPT ![r].root = TRUE]
            /\ Cardinality(Level(s, l0)) <= 1 \/ units[r].state # "committed"
    BY <1>a DEF RootStep
  <1>3. r \in UnitsOf(s) /\ units[r].level = l0 /\ r \in DOMAIN units
    BY <1>2 DEF Level, UnitsOf
  <1>4. /\ UnitsOf(s)' = UnitsOf(s)
        /\ \A u \in UnitsOf(s) : /\ units'[u].inputs = units[u].inputs
                                 /\ units'[u].level = units[u].level
                                 /\ units'[u].state = units[u].state
        /\ \A u \in UnitsOf(s) : u # r => units'[u] = units[u]
    BY <1>0, <1>2, <1>3, RootFacts DEF UnitsOf
  <1>5. v = r
    BY <1>4
  <1>6. /\ \A l : Level(s, l)' = Level(s, l)
    BY <1>4 DEF Level
  <1>7. Parents(s)' = Parents(s) /\ generation' = generation
    BY <1>0, <1>1, WorksFacts DEF Works
  <1>8. \A l : LevelInputs(s, l)' = LevelInputs(s, l)
    BY <1>6, <1>7 DEF LevelInputs, Parents
  <1>9. cursor'[s].completed /\ cursor'[s].attention = "" /\ cursor'[s].level = l0
    BY <1>1, <1>a DEF RootStep, CursorRow
  <1>10. ReductionOK(s) /\ cursor[s].waiting
    BY ReadyReduction DEF Works, RootStep
  <1>11. CASE units[r].state # "committed"
    <2>1. units[r].state \notin Open /\ units[r].state \in UnitStates
      BY <1>0, <1>1, <1>2, <1>3, <1>10, <1>a, RowFacts DEF LevelEnded, UnitRow
    <2>2. Stopped(r)'
      BY <1>3, <1>4, <1>11, <2>1 DEF Stopped, Open, UnitStates
    <2>3. QED
      BY <1>3, <1>4, <1>5, <1>9, <2>2 DEF RootOf
  <1>12. CASE Cardinality(Level(s, l0)) <= 1
    <2>1. Level(s, l0) = {r}
      <3>1. IsFiniteSet(Level(s, l0))
        BY <1>0, CountTypes
      <3>2. QED
        BY <1>2, <1>12, <3>1, OneAtMost
    <2>2. Covered(s, l0)
      <3>1. l0 \in 0..l0
        BY <1>1, UpToItself
      <3>2. QED
        BY <1>10, <1>a, <3>1 DEF ReductionOK, LevelsCovered
    <2>3. LevelInputs(s, l0) \subseteq units[r].inputs
      BY <2>1, <2>2 DEF Covered
    <2>4. /\ Level(s, l0)' = {r}
          /\ LevelInputs(s, l0)' \subseteq units'[r].inputs
      BY <1>3, <1>4, <1>6, <1>8, <2>1, <2>3
    <2>5. units'[r].level = l0
      BY <1>3, <1>4
    <2>6. QED
      BY <1>5, <1>9, <2>4, <2>5 DEF RootOf
  <1>13. QED
    BY <1>2, <1>11, <1>12

\* The root of a reduction that cannot go on.
LEMMA FailedIsRoot ==
    ASSUME Types, NEW s \in Stages, FailedStep(s),
           NEW v \in UnitsOf(s)', units'[v].root,
           \A u \in UnitsOf(s) : ~units[u].root
    PROVE  RootOf(s, v)'
  <1>1. PICK row, c : FailedRow(s, row) /\ DoneCursor(s, c) /\ Added(s, row, c)
    BY DEF FailedStep
  <1>2. /\ GoodRow(s, row) /\ GoodCursor(s, c) /\ c.completed
        /\ row.inputs = {} /\ row.level = c.level
    BY <1>1 DEF FailedRow, DoneCursor
  <1>3. PICK new : new = Len(units) + 1
    OBVIOUS
  <1>4. /\ UnitsOf(s)' = UnitsOf(s) \cup {new}
        /\ units'[new] = row
        /\ \A u \in UnitsOf(s) : units'[u] = units[u]
    BY <1>1, <1>2, <1>3, AddedFacts
  <1>5. v = new
    BY <1>4
  <1>6. c \in CursorRow(plan)
    BY <1>2 DEF GoodCursor
  <1>7. cursor'[s] = [c EXCEPT !.count = @ + 1, !.attention = ""]
    BY <1>1 DEF Added, Types
  <1>8. cursor'[s].completed /\ cursor'[s].attention = "" /\ cursor'[s].level = c.level
    BY <1>2, <1>6, <1>7 DEF CursorRow
  <1>9. QED
    BY <1>2, <1>4, <1>5, <1>8 DEF RootOf

\* Every step keeps what is said of roots.
LEMMA RootsNext ==
    ASSUME IInv, RootsOK, [Next]_vars
    PROVE  RootsOK'
  <1>0. Types
    BY DEF IInv
  <1>1. Runs \/ (\E s \in Stages : WorksOn(s))
    BY StepCases
  <1>2. plan' = plan /\ Mode' = Mode /\ Stages' = Stages
    BY <1>1, SamePlan DEF Runs, WorksOn, Works
  <1> SUFFICES ASSUME NEW s \in Stages, Mode[s] = "reduction",
                      NEW v \in UnitsOf(s)', units'[v].root
               PROVE  RootOf(s, v)'
    BY <1>2 DEF RootsOK
  <1>3. CASE Works(s) /\ ReductionStep(s)
    <2>1. \A u \in UnitsOf(s) : ~units[u].root
      BY <1>3 DEF RootsOK, RootOf, Works, Ready
    <2>2. CASE units' = units
      BY <2>1, <2>2 DEF UnitsOf
    <2>3. CASE FailedStep(s)
      BY <1>0, <2>1, <2>3, FailedIsRoot
    <2>4. CASE GroupStep(s)
      <3>1. PICK row, c : /\ GroupRow(s, row) /\ GroupCursor(s, row.inputs, c)
                          /\ Added(s, row, c)
        BY <2>4 DEF GroupStep
      <3>2. GoodRow(s, row) /\ GoodCursor(s, c) /\ ~row.root
        BY <3>1 DEF GroupRow, GroupCursor
      <3>3. PICK new : new = Len(units) + 1
        OBVIOUS
      <3>4. /\ UnitsOf(s)' = UnitsOf(s) \cup {new}
            /\ units'[new] = row
            /\ \A u \in UnitsOf(s) : units'[u] = units[u]
        BY <1>0, <3>1, <3>2, <3>3, AddedFacts
      <3>5. QED
        BY <2>1, <3>2, <3>4
    <2>5. CASE RootStep(s)
      BY <1>3, <2>1, <2>5, RootExposed
    <2>6. QED
      BY <1>3, <2>2, <2>3, <2>4, <2>5
         DEF ReductionStep, OverflowStep, Refused, LevelEndStep, NextLevelStep
  <1>4. CASE ~(Works(s) /\ ReductionStep(s))
    <2>1. Runs \/ (\E t \in Stages : t # s /\ Works(t))
      BY <1>1, <1>4 DEF WorksOn
    <2>2. QED
      BY <1>2, <2>1, RootsKept
  <1>5. QED
    BY <1>3, <1>4

LEMMA RootsInit ==
    ASSUME Init
    PROVE  RootsOK
  <1>1. Types
    BY InitTypes
  <1>2. ASSUME NEW s \in Stages, Mode[s] = "reduction" PROVE UnitsOf(s) = {}
    <2>1. ~Initial(s)
      BY <1>1, <1>2, PlanFacts
    <2>2. QED
      BY <2>1, InitUntouched DEF Untouched
  <1>3. QED
    BY <1>2 DEF RootsOK

\* What Leaves gives a unit, from what it gives the units below.
Made(f, u) ==
    IF units[u].level = 0 THEN units[u].inputs
    ELSE UNION {f[v] : v \in units[u].inputs}

IsLeaves(f, D) == f = [u \in D |-> Made(f, u)]

LEMMA Predecessor ==
    ASSUME NEW k \in Nat, k # 0
    PROVE  \E j \in Nat : k = j + 1 /\ ~(k <= j)
  <1>1. k - 1 \in Nat /\ k = (k - 1) + 1 /\ ~(k <= k - 1)
    OBVIOUS
  <1>2. QED
    BY <1>1

\* A unit is made from units before it.
LEMMA UnitsBefore ==
    ASSUME Types, Placed, NEW s \in Stages
    PROVE  /\ UnitsOf(s) \in SUBSET Nat /\ Len(units) + 1 \in Nat
           /\ \A u \in UnitsOf(s) : u < Len(units) + 1
           /\ \A u \in UnitsOf(s) : \A v \in units[u].inputs : v < u
  <1>1. \A u \in DOMAIN units : u \in Nat /\ u <= Len(units)
    BY RowFacts
  <1>2. Len(units) \in Nat
    BY RowFacts
  <1>3. \A u \in DOMAIN units : u < Len(units) + 1
    BY <1>1, <1>2
  <1>4. \A u \in DOMAIN units : \A v \in units[u].inputs : v \in 1..(u - 1)
    BY DEF Placed
  <1>5. \A u \in DOMAIN units : \A v \in units[u].inputs : v < u
    BY <1>1, <1>4
  <1>6. QED
    BY <1>1, <1>2, <1>3, <1>5 DEF UnitsOf

\* The recursion of Leaves is well-founded on units that are made from units
\* before them.
LEMMA LeavesExist ==
    ASSUME NEW D \in SUBSET Nat, NEW n \in Nat,
           \A u \in D : units[u].level # 0 =>
               \A v \in units[u].inputs : v \in D /\ v < u
    PROVE  \E f : IsLeaves(f, {u \in D : u < n})
  <1> DEFINE Part(k) == {u \in D : u < k}
             Bad == {k \in Nat : ~\E f : IsLeaves(f, Part(k))}
  <1> SUFFICES ASSUME Bad # {} PROVE FALSE
    OBVIOUS
  <1>1. PICK k \in Bad : \A j \in Bad : k <= j
    <2>1. Bad \in SUBSET Nat
      OBVIOUS
    <2> HIDE DEF Bad
    <2>2. QED
      BY <2>1, LeastNat
  <1>2. k \in Nat /\ ~\E f : IsLeaves(f, Part(k))
    BY <1>1
  <1>3. k # 0
    <2>1. ASSUME k = 0 PROVE FALSE
      <3>1. \A u \in D : ~(u < 0)
        OBVIOUS
      <3>2. Part(k) = {}
        BY <2>1, <3>1
      <3>3. IsLeaves([u \in {} |-> {}], {})
        BY DEF IsLeaves
      <3>4. QED
        BY <1>2, <3>2, <3>3
    <2>2. QED
      BY <2>1
  <1>4. k \in Nat
    BY <1>2
  <1>5. PICK j \in Nat : k = j + 1 /\ ~(k <= j)
    BY <1>3, <1>4, Predecessor
  <1>6. j \notin Bad
    BY <1>1, <1>5
  <1>7. j \in Nat /\ k \in Nat /\ k = j + 1
    BY <1>4, <1>5
  <1>8. PICK old : IsLeaves(old, Part(j))
    BY <1>6
  <1>9. \A u \in Part(k) : u \in D /\ u \in Nat /\ (u \in Part(j) \/ u = j)
    BY <1>7
  <1>10. \A u \in Part(j) : u \in Part(k)
    BY <1>7
  <1>11. \A u \in Part(k) : units[u].level # 0 =>
             \A v \in units[u].inputs : v \in Part(j)
    <2> SUFFICES ASSUME NEW u \in D, u < k, units[u].level # 0,
                        NEW v \in units[u].inputs
                 PROVE  v \in D /\ v < j
      OBVIOUS
    <2>1. v \in D /\ v < u
      OBVIOUS
    <2>2. u \in Nat /\ v \in Nat
      BY <2>1
    <2>3. QED
      BY <1>7, <2>1, <2>2
  <1> HIDE DEF Part, Bad
  <1> DEFINE new == [u \in Part(k) |-> Made(old, u)]
  <1>12. \A u \in Part(j) : new[u] = old[u]
    <2>1. \A u \in Part(j) : old[u] = Made(old, u)
      BY <1>8 DEF IsLeaves
    <2>2. QED
      BY <1>10, <2>1
  <1>13. ASSUME NEW u \in Part(k) PROVE Made(old, u) = Made(new, u)
    <2>1. CASE units[u].level = 0
      BY <2>1 DEF Made
    <2>2. CASE units[u].level # 0
      <3>1. \A v \in units[u].inputs : new[v] = old[v]
        BY <1>11, <1>12, <2>2
      <3> HIDE DEF new
      <3>2. {new[v] : v \in units[u].inputs} = {old[v] : v \in units[u].inputs}
        BY <3>1
      <3>3. QED
        BY <2>2, <3>2 DEF Made
    <2>3. QED
      BY <2>1, <2>2
  <1>14. IsLeaves(new, Part(k))
    <2>1. new = [u \in Part(k) |-> Made(old, u)]
      OBVIOUS
    <2> HIDE DEF new
    <2>2. QED
      BY <1>13, <2>1 DEF IsLeaves
  <1> HIDE DEF new
  <1>15. QED
    BY <1>2, <1>14

\* Leaves follows its definition on the units of a reduction.
LEMMA LeavesFacts ==
    ASSUME IInv, NEW s \in Stages, Mode[s] = "reduction", cursor[s].attention = ""
    PROVE  \A u \in UnitsOf(s) : Leaves(s)[u] = Made(Leaves(s), u)
  <1>0. Types /\ Placed /\ ReductionOK(s)
    <2>1. Types /\ Placed /\ StageOK(s)
      BY DEF IInv, StagesOK
    <2>2. ~Initial(s)
      BY <2>1, PlanFacts
    <2>3. QED
      BY <2>1, <2>2 DEF StageOK
  <1>1. /\ UnitsOf(s) \in SUBSET Nat /\ Len(units) + 1 \in Nat
        /\ \A u \in UnitsOf(s) : u < Len(units) + 1
        /\ \A u \in UnitsOf(s) : \A v \in units[u].inputs : v < u
    BY <1>0, UnitsBefore
  <1>2. ASSUME NEW u \in UnitsOf(s), units[u].level # 0, NEW v \in units[u].inputs
        PROVE  v \in UnitsOf(s) /\ v < u
    <2>1. PICK l : l = units[u].level
      OBVIOUS
    <2>2. units[u].inputs \subseteq LevelInputs(s, l)
      BY <1>0, <2>1 DEF ReductionOK, GroupRows, IsGroup
    <2>3. v \in UnitsOf(s)
      BY <1>2, <2>1, <2>2 DEF LevelInputs, Level
    <2>4. QED
      BY <1>1, <2>3
  <1>3. PICK n \in Nat : n = Len(units) + 1
    BY <1>1
  <1>4. \E f : IsLeaves(f, {u \in UnitsOf(s) : u < n})
    BY <1>1, <1>2, LeavesExist
  <1>5. {u \in UnitsOf(s) : u < n} = UnitsOf(s)
    BY <1>1, <1>3
  <1>6. \E f : IsLeaves(f, UnitsOf(s))
    BY <1>4, <1>5
  <1>7. Leaves(s) = CHOOSE f : IsLeaves(f, UnitsOf(s))
    BY DEF Leaves, IsLeaves, Made
  <1>8. IsLeaves(Leaves(s), UnitsOf(s))
    BY <1>6, <1>7
  <1>9. QED
    BY <1>8 DEF IsLeaves

\* From the inputs up, no level loses any.
LEMMA LevelsLoseNothing ==
    ASSUME Types, NEW s \in Stages, GroupRows(s), NEW top \in Nat,
           \A l \in 0..top : Covered(s, l),
           NEW f, \A u \in UnitsOf(s) : f[u] = Made(f, u)
    PROVE  UNION {f[u] : u \in Level(s, top)} = LevelInputs(s, 0)
  <1> DEFINE Bad == {l \in Nat : /\ l <= top
                                 /\ UNION {f[u] : u \in Level(s, l)}
                                        # LevelInputs(s, 0)}
  <1> SUFFICES ASSUME Bad # {} PROVE FALSE
    OBVIOUS
  <1>1. PICK l \in Bad : \A k \in Bad : l <= k
    <2>1. Bad \in SUBSET Nat
      OBVIOUS
    <2> HIDE DEF Bad
    <2>2. QED
      BY <2>1, LeastNat
  <1>2. l \in Nat /\ l <= top /\ UNION {f[u] : u \in Level(s, l)} # LevelInputs(s, 0)
    BY <1>1
  <1>3. Covered(s, l)
    <2>1. l \in 0..top
      BY <1>2
    <2>2. QED
      BY <2>1
  <1>4. \A u \in Level(s, l) : /\ u \in UnitsOf(s) /\ units[u].level = l
                               /\ units[u].inputs \subseteq LevelInputs(s, l)
    BY DEF Level, GroupRows, IsGroup
  <1>5. CASE l = 0
    <2>1. \A u \in Level(s, l) : f[u] = units[u].inputs
      BY <1>4, <1>5 DEF Made
    <2>2. UNION {f[u] : u \in Level(s, l)} = LevelInputs(s, l)
      BY <1>3, <1>4, <2>1 DEF Covered
    <2>3. QED
      BY <1>2, <1>5, <2>2
  <1>6. CASE l # 0
    <2>1. PICK k \in Nat : l = k + 1 /\ ~(l <= k)
      BY <1>2, <1>6, Predecessor
    <2>2. k \notin Bad /\ k <= top
      BY <1>1, <1>2, <2>1
    <2>3. UNION {f[u] : u \in Level(s, k)} = LevelInputs(s, 0)
      BY <2>2
    <2>4. LevelInputs(s, l) = Level(s, k)
      <3>1. l - 1 = k
        BY <2>1
      <3>2. QED
        BY <1>6, <3>1 DEF LevelInputs
    <2>5. \A u \in Level(s, l) : f[u] = UNION {f[v] : v \in units[u].inputs}
      BY <1>4, <1>6 DEF Made
    <2>6. UNION {f[u] : u \in Level(s, l)} = UNION {f[v] : v \in Level(s, k)}
      <3>1. ASSUME NEW x \in UNION {f[u] : u \in Level(s, l)}
            PROVE  x \in UNION {f[v] : v \in Level(s, k)}
        <4>1. PICK u \in Level(s, l) : x \in f[u]
          OBVIOUS
        <4>2. PICK v \in units[u].inputs : x \in f[v]
          BY <2>5, <4>1
        <4>3. v \in Level(s, k)
          BY <1>4, <2>4
        <4>4. QED
          BY <4>2, <4>3
      <3>2. ASSUME NEW x \in UNION {f[v] : v \in Level(s, k)}
            PROVE  x \in UNION {f[u] : u \in Level(s, l)}
        <4>1. PICK v \in Level(s, k) : x \in f[v]
          OBVIOUS
        <4>2. PICK u \in Level(s, l) : v \in units[u].inputs
          BY <1>3, <2>4 DEF Covered
        <4>3. x \in f[u]
          BY <2>5, <4>1, <4>2
        <4>4. QED
          BY <4>3
      <3>3. QED
        BY <3>1, <3>2
    <2>7. QED
      BY <1>2, <2>3, <2>6
  <1>7. QED
    BY <1>5, <1>6

\* A root that committed is all of its level, and so has all the leaves.
LEMMA RootHasAll ==
    ASSUME IInv, RootsOK, generation = 0
    PROVE  NoInputLost
  <1> SUFFICES ASSUME NEW s \in Stages, Mode[s] = "reduction",
                      NEW u \in UnitsOf(s), units[u].root,
                      units[u].state = "committed"
               PROVE  Leaves(s)[u] = LevelInputs(s, 0)
    BY DEF NoInputLost, Exposed
  <1>0. Types /\ Fed /\ StageOK(s) /\ RootOf(s, u) /\ u \in DOMAIN units
    BY DEF IInv, StagesOK, RootsOK, UnitsOf
  <1>1. ~Initial(s)
    BY <1>0, PlanFacts
  <1>2. PICK top : top = cursor[s].level
    OBVIOUS
  <1>3. top \in Nat
    BY <1>0, <1>2, RowFacts DEF CursorRow
  <1>4. cursor[s].attention = "" /\ units[u].level = top
    BY <1>0, <1>2 DEF RootOf
  <1>5. ReductionOK(s)
    BY <1>0, <1>1, <1>4 DEF StageOK
  <1>6. units[u].inputs # {}
    BY <1>0, <1>1 DEF Fed, UnitsOf
  <1>7. ~Stopped(u)
    BY DEF Stopped
  <1>8. Level(s, top) = {u} /\ LevelInputs(s, top) \subseteq units[u].inputs
    BY <1>0, <1>2, <1>6, <1>7 DEF RootOf
  <1>9. ASSUME NEW l \in 0..top PROVE Covered(s, l)
    <2>1. CASE l = top
      BY <1>8, <2>1 DEF Covered
    <2>2. CASE l < top
      BY <1>2, <1>5, <1>9, <2>2 DEF ReductionOK, LevelsCovered
    <2>3. l \in Nat /\ l <= top
      BY <1>3
    <2>4. QED
      BY <1>3, <2>1, <2>2, <2>3
  <1>10. PICK f : f = Leaves(s)
    OBVIOUS
  <1>11. \A v \in UnitsOf(s) : f[v] = Made(f, v)
    BY <1>4, <1>10, LeavesFacts
  <1>12. UNION {f[v] : v \in Level(s, top)} = LevelInputs(s, 0)
    BY <1>0, <1>3, <1>5, <1>9, <1>11, LevelsLoseNothing DEF ReductionOK
  <1>13. UNION {f[v] : v \in {u}} = f[u]
    OBVIOUS
  <1>14. QED
    BY <1>8, <1>10, <1>12, <1>13

\* As long as the owner has retried nothing, a reduction that hands a result
\* on has reduced all of its inputs, through however many levels: a level that
\* a unit failed in is never exposed as if it were whole.  A retry breaks
\* this, as the run MCDurableReduceRetry shows.
THEOREM NoInputLostUntilRetry == Spec => [](generation = 0 => NoInputLost)
  <1>1. Init => IInv /\ RootsOK
    BY InitIInv, RootsInit
  <1>2. IInv /\ RootsOK /\ [Next]_vars => IInv' /\ RootsOK'
    BY IInvNext, RootsNext
  <1>3. IInv /\ RootsOK => (generation = 0 => NoInputLost)
    BY RootHasAll
  <1>4. QED
    BY <1>1, <1>2, <1>3, PTL DEF Spec
=============================================================================
