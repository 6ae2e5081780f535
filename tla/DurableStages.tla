---------------------------- MODULE DurableStages ----------------------------
(***************************************************************************)
(* Materialisation of the later stages of a durable plan                   *)
(* (DurableWorkloadStore._materialize_ready_units_batch): the units of a   *)
(* stage are derived from the committed results of the stages it depends   *)
(* on, one candidate per step, behind a saved cursor.  A batch is a        *)
(* sequence of steps that a restart may cut anywhere, so one step is one   *)
(* action.  A reduction stage builds a tree: it groups the results of one  *)
(* level, waits until the groups are reduced, and groups those in turn.    *)
(*                                                                         *)
(* DurableWorkload has the leases, retries and budgets of a unit.  Here a  *)
(* unit is pending (or waits for a retry), running (or leased), or ended.  *)
(* Units are numbered in the order of their keys: the order is arbitrary   *)
(* but fixed, and is only used once all units of a stage exist.            *)
(***************************************************************************)
EXTENDS Integers, FiniteSets, FiniteSetsExt, Sequences

CONSTANTS
    Plans,           \* the plans a revision may be admitted with
    ByteLimit,       \* reduction_max_input_bytes
    MaxDependencies  \* _MAX_UNIT_DEPENDENCIES

(***************************************************************************)
(* A plan, with what the workers make of it:                               *)
(*   mode        cardinality mode of each stage, the inventory left out;   *)
(*               "entries" is per_dependency with an entry_identity_field, *)
(*               "reduction" has a fan_in                                  *)
(*   dependsOn   stage_dependencies without the inventory                  *)
(*   required    stages with required_flag                                 *)
(*   sources     number of accounted sources of the sealed inventory       *)
(*   cap         max_units of each stage                                   *)
(*   fanIn       reduction_fan_in                                          *)
(*   partial     partial_output_accepted                                   *)
(*   tolerated   tolerated_error_classes of a "declared" policy            *)
(*   payloads    what the runner of each stage may return                  *)
(*   failures    error classes an attempt may end with for good            *)
(*   attentions  error classes that need the owner                         *)
(*   decisions   bound: owner decisions to retry                           *)
(***************************************************************************)
ASSUME PlansAssumption ==
    \A p \in Plans :
        LET stages == DOMAIN p.mode
        IN  /\ IsFiniteSet(stages) /\ stages = 1..Cardinality(stages)
            /\ p.mode \in [stages -> {"singleton", "per_source",
                                      "per_dependency", "entries", "reduction"}]
            /\ p.dependsOn \in [stages -> SUBSET stages]
            /\ \A s \in stages :
                  /\ \A d \in p.dependsOn[s] : d < s
                  /\ p.mode[s] = "reduction" => Cardinality(p.dependsOn[s]) = 1
                  /\ p.dependsOn[s] = {} =>
                        p.mode[s] \in {"singleton", "per_source"}
            /\ p.required \subseteq stages
            /\ p.sources \in Nat
            /\ p.cap \in [stages -> Nat \ {0}]
            /\ p.fanIn \in Nat \ {0, 1}
            /\ p.partial \in BOOLEAN
            /\ p.decisions \in Nat
            /\ \A s \in stages : \A out \in p.payloads[s] :
                  out \in [array : BOOLEAN, ids : Seq(STRING)]
ASSUME LimitsAssumption == ByteLimit \in Nat /\ MaxDependencies \in Nat

VARIABLES
    plan,        \* revisions.plan_json, frozen by the admission
    workload,    \* workloads.state
    units,       \* the units table, with the payload each unit committed
    cursor,      \* stage_materialization
    generation,  \* revisions.manual_retry_generation
    replayed     \* "materialization cursor replayed a completed candidate"

tables == <<workload, units, cursor, generation, replayed>>

vars == <<plan, tables>>

Stages == DOMAIN plan.mode
Mode == plan.mode
DependsOn == plan.dependsOn
Sources == plan.sources

-----------------------------------------------------------------------------
(* Units.  A payload is its entries array: array says whether there is one,*)
(* ids are the identities of its items, "" for one that is not a string.   *)

NoPayload == [array |-> FALSE, ids |-> <<>>]

\* A candidate: the facts its unit key is a digest of, and its place.
Candidate(s, source, inputs, shard, level, ord) ==
    [stage |-> s, source |-> source, inputs |-> inputs, shard |-> shard,
     level |-> level, ord |-> ord, root |-> FALSE, state |-> "pending",
     gen |-> generation, error |-> "", out |-> NoPayload]

SameKey(a, b) ==
    /\ a.stage = b.stage
    /\ a.source = b.source
    /\ a.inputs = b.inputs
    /\ a.shard = b.shard

Shard(kind, n, m, id) == <<kind, n, m, id>>
NoShard == Shard("none", 0, 0, "")

Open == {"pending", "running"}

UnitsOf(s) == {u \in DOMAIN units : units[u].stage = s}

Level(s, l) == {u \in UnitsOf(s) : units[u].level = l}

\* The units that the stages after s may use: of a reduction, its root.
Exposed(s) == {u \in UnitsOf(s) : Mode[s] = "reduction" => units[u].root}

Initial(s) == DependsOn[s] = {}

-----------------------------------------------------------------------------
(* _next_materialization_stage.                                            *)

\* Seeded fault: a parent unit that waits for the owner counts as ended.
ParentsEndedForgetsAttention(s) ==
    \A p \in DependsOn[s] :
        /\ cursor[p].completed
        /\ \A u \in UnitsOf(p) : units[u].state \notin Open

\* Seeded fault: a parent that failed is waited for.
ParentsEndedCommitted(s) ==
    \A p \in DependsOn[s] :
        /\ cursor[p].completed
        /\ \A u \in UnitsOf(p) : units[u].state \in {"committed", "skipped"}

ParentsEnded(s) ==
    \A p \in DependsOn[s] :
        /\ cursor[p].completed
        /\ \A u \in UnitsOf(p) :
              units[u].state \notin Open \cup {"needs_attention"}

\* Seeded fault: a reduction does not wait for the level it has just built.
LevelEndedAtOnce(s) == TRUE

LevelEnded(s) ==
    cursor[s].waiting =>
        \A u \in Level(s, cursor[s].level) : units[u].state \notin Open

Ready(s) ==
    /\ ~cursor[s].completed
    /\ cursor[s].attention = ""
    /\ LevelEnded(s)
    /\ ParentsEnded(s)

\* The stage the next step of a batch works on.
Selected(s) ==
    /\ workload \in {"queued", "running"}
    /\ Ready(s)
    /\ \A t \in Stages : Ready(t) => s <= t

-----------------------------------------------------------------------------
(* insert_candidate and save_cursor.                                       *)

\* A candidate whose inputs are not all available.
Unavailable(row, reason, force) ==
    [row EXCEPT
        !.state = IF force \/ (row.stage \in plan.required /\ ~plan.partial)
                  THEN "needs_attention" ELSE "skipped",
        !.error = reason]

Full(s) == cursor[s].count >= plan.cap[s]

\* Inserts row and saves the cursor, or records why no unit can be added.  A
\* key that exists already is expected of an entry only (`identity`).
Insert(s, row, saved, identity) ==
    LET known == \E u \in DOMAIN units : SameKey(units[u], row)
        inserted == ~known /\ ~Full(s)
    IN  /\ replayed' = (replayed \/ (known /\ ~identity))
        /\ IF known /\ ~identity
           THEN UNCHANGED <<units, cursor>>
           ELSE /\ units' = IF inserted THEN Append(units, row) ELSE units
                /\ cursor' = [cursor EXCEPT ![s] =
                      [saved EXCEPT
                          !.count = IF inserted THEN @ + 1 ELSE @,
                          !.attention =
                              IF inserted THEN ""
                              ELSE IF known THEN "duplicate_entry_identity"
                              ELSE "stage_unit_cap_exceeded"]]
        /\ UNCHANGED <<workload, generation>>

SaveCursor(s, saved) ==
    /\ cursor' = [cursor EXCEPT ![s] = saved]
    /\ UNCHANGED <<workload, units, generation, replayed>>

-----------------------------------------------------------------------------
(* Stages that depend on all, on the matching, or on each of their parents.*)

\* The parents bound to a candidate, or the reason why there are none.
Inserted(s, parents, source, missing, saved) ==
    LET row == Candidate(s, source, parents, NoShard, -1, -1)
        none == Candidate(s, source, {}, Shard("unavailable", 0, 0, ""), -1, -1)
        Refuse(reason, force) ==
            Insert(s, Unavailable(none, reason, force), saved, FALSE)
    IN  IF Cardinality(parents) > MaxDependencies
        THEN Refuse("dependency_fan_in_exceeded", TRUE)
        ELSE IF \/ missing \/ parents = {}
                \/ \E u \in parents : units[u].state # "committed"
        THEN Refuse("dependency_result_unavailable", FALSE)
        ELSE Insert(s, row, saved, FALSE)

MaterializeSingleton(s) ==
    /\ Selected(s)
    /\ Mode[s] = "singleton"
    /\ Inserted(s, UNION {Exposed(p) : p \in DependsOn[s]}, 0, FALSE,
                [cursor[s] EXCEPT !.completed = TRUE])

\* A singleton parent serves every source, another one its own source.
Matching(p, source) ==
    {u \in Exposed(p) : Mode[p] \in {"singleton", "reduction"}
                        \/ units[u].source = source}

SourcesDone(k) == k > Sources

MaterializeSource(s) ==
    /\ Selected(s)
    /\ Mode[s] = "per_source"
    /\ LET source == cursor[s].source + 1
       IN  IF SourcesDone(source)
           THEN SaveCursor(s, [cursor[s] EXCEPT !.completed = TRUE])
           ELSE Inserted(s, UNION {Matching(p, source) : p \in DependsOn[s]},
                         source,
                         \E p \in DependsOn[s] : Matching(p, source) = {},
                         [cursor[s] EXCEPT !.source = source])

\* The parent units after the cursor, in the order of position and key.
Later(s) ==
    {u \in UNION {Exposed(p) : p \in DependsOn[s]} :
        \/ units[u].stage > cursor[s].position
        \/ units[u].stage = cursor[s].position /\ u > cursor[s].parent}

FirstOf(S) ==
    CHOOSE u \in S : \A v \in S :
        \/ units[u].stage < units[v].stage
        \/ units[u].stage = units[v].stage /\ u <= v

\* The parent unit of the next candidate: the one whose entries are being
\* read, or the first after the cursor.
InEntries(s) == cursor[s].entry > 0
NextParent(s) == IF InEntries(s) THEN cursor[s].parent ELSE FirstOf(Later(s))

\* The cursor on parent unit u, at the given entry (0: done with it).
At(s, u, entry) ==
    [cursor[s] EXCEPT !.position = units[u].stage, !.parent = u,
                      !.entry = entry]

EndOfParents(s) ==
    /\ Selected(s)
    /\ Mode[s] \in {"per_dependency", "entries"}
    /\ ~InEntries(s) /\ Later(s) = {}
    /\ SaveCursor(s, [cursor[s] EXCEPT !.completed = TRUE])

MaterializeDependency(s) ==
    /\ Selected(s)
    /\ Mode[s] \in {"per_dependency", "entries"}
    /\ InEntries(s) \/ Later(s) # {}
    /\ LET u == NextParent(s)
           Row(inputs, kind) ==
               Candidate(s, units[u].source, inputs, Shard(kind, u, 0, ""),
                         -1, -1)
       IN  \/ /\ units[u].state # "committed"
              /\ Insert(s, Unavailable(Row({}, "unavailable"),
                                       "dependency_result_unavailable", FALSE),
                        At(s, u, 0), FALSE)
           \/ /\ units[u].state = "committed"
              /\ Mode[s] = "per_dependency"
              /\ Insert(s, Row({u}, "result"), At(s, u, 0), FALSE)

\* Seeded fault: the last entry is taken for the end of the array.
NextEntryStopsShort(ids, e) == IF e + 1 < Len(ids) THEN e + 1 ELSE 0

\* The cursor after entry e of an array (_next_entry's finished).
NextEntry(ids, e) == IF e < Len(ids) THEN e + 1 ELSE 0

MaterializeEntry(s) ==
    /\ Selected(s)
    /\ Mode[s] = "entries"
    /\ InEntries(s) \/ Later(s) # {}
    /\ LET u == NextParent(s)
           ids == units[u].out.ids
           e == IF InEntries(s) THEN cursor[s].entry ELSE 1
           Block(code) ==
               SaveCursor(s, [cursor[s] EXCEPT !.attention = code])
       IN  /\ units[u].state = "committed"
           /\ IF ~units[u].out.array THEN Block("dependency_payload_invalid")
              ELSE IF ids = <<>> THEN SaveCursor(s, At(s, u, 0))
              ELSE IF ids[e] = "" THEN Block("entry_identity_invalid")
              ELSE Insert(s, Candidate(s, units[u].source, {u},
                                       Shard("entry", 0, 0, ids[e]), -1, -1),
                          At(s, u, NextEntry(ids, e)), TRUE)

-----------------------------------------------------------------------------
(* Hierarchical reduction.                                                 *)

\* What level l of the reduction s has to group.
LevelInputs(s, l) ==
    IF l = 0 THEN UNION {Exposed(p) : p \in DependsOn[s]} ELSE Level(s, l - 1)

\* The first n units of S.
Take(S, n) == {u \in S : Cardinality({v \in S : v < u}) < n}

\* length(entries): brackets, one byte an item, and the commas between them.
EntriesBytes(ids) == IF ids = <<>> THEN 2 ELSE 2 + Len(ids) + (Len(ids) - 1)

\* What the arrays of S hold between their brackets.
Contents(us, S) ==
    MapThenSumSet(LAMBDA u : EntriesBytes(us[u].out.ids) - 2, S)

\* Seeded fault: the commas between two arrays are forgotten.
CombinedBytesWithoutCommas(S) == 2 + Contents(units, S)

\* combined_bytes: the size of the one array that joins those of S.
CombinedBytes(S) ==
    LET nonempty == {u \in S : units[u].out.ids # <<>>}
    IN  2 + Contents(units, S)
          + (IF nonempty = {} THEN 0 ELSE Cardinality(nonempty) - 1)

\* How many of the units of S, in order, fit into one group.
Fitting(S) ==
    CHOOSE n \in 0..Cardinality(S) :
        /\ \A k \in 1..n : CombinedBytes(Take(S, k)) <= ByteLimit
        /\ n < Cardinality(S) => CombinedBytes(Take(S, n + 1)) > ByteLimit

\* One input fits and the next does not: the level would not shrink.
Stuck(window, n) == n = 1 /\ n < Cardinality(window)

\* The failed root of a reduction that cannot go on.
FailedRoot(s, ord, kind, reason) ==
    Unavailable([Candidate(s, 0, {}, Shard(kind, cursor[s].level, 0, ""),
                           cursor[s].level, ord) EXCEPT !.root = TRUE],
                reason, TRUE)

\* The cursor after a group: on its last input, waiting if no more follow.
Grouped(s, group, more) ==
    [cursor[s] EXCEPT !.parent = Max(group), !.ord = @ + 1, !.waiting = ~more]

ReduceGroup(s) ==
    /\ Selected(s)
    /\ Mode[s] = "reduction"
    /\ ~cursor[s].waiting
    /\ LET level == cursor[s].level
           ord == cursor[s].ord + 1
           left == {u \in LevelInputs(s, level) : u > cursor[s].parent}
           window == Take(left, plan.fanIn)
           n == Fitting(window)
           group == Take(window, n)
           done == [cursor[s] EXCEPT !.completed = TRUE]
           Fail(o, kind, reason) ==
               Insert(s, FailedRoot(s, o, kind, reason), done, FALSE)
       IN  IF LevelInputs(s, level) = {}
           THEN Fail(0, "unavailable", "dependency_result_unavailable")
           ELSE IF \E u \in window : units[u].state # "committed"
                                     \/ ~units[u].out.array
           THEN Fail(ord, "invalid-input", "dependency_result_unavailable")
           ELSE IF n = 0 /\ window # {}
           THEN Fail(ord, "input_too_large", "dependency_input_too_large")
           ELSE IF Stuck(window, n)
           THEN Fail(ord, "not_converging", "reduction_not_converging")
           ELSE IF window = {}
           THEN SaveCursor(s, [cursor[s] EXCEPT !.waiting = TRUE])
           ELSE Insert(s, Candidate(s, 0, group,
                                    Shard("reduction", level, ord, ""),
                                    level, ord),
                       Grouped(s, group, group # left), FALSE)

NextLevel(s) ==
    [cursor[s] EXCEPT !.parent = 0, !.level = @ + 1, !.ord = -1,
                      !.waiting = FALSE]

\* The unit _reduction_level_status offers as root: the first of the level
\* that did not commit, or else the first.
Root(s) ==
    LET all == Level(s, cursor[s].level)
        bad == {u \in all : units[u].state # "committed"}
        First(S) == CHOOSE u \in S : \A v \in S : units[u].ord <= units[v].ord
    IN  IF bad # {} THEN First(bad) ELSE First(all)

\* A level is complete: go up one level, or expose the root.
ReduceLevel(s) ==
    /\ Selected(s)
    /\ Mode[s] = "reduction"
    /\ cursor[s].waiting
    /\ LET all == Level(s, cursor[s].level)
           done == [cursor[s] EXCEPT !.completed = TRUE, !.waiting = FALSE]
       IN  IF all = {}
           THEN Insert(s, FailedRoot(s, 0, "unavailable",
                                     "dependency_result_unavailable"),
                       done, FALSE)
           ELSE IF /\ Cardinality(all) > 1
                   /\ \A u \in all : units[u].state = "committed"
           THEN SaveCursor(s, NextLevel(s))
           ELSE /\ units' = [units EXCEPT ![Root(s)].root = TRUE]
                /\ cursor' = [cursor EXCEPT ![s] = done]
                /\ UNCHANGED <<workload, generation, replayed>>

Materialize(s) ==
    \/ MaterializeSingleton(s)
    \/ MaterializeSource(s)
    \/ EndOfParents(s)
    \/ MaterializeDependency(s)
    \/ MaterializeEntry(s)
    \/ ReduceGroup(s)
    \/ ReduceLevel(s)

-----------------------------------------------------------------------------
(* The units and the workload around them; DurableWorkload has the detail. *)

Untolerated(us) ==
    {u \in DOMAIN us : /\ us[u].state = "failed_permanent"
                       /\ us[u].error \notin plan.tolerated}

\* An attention fact that no owner decision has answered yet.
Unanswered(us) ==
    {u \in DOMAIN us : /\ us[u].state = "needs_attention"
                       /\ us[u].gen >= generation}

CancelWaiting(us) ==
    [u \in DOMAIN us |->
        IF us[u].state \in {"pending", "needs_attention"}
        THEN [us[u] EXCEPT !.state = "cancelled"] ELSE us[u]]

Blocked == \E s \in Stages : cursor[s].attention # ""

\* _settle_workload_in_transaction, in the order of its checks.
Settle(w, us) ==
    LET active == \E u \in DOMAIN us : us[u].state = "running"
        To(state, rows) == workload' = state /\ units' = rows
    IN  IF w = "cancel_requested"
        THEN To(IF active THEN w ELSE "cancelled", CancelWaiting(us))
        ELSE IF w \notin {"queued", "running"} THEN To(w, us)
        ELSE IF Blocked \/ Unanswered(us) # {} THEN To("needs_attention", us)
        ELSE IF Untolerated(us) # {}
        THEN To(IF active THEN w ELSE "failed", CancelWaiting(us))
        ELSE To(w, us)

\* claim_next and start_attempt.
Claim(u) ==
    /\ workload \in {"queued", "running"}
    /\ Untolerated(units) = {}
    /\ \/ units[u].state = "pending"
       \/ units[u].state = "needs_attention" /\ units[u].gen < generation
    /\ units' = [units EXCEPT ![u].state = "running", ![u].error = "",
                              ![u].gen = IF units[u].state = "needs_attention"
                                         THEN generation ELSE @]
    /\ workload' = "running"
    /\ UNCHANGED <<cursor, generation, replayed>>

\* The execution of u ends: its row becomes `row`, and the workload settles.
End(u, row) ==
    /\ units[u].state = "running"
    /\ Settle(workload, [units EXCEPT ![u] = row])
    /\ UNCHANGED <<cursor, generation, replayed>>

\* A unit of a dependent stage without inputs fails before it runs
\* (execution.dependencies_unavailable).
HasInputs(u) == Initial(units[u].stage) \/ units[u].inputs # {}

Commit(u) ==
    \E out \in plan.payloads[units[u].stage] :
        /\ HasInputs(u)
        /\ End(u, [units[u] EXCEPT !.state = "committed", !.out = out])

FailPermanent(u) ==
    \E error \in plan.failures \cup {"contract_violation"} :
        /\ error \in plan.failures \/ ~HasInputs(u)
        /\ End(u, [units[u] EXCEPT !.state = "failed_permanent",
                                   !.error = error])

NeedAttention(u) ==
    \E error \in plan.attentions :
        End(u, [units[u] EXCEPT !.state = "needs_attention", !.error = error,
                                !.gen = generation])

\* A transient failure: the unit waits for its next attempt.
Retry(u) == End(u, [units[u] EXCEPT !.state = "pending"])

SettleWorkload ==
    /\ workload \in {"queued", "running", "cancel_requested"}
    /\ Settle(workload, units)
    /\ UNCHANGED <<cursor, generation, replayed>>

\* Attention classes that only a new revision can answer.
BlockedClasses ==
    {"budget_exhausted", "dependency_fan_in_exceeded",
     "dependency_result_missing", "dependency_result_unavailable"}

\* record_attention_resolution: the owner retries ...
ResolveRetry ==
    /\ workload = "needs_attention"
    /\ \A u \in DOMAIN units : units[u].state = "needs_attention" =>
                                units[u].error \notin BlockedClasses
    /\ ~Blocked
    /\ generation < plan.decisions
    /\ generation' = generation + 1
    /\ workload' = IF \E u \in DOMAIN units : units[u].state = "running"
                   THEN "running" ELSE "queued"
    /\ UNCHANGED <<units, cursor, replayed>>

\* ... or cancels, here or with a control command.
Cancel ==
    /\ workload \in {"queued", "running", "needs_attention"}
    /\ Settle("cancel_requested", units)
    /\ UNCHANGED <<cursor, generation, replayed>>

\* evaluate_completion, as far as stages and units decide it.
UnitCount(s) == Cardinality(UnitsOf(s))

Complete ==
    /\ workload = "running"
    /\ \A s \in Stages : cursor[s].completed /\ cursor[s].attention = ""
    /\ \A u \in DOMAIN units :
          units[u].state \in {"committed", "failed_permanent", "skipped"}
    /\ Untolerated(units) = {}
    /\ \A s \in plan.required :
          /\ Mode[s] = "per_source" => UnitCount(s) >= Sources
          /\ Mode[s] \in {"singleton", "reduction"} => UnitCount(s) >= 1
    /\ \A u \in DOMAIN units :
          units[u].state = "skipped" /\ units[u].stage \in plan.required =>
              plan.partial
    /\ workload' =
          IF \E u \in DOMAIN units :
                 \/ units[u].state = "failed_permanent"
                 \/ units[u].state = "skipped" /\ units[u].stage \in plan.required
          THEN "completed_with_errors" ELSE "completed"
    /\ UNCHANGED <<units, cursor, generation, replayed>>

-----------------------------------------------------------------------------

\* admit_revision: the units of the initial stages, one a source or one ...
InitialRows ==
    {r \in Stages \X (0..Sources) :
        Initial(r[1]) /\ (Mode[r[1]] = "per_source") = (r[2] > 0)}

RowBefore(r, q) == r[1] < q[1] \/ (r[1] = q[1] /\ r[2] < q[2])

InitialRow(i) ==
    CHOOSE r \in InitialRows :
        Cardinality({q \in InitialRows : RowBefore(q, r)}) = i - 1

\* ... and one cursor a stage.
Init ==
    /\ plan \in Plans
    /\ workload = "queued"
    /\ generation = 0
    /\ replayed = FALSE
    /\ units = [i \in 1..Cardinality(InitialRows) |->
          [stage |-> InitialRow(i)[1], source |-> InitialRow(i)[2],
           inputs |-> {}, shard |-> NoShard, level |-> -1, ord |-> -1,
           root |-> FALSE, state |-> "pending", gen |-> 0, error |-> "",
           out |-> NoPayload]]
    /\ cursor = [s \in Stages |->
          [completed |-> Initial(s), source |-> 0, position |-> 0,
           parent |-> 0, entry |-> 0, level |-> 0, ord |-> -1,
           waiting |-> FALSE, attention |-> "",
           count |-> IF Initial(s)
                     THEN IF Mode[s] = "per_source" THEN Sources ELSE 1
                     ELSE 0]]

Step ==
    \/ \E s \in Stages : Materialize(s)
    \/ \E u \in DOMAIN units :
          Claim(u) \/ Commit(u) \/ FailPermanent(u) \/ NeedAttention(u)
          \/ Retry(u)
    \/ SettleWorkload
    \/ ResolveRetry
    \/ Cancel
    \/ Complete

Next == Step /\ UNCHANGED plan

Spec == Init /\ [][Next]_vars

\* The service loop keeps materialising, claiming, settling and completing
\* (ExecutionBridge.run_once), and an execution ends for good sooner or later:
\* attempts are bounded by the retry policy and by the owner's decisions.
Fairness ==
    /\ WF_tables(\E s \in Stages : Materialize(s))
    /\ WF_tables(\E u \in DOMAIN units : Claim(u))
    /\ SF_tables(\E u \in DOMAIN units :
                  Commit(u) \/ FailPermanent(u) \/ NeedAttention(u))
    /\ WF_tables(SettleWorkload)
    /\ WF_tables(Complete)

FairSpec == Spec /\ Fairness

-----------------------------------------------------------------------------
(* Properties.                                                             *)

\* Type correctness; the inputs of a unit are units that exist already, so
\* the graph of units has no cycle.
TypeOK ==
    /\ workload \in {"queued", "running", "needs_attention", "failed",
                     "cancel_requested", "cancelled", "completed",
                     "completed_with_errors"}
    /\ \A u \in DOMAIN units :
          /\ units[u].stage \in Stages
          /\ units[u].source \in 0..Sources
          /\ \A i \in units[u].inputs : i \in 1..(u - 1)
          /\ units[u].state \in Open \cup {"needs_attention", "committed",
                 "failed_permanent", "skipped", "cancelled"}
          /\ units[u].gen \in 0..generation
    /\ \A s \in Stages :
          /\ cursor[s].completed \in BOOLEAN
          /\ cursor[s].waiting \in BOOLEAN
          /\ cursor[s].source \in 0..Sources
          /\ cursor[s].position \in {0} \cup Stages
          /\ cursor[s].parent \in 0..Len(units)
          /\ cursor[s].count = UnitCount(s)
    /\ generation \in 0..plan.decisions
    /\ replayed \in BOOLEAN

\* The saved cursor never leads back to a candidate that has a unit, however
\* a batch is cut: insert_candidate never raises "replayed a completed
\* candidate".
NeverReplayed == ~replayed

\* A finished stage has one unit for every candidate and no more: for every
\* source, for every parent unit, or for every entry of every parent.
EveryCandidateOnce ==
    \A s \in Stages :
        ~Initial(s) /\ cursor[s].completed /\ cursor[s].attention = "" =>
            LET parents == UNION {Exposed(p) : p \in DependsOn[s]}
                UsersOf(u) == {v \in UnitsOf(s) : units[v].inputs = {u}}
                committed == {u \in parents : units[u].state = "committed"}
                Ids(u) == units[u].out.ids
            IN  CASE Mode[s] = "per_source" ->
                     \A k \in 1..Sources :
                        Cardinality({v \in UnitsOf(s) :
                                        units[v].source = k}) = 1
                  [] Mode[s] = "per_dependency" ->
                     /\ UnitCount(s) = Cardinality(parents)
                     /\ \A u \in committed : Cardinality(UsersOf(u)) = 1
                  [] Mode[s] = "entries" ->
                     \A u \in committed :
                        /\ Cardinality(UsersOf(u)) = Len(Ids(u))
                        /\ \A e \in DOMAIN Ids(u) : \E v \in UsersOf(u) :
                              units[v].shard[4] = Ids(u)[e]
                  [] OTHER -> TRUE

\* The groups of a reduction level do not overlap, and when the level is
\* complete they hold all of its inputs.
LevelsPartitioned ==
    \A s \in Stages : Mode[s] = "reduction" /\ cursor[s].attention = "" =>
        /\ \A u, v \in UnitsOf(s) :
              u # v /\ units[u].level = units[v].level =>
                  units[u].inputs \cap units[v].inputs = {}
        /\ \A l \in 0..cursor[s].level :
              l < cursor[s].level \/ cursor[s].waiting =>
                  UNION {units[u].inputs : u \in Level(s, l)}
                      = LevelInputs(s, l)

\* Every candidate of a stage becomes one unit, however batches are cut.
CandidatesOnce ==
    TypeOK /\ NeverReplayed /\ EveryCandidateOnce /\ LevelsPartitioned

\* The items of the results of S.
Items(us, S) == MapThenSumSet(LAMBDA u : Len(us[u].out.ids), S)

\* The one array a reducer is given never exceeds the limit it was admitted
\* with: the executor would fail the unit for good.
GroupsFit ==
    \A u \in DOMAIN units :
        Mode[units[u].stage] = "reduction" =>
            LET items == Items(units, units[u].inputs)
            IN  items > 0 => 2 + items + (items - 1) <= ByteLimit

\* reduction.hierarchical_node_bound.
NodeBound[n \in Nat] ==
    LET produced == (Max({1, n}) + 1) \div 2
    IN  IF produced = 1 THEN 1 ELSE produced + NodeBound[produced]

\* The compiler's bound is honest: a reduction whose cap holds the bound for
\* its inputs never runs out of units.
NodeBoundHonest ==
    \A s \in Stages :
        /\ Mode[s] = "reduction"
        /\ ParentsEnded(s)
        /\ plan.cap[s] >= NodeBound[Cardinality(LevelInputs(s, 0))]
        => cursor[s].attention # "stage_unit_cap_exceeded"

\* A reduction stays within the limits it was admitted with.
ReductionBounded == GroupsFit /\ NodeBoundHonest

\* The results that a unit of a reduction was made from.
Leaves(s) ==
    LET under[u \in UnitsOf(s)] ==
            IF units[u].level = 0 THEN units[u].inputs
            ELSE UNION {under[v] : v \in units[u].inputs}
    IN  under

\* A reduction that hands a result on has reduced all of its inputs.
NoInputLost ==
    \A s \in Stages :
        Mode[s] = "reduction" =>
            \A u \in Exposed(s) :
                units[u].state = "committed" =>
                    Leaves(s)[u] = LevelInputs(s, 0)

\* Once a stage has a unit, what it was derived from does not change any
\* more: the stages it depends on expose the same units in the same states.
InputsFrozen ==
    [][\A s \in Stages : \A p \in DependsOn[s] :
          UnitsOf(s) # {} =>
              /\ Exposed(p)' = Exposed(p)
              /\ \A u \in Exposed(p) : units'[u].state = units[u].state]_vars

\* A workload does not stay busy for ever: materialisation, units and
\* settlement take it to an end or to the owner.
StagesEnd ==
    workload \in {"queued", "running"} ~> workload \notin {"queued", "running"}
=============================================================================
