--------------------------- MODULE MCDurableStages ---------------------------
(* Small plans for TLC.                                                    *)
EXTENDS DurableStages

Array(ids) == [array |-> TRUE, ids |-> ids]

\* Read every source, reduce the readings, render the result.
ReducePlan ==
    [mode |-> <<"per_source", "reduction", "singleton">>,
     dependsOn |-> <<{}, {1}, {2}>>,
     required |-> {1, 2, 3}, sources |-> 4, cap |-> <<4, 3, 1>>, fanIn |-> 3,
     partial |-> FALSE,
     payloads |-> <<{Array(<<>>), Array(<<"a">>), Array(<<"a", "b">>)},
                    {Array(<<"a">>), Array(<<"a", "b">>), NoPayload},
                    {Array(<<>>)}>>,
     failures |-> {"executor_permanent"}, tolerated |-> {"executor_permanent"},
     attentions |-> {"executor_unknown"}, decisions |-> 0]

\* A reduction of two levels, with an owner who decides.
RetryPlan ==
    [ReducePlan EXCEPT
        !.sources = 3, !.fanIn = 2,
        !.payloads = <<{Array(<<"a">>)}, {Array(<<"a">>), NoPayload},
                       {Array(<<>>)}>>,
        !.failures = {}, !.decisions = 1]

\* List the entries of every source, work on each, gather by source ...
GatherPlan ==
    [mode |-> <<"per_source", "entries", "per_source">>,
     dependsOn |-> <<{}, {1}, {2}>>,
     required |-> {1, 2, 3}, sources |-> 2, cap |-> <<2, 3, 2>>, fanIn |-> 2,
     partial |-> FALSE,
     payloads |-> <<{NoPayload, Array(<<>>), Array(<<"a", "b">>),
                     Array(<<"a", "a">>), Array(<<"">>)},
                    {Array(<<"a">>)}, {Array(<<>>)}>>,
     failures |-> {"executor_permanent"}, tolerated |-> {"executor_permanent"},
     attentions |-> {"executor_unknown"}, decisions |-> 1]

\* ... or treat listings and entries alike.
EachPlan ==
    [GatherPlan EXCEPT
        !.mode = <<"per_source", "entries", "per_dependency">>,
        !.dependsOn = <<{}, {1}, {1, 2}>>, !.required = {1, 2},
        !.sources = 1, !.cap = <<1, 2, 3>>,
        !.partial = TRUE,
        !.failures = {"executor_permanent", "contract_violation"}]

PassingPlans == {ReducePlan, GatherPlan, EachPlan}
RetryPlans == {RetryPlan}
=============================================================================
