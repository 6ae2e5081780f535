------------------------- MODULE MCDurableSubmission -------------------------
(* Small sets of deliveries for TLC.                                       *)
EXTENDS DurableSubmission

CONSTANTS d1, d2, d3

Everyone == {d1, d2, d3}

Request(kind, key, args, scheduled, boundary) ==
    [kind |-> kind, key |-> key, args |-> args, scheduled |-> scheduled,
     boundary |-> boundary]

\* Three equivalent requests under two keys; the scheduler delivers the
\* second one twice.
Equivalent ==
    [d \in Everyone |-> Request("adapted", IF d = d1 THEN "k1" ELSE "k2", "a",
                                d # d1, TRUE)]

\* A request over local sources and its two redeliveries.
Sealed == [d \in Everyone |-> Request("registered", "k1", "a", FALSE, TRUE)]

\* A single long step, redelivered once as it was and once with other
\* arguments, without an admission boundary.
Direct ==
    [d \in Everyone |-> Request("direct", "k1", IF d = d3 THEN "b" ELSE "a",
                                FALSE, FALSE)]

AllLoads == {Equivalent, Sealed, Direct}
=============================================================================
