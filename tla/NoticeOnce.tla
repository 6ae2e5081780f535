------------------------------ MODULE NoticeOnce ------------------------------
(***************************************************************************)
(* What the notification outbox promises: a notice is shown to the owner at*)
(* most once, and a verdict about it is never wrong.  A notice that may or *)
(* may not have been shown is in doubt, and stays so.                      *)
(***************************************************************************)
EXTENDS Naturals

CONSTANT Notices

VARIABLES
    verdict,  \* what the system knows of each notice
    shown     \* how often the owner has seen it

Init ==
    /\ verdict = [n \in Notices |-> "none"]
    /\ shown = [n \in Notices |-> 0]

Post(n) ==
    /\ verdict[n] = "none"
    /\ verdict' = [verdict EXCEPT ![n] = "open"]
    /\ UNCHANGED shown

Show(n) ==
    /\ verdict[n] \in {"open", "doubt"} /\ shown[n] = 0
    /\ shown' = [shown EXCEPT ![n] = 1]
    /\ UNCHANGED verdict

Close(n) ==
    /\ verdict[n] = "open"
    /\ \/ shown[n] = 1 /\ verdict' = [verdict EXCEPT ![n] = "sent"]
       \/ shown[n] = 0 /\ verdict' = [verdict EXCEPT ![n] = "dropped"]
    /\ UNCHANGED shown

\* One look at the queue may give up several notices.
GiveUp(S) ==
    /\ \A n \in S : verdict[n] = "open"
    /\ verdict' = [n \in Notices |-> IF n \in S THEN "doubt" ELSE verdict[n]]
    /\ UNCHANGED shown

Next ==
    \/ \E n \in Notices : Post(n) \/ Show(n) \/ Close(n)
    \/ \E S \in SUBSET Notices : GiveUp(S)

Spec == Init /\ [][Next]_<<verdict, shown>>
===============================================================================
