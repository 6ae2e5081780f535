---------------------------- MODULE DurableOutbox ----------------------------
(***************************************************************************)
(* The notification outbox of the durable engine: rows of the outbox table *)
(* on the telegram channel, and the TelegramOutboxAdapter that leases and  *)
(* sends them.  Every store method is one transaction, hence one action;   *)
(* the provider is called between transactions, so a lease may expire, be  *)
(* given to another sender, or the sender may die, at any point of it.     *)
(*                                                                         *)
(* Only the order of instants matters: a row's timer is the instant it     *)
(* waits for (next_attempt_at, lease_expires_at, or the end of retention), *)
(* none, still running, or elapsed.  attempt_count and fence are raised    *)
(* together, by the claim only, so the row has one number for both; every  *)
(* adapter has the same worker id, so that number alone tells leases apart.*)
(***************************************************************************)
EXTENDS Naturals, FiniteSets

CONSTANTS
    Notices,      \* visible events, each with its row on the channel
    Senders,      \* adapters that run deliver_once
    NoRecord,     \* a sender between two records
    MaxAttempts,  \* TelegramOutboxAdapter.max_attempts
    Limit,        \* rows that one claim or one pruning takes at most
    MaxFence,     \* bound: claims of one row
    MaxFaults     \* bound: crashes and clock corrections

ASSUME NoRecordAssumption == NoRecord \notin [notice : Notices, fence : Nat]
ASSUME BoundsAssumption ==
    /\ MaxAttempts \in Nat \ {0}
    /\ Limit \in Nat \ {0}
    /\ MaxFence \in Nat
    /\ MaxFaults \in Nat

VARIABLES
    row,     \* the outbox table
    sender,  \* each deliver_once: its position and the records still to do
    shown,   \* how often the provider showed the notice to the owner
    calls,   \* history: provider calls made for the notice
    faults   \* history: crashes and clock corrections so far

vars == <<row, sender, shown, calls, faults>>

-----------------------------------------------------------------------------
\* Reasons that claim that the owner has not been shown the notice.
Unsent == {"recipient_unavailable", "event_not_supported",
           "provider_rejected", "retry_exhausted"}

Ack == {"null", "started", "sent", "delivery_ambiguous"} \cup Unsent

Record == [notice : Notices, fence : Nat \ {0}]

\* A deliver_once between two records, with those that are left.
Between(left) ==
    [pc |-> "idle", left |-> left, at |-> NoRecord, outcome |-> "none"]

Idle == Between({})

\* Seeded fault: the fence is not compared.
OwnsAnyFence(rec) == row[rec.notice].state = "leased"

\* The row is still leased to the holder of this record.
Owns(rec) ==
    /\ row[rec.notice].state = "leased"
    /\ row[rec.notice].fence = rec.fence

\* The end of a row, with its acknowledgement; retention begins.
Ended(r, state, ack) ==
    [state |-> state, ack |-> ack, fence |-> r.fence, timer |-> "running"]

\* confirm_outbox and cancel_outbox: nothing happens without the lease.
Finish(rec, state, ack) ==
    row' = IF Owns(rec)
           THEN [row EXCEPT ![rec.notice] = Ended(@, state, ack)]
           ELSE row

Returned(r) ==
    [state |-> "pending", ack |-> "null", fence |-> r.fence,
     timer |-> "running"]

\* release_outbox: the row waits for its next attempt.
ReleaseOutbox(rec) ==
    row' = IF Owns(rec)
           THEN [row EXCEPT ![rec.notice] = Returned(@)]
           ELSE row

\* Seeded fault: one retry too many.
RetryOrCancelOffByOne(rec) ==
    IF rec.fence > MaxAttempts
    THEN Finish(rec, "cancelled", "retry_exhausted")
    ELSE ReleaseOutbox(rec)

\* _retry_or_cancel: bounds a loop of sends that certainly showed nothing.
RetryOrCancel(rec) ==
    IF rec.fence >= MaxAttempts
    THEN Finish(rec, "cancelled", "retry_exhausted")
    ELSE ReleaseOutbox(rec)

-----------------------------------------------------------------------------
(* The store.                                                              *)

\* _enqueue_notification_in_transaction, of a transaction that changes the
\* workload.  The marker row of channel owner_event, written as sent and
\* never leased, is left out.
Enqueue(n) ==
    /\ row[n].state = "none"
    /\ row' = [row EXCEPT ![n].state = "pending"]
    /\ UNCHANGED <<sender, shown, calls, faults>>

\* Seeded fault: a lease that expired is never looked at again.
CandidatesForgetLeased ==
    {n \in Notices : row[n].state = "pending" /\ row[n].timer # "running"}

Candidates ==
    {n \in Notices :
        \/ row[n].state = "pending" /\ row[n].timer # "running"
        \/ row[n].state = "leased" /\ row[n].timer = "elapsed"}

\* Seeded fault: the boundary before the provider call is not looked at.
StartedForgotten(n) == FALSE

\* An expired lease whose delivery had started is in doubt.
Started(n) == row[n].state = "leased" /\ row[n].ack = "started"

\* The records that claim_outbox returns for the rows it leased.
Claimed(B) == {[notice |-> n, fence |-> row[n].fence + 1] : n \in B}

Leased(r) ==
    [state |-> "leased", ack |-> r.ack, fence |-> r.fence + 1,
     timer |-> "running"]

\* claim_outbox leases the batch B, and gives up the started rows in it.
ClaimBatch(s, B) ==
    LET doubtful == {n \in B : Started(n)}
    IN  /\ \A n \in B \ doubtful : row[n].fence < MaxFence
        /\ row' = [n \in Notices |->
               IF n \in doubtful
               THEN Ended(row[n], "cancelled", "delivery_ambiguous")
               ELSE IF n \in B
               THEN Leased(row[n])
               ELSE row[n]]
        /\ sender' = [sender EXCEPT ![s] = Between(Claimed(B \ doubtful))]
        /\ UNCHANGED <<shown, calls, faults>>

\* Every way to fill one bounded batch from the rows in S.
Batches(S) ==
    {B \in SUBSET S : \/ Cardinality(B) = Limit
                      \/ Cardinality(B) < Limit /\ B = S}

ClaimOutbox(s) ==
    /\ sender[s] = Idle
    /\ Candidates # {}
    /\ \E B \in Batches(Candidates) : ClaimBatch(s, B)

Prunable ==
    {n \in Notices : /\ row[n].state \in {"sent", "cancelled"}
                     /\ row[n].timer = "elapsed"}

\* prune_outbox deletes rows that ended long ago.  What a deleted row held
\* stays in the model for the properties only.
PruneOutbox ==
    /\ Prunable # {}
    /\ \E B \in Batches(Prunable) :
          row' = [n \in Notices |->
                     IF n \in B THEN [row[n] EXCEPT !.state = "gone"]
                     ELSE row[n]]
    /\ UNCHANGED <<sender, shown, calls, faults>>

-----------------------------------------------------------------------------
(* deliver_once, for each record of its batch.                             *)

\* The sender goes on to its next record.
Done(s, rec) ==
    sender' = [sender EXCEPT ![s] = Between(sender[s].left \ {rec})]

\* The recipient could not be looked up, or the store or the rendering failed
\* before the delivery started.
Postpone(s) ==
    /\ sender[s].pc = "idle"
    /\ \E rec \in sender[s].left : RetryOrCancel(rec) /\ Done(s, rec)
    /\ UNCHANGED <<shown, calls, faults>>

\* The owner has no verified chat, or the event has no notice.
Undeliverable(s) ==
    /\ sender[s].pc = "idle"
    /\ \E rec \in sender[s].left,
          reason \in {"recipient_unavailable", "event_not_supported"} :
             Finish(rec, "cancelled", reason) /\ Done(s, rec)
    /\ UNCHANGED <<shown, calls, faults>>

\* mark_outbox_delivery_started: the boundary after which nothing is retried
\* without evidence.  It does not look at the expiry of the lease.
MarkDeliveryStarted(s) ==
    /\ sender[s].pc = "idle"
    /\ \E rec \in sender[s].left :
          \/ /\ Owns(rec) /\ row[rec.notice].ack \in {"null", "started"}
             /\ row' = [row EXCEPT ![rec.notice].ack = "started"]
             /\ sender' = [sender EXCEPT ![s] =
                    [pc |-> "sending", left |-> sender[s].left \ {rec},
                     at |-> rec, outcome |-> "none"]]
          \/ /\ ~(Owns(rec) /\ row[rec.notice].ack \in {"null", "started"})
             /\ Done(s, rec)
             /\ UNCHANGED row
    /\ UNCHANGED <<shown, calls, faults>>

\* The provider call.  A call that raised, timed out, stopped after a part of
\* the text or answered without evidence may have shown the notice.
Send(s) ==
    LET n == sender[s].at.notice
    IN  /\ sender[s].pc = "sending"
        /\ \E outcome \in {"ok", "ambiguous", "rejected", "unsent"} :
             /\ sender' = [sender EXCEPT ![s] =
                    [pc |-> "answered", left |-> sender[s].left,
                     at |-> sender[s].at, outcome |-> outcome]]
             /\ \/ outcome \in {"ok", "ambiguous"}
                   /\ shown' = [shown EXCEPT ![n] = @ + 1]
                \/ outcome # "ok" /\ UNCHANGED shown
        /\ calls' = [calls EXCEPT ![n] = @ + 1]
        /\ UNCHANGED <<row, faults>>

\* Seeded fault: an answer without evidence is retried.
DispositionRetriesDoubt(rec, outcome) ==
    \/ outcome = "ok" /\ Finish(rec, "sent", "sent")
    \/ outcome = "rejected" /\ Finish(rec, "cancelled", "provider_rejected")
    \/ outcome \in {"ambiguous", "unsent"} /\ RetryOrCancel(rec)

\* What each answer of the provider leads to.
Disposition(rec, outcome) ==
    \/ outcome = "ok" /\ Finish(rec, "sent", "sent")
    \/ outcome = "ambiguous" /\ Finish(rec, "cancelled", "delivery_ambiguous")
    \/ outcome = "rejected" /\ Finish(rec, "cancelled", "provider_rejected")
    \/ outcome = "unsent" /\ RetryOrCancel(rec)

Conclude(s) ==
    /\ sender[s].pc = "answered"
    /\ Disposition(sender[s].at, sender[s].outcome)
    /\ Done(s, sender[s].at)
    /\ UNCHANGED <<shown, calls, faults>>

\* The store failed after the provider answered: the row is given up.
ConcludeFails(s) ==
    /\ sender[s].pc = "answered"
    /\ Finish(sender[s].at, "cancelled", "delivery_ambiguous")
    /\ Done(s, sender[s].at)
    /\ UNCHANGED <<shown, calls, faults>>

\* The daemon died, or the store failed twice: the batch is forgotten.
Crash(s) ==
    /\ sender[s] # Idle
    /\ faults < MaxFaults
    /\ sender' = [sender EXCEPT ![s] = Idle]
    /\ faults' = faults + 1
    /\ UNCHANGED <<row, shown, calls>>

-----------------------------------------------------------------------------
(* Time.                                                                   *)

Elapse(n) ==
    /\ row[n].timer = "running"
    /\ row' = [row EXCEPT ![n].timer = "elapsed"]
    /\ UNCHANGED <<sender, shown, calls, faults>>

\* The wall clock is set back before an instant that had passed.
SetBack(n) ==
    /\ row[n].timer = "elapsed"
    /\ faults < MaxFaults
    /\ row' = [row EXCEPT ![n].timer = "running"]
    /\ faults' = faults + 1
    /\ UNCHANGED <<sender, shown, calls>>

-----------------------------------------------------------------------------
Init ==
    /\ row = [n \in Notices |-> [state |-> "none", ack |-> "null",
                                 fence |-> 0, timer |-> "none"]]
    /\ sender = [s \in Senders |-> Idle]
    /\ shown = [n \in Notices |-> 0]
    /\ calls = [n \in Notices |-> 0]
    /\ faults = 0

Deliver(s) ==
    \/ Postpone(s) \/ Undeliverable(s) \/ MarkDeliveryStarted(s)
    \/ Send(s) \/ Conclude(s) \/ ConcludeFails(s)

Next ==
    \/ \E n \in Notices : Enqueue(n) \/ Elapse(n) \/ SetBack(n)
    \/ \E s \in Senders : ClaimOutbox(s) \/ Deliver(s) \/ Crash(s)
    \/ PruneOutbox

Spec == Init /\ [][Next]_vars

(***************************************************************************)
(* Fairness.  The channel daemon calls deliver_once on every turn of its   *)
(* loop, every provider call has a timeout, and instants pass.  Nothing is *)
(* assumed of the provider's answers.                                      *)
(***************************************************************************)
Fairness ==
    /\ \A s \in Senders : WF_vars(ClaimOutbox(s)) /\ WF_vars(Deliver(s))
    /\ \A n \in Notices : WF_vars(Elapse(n))

FairSpec == Spec /\ Fairness

-----------------------------------------------------------------------------
(* Properties.                                                             *)

OutboxRow ==
    [state : {"none", "pending", "leased", "sent", "cancelled", "gone"},
     ack : Ack, fence : Nat, timer : {"none", "running", "elapsed"}]

SenderState ==
    [pc : {"idle", "sending", "answered"}, left : SUBSET Record,
     at : Record \cup {NoRecord},
     outcome : {"none", "ok", "ambiguous", "rejected", "unsent"}]

\* Every column has a value of its domain, and a claimed record a fence that
\* the row was leased with.
TypeOK ==
    /\ row \in [Notices -> OutboxRow]
    /\ sender \in [Senders -> SenderState]
    /\ shown \in [Notices -> Nat]
    /\ calls \in [Notices -> Nat]
    /\ faults \in Nat

\* The owner sees a notice at most once, whatever senders race, leases expire
\* or daemons die (deliver_once never retries an ambiguous provider effect).
AtMostOnce == \A n \in Notices : shown[n] <= 1

\* The acknowledgement tells the truth: "sent" was shown, and a reason that
\* says the notice was not sent is never given to one that was, or will be.
AckTruthful ==
    \A n \in Notices :
        /\ row[n].ack = "sent" => shown[n] = 1
        /\ row[n].ack \in Unsent =>
              /\ shown[n] = 0
              /\ \A s \in Senders :
                    sender[s].pc = "sending" => sender[s].at.notice # n

\* max_attempts bounds the provider calls of a notice, although the claim
\* does not look at it and a crash costs an attempt without a call.
CallsBounded == \A n \in Notices : calls[n] <= MaxAttempts

\* What a row says of its notice.
VerdictOf(r) ==
    IF r.state = "none" THEN "none"
    ELSE IF r.ack \in {"null", "started"} THEN "open"
    ELSE IF r.ack = "sent" THEN "sent"
    ELSE IF r.ack = "delivery_ambiguous" THEN "doubt"
    ELSE "dropped"

Verdicts == [n \in Notices |-> VerdictOf(row[n])]

Notice == INSTANCE NoticeOnce WITH verdict <- Verdicts

\* The outbox implements NoticeOnce.
ImplementsNotice == Notice!Spec

\* Every notice is settled, if crashes, clock corrections and leases lost to
\* another sender come to an end before its row is claimed MaxFence times.
Settles ==
    \A n \in Notices :
        row[n].state \in {"pending", "leased"} ~>
            \/ row[n].state \notin {"pending", "leased"}
            \/ row[n].fence = MaxFence
=============================================================================
