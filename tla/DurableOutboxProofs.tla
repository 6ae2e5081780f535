-------------------------- MODULE DurableOutboxProofs --------------------------
(***************************************************************************)
(* Theorems about DurableOutbox, for every set of notices and senders and  *)
(* every value of the bounds.  The argument: a record that a sender is     *)
(* about to send, or has sent, is the newest lease of its row (Holding),   *)
(* no two senders ever hold the same record (Apart), what the row          *)
(* acknowledges fits what the owner was shown (Truth), and every call had  *)
(* a fence of its own (Budget).                                            *)
(***************************************************************************)
EXTENDS DurableOutbox, TLAPS

Delivering(s) == sender[s].pc \in {"sending", "answered"}

\* A sender has a current record exactly while it delivers.
Position ==
    \A s \in Senders :
        Delivering(s) => sender[s].at \in Record \ sender[s].left

\* No record is newer than its row, and one that still holds an undelivered
\* lease has not been started.  A delivery in progress is the newest lease;
\* its row is leased and marked, or was given up meanwhile.
Holding ==
    \A s \in Senders :
        /\ \A rec \in sender[s].left :
              /\ rec.fence <= row[rec.notice].fence
              /\ Owns(rec) => row[rec.notice].ack = "null"
        /\ Delivering(s) =>
              /\ sender[s].at.fence = row[sender[s].at.notice].fence
              /\ \/ /\ row[sender[s].at.notice].state = "leased"
                    /\ row[sender[s].at.notice].ack = "started"
                 \/ /\ row[sender[s].at.notice].state \in {"cancelled", "gone"}
                    /\ row[sender[s].at.notice].ack = "delivery_ambiguous"

\* A claim gives every record a new fence, so no two senders share one.
Apart ==
    \A s, t \in Senders :
        s # t =>
            /\ sender[s].left \cap sender[t].left = {}
            /\ Delivering(s) => sender[s].at \notin sender[t].left
            /\ Delivering(s) /\ Delivering(t) => sender[s].at # sender[t].at

\* What a row knows about the owner's screen is true.
RowTruth ==
    \A n \in Notices :
        /\ row[n].state \in {"none", "pending"} => row[n].ack = "null"
        /\ row[n].state = "leased" => row[n].ack \in {"null", "started"}
        /\ row[n].state \in {"sent", "cancelled", "gone"} =>
              row[n].ack \notin {"null", "started"}
        /\ row[n].ack \in {"null"} \cup Unsent => shown[n] = 0
        /\ row[n].ack = "sent" => shown[n] = 1
        /\ shown[n] <= 1

\* What a sender knows about the owner's screen is true.
SenderTruth ==
    \A s \in Senders :
        /\ sender[s].pc = "sending" => shown[sender[s].at.notice] = 0
        /\ sender[s].pc = "answered" =>
              /\ sender[s].outcome = "ok" => shown[sender[s].at.notice] = 1
              /\ sender[s].outcome \in {"rejected", "unsent"} =>
                    shown[sender[s].at.notice] = 0

\* Every provider call had a fence of its own, and one more is allowed as
\* long as the row may be delivered.
Budget ==
    /\ \A n \in Notices :
         /\ calls[n] <= row[n].fence
         /\ calls[n] <= MaxAttempts
         /\ row[n].ack = "null" => calls[n] < MaxAttempts
         /\ row[n].ack = "null" /\ row[n].state = "leased" =>
               calls[n] < row[n].fence
    /\ \A s \in Senders :
         sender[s].pc = "sending" =>
            /\ calls[sender[s].at.notice] < MaxAttempts
            /\ calls[sender[s].at.notice] < sender[s].at.fence

IInv ==
    TypeOK /\ Position /\ Holding /\ Apart /\ RowTruth /\ SenderTruth /\ Budget

-----------------------------------------------------------------------------
\* The initial state satisfies the invariant: nothing is enqueued or held.
LEMMA InvInit == Init => IInv
<1> SUFFICES ASSUME Init PROVE IInv
  OBVIOUS
<1>1. TypeOK
  BY NoRecordAssumption DEF Init, TypeOK, OutboxRow, SenderState, Ack, Idle, Between
<1>2. \A s \in Senders : ~Delivering(s) /\ sender[s].left = {}
  BY DEF Init, Idle, Between, Delivering
<1>3. \A n \in Notices : /\ row[n].state = "none" /\ row[n].ack = "null"
                         /\ row[n].fence = 0 /\ shown[n] = 0 /\ calls[n] = 0
  BY DEF Init
<1>4. Position /\ Holding /\ Apart
  BY <1>2 DEF Position, Holding, Apart
<1>5. RowTruth /\ Budget /\ SenderTruth
  BY <1>2, <1>3, BoundsAssumption DEF RowTruth, Budget, SenderTruth, Unsent, Delivering
<1> QED
  BY <1>1, <1>4, <1>5 DEF IInv

\* The row after a transaction on a record that a sender holds: unless the
\* record owns its row nothing changes, and no other row ever does.
LEMMA FinishRows ==
  ASSUME TypeOK, NEW rec \in Record,
         NEW state \in {"sent", "cancelled"}, NEW ack \in Ack,
         Finish(rec, state, ack)
  PROVE  /\ row' \in [Notices -> OutboxRow]
         /\ ~Owns(rec) => row' = row
         /\ Owns(rec) => /\ row'[rec.notice].state = state
                         /\ row'[rec.notice].ack = ack
                         /\ row'[rec.notice].fence = row[rec.notice].fence
         /\ \A n \in Notices : n # rec.notice => row'[n] = row[n]
<1>1. rec.notice \in Notices
  BY DEF Record
<1>2. row \in [Notices -> OutboxRow]
  BY DEF TypeOK
<1>3. Ended(row[rec.notice], state, ack) \in OutboxRow
  BY <1>1, <1>2 DEF Ended, OutboxRow
<1> QED
  BY <1>1, <1>2, <1>3 DEF Finish, Ended

LEMMA ReleaseRows ==
  ASSUME TypeOK, NEW rec \in Record, ReleaseOutbox(rec)
  PROVE  /\ row' \in [Notices -> OutboxRow]
         /\ ~Owns(rec) => row' = row
         /\ Owns(rec) => /\ row'[rec.notice].state = "pending"
                         /\ row'[rec.notice].ack = "null"
                         /\ row'[rec.notice].fence = row[rec.notice].fence
         /\ \A n \in Notices : n # rec.notice => row'[n] = row[n]
<1>1. rec.notice \in Notices
  BY DEF Record
<1>2. row \in [Notices -> OutboxRow]
  BY DEF TypeOK
<1>3. Returned(row[rec.notice]) \in OutboxRow
  BY <1>1, <1>2 DEF Returned, OutboxRow, Ack
<1> QED
  BY <1>1, <1>2, <1>3 DEF ReleaseOutbox, Returned

\* Two records of the same notice and fence are the same record.
LEMMA SameRecord ==
  \A a, b \in Record : a.notice = b.notice /\ a.fence = b.fence => a = b
BY DEF Record

\* The invariant survives any transaction that settles or releases the row of
\* a record its sender is done with, if the new acknowledgement is true.
LEMMA RecordDone ==
  ASSUME IInv, NEW s \in Senders, NEW rec \in Record,
         Done(s, rec), UNCHANGED <<shown, calls, faults>>,
         \/ sender[s].pc = "idle" /\ rec \in sender[s].left
         \/ Delivering(s) /\ rec = sender[s].at,
         row' \in [Notices -> OutboxRow],
         \A n \in Notices : n # rec.notice => row'[n] = row[n],
         ~Owns(rec) => row' = row,
         Owns(rec) =>
            /\ row'[rec.notice].fence = row[rec.notice].fence
            /\ row'[rec.notice].state \in {"pending", "sent", "cancelled"}
            /\ row'[rec.notice].state = "pending" => row'[rec.notice].ack = "null"
            /\ row'[rec.notice].state # "pending" =>
                  row'[rec.notice].ack \notin {"null", "started"}
            /\ row'[rec.notice].ack \in {"null"} \cup Unsent =>
                  shown[rec.notice] = 0
            /\ row'[rec.notice].ack = "sent" => shown[rec.notice] = 1
            /\ row'[rec.notice].ack = "null" => calls[rec.notice] < MaxAttempts
  PROVE  IInv'
<1>1. /\ rec.notice \in Notices /\ rec.fence \in Nat
      /\ row \in [Notices -> OutboxRow] /\ sender \in [Senders -> SenderState]
  BY DEF Record, IInv, TypeOK
<1>2. /\ sender' = [sender EXCEPT ![s] = Between(sender[s].left \ {rec})]
      /\ sender'[s] = Between(sender[s].left \ {rec})
      /\ \A t \in Senders : t # s => sender'[t] = sender[t]
  BY <1>1 DEF Done
<1>3. sender'[s].pc = "idle" /\ sender'[s].left = sender[s].left \ {rec}
  BY <1>2 DEF Between
<1>4. \A t \in Senders : sender'[t].left \subseteq sender[t].left
  BY <1>2, <1>3
<1>5. \A t \in Senders : Delivering(t)' => t # s /\ Delivering(t)
                                           /\ sender'[t] = sender[t]
  BY <1>2, <1>3 DEF Delivering
<1>6. \A t \in Senders : sender[t].left \subseteq Record
  BY <1>1 DEF SenderState
<1>7. ASSUME NEW t \in Senders, Delivering(t), t # s, Owns(rec)
      PROVE  sender[t].at.notice # rec.notice
  <2>1. sender[t].at \in Record /\ sender[t].at # rec
    BY <1>7 DEF IInv, Position, Apart, Delivering
  <2>2. sender[t].at.fence = row[sender[t].at.notice].fence
    BY <1>7 DEF IInv, Holding
  <2> QED
    BY <1>7, <2>1, <2>2, SameRecord DEF Owns
<1>8. TypeOK'
  <2>1. Between(sender[s].left \ {rec}) \in SenderState
    BY <1>6 DEF Between, SenderState
  <2>2. sender' \in [Senders -> SenderState]
    BY <1>1, <1>2, <2>1
  <2> QED
    BY <2>2 DEF IInv, TypeOK
<1>9. Position'
  BY <1>5 DEF IInv, Position, Delivering
<1>10. Holding'
  <2> SUFFICES ASSUME NEW t \in Senders
               PROVE  /\ \A a \in sender'[t].left :
                            /\ a.fence <= row'[a.notice].fence
                            /\ Owns(a)' => row'[a.notice].ack = "null"
                      /\ Delivering(t)' =>
                            /\ sender'[t].at.fence = row'[sender'[t].at.notice].fence
                            /\ \/ /\ row'[sender'[t].at.notice].state = "leased"
                                  /\ row'[sender'[t].at.notice].ack = "started"
                               \/ /\ row'[sender'[t].at.notice].state \in {"cancelled", "gone"}
                                  /\ row'[sender'[t].at.notice].ack = "delivery_ambiguous"
    BY DEF Holding
  <2>1. ASSUME NEW a \in sender'[t].left
        PROVE  a.fence <= row'[a.notice].fence /\ (Owns(a)' => row'[a.notice].ack = "null")
    <3>1. a \in Record /\ a \in sender[t].left /\ a.notice \in Notices
      BY <1>4, <1>6, <2>1 DEF Record
    <3>2. a.fence <= row[a.notice].fence /\ (Owns(a) => row[a.notice].ack = "null")
      BY <3>1 DEF IInv, Holding
    <3>3. CASE row'[a.notice] = row[a.notice]
      BY <3>2, <3>3 DEF Owns
    <3>4. CASE a.notice = rec.notice /\ Owns(rec)
      BY <3>2, <3>4 DEF Owns
    <3> QED
      BY <3>1, <3>3, <3>4
  <2>2. ASSUME Delivering(t)'
        PROVE  row'[sender'[t].at.notice] = row[sender[t].at.notice]
    <3>1. t # s /\ Delivering(t) /\ sender'[t] = sender[t]
      BY <1>5, <2>2
    <3>2. sender[t].at.notice \in Notices
      BY <3>1 DEF IInv, Position, Record
    <3> QED
      BY <3>1, <3>2, <1>7
  <2> QED
    BY <2>1, <2>2, <1>5 DEF IInv, Holding
<1>11. Apart'
  BY <1>4, <1>5 DEF IInv, Apart
<1>12. RowTruth'
  <2> SUFFICES ASSUME NEW m \in Notices
               PROVE  /\ row'[m].state \in {"none", "pending"} => row'[m].ack = "null"
                      /\ row'[m].state = "leased" => row'[m].ack \in {"null", "started"}
                      /\ row'[m].state \in {"sent", "cancelled", "gone"} =>
                            row'[m].ack \notin {"null", "started"}
                      /\ row'[m].ack \in {"null"} \cup Unsent => shown[m] = 0
                      /\ row'[m].ack = "sent" => shown[m] = 1
                      /\ shown[m] <= 1
    BY DEF RowTruth
  <2>1. CASE row'[m] = row[m]
    BY <2>1 DEF IInv, RowTruth
  <2>2. CASE m = rec.notice /\ Owns(rec)
    <3>1. shown[m] <= 1
      BY DEF IInv, RowTruth
    <3> QED
      BY <2>2, <3>1
  <2> QED
    BY <2>1, <2>2
<1>13. SenderTruth'
  BY <1>5 DEF IInv, SenderTruth, Delivering
<1>14. Budget'
  <2>1. ASSUME NEW m \in Notices
        PROVE  /\ calls[m] <= row'[m].fence
               /\ calls[m] <= MaxAttempts
               /\ row'[m].ack = "null" => calls[m] < MaxAttempts
               /\ row'[m].ack = "null" /\ row'[m].state = "leased" =>
                     calls[m] < row'[m].fence
    <3>1. CASE row'[m] = row[m]
      BY <3>1 DEF IInv, Budget
    <3>2. CASE m = rec.notice /\ Owns(rec)
      BY <3>2 DEF IInv, Budget
    <3> QED
      BY <3>1, <3>2
  <2>2. ASSUME NEW t \in Senders, sender'[t].pc = "sending"
        PROVE  sender'[t] = sender[t]
    BY <1>5, <2>2 DEF Delivering
  <2> QED
    BY <2>1, <2>2 DEF IInv, Budget
<1> QED
  BY <1>8, <1>9, <1>10, <1>11, <1>12, <1>13, <1>14 DEF IInv

\* _retry_or_cancel keeps the invariant when nothing was shown.
LEMMA RetryOrCancelDone ==
  ASSUME IInv, NEW s \in Senders, NEW rec \in Record,
         RetryOrCancel(rec), Done(s, rec), UNCHANGED <<shown, calls, faults>>,
         \/ sender[s].pc = "idle" /\ rec \in sender[s].left
         \/ Delivering(s) /\ rec = sender[s].at,
         Owns(rec) => shown[rec.notice] = 0
  PROVE  IInv'
<1>1. TypeOK /\ rec.notice \in Notices /\ rec.fence \in Nat
  BY DEF IInv, Record
<1>2. CASE rec.fence >= MaxAttempts
  <2>1. Finish(rec, "cancelled", "retry_exhausted")
    BY <1>2 DEF RetryOrCancel
  <2>2. "retry_exhausted" \in Ack
    BY DEF Ack, Unsent
  <2> QED
    BY <1>1, <2>1, <2>2, FinishRows, RecordDone
<1>3. CASE ~(rec.fence >= MaxAttempts)
  <2>1. ReleaseOutbox(rec)
    BY <1>3 DEF RetryOrCancel
  <2>2. Owns(rec) => calls[rec.notice] < MaxAttempts
    BY <1>1, <1>3, BoundsAssumption DEF IInv, Budget, Owns, TypeOK, OutboxRow
  <2> QED
    BY <1>1, <2>1, <2>2, ReleaseRows, RecordDone
<1> QED
  BY <1>2, <1>3

\* A record that waits in a batch and owns its row was not shown.
LEMMA WaitingUnshown ==
  ASSUME IInv, NEW s \in Senders, NEW rec \in sender[s].left
  PROVE  rec \in Record /\ (Owns(rec) => shown[rec.notice] = 0)
<1>1. rec \in Record /\ rec.notice \in Notices
  BY DEF IInv, TypeOK, SenderState, Record
<1> QED
  BY <1>1 DEF IInv, Holding, RowTruth

LEMMA PostponeInv ==
  ASSUME IInv, NEW s \in Senders, Postpone(s)
  PROVE  IInv'
<1> PICK rec \in sender[s].left : RetryOrCancel(rec) /\ Done(s, rec)
  BY DEF Postpone
<1> QED
  BY WaitingUnshown, RetryOrCancelDone DEF Postpone

LEMMA UndeliverableInv ==
  ASSUME IInv, NEW s \in Senders, Undeliverable(s)
  PROVE  IInv'
<1> PICK rec \in sender[s].left,
         reason \in {"recipient_unavailable", "event_not_supported"} :
            Finish(rec, "cancelled", reason) /\ Done(s, rec)
  BY DEF Undeliverable
<1>1. TypeOK /\ reason \in Ack /\ reason \notin {"null", "started", "sent"}
  BY DEF IInv, Ack, Unsent
<1> QED
  BY <1>1, WaitingUnshown, FinishRows, RecordDone DEF Undeliverable

LEMMA ConcludeInv ==
  ASSUME IInv, NEW s \in Senders, Conclude(s) \/ ConcludeFails(s)
  PROVE  IInv'
<1> DEFINE rec == sender[s].at
<1>1. /\ Delivering(s) /\ sender[s].pc = "answered"
      /\ Done(s, rec) /\ UNCHANGED <<shown, calls, faults>>
  BY DEF Conclude, ConcludeFails, Delivering
<1>2. rec \in Record /\ TypeOK
  BY <1>1 DEF IInv, Position
<1>3. /\ sender[s].outcome = "ok" => shown[rec.notice] = 1
      /\ sender[s].outcome \in {"rejected", "unsent"} => shown[rec.notice] = 0
  BY <1>1 DEF IInv, SenderTruth
<1> HIDE DEF rec
<1>5. {"sent", "delivery_ambiguous", "provider_rejected"} \subseteq Ack
  BY DEF Ack, Unsent
<1>6. CASE Finish(rec, "cancelled", "delivery_ambiguous")
  <2>1. "delivery_ambiguous" \notin {"null"} \cup Unsent
    BY DEF Unsent
  <2> QED
    BY <1>1, <1>2, <1>5, <1>6, <2>1, FinishRows, RecordDone DEF rec
<1>7. CASE sender[s].outcome = "ok" /\ Finish(rec, "sent", "sent")
  <2>1. "sent" \notin {"null"} \cup Unsent
    BY DEF Unsent
  <2> QED
    BY <1>1, <1>2, <1>3, <1>5, <1>7, <2>1, FinishRows, RecordDone DEF rec
<1>8. CASE /\ sender[s].outcome = "rejected"
           /\ Finish(rec, "cancelled", "provider_rejected")
  BY <1>1, <1>2, <1>3, <1>5, <1>8, FinishRows, RecordDone DEF rec
<1>9. CASE sender[s].outcome = "unsent" /\ RetryOrCancel(rec)
  BY <1>1, <1>2, <1>3, <1>9, RetryOrCancelDone DEF rec
<1> QED
  BY <1>6, <1>7, <1>8, <1>9 DEF Conclude, ConcludeFails, Disposition, rec

\* mark_outbox_delivery_started makes the record the current delivery.
LEMMA MarkDeliveryStartedInv ==
  ASSUME IInv, NEW s \in Senders, MarkDeliveryStarted(s)
  PROVE  IInv'
<1>1. /\ sender[s].pc = "idle" /\ UNCHANGED <<shown, calls, faults>>
      /\ \E rec \in sender[s].left :
          \/ /\ Owns(rec) /\ row[rec.notice].ack \in {"null", "started"}
             /\ row' = [row EXCEPT ![rec.notice].ack = "started"]
             /\ sender' = [sender EXCEPT ![s] =
                    [pc |-> "sending", left |-> sender[s].left \ {rec},
                     at |-> rec, outcome |-> "none"]]
          \/ /\ ~(Owns(rec) /\ row[rec.notice].ack \in {"null", "started"})
             /\ Done(s, rec) /\ row' = row
  BY DEF MarkDeliveryStarted
<1> PICK rec \in sender[s].left :
          \/ /\ Owns(rec) /\ row[rec.notice].ack \in {"null", "started"}
             /\ row' = [row EXCEPT ![rec.notice].ack = "started"]
             /\ sender' = [sender EXCEPT ![s] =
                    [pc |-> "sending", left |-> sender[s].left \ {rec},
                     at |-> rec, outcome |-> "none"]]
          \/ /\ ~(Owns(rec) /\ row[rec.notice].ack \in {"null", "started"})
             /\ Done(s, rec) /\ row' = row
  BY <1>1
<1>2. /\ row \in [Notices -> OutboxRow] /\ sender \in [Senders -> SenderState]
      /\ \A t \in Senders : sender[t].left \subseteq Record
      /\ rec \in Record /\ rec.notice \in Notices
  BY DEF IInv, TypeOK, SenderState, Record
<1>3. CASE /\ ~(Owns(rec) /\ row[rec.notice].ack \in {"null", "started"})
           /\ Done(s, rec) /\ row' = row
  <2>1. ~Owns(rec)
    BY <1>3 DEF IInv, Holding
  <2> QED
    BY <1>1, <1>2, <1>3, <2>1, RecordDone
<1>4. CASE /\ Owns(rec) /\ row[rec.notice].ack \in {"null", "started"}
           /\ row' = [row EXCEPT ![rec.notice].ack = "started"]
           /\ sender' = [sender EXCEPT ![s] =
                    [pc |-> "sending", left |-> sender[s].left \ {rec},
                     at |-> rec, outcome |-> "none"]]
  <2>1. /\ sender'[s].pc = "sending" /\ sender'[s].at = rec
        /\ sender'[s].left = sender[s].left \ {rec}
        /\ sender'[s].outcome = "none"
        /\ \A t \in Senders : t # s => sender'[t] = sender[t]
    BY <1>2, <1>4
  <2>2. /\ row'[rec.notice].state = "leased" /\ row'[rec.notice].ack = "started"
        /\ row'[rec.notice].fence = row[rec.notice].fence
        /\ \A n \in Notices : n # rec.notice => row'[n] = row[n]
    BY <1>2, <1>4 DEF Owns, OutboxRow
  <2>3. row[rec.notice].ack = "null" /\ shown[rec.notice] = 0
        /\ row[rec.notice].fence = rec.fence
    BY <1>2, <1>4 DEF IInv, Holding, RowTruth, Owns
  <2>4. /\ \A t \in Senders : sender'[t].left \subseteq sender[t].left
        /\ \A t \in Senders : t # s /\ Delivering(t)' =>
              Delivering(t) /\ sender[t].at.notice # rec.notice
              /\ sender[t].at \in Record
    <3>1. \A t \in Senders : sender'[t].left \subseteq sender[t].left
      BY <2>1
    <3>2. ASSUME NEW t \in Senders, t # s, Delivering(t)'
          PROVE  Delivering(t) /\ sender[t].at.notice # rec.notice
                 /\ sender[t].at \in Record
      <4>1. Delivering(t)
        BY <2>1, <3>2 DEF Delivering
      <4> QED
        BY <2>3, <4>1 DEF IInv, Holding, Position
    <3> QED
      BY <3>1, <3>2
  <2>5. TypeOK'
    <3>1. sender'[s] \in SenderState
      BY <1>2, <1>4, <2>1 DEF SenderState
    <3>2. sender' \in [Senders -> SenderState]
      BY <1>2, <1>4, <3>1
    <3>3. [row[rec.notice] EXCEPT !.ack = "started"] \in OutboxRow
      BY <1>2 DEF OutboxRow, Ack
    <3>4. row' \in [Notices -> OutboxRow]
      BY <1>2, <1>4, <3>3
    <3> QED
      BY <1>1, <3>2, <3>4 DEF IInv, TypeOK
  <2>6. Position'
    BY <1>2, <2>1, <2>4 DEF IInv, Position, Delivering
  <2>7. Holding'
    <3>1. ASSUME NEW t \in Senders, NEW a \in sender'[t].left
          PROVE  a.fence <= row'[a.notice].fence /\ (Owns(a)' => row'[a.notice].ack = "null")
      <4>1. a \in Record /\ a \in sender[t].left /\ a # rec /\ a.notice \in Notices
        BY <1>2, <2>1, <2>4, <3>1 DEF IInv, Apart, Record
      <4>2. a.fence <= row[a.notice].fence /\ (Owns(a) => row[a.notice].ack = "null")
        BY <4>1 DEF IInv, Holding
      <4>3. CASE a.notice # rec.notice
        BY <2>2, <4>1, <4>2, <4>3 DEF Owns
      <4>4. CASE a.notice = rec.notice
        BY <1>2, <2>2, <2>3, <4>1, <4>2, <4>4, SameRecord DEF Owns
      <4> QED
        BY <4>3, <4>4
    <3>2. ASSUME NEW t \in Senders, t # s, Delivering(t)'
          PROVE  row'[sender'[t].at.notice] = row[sender[t].at.notice]
                 /\ sender'[t] = sender[t] /\ Delivering(t)
      BY <2>1, <2>2, <2>4, <3>2 DEF Record
    <3>3. ASSUME NEW t \in Senders, t # s, Delivering(t)'
          PROVE /\ sender'[t].at.fence = row'[sender'[t].at.notice].fence
                /\ \/ /\ row'[sender'[t].at.notice].state = "leased"
                      /\ row'[sender'[t].at.notice].ack = "started"
                   \/ /\ row'[sender'[t].at.notice].state \in {"cancelled", "gone"}
                      /\ row'[sender'[t].at.notice].ack = "delivery_ambiguous"
      BY <3>2, <3>3 DEF IInv, Holding
    <3> QED
      BY <3>1, <3>3, <2>1, <2>2, <2>3 DEF Holding
  <2>8. Apart'
    BY <2>1, <2>4 DEF IInv, Apart, Delivering
  <2>9. RowTruth'
    BY <1>1, <2>2, <2>3 DEF IInv, RowTruth, Unsent
  <2>10. SenderTruth'
    BY <1>1, <2>1, <2>3 DEF IInv, SenderTruth
  <2>11. Budget'
    <3>1. calls[rec.notice] < MaxAttempts /\ calls[rec.notice] < rec.fence
      BY <1>2, <1>4, <2>3 DEF IInv, Budget, Owns
    <3> QED
      BY <1>1, <2>1, <2>2, <2>3, <3>1 DEF IInv, Budget
  <2> QED
    BY <2>5, <2>6, <2>7, <2>8, <2>9, <2>10, <2>11 DEF IInv
<1> QED
  BY <1>3, <1>4

\* The provider is called only for a notice that was not shown yet.
LEMMA SendInv ==
  ASSUME IInv, NEW s \in Senders, Send(s)
  PROVE  IInv'
<1> DEFINE n == sender[s].at.notice
<1> PICK outcome \in {"ok", "ambiguous", "rejected", "unsent"} :
          /\ sender' = [sender EXCEPT ![s] =
                 [pc |-> "answered", left |-> sender[s].left,
                  at |-> sender[s].at, outcome |-> outcome]]
          /\ \/ outcome \in {"ok", "ambiguous"}
                /\ shown' = [shown EXCEPT ![n] = @ + 1]
             \/ outcome # "ok" /\ shown' = shown
  BY DEF Send
<1>1. /\ sender[s].pc = "sending" /\ Delivering(s)
      /\ calls' = [calls EXCEPT ![n] = @ + 1]
      /\ row' = row /\ faults' = faults
  BY DEF Send, Delivering
<1>2. /\ row \in [Notices -> OutboxRow] /\ sender \in [Senders -> SenderState]
      /\ shown \in [Notices -> Nat] /\ calls \in [Notices -> Nat]
  BY DEF IInv, TypeOK
<1>3. sender[s].at \in Record /\ n \in Notices /\ shown[n] = 0
  BY <1>1 DEF IInv, Position, SenderTruth, Record
<1>4. /\ sender'[s].pc = "answered" /\ sender'[s].at = sender[s].at
      /\ sender'[s].left = sender[s].left /\ sender'[s].outcome = outcome
      /\ \A t \in Senders : t # s => sender'[t] = sender[t]
  BY <1>2
<1>5. /\ outcome = "ok" => shown'[n] = 1
      /\ outcome \in {"rejected", "unsent"} => shown'[n] = 0
      /\ shown'[n] <= 1
      /\ \A m \in Notices : m # n => shown'[m] = shown[m]
      /\ shown' \in [Notices -> Nat]
  BY <1>2, <1>3
<1>6. /\ calls'[n] = calls[n] + 1 /\ calls' \in [Notices -> Nat]
      /\ \A m \in Notices : m # n => calls'[m] = calls[m]
  BY <1>1, <1>2, <1>3
<1>7. ASSUME NEW t \in Senders, t # s, Delivering(t)
      PROVE  sender[t].at.notice # n /\ sender[t].at \in Record
  BY <1>1, <1>3, <1>7, SameRecord DEF IInv, Position, Holding, Apart
<1>8. row[n].ack \in {"started", "delivery_ambiguous"}
      /\ sender[s].at.fence = row[n].fence
  BY <1>1 DEF IInv, Holding
<1>9. TypeOK'
  <2>1. sender'[s] \in SenderState
    BY <1>2, <1>4 DEF SenderState
  <2> QED
    BY <1>1, <1>2, <1>5, <1>6, <2>1 DEF IInv, TypeOK
<1>10. \A t \in Senders : (Delivering(t)' <=> Delivering(t))
           /\ sender'[t].left = sender[t].left /\ sender'[t].at = sender[t].at
  BY <1>1, <1>4 DEF Delivering
<1>11. Position' /\ Apart'
  BY <1>10 DEF IInv, Position, Apart
<1>12. Holding'
  BY <1>1, <1>10 DEF IInv, Holding, Owns
<1>13. RowTruth'
  BY <1>1, <1>5, <1>8 DEF IInv, RowTruth, Unsent
<1>14. SenderTruth'
  <2> SUFFICES ASSUME NEW t \in Senders
               PROVE  /\ sender'[t].pc = "sending" => shown'[sender'[t].at.notice] = 0
                      /\ sender'[t].pc = "answered" =>
                          /\ sender'[t].outcome = "ok" =>
                                shown'[sender'[t].at.notice] = 1
                          /\ sender'[t].outcome \in {"rejected", "unsent"} =>
                                shown'[sender'[t].at.notice] = 0
    BY DEF SenderTruth
  <2>1. CASE t = s
    BY <1>4, <1>5, <2>1
  <2>2. CASE t # s
    <3>1. Delivering(t) => shown'[sender[t].at.notice] = shown[sender[t].at.notice]
      BY <1>5, <1>7, <2>2 DEF Record
    <3> QED
      BY <1>4, <2>2, <3>1 DEF IInv, SenderTruth, Delivering
  <2> QED
    BY <2>1, <2>2
<1>15. Budget'
  <2>1. calls[n] < MaxAttempts /\ calls[n] < row[n].fence
    BY <1>1, <1>8 DEF IInv, Budget
  <2>2. calls'[n] <= row[n].fence /\ calls'[n] <= MaxAttempts
    BY <1>2, <1>3, <1>6, <2>1, BoundsAssumption DEF OutboxRow
  <2>3. ASSUME NEW t \in Senders, sender'[t].pc = "sending"
        PROVE  /\ calls'[sender'[t].at.notice] = calls[sender[t].at.notice]
               /\ sender'[t] = sender[t]
    <3>1. t # s
      BY <1>4, <2>3
    <3> QED
      BY <1>4, <1>6, <1>7, <2>3, <3>1 DEF Delivering, Record
  <2>4. \A m \in Notices :
           /\ calls'[m] <= row[m].fence
           /\ calls'[m] <= MaxAttempts
           /\ row[m].ack = "null" => calls'[m] < MaxAttempts
           /\ row[m].ack = "null" /\ row[m].state = "leased" =>
                 calls'[m] < row[m].fence
    BY <1>6, <1>8, <2>2 DEF IInv, Budget
  <2> QED
    BY <1>1, <2>3, <2>4 DEF IInv, Budget
<1> QED
  BY <1>9, <1>11, <1>12, <1>13, <1>14, <1>15 DEF IInv

\* A crash only forgets records.
LEMMA CrashInv ==
  ASSUME IInv, NEW s \in Senders, Crash(s)
  PROVE  IInv'
<1>1. /\ row' = row /\ shown' = shown /\ calls' = calls /\ faults' = faults + 1
      /\ sender' = [sender EXCEPT ![s] = Idle]
  BY DEF Crash
<1>2. sender \in [Senders -> SenderState] /\ Idle \in SenderState /\ faults \in Nat
  BY DEF IInv, TypeOK, SenderState, Idle, Between
<1>3. /\ sender'[s].left = {} /\ sender'[s].pc = "idle"
      /\ \A t \in Senders : t # s => sender'[t] = sender[t]
  BY <1>1, <1>2 DEF Idle, Between
<1>4. TypeOK'
  BY <1>1, <1>2 DEF IInv, TypeOK
<1>5. \A t \in Senders : Delivering(t)' => t # s /\ Delivering(t)
  BY <1>3 DEF Delivering
<1>6. Position' /\ Apart'
  BY <1>3, <1>5 DEF IInv, Position, Apart
<1>7. Holding'
  BY <1>1, <1>3, <1>5 DEF IInv, Holding, Owns
<1>8. RowTruth' /\ SenderTruth' /\ Budget'
  BY <1>1, <1>3 DEF IInv, RowTruth, SenderTruth, Budget
<1> QED
  BY <1>4, <1>6, <1>7, <1>8 DEF IInv

\* Rows that are enqueued, age or are pruned keep fence, acknowledgement and
\* lease.
LEMMA PassiveInv ==
  ASSUME IInv, row' \in [Notices -> OutboxRow], UNCHANGED <<sender, shown, calls>>,
         faults' \in Nat,
         \A n \in Notices :
            /\ row'[n].ack = row[n].ack /\ row'[n].fence = row[n].fence
            /\ \/ row'[n].state = row[n].state
               \/ row[n].state = "none" /\ row'[n].state = "pending"
               \/ /\ row[n].state \in {"sent", "cancelled"}
                  /\ row'[n].state = "gone"
  PROVE  IInv'
<1>1. TypeOK'
  BY DEF IInv, TypeOK
<1>2. \A s \in Senders : Delivering(s)' <=> Delivering(s)
  BY DEF Delivering
<1>3. Position' /\ Apart'
  BY <1>2 DEF IInv, Position, Apart
<1>4. Holding'
  <2>1. ASSUME NEW s \in Senders, NEW a \in sender[s].left
        PROVE  a.fence <= row'[a.notice].fence /\ (Owns(a)' => row'[a.notice].ack = "null")
    <3>1. a.notice \in Notices
      BY DEF IInv, TypeOK, SenderState, Record
    <3> QED
      BY <3>1 DEF IInv, Holding, Owns
  <2>2. ASSUME NEW s \in Senders, Delivering(s)
        PROVE  /\ sender[s].at.fence = row'[sender[s].at.notice].fence
               /\ \/ /\ row'[sender[s].at.notice].state = "leased"
                     /\ row'[sender[s].at.notice].ack = "started"
                  \/ /\ row'[sender[s].at.notice].state \in {"cancelled", "gone"}
                     /\ row'[sender[s].at.notice].ack = "delivery_ambiguous"
    <3>1. sender[s].at.notice \in Notices
      BY <2>2 DEF IInv, Position, Record
    <3> QED
      BY <2>2, <3>1 DEF IInv, Holding
  <2> QED
    BY <1>2, <2>1, <2>2 DEF Holding
<1>5. RowTruth'
  BY DEF IInv, RowTruth
<1>6. SenderTruth' /\ Budget'
  BY DEF IInv, SenderTruth, Budget
<1> QED
  BY <1>1, <1>3, <1>4, <1>5, <1>6 DEF IInv

LEMMA QuietInv ==
  ASSUME IInv,
         \/ \E n \in Notices : Enqueue(n) \/ Elapse(n) \/ SetBack(n)
         \/ PruneOutbox
  PROVE  IInv'
<1>1. row \in [Notices -> OutboxRow] /\ faults \in Nat
  BY DEF IInv, TypeOK
<1>2. ASSUME NEW n \in Notices, Enqueue(n)
      PROVE  IInv'
  <2>1. [row[n] EXCEPT !.state = "pending"] \in OutboxRow
    BY <1>1 DEF OutboxRow
  <2> QED
    BY <1>1, <1>2, <2>1, PassiveInv DEF Enqueue, OutboxRow
<1>3. ASSUME NEW n \in Notices, Elapse(n)
      PROVE  IInv'
  <2>1. [row[n] EXCEPT !.timer = "elapsed"] \in OutboxRow
    BY <1>1 DEF OutboxRow
  <2> QED
    BY <1>1, <1>3, <2>1, PassiveInv DEF Elapse, OutboxRow
<1>4. ASSUME NEW n \in Notices, SetBack(n)
      PROVE  IInv'
  <2>1. [row[n] EXCEPT !.timer = "running"] \in OutboxRow
    BY <1>1 DEF OutboxRow
  <2> QED
    BY <1>1, <1>4, <2>1, PassiveInv DEF SetBack, OutboxRow
<1>5. ASSUME PruneOutbox
      PROVE  IInv'
  <2> PICK B \in SUBSET Prunable :
           row' = [n \in Notices |->
                     IF n \in B THEN [row[n] EXCEPT !.state = "gone"]
                     ELSE row[n]]
    BY <1>5 DEF PruneOutbox, Batches
  <2>1. \A n \in Notices : [row[n] EXCEPT !.state = "gone"] \in OutboxRow
    BY <1>1 DEF OutboxRow
  <2>2. row' \in [Notices -> OutboxRow]
    BY <1>1, <2>1
  <2>3. \A n \in B : row[n].state \in {"sent", "cancelled"}
    BY DEF Prunable
  <2> QED
    BY <1>1, <1>5, <2>2, <2>3, PassiveInv DEF PruneOutbox, OutboxRow
<1> QED
  BY <1>2, <1>3, <1>4, <1>5

\* A claim hands out new fences, and gives up what may have been shown.
LEMMA ClaimInv ==
  ASSUME IInv, NEW s \in Senders, ClaimOutbox(s)
  PROVE  IInv'
<1> PICK B \in SUBSET Candidates : ClaimBatch(s, B)
  BY DEF ClaimOutbox, Batches
<1> DEFINE doubtful == {n \in B : Started(n)}
           fresh == B \ doubtful
<1>1. /\ row' = [n \in Notices |->
               IF n \in doubtful
               THEN Ended(row[n], "cancelled", "delivery_ambiguous")
               ELSE IF n \in B THEN Leased(row[n])
               ELSE row[n]]
      /\ sender' = [sender EXCEPT ![s] = Between(Claimed(fresh))]
      /\ UNCHANGED <<shown, calls, faults>>
  BY DEF ClaimBatch
<1>2. /\ row \in [Notices -> OutboxRow] /\ sender \in [Senders -> SenderState]
      /\ calls \in [Notices -> Nat]
  BY DEF IInv, TypeOK
<1>3. /\ \A n \in doubtful : row[n].state = "leased" /\ row[n].ack = "started"
      /\ \A n \in fresh : row[n].state \in {"pending", "leased"} /\ row[n].ack = "null"
      /\ doubtful \subseteq Notices /\ fresh \subseteq Notices
  BY DEF Candidates, Started, IInv, RowTruth
<1> HIDE DEF doubtful, fresh
<1>4. /\ \A n \in doubtful : /\ row'[n].state = "cancelled"
                             /\ row'[n].ack = "delivery_ambiguous"
                             /\ row'[n].fence = row[n].fence
      /\ \A n \in fresh : /\ row'[n].state = "leased" /\ row'[n].ack = "null"
                          /\ row'[n].fence = row[n].fence + 1
      /\ \A n \in Notices : n \notin doubtful /\ n \notin fresh => row'[n] = row[n]
  BY <1>1, <1>3 DEF Ended, Leased, fresh
<1>5. row' \in [Notices -> OutboxRow]
  <2>1. \A n \in Notices :
           /\ Ended(row[n], "cancelled", "delivery_ambiguous") \in OutboxRow
           /\ Leased(row[n]) \in OutboxRow
    BY <1>2 DEF Ended, Leased, OutboxRow, Ack
  <2> QED
    BY <1>1, <1>2, <2>1
<1>6. /\ sender'[s].pc = "idle" /\ sender'[s].left = Claimed(fresh)
      /\ \A t \in Senders : t # s => sender'[t] = sender[t]
  BY <1>1, <1>2 DEF Between
<1>7. \A a \in Claimed(fresh) : /\ a.notice \in fresh /\ a.notice \in Notices
                                /\ a.fence = row[a.notice].fence + 1
                                /\ a \in Record
  BY <1>2, <1>3 DEF Claimed, Record, OutboxRow
<1>8. TypeOK'
  <2>1. Between(Claimed(fresh)) \in SenderState
    BY <1>7 DEF Between, SenderState
  <2> QED
    BY <1>1, <1>2, <1>5, <2>1 DEF IInv, TypeOK
<1>9. \A t \in Senders : Delivering(t)' => /\ t # s /\ Delivering(t)
                                           /\ sender'[t] = sender[t]
                                           /\ sender[t].at \in Record
                                           /\ sender[t].at.notice \in Notices \ fresh
  <2> SUFFICES ASSUME NEW t \in Senders, Delivering(t)'
               PROVE  /\ t # s /\ Delivering(t) /\ sender'[t] = sender[t]
                      /\ sender[t].at \in Record
                      /\ sender[t].at.notice \in Notices \ fresh
    OBVIOUS
  <2>1. t # s /\ Delivering(t) /\ sender'[t] = sender[t]
    BY <1>6 DEF Delivering
  <2>2. sender[t].at \in Record /\ sender[t].at.notice \in Notices
    BY <2>1 DEF IInv, Position, Record
  <2>3. row[sender[t].at.notice].ack # "null"
    BY <2>1 DEF IInv, Holding
  <2> QED
    BY <1>3, <2>1, <2>2, <2>3
<1>10. ASSUME NEW t \in Senders, t # s, NEW a \in sender[t].left
       PROVE  /\ a \in Record /\ a.notice \in Notices /\ a.fence \in Nat
              /\ a.fence <= row[a.notice].fence
              /\ Owns(a) => row[a.notice].ack = "null"
  <2>1. a \in Record
    BY <1>2 DEF SenderState
  <2> QED
    BY <2>1 DEF IInv, Holding, Record
<1>11. Position'
  BY <1>9 DEF IInv, Position
<1>12. Holding'
  <2>1. ASSUME NEW t \in Senders, NEW a \in sender'[t].left
        PROVE  a.fence <= row'[a.notice].fence /\ (Owns(a)' => row'[a.notice].ack = "null")
    <3>1. CASE t = s
      BY <1>2, <1>4, <1>6, <1>7, <2>1, <3>1 DEF OutboxRow
    <3>2. CASE t # s
      <4>1. a \in sender[t].left
        BY <1>6, <2>1, <3>2
      <4>2. /\ a.notice \in Notices /\ a.fence \in Nat
            /\ a.fence <= row[a.notice].fence
            /\ Owns(a) => row[a.notice].ack = "null"
        BY <1>10, <3>2, <4>1
      <4>3. CASE a.notice \in doubtful
        BY <1>4, <4>2, <4>3 DEF Owns
      <4>4. CASE a.notice \in fresh
        BY <1>2, <1>4, <4>2, <4>4 DEF OutboxRow
      <4>5. CASE a.notice \notin doubtful /\ a.notice \notin fresh
        BY <1>4, <4>2, <4>5 DEF Owns
      <4> QED
        BY <4>3, <4>4, <4>5
    <3> QED
      BY <3>1, <3>2
  <2>2. ASSUME NEW t \in Senders, Delivering(t)'
        PROVE  /\ sender'[t].at.fence = row'[sender'[t].at.notice].fence
               /\ \/ /\ row'[sender'[t].at.notice].state = "leased"
                     /\ row'[sender'[t].at.notice].ack = "started"
                  \/ /\ row'[sender'[t].at.notice].state \in {"cancelled", "gone"}
                     /\ row'[sender'[t].at.notice].ack = "delivery_ambiguous"
    BY <1>4, <1>9, <2>2 DEF IInv, Holding
  <2> QED
    BY <2>1, <2>2 DEF Holding
<1>13. Apart'
  <2>1. ASSUME NEW t \in Senders, t # s
        PROVE  Claimed(fresh) \cap sender[t].left = {}
    <3> SUFFICES ASSUME NEW a \in Claimed(fresh), a \in sender[t].left
                 PROVE  FALSE
      OBVIOUS
    <3> QED
      BY <1>2, <1>7, <1>10, <2>1 DEF OutboxRow
  <2>2. ASSUME NEW t \in Senders, Delivering(t)'
        PROVE  sender[t].at \notin Claimed(fresh)
    BY <1>7, <1>9, <2>2
  <2> QED
    BY <1>6, <1>9, <2>1, <2>2 DEF IInv, Apart
<1>14. RowTruth'
  BY <1>1, <1>3, <1>4 DEF IInv, RowTruth, Unsent
<1>15. SenderTruth'
  BY <1>1, <1>9 DEF IInv, SenderTruth, Delivering
<1>16. Budget'
  <2>1. ASSUME NEW m \in Notices
        PROVE  /\ calls[m] <= row'[m].fence
               /\ calls[m] <= MaxAttempts
               /\ row'[m].ack = "null" => calls[m] < MaxAttempts
               /\ row'[m].ack = "null" /\ row'[m].state = "leased" =>
                     calls[m] < row'[m].fence
    <3>1. /\ calls[m] <= row[m].fence /\ calls[m] <= MaxAttempts
          /\ row[m].ack = "null" => calls[m] < MaxAttempts
          /\ row[m].ack = "null" /\ row[m].state = "leased" => calls[m] < row[m].fence
          /\ calls[m] \in Nat /\ row[m].fence \in Nat
      BY <1>2 DEF IInv, Budget, OutboxRow
    <3>2. CASE m \in doubtful
      BY <1>4, <3>1, <3>2
    <3>3. CASE m \in fresh
      BY <1>3, <1>4, <3>1, <3>3
    <3>4. CASE m \notin doubtful /\ m \notin fresh
      BY <1>4, <3>1, <3>4
    <3> QED
      BY <3>2, <3>3, <3>4
  <2> QED
    BY <1>1, <1>9, <2>1 DEF IInv, Budget, Delivering
<1> QED
  BY <1>8, <1>11, <1>12, <1>13, <1>14, <1>15, <1>16 DEF IInv

-----------------------------------------------------------------------------
\* IInv is inductive.
LEMMA InvStep == IInv /\ [Next]_vars => IInv'
<1> SUFFICES ASSUME IInv, [Next]_vars PROVE IInv'
  OBVIOUS
<1>1. CASE UNCHANGED vars
  <2>1. \A s \in Senders : Delivering(s)' <=> Delivering(s)
    BY <1>1 DEF vars, Delivering
  <2>2. Position' /\ Apart'
    BY <1>1, <2>1 DEF vars, IInv, Position, Apart
  <2>3. Holding'
    BY <1>1, <2>1 DEF vars, IInv, Holding, Owns
  <2>4. TypeOK' /\ RowTruth' /\ SenderTruth' /\ Budget'
    BY <1>1 DEF vars, IInv, TypeOK, RowTruth, SenderTruth, Budget
  <2> QED
    BY <2>2, <2>3, <2>4 DEF IInv
<1>2. CASE Next
  BY <1>2, QuietInv, ClaimInv, PostponeInv, UndeliverableInv, ConcludeInv,
     MarkDeliveryStartedInv, SendInv, CrashInv DEF Next, Deliver
<1> QED
  BY <1>1, <1>2

\* The inductive invariant holds in every reachable state.
THEOREM Invariance == Spec => []IInv
BY InvInit, InvStep, PTL DEF Spec

\* However senders race, leases expire and daemons die, the owner never sees
\* a notice twice.
THEOREM ShownAtMostOnce == Spec => []AtMostOnce
<1>1. IInv => AtMostOnce
  BY DEF IInv, RowTruth, AtMostOnce
<1> QED
  BY <1>1, Invariance, PTL

\* The acknowledgement that is kept of a notice is true.
THEOREM AcksTruthful == Spec => []AckTruthful
<1>1. IInv => AckTruthful
  <2> SUFFICES ASSUME IInv, NEW n \in Notices
               PROVE  /\ row[n].ack = "sent" => shown[n] = 1
                      /\ row[n].ack \in Unsent =>
                            /\ shown[n] = 0
                            /\ \A s \in Senders :
                                  sender[s].pc = "sending" => sender[s].at.notice # n
    BY DEF AckTruthful
  <2>1. \A s \in Senders : sender[s].pc = "sending" =>
           row[sender[s].at.notice].ack \in {"started", "delivery_ambiguous"}
    BY DEF IInv, Holding, Delivering
  <2> QED
    BY <2>1 DEF IInv, RowTruth, Unsent
<1> QED
  BY <1>1, Invariance, PTL

\* max_attempts bounds the provider calls of every notice.
THEOREM ProviderCallsBounded == Spec => []CallsBounded
<1>1. IInv => CallsBounded
  BY DEF IInv, Budget, CallsBounded
<1> QED
  BY <1>1, Invariance, PTL

-----------------------------------------------------------------------------
(* Refinement of NoticeOnce.                                               *)

\* A transaction on the row of one record leaves its verdict, closes it
\* truthfully or gives it up.
LEMMA RecordRefines ==
  ASSUME IInv, NEW rec \in Record, shown' = shown,
         row' \in [Notices -> OutboxRow],
         \A n \in Notices : n # rec.notice => row'[n] = row[n],
         ~Owns(rec) => row' = row,
         Owns(rec) =>
            /\ row'[rec.notice].state \in {"pending", "sent", "cancelled"}
            /\ row'[rec.notice].state = "pending" => row'[rec.notice].ack = "null"
            /\ row'[rec.notice].state # "pending" =>
                  row'[rec.notice].ack \notin {"null", "started"}
            /\ row'[rec.notice].ack \in {"null"} \cup Unsent =>
                  shown[rec.notice] = 0
            /\ row'[rec.notice].ack = "sent" => shown[rec.notice] = 1
  PROVE  [Notice!Next]_<<Verdicts, shown>>
<1> DEFINE n == rec.notice
<1>1. n \in Notices
  BY DEF Record
<1>2. \A m \in Notices : m # n => VerdictOf(row'[m]) = VerdictOf(row[m])
  BY DEF VerdictOf
<1>3. CASE ~Owns(rec)
  <2>1. Verdicts' = Verdicts
    BY <1>3 DEF Verdicts, VerdictOf
  <2> QED
    BY <1>1, <2>1
<1>4. CASE Owns(rec)
  <2>1. VerdictOf(row[n]) = "open"
    BY <1>1, <1>4 DEF IInv, RowTruth, Owns, VerdictOf
  <2>2. row'[n].ack \in Ack
    BY <1>1 DEF OutboxRow
  <2>3. \/ VerdictOf(row'[n]) = "open"
        \/ VerdictOf(row'[n]) = "doubt"
        \/ VerdictOf(row'[n]) = "sent" /\ shown[n] = 1
        \/ VerdictOf(row'[n]) = "dropped" /\ shown[n] = 0
    BY <1>4, <2>2 DEF VerdictOf, Ack, Unsent
  <2>4. Verdicts[n] = "open"
    BY <1>1, <2>1 DEF Verdicts
  <2>5. CASE VerdictOf(row'[n]) = "open"
    <3>1. Verdicts' = Verdicts
      BY <1>2, <2>1, <2>5 DEF Verdicts
    <3> QED
      BY <1>1, <3>1
  <2>6. CASE VerdictOf(row'[n]) = "doubt"
    <3>1. Verdicts' = [m \in Notices |-> IF m \in {n} THEN "doubt" ELSE Verdicts[m]]
      BY <1>2, <2>6 DEF Verdicts
    <3>2. Notice!GiveUp({n})
      BY <1>1, <2>4, <3>1 DEF Notice!GiveUp
    <3> QED
      BY <1>1, <3>2 DEF Notice!Next
  <2>7. CASE VerdictOf(row'[n]) = "sent" /\ shown[n] = 1
    <3>1. Verdicts' = [Verdicts EXCEPT ![n] = "sent"]
      BY <1>2, <2>7 DEF Verdicts
    <3>2. Notice!Close(n)
      BY <2>4, <2>7, <3>1 DEF Notice!Close
    <3> QED
      BY <1>1, <3>2 DEF Notice!Next
  <2>8. CASE VerdictOf(row'[n]) = "dropped" /\ shown[n] = 0
    <3>1. Verdicts' = [Verdicts EXCEPT ![n] = "dropped"]
      BY <1>2, <2>8 DEF Verdicts
    <3>2. Notice!Close(n)
      BY <2>4, <2>8, <3>1 DEF Notice!Close
    <3> QED
      BY <1>1, <3>2 DEF Notice!Next
  <2> QED
    BY <2>3, <2>5, <2>6, <2>7, <2>8
<1> QED
  BY <1>3, <1>4

\* _retry_or_cancel leaves the notice open or drops it, when it was not shown.
LEMMA RetryOrCancelRefines ==
  ASSUME IInv, NEW rec \in Record, RetryOrCancel(rec), shown' = shown,
         Owns(rec) => shown[rec.notice] = 0
  PROVE  [Notice!Next]_<<Verdicts, shown>>
<1>1. TypeOK
  BY DEF IInv
<1>2. CASE Finish(rec, "cancelled", "retry_exhausted")
  <2>1. "retry_exhausted" \in Ack
    BY DEF Ack, Unsent
  <2> QED
    BY <1>1, <1>2, <2>1, FinishRows, RecordRefines
<1>3. CASE ReleaseOutbox(rec)
  BY <1>1, <1>3, ReleaseRows, RecordRefines
<1> QED
  BY <1>2, <1>3 DEF RetryOrCancel

LEMMA ConcludeRefines ==
  ASSUME IInv, NEW s \in Senders, Conclude(s) \/ ConcludeFails(s)
  PROVE  [Notice!Next]_<<Verdicts, shown>>
<1> DEFINE rec == sender[s].at
<1>1. sender[s].pc = "answered" /\ Delivering(s) /\ shown' = shown
  BY DEF Conclude, ConcludeFails, Delivering
<1>2. rec \in Record /\ TypeOK
  BY <1>1 DEF IInv, Position
<1>3. /\ sender[s].outcome = "ok" => shown[rec.notice] = 1
      /\ sender[s].outcome \in {"rejected", "unsent"} => shown[rec.notice] = 0
  BY <1>1 DEF IInv, SenderTruth
<1> HIDE DEF rec
<1>4. {"sent", "delivery_ambiguous", "provider_rejected"} \subseteq Ack
  BY DEF Ack, Unsent
<1>5. {"sent", "delivery_ambiguous"} \cap ({"null"} \cup Unsent) = {}
  BY DEF Unsent
<1>6. CASE Finish(rec, "cancelled", "delivery_ambiguous")
  BY <1>1, <1>2, <1>4, <1>5, <1>6, FinishRows, RecordRefines
<1>7. CASE sender[s].outcome = "ok" /\ Finish(rec, "sent", "sent")
  BY <1>1, <1>2, <1>3, <1>4, <1>5, <1>7, FinishRows, RecordRefines
<1>8. CASE /\ sender[s].outcome = "rejected"
           /\ Finish(rec, "cancelled", "provider_rejected")
  BY <1>1, <1>2, <1>3, <1>4, <1>8, FinishRows, RecordRefines
<1>9. CASE sender[s].outcome = "unsent" /\ RetryOrCancel(rec)
  BY <1>1, <1>2, <1>3, <1>9, RetryOrCancelRefines
<1> QED
  BY <1>6, <1>7, <1>8, <1>9 DEF Conclude, ConcludeFails, Disposition, rec

\* A call that reaches the owner's screen shows a notice that was not shown,
\* and that is open or in doubt.
LEMMA SendRefines ==
  ASSUME IInv, NEW s \in Senders, Send(s)
  PROVE  [Notice!Next]_<<Verdicts, shown>>
<1> DEFINE n == sender[s].at.notice
<1>1. /\ sender[s].pc = "sending" /\ Delivering(s) /\ row' = row
      /\ shown' = shown \/ shown' = [shown EXCEPT ![n] = @ + 1]
  BY DEF Send, Delivering
<1>2. n \in Notices /\ shown[n] = 0 /\ shown \in [Notices -> Nat]
  BY <1>1 DEF IInv, TypeOK, Position, SenderTruth, Record
<1>3. Verdicts[n] \in {"open", "doubt"}
  BY <1>1, <1>2 DEF IInv, Holding, Verdicts, VerdictOf
<1>4. Verdicts' = Verdicts
  BY <1>1 DEF Verdicts, VerdictOf
<1>5. CASE shown' = [shown EXCEPT ![n] = @ + 1]
  <2>1. shown' = [shown EXCEPT ![n] = 1]
    BY <1>2, <1>5
  <2>2. Notice!Show(n)
    BY <1>2, <1>3, <1>4, <2>1 DEF Notice!Show
  <2> QED
    BY <1>2, <2>2 DEF Notice!Next
<1>6. CASE shown' = shown
  BY <1>4, <1>6
<1> QED
  BY <1>1, <1>5, <1>6

\* A claim gives up the notices whose delivery had started.
LEMMA ClaimRefines ==
  ASSUME IInv, NEW s \in Senders, ClaimOutbox(s)
  PROVE  [Notice!Next]_<<Verdicts, shown>>
<1> PICK B \in SUBSET Candidates : ClaimBatch(s, B)
  BY DEF ClaimOutbox, Batches
<1> DEFINE doubtful == {n \in B : Started(n)}
<1>1. /\ row' = [n \in Notices |->
               IF n \in doubtful
               THEN Ended(row[n], "cancelled", "delivery_ambiguous")
               ELSE IF n \in B THEN Leased(row[n])
               ELSE row[n]]
      /\ shown' = shown
  BY DEF ClaimBatch
<1>2. doubtful \in SUBSET Notices /\ \A n \in doubtful : VerdictOf(row[n]) = "open"
  BY DEF Candidates, Started, VerdictOf
<1>3. \A n \in B \ doubtful : row[n].state # "none" /\ row[n].ack = "null"
  BY DEF Candidates, Started, IInv, RowTruth
<1> HIDE DEF doubtful
<1>4. \A n \in Notices : n \in doubtful => VerdictOf(row'[n]) = "doubt"
  BY <1>1 DEF VerdictOf, Ended
<1>5. \A n \in Notices : n \notin doubtful => VerdictOf(row'[n]) = VerdictOf(row[n])
  <2> SUFFICES ASSUME NEW n \in Notices, n \notin doubtful
               PROVE  VerdictOf(row'[n]) = VerdictOf(row[n])
    OBVIOUS
  <2>1. CASE n \in B
    <3>1. row'[n] = Leased(row[n])
      BY <1>1, <2>1
    <3> QED
      BY <1>3, <2>1, <3>1 DEF Leased, VerdictOf
  <2>2. CASE n \notin B
    BY <1>1, <2>2
  <2> QED
    BY <2>1, <2>2
<1>6. Verdicts' = [n \in Notices |-> IF n \in doubtful THEN "doubt" ELSE Verdicts[n]]
  BY <1>4, <1>5 DEF Verdicts
<1>7. Notice!GiveUp(doubtful)
  BY <1>1, <1>2, <1>6 DEF Notice!GiveUp, Verdicts
<1> QED
  BY <1>2, <1>7 DEF Notice!Next

\* Rows that age, are marked or are pruned keep their verdict; an enqueued
\* one is posted.
LEMMA QuietRefines ==
  ASSUME IInv, NEW n \in Notices, Enqueue(n) \/ Elapse(n) \/ SetBack(n)
  PROVE  [Notice!Next]_<<Verdicts, shown>>
<1>1. row \in [Notices -> OutboxRow]
  BY DEF IInv, TypeOK
<1>2. CASE Enqueue(n)
  <2>1. /\ row[n].state = "none" /\ row[n].ack = "null" /\ shown' = shown
        /\ row'[n].state = "pending" /\ row'[n].ack = "null"
        /\ \A m \in Notices : m # n => row'[m] = row[m]
    BY <1>1, <1>2 DEF Enqueue, IInv, RowTruth, OutboxRow
  <2>2. VerdictOf(row[n]) = "none" /\ VerdictOf(row'[n]) = "open"
    BY <2>1 DEF VerdictOf
  <2>3. Verdicts' = [Verdicts EXCEPT ![n] = "open"] /\ Verdicts[n] = "none"
    BY <2>1, <2>2 DEF Verdicts
  <2>4. Notice!Post(n)
    BY <2>1, <2>3 DEF Notice!Post
  <2> QED
    BY <2>4 DEF Notice!Next
<1>3. CASE Elapse(n) \/ SetBack(n)
  <2>1. /\ shown' = shown
        /\ \A m \in Notices : row'[m].state = row[m].state /\ row'[m].ack = row[m].ack
    BY <1>1, <1>3 DEF Elapse, SetBack, OutboxRow
  <2>2. Verdicts' = Verdicts
    BY <2>1 DEF Verdicts, VerdictOf
  <2> QED
    BY <2>1, <2>2
<1> QED
  BY <1>2, <1>3

LEMMA PruneRefines ==
  ASSUME IInv, PruneOutbox
  PROVE  [Notice!Next]_<<Verdicts, shown>>
<1> PICK B \in SUBSET Prunable :
         row' = [n \in Notices |->
                   IF n \in B THEN [row[n] EXCEPT !.state = "gone"]
                   ELSE row[n]]
  BY DEF PruneOutbox, Batches
<1>1. row \in [Notices -> OutboxRow] /\ shown' = shown
  BY DEF IInv, TypeOK, PruneOutbox
<1>2. \A n \in Notices : /\ row'[n].ack = row[n].ack
                         /\ row'[n].state = "none" <=> row[n].state = "none"
  BY <1>1 DEF Prunable, OutboxRow
<1>3. Verdicts' = Verdicts
  BY <1>2 DEF Verdicts, VerdictOf
<1> QED
  BY <1>1, <1>3

LEMMA BeforeSendRefines ==
  ASSUME IInv, NEW s \in Senders,
         Postpone(s) \/ Undeliverable(s) \/ MarkDeliveryStarted(s)
  PROVE  [Notice!Next]_<<Verdicts, shown>>
<1>1. CASE Postpone(s)
  <2> PICK rec \in sender[s].left : RetryOrCancel(rec)
    BY <1>1 DEF Postpone
  <2> QED
    BY <1>1, WaitingUnshown, RetryOrCancelRefines DEF Postpone
<1>2. CASE Undeliverable(s)
  <2> PICK rec \in sender[s].left,
           reason \in {"recipient_unavailable", "event_not_supported"} :
              Finish(rec, "cancelled", reason)
    BY <1>2 DEF Undeliverable
  <2>1. TypeOK /\ reason \in Ack /\ reason \notin {"null", "started", "sent"}
    BY DEF IInv, Ack, Unsent
  <2> QED
    BY <1>2, <2>1, WaitingUnshown, FinishRows, RecordRefines DEF Undeliverable
<1>3. CASE MarkDeliveryStarted(s)
  <2> PICK rec \in sender[s].left :
           \/ /\ Owns(rec) /\ row[rec.notice].ack \in {"null", "started"}
              /\ row' = [row EXCEPT ![rec.notice].ack = "started"]
           \/ row' = row
    BY <1>3 DEF MarkDeliveryStarted
  <2>1. shown' = shown /\ row \in [Notices -> OutboxRow]
    BY <1>3 DEF MarkDeliveryStarted, IInv, TypeOK
  <2>2. \A n \in Notices : VerdictOf(row'[n]) = VerdictOf(row[n])
    BY <2>1 DEF VerdictOf, OutboxRow, Owns
  <2>3. Verdicts' = Verdicts
    BY <2>2 DEF Verdicts
  <2> QED
    BY <2>1, <2>3
<1> QED
  BY <1>1, <1>2, <1>3

\* The outbox implements NoticeOnce: each of its steps is a step of the
\* promise or leaves it alone.
THEOREM Refinement == Spec => ImplementsNotice
<1>1. Init => Notice!Init
  BY DEF Init, Notice!Init, Verdicts, VerdictOf
<1>2. IInv /\ [Next]_vars => [Notice!Next]_<<Verdicts, shown>>
  <2> SUFFICES ASSUME IInv, [Next]_vars
               PROVE  [Notice!Next]_<<Verdicts, shown>>
    OBVIOUS
  <2>1. CASE UNCHANGED vars
    BY <2>1 DEF vars, Verdicts, VerdictOf
  <2>2. ASSUME NEW s \in Senders, Crash(s)
        PROVE  [Notice!Next]_<<Verdicts, shown>>
    BY <2>2 DEF Crash, Verdicts, VerdictOf
  <2>3. CASE Next
    BY <2>2, <2>3, QuietRefines, PruneRefines, ClaimRefines,
       BeforeSendRefines, SendRefines, ConcludeRefines DEF Next, Deliver
  <2> QED
    BY <2>1, <2>3
<1> QED
  BY <1>1, <1>2, Invariance, PTL DEF Spec, ImplementsNotice, Notice!Spec
================================================================================
