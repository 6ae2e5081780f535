-------------------------- MODULE SchedulerV2Proofs --------------------------
(***************************************************************************)
(* Proofs about the scheduler, for any set of entries, whatever clients    *)
(* write while a batch is in flight.  A fire works on the copy of the row  *)
(* that was fetched, and meanwhile the row may have been changed, deleted, *)
(* or replaced by another registration on the same id: what ties the copy  *)
(* to the row that it ends on is a predicate of the two alone, preserved   *)
(* by every change of either.                                              *)
(***************************************************************************)
EXTENDS SchedulerV2, FiniteSetTheorems, TLAPS

-----------------------------------------------------------------------------
(* An entry and the fire on its id.                                        *)

FireRow == [pc : {"none", "missed", "fetched", "run"}, copy : Row]

\* The fire is one of this registration, or of an earlier one of its name.
Own(row, fire) == row.name \in Names /\ fire.copy.name = row.name

\* The runs that the row still stands for: its countdown, or one.
Ahead(row, fire) ==
    IF row.name \in Recurring /\ row.remaining > 0 THEN row.remaining
    ELSE IF row.enabled \/ (fire.pc # "none" /\ Own(row, fire)) THEN 1 ELSE 0

\* The run that is counted as begun and not yet as done.
Underway(row, fire) == IF fire.pc = "run" /\ Own(row, fire) THEN 1 ELSE 0

\* Only an entry that is there is enabled, a fire has a name, and what boot
\* recovers was missed.
Named(row, fire) ==
    /\ row.enabled => row.name \in Names
    /\ fire.pc # "none" => fire.copy.name \in Names
    /\ fire.pc = "missed" => -fire.copy.next > Grace

\* A run on an id is one of the entry there, unless that was registered
\* while the run was in flight.
Belongs(row, fire) ==
    fire.pc # "none" /\ row.name \in Names /\ ~row.inherited =>
        /\ fire.copy.name = row.name
        /\ fire.pc = "run" => row.ran > 0

\* An entry that is switched off has had its runs, or was stopped.
Ended(row) ==
    row.name \in Names /\ ~row.enabled =>
        Served(row) \/ row.stopped \/ row.inherited

\* The countdown of a registration that no earlier copy has met: a fire has
\* copied it as it is, and what it has run down are runs of the entry.
Faithful(row, fire) ==
    row.name \in Recurring /\ ~row.inherited =>
        /\ Times[row.name] = 0 => row.remaining = 0
        /\ fire.pc # "none" => fire.copy.remaining = row.remaining
        /\ Times[row.name] > 0 /\ fire.pc = "run" => row.remaining > 0
        /\ Times[row.name] > 0 /\ row.ran < MaxRuns =>
              row.remaining + row.ran >= Times[row.name] + Underway(row, fire)

\* What is allowed is at least what was declared.
Declared(row) ==
    row.name \in Names =>
        /\ row.allowed >= Times[row.name]
        /\ Times[row.name] = 0 => row.allowed = 0

\* The countdown of a row against the one that a fire on its id has copied.
Counted(row, fire) ==
    row.name \in Recurring /\ Times[row.name] > 0 =>
        /\ row.remaining <= Times[row.name]
        /\ Times[row.name] < MaxRuns => row.remaining + row.total >= Times[row.name]
        /\ fire.pc = "fetched" =>
              \/ row.remaining = Times[row.name]
              \/ /\ fire.copy.name = row.name
                 /\ fire.copy.remaining = row.remaining
                 /\ fire.copy.total = row.total
        /\ fire.pc = "run" /\ fire.copy.name = row.name =>
              fire.copy.remaining <= row.remaining

CopyCounted(fire) ==
    fire.pc # "none" /\ fire.copy.name \in Recurring /\ Times[fire.copy.name] > 0 =>
        fire.copy.remaining <= Times[fire.copy.name]

\* A fire of an earlier registration, whose countdown had run out: the new
\* row has one, and the run is not counted.
Stale(row, fire) ==
    /\ Own(row, fire)
    /\ row.name \in Recurring /\ Times[row.name] > 0
    /\ fire.copy.remaining = 0
    /\ fire.pc = "run" \/ (fire.pc = "fetched" /\ row.remaining > 0)

\* The one run that such a fire may have added.
Spare(row, fire) == IF row.inherited /\ ~Stale(row, fire) THEN 1 ELSE 0

\* The runs so far and those ahead are within what is allowed, with lost
\* runs that were begun and not counted.
Budget(row, fire, lost) ==
    row.name \in Names /\ row.allowed > 0 /\ Times[row.name] < MaxRuns =>
        row.ran + Ahead(row, fire)
            <= row.allowed + lost + Underway(row, fire) + Spare(row, fire)

Good(row, fire, lost) ==
    /\ row \in Row /\ fire \in FireRow
    /\ Named(row, fire)
    /\ Belongs(row, fire)
    /\ Ended(row)
    /\ Faithful(row, fire)
    /\ Declared(row)
    /\ Counted(row, fire)
    /\ CopyCounted(fire)
    /\ Budget(row, fire, lost)

-----------------------------------------------------------------------------
(* The inductive invariant.                                                *)

Pcs == {"off", "boot", "recover", "fetch", "gather", "sleep"}

\* Every variable has its shape.
Shapes ==
    /\ rows \in [Ids -> Row]
    /\ fires \in [Ids -> FireRow]
    /\ runs \in [Ids -> Nat]
    /\ running \in [Ids -> Nat]
    /\ threads \in [Names -> Nat]
    /\ loop = [pc |-> loop.pc, until |-> loop.until, woken |-> loop.woken]
    /\ loop.pc \in Pcs
    /\ used \in [ops : Nat, crashes : Nat, faults : Nat]

Lost == used.crashes + used.faults

EntriesGood == \A i \in Ids : Good(rows[i], fires[i], Lost)

\* The table has UNIQUE (name), and hence a batch one fire of a name.
NamesUnique ==
    \A i, j \in Ids : Here(i) /\ rows[i].name = rows[j].name => i = j

FiresUnique ==
    \A i, j \in Ids :
        InFlight(i) /\ InFlight(j) /\ fires[i].copy.name = fires[j].copy.name => i = j

\* Nothing is in flight but during recovery and gather.
GatherWaits == loop.pc \notin {"recover", "gather"} => \A i \in Ids : ~InFlight(i)

\* A fire that runs holds its count in the lock and its row in the history.
RunsHeld ==
    \A i \in Ids : fires[i].pc = "run" => running[i] >= 1 /\ runs[i] >= 1

Runs(n) == {i \in Ids : fires[i].pc = "run" /\ fires[i].copy.name = n}

\* What executes is what runs, but for threads that a timeout has given up.
ThreadsTrue ==
    \A n \in Names :
        /\ Runs(n) # {} => threads[n] >= 1
        /\ n \notin Sync \cap TimedOut =>
              threads[n] <= 1 /\ (threads[n] = 1 => Runs(n) # {})

IInv ==
    /\ Shapes
    /\ EntriesGood
    /\ NamesUnique
    /\ FiresUnique
    /\ GatherWaits
    /\ RunsHeld
    /\ ThreadsTrue
    /\ HistoryHonest

-----------------------------------------------------------------------------
(* What preserves the tie of an entry and a fire.                          *)

LEMMA TimesTypes ==
  /\ MaxRuns \in Nat /\ MaxRuns > 0
  /\ \A n \in Names : Times[n] \in Nat /\ Times[n] <= MaxRuns
<1>1. MaxRuns \in Nat /\ MaxRuns > 0
  BY TimingAssumption
<1>2. Times \in [Names -> 0..MaxRuns]
  BY NamesAssumption, Zenon
<1>3. ASSUME NEW n \in Names PROVE Times[n] \in Nat /\ Times[n] <= MaxRuns
  <2>1. Times[n] \in 0..MaxRuns
    BY <1>2, <1>3
  <2> QED
    BY <1>1, <2>1
<1> QED
  BY <1>1, <1>3

LEMMA RowTypes ==
  ASSUME NEW row \in Row
  PROVE  /\ row.enabled \in BOOLEAN /\ row.next \in Int /\ row.remaining \in Nat
         /\ row.total \in 0..MaxRuns /\ row.total \in Nat
         /\ row.failures \in 0..MaxRuns /\ row.failures \in Nat
         /\ row.ran \in 0..MaxRuns /\ row.ran \in Nat
         /\ row.stopped \in BOOLEAN /\ row.allowed \in Nat /\ row.inherited \in BOOLEAN
         /\ MaxRuns \in Nat /\ MaxRuns > 0
         /\ \A n \in Names : Times[n] \in Nat /\ Times[n] <= MaxRuns
         /\ Recurring \subseteq Names
<1>1. /\ row.enabled \in BOOLEAN /\ row.next \in Int /\ row.remaining \in Nat
      /\ row.total \in 0..MaxRuns /\ row.failures \in 0..MaxRuns
      /\ row.ran \in 0..MaxRuns
      /\ row.stopped \in BOOLEAN /\ row.allowed \in Nat /\ row.inherited \in BOOLEAN
  BY DEF Row
<1>2. MaxRuns \in Nat /\ MaxRuns > 0
  BY TimingAssumption
<1>3. row.total \in Nat /\ row.failures \in Nat /\ row.ran \in Nat
  BY <1>1, <1>2
<1>4. Recurring \subseteq Names
      /\ \A n \in Names : Times[n] \in Nat /\ Times[n] <= MaxRuns
  BY NamesAssumption, TimesTypes
<1> QED
  BY <1>1, <1>2, <1>3, <1>4

LEMMA EmptyRow == Empty \in Row /\ NoFire \in FireRow /\ Empty.name \notin Names
                  /\ Empty.enabled = FALSE /\ NoFire.pc = "none"
<1>1. Empty \in Row
  BY TimingAssumption DEF Empty, Row
<1>2. Empty.name \notin Names /\ Empty.enabled = FALSE
  BY NamesAssumption DEF Empty
<1> QED
  BY <1>1, <1>2 DEF NoFire, FireRow

LEMMA GoodMore ==
  ASSUME NEW row, NEW fire, NEW lost \in Nat, NEW more \in Nat,
         Good(row, fire, lost), lost <= more
  PROVE  Good(row, fire, more)
<1>1. /\ row \in Row /\ Underway(row, fire) \in 0..1 /\ Ahead(row, fire) \in Nat
      /\ Spare(row, fire) \in 0..1
  BY RowTypes DEF Good, Underway, Ahead, Spare
<1>2. Budget(row, fire, more)
  BY <1>1, RowTypes DEF Good, Budget
<1> QED
  BY <1>2 DEF Good

\* The slot of an entry moves.
LEMMA ShiftGood ==
  ASSUME NEW row, NEW fire, NEW lost \in Nat, NEW x \in Int, Good(row, fire, lost)
  PROVE  Good([row EXCEPT !.next = x], fire, lost)
<1> DEFINE r == [row EXCEPT !.next = x]
<1>1. row \in Row
  BY DEF Good
<1>2. /\ r \in Row /\ r.name = row.name /\ r.enabled = row.enabled
      /\ r.remaining = row.remaining /\ r.total = row.total /\ r.ran = row.ran
      /\ r.stopped = row.stopped /\ r.allowed = row.allowed
      /\ r.inherited = row.inherited
  BY <1>1 DEF Row
<1> HIDE DEF r
<1>3. Named(r, fire) /\ Belongs(r, fire) /\ Ended(r) /\ Declared(r) /\ Faithful(r, fire)
  BY <1>2 DEF Good, Named, Belongs, Ended, Served, Declared, Faithful, Underway, Own
<1>4. Counted(r, fire)
  BY <1>2 DEF Good, Counted
<1>5. Budget(r, fire, lost)
  BY <1>2 DEF Good, Budget, Ahead, Underway, Spare, Stale, Own
<1> QED
  BY <1>2, <1>3, <1>4, <1>5 DEF Good, r

\* An entry is switched off by its owner, a filter or a missed slot.
LEMMA OffGood ==
  ASSUME NEW row, NEW fire, NEW lost \in Nat, Good(row, fire, lost)
  PROVE  Good([Disabled(row) EXCEPT !.stopped = TRUE], fire, lost)
<1> DEFINE r == [Disabled(row) EXCEPT !.stopped = TRUE]
<1>1. row \in Row
  BY DEF Good
<1>2. /\ r \in Row /\ r.name = row.name /\ r.enabled = FALSE
      /\ r.remaining = row.remaining /\ r.total = row.total /\ r.ran = row.ran
      /\ r.stopped = TRUE /\ r.allowed = row.allowed
      /\ r.inherited = row.inherited
  BY <1>1 DEF Row, Disabled
<1> HIDE DEF r
<1>3. Named(r, fire) /\ Belongs(r, fire) /\ Ended(r) /\ Declared(r) /\ Faithful(r, fire)
  BY <1>2 DEF Good, Named, Belongs, Ended, Served, Declared, Faithful, Underway, Own
<1>4. Counted(r, fire)
  BY <1>2 DEF Good, Counted
<1>5. Budget(r, fire, lost)
  <2>1. /\ Ahead(r, fire) <= Ahead(row, fire) /\ Ahead(r, fire) \in Nat
        /\ Ahead(row, fire) \in Nat
    BY <1>1, <1>2, RowTypes DEF Ahead, Own
  <2>2. /\ Underway(r, fire) = Underway(row, fire) /\ Underway(row, fire) \in 0..1
        /\ Spare(r, fire) = Spare(row, fire) /\ Spare(row, fire) \in 0..1
    BY <1>2 DEF Underway, Spare, Stale, Own
  <2> QED
    BY <1>1, <1>2, <2>1, <2>2, RowTypes DEF Good, Budget
<1> QED
  BY <1>2, <1>3, <1>4, <1>5 DEF Good, r

\* An entry is switched on: it is allowed one run more.
LEMMA EnabledGood ==
  ASSUME NEW row, NEW fire, NEW lost \in Nat, Good(row, fire, lost), row.name \in Names
  PROVE  Good(Enabled(row), fire, lost)
<1> DEFINE a == IF row.allowed = 0 THEN row.allowed ELSE row.allowed + 1
           x == IF row.name \in Recurring THEN Period ELSE row.next
           r == [row EXCEPT !.enabled = TRUE, !.failures = 0, !.next = x,
                            !.stopped = FALSE, !.allowed = a]
<1>1. row \in Row
  BY DEF Good
<1>2. /\ a \in Nat /\ x \in Int /\ a >= row.allowed
      /\ row.allowed > 0 => a = row.allowed + 1
      /\ row.allowed = 0 => a = 0
  BY <1>1, RowTypes, TimingAssumption
<1>3. Enabled(row) = r
  BY <1>1 DEF Enabled, Row
<1> HIDE DEF a, x
<1>4. /\ r \in Row /\ r.name = row.name /\ r.enabled = TRUE
      /\ r.remaining = row.remaining /\ r.total = row.total /\ r.ran = row.ran
      /\ r.stopped = FALSE /\ r.allowed = a
      /\ r.inherited = row.inherited
  <2>1. 0 \in 0..MaxRuns
    BY TimingAssumption
  <2> QED
    BY <1>1, <1>2, <2>1 DEF Row
<1> HIDE DEF r
<1>5. Named(r, fire) /\ Belongs(r, fire) /\ Ended(r) /\ Faithful(r, fire)
  BY <1>4 DEF Good, Named, Belongs, Ended, Faithful, Underway, Own
<1>6. Declared(r)
  BY <1>1, <1>2, <1>4, RowTypes DEF Good, Declared
<1>7. Counted(r, fire)
  BY <1>4 DEF Good, Counted
<1>8. Budget(r, fire, lost)
  <2>1. /\ Ahead(r, fire) <= Ahead(row, fire) + 1 /\ Ahead(r, fire) \in Nat
        /\ Ahead(row, fire) \in Nat
    BY <1>1, <1>4, RowTypes DEF Ahead, Own
  <2>2. /\ Underway(r, fire) = Underway(row, fire) /\ Underway(row, fire) \in 0..1
        /\ Spare(r, fire) = Spare(row, fire) /\ Spare(row, fire) \in 0..1
    BY <1>4 DEF Underway, Spare, Stale, Own
  <2> QED
    BY <1>1, <1>2, <1>4, <2>1, <2>2, RowTypes DEF Good, Budget
<1> QED
  BY <1>3, <1>4, <1>5, <1>6, <1>7, <1>8 DEF Good

\* No entry on the id.
LEMMA AbsentGood ==
  ASSUME NEW row \in Row, NEW fire \in FireRow, NEW lost \in Nat,
         row.name \notin Names, row.enabled = FALSE,
         Named(row, fire), CopyCounted(fire)
  PROVE  Good(row, fire, lost)
  BY RowTypes DEF Good, Belongs, Ended, Faithful, Declared, Counted, Budget

\* A registration: it has all its runs ahead, and a run in flight is not its.
LEMMA NewGood ==
  ASSUME NEW row, NEW fire, NEW lost \in Nat, Good(row, fire, lost), NEW n \in Names
  PROVE  Good([NewRow(n) EXCEPT !.inherited = fire.pc # "none"], fire, lost)
<1> DEFINE r == [NewRow(n) EXCEPT !.inherited = fire.pc # "none"]
           t == Times[n]
<1>1. t \in Nat /\ Period \in Int /\ fire \in FireRow /\ MaxRuns \in Nat /\ MaxRuns > 0
  <2>1. t \in Nat
    BY TimesTypes
  <2>2. Period \in Int /\ MaxRuns \in Nat /\ MaxRuns > 0
    BY TimingAssumption
  <2> QED
    BY <2>1, <2>2 DEF Good
<1>2. /\ r.name = n /\ r.enabled = TRUE /\ r.remaining = t /\ r.total = 0 /\ r.ran = 0
      /\ r.allowed = t /\ r.inherited = (fire.pc # "none")
  BY DEF NewRow, Empty
<1>3. r \in Row
  <2>1. 0 \in 0..MaxRuns
    BY <1>1
  <2>2. NewRow(n) \in Row
    BY <1>1, <2>1 DEF NewRow, Empty, Row
  <2> QED
    BY <2>2 DEF Row
<1> HIDE DEF r
<1>4. Named(r, fire) /\ Ended(r)
  BY <1>2 DEF Good, Named, Ended
<1>4a. Faithful(r, fire)
  <2> SUFFICES ASSUME fire.pc = "none" PROVE Faithful(r, fire)
    BY <1>2 DEF Faithful
  <2>1. Underway(r, fire) = 0
    BY DEF Underway
  <2> QED
    BY <1>1, <1>2, <2>1 DEF Faithful
<1>5. Belongs(r, fire)
  BY <1>2 DEF Belongs
<1>6. Declared(r)
  BY <1>1, <1>2 DEF Declared
<1>7. Counted(r, fire)
  <2>1. fire.pc = "run" /\ fire.copy.name = n /\ n \in Recurring /\ t > 0 =>
            fire.copy.remaining <= t
    <3>1. fire.copy \in Row
      BY <1>1 DEF FireRow
    <3> QED
      BY <1>1, <3>1, RowTypes DEF Good, CopyCounted
  <2> QED
    BY <1>1, <1>2, <2>1 DEF Counted
<1>8. Budget(r, fire, lost)
  <2>1. r.allowed > 0 => Ahead(r, fire) <= t /\ Ahead(r, fire) \in Nat
    BY <1>1, <1>2 DEF Ahead
  <2>2. Underway(r, fire) \in 0..1 /\ Spare(r, fire) \in 0..1
    BY DEF Underway, Spare
  <2> QED
    BY <1>1, <1>2, <2>1, <2>2 DEF Budget
<1> QED
  BY <1>1, <1>3, <1>4, <1>4a, <1>5, <1>6, <1>7, <1>8 DEF Good, r

\* An enabled entry is fetched, or listed by boot as missed.
LEMMA FetchedGood ==
  ASSUME NEW row, NEW lost \in Nat, Good(row, NoFire, lost), row.enabled,
         NEW pc \in {"missed", "fetched"}, pc = "missed" => Missed(row)
  PROVE  Good(row, [pc |-> pc, copy |-> row], lost)
<1> DEFINE f == [pc |-> pc, copy |-> row]
<1>1. /\ row \in Row /\ f \in FireRow /\ f.pc = pc /\ f.pc # "none" /\ f.pc # "run"
      /\ f.copy = row
  BY DEF Good, FireRow
<1>2. NoFire.pc = "none"
  BY DEF NoFire
<1> HIDE DEF f
<1>3. Named(row, f) /\ Belongs(row, f)
  BY <1>1 DEF Good, Named, Belongs, Missed
<1>4. Counted(row, f) /\ CopyCounted(f)
  BY <1>1, <1>2 DEF Good, Counted, CopyCounted
<1>5. Budget(row, f, lost)
  <2>1. ~Stale(row, f) /\ ~Stale(row, NoFire)
    BY <1>1, <1>2, RowTypes DEF Stale
  <2> QED
    BY <1>1, <1>2, <2>1 DEF Good, Budget, Ahead, Underway, Spare
<1>6. Faithful(row, f)
  BY <1>1, <1>2 DEF Good, Faithful, Underway
<1> QED
  BY <1>1, <1>3, <1>4, <1>5, <1>6 DEF Good, f

LEMMA FaithfulDropped ==
  ASSUME NEW row \in Row, NEW fire, Faithful(row, fire)
  PROVE  Faithful(row, NoFire)
<1>1. NoFire.pc = "none"
  BY DEF NoFire
<1>2. Underway(row, NoFire) = 0 /\ Underway(row, fire) \in 0..1
  BY <1>1 DEF Underway
<1> QED
  BY <1>1, <1>2, RowTypes DEF Faithful

\* A fire ends without a run.
LEMMA DroppedGood ==
  ASSUME NEW row, NEW fire, NEW lost \in Nat, Good(row, fire, lost), fire.pc # "run"
  PROVE  Good(row, NoFire, lost)
<1>1. row \in Row /\ NoFire \in FireRow /\ NoFire.pc = "none"
  BY EmptyRow DEF Good
<1>2. /\ Named(row, NoFire) /\ Belongs(row, NoFire) /\ CopyCounted(NoFire)
      /\ Faithful(row, NoFire)
  <2>1. Named(row, NoFire) /\ Belongs(row, NoFire) /\ CopyCounted(NoFire)
    BY <1>1 DEF Good, Named, Belongs, CopyCounted
  <2>2. Faithful(row, NoFire)
    BY <1>1, FaithfulDropped DEF Good
  <2> QED
    BY <2>1, <2>2
<1>3. Counted(row, NoFire)
  BY <1>1 DEF Good, Counted
<1>4. Budget(row, NoFire, lost)
  <2>1. /\ Ahead(row, NoFire) <= Ahead(row, fire) /\ Ahead(row, NoFire) \in Nat
        /\ Ahead(row, fire) \in Nat
    BY <1>1, RowTypes DEF Ahead
  <2>2. /\ Underway(row, NoFire) = 0 /\ Underway(row, fire) = 0
        /\ Spare(row, fire) <= Spare(row, NoFire) /\ Spare(row, fire) \in 0..1
        /\ Spare(row, NoFire) \in 0..1
    BY <1>1 DEF Underway, Spare, Stale
  <2> QED
    BY <1>1, <2>1, <2>2, RowTypes DEF Good, Budget
<1> QED
  BY <1>1, <1>2, <1>3, <1>4 DEF Good

\* A run is not counted as done: it is lost.
LEMMA LostGood ==
  ASSUME NEW row, NEW fire, NEW lost \in Nat, Good(row, fire, lost)
  PROVE  Good(row, NoFire, lost + 1)
<1>1. row \in Row /\ NoFire \in FireRow /\ NoFire.pc = "none"
  BY EmptyRow DEF Good
<1>2. /\ Named(row, NoFire) /\ Belongs(row, NoFire) /\ CopyCounted(NoFire)
      /\ Faithful(row, NoFire)
  <2>1. Named(row, NoFire) /\ Belongs(row, NoFire) /\ CopyCounted(NoFire)
    BY <1>1 DEF Good, Named, Belongs, CopyCounted
  <2>2. Faithful(row, NoFire)
    BY <1>1, FaithfulDropped DEF Good
  <2> QED
    BY <2>1, <2>2
<1>3. Counted(row, NoFire)
  BY <1>1 DEF Good, Counted
<1>4. Budget(row, NoFire, lost + 1)
  <2>1. /\ Ahead(row, NoFire) <= Ahead(row, fire) /\ Ahead(row, NoFire) \in Nat
        /\ Ahead(row, fire) \in Nat
    BY <1>1, RowTypes DEF Ahead
  <2>2. /\ Underway(row, NoFire) = 0 /\ Underway(row, fire) \in 0..1
        /\ Spare(row, fire) <= Spare(row, NoFire) /\ Spare(row, fire) \in 0..1
        /\ Spare(row, NoFire) \in 0..1
    BY <1>1 DEF Underway, Spare, Stale
  <2> QED
    BY <1>1, <2>1, <2>2, RowTypes DEF Good, Budget
<1> QED
  BY <1>1, <1>2, <1>3, <1>4 DEF Good

\* The countdown that a finite entry without one is to get is within what
\* was declared.
LEMMA InferredFacts ==
  ASSUME NEW copy \in Row, copy.name \in Names
  PROVE  /\ Inferred(copy) \in Nat
         /\ Inferred(copy) > 0 =>
               copy.name \in Recurring /\ copy.remaining = 0 /\ Times[copy.name] > 0
         /\ copy.name \in Recurring /\ copy.remaining = 0 /\ Times[copy.name] > 0 =>
               /\ Inferred(copy) \in 1..Times[copy.name]
               /\ copy.total >= Times[copy.name] => Inferred(copy) = 1
<1> DEFINE t == Times[copy.name]
           k == copy.total
           m == copy.remaining
<1>1. t \in Nat /\ k \in Nat /\ m \in Nat
  BY RowTypes
<1>2. Inferred(copy) = IF copy.name \notin Recurring \/ m > 0 \/ t = 0 THEN 0
                       ELSE IF t - k > 1 THEN t - k ELSE 1
  BY DEF Inferred
<1> HIDE DEF t, k, m
<1>3. /\ Inferred(copy) \in Nat
      /\ Inferred(copy) > 0 => copy.name \in Recurring /\ m = 0 /\ t > 0
      /\ copy.name \in Recurring /\ m = 0 /\ t > 0 =>
            Inferred(copy) \in 1..t /\ (k >= t => Inferred(copy) = 1)
  <2>1. CASE copy.name \in Recurring /\ m = 0 /\ t > 0 /\ t - k > 1
    BY <1>1, <1>2, <2>1
  <2>2. CASE copy.name \in Recurring /\ m = 0 /\ t > 0 /\ ~(t - k > 1)
    BY <1>1, <1>2, <2>2
  <2>3. CASE copy.name \notin Recurring \/ m > 0 \/ t = 0
    BY <1>1, <1>2, <2>3
  <2> QED
    BY <1>1, <2>1, <2>2, <2>3
<1> QED
  BY <1>3 DEF t, k, m

\* The row when a run begins.
LEMMA BeganRow ==
  ASSUME NEW row \in Row, NEW n \in Names, NEW left \in Nat
  PROVE  LET r == Began(row, n, left)
         IN  /\ r \in Row /\ r.name = row.name /\ r.enabled = row.enabled
             /\ r.remaining = row.remaining + left
             /\ r.total = row.total /\ r.stopped = row.stopped
             /\ r.allowed = row.allowed /\ r.inherited = row.inherited
             /\ r.ran >= row.ran
             /\ row.name # n => r.ran = row.ran
             /\ row.name = n => /\ r.ran > 0
                                /\ r.ran <= row.ran + 1
                                /\ r.ran = row.ran + 1 \/ r.ran = MaxRuns
<1> DEFINE m == row.remaining + left
           a == IF row.ran < MaxRuns THEN row.ran + 1 ELSE row.ran
           one == [row EXCEPT !.remaining = m]
           two == [one EXCEPT !.ran = a]
<1>1. /\ m \in Nat /\ a \in 0..MaxRuns /\ a \in Nat /\ a > 0 /\ a <= row.ran + 1
      /\ a >= row.ran /\ row.ran \in Nat /\ (a = row.ran + 1 \/ a = MaxRuns)
  BY RowTypes
<1>2. one = [row EXCEPT !.remaining = @ + left] /\ one.ran = row.ran
  BY DEF Row
<1>3. Began(row, n, left) = IF row.name # n THEN one ELSE two
  <2>1. two = [one EXCEPT !.ran = IF @ < MaxRuns THEN @ + 1 ELSE @]
    BY <1>2 DEF Row
  <2> QED
    BY <1>2, <2>1 DEF Began
<1> HIDE DEF m, a
<1>4. /\ one \in Row /\ one.name = row.name /\ one.enabled = row.enabled
      /\ one.remaining = m /\ one.total = row.total /\ one.stopped = row.stopped
      /\ one.allowed = row.allowed /\ one.inherited = row.inherited
      /\ one.ran = row.ran
  BY <1>1 DEF Row
<1> HIDE DEF one
<1>5. /\ two \in Row /\ two.name = row.name /\ two.enabled = row.enabled
      /\ two.remaining = m /\ two.total = row.total /\ two.stopped = row.stopped
      /\ two.allowed = row.allowed /\ two.inherited = row.inherited
      /\ two.ran = a
  BY <1>1, <1>4 DEF Row
<1> HIDE DEF two
<1>6. CASE row.name # n
  BY <1>1, <1>3, <1>4, <1>6 DEF m
<1>7. CASE row.name = n
  BY <1>1, <1>3, <1>5, <1>7 DEF m
<1> QED
  BY <1>6, <1>7

\* What initialize_remaining_runs gives the row and the copy.
Given(row, copy) ==
    IF row.name \in Names /\ row.remaining = 0 THEN Inferred(copy) ELSE 0

\* A run begins on the row that is there now.
LEMMA BeganGood ==
  ASSUME NEW row, NEW fire, NEW lost \in Nat, Good(row, fire, lost),
         fire.pc = "fetched", NEW left, left = Given(row, fire.copy)
  PROVE  LET n == fire.copy.name
             next == IF row.name \in Names THEN Began(row, n, left) ELSE row
             run == [pc |-> "run", copy |-> [fire.copy EXCEPT !.remaining = @ + left]]
         IN  Good(next, run, lost) /\ run.copy.name = n /\ next.name = row.name
<1> DEFINE copy == fire.copy
           n == copy.name
           m == copy.remaining + left
           f == [pc |-> "run", copy |-> [copy EXCEPT !.remaining = m]]
           r == Began(row, n, left)
<1>1. row \in Row /\ copy \in Row /\ n \in Names
  BY DEF Good, FireRow, Named
<1>2. /\ left \in Nat
      /\ left > 0 => /\ n \in Recurring /\ copy.remaining = 0 /\ row.remaining = 0
                     /\ Times[n] > 0 /\ left <= Times[n]
      /\ /\ row.name \in Names /\ row.remaining = 0 /\ copy.remaining = 0
         /\ n \in Recurring /\ Times[n] > 0
         => left \in 1..Times[n] /\ (copy.total >= Times[n] => left = 1)
  <2> DEFINE k == Inferred(copy)
  <2>1. /\ k \in Nat
        /\ k > 0 => n \in Recurring /\ copy.remaining = 0 /\ Times[n] > 0
        /\ n \in Recurring /\ copy.remaining = 0 /\ Times[n] > 0 =>
              k \in 1..Times[n] /\ (copy.total >= Times[n] => k = 1)
    BY <1>1, InferredFacts
  <2>2. \/ left = k /\ row.name \in Names /\ row.remaining = 0
        \/ left = 0 /\ ~(row.name \in Names /\ row.remaining = 0)
    BY DEF Given
  <2>3. Times[n] \in Nat
    BY <1>1, RowTypes
  <2> HIDE DEF k
  <2> QED
    BY <2>1, <2>2, <2>3
<1>2a. /\ copy.remaining \in Nat /\ m \in Nat /\ m = copy.remaining + left
       /\ row.remaining \in Nat /\ row.total \in Nat /\ row.ran \in Nat
       /\ Times[n] \in Nat /\ MaxRuns \in Nat
  BY <1>1, <1>2, RowTypes
<1>2b. [copy EXCEPT !.remaining = @ + left] = [copy EXCEPT !.remaining = m]
  BY <1>1 DEF Row
<1> HIDE DEF m
<1>3. /\ f \in FireRow /\ f.pc = "run" /\ f.copy.name = n /\ f.copy.remaining = m
  BY <1>1, <1>2a DEF FireRow, Row
<1>4. /\ r \in Row /\ r.name = row.name /\ r.enabled = row.enabled
      /\ r.remaining = row.remaining + left
      /\ r.total = row.total /\ r.stopped = row.stopped
      /\ r.allowed = row.allowed /\ r.inherited = row.inherited
      /\ r.ran >= row.ran
      /\ row.name # n => r.ran = row.ran
      /\ row.name = n => /\ r.ran > 0
                         /\ r.ran <= row.ran + 1
                         /\ r.ran = row.ran + 1 \/ r.ran = MaxRuns
  <2>1. left \in Nat
    BY <1>2
  <2> QED
    BY <1>1, <2>1, BeganRow
<1>4a. r.ran \in Nat
  BY <1>4, RowTypes
<1> HIDE DEF f, r
<1>5. CopyCounted(f)
  <2>1. n \in Recurring /\ Times[n] > 0 => copy.remaining <= Times[n]
    BY DEF Good, CopyCounted
  <2>2. n \in Recurring /\ Times[n] > 0 => m <= Times[n]
    BY <1>2, <1>2a, <2>1
  <2> QED
    BY <1>3, <2>2 DEF CopyCounted
<1>6. CASE row.name \notin Names
  <2>1. row.enabled = FALSE
    BY <1>1, <1>6, RowTypes DEF Good, Named
  <2>2. Good(row, f, lost)
    <3>1. Named(row, f)
      BY <1>1, <1>3, <2>1 DEF Named
    <3> QED
      BY <1>1, <1>3, <1>5, <1>6, <2>1, <3>1, AbsentGood
  <2> QED
    BY <1>2b, <1>3, <1>6, <2>2 DEF f
<1>7. CASE row.name \in Names
  <2>0. PICK t \in Nat : t = Times[row.name]
    BY <1>1, <1>7, RowTypes
  <2>1. Named(r, f) /\ Declared(r)
    BY <1>1, <1>3, <1>4 DEF Good, Named, Declared
  <2>2. Ended(r)
    <3>1. Served(row) => Served(r)
      BY <1>2a, <1>4, <1>4a, <2>0 DEF Served
    <3> QED
      BY <1>4, <3>1 DEF Good, Ended
  <2>3. Belongs(r, f)
    BY <1>3, <1>4 DEF Good, Belongs
  <2>3a. Faithful(r, f)
    <3> SUFFICES ASSUME row.name \in Recurring, ~row.inherited
                 PROVE  /\ t = 0 => row.remaining + left = 0
                        /\ m = row.remaining + left
                        /\ t > 0 => row.remaining + left > 0
                        /\ t > 0 /\ r.ran < MaxRuns =>
                              row.remaining + left + r.ran >= t + Underway(r, f)
      BY <1>3, <1>4, <2>0 DEF Faithful
    <3>1. n = row.name
      BY <1>7 DEF Good, Belongs
    <3>2. /\ t = 0 => row.remaining = 0
          /\ copy.remaining = row.remaining
          /\ t > 0 /\ row.ran < MaxRuns => row.remaining + row.ran >= t + Underway(row, fire)
      BY <2>0 DEF Good, Faithful
    <3>3. Underway(row, fire) = 0 /\ Underway(r, f) = 1
      BY <1>3, <1>4, <1>7, <3>1 DEF Underway, Own
    <3>4. t = 0 => left = 0
      BY <1>2, <2>0, <3>1
    <3>5. t > 0 /\ row.remaining = 0 => left >= 1
      BY <1>2, <1>7, <2>0, <3>1, <3>2
    <3>6. r.ran < MaxRuns => r.ran = row.ran + 1 /\ row.ran < MaxRuns
      BY <1>2a, <1>4, <1>4a, <3>1
    <3> QED
      BY <1>2, <1>2a, <3>2, <3>3, <3>4, <3>5, <3>6
  <2>4. Counted(r, f)
    <3> SUFFICES ASSUME row.name \in Recurring, t > 0
                 PROVE  /\ row.remaining + left <= t
                        /\ t < MaxRuns => row.remaining + left + row.total >= t
                        /\ n = row.name => m <= row.remaining + left
      BY <1>3, <1>4, <2>0 DEF Counted
    <3>1. /\ row.remaining <= t
          /\ t < MaxRuns => row.remaining + row.total >= t
          /\ \/ row.remaining = t
             \/ /\ n = row.name /\ copy.remaining = row.remaining
                /\ copy.total = row.total
      BY <2>0 DEF Good, Counted
    <3>2. n = row.name => copy.remaining <= t
      BY <2>0 DEF Good, CopyCounted
    <3>3. left > 0 => row.remaining = 0 /\ copy.remaining = 0 /\ n = row.name
      BY <1>2, <3>1
    <3>4. left > 0 => left <= t
      BY <1>2, <2>0, <3>3
    <3> QED
      BY <1>2, <1>2a, <3>1, <3>2, <3>3, <3>4
  <2>5. Budget(r, f, lost)
    <3> SUFFICES ASSUME row.allowed > 0, Times[row.name] < MaxRuns
                 PROVE  r.ran + Ahead(r, f)
                            <= row.allowed + lost + Underway(r, f) + Spare(r, f)
      BY <1>4 DEF Budget
    <3>0. /\ row.allowed \in Nat /\ t > 0 /\ t < MaxRuns
      BY <1>1, <1>7, <2>0, RowTypes DEF Good, Declared
    <3>1. row.ran + Ahead(row, fire)
             <= row.allowed + lost + Underway(row, fire) + Spare(row, fire)
      BY <1>7 DEF Good, Budget
    <3>2. Underway(row, fire) = 0
      BY DEF Underway
    <3>2a. Spare(row, fire) \in 0..1 /\ Spare(r, f) \in 0..1
      BY DEF Spare
    <3>3. CASE n # row.name
      <4>1. Underway(r, f) = 0 /\ r.ran = row.ran
        BY <1>3, <1>4, <3>3 DEF Underway, Own
      <4>2. row.name \in Recurring => r.remaining = row.remaining
        <5>1. row.name \in Recurring => row.remaining = t
          BY <2>0, <3>0, <3>3 DEF Good, Counted
        <5> QED
          BY <1>2, <1>2a, <1>4, <3>0, <5>1
      <4>3. Ahead(r, f) = Ahead(row, fire)
        BY <1>3, <1>4, <3>3, <4>2 DEF Ahead, Own
      <4>4. Spare(r, f) = Spare(row, fire)
        BY <1>3, <1>4, <3>3 DEF Spare, Stale, Own
      <4> QED
        BY <3>1, <3>2, <4>1, <4>3, <4>4
    <3>4. CASE n = row.name
      <4>1. Underway(r, f) = 1 /\ r.ran <= row.ran + 1
        BY <1>3, <1>4, <1>7, <3>4 DEF Underway, Own
      <4>2. Ahead(r, f) <= Ahead(row, fire) /\ Ahead(r, f) \in Nat /\ Ahead(row, fire) \in Nat
        <5>1. CASE row.name \notin Recurring
          BY <1>3, <1>4, <1>7, <3>4, <5>1 DEF Ahead, Own
        <5>2. CASE row.name \in Recurring /\ row.remaining > 0
          <6>1. r.remaining = row.remaining
            BY <1>2, <1>2a, <1>4, <5>2
          <6> QED
            BY <1>2a, <1>3, <1>4, <5>2, <6>1 DEF Ahead
        <5>3. CASE row.name \in Recurring /\ row.remaining = 0
          <6>1. Ahead(row, fire) = 1
            BY <1>7, <3>4, <5>3 DEF Ahead, Own
          <6>2. copy.remaining = 0 /\ copy.total = row.total /\ row.total >= t
            BY <1>2a, <2>0, <3>0, <5>3 DEF Good, Counted
          <6>3. left = 1
            BY <1>2, <1>7, <2>0, <3>0, <3>4, <5>3, <6>2
          <6>4. r.remaining = 1
            BY <1>4, <5>3, <6>3
          <6>5. Ahead(r, f) = 1
            BY <1>4, <5>3, <6>4 DEF Ahead
          <6> QED
            BY <6>1, <6>5
        <5> QED
          BY <1>2a, <5>1, <5>2, <5>3
      <4>3. Spare(row, fire) <= Spare(r, f)
        <5>1. Stale(r, f) => Stale(row, fire)
          <6> SUFFICES ASSUME Stale(r, f) PROVE Stale(row, fire)
            OBVIOUS
          <6>1. row.name \in Recurring /\ m = 0
            BY <1>3, <1>4 DEF Stale
          <6>2. left = 0 /\ copy.remaining = 0
            BY <1>2, <1>2a, <6>1
          <6>3. row.remaining # 0
            BY <1>2, <1>7, <2>0, <3>0, <3>4, <6>1, <6>2
          <6>4. row.remaining > 0
            BY <1>2a, <6>3
          <6> QED
            BY <1>7, <2>0, <3>0, <3>4, <6>1, <6>2, <6>4 DEF Stale, Own
        <5>2. CASE row.inherited /\ ~Stale(row, fire)
          BY <1>4, <5>1, <5>2, <3>2a DEF Spare
        <5>3. CASE ~(row.inherited /\ ~Stale(row, fire))
          BY <3>2a, <5>3 DEF Spare
        <5> QED
          BY <5>2, <5>3
      <4> QED
        BY <1>2a, <1>4a, <3>0, <3>1, <3>2, <3>2a, <4>1, <4>2, <4>3
    <3> QED
      BY <3>3, <3>4
  <2>6. Good(r, f, lost)
    BY <1>3, <1>4, <1>5, <2>1, <2>2, <2>3, <2>3a, <2>4, <2>5 DEF Good
  <2> QED
    BY <1>2b, <1>3, <1>4, <1>7, <2>6 DEF f, r
<1> QED
  BY <1>6, <1>7

LEMMA SlotTypes == \A copy, status : NextSlot(copy, status) \in Int
<1> SUFFICES ASSUME NEW copy, NEW status PROVE NextSlot(copy, status) \in Int
  OBVIOUS
<1>1. \A k : Cooldown(k) \in Nat
  <2> SUFFICES ASSUME NEW k PROVE Cooldown(k) \in Nat
    OBVIOUS
  <2> DEFINE wait == RetryBase * 2 ^ (IF k - BreakAfter > 0 THEN k - BreakAfter ELSE 0)
  <2>1. Cooldown(k) = IF wait \in 0..RetryMax THEN wait ELSE RetryMax
    BY Zenon DEF Cooldown
  <2> HIDE DEF wait
  <2>2. RetryMax \in Nat
    BY TimingAssumption
  <2> QED
    BY <2>1, <2>2
<1>2. Period \in Nat
  BY TimingAssumption
<1>3. NextSlot(copy, status) = Cooldown(copy.failures + 1) \/ NextSlot(copy, status) = Period
  BY Zenon DEF NextSlot
<1> HIDE DEF Cooldown
<1>4. Cooldown(copy.failures + 1) \in Nat
  BY <1>1, Zenon
<1>5. Cooldown(copy.failures + 1) \in Int /\ Period \in Int
  BY <1>2, <1>4
<1> QED
  BY <1>3, <1>5, Zenon

\* The row after record_outcome.
LEMMA OutcomeRow ==
  ASSUME NEW row \in Row, NEW copy \in Row, NEW status
  PROVE  LET r == Outcome(row, copy, status)
         IN  /\ r \in Row /\ r.name = row.name
             /\ r.enabled = (row.enabled /\ ~LastRun(copy))
             /\ r.remaining = IF copy.name \in Recurring /\ row.remaining > 0
                                    /\ copy.remaining > 0
                              THEN row.remaining - 1 ELSE row.remaining
             /\ r.total = (IF row.total < MaxRuns THEN row.total + 1 ELSE row.total)
             /\ r.ran = row.ran /\ r.stopped = row.stopped
             /\ r.allowed = row.allowed /\ r.inherited = row.inherited
<1> DEFINE e == row.enabled /\ ~LastRun(copy)
           m == IF copy.name \in Recurring /\ row.remaining > 0 /\ copy.remaining > 0
                THEN row.remaining - 1 ELSE row.remaining
           t == IF row.total < MaxRuns THEN row.total + 1 ELSE row.total
           b == IF ~Failed(status) THEN 0
                ELSE IF row.failures < MaxRuns THEN row.failures + 1 ELSE row.failures
           x == IF copy.name \in Recurring THEN NextSlot(copy, status) ELSE row.next
           r == [row EXCEPT !.total = t, !.failures = b, !.remaining = m, !.next = x,
                            !.enabled = e]
<1>1. /\ row.enabled \in BOOLEAN /\ row.next \in Int /\ row.remaining \in Nat
      /\ row.total \in 0..MaxRuns /\ row.failures \in 0..MaxRuns /\ MaxRuns \in Nat
      /\ copy.remaining \in Nat
  BY RowTypes
<1>2. e \in BOOLEAN
  OBVIOUS
<1>3. m \in Nat
  BY <1>1
<1>4. t \in 0..MaxRuns
  BY <1>1
<1>5. b \in 0..MaxRuns
  BY <1>1
<1>6. x \in Int
  BY <1>1, SlotTypes, Zenon
<1>7. Outcome(row, copy, status) = r
  BY DEF Outcome, Row
<1> HIDE DEF e, m, t, b, x
<1>8. /\ r \in Row /\ r.name = row.name /\ r.enabled = e /\ r.remaining = m
      /\ r.total = t /\ r.ran = row.ran /\ r.stopped = row.stopped
      /\ r.allowed = row.allowed /\ r.inherited = row.inherited
  BY <1>2, <1>3, <1>4, <1>5, <1>6 DEF Row
<1> HIDE DEF r
<1> QED
  BY <1>7, <1>8, Zenon DEF e, m, t

\* A run ends on the row that is there now.
LEMMA OutcomeGood ==
  ASSUME NEW row, NEW fire, NEW lost \in Nat, Good(row, fire, lost), NEW status,
         fire.pc = "run"
  PROVE  Good(IF row.name \in Names THEN Outcome(row, fire.copy, status) ELSE row,
              NoFire, lost)
<1> DEFINE copy == fire.copy
           r == Outcome(row, copy, status)
<1>1. /\ row \in Row /\ copy \in Row /\ NoFire \in FireRow /\ NoFire.pc = "none"
      /\ copy.name \in Names
  BY EmptyRow DEF Good, FireRow, Named
<1>2. /\ r \in Row /\ r.name = row.name
      /\ r.enabled = (row.enabled /\ ~LastRun(copy))
      /\ r.remaining = IF copy.name \in Recurring /\ row.remaining > 0
                             /\ copy.remaining > 0
                       THEN row.remaining - 1 ELSE row.remaining
      /\ r.total = (IF row.total < MaxRuns THEN row.total + 1 ELSE row.total)
      /\ r.ran = row.ran /\ r.stopped = row.stopped
      /\ r.allowed = row.allowed /\ r.inherited = row.inherited
  BY <1>1, OutcomeRow
<1> HIDE DEF r
<1>3. CopyCounted(NoFire)
  BY <1>1 DEF CopyCounted
<1>4. CASE row.name \notin Names
  <2>1. row.enabled = FALSE /\ Named(row, NoFire)
    BY <1>1, <1>4, RowTypes DEF Good, Named
  <2> QED
    BY <1>1, <1>3, <1>4, <2>1, AbsentGood
<1>5. CASE row.name \in Names
  <2>0. /\ row.remaining \in Nat /\ row.total \in Nat /\ row.total <= MaxRuns
        /\ row.ran \in Nat /\ row.allowed \in Nat /\ copy.remaining \in Nat
        /\ Times[row.name] \in Nat /\ MaxRuns \in Nat /\ row.enabled \in BOOLEAN
        /\ row.ran <= MaxRuns /\ Times[row.name] <= MaxRuns
    BY <1>1, <1>5, RowTypes
  <2>1. Named(r, NoFire) /\ Belongs(r, NoFire) /\ Declared(r)
    BY <1>1, <1>2, <1>5 DEF Good, Named, Belongs, Declared
  <2>2a. PICK t \in Nat : t = Times[row.name]
    BY <2>0
  <2>2b. ~row.inherited =>
            /\ copy.name = row.name /\ row.ran > 0
            /\ row.name \in Recurring =>
                  /\ t = 0 => row.remaining = 0
                  /\ copy.remaining = row.remaining
                  /\ t > 0 => row.remaining > 0
                  /\ t > 0 /\ row.ran < MaxRuns => row.remaining + row.ran >= t + 1
    <3> SUFFICES ASSUME ~row.inherited
                 PROVE  /\ copy.name = row.name /\ row.ran > 0
                        /\ row.name \in Recurring =>
                              /\ t = 0 => row.remaining = 0
                              /\ copy.remaining = row.remaining
                              /\ t > 0 => row.remaining > 0
                              /\ t > 0 /\ row.ran < MaxRuns
                                    => row.remaining + row.ran >= t + 1
      OBVIOUS
    <3>1. copy.name = row.name /\ row.ran > 0
      BY <1>5 DEF Good, Belongs
    <3>2. Underway(row, fire) = 1
      BY <1>5, <3>1 DEF Underway, Own
    <3> QED
      BY <2>2a, <3>1, <3>2 DEF Good, Faithful
  <2>2. Ended(r)
    <3> SUFFICES ASSUME ~r.enabled, ~row.stopped, ~row.inherited PROVE Served(r)
      BY <1>2 DEF Ended
    <3>1. CASE ~row.enabled
      BY <1>2, <1>5, <3>1 DEF Good, Ended, Served
    <3>2. CASE row.enabled /\ row.name \notin Recurring
      BY <1>2, <2>2b, <3>2 DEF Served
    <3>3. CASE row.enabled /\ row.name \in Recurring
      <4>1. copy.remaining = 1 /\ row.remaining = 1
        BY <1>2, <2>2b, <3>3 DEF LastRun
      <4>2. t > 0 /\ row.ran >= t
        BY <2>0, <2>2a, <2>2b, <3>3, <4>1
      <4> QED
        BY <1>2, <2>2a, <3>3, <4>2 DEF Served
    <3> QED
      BY <3>1, <3>2, <3>3
  <2>2c. Faithful(r, NoFire)
    <3> SUFFICES ASSUME row.name \in Recurring, ~row.inherited
                 PROVE  /\ t = 0 => r.remaining = 0
                        /\ t > 0 /\ row.ran < MaxRuns =>
                              r.remaining + row.ran >= t + Underway(r, NoFire)
      BY <1>1, <1>2, <2>2a DEF Faithful
    <3>1. Underway(r, NoFire) = 0
      BY <1>1 DEF Underway
    <3>2. t = 0 => r.remaining = 0
      BY <1>2, <2>0, <2>2b
    <3>3. t > 0 => r.remaining = row.remaining - 1
      BY <1>2, <2>2b
    <3> QED
      BY <2>0, <2>2b, <3>1, <3>2, <3>3
  <2>3. Counted(r, NoFire)
    <3> SUFFICES ASSUME row.name \in Recurring, Times[row.name] > 0
                 PROVE  /\ r.remaining <= Times[row.name]
                        /\ Times[row.name] < MaxRuns
                              => r.remaining + r.total >= Times[row.name]
      BY <1>1, <1>2 DEF Counted
    <3>1. /\ row.remaining <= Times[row.name]
          /\ Times[row.name] < MaxRuns => row.remaining + row.total >= Times[row.name]
      BY DEF Good, Counted
    <3>2. r.remaining <= row.remaining /\ r.remaining >= row.remaining - 1
          /\ r.remaining \in Nat
      BY <1>2, <2>0
    <3>3. r.total = row.total + 1 \/ (r.total = MaxRuns /\ row.total = MaxRuns)
      BY <1>2, <2>0
    <3> QED
      BY <2>0, <3>1, <3>2, <3>3
  <2>4. Budget(r, NoFire, lost)
    <3> SUFFICES ASSUME row.allowed > 0, Times[row.name] < MaxRuns
                 PROVE  row.ran + Ahead(r, NoFire)
                            <= row.allowed + lost + Underway(r, NoFire) + Spare(r, NoFire)
      BY <1>2 DEF Budget
    <3>1. row.ran + Ahead(row, fire)
             <= row.allowed + lost + Underway(row, fire) + Spare(row, fire)
      BY <1>5 DEF Good, Budget
    <3>2. Underway(r, NoFire) = 0 /\ Spare(r, NoFire) = IF row.inherited THEN 1 ELSE 0
      BY <1>1, <1>2 DEF Underway, Spare, Stale
    <3>2a. /\ Spare(row, fire) \in 0..1 /\ Spare(r, NoFire) \in 0..1
           /\ Spare(row, fire) <= Spare(r, NoFire)
      BY <3>2 DEF Spare
    <3>3. CASE copy.name # row.name
      <4>1. Underway(row, fire) = 0
        BY <3>3 DEF Underway, Own
      <4>2. Ahead(r, NoFire) <= Ahead(row, fire) /\ Ahead(r, NoFire) \in Nat
            /\ Ahead(row, fire) \in Nat
        <5>1. r.remaining = row.remaining \/ (row.remaining > 0 /\ r.remaining = row.remaining - 1)
          BY <1>2
        <5>2. r.enabled => row.enabled
          BY <1>2
        <5>3. CASE row.name \notin Recurring
          BY <1>1, <1>2, <5>2, <5>3 DEF Ahead
        <5>4. CASE row.name \in Recurring /\ row.remaining > 0
          BY <1>1, <1>2, <2>0, <5>1, <5>4 DEF Ahead
        <5>5. CASE row.name \in Recurring /\ row.remaining = 0
          BY <1>1, <1>2, <2>0, <5>1, <5>2, <5>5 DEF Ahead
        <5> QED
          BY <2>0, <5>3, <5>4, <5>5
      <4> QED
        BY <2>0, <3>1, <3>2, <3>2a, <4>1, <4>2
    <3>4. CASE copy.name = row.name /\ Stale(row, fire)
      <4>1. Underway(row, fire) = 1 /\ Spare(row, fire) = 0
        BY <1>5, <3>4 DEF Underway, Own, Spare
      <4>2. row.name \in Recurring /\ t > 0 /\ copy.remaining = 0
        BY <2>2a, <3>4 DEF Stale
      <4>3. Spare(r, NoFire) = 1
        BY <2>2b, <3>2, <4>2
      <4>4. r.remaining = row.remaining /\ (r.enabled => row.enabled)
        <5>1. ~(copy.remaining > 0)
          BY <4>2
        <5> QED
          BY <1>2, <5>1
      <4>5. Ahead(r, NoFire) <= Ahead(row, fire) /\ Ahead(r, NoFire) \in Nat
            /\ Ahead(row, fire) \in Nat
        BY <1>1, <1>2, <2>0, <4>2, <4>4 DEF Ahead
      <4> QED
        BY <2>0, <3>1, <3>2, <4>1, <4>3, <4>5
    <3>5. CASE copy.name = row.name /\ ~Stale(row, fire)
      <4>1. Underway(row, fire) = 1
        BY <1>5, <3>5 DEF Underway, Own
      <4>2. Ahead(r, NoFire) + 1 <= Ahead(row, fire) \/ Ahead(r, NoFire) = 0
        <5>1. CASE row.name \notin Recurring
          <6>1. r.enabled = FALSE
            BY <1>2, <3>5, <5>1 DEF LastRun
          <6> QED
            BY <1>1, <1>2, <5>1, <6>1 DEF Ahead
        <5>2. CASE row.name \in Recurring
          <6>0. Times[row.name] > 0
            BY <1>5, <2>0 DEF Good, Declared
          <6>1. copy.remaining \in 1..row.remaining
            <7>1. copy.remaining <= row.remaining
              BY <3>5, <5>2, <6>0 DEF Good, Counted
            <7>2. copy.remaining # 0
              BY <1>5, <3>5, <5>2, <6>0 DEF Stale, Own
            <7> QED
              BY <2>0, <7>1, <7>2
          <6>2. row.remaining > 0 /\ r.remaining = row.remaining - 1 /\ copy.remaining > 0
            BY <1>2, <2>0, <3>5, <5>2, <6>1
          <6>3. CASE row.remaining = 1
            <7>1. copy.remaining = 1 /\ r.remaining = 0
              BY <6>1, <6>2, <6>3
            <7>2. r.enabled = FALSE
              BY <1>2, <7>1 DEF LastRun
            <7> QED
              BY <1>1, <7>1, <7>2 DEF Ahead
          <6>4. CASE row.remaining > 1
            BY <1>2, <2>0, <5>2, <6>2, <6>4 DEF Ahead
          <6> QED
            BY <2>0, <6>2, <6>3, <6>4
        <5> QED
          BY <5>1, <5>2
      <4>3. Ahead(r, NoFire) \in Nat /\ Ahead(row, fire) \in Nat
        BY <1>1, <1>2, RowTypes DEF Ahead
      <4>4. CASE Ahead(r, NoFire) + 1 <= Ahead(row, fire)
        BY <2>0, <3>1, <3>2, <3>2a, <4>1, <4>3, <4>4
      <4>5. CASE Ahead(r, NoFire) = 0
        <5>1. Ahead(row, fire) >= 1
          BY <1>5, <2>0, <3>5 DEF Ahead, Own
        <5> QED
          BY <2>0, <3>1, <3>2, <3>2a, <4>1, <4>3, <4>5, <5>1
      <4> QED
        BY <4>2, <4>4, <4>5
    <3> QED
      BY <3>3, <3>4, <3>5
  <2>5. Good(r, NoFire, lost)
    BY <1>1, <1>2, <1>3, <2>1, <2>2, <2>2c, <2>3, <2>4 DEF Good
  <2> QED
    BY <1>5, <2>5 DEF r
<1> QED
  BY <1>4, <1>5

-----------------------------------------------------------------------------
(* The table and the counters.                                             *)

LEMMA Types ==
  ASSUME IInv
  PROVE  /\ rows \in [Ids -> Row] /\ fires \in [Ids -> FireRow]
         /\ runs \in [Ids -> Nat] /\ running \in [Ids -> Nat]
         /\ threads \in [Names -> Nat] /\ Lost \in Nat
         /\ used \in [ops : Nat, crashes : Nat, faults : Nat]
         /\ \A i \in Ids : /\ Good(rows[i], fires[i], Lost)
                           /\ rows[i] \in Row /\ fires[i] \in FireRow
                           /\ InFlight(i) => fires[i].copy.name \in Names
<1>1. Lost \in Nat
  BY DEF IInv, Shapes, Lost
<1>2. \A i \in Ids : Good(rows[i], fires[i], Lost)
  BY DEF IInv, EntriesGood
<1> QED
  BY <1>1, <1>2 DEF IInv, Shapes, Good, Named, InFlight

\* The shapes, from those of the entries.
LEMMA ShapesFrom ==
  ASSUME rows' = [i \in Ids |-> rows'[i]], fires' = [i \in Ids |-> fires'[i]],
         EntriesGood', runs' \in [Ids -> Nat], running' \in [Ids -> Nat],
         threads' \in [Names -> Nat],
         loop' = [pc |-> loop'.pc, until |-> loop'.until, woken |-> loop'.woken],
         loop'.pc \in Pcs,
         used' \in [ops : Nat, crashes : Nat, faults : Nat]
  PROVE  Shapes'
<1>1. \A i \in Ids : rows'[i] \in Row /\ fires'[i] \in FireRow
  BY DEF EntriesGood, Good
<1>2. rows' \in [Ids -> Row] /\ fires' \in [Ids -> FireRow]
  BY <1>1
<1> QED
  BY <1>2 DEF Shapes

LEMMA NamesKept ==
  ASSUME IInv, \A i \in Ids : rows'[i].name = rows[i].name
  PROVE  NamesUnique'
  BY DEF IInv, NamesUnique, Here

\* Nothing in flight changes.
LEMMA FlightsKept ==
  ASSUME IInv, UNCHANGED <<fires, runs, running, threads>>,
         used'.faults = used.faults, loop'.pc = loop.pc
  PROVE  FiresUnique' /\ GatherWaits' /\ RunsHeld' /\ ThreadsTrue' /\ HistoryHonest'
  BY DEF IInv, FiresUnique, InFlight, GatherWaits, RunsHeld, ThreadsTrue, Runs,
     HistoryHonest

LEMMA UpdateRows ==
  ASSUME IInv, NEW i \in Ids, NEW row, Update(i, row)
  PROVE  /\ rows' = [k \in Ids |-> rows'[k]]
         /\ rows'[i] = IF rows[i].name \in Names THEN row ELSE rows[i]
         /\ \A k \in Ids : k # i => rows'[k] = rows[k]
  BY Types DEF Update, Here

\* A fire ends that has not begun a run, or boot is done with an entry.
LEMMA DropKeeps ==
  ASSUME IInv, NEW i \in Ids, fires[i].pc \in {"missed", "fetched"},
         fires' = [fires EXCEPT ![i] = NoFire],
         NEW row, Update(i, row), row.name = rows[i].name, Good(row, fires[i], Lost),
         UNCHANGED <<runs, loop, running, threads, used>>
  PROVE  IInv'
<1>0. /\ fires' = [k \in Ids |-> fires'[k]] /\ fires'[i] = NoFire /\ NoFire.pc = "none"
      /\ \A k \in Ids : k # i => fires'[k] = fires[k]
  BY Types, EmptyRow
<1>1. /\ rows' = [k \in Ids |-> rows'[k]]
      /\ rows'[i] = IF rows[i].name \in Names THEN row ELSE rows[i]
      /\ \A k \in Ids : k # i => rows'[k] = rows[k]
  BY UpdateRows
<1>2. EntriesGood'
  <2> SUFFICES ASSUME NEW k \in Ids PROVE Good(rows'[k], fires'[k], Lost')
    BY DEF EntriesGood
  <2>0. Lost' = Lost
    BY DEF Lost
  <2>1. CASE k = i
    <3>1. Good(rows'[i], fires[i], Lost)
      BY <1>1, Types
    <3> QED
      BY <1>0, <2>0, <2>1, <3>1, Types, DroppedGood
  <2>2. CASE k # i
    BY <1>0, <1>1, <2>0, <2>2, Types
  <2> QED
    BY <2>1, <2>2
<1>3. Shapes'
  BY <1>0, <1>1, <1>2, ShapesFrom DEF IInv, Shapes
<1>4. NamesUnique'
  BY <1>1, NamesKept
<1>5. FiresUnique' /\ GatherWaits' /\ RunsHeld'
  BY <1>0 DEF IInv, FiresUnique, InFlight, GatherWaits, RunsHeld
<1>6. ThreadsTrue'
  <2>1. \A n \in Names : Runs(n)' = Runs(n)
    BY <1>0 DEF Runs
  <2> QED
    BY <2>1 DEF IInv, ThreadsTrue
<1>7. HistoryHonest'
  BY <1>0 DEF IInv, HistoryHonest
<1> QED
  BY <1>2, <1>3, <1>4, <1>5, <1>6, <1>7 DEF IInv

\* A run ends, with or without being counted.
LEMMA EndKeeps ==
  ASSUME IInv, NEW i \in Ids, fires[i].pc = "run",
         fires' = [fires EXCEPT ![i] = NoFire],
         \/ runs' = [runs EXCEPT ![i] = @ - 1] /\ used'.faults = used.faults
         \/ runs' = runs /\ used'.faults = used.faults + 1,
         running' = [running EXCEPT ![i] = @ - 1] \/ running' = running,
         \/ threads' = [threads EXCEPT ![fires[i].copy.name] = @ - 1]
         \/ threads' = threads /\ fires[i].copy.name \in Sync \cap TimedOut,
         loop' = loop
  PROVE  /\ FiresUnique' /\ GatherWaits' /\ RunsHeld' /\ ThreadsTrue' /\ HistoryHonest'
         /\ runs' \in [Ids -> Nat] /\ running' \in [Ids -> Nat]
         /\ threads' \in [Names -> Nat]
<1>0. /\ fires'[i] = NoFire /\ NoFire.pc = "none"
      /\ \A k \in Ids : k # i => fires'[k] = fires[k]
  BY Types, EmptyRow
<1>1. PICK m \in Names : m = fires[i].copy.name
  BY Types DEF InFlight
<1>2. runs[i] \in Nat /\ runs[i] >= 1 /\ running[i] \in Nat /\ running[i] >= 1
  BY Types DEF IInv, RunsHeld
<1>3. /\ runs' \in [Ids -> Nat] /\ running' \in [Ids -> Nat]
      /\ \A k \in Ids : k # i => runs'[k] = runs[k] /\ running'[k] = running[k]
  BY <1>2, Types
<1>4. threads[m] \in Nat /\ threads[m] >= 1
  <2>1. Runs(m) # {}
    BY <1>1 DEF Runs
  <2> QED
    BY <2>1, Types DEF IInv, ThreadsTrue
<1>5. threads' \in [Names -> Nat]
  BY <1>1, <1>4, Types
<1>6. FiresUnique' /\ GatherWaits' /\ RunsHeld'
  BY <1>0, <1>3 DEF IInv, FiresUnique, InFlight, GatherWaits, RunsHeld
<1>7. ThreadsTrue'
  <2> SUFFICES ASSUME NEW n \in Names
               PROVE  /\ Runs(n)' # {} => threads'[n] >= 1
                      /\ n \notin Sync \cap TimedOut =>
                            threads'[n] <= 1 /\ (threads'[n] = 1 => Runs(n)' # {})
    BY DEF ThreadsTrue
  <2>1. CASE n = m
    <3>1. Runs(n)' = {}
      BY <1>0, <1>1, <2>1 DEF Runs, IInv, FiresUnique, InFlight
    <3>2. n \notin Sync \cap TimedOut => threads[n] = 1 /\ threads'[n] = 0
      BY <1>1, <1>4, <2>1, Types DEF IInv, ThreadsTrue
    <3> QED
      BY <3>1, <3>2
  <2>2. CASE n # m
    <3>1. threads'[n] = threads[n]
      BY <1>1, <2>2, Types
    <3>2. Runs(n)' = Runs(n)
      BY <1>0, <1>1, <2>2 DEF Runs
    <3> QED
      BY <3>1, <3>2 DEF IInv, ThreadsTrue
  <2> QED
    BY <2>1, <2>2
<1>8. HistoryHonest'
  <2> SUFFICES ASSUME loop.pc \notin {"off", "boot"}, NEW k \in Ids
               PROVE  LET inFlight == IF fires'[k].pc = "run" THEN 1 ELSE 0
                      IN  runs'[k] \in inFlight..(inFlight + used'.faults)
    BY DEF HistoryHonest
  <2>0. used.faults \in Nat
    BY Types
  <2>1. CASE k = i
    <3>1. runs[i] \in 1..(1 + used.faults)
      BY DEF IInv, HistoryHonest
    <3>2. \/ runs'[i] = runs[i] - 1 /\ used'.faults = used.faults
          \/ runs'[i] = runs[i] /\ used'.faults = used.faults + 1
      BY Types
    <3> QED
      BY <1>0, <2>0, <2>1, <3>1, <3>2
  <2>2. CASE k # i
    <3>1. runs'[k] = runs[k] /\ fires'[k] = fires[k]
      BY <1>0, <1>3, <2>2
    <3>2. used'.faults = used.faults \/ used'.faults = used.faults + 1
      OBVIOUS
    <3>3. runs[k] \in Nat
      BY Types
    <3>4. CASE fires[k].pc = "run"
      BY <2>0, <3>1, <3>2, <3>3, <3>4 DEF IInv, HistoryHonest
    <3>5. CASE fires[k].pc # "run"
      BY <2>0, <3>1, <3>2, <3>3, <3>5 DEF IInv, HistoryHonest
    <3> QED
      BY <3>4, <3>5
  <2> QED
    BY <2>1, <2>2
<1> QED
  BY <1>3, <1>5, <1>6, <1>7, <1>8

-----------------------------------------------------------------------------
(* The steps of a fire.                                                    *)

LEMMA RecoverKeeps ==
  ASSUME IInv, NEW i \in Ids, Recover(i)
  PROVE  IInv'
<1> DEFINE over == [Disabled(rows[i]) EXCEPT !.stopped = TRUE]
<1>0. /\ Good(rows[i], fires[i], Lost) /\ Lost \in Nat /\ rows[i] \in Row
      /\ Period \in Int /\ fires[i].pc = "missed"
  BY Types, TimingAssumption DEF Recover
<1>1. Good(over, fires[i], Lost) /\ over.name = rows[i].name
  <2>1. over.name = rows[i].name
    BY <1>0 DEF Disabled, Row
  <2> QED
    BY <1>0, <2>1, OffGood
<1>2. Good(Advanced(rows[i]), fires[i], Lost) /\ Advanced(rows[i]).name = rows[i].name
  <2>1. Advanced(rows[i]).name = rows[i].name
    BY <1>0 DEF Advanced, Row
  <2> QED
    BY <1>0, <2>1, ShiftGood DEF Advanced
<1>3. PICK row \in {Advanced(rows[i]), over} : Update(i, row)
  <2>1. (-fires[i].copy.next > Grace) = TRUE
    BY <1>0 DEF Good, Named
  <2> QED
    BY <2>1 DEF Recover
<1>4. Good(row, fires[i], Lost) /\ row.name = rows[i].name
  BY <1>1, <1>2, <1>3
<1> HIDE DEF over
<1> QED
  BY <1>0, <1>3, <1>4, DropKeeps DEF Recover

LEMMA FilterKeeps ==
  ASSUME IInv, NEW i \in Ids, Filter(i)
  PROVE  IInv'
<1> DEFINE over == [Disabled(rows[i]) EXCEPT !.stopped = TRUE]
<1>0. /\ Good(rows[i], fires[i], Lost) /\ Lost \in Nat /\ rows[i] \in Row
      /\ Period \in Int
  BY Types, TimingAssumption
<1>1. Good(over, fires[i], Lost) /\ over.name = rows[i].name
  <2>1. over.name = rows[i].name
    BY <1>0 DEF Disabled, Row
  <2> QED
    BY <1>0, <2>1, OffGood
<1>2. Good(Advanced(rows[i]), fires[i], Lost) /\ Advanced(rows[i]).name = rows[i].name
  <2>1. Advanced(rows[i]).name = rows[i].name
    BY <1>0 DEF Advanced, Row
  <2> QED
    BY <1>0, <2>1, ShiftGood DEF Advanced
<1>3. PICK row \in {Advanced(rows[i]), over} : Update(i, row)
  BY DEF Filter
<1>4. Good(row, fires[i], Lost) /\ row.name = rows[i].name
  BY <1>1, <1>2, <1>3
<1> HIDE DEF over
<1> QED
  BY <1>3, <1>4, DropKeeps DEF Filter

LEMMA FireKeeps ==
  ASSUME IInv, NEW i \in Ids, Fire(i)
  PROVE  IInv'
<1> DEFINE copy == fires[i].copy
           left == Initialized(i)
           new == [pc |-> "run", copy |-> [copy EXCEPT !.remaining = @ + left]]
<1>0. /\ Good(rows[i], fires[i], Lost) /\ Lost \in Nat /\ rows[i] \in Row
      /\ Period \in Int /\ fires[i].pc = "fetched" /\ UNCHANGED <<loop, used>>
  BY Types, TimingAssumption DEF Fire
<1>1. CASE running[i] >= MaxConcurrent
  <2>1. Good(Advanced(rows[i]), fires[i], Lost) /\ Advanced(rows[i]).name = rows[i].name
    <3>1. Advanced(rows[i]).name = rows[i].name
      BY <1>0 DEF Advanced, Row
    <3> QED
      BY <1>0, <3>1, ShiftGood DEF Advanced
  <2>2. PICK row \in {Advanced(rows[i]), rows[i]} : Update(i, row)
    BY <1>1 DEF Fire
  <2>3. Good(row, fires[i], Lost) /\ row.name = rows[i].name
    BY <1>0, <2>1, <2>2
  <2>4. fires' = [fires EXCEPT ![i] = NoFire] /\ UNCHANGED <<runs, running, threads>>
    BY <1>1 DEF Fire
  <2> QED
    BY <1>0, <2>2, <2>3, <2>4, DropKeeps
<1>2. CASE ~(running[i] >= MaxConcurrent)
  <2>0. PICK m \in Names : m = copy.name
    BY <1>0, Types DEF InFlight
  <2>1. /\ running' = [running EXCEPT ![i] = @ + 1]
        /\ runs' = [runs EXCEPT ![i] = @ + 1]
        /\ threads' = [threads EXCEPT ![m] = @ + 1]
        /\ fires' = [fires EXCEPT ![i] = new]
        /\ Update(i, Began(rows[i], m, left))
    BY <1>2, <2>0 DEF Fire
  <2>2. /\ rows' = [k \in Ids |-> rows'[k]]
        /\ rows'[i] = IF rows[i].name \in Names THEN Began(rows[i], m, left) ELSE rows[i]
        /\ \A k \in Ids : k # i => rows'[k] = rows[k]
    BY <2>1, UpdateRows
  <2>2a. left = Given(rows[i], fires[i].copy)
    BY DEF Initialized, Given, Here
  <2>3. Good(rows'[i], new, Lost) /\ new.copy.name = m /\ rows'[i].name = rows[i].name
    <3> HIDE DEF left
    <3> QED
      BY <1>0, <2>0, <2>2, <2>2a, BeganGood
  <2>3a. new.pc = "run"
    OBVIOUS
  <2> HIDE DEF new, left
  <2>4. /\ fires' = [k \in Ids |-> fires'[k]] /\ fires'[i] = new
        /\ \A k \in Ids : k # i => fires'[k] = fires[k]
    BY <2>1, Types
  <2>5. EntriesGood'
    <3>1. Lost' = Lost
      BY <1>0 DEF Lost
    <3> QED
      BY <2>2, <2>3, <2>4, <3>1, Types DEF EntriesGood
  <2>6. /\ runs' \in [Ids -> Nat] /\ running' \in [Ids -> Nat] /\ threads' \in [Names -> Nat]
        /\ runs'[i] = runs[i] + 1 /\ running'[i] = running[i] + 1
        /\ \A k \in Ids : k # i => runs'[k] = runs[k] /\ running'[k] = running[k]
        /\ threads'[m] = threads[m] + 1
        /\ \A n \in Names : n # m => threads'[n] = threads[n]
    BY <2>1, Types
  <2>7. Shapes'
    BY <1>0, <2>2, <2>4, <2>5, <2>6, ShapesFrom DEF IInv, Shapes
  <2>8. NamesUnique'
    BY <2>2, <2>3, NamesKept
  <2>9. FiresUnique' /\ GatherWaits'
    BY <1>0, <2>0, <2>3, <2>3a, <2>4 DEF IInv, FiresUnique, InFlight, GatherWaits
  <2>10. RunsHeld'
    <3>1. runs[i] \in Nat /\ running[i] \in Nat
      BY Types
    <3> QED
      BY <2>4, <2>6, <3>1 DEF IInv, RunsHeld
  <2>11. ThreadsTrue'
    <3> SUFFICES ASSUME NEW n \in Names
                 PROVE  /\ Runs(n)' # {} => threads'[n] >= 1
                        /\ n \notin Sync \cap TimedOut =>
                              threads'[n] <= 1 /\ (threads'[n] = 1 => Runs(n)' # {})
      BY DEF ThreadsTrue
    <3>0. threads[n] \in Nat
      BY Types
    <3>1. CASE n = m
      <4>1. Runs(n) = {}
        BY <1>0, <2>0, <3>1 DEF Runs, IInv, FiresUnique, InFlight
      <4>2. i \in Runs(n)'
        BY <2>3, <2>3a, <2>4, <3>1 DEF Runs
      <4>3. n \notin Sync \cap TimedOut => threads[n] = 0
        BY <3>0, <4>1 DEF IInv, ThreadsTrue
      <4> QED
        BY <2>6, <3>0, <3>1, <4>2, <4>3
    <3>2. CASE n # m
      <4>1. Runs(n)' = Runs(n)
        BY <1>0, <2>3, <2>4, <3>2 DEF Runs
      <4> QED
        BY <2>6, <3>2, <4>1 DEF IInv, ThreadsTrue
    <3> QED
      BY <3>1, <3>2
  <2>12. HistoryHonest'
    <3> SUFFICES ASSUME loop.pc \notin {"off", "boot"}, NEW k \in Ids
                 PROVE  LET inFlight == IF fires'[k].pc = "run" THEN 1 ELSE 0
                        IN  runs'[k] \in inFlight..(inFlight + used.faults)
      BY <1>0 DEF HistoryHonest
    <3>1. CASE k = i
      <4>1. runs[i] \in 0..(0 + used.faults) /\ used.faults \in Nat
        BY <1>0, Types DEF IInv, HistoryHonest
      <4> QED
        BY <2>3a, <2>4, <2>6, <3>1, <4>1
    <3>2. CASE k # i
      BY <2>4, <2>6, <3>2 DEF IInv, HistoryHonest
    <3> QED
      BY <3>1, <3>2
  <2> QED
    BY <2>5, <2>7, <2>8, <2>9, <2>10, <2>11, <2>12 DEF IInv
<1> QED
  BY <1>1, <1>2

LEMMA FinishKeeps ==
  ASSUME IInv, NEW i \in Ids, NEW status, Finish(i, status),
         \/ threads' = [threads EXCEPT ![fires[i].copy.name] = @ - 1]
         \/ threads' = threads /\ fires[i].copy.name \in Sync \cap TimedOut
  PROVE  IInv'
<1> DEFINE row == Outcome(rows[i], fires[i].copy, status)
<1>0. /\ fires[i].pc = "run" /\ Update(i, row) /\ fires' = [fires EXCEPT ![i] = NoFire]
      /\ runs' = [runs EXCEPT ![i] = @ - 1] /\ running' = [running EXCEPT ![i] = @ - 1]
      /\ UNCHANGED <<loop, used>>
  BY DEF Finish
<1>1. /\ FiresUnique' /\ GatherWaits' /\ RunsHeld' /\ ThreadsTrue' /\ HistoryHonest'
      /\ runs' \in [Ids -> Nat] /\ running' \in [Ids -> Nat] /\ threads' \in [Names -> Nat]
  BY <1>0, EndKeeps
<1>2. Good(IF rows[i].name \in Names THEN row ELSE rows[i], NoFire, Lost)
  BY <1>0, Types, OutcomeGood
<1>3. row.name = rows[i].name
  <2>1. fires[i].copy \in Row /\ rows[i] \in Row
    BY Types DEF FireRow
  <2> QED
    BY <2>1, OutcomeRow
<1> HIDE DEF row
<1>4. /\ rows' = [k \in Ids |-> rows'[k]]
      /\ rows'[i] = IF rows[i].name \in Names THEN row ELSE rows[i]
      /\ \A k \in Ids : k # i => rows'[k] = rows[k]
  BY <1>0, UpdateRows
<1>5. /\ fires' = [k \in Ids |-> fires'[k]] /\ fires'[i] = NoFire
      /\ \A k \in Ids : k # i => fires'[k] = fires[k]
  BY <1>0, Types
<1>6. EntriesGood'
  <2>1. Lost' = Lost
    BY <1>0 DEF Lost
  <2> QED
    BY <1>2, <1>4, <1>5, <2>1, Types DEF EntriesGood
<1>7. Shapes'
  BY <1>0, <1>1, <1>4, <1>5, <1>6, ShapesFrom DEF IInv, Shapes
<1>8. NamesUnique'
  BY <1>3, <1>4, NamesKept
<1> QED
  BY <1>1, <1>6, <1>7, <1>8 DEF IInv

LEMMA WriteFailsKeeps ==
  ASSUME IInv, NEW i \in Ids, WriteFails(i)
  PROVE  IInv'
<1> DEFINE f == used.faults + 1
<1>0. /\ fires[i].pc = "run" /\ fires' = [fires EXCEPT ![i] = NoFire]
      /\ threads' = [threads EXCEPT ![fires[i].copy.name] = @ - 1]
      /\ used' = [used EXCEPT !.faults = f]
      /\ UNCHANGED <<rows, runs, loop, running>>
  BY DEF WriteFails
<1>1. f \in Nat /\ f = used.faults + 1 /\ used.crashes \in Nat /\ used.faults \in Nat
  BY Types
<1> HIDE DEF f
<1>2. /\ used' \in [ops : Nat, crashes : Nat, faults : Nat]
      /\ used'.faults = f /\ used'.crashes = used.crashes
  BY <1>0, <1>1, Types
<1>3. Lost' = Lost + 1
  BY <1>1, <1>2 DEF Lost
<1>4. /\ FiresUnique' /\ GatherWaits' /\ RunsHeld' /\ ThreadsTrue' /\ HistoryHonest'
      /\ runs' \in [Ids -> Nat] /\ running' \in [Ids -> Nat] /\ threads' \in [Names -> Nat]
  BY <1>0, <1>1, <1>2, EndKeeps
<1>5. /\ fires' = [k \in Ids |-> fires'[k]] /\ fires'[i] = NoFire
      /\ \A k \in Ids : k # i => fires'[k] = fires[k]
  BY <1>0, Types
<1>6. EntriesGood'
  <2> SUFFICES ASSUME NEW k \in Ids PROVE Good(rows[k], fires'[k], Lost + 1)
    BY <1>0, <1>3 DEF EntriesGood
  <2>1. CASE k = i
    BY <1>5, <2>1, Types, LostGood
  <2>2. CASE k # i
    <3>1. Lost + 1 \in Nat /\ Lost <= Lost + 1
      BY Types
    <3> QED
      BY <1>5, <2>2, <3>1, Types, GoodMore
  <2> QED
    BY <2>1, <2>2
<1>7. rows' = [k \in Ids |-> rows'[k]]
  BY <1>0, Types
<1>8. Shapes'
  BY <1>0, <1>2, <1>4, <1>5, <1>6, <1>7, ShapesFrom DEF IInv, Shapes
<1>9. NamesUnique'
  BY <1>0, NamesKept
<1> QED
  BY <1>4, <1>6, <1>8, <1>9 DEF IInv

LEMMA EndStepsKeep ==
  ASSUME IInv, NEW i \in Ids, Return(i) \/ Timeout(i)
  PROVE  IInv'
<1>1. CASE Return(i)
  BY <1>1, FinishKeeps DEF Return
<1>2. CASE Timeout(i)
  BY <1>2, FinishKeeps DEF Timeout, Survives
<1> QED
  BY <1>1, <1>2

\* A thread ends only if more of them execute than runs are waited for.
LEMMA ThreadEndsKeeps ==
  ASSUME IInv, NEW m \in Names, ThreadEnds(m)
  PROVE  IInv'
<1>0. /\ threads[m] > Cardinality(Runs(m))
      /\ threads' = [threads EXCEPT ![m] = @ - 1]
      /\ UNCHANGED <<rows, runs, loop, fires, running, used>>
  BY DEF ThreadEnds, Runs
<1>1. IsFiniteSet(Runs(m))
  <2>1. IsFiniteSet(Ids)
    <3>0. MaxId \in Nat
      BY NamesAssumption, Zenon
    <3>1. 1 \in Int /\ MaxId \in Int
      BY <3>0
    <3> QED
      BY <3>1, FS_Interval DEF Ids
  <2>2. Runs(m) \subseteq Ids
    BY DEF Runs
  <2> QED
    BY <2>1, <2>2, FS_Subset
<1>2. Cardinality(Runs(m)) \in Nat /\ (Cardinality(Runs(m)) = 0 <=> Runs(m) = {})
  BY <1>1, FS_CardinalityType, FS_EmptySet
<1>3. threads[m] \in Nat
  BY Types
<1>4. /\ threads' \in [Names -> Nat] /\ threads'[m] = threads[m] - 1
      /\ \A n \in Names : n # m => threads'[n] = threads[n]
  BY <1>0, <1>2, <1>3, Types
<1>5. ThreadsTrue'
  <2> SUFFICES ASSUME NEW n \in Names
               PROVE  /\ Runs(n)' # {} => threads'[n] >= 1
                      /\ n \notin Sync \cap TimedOut =>
                            threads'[n] <= 1 /\ (threads'[n] = 1 => Runs(n)' # {})
    BY DEF ThreadsTrue
  <2>1. Runs(n)' = Runs(n)
    BY <1>0 DEF Runs
  <2>2. CASE n = m
    <3>1. n \in Sync \cap TimedOut
      BY <1>0, <1>2, <1>3, <2>2 DEF IInv, ThreadsTrue
    <3>2. Runs(n) # {} => threads'[n] >= 1
      BY <1>0, <1>2, <1>3, <1>4, <2>2
    <3> QED
      BY <2>1, <3>1, <3>2
  <2>3. CASE n # m
    BY <1>4, <2>1, <2>3 DEF IInv, ThreadsTrue
  <2> QED
    BY <2>2, <2>3
<1>6. FiresUnique' /\ GatherWaits' /\ RunsHeld' /\ HistoryHonest' /\ NamesUnique'
  BY <1>0 DEF IInv, FiresUnique, InFlight, GatherWaits, RunsHeld, HistoryHonest,
     NamesUnique, Here
<1>7. EntriesGood' /\ Shapes'
  BY <1>0, <1>4 DEF IInv, EntriesGood, Lost, Shapes
<1> QED
  BY <1>5, <1>6, <1>7 DEF IInv

-----------------------------------------------------------------------------
(* The loop.                                                               *)

LEMMA StartKeeps ==
  ASSUME IInv, Start \/ Wake \/ Recovered
  PROVE  IInv'
<1>0. PICK p \in {"boot", "fetch"} :
        /\ \/ loop' = [loop EXCEPT !.pc = p]
           \/ loop' = [pc |-> p, until |-> 0, woken |-> FALSE]
        /\ loop.pc \in {"off", "sleep", "recover"} /\ \A i \in Ids : ~InFlight(i)
        /\ (p = "fetch" => loop.pc # "off")
  BY DEF Start, Wake, Recovered, IInv, GatherWaits
<1>1. UNCHANGED <<rows, runs, fires, running, threads, used>>
  BY DEF Start, Wake, Recovered
<1>2. /\ loop' = [pc |-> loop'.pc, until |-> loop'.until, woken |-> loop'.woken]
      /\ loop'.pc = p
  BY <1>0 DEF IInv, Shapes
<1>3. EntriesGood' /\ NamesUnique' /\ FiresUnique' /\ RunsHeld' /\ ThreadsTrue'
  BY <1>1 DEF IInv, EntriesGood, Lost, NamesUnique, Here, FiresUnique, InFlight,
     RunsHeld, ThreadsTrue, Runs
<1>4. GatherWaits' /\ HistoryHonest'
  BY <1>0, <1>1, <1>2 DEF IInv, GatherWaits, InFlight, HistoryHonest
<1>5. Shapes'
  BY <1>0, <1>1, <1>2 DEF IInv, Shapes, Pcs
<1> QED
  BY <1>3, <1>4, <1>5 DEF IInv

LEMMA SleepKeeps ==
  ASSUME IInv, Sleep
  PROVE  IInv'
<1>0. /\ loop.pc = "gather" /\ (\A i \in Ids : ~InFlight(i))
      /\ loop' = [pc |-> "sleep", until |-> SleepFor, woken |-> FALSE]
      /\ UNCHANGED <<rows, runs, fires, running, threads, used>>
  BY DEF Sleep
<1>2. /\ loop' = [pc |-> loop'.pc, until |-> loop'.until, woken |-> loop'.woken]
      /\ loop'.pc = "sleep"
  BY <1>0
<1>3. EntriesGood' /\ NamesUnique' /\ FiresUnique' /\ RunsHeld' /\ ThreadsTrue'
  BY <1>0 DEF IInv, EntriesGood, Lost, NamesUnique, Here, FiresUnique, InFlight,
     RunsHeld, ThreadsTrue, Runs
<1>4. GatherWaits' /\ HistoryHonest'
  BY <1>0, <1>2 DEF IInv, GatherWaits, InFlight, HistoryHonest
<1>5. Shapes'
  BY <1>0, <1>2 DEF IInv, Shapes, Pcs
<1> QED
  BY <1>3, <1>4, <1>5 DEF IInv

\* Boot and fetch_due take a copy of the rows that are to be dealt with.
LEMMA TakeKeeps ==
  ASSUME IInv, NEW S \in SUBSET Ids, NEW pc \in {"missed", "fetched"},
         \A i \in S : rows[i].enabled /\ (pc = "missed" => Missed(rows[i])),
         \A i \in Ids : ~InFlight(i),
         fires' = [i \in Ids |-> IF i \in S THEN [pc |-> pc, copy |-> rows[i]] ELSE NoFire],
         UNCHANGED <<rows, running, threads, used>>
  PROVE  /\ EntriesGood' /\ FiresUnique' /\ RunsHeld' /\ ThreadsTrue' /\ NamesUnique'
         /\ fires' = [i \in Ids |-> fires'[i]] /\ rows' = [i \in Ids |-> rows'[i]]
         /\ \A i \in Ids : fires'[i].pc # "run" /\ fires[i].pc # "run"
<1>1. \A i \in Ids : fires[i].pc = "none"
  BY DEF InFlight
<1>3. \A i \in Ids :
        /\ i \in S => fires'[i] = [pc |-> pc, copy |-> rows[i]]
        /\ i \notin S => fires'[i] = NoFire
  OBVIOUS
<1>3a. \A i \in Ids :
         /\ i \in S => fires'[i].pc = pc /\ fires'[i].copy = rows[i]
         /\ i \notin S => fires'[i].pc = "none"
  <2> SUFFICES ASSUME NEW i \in Ids
               PROVE  /\ i \in S => fires'[i].pc = pc /\ fires'[i].copy = rows[i]
                      /\ i \notin S => fires'[i].pc = "none"
    OBVIOUS
  <2>1. CASE i \in S
    <3>1. fires'[i] = [pc |-> pc, copy |-> rows[i]]
      BY <1>3, <2>1
    <3> QED
      BY <2>1, <3>1
  <2>2. CASE i \notin S
    <3>1. fires'[i] = NoFire
      BY <1>3, <2>2
    <3> QED
      BY <2>2, <3>1, EmptyRow
  <2> QED
    BY <2>1, <2>2
<1>4. \A i \in Ids : Good(rows[i], NoFire, Lost)
  <2> SUFFICES ASSUME NEW i \in Ids PROVE Good(rows[i], NoFire, Lost)
    OBVIOUS
  <2>1. fires[i].pc # "run"
    BY <1>1
  <2> QED
    BY <2>1, Types, DroppedGood
<1>5. EntriesGood'
  <2> SUFFICES ASSUME NEW i \in Ids PROVE Good(rows[i], fires'[i], Lost)
    BY DEF EntriesGood, Lost
  <2>1. CASE i \in S
    <3>1. rows[i].enabled /\ (pc = "missed" => Missed(rows[i]))
      BY <2>1
    <3> QED
      BY <1>3, <1>4, <2>1, <3>1, Types, FetchedGood
  <2>2. CASE i \notin S
    BY <1>3, <1>4, <2>2
  <2> QED
    BY <2>1, <2>2
<1>6. FiresUnique'
  <2> SUFFICES ASSUME NEW i \in Ids, NEW j \in Ids, InFlight(i)', InFlight(j)',
                      fires'[i].copy.name = fires'[j].copy.name
               PROVE  i = j
    BY DEF FiresUnique
  <2>1. i \in S /\ j \in S
    BY <1>3a DEF InFlight
  <2>2. rows[i].name = rows[j].name
    BY <1>3a, <2>1
  <2>3. Here(i)
    BY <2>1, Types DEF Good, Named, Here
  <2> QED
    BY <2>2, <2>3 DEF IInv, NamesUnique
<1>7. \A i \in Ids : fires'[i].pc # "run" /\ fires[i].pc # "run"
  BY <1>1, <1>3a
<1>8. RunsHeld'
  BY <1>7 DEF RunsHeld
<1>9. ThreadsTrue'
  <2>1. \A n \in Names : Runs(n) = {} /\ Runs(n)' = {}
    BY <1>7 DEF Runs
  <2> QED
    BY <2>1 DEF IInv, ThreadsTrue
<1>10. NamesUnique'
  BY DEF IInv, NamesUnique, Here
<1>11. rows' = [i \in Ids |-> rows'[i]]
  BY Types
<1>12. fires' = [i \in Ids |-> fires'[i]]
  OBVIOUS
<1> QED
  BY <1>5, <1>6, <1>7, <1>8, <1>9, <1>10, <1>11, <1>12

LEMMA BootKeeps ==
  ASSUME IInv, Boot
  PROVE  IInv'
<1> DEFINE S == {i \in Ids : Missed(rows[i])}
<1>0. /\ loop.pc = "boot" /\ runs' = [i \in Ids |-> 0]
      /\ fires' = [i \in Ids |-> IF i \in S THEN [pc |-> "missed", copy |-> rows[i]]
                                 ELSE NoFire]
      /\ loop' = [loop EXCEPT !.pc = "recover"]
      /\ UNCHANGED <<rows, running, threads, used>>
  BY DEF Boot, CrashedRuns
<1>1. (\A i \in Ids : ~InFlight(i)) /\ S \in SUBSET Ids
      /\ \A i \in S : rows[i].enabled /\ Missed(rows[i])
  BY <1>0 DEF IInv, GatherWaits, Missed
<1>2. /\ loop' = [pc |-> loop'.pc, until |-> loop'.until, woken |-> loop'.woken]
      /\ loop'.pc = "recover"
  BY <1>0 DEF IInv, Shapes
<1> HIDE DEF S
<1>3. /\ EntriesGood' /\ FiresUnique' /\ RunsHeld' /\ ThreadsTrue' /\ NamesUnique'
      /\ fires' = [i \in Ids |-> fires'[i]] /\ rows' = [i \in Ids |-> rows'[i]]
      /\ \A i \in Ids : fires'[i].pc # "run" /\ fires[i].pc # "run"
  BY <1>0, <1>1, TakeKeeps
<1>4. GatherWaits' /\ HistoryHonest'
  BY <1>0, <1>2, <1>3, Types DEF GatherWaits, HistoryHonest
<1>5. runs' \in [Ids -> Nat]
  BY <1>0
<1>6. Shapes'
  BY <1>0, <1>2, <1>3, <1>5, ShapesFrom DEF IInv, Shapes, Pcs
<1> QED
  BY <1>3, <1>4, <1>6 DEF IInv

LEMMA FetchKeeps ==
  ASSUME IInv, Fetch
  PROVE  IInv'
<1> DEFINE S == {i \in Ids : Due(i)}
<1>0. /\ loop.pc = "fetch"
      /\ fires' = [i \in Ids |-> IF i \in S THEN [pc |-> "fetched", copy |-> rows[i]]
                                 ELSE NoFire]
      /\ loop' = [loop EXCEPT !.pc = "gather"]
      /\ UNCHANGED <<rows, runs, running, threads, used>>
  BY DEF Fetch
<1>1. (\A i \in Ids : ~InFlight(i)) /\ S \in SUBSET Ids /\ \A i \in S : rows[i].enabled
  BY <1>0 DEF IInv, GatherWaits, Due
<1>2. /\ loop' = [pc |-> loop'.pc, until |-> loop'.until, woken |-> loop'.woken]
      /\ loop'.pc = "gather"
  BY <1>0 DEF IInv, Shapes
<1> HIDE DEF S
<1>3. /\ EntriesGood' /\ FiresUnique' /\ RunsHeld' /\ ThreadsTrue' /\ NamesUnique'
      /\ fires' = [i \in Ids |-> fires'[i]] /\ rows' = [i \in Ids |-> rows'[i]]
      /\ \A i \in Ids : fires'[i].pc # "run" /\ fires[i].pc # "run"
  BY <1>0, <1>1, TakeKeeps
<1>4. GatherWaits' /\ HistoryHonest'
  BY <1>0, <1>2, <1>3 DEF GatherWaits, IInv, HistoryHonest
<1>5. Shapes'
  BY <1>0, <1>2, <1>3, ShapesFrom DEF IInv, Shapes, Pcs
<1> QED
  BY <1>3, <1>4, <1>5 DEF IInv

\* The process is gone: nothing is in flight, and each run that was is lost or
\* counted.
LEMMA DownKeeps ==
  ASSUME IInv, rows' = [i \in Ids |-> rows'[i]], runs' \in [Ids -> Nat],
         \A i \in Ids : rows'[i].name = rows[i].name,
         loop' = [pc |-> "off", until |-> 0, woken |-> FALSE],
         fires' = [i \in Ids |-> NoFire],
         running' = [i \in Ids |-> 0], threads' = [n \in Names |-> 0],
         used' \in [ops : Nat, crashes : Nat, faults : Nat],
         \A i \in Ids : Good(rows'[i], NoFire, Lost')
  PROVE  IInv'
<1>1. \A i \in Ids : fires'[i] = NoFire /\ fires'[i].pc = "none"
  BY EmptyRow
<1>2. EntriesGood'
  BY <1>1 DEF EntriesGood
<1>3. /\ loop' = [pc |-> loop'.pc, until |-> loop'.until, woken |-> loop'.woken]
      /\ loop'.pc = "off"
  OBVIOUS
<1>4. running' \in [Ids -> Nat] /\ threads' \in [Names -> Nat]
  OBVIOUS
<1>5. fires' = [i \in Ids |-> fires'[i]]
  OBVIOUS
<1>6. Shapes'
  BY <1>2, <1>3, <1>4, <1>5, ShapesFrom DEF Pcs
<1>7. NamesUnique'
  BY NamesKept
<1>8. FiresUnique' /\ GatherWaits' /\ RunsHeld' /\ HistoryHonest'
  BY <1>1, <1>3 DEF FiresUnique, InFlight, GatherWaits, RunsHeld, HistoryHonest
<1>9. ThreadsTrue'
  BY <1>1 DEF ThreadsTrue, Runs
<1> QED
  BY <1>2, <1>6, <1>7, <1>8, <1>9 DEF IInv

\* The counter of deaths.
LEMMA OneMoreCrash ==
  ASSUME IInv, used' = [used EXCEPT !.crashes = @ + 1]
  PROVE  /\ used' \in [ops : Nat, crashes : Nat, faults : Nat]
         /\ Lost' = Lost + 1 /\ Lost + 1 \in Nat /\ Lost <= Lost + 1
<1> DEFINE c == used.crashes + 1
<1>1. c \in Nat /\ used.crashes \in Nat /\ used.faults \in Nat
  BY Types
<1>2. used' = [used EXCEPT !.crashes = c]
  BY Types
<1> HIDE DEF c
<1>3. /\ used' \in [ops : Nat, crashes : Nat, faults : Nat]
      /\ used'.crashes = c /\ used'.faults = used.faults
  BY <1>1, <1>2, Types
<1> QED
  BY <1>1, <1>3 DEF Lost, c

LEMMA CrashKeeps ==
  ASSUME IInv, Crash
  PROVE  IInv'
<1>1. /\ used' = [used EXCEPT !.crashes = @ + 1]
      /\ loop' = [pc |-> "off", until |-> 0, woken |-> FALSE]
      /\ fires' = [i \in Ids |-> NoFire] /\ running' = [i \in Ids |-> 0]
      /\ threads' = [n \in Names |-> 0] /\ UNCHANGED <<rows, runs>>
  BY DEF Crash
<1>2. \A i \in Ids : Good(rows'[i], NoFire, Lost')
  BY <1>1, OneMoreCrash, Types, LostGood
<1>3. rows' = [i \in Ids |-> rows'[i]] /\ runs' \in [Ids -> Nat]
  BY <1>1, Types
<1> QED
  BY <1>1, <1>2, <1>3, OneMoreCrash, DownKeeps

LEMMA StopKeeps ==
  ASSUME IInv, Stop
  PROVE  IInv'
<1> DEFINE cut == {i \in Ids : fires[i].pc = "run"}
<1>1. /\ used' = [used EXCEPT !.crashes = @ + 1]
      /\ loop' = [pc |-> "off", until |-> 0, woken |-> FALSE]
      /\ fires' = [i \in Ids |-> NoFire] /\ running' = [i \in Ids |-> 0]
      /\ threads' = [n \in Names |-> 0]
  BY DEF Stop
<1>2. /\ rows' = [i \in Ids |-> IF i \notin cut \/ ~Here(i) THEN rows[i]
                                ELSE Outcome(rows[i], fires[i].copy, "success")]
      /\ runs' = [i \in Ids |-> IF i \in cut THEN runs[i] - 1 ELSE runs[i]]
  BY DEF Stop
<1>3. runs' \in [Ids -> Nat]
  <2>1. \A i \in Ids : (IF i \in cut THEN runs[i] - 1 ELSE runs[i]) \in Nat
    BY Types DEF IInv, RunsHeld
  <2> QED
    BY <1>2, <2>1
<1>4. \A i \in Ids : Good(rows'[i], NoFire, Lost') /\ rows'[i].name = rows[i].name
  <2> SUFFICES ASSUME NEW i \in Ids
               PROVE  Good(rows'[i], NoFire, Lost + 1) /\ rows'[i].name = rows[i].name
    BY <1>1, OneMoreCrash
  <2>1. CASE i \notin cut
    <3>1. rows'[i] = rows[i]
      BY <1>2, <2>1
    <3> QED
      BY <3>1, Types, LostGood
  <2>2. CASE i \in cut
    <3>1. rows'[i] = IF rows[i].name \in Names
                     THEN Outcome(rows[i], fires[i].copy, "success") ELSE rows[i]
      BY <1>2, <2>2 DEF Here
    <3>2. fires[i].copy \in Row /\ rows[i] \in Row /\ fires[i].pc = "run"
      BY <2>2, Types DEF FireRow
    <3>3. Outcome(rows[i], fires[i].copy, "success").name = rows[i].name
      BY <3>2, OutcomeRow
    <3>4. Good(rows'[i], NoFire, Lost)
      BY <3>1, <3>2, Types, OutcomeGood
    <3> QED
      BY <1>1, <3>1, <3>3, <3>4, OneMoreCrash, Types, GoodMore
  <2> QED
    BY <2>1, <2>2
<1>5. rows' = [i \in Ids |-> rows'[i]]
  BY <1>2
<1> QED
  BY <1>1, <1>3, <1>4, <1>5, OneMoreCrash, DownKeeps

-----------------------------------------------------------------------------
(* Clients and time.                                                       *)

\* A client, or time, writes rows that are tied to the fires on their ids.
LEMMA WriteKeeps ==
  ASSUME IInv, rows' = [i \in Ids |-> rows'[i]],
         \A i \in Ids : Good(rows'[i], fires[i], Lost), NamesUnique',
         UNCHANGED <<runs, fires, running, threads>>,
         loop' = [pc |-> loop'.pc, until |-> loop'.until, woken |-> loop'.woken],
         loop'.pc = loop.pc,
         used' \in [ops : Nat, crashes : Nat, faults : Nat],
         used'.crashes = used.crashes, used'.faults = used.faults
  PROVE  IInv'
<1>1. EntriesGood'
  BY DEF EntriesGood, Lost
<1>2. FiresUnique' /\ GatherWaits' /\ RunsHeld' /\ ThreadsTrue' /\ HistoryHonest'
  BY FlightsKept
<1>3. fires' = [i \in Ids |-> fires'[i]]
  BY Types
<1>4. Shapes'
  BY <1>1, <1>3, ShapesFrom DEF IInv, Shapes
<1> QED
  BY <1>1, <1>2, <1>4 DEF IInv

LEMMA CallFrame ==
  ASSUME IInv, NEW op, Call(op)
  PROVE  /\ UNCHANGED <<runs, fires, running, threads>>
         /\ loop' = [pc |-> loop'.pc, until |-> loop'.until, woken |-> loop'.woken]
         /\ loop'.pc = loop.pc
         /\ used' \in [ops : Nat, crashes : Nat, faults : Nat]
         /\ used'.crashes = used.crashes /\ used'.faults = used.faults
<1>1. PICK kick \in BOOLEAN :
        loop' = [loop EXCEPT !.woken = loop.pc = "sleep" /\ (@ \/ kick)]
  BY DEF Call
<1>2. /\ loop' = [pc |-> loop'.pc, until |-> loop'.until, woken |-> loop'.woken]
      /\ loop'.pc = loop.pc
  BY <1>1 DEF IInv, Shapes
<1> DEFINE c == used.ops + 1
<1>3. c \in Nat /\ used' = [used EXCEPT !.ops = c]
  BY Types DEF Call
<1> HIDE DEF c
<1>4. /\ used' \in [ops : Nat, crashes : Nat, faults : Nat]
      /\ used'.crashes = used.crashes /\ used'.faults = used.faults
  BY <1>3, Types
<1> QED
  BY <1>2, <1>4 DEF Call

\* A client replaces the row of an entry.
LEMMA ReplaceKeeps ==
  ASSUME IInv, NEW op, Call(op), NEW i \in Ids, NEW row,
         rows' = [rows EXCEPT ![i] = row], Good(row, fires[i], Lost),
         row.name \in Names => \A k \in Ids : k # i => rows[k].name # row.name
  PROVE  IInv'
<1>1. /\ rows' = [k \in Ids |-> rows'[k]] /\ rows'[i] = row
      /\ \A k \in Ids : k # i => rows'[k] = rows[k]
  BY Types
<1>2. \A k \in Ids : Good(rows'[k], fires[k], Lost)
  BY <1>1, Types
<1>3. NamesUnique'
  BY <1>1 DEF IInv, NamesUnique, Here
<1> QED
  BY <1>1, <1>2, <1>3, CallFrame, WriteKeeps

LEMMA AddKeeps ==
  ASSUME IInv, NEW n \in Names, Add(n)
  PROVE  IInv'
<1>1. ASSUME NEW i \in Ids, NEW op, Call(op),
             rows' = [rows EXCEPT ![i] = [NewRow(n) EXCEPT !.inherited = InFlight(i)]],
             \A k \in Ids : k # i => rows[k].name # n
      PROVE  IInv'
  <2> DEFINE row == [NewRow(n) EXCEPT !.inherited = InFlight(i)]
  <2>1. Good(row, fires[i], Lost)
    BY Types, NewGood DEF InFlight
  <2>2. row.name = n
    BY DEF NewRow, Empty
  <2>3. rows' = [rows EXCEPT ![i] = row]
    BY <1>1
  <2> HIDE DEF row
  <2> QED
    BY <1>1, <2>1, <2>2, <2>3, ReplaceKeeps
<1>2. CASE /\ IdOf(n) = {} /\ NextId \in Ids /\ Call("add")
           /\ rows' = [rows EXCEPT ![NextId] =
                          [NewRow(n) EXCEPT !.inherited = InFlight(NextId)]]
  <2>1. \A k \in Ids : rows[k].name # n
    BY <1>2 DEF IdOf
  <2> QED
    BY <1>1, <1>2, <2>1
<1>3. CASE /\ Call("again")
           /\ \E i \in IdOf(n) : rows' = [rows EXCEPT ![i] =
                                   [NewRow(n) EXCEPT !.inherited = InFlight(i)]]
  <2>1. PICK i \in IdOf(n) : rows' = [rows EXCEPT ![i] =
                                   [NewRow(n) EXCEPT !.inherited = InFlight(i)]]
    BY <1>3
  <2>2. i \in Ids /\ rows[i].name = n
    BY <2>1 DEF IdOf
  <2>3. \A k \in Ids : k # i => rows[k].name # n
    BY <2>2 DEF IInv, NamesUnique, Here
  <2> QED
    BY <1>1, <1>3, <2>1, <2>2, <2>3
<1> QED
  BY <1>2, <1>3, Zenon DEF Add

LEMMA ChangesKeep ==
  ASSUME IInv, NEW i \in Ids, Delete(i) \/ Disable(i) \/ Enable(i) \/ RunNow(i)
  PROVE  IInv'
<1>0. /\ Good(rows[i], fires[i], Lost) /\ Lost \in Nat /\ rows[i] \in Row
      /\ fires[i] \in FireRow /\ rows[i].name \in Names
  BY Types DEF Delete, Disable, Enable, RunNow, Here
<1>1. \A k \in Ids : k # i => rows[k].name # rows[i].name
  BY <1>0 DEF IInv, NamesUnique, Here
<1>2. CASE Delete(i)
  <2>1. Good(Empty, fires[i], Lost)
    <3>1. Named(Empty, fires[i])
      BY <1>0, EmptyRow DEF Good, Named
    <3> QED
      BY <1>0, <3>1, EmptyRow, AbsentGood DEF Good
  <2> QED
    BY <1>2, <2>1, EmptyRow, ReplaceKeeps DEF Delete
<1>3. CASE Disable(i)
  <2> DEFINE row == [Disabled(rows[i]) EXCEPT !.stopped = TRUE]
  <2>1. Good(row, fires[i], Lost) /\ row.name = rows[i].name
    <3>1. row.name = rows[i].name
      BY <1>0 DEF Disabled, Row
    <3> QED
      BY <1>0, <3>1, OffGood
  <2>2. rows' = [rows EXCEPT ![i] = row]
    BY <1>3, Types DEF Disable
  <2> HIDE DEF row
  <2> QED
    BY <1>1, <1>3, <2>1, <2>2, ReplaceKeeps DEF Disable
<1>4. Good(Enabled(rows[i]), fires[i], Lost) /\ Enabled(rows[i]).name = rows[i].name
  <2>1. Enabled(rows[i]).name = rows[i].name
    BY <1>0 DEF Enabled, Row
  <2> QED
    BY <1>0, <2>1, EnabledGood
<1>5. CASE Enable(i)
  <2>1. rows' = [rows EXCEPT ![i] = Enabled(rows[i])]
    BY <1>5, Types DEF Enable
  <2> QED
    BY <1>1, <1>4, <1>5, <2>1, ReplaceKeeps DEF Enable
<1>6. CASE RunNow(i)
  <2> DEFINE old == IF rows[i].enabled THEN rows[i] ELSE Enabled(rows[i])
             row == [old EXCEPT !.next = 0]
  <2>1. Good(old, fires[i], Lost) /\ old.name = rows[i].name
    BY <1>0, <1>4
  <2>2. rows' = [rows EXCEPT ![i] = row]
    BY <1>6 DEF RunNow
  <2> HIDE DEF old
  <2>3. Good(row, fires[i], Lost)
    BY <1>0, <2>1, ShiftGood
  <2>4. row.name = rows[i].name
    BY <2>1 DEF Good, Row
  <2> HIDE DEF row
  <2> QED
    BY <1>1, <1>6, <2>1, <2>2, <2>3, <2>4, ReplaceKeeps DEF RunNow
<1> QED
  BY <1>2, <1>3, <1>5, <1>6

LEMMA TickKeeps ==
  ASSUME IInv, Tick
  PROVE  IInv'
<1>1. /\ rows' = [i \in Ids |-> IF Here(i) /\ rows[i].next >= -Grace
                   THEN [rows[i] EXCEPT !.next = @ - 1] ELSE rows[i]]
      /\ UNCHANGED <<runs, fires, running, threads, used>>
      /\ loop' = (IF loop.pc = "sleep" /\ loop.until > 0
                  THEN [loop EXCEPT !.until = @ - 1] ELSE loop)
  BY DEF Tick
<1>2. /\ loop' = [pc |-> loop'.pc, until |-> loop'.until, woken |-> loop'.woken]
      /\ loop'.pc = loop.pc
  BY <1>1 DEF IInv, Shapes
<1>3. \A i \in Ids : Good(rows'[i], fires[i], Lost) /\ rows'[i].name = rows[i].name
  <2> SUFFICES ASSUME NEW i \in Ids
               PROVE  Good(rows'[i], fires[i], Lost) /\ rows'[i].name = rows[i].name
    OBVIOUS
  <2>0. Good(rows[i], fires[i], Lost) /\ rows[i] \in Row /\ Lost \in Nat
    BY Types
  <2> DEFINE x == rows[i].next - 1
  <2>1. x \in Int
    BY <2>0, RowTypes
  <2>2. rows'[i] = [rows[i] EXCEPT !.next = x] \/ rows'[i] = rows[i]
    BY <1>1
  <2> HIDE DEF x
  <2>3. [rows[i] EXCEPT !.next = x].name = rows[i].name
    BY <2>0 DEF Row
  <2>4. Good([rows[i] EXCEPT !.next = x], fires[i], Lost)
    BY <2>0, <2>1, ShiftGood
  <2> QED
    BY <2>0, <2>2, <2>3, <2>4
<1>4. rows' = [i \in Ids |-> rows'[i]]
  BY <1>1
<1> QED
  BY <1>1, <1>2, <1>3, <1>4, NamesKept, WriteKeeps, Types

-----------------------------------------------------------------------------
(* Theorems.                                                               *)

\* The table that an earlier process left has every name once.
LEMMA RegisteredRows ==
  /\ Registered = [i \in Ids |-> Registered[i]]
  /\ \A i \in Ids : Registered[i] = Empty \/ \E n \in Names : Registered[i] = NewRow(n)
  /\ \A i, j \in Ids : Registered[i].name \in Names /\ Registered[i].name = Registered[j].name
                          => i = j
<1> DEFINE first == 1..Cardinality(Names)
           Order(f) == \A i, j \in first : f[i] = f[j] => i = j
           order == CHOOSE f \in [first -> Names] : Order(f)
<1>1. order \in [first -> Names] /\ Order(order)
  <2>1. ExistsBijection(first, Names)
    BY FS_CardinalityType, NamesAssumption
  <2>2. \E f \in [first -> Names] : Order(f)
    BY <2>1 DEF ExistsBijection, Bijection, Injection, Surjection, IsInjective
  <2> QED
    BY <2>2
<1>2. Registered = [i \in Ids |-> IF i \in first THEN NewRow(order[i]) ELSE Empty]
  BY DEF Registered
<1> HIDE DEF order, first
<1>3. \A i \in Ids : /\ i \in first => Registered[i] = NewRow(order[i])
                     /\ i \notin first => Registered[i] = Empty
  BY <1>2
<1>4. \A n : NewRow(n).name = n
  BY DEF NewRow, Empty
<1>5. Empty.name \notin Names
  BY EmptyRow
<1>6. \A i \in Ids : i \in first => Registered[i].name = order[i] /\ order[i] \in Names
  BY <1>1, <1>3, <1>4
<1>7. \A i \in Ids : Registered[i].name \in Names => i \in first
  BY <1>3, <1>5
<1>8. \A i, j \in Ids : Registered[i].name \in Names /\ Registered[i].name = Registered[j].name
                          => i = j
  <2> SUFFICES ASSUME NEW i \in Ids, NEW j \in Ids, Registered[i].name \in Names,
                      Registered[i].name = Registered[j].name
               PROVE  i = j
    OBVIOUS
  <2>1. i \in first /\ j \in first /\ order[i] = order[j]
    BY <1>6, <1>7
  <2> QED
    BY <1>1, <2>1
<1>9. Registered = [i \in Ids |-> Registered[i]]
  BY <1>2
<1> QED
  BY <1>3, <1>6, <1>8, <1>9

LEMMA InvInit == Init => IInv
<1> SUFFICES ASSUME Init PROVE IInv
  OBVIOUS
<1>1. /\ rows \in {[i \in Ids |-> Empty], Registered}
      /\ runs = [i \in Ids |-> 0]
      /\ loop = [pc |-> "off", until |-> 0, woken |-> FALSE]
      /\ fires = [i \in Ids |-> NoFire]
      /\ running = [i \in Ids |-> 0]
      /\ threads = [n \in Names |-> 0]
      /\ used = [ops |-> 0, crashes |-> 0, faults |-> 0]
  BY DEF Init
<1>2. /\ rows = [i \in Ids |-> rows[i]]
      /\ \A i \in Ids : rows[i] = Empty \/ \E n \in Names : rows[i] = NewRow(n)
      /\ \A i, j \in Ids : rows[i].name \in Names /\ rows[i].name = rows[j].name => i = j
  BY <1>1, RegisteredRows, EmptyRow
<1>3. \A i \in Ids : fires[i] = NoFire /\ fires[i].pc = "none"
  BY <1>1, EmptyRow
<1>4. Good(Empty, NoFire, 0)
  BY EmptyRow, AbsentGood DEF CopyCounted, Named
<1>5. ASSUME NEW n \in Names PROVE Good(NewRow(n), NoFire, 0)
  <2>1. [NewRow(n) EXCEPT !.inherited = NoFire.pc # "none"] = NewRow(n)
    <3>1. (NoFire.pc # "none") = FALSE
      BY EmptyRow
    <3> DEFINE r == NewRow(n)
               s == [r EXCEPT !.inherited = FALSE]
    <3>2. r \in Row /\ r.inherited = FALSE
      <4>1. Times[n] \in Nat
        BY <1>5, TimesTypes
      <4>2. Period \in Int
        BY TimingAssumption
      <4> QED
        BY <1>5, <4>1, <4>2, EmptyRow DEF NewRow, Empty, Row
    <3> HIDE DEF r
    <3>3. s = r
      BY <3>2 DEF Row
    <3> QED
      BY <3>1, <3>3 DEF r
  <2> QED
    BY <1>4, <2>1, NewGood
<1>6. Lost = 0
  BY <1>1 DEF Lost
<1>7. EntriesGood
  BY <1>2, <1>3, <1>4, <1>5, <1>6 DEF EntriesGood
<1>8. \A i \in Ids : rows[i] \in Row /\ fires[i] \in FireRow
  BY <1>7 DEF EntriesGood, Good
<1>9. Shapes
  <2>1. rows \in [Ids -> Row]
    BY <1>2, <1>8
  <2>2. fires \in [Ids -> FireRow]
    BY <1>1, <1>8
  <2> QED
    BY <1>1, <2>1, <2>2 DEF Shapes, Pcs
<1>10. NamesUnique
  BY <1>2 DEF NamesUnique, Here
<1>11. FiresUnique /\ GatherWaits /\ RunsHeld
  BY <1>3 DEF FiresUnique, GatherWaits, RunsHeld, InFlight
<1>12. ThreadsTrue
  BY <1>1, <1>3 DEF ThreadsTrue, Runs
<1>13. HistoryHonest
  BY <1>1 DEF HistoryHonest
<1> QED
  BY <1>7, <1>9, <1>10, <1>11, <1>12, <1>13 DEF IInv

LEMMA InvNext == IInv /\ [Next]_vars => IInv'
<1> SUFFICES ASSUME IInv, [Next]_vars PROVE IInv'
  OBVIOUS
<1>1. CASE UNCHANGED vars
  BY <1>1 DEF vars, IInv, Shapes, EntriesGood, Lost, NamesUnique, Here, FiresUnique,
     InFlight, GatherWaits, RunsHeld, ThreadsTrue, Runs, HistoryHonest
<1>2. CASE Next
  <2>1. CASE Loop
    BY <2>1, StartKeeps, BootKeeps, FetchKeeps, SleepKeeps DEF Loop
  <2>2. CASE Client
    BY <2>2, AddKeeps, ChangesKeep DEF Client
  <2>3. CASE Tick \/ Crash \/ Stop
    BY <2>3, TickKeeps, CrashKeeps, StopKeeps
  <2>4. CASE \E i \in Ids : Step(i) \/ WriteFails(i)
    BY <2>4, RecoverKeeps, FilterKeeps, FireKeeps, EndStepsKeep, WriteFailsKeeps DEF Step
  <2>5. CASE \E n \in Names : ThreadEnds(n)
    BY <2>5, ThreadEndsKeeps
  <2> QED
    BY <1>2, <2>1, <2>2, <2>3, <2>4, <2>5 DEF Next
<1> QED
  BY <1>1, <1>2

LEMMA Inductive == Spec => []IInv
<1> QED
  BY InvInit, InvNext, PTL DEF Spec

\* An entry runs as often as was asked: one that is switched off has had its
\* runs, and none runs more often than its registration allows; a
\* registration that meets a fire of an earlier one on its id may lose its
\* runs to it or gain one.
THEOREM EntriesRunAsAsked == Spec => []RunsAsAsked
<1>1. IInv => RunsAsAsked
  <2> SUFFICES ASSUME IInv PROVE RunsAsAsked
    OBVIOUS
  <2>1. RunsServed
    BY Types DEF RunsServed, Here, Good, Ended
  <2>2. RunsBounded
    <3> SUFFICES ASSUME NEW i \in Ids, Here(i), rows[i].allowed > 0
                 PROVE  rows[i].ran <= rows[i].allowed + used.crashes + used.faults
                                           + (IF rows[i].inherited THEN 1 ELSE 0)
      BY DEF RunsBounded
    <3> DEFINE row == rows[i]
               fire == fires[i]
               t == Times[row.name]
    <3>1. /\ row.ran \in Nat /\ row.ran <= MaxRuns /\ MaxRuns \in Nat
          /\ row.allowed \in Nat /\ t \in Nat /\ t > 0 /\ t <= row.allowed
      BY Types, RowTypes DEF Here, Good, Declared
    <3>2. used.crashes \in Nat /\ used.faults \in Nat /\ Lost = used.crashes + used.faults
      BY Types DEF Lost
    <3>3. CASE t < MaxRuns
      <4>1. row.ran + Ahead(row, fire)
               <= row.allowed + Lost + Underway(row, fire) + Spare(row, fire)
        BY <3>3, Types DEF Good, Budget, Here
      <4>2. Ahead(row, fire) \in Nat /\ Underway(row, fire) \in 0..1
        BY Types, RowTypes DEF Ahead, Underway
      <4>3. Underway(row, fire) = 1 => Ahead(row, fire) >= 1
        BY Types, RowTypes DEF Ahead, Underway
      <4>4. Spare(row, fire) \in 0..1 /\ (Spare(row, fire) = 1 => row.inherited)
        BY DEF Spare
      <4> QED
        BY <3>1, <3>2, <4>1, <4>2, <4>3, <4>4
    <3>4. CASE t >= MaxRuns
      BY <3>1, <3>2, <3>4
    <3> QED
      BY <3>1, <3>3, <3>4
  <2> QED
    BY <2>1, <2>2 DEF RunsAsAsked
<1> QED
  BY <1>1, Inductive, PTL

\* The history shows what is in flight, and no entry overlaps itself beyond
\* max_concurrent.
THEOREM RunsAreAccounted == Spec => []RunsAccounted
<1>1. IInv => RunsAccounted
  <2> SUFFICES ASSUME IInv PROVE RunsAccounted
    OBVIOUS
  <2>1. TypeOK
    BY DEF IInv, Shapes, TypeOK, FireRow, Pcs
  <2>2. HistoryHonest
    BY DEF IInv
  <2>3. NoOverlap
    <3> SUFFICES ASSUME NEW n \in Names \ (Sync \cap TimedOut)
                 PROVE  threads[n] <= MaxConcurrent
      BY DEF NoOverlap
    <3>1. threads[n] \in Nat /\ threads[n] <= 1
      BY Types DEF IInv, ThreadsTrue
    <3>2. MaxConcurrent \in Nat /\ MaxConcurrent >= 1
      BY TimingAssumption
    <3> QED
      BY <3>1, <3>2
  <2> QED
    BY <2>1, <2>2, <2>3 DEF RunsAccounted
<1> QED
  BY <1>1, Inductive, PTL
=============================================================================
