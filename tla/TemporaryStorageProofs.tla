------------------------- MODULE TemporaryStorageProofs -------------------------
(***************************************************************************)
(* Theorems about TemporaryStorage, for every set of workloads, workspaces *)
(* and processes and every way of sharing workspaces.  The argument: a     *)
(* workspace is locked or retired only while no process has it open        *)
(* (Exclusive, RetiredUnused), so that one that is retired and empty stays *)
(* so; the observation goes by a snapshot whose version stands for a state *)
(* (Snapshot); and a clean report of a workload that ended was made over   *)
(* retired and empty workspaces (ReportTrue).                              *)
(***************************************************************************)
EXTENDS TemporaryStorage, TLAPS

CleanerState ==
    [pc : {"idle", "busy", "lock", "measure", "detach", "handoff", "purge",
           "remeasure", "report"},
     job : Jobs \cup {NoJob}, version : 0..MaxVersion,
     state : DOMAIN JobMoves, locked : SUBSET Paths, found : BOOLEAN,
     status : {"pending", "retained", "shared", "error", "clean"}]

\* An attempt has a workspace to open; an observation has a workload, and
\* locks its workspaces before it looks at them.
Shapes ==
    /\ \A w \in Writers : writer[w].job # NoJob => writer[w].path \in Paths
    /\ cleaner \in CleanerState
    /\ cleaner.pc # "idle" => cleaner.job \in Jobs
    /\ cleaner.pc \in {"idle", "busy", "report"} => cleaner.locked = {}
    /\ cleaner.pc = "lock" => cleaner.locked \subseteq PathsOf[cleaner.job]
    /\ cleaner.pc \in {"measure", "detach", "handoff", "purge", "remeasure"} =>
          cleaner.locked = PathsOf[cleaner.job]

\* The exclusive lock keeps every process out.
Exclusive == \A p \in cleaner.locked : Users(p) = {}

\* A retired workspace is not open and cannot be opened.
RetiredUnused == \A p \in Paths : disk[p].retired => Users(p) = {}

\* The observation's version is not from the future, and stands for a state.
Snapshot ==
    cleaner.pc # "idle" =>
        /\ cleaner.version <= job[cleaner.job].version
        /\ cleaner.version = job[cleaner.job].version =>
              cleaner.state = job[cleaner.job].state

\* A workspace that is empty for good.
Gone(p) == disk[p].retired /\ ~disk[p].data /\ ~disk[p].removing

\* Workspaces are retired before they are purged, and only those of a
\* workload that ended; what is about to be reported clean is gone.
Fenced ==
    /\ cleaner.pc \in {"detach", "handoff", "purge", "remeasure"} =>
          cleaner.state = "terminal"
    /\ cleaner.pc \in {"handoff", "purge", "remeasure"} =>
          \A p \in PathsOf[cleaner.job] : disk[p].retired
    /\ cleaner.pc = "report" /\ cleaner.status = "clean"
         /\ cleaner.state = "terminal" =>
          \A p \in PathsOf[cleaner.job] : Gone(p)

\* So is what was reported clean for a workload that ended.
ReportTrue ==
    \A j \in Jobs :
        /\ report[j].version <= job[j].version
        /\ CanDismiss(j) => \A p \in PathsOf[j] : Gone(p)

IInv ==
    /\ TypeOK /\ Shapes /\ Exclusive /\ RetiredUnused /\ Snapshot /\ Fenced
    /\ ReportTrue

DiskRow == [data : BOOLEAN, removing : BOOLEAN, retired : BOOLEAN]

JobRow == [state : DOMAIN JobMoves, version : 0..MaxVersion]

WriterRow ==
    [job : Jobs \cup {NoJob}, path : Paths \cup {NoPath}, live : BOOLEAN,
     open : Paths \cup {NoPath}]

ReportRow ==
    [version : 0..MaxVersion,
     status : {"pending", "retained", "shared", "error", "clean"}]

LEMMA Types ==
  ASSUME IInv
  PROVE  /\ job \in [Jobs -> JobRow] /\ writer \in [Writers -> WriterRow]
         /\ disk \in [Paths -> DiskRow] /\ report \in [Jobs -> ReportRow]
         /\ cleaner \in CleanerState
         /\ \A j \in Jobs : PathsOf[j] \subseteq Paths
BY JobsAssumption DEF IInv, TypeOK, Shapes, JobRow, WriterRow, DiskRow, ReportRow

\* Workloads move between the states of the model, and ended ones do not.
LEMMA Moves ==
  /\ DOMAIN JobMoves = {"none", "running", "suspended", "terminal"}
  /\ \A s \in DOMAIN JobMoves : JobMoves[s] \subseteq DOMAIN JobMoves
  /\ JobMoves["terminal"] = {}
<1>1. DOMAIN JobMoves = {"none", "running", "suspended", "terminal"}
  BY DEF JobMoves
<1>2. /\ JobMoves["none"] = {"running"} /\ JobMoves["running"] = {"suspended", "terminal"}
      /\ JobMoves["suspended"] = {"running", "terminal"} /\ JobMoves["terminal"] = {}
  BY DEF JobMoves
<1> QED
  BY <1>1, <1>2

LEMMA IdleTypes == IdleCleaner \in CleanerState /\ IdleWriter \in WriterRow
<1>1. "none" \in DOMAIN JobMoves /\ 0 \in 0..MaxVersion
  BY JobsAssumption, Moves
<1> QED
  BY <1>1 DEF IdleCleaner, IdleWriter, CleanerState, WriterRow

-----------------------------------------------------------------------------
(* Processes.                                                              *)

\* A process opens a workspace only if it is neither locked nor retired.
LEMMA WriterKeeps ==
  ASSUME IInv, writer' \in [Writers -> WriterRow],
         UNCHANGED <<job, disk, cleaner, report>>,
         \A w \in Writers : writer'[w].job # NoJob => writer'[w].path \in Paths,
         \A w \in Writers : \A p \in Paths :
            writer'[w].open = p =>
                writer[w].open = p \/ (~Locked(p) /\ ~disk[p].retired)
  PROVE  IInv'
<1>1. TypeOK'
  BY DEF IInv, TypeOK, WriterRow
<1>2. Shapes'
  BY DEF IInv, Shapes
<1>3. \A p \in Paths : Locked(p) \/ disk[p].retired => Users(p)' \subseteq Users(p)
  BY DEF Users, Locked
<1>4. Exclusive'
  <2>1. cleaner.locked \subseteq Paths
    BY Types DEF CleanerState
  <2> QED
    BY <1>3, <2>1 DEF IInv, Exclusive, Locked
<1>5. RetiredUnused'
  BY <1>3 DEF IInv, RetiredUnused
<1>6. Snapshot' /\ Fenced' /\ ReportTrue'
  BY DEF IInv, Snapshot, Fenced, ReportTrue, Gone, CanDismiss, Current
<1> QED
  BY <1>1, <1>2, <1>4, <1>5, <1>6 DEF IInv

LEMMA WriterStepKeeps ==
  ASSUME IInv, NEW w \in Writers, Claim(w) \/ Open(w) \/ Close(w) \/ Expire(w)
  PROVE  IInv'
<1>0. writer \in [Writers -> WriterRow] /\ UNCHANGED <<job, disk, cleaner, report>>
  BY Types DEF Claim, Open, Close, Expire
<1>1. /\ IdleWriter \in WriterRow /\ IdleWriter.job = NoJob /\ IdleWriter.open = NoPath
      /\ NoPath \notin Paths
  BY IdleTypes, JobsAssumption DEF IdleWriter
<1>2. \A v \in Writers : writer[v].job # NoJob => writer[v].path \in Paths
  BY DEF IInv, Shapes
<1>3. ASSUME NEW new \in WriterRow, writer' = [writer EXCEPT ![w] = new],
             new.job # NoJob => new.path \in Paths,
             new.open \in Paths => \/ writer[w].open = new.open
                                   \/ ~Locked(new.open) /\ ~disk[new.open].retired
      PROVE  IInv'
  <2>1. writer' \in [Writers -> WriterRow]
    BY <1>0, <1>3
  <2>2. \A v \in Writers : writer'[v] = IF v = w THEN new ELSE writer[v]
    BY <1>0, <1>3
  <2> QED
    BY <1>0, <1>2, <1>3, <2>1, <2>2, WriterKeeps
<1>4. CASE Claim(w)
  <2>0. PICK j \in Jobs : \E p \in PathsOf[j] :
          writer' = [writer EXCEPT ![w] = [IdleWriter EXCEPT !.job = j, !.path = p,
                                                             !.live = TRUE]]
    BY <1>4 DEF Claim
  <2>1. PICK p \in PathsOf[j] :
          writer' = [writer EXCEPT ![w] = [IdleWriter EXCEPT !.job = j, !.path = p,
                                                             !.live = TRUE]]
    BY <2>0
  <2> DEFINE new == [IdleWriter EXCEPT !.job = j, !.path = p, !.live = TRUE]
  <2>2. p \in Paths
    BY Types
  <2>3. new \in WriterRow /\ new.path = p /\ new.open = NoPath
    BY <1>1, <2>2 DEF WriterRow, IdleWriter
  <2> HIDE DEF new
  <2> QED
    BY <1>1, <1>3, <2>1, <2>2, <2>3 DEF new
<1>5. CASE Open(w)
  <2>1. writer[w].path \in Paths /\ writer[w].path # NoPath
    BY <1>1, <1>2, <1>5 DEF Open
  <2>2. CASE MayOpen(writer[w].path)
    <3> DEFINE path == writer[w].path
               new == [writer[w] EXCEPT !.open = path]
    <3>1. writer' = [writer EXCEPT ![w] = new]
      BY <1>5, <2>2 DEF Open
    <3>2. writer[w] \in WriterRow /\ path \in Paths
      BY <1>0, <2>1
    <3>3. new \in WriterRow /\ new.open = path /\ new.path = path /\ new.job = writer[w].job
      BY <3>2 DEF WriterRow
    <3>4. ~Locked(path) /\ ~disk[path].retired
      BY <2>2 DEF MayOpen
    <3> HIDE DEF new, path
    <3> QED
      BY <1>3, <3>1, <3>2, <3>3, <3>4
  <2>3. CASE ~MayOpen(writer[w].path)
    BY <1>1, <1>3, <1>5, <2>3 DEF Open
  <2> QED
    BY <2>2, <2>3
<1>6. CASE Close(w)
  BY <1>1, <1>3, <1>6 DEF Close
<1>7. CASE Expire(w)
  <2> DEFINE new == [writer[w] EXCEPT !.live = FALSE]
  <2>1. writer' = [writer EXCEPT ![w] = new]
    BY <1>7 DEF Expire
  <2>2. writer[w] \in WriterRow
    BY <1>0
  <2>3. /\ new \in WriterRow /\ new.open = writer[w].open /\ new.job = writer[w].job
        /\ new.path = writer[w].path
    BY <2>2 DEF WriterRow
  <2> HIDE DEF new
  <2> QED
    BY <1>2, <1>3, <2>1, <2>3
<1> QED
  BY <1>4, <1>5, <1>6, <1>7

\* A process writes where it is: not in a retired workspace.
LEMMA WriteKeeps ==
  ASSUME IInv, NEW w \in Writers, Write(w)
  PROVE  IInv'
<1> DEFINE p == writer[w].open
<1>1. p \in Paths /\ w \in Users(p)
  BY Types DEF Write, WriterRow, Users
<1>2. ~disk[p].retired
  BY <1>1 DEF IInv, RetiredUnused
<1>3. UNCHANGED <<job, writer, cleaner, report>>
  BY DEF Write
<1>4. /\ disk' \in [Paths -> DiskRow]
      /\ \A q \in Paths : q # p => disk'[q] = disk[q]
      /\ disk'[p].retired = disk[p].retired
  BY <1>1, Types DEF Write, DiskRow
<1>5. \A q \in Paths : Gone(q) => Gone(q)'
  BY <1>2, <1>4 DEF Gone
<1>6. TypeOK' /\ Shapes' /\ Exclusive' /\ Snapshot'
  BY <1>3, <1>4 DEF IInv, TypeOK, DiskRow, Shapes, Exclusive, Snapshot, Users
<1>7. RetiredUnused'
  BY <1>1, <1>3, <1>4 DEF IInv, RetiredUnused, Users
<1>8. Fenced'
  <2>1. \A q \in Paths : disk[q].retired => disk'[q].retired
    BY <1>4
  <2>2. cleaner.pc # "idle" => PathsOf[cleaner.job] \subseteq Paths
    BY Types DEF IInv, Shapes
  <2> QED
    BY <1>3, <1>5, <2>1, <2>2 DEF IInv, Fenced
<1>9. ReportTrue'
  BY <1>3, <1>5, Types DEF IInv, ReportTrue, CanDismiss, Current
<1> QED
  BY <1>6, <1>7, <1>8, <1>9 DEF IInv

\* A workload moves on under a new version, which no snapshot and no report
\* has; one that ended stays.
LEMMA MoveKeeps ==
  ASSUME IInv, NEW j \in Jobs, Move(j)
  PROVE  IInv'
<1>1. PICK state \in JobMoves[job[j].state] :
        /\ job[j].version < MaxVersion
        /\ job' = [job EXCEPT ![j] = [state |-> state, version |-> job[j].version + 1]]
  BY DEF Move
<1>2. UNCHANGED <<writer, disk, cleaner, report>>
  BY DEF Move
<1>3. job \in [Jobs -> JobRow] /\ \A k \in Jobs : job[k].version \in Nat
  BY Types DEF JobRow
<1>4. state \in DOMAIN JobMoves /\ job[j].version + 1 \in 0..MaxVersion
  BY <1>1, <1>3, Types, Moves, JobsAssumption DEF JobRow
<1>5. /\ job' \in [Jobs -> JobRow]
      /\ job'[j].version = job[j].version + 1
      /\ \A k \in Jobs : k # j => job'[k] = job[k]
  <2> DEFINE n == job[j].version + 1
  <2>1. n \in 0..MaxVersion
    BY <1>4
  <2>2. job' = [job EXCEPT ![j] = [state |-> state, version |-> n]]
    BY <1>1
  <2> HIDE DEF n
  <2>3. [state |-> state, version |-> n] \in JobRow
    BY <1>4, <2>1 DEF JobRow
  <2>4. job' \in [Jobs -> JobRow] /\ job'[j].version = n
        /\ \A k \in Jobs : k # j => job'[k] = job[k]
    BY <1>3, <2>2, <2>3
  <2> QED
    BY <2>4 DEF n
<1>6. TypeOK'
  BY <1>2, <1>5 DEF IInv, TypeOK, JobRow
<1>7. Shapes' /\ Exclusive' /\ RetiredUnused' /\ Fenced'
  BY <1>2 DEF IInv, Shapes, Exclusive, RetiredUnused, Fenced, Users, Gone
<1>8. Snapshot'
  <2> SUFFICES ASSUME cleaner.pc # "idle"
               PROVE  /\ cleaner.version <= job'[cleaner.job].version
                      /\ cleaner.version = job'[cleaner.job].version =>
                            cleaner.state = job'[cleaner.job].state
    BY <1>2 DEF Snapshot
  <2>1. /\ cleaner.job \in Jobs /\ cleaner.version \in Nat
        /\ cleaner.version <= job[cleaner.job].version
        /\ cleaner.version = job[cleaner.job].version => cleaner.state = job[cleaner.job].state
    BY Types, JobsAssumption DEF IInv, Shapes, Snapshot, CleanerState
  <2>2. CASE cleaner.job = j
    BY <1>3, <1>5, <2>1, <2>2
  <2>3. CASE cleaner.job # j
    BY <1>5, <2>1, <2>3
  <2> QED
    BY <2>2, <2>3
<1>9. ReportTrue'
  <2> SUFFICES ASSUME NEW k \in Jobs
               PROVE  /\ report[k].version <= job'[k].version
                      /\ CanDismiss(k)' => \A p \in PathsOf[k] : Gone(p)
    BY <1>2 DEF ReportTrue, Gone
  <2>1. report[k].version \in Nat /\ report[k].version <= job[k].version
    BY Types, JobsAssumption DEF ReportRow, IInv, ReportTrue
  <2>2. CASE k = j
    BY <1>2, <1>3, <1>5, <2>1, <2>2 DEF CanDismiss, Current
  <2>3. CASE k # j
    BY <1>2, <1>5, <2>1, <2>3 DEF IInv, ReportTrue, CanDismiss, Current
  <2> QED
    BY <2>2, <2>3
<1> QED
  BY <1>6, <1>7, <1>8, <1>9 DEF IInv

-----------------------------------------------------------------------------
(* The cleaner.                                                            *)

\* What a step of the cleaner may do to the workspaces: it retires those
\* that nobody has open, and what is gone stays gone.
Tidied ==
    /\ disk' \in [Paths -> DiskRow]
    /\ \A p \in Paths :
          /\ disk[p].retired => disk'[p].retired
          /\ disk'[p].retired => disk[p].retired \/ Users(p) = {}
          /\ Gone(p) => Gone(p)'

LEMMA UntouchedTidied == ASSUME IInv, UNCHANGED disk PROVE Tidied
BY Types DEF Tidied, Gone

\* Whatever the cleaner did to the workspaces, the reports stay true.
LEMMA TidiedKeeps ==
  ASSUME IInv, Tidied, UNCHANGED <<job, writer, report>>,
         Shapes', Exclusive', Snapshot', Fenced'
  PROVE  IInv'
<1>1. TypeOK'
  <2>1. cleaner'.locked # {} => cleaner'.locked \subseteq PathsOf[cleaner'.job]
    BY DEF Shapes, CleanerState
  <2> QED
    BY <2>1 DEF IInv, TypeOK, Tidied, DiskRow
<1>2. RetiredUnused'
  BY DEF IInv, RetiredUnused, Tidied, Users
<1>3. ReportTrue'
  BY Types DEF IInv, ReportTrue, Tidied, CanDismiss, Current
<1> QED
  BY <1>1, <1>2, <1>3 DEF IInv

\* The observation ends, or its process dies.
LEMMA IdleKeeps ==
  ASSUME IInv, Tidied, cleaner' = IdleCleaner, UNCHANGED <<job, writer, report>>
  PROVE  IInv'
<1>1. cleaner' \in CleanerState /\ cleaner'.pc = "idle" /\ cleaner'.locked = {}
  BY IdleTypes DEF IdleCleaner
<1>2. Shapes'
  BY <1>1 DEF IInv, Shapes
<1>3. Exclusive' /\ Snapshot' /\ Fenced'
  BY <1>1 DEF Exclusive, Snapshot, Fenced
<1> QED
  BY <1>2, <1>3, TidiedKeeps

\* The observation goes on to its report.
LEMMA ToReportKeeps ==
  ASSUME IInv, Tidied, cleaner.pc # "idle",
         NEW status \in {"pending", "retained", "shared", "error", "clean"},
         ToReport(status), UNCHANGED <<job, writer, report>>,
         status = "clean" /\ cleaner.state = "terminal" =>
            \A p \in PathsOf[cleaner.job] : Gone(p)'
  PROVE  IInv'
<1>1. cleaner \in CleanerState
  BY Types
<1>2. /\ cleaner' \in CleanerState /\ cleaner'.pc = "report" /\ cleaner'.locked = {}
      /\ cleaner'.status = status /\ cleaner'.job = cleaner.job
      /\ cleaner'.version = cleaner.version /\ cleaner'.state = cleaner.state
  BY <1>1 DEF ToReport, CleanerState
<1>3. Shapes'
  BY <1>2 DEF IInv, Shapes
<1>4. Exclusive'
  BY <1>2 DEF Exclusive
<1>5. Snapshot'
  BY <1>2 DEF IInv, Snapshot
<1>6. Fenced'
  BY <1>2 DEF Fenced
<1> QED
  BY <1>3, <1>4, <1>5, <1>6, TidiedKeeps

\* The observation passes to its next step with the locks it has.
LEMMA PassKeeps ==
  ASSUME IInv, Tidied, UNCHANGED <<job, writer, report>>, cleaner' \in CleanerState,
         cleaner.pc \notin {"idle", "report"},
         cleaner'.pc \in {"lock", "measure", "detach", "handoff", "purge", "remeasure"},
         cleaner'.job = cleaner.job, cleaner'.version = cleaner.version,
         cleaner'.state = cleaner.state,
         \A p \in cleaner'.locked : p \in cleaner.locked \/ Users(p) = {},
         cleaner'.pc = "lock" => cleaner'.locked \subseteq PathsOf[cleaner.job],
         cleaner'.pc # "lock" => cleaner'.locked = PathsOf[cleaner.job],
         cleaner'.pc \in {"detach", "handoff", "purge", "remeasure"} =>
            cleaner.state = "terminal",
         cleaner'.pc \in {"handoff", "purge", "remeasure"} =>
            \A p \in PathsOf[cleaner.job] : disk'[p].retired
  PROVE  IInv'
<1>1. Shapes'
  BY DEF IInv, Shapes
<1>2. Exclusive'
  BY DEF IInv, Exclusive, Users
<1>3. Snapshot'
  BY DEF IInv, Snapshot
<1>4. Fenced'
  BY DEF Fenced
<1> QED
  BY <1>1, <1>2, <1>3, <1>4, TidiedKeeps

LEMMA PickKeeps ==
  ASSUME IInv, NEW j \in Jobs, Pick(j)
  PROVE  IInv'
<1>1. UNCHANGED <<job, writer, disk, report>>
  BY DEF Pick
<1>2. job[j].version \in 0..MaxVersion /\ job[j].state \in DOMAIN JobMoves
  BY Types DEF JobRow
<1>3. /\ cleaner' \in CleanerState /\ cleaner'.pc = "busy" /\ cleaner'.job = j
      /\ cleaner'.version = job[j].version /\ cleaner'.state = job[j].state
      /\ cleaner'.locked = {}
  BY <1>2, IdleTypes DEF Pick, IdleCleaner, CleanerState
<1>4. Tidied
  BY <1>1, UntouchedTidied
<1>5. Shapes'
  BY <1>1, <1>3 DEF IInv, Shapes
<1>6. Exclusive' /\ Fenced'
  BY <1>3 DEF Exclusive, Fenced
<1>7. Snapshot'
  BY <1>1, <1>2, <1>3, JobsAssumption DEF Snapshot
<1> QED
  BY <1>1, <1>4, <1>5, <1>6, <1>7, TidiedKeeps

\* The steps that only look.
LEMMA LookKeeps ==
  ASSUME IInv, CheckBusy \/ Lock \/ MeasureBefore \/ Handoff \/ MeasureAfter
  PROVE  IInv'
<1>0. UNCHANGED <<job, writer, disk, report>>
  BY DEF CheckBusy, Lock, MeasureBefore, Handoff, MeasureAfter
<1>t. Tidied /\ cleaner \in CleanerState
  BY <1>0, UntouchedTidied, Types
<1>j. cleaner.pc # "idle" => cleaner.job \in Jobs /\ PathsOf[cleaner.job] \subseteq Paths
  BY Types DEF IInv, Shapes
<1>1. CASE CheckBusy
  <2>1. CASE Busy(cleaner.job)
    BY <1>0, <1>1, <1>t, <2>1, ToReportKeeps DEF CheckBusy
  <2>2. CASE ~Busy(cleaner.job)
    <3>1. cleaner.pc = "busy" /\ cleaner' = [cleaner EXCEPT !.pc = "lock"]
      BY <1>1, <2>2 DEF CheckBusy
    <3>2. /\ cleaner' \in CleanerState /\ cleaner'.pc = "lock"
          /\ cleaner'.job = cleaner.job /\ cleaner'.version = cleaner.version
          /\ cleaner'.state = cleaner.state /\ cleaner'.locked = cleaner.locked
      BY <1>t, <3>1 DEF CleanerState
    <3>3. cleaner.locked = {}
      BY <3>1 DEF IInv, Shapes
    <3> QED
      BY <1>0, <1>t, <3>1, <3>2, <3>3, PassKeeps
  <2> QED
    BY <2>1, <2>2
<1>2. CASE Lock
  <2> DEFINE missing == Declared(cleaner.job) \ cleaner.locked
             p == CHOOSE q \in missing : TRUE
  <2>0. cleaner.pc = "lock"
    BY <1>2 DEF Lock
  <2>1. cleaner.locked \subseteq PathsOf[cleaner.job] /\ PathsOf[cleaner.job] \subseteq Paths
    BY <1>j, <2>0 DEF IInv, Shapes
  <2>2. CASE missing = {}
    <3>1. cleaner' = [cleaner EXCEPT !.pc = "measure"]
      BY <1>2, <2>2 DEF Lock
    <3>2. /\ cleaner' \in CleanerState /\ cleaner'.pc = "measure"
          /\ cleaner'.job = cleaner.job /\ cleaner'.version = cleaner.version
          /\ cleaner'.state = cleaner.state /\ cleaner'.locked = cleaner.locked
      BY <1>t, <3>1 DEF CleanerState
    <3>3. cleaner.locked = PathsOf[cleaner.job]
      BY <2>1, <2>2 DEF Declared
    <3> QED
      BY <1>0, <1>t, <2>0, <3>2, <3>3, PassKeeps
  <2>3. CASE missing # {} /\ Granted(p)
    <3>1. cleaner' = [cleaner EXCEPT !.locked = cleaner.locked \cup {p}]
      BY <1>2, <2>3 DEF Lock
    <3>2. p \in PathsOf[cleaner.job] /\ Users(p) = {}
      BY <2>3 DEF Declared, Granted
    <3> HIDE DEF p
    <3>3. /\ cleaner' \in CleanerState /\ cleaner'.pc = "lock"
          /\ cleaner'.job = cleaner.job /\ cleaner'.version = cleaner.version
          /\ cleaner'.state = cleaner.state /\ cleaner'.locked = cleaner.locked \cup {p}
      BY <1>t, <2>0, <2>1, <3>1, <3>2 DEF CleanerState
    <3> QED
      BY <1>0, <1>t, <2>0, <2>1, <3>2, <3>3, PassKeeps
  <2>4. CASE missing # {} /\ ~Granted(p)
    <3>1. ToReport("pending")
      BY <1>2, <2>4 DEF Lock
    <3> QED
      BY <1>0, <1>t, <2>0, <3>1, ToReportKeeps
  <2> QED
    BY <2>2, <2>3, <2>4
<1>3. CASE MeasureBefore
  <2> DEFINE found == Measure(PathsOf[cleaner.job])
  <2>0. cleaner.pc = "measure" /\ cleaner.locked = PathsOf[cleaner.job] /\ found \in BOOLEAN
    BY <1>3 DEF MeasureBefore, IInv, Shapes, Measure
  <2>1. CASE cleaner.state = "terminal"
    <3>1. cleaner' = [cleaner EXCEPT !.pc = "detach", !.found = found]
      BY <1>3, <2>1 DEF MeasureBefore
    <3> HIDE DEF found
    <3>2. /\ cleaner' \in CleanerState /\ cleaner'.pc = "detach"
          /\ cleaner'.job = cleaner.job /\ cleaner'.version = cleaner.version
          /\ cleaner'.state = cleaner.state /\ cleaner'.locked = cleaner.locked
      BY <1>t, <2>0, <3>1 DEF CleanerState
    <3> QED
      BY <1>0, <1>t, <2>0, <2>1, <3>2, PassKeeps
  <2>2. CASE cleaner.state # "terminal"
    <3>1. \E status \in {"retained", "clean"} : ToReport(status)
      BY <1>3, <2>2 DEF MeasureBefore
    <3> QED
      BY <1>0, <1>t, <2>0, <2>2, <3>1, ToReportKeeps
  <2> QED
    BY <2>1, <2>2
<1>4. CASE Handoff
  <2>0. cleaner.pc = "handoff"
    BY <1>4 DEF Handoff
  <2>1. CASE ToReport("error")
    BY <1>0, <1>t, <2>0, <2>1, ToReportKeeps
  <2>2. CASE cleaner' = [cleaner EXCEPT !.pc = "purge"]
    <3>1. /\ cleaner' \in CleanerState /\ cleaner'.pc = "purge"
          /\ cleaner'.job = cleaner.job /\ cleaner'.version = cleaner.version
          /\ cleaner'.state = cleaner.state /\ cleaner'.locked = cleaner.locked
      BY <1>t, <2>2 DEF CleanerState
    <3>2. /\ cleaner.locked = PathsOf[cleaner.job] /\ cleaner.state = "terminal"
          /\ \A p \in PathsOf[cleaner.job] : disk'[p].retired
      BY <1>0, <2>0 DEF IInv, Shapes, Fenced
    <3> QED
      BY <1>0, <1>t, <2>0, <3>1, <3>2, PassKeeps
  <2> QED
    BY <1>4, <2>1, <2>2 DEF Handoff
<1>5. CASE MeasureAfter
  <2>0. cleaner.pc = "remeasure" /\ \A p \in PathsOf[cleaner.job] : disk[p].retired
    BY <1>5 DEF MeasureAfter, IInv, Fenced
  <2>1. CASE Measure(PathsOf[cleaner.job])
    BY <1>0, <1>5, <1>t, <2>0, <2>1, ToReportKeeps DEF MeasureAfter
  <2>2. CASE ~Measure(PathsOf[cleaner.job])
    <3>1. \A p \in PathsOf[cleaner.job] : Gone(p)'
      BY <1>0, <2>0, <2>2 DEF Measure, Gone
    <3>2. ToReport("clean")
      BY <1>5, <2>2 DEF MeasureAfter
    <3> QED
      BY <1>0, <1>t, <2>0, <3>1, <3>2, ToReportKeeps
  <2> QED
    BY <2>1, <2>2
<1> QED
  BY <1>1, <1>2, <1>3, <1>4, <1>5

\* Retiring and detaching keep a workspace that is gone as it is.
LEMMA DetachedRow ==
  ASSUME NEW d \in DiskRow
  PROVE  /\ Retired(d) \in DiskRow /\ Retired(d).retired
         /\ Retired(d).data = d.data /\ Retired(d).removing = d.removing
         /\ Detached(Retired(d)) \in DiskRow /\ Detached(Retired(d)).retired
         /\ ~d.data /\ ~d.removing =>
               ~Detached(Retired(d)).data /\ ~Detached(Retired(d)).removing
<1>1. /\ Retired(d) \in DiskRow /\ Retired(d).retired
      /\ Retired(d).data = d.data /\ Retired(d).removing = d.removing
  BY DEF Retired, DiskRow
<1> DEFINE r == Retired(d)
<1> HIDE DEF r
<1>2. r \in DiskRow /\ r.retired /\ r.data = d.data /\ r.removing = d.removing
  BY <1>1 DEF r
<1>3. CASE r.removing
  <2>1. Detached(r) = r
    BY <1>3 DEF Detached
  <2> QED
    BY <1>1, <1>2, <1>3, <2>1 DEF r
<1>4. CASE ~r.removing
  <2>1. Detached(r) = [r EXCEPT !.data = FALSE, !.removing = r.data]
    BY <1>4 DEF Detached
  <2>2. Detached(r) = [data |-> FALSE, removing |-> r.data, retired |-> r.retired]
    BY <1>2, <2>1 DEF DiskRow
  <2>3. Detached(r) \in DiskRow /\ Detached(r).retired
    BY <1>2, <2>2 DEF DiskRow
  <2>4. ~d.data => ~Detached(r).data /\ ~Detached(r).removing
    BY <1>2, <2>2
  <2> QED
    BY <1>1, <2>3, <2>4 DEF r
<1> QED
  BY <1>3, <1>4

\* The short transaction, complete or cut off by a crash: each of the locked
\* workspaces is as it was, retired, or retired and detached.
LEMMA DetachTidied ==
  ASSUME IInv, cleaner.pc = "detach", DOMAIN disk' = Paths,
         disk' = [p \in Paths |-> disk'[p]],
         \A p \in Paths :
            \/ disk'[p] = disk[p]
            \/ /\ p \in PathsOf[cleaner.job]
               /\ disk'[p] \in {Retired(disk[p]), Detached(Retired(disk[p]))}
  PROVE  Tidied
<1>1. disk \in [Paths -> DiskRow]
  BY Types
<1>2. \A p \in PathsOf[cleaner.job] : Users(p) = {}
  BY DEF IInv, Shapes, Exclusive
<1>3. ASSUME NEW p \in Paths
      PROVE  /\ disk'[p] \in DiskRow
             /\ disk[p].retired => disk'[p].retired
             /\ disk'[p].retired => disk[p].retired \/ Users(p) = {}
             /\ Gone(p) => Gone(p)'
  <2>1. CASE disk'[p] = disk[p]
    BY <1>1, <2>1 DEF Gone
  <2>2. CASE disk'[p] = Retired(disk[p]) /\ p \in PathsOf[cleaner.job]
    BY <1>1, <1>2, <2>2, DetachedRow DEF Gone
  <2>3. CASE disk'[p] = Detached(Retired(disk[p])) /\ p \in PathsOf[cleaner.job]
    BY <1>1, <1>2, <2>3, DetachedRow DEF Gone
  <2> QED
    BY <2>1, <2>2, <2>3
<1>4. disk' \in [Paths -> DiskRow]
  BY <1>3
<1> QED
  BY <1>3, <1>4 DEF Tidied

LEMMA DetachKeeps ==
  ASSUME IInv, Detach
  PROVE  IInv'
<1> DEFINE j == cleaner.job
<1>1. cleaner.pc = "detach" /\ UNCHANGED <<job, writer, report>>
  BY DEF Detach
<1>2. cleaner \in CleanerState /\ j \in Jobs /\ PathsOf[j] \subseteq Paths
  BY <1>1, Types DEF IInv, Shapes
<1>3. CASE job[j].version # cleaner.version \/ Busy(j)
  BY <1>1, <1>3, UntouchedTidied, IdleKeeps DEF Detach
<1>4. CASE ~(job[j].version # cleaner.version \/ Busy(j)) /\ Shared(j)
  BY <1>1, <1>4, UntouchedTidied, ToReportKeeps DEF Detach
<1>5. CASE ~(job[j].version # cleaner.version \/ Busy(j)) /\ ~Shared(j)
  <2>1. /\ disk' = [p \in Paths |-> IF p \in PathsOf[j]
                                    THEN Detached(Retired(disk[p])) ELSE disk[p]]
        /\ cleaner' = [cleaner EXCEPT !.pc = "handoff"]
    BY <1>5 DEF Detach
  <2>2. Tidied
    BY <1>1, <2>1, DetachTidied
  <2>3. \A p \in PathsOf[j] : disk'[p].retired
    BY <1>2, <2>1, Types, DetachedRow
  <2>4. /\ cleaner' \in CleanerState /\ cleaner'.pc = "handoff"
        /\ cleaner'.job = cleaner.job /\ cleaner'.version = cleaner.version
        /\ cleaner'.state = cleaner.state /\ cleaner'.locked = cleaner.locked
    BY <1>2, <2>1 DEF CleanerState
  <2>5. cleaner.locked = PathsOf[cleaner.job] /\ cleaner.state = "terminal"
    BY <1>1 DEF IInv, Shapes, Fenced
  <2> QED
    BY <1>1, <2>2, <2>3, <2>4, <2>5, PassKeeps
<1> QED
  BY <1>3, <1>4, <1>5

LEMMA CrashInDetachKeeps ==
  ASSUME IInv, CrashInDetach
  PROVE  IInv'
<1>1. cleaner.pc = "detach" /\ UNCHANGED <<job, writer, report>> /\ cleaner' = IdleCleaner
  BY DEF CrashInDetach
<1>2. PICK S \in SUBSET PathsOf[cleaner.job] : \E q \in PathsOf[cleaner.job] \ S :
        disk' = [p \in Paths |-> IF p \in S THEN Detached(Retired(disk[p]))
                                 ELSE IF p = q THEN Retired(disk[p]) ELSE disk[p]]
  BY DEF CrashInDetach
<1>3. PICK q \in PathsOf[cleaner.job] \ S :
        disk' = [p \in Paths |-> IF p \in S THEN Detached(Retired(disk[p]))
                                 ELSE IF p = q THEN Retired(disk[p]) ELSE disk[p]]
  BY <1>2
<1>4. Tidied
  BY <1>1, <1>3, DetachTidied
<1> QED
  BY <1>1, <1>4, IdleKeeps

\* A purge removes detached data only.
LEMMA PurgeTidied ==
  ASSUME IInv, NEW S,
         disk' = [p \in Paths |-> IF p \in S THEN [disk[p] EXCEPT !.removing = FALSE]
                                  ELSE disk[p]]
  PROVE  Tidied /\ \A p \in Paths : disk'[p].retired = disk[p].retired
<1>1. disk \in [Paths -> DiskRow]
  BY Types
<1>2. ASSUME NEW p \in Paths
      PROVE  /\ disk'[p] \in DiskRow /\ disk'[p].retired = disk[p].retired
             /\ Gone(p) => Gone(p)'
  <2>1. CASE p \in S
    <3>1. disk'[p] = [disk[p] EXCEPT !.removing = FALSE] /\ disk[p] \in DiskRow
      BY <1>1, <2>1
    <3> QED
      BY <3>1 DEF DiskRow, Gone
  <2>2. CASE p \notin S
    BY <1>1, <2>2 DEF Gone
  <2> QED
    BY <2>1, <2>2
<1>3. disk' \in [Paths -> DiskRow]
  BY <1>2
<1> QED
  BY <1>2, <1>3 DEF Tidied

LEMMA PurgeKeeps ==
  ASSUME IInv, Purge
  PROVE  IInv'
<1>1. cleaner.pc = "purge" /\ UNCHANGED <<job, writer, report>>
  BY DEF Purge
<1>2. Tidied /\ \A p \in Paths : disk'[p].retired = disk[p].retired
  BY PurgeTidied DEF Purge
<1>3. cleaner \in CleanerState /\ PathsOf[cleaner.job] \subseteq Paths
  BY <1>1, Types DEF IInv, Shapes
<1>4. /\ cleaner' \in CleanerState /\ cleaner'.pc = "remeasure"
      /\ cleaner'.job = cleaner.job /\ cleaner'.version = cleaner.version
      /\ cleaner'.state = cleaner.state /\ cleaner'.locked = cleaner.locked
  BY <1>3 DEF CleanerState, Purge
<1>5. /\ cleaner.locked = PathsOf[cleaner.job] /\ cleaner.state = "terminal"
      /\ \A p \in PathsOf[cleaner.job] : disk'[p].retired
  BY <1>1, <1>2, <1>3 DEF IInv, Shapes, Fenced
<1> QED
  BY <1>1, <1>2, <1>4, <1>5, PassKeeps

LEMMA PurgeFailsKeeps ==
  ASSUME IInv, PurgeFails
  PROVE  IInv'
<1>1. cleaner.pc = "purge" /\ UNCHANGED <<job, writer, report>>
  BY DEF PurgeFails
<1>2. Tidied
  BY PurgeTidied DEF PurgeFails
<1>3. cleaner' = IdleCleaner \/ ToReport("error")
  BY DEF PurgeFails
<1> QED
  BY <1>1, <1>2, <1>3, IdleKeeps, ToReportKeeps

\* The observation fails at any step.
LEMMA FailKeeps ==
  ASSUME IInv, Fail
  PROVE  IInv'
<1>1. /\ cleaner.pc # "idle" /\ UNCHANGED <<job, writer, disk, report>>
      /\ cleaner' = IdleCleaner \/ ToReport("error")
  BY DEF Fail
<1> QED
  BY <1>1, UntouchedTidied, IdleKeeps, ToReportKeeps

\* The report is written if the workload has not moved on since the
\* observation began, and then it ended or it has not.
LEMMA ReportKeeps ==
  ASSUME IInv, Report
  PROVE  IInv'
<1> DEFINE new == [version |-> cleaner.version, status |-> cleaner.status]
<1>1. cleaner.pc = "report" /\ cleaner' = IdleCleaner /\ UNCHANGED <<job, writer, disk>>
  BY DEF Report
<1>2. cleaner \in CleanerState /\ cleaner.job \in Jobs
  BY <1>1, Types DEF IInv, Shapes
<1>j. PICK j \in Jobs : j = cleaner.job
  BY <1>2
<1>3. cleaner' \in CleanerState /\ cleaner'.pc = "idle" /\ cleaner'.locked = {}
  BY <1>1, IdleTypes DEF IdleCleaner
<1>4. new \in ReportRow
  BY <1>2 DEF CleanerState, ReportRow
<1>5. report \in [Jobs -> ReportRow]
  BY Types
<1>6. report' \in [Jobs -> ReportRow]
  BY <1>4, <1>5 DEF Report
<1>7. TypeOK'
  BY <1>1, <1>3, <1>6 DEF IInv, TypeOK, ReportRow
<1>8. Shapes' /\ Exclusive' /\ RetiredUnused' /\ Snapshot' /\ Fenced'
  BY <1>1, <1>3 DEF IInv, Shapes, Exclusive, RetiredUnused, Snapshot, Fenced, Users
<1>9. ReportTrue'
  <2>1. CASE job[j].version # cleaner.version
    BY <1>1, <1>j, <2>1 DEF Report, IInv, ReportTrue, CanDismiss, Current, Gone
  <2>2. CASE job[j].version = cleaner.version
    <3>1. report'[j].version = cleaner.version /\ report'[j].status = cleaner.status
          /\ \A k \in Jobs : k # j => report'[k] = report[k]
      BY <1>2, <1>5, <1>j, <2>2 DEF Report
    <3>2. cleaner.state = job[j].state
      BY <1>1, <1>j, <2>2 DEF IInv, Snapshot
    <3>3. cleaner.version <= cleaner.version
      BY <1>2, JobsAssumption DEF CleanerState
    <3>4. CanDismiss(j)' => \A p \in PathsOf[j] : Gone(p)
      BY <1>1, <1>j, <3>1, <3>2 DEF IInv, Fenced, CanDismiss, Current
    <3> SUFFICES ASSUME NEW k \in Jobs
                 PROVE  /\ report'[k].version <= job[k].version
                        /\ CanDismiss(k)' => \A p \in PathsOf[k] : Gone(p)
      BY <1>1 DEF ReportTrue, Gone
    <3>5. CASE k = j
      BY <2>2, <3>1, <3>3, <3>4, <3>5
    <3>6. CASE k # j
      BY <1>1, <3>1, <3>6 DEF IInv, ReportTrue, CanDismiss, Current
    <3> QED
      BY <3>5, <3>6
  <2> QED
    BY <2>1, <2>2
<1> QED
  BY <1>7, <1>8, <1>9 DEF IInv

-----------------------------------------------------------------------------
(* Theorems.                                                               *)

LEMMA InvInit == Init => IInv
<1> SUFFICES ASSUME Init PROVE IInv
  OBVIOUS
<1>1. /\ job = [j \in Jobs |-> [state |-> "none", version |-> 0]]
      /\ writer = [w \in Writers |-> IdleWriter]
      /\ disk = [p \in Paths |-> [data |-> FALSE, removing |-> FALSE, retired |-> FALSE]]
      /\ cleaner = IdleCleaner
      /\ report = [j \in Jobs |-> [version |-> 0, status |-> "pending"]]
  BY DEF Init
<1>2. IdleCleaner \in CleanerState /\ IdleWriter \in WriterRow /\ IdleWriter.job = NoJob
      /\ IdleCleaner.pc = "idle" /\ IdleCleaner.locked = {}
  BY IdleTypes DEF IdleCleaner, IdleWriter
<1>3. "none" \in DOMAIN JobMoves /\ 0 \in 0..MaxVersion
  BY Moves, JobsAssumption
<1>4. TypeOK
  BY <1>1, <1>2, <1>3 DEF TypeOK, WriterRow
<1>5. Shapes /\ Exclusive /\ RetiredUnused /\ Snapshot /\ Fenced
  BY <1>1, <1>2 DEF Shapes, Exclusive, RetiredUnused, Snapshot, Fenced
<1>6. ReportTrue
  BY <1>1 DEF ReportTrue, CanDismiss
<1> QED
  BY <1>4, <1>5, <1>6 DEF IInv

LEMMA InvNext == IInv /\ [Next]_vars => IInv'
<1> SUFFICES ASSUME IInv, [Next]_vars PROVE IInv'
  OBVIOUS
<1>1. CASE \E w \in Writers : Claim(w) \/ Open(w) \/ Write(w) \/ Close(w) \/ Expire(w)
  BY <1>1, WriterStepKeeps, WriteKeeps
<1>2. CASE \E j \in Jobs : Move(j) \/ Pick(j)
  BY <1>2, MoveKeeps, PickKeeps
<1>3. CASE Observe
  BY <1>3, LookKeeps, DetachKeeps, PurgeKeeps, ReportKeeps DEF Observe
<1>4. CASE CrashInDetach \/ PurgeFails \/ Fail
  BY <1>4, CrashInDetachKeeps, PurgeFailsKeeps, FailKeeps
<1>5. CASE UNCHANGED vars
  BY <1>5 DEF vars, IInv, TypeOK, Shapes, Exclusive, RetiredUnused, Snapshot, Fenced,
       ReportTrue, CanDismiss, Current, Gone, Users
<1> QED
  BY <1>1, <1>2, <1>3, <1>4, <1>5 DEF Next

LEMMA Invariance == Spec => []IInv
BY InvInit, InvNext, PTL DEF Spec

\* What can_dismiss allows to be dismissed has nothing left on disk, although
\* attempts that lost their lease go on writing and the cleaner may die
\* between, and within, its steps.
THEOREM DismissableIsClean == Spec => []CleanIsClean
<1>1. IInv => CleanIsClean
  BY DEF IInv, CleanIsClean, DismissableIsGone, ReportTrue, Measure, Gone
<1> QED
  BY <1>1, Invariance, PTL

\* Only the short transaction takes data away.
LEMMA OnlyDetachRemoves ==
  ASSUME IInv, [Next]_vars, NEW p \in Paths, disk[p].data, ~disk'[p].data
  PROVE  /\ cleaner.pc = "detach" /\ p \in PathsOf[cleaner.job]
         /\ job[cleaner.job].version = cleaner.version /\ ~Shared(cleaner.job)
<1>0. disk \in [Paths -> DiskRow]
  BY Types
<1>1. ASSUME NEW w \in Writers, Write(w) PROVE disk'[p].data
  BY <1>0, <1>1 DEF Write, DiskRow
<1>2. ASSUME NEW S, disk' = [q \in Paths |-> IF q \in S THEN [disk[q] EXCEPT !.removing = FALSE]
                                             ELSE disk[q]]
      PROVE  disk'[p].data
  BY <1>0, <1>2 DEF DiskRow
<1>3. ~Purge /\ ~PurgeFails
  BY <1>2 DEF Purge, PurgeFails
<1>4. disk' # disk
  BY <1>0
<1>5. Detach \/ CrashInDetach
  BY <1>1, <1>3, <1>4 DEF Next, vars, Claim, Open, Close, Expire, Move, Pick, Observe,
       CheckBusy, Lock, MeasureBefore, Handoff, MeasureAfter, Report, Fail
<1>6. CASE Detach
  <2>1. /\ cleaner.pc = "detach" /\ job[cleaner.job].version = cleaner.version
        /\ ~Shared(cleaner.job)
    BY <1>4, <1>6 DEF Detach
  <2>2. disk' = [q \in Paths |-> IF q \in PathsOf[cleaner.job]
                                 THEN Detached(Retired(disk[q])) ELSE disk[q]]
    BY <1>4, <1>6 DEF Detach
  <2> QED
    BY <2>1, <2>2
<1>7. CASE CrashInDetach
  <2>1. /\ cleaner.pc = "detach" /\ job[cleaner.job].version = cleaner.version
        /\ ~Shared(cleaner.job)
    BY <1>7 DEF CrashInDetach
  <2>2. PICK S \in SUBSET PathsOf[cleaner.job] : \E q \in PathsOf[cleaner.job] \ S :
          disk' = [x \in Paths |-> IF x \in S THEN Detached(Retired(disk[x]))
                                   ELSE IF x = q THEN Retired(disk[x]) ELSE disk[x]]
    BY <1>7 DEF CrashInDetach
  <2> QED
    BY <2>1, <2>2
<1> QED
  BY <1>5, <1>6, <1>7

\* Checkpoints of a workload that has not ended are never taken away, nor is
\* anything under a process that has it open: the versions are compared and
\* the other workloads asked under the same locks (temporary_storage.py,
\* retire and detach).
THEOREM CheckpointsAreKept == Spec => CheckpointsKept
<1>1. ASSUME IInv, [Next]_vars, NEW p \in Paths, disk[p].data, ~disk'[p].data
      PROVE  /\ Users(p) = {}
             /\ \A j \in Jobs : p \in PathsOf[j] => job[j].state \in {"none", "terminal"}
  <2> DEFINE k == cleaner.job
  <2>1. /\ cleaner.pc = "detach" /\ p \in PathsOf[k]
        /\ job[k].version = cleaner.version /\ ~Shared(k)
    BY <1>1, OnlyDetachRemoves
  <2>2. Users(p) = {}
    BY <1>1, <2>1 DEF IInv, Shapes, Exclusive
  <2>3. k \in Jobs /\ job[k].state = "terminal"
    BY <1>1, <2>1 DEF IInv, Shapes, Snapshot, Fenced
  <2>4. ASSUME NEW j \in Jobs, p \in PathsOf[j] PROVE job[j].state \in {"none", "terminal"}
    <3>1. job[j].state \in {"none", "running", "suspended", "terminal"}
      BY <1>1, Types, Moves DEF JobRow
    <3>2. CASE j = k
      BY <2>3, <3>2
    <3>3. CASE j # k
      <4>1. PathsOf[k] \cap PathsOf[j] # {}
        BY <2>1, <2>4
      <4> QED
        BY <2>1, <3>1, <3>3, <4>1 DEF Shared
    <3> QED
      BY <3>2, <3>3
  <2> QED
    BY <2>2, <2>4
<1>2. IInv /\ [Next]_vars =>
        [\A p \in Paths :
            disk[p].data /\ ~disk'[p].data =>
                /\ Users(p) = {}
                /\ \A j \in Jobs : p \in PathsOf[j] =>
                      job[j].state \in {"none", "terminal"}]_vars
  BY <1>1
<1> QED
  BY <1>2, Invariance, PTL DEF Spec, CheckpointsKept
=============================================================================
