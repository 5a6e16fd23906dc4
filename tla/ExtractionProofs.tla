-------------------------- MODULE ExtractionProofs --------------------------
(***************************************************************************)
(* Proofs about Extraction: the rows keep their types and budgets, a file  *)
(* has one published run, which never goes back to an older generation, a  *)
(* document shown as being read has a run that reads it, one shown as done *)
(* was read in full, and no text is stored without consent.                *)
(***************************************************************************)
EXTENDS Extraction, FiniteSetTheorems, TLAPS

Started == {r \in Runs : r[2] <= document.generation}

\* What is true of every row of ExtractionRun: a run that has not ended has
\* interruptions left, and a unit still to be read has attempts left.
RowOK(row) ==
    /\ row \in Run
    /\ row.state = "RUNNING" <=> row.lease # NoWorker
    /\ row.state \notin Terminal => row.interruptions < MaxInterruptions
    /\ \A u \in Units : row.unit[u].state \in {"TO_READ", "RETRY_WAIT"}
                            => row.unit[u].attempts < MaxAttempts

\* While a worker holds its lease, the unit it selected is still to be read.
WorkerOK(w) ==
    /\ worker[w] \in Invocation
    /\ worker[w].phase # "idle" => worker[w].run \in Started
    /\ worker[w].phase = "read" => worker[w].unit = {} /\ worker[w].outcome = "none"
    /\ worker[w].outcome \notin {"ABSENT", "TO_READ"}
    /\ worker[w].phase = "store" /\ worker[w].outcome = "none" => worker[w].unit = {}
    /\ worker[w].phase # "idle" /\ run[worker[w].run].lease = w =>
            \A u \in worker[w].unit :
                run[worker[w].run].unit[u].state \in {"TO_READ", "RETRY_WAIT"}

DocumentType ==
    [generation: Generations, status: {"PENDING", "RUNNING", "DONE", "FAILED", "SKIPPED"},
     failed: BOOLEAN, text: SUBSET Pages, external: BOOLEAN]

IInv ==
    /\ document \in DocumentType
    /\ permitted \in BOOLEAN
    /\ run \in [Runs -> Run]
    /\ \A r \in Runs : RowOK(run[r])
    /\ worker \in [Workers -> Invocation]
    /\ \A w \in Workers : WorkerOK(w)
    /\ queue \subseteq Started /\ recovery \subseteq Started
    /\ OneCurrentRun
    /\ \A r \in Runs \ Started : run[r] = AbsentRun

-----------------------------------------------------------------------------
(* Lemmas about runs, rows and workers *)

\* A run's generation is a number.
LEMMA RunType == \A r \in Runs : r[1] \in Files /\ r[2] \in Generations /\ r[2] \in Nat
  BY ExtractionAssumption DEF Runs, Generations

\* A blocked row is a good one.
LEMMA BlockedRow ==
  ASSUME NEW row, RowOK(row)
  PROVE  LET new == [Release(row) EXCEPT !.state = "BLOCKED"]
         IN  /\ RowOK(new)
             /\ new.lease = NoWorker /\ new.current = row.current /\ new.unit = row.unit
  BY DEF RowOK, Run, Release, Open, Terminal

\* No unit has been tried more often than allowed when a run is created.
LEMMA AbsentRowOK == RowOK(AbsentRun) /\ RowOK(NewRun) /\ AbsentRun \in Run /\ NewRun \in Run
  <1>1. AbsentRun.unit \in [Units -> UnitRow]
    BY ExtractionAssumption DEF AbsentRun, UnitRow, UnitStates
  <1>2. \A u \in Units : AbsentRun.unit[u].state = "ABSENT"
    BY DEF AbsentRun
  <1>3. AbsentRun \in Run
    BY <1>1, ExtractionAssumption DEF AbsentRun, Run
  <1>4. NewRun \in Run /\ NewRun.unit = AbsentRun.unit /\ NewRun.lease = NoWorker
        /\ NewRun.state = "PENDING" /\ NewRun.interruptions = 0
    BY <1>3 DEF NewRun, Run, Open, AbsentRun
  <1>5. AbsentRun.state = "ABSENT" /\ AbsentRun.lease = NoWorker /\ AbsentRun.interruptions = 0
    BY DEF AbsentRun
  <1> QED
    BY <1>2, <1>3, <1>4, <1>5, ExtractionAssumption DEF RowOK, Open, Terminal

\* An invocation under way has a run, a selection and an outcome.
LEMMA BusyWorker ==
  ASSUME NEW inv \in Invocation, inv.phase # "idle"
  PROVE  inv \in [phase: {"read", "ocr", "store"}, run: Runs,
                  unit: SUBSET Units, outcome: {"none"} \cup UnitStates]
  BY DEF Invocation, Idle

\* Workers that go on as they were, or leave, keep their selection right when no
\* other step touches a run they hold.
LEMMA WorkersKept ==
  ASSUME IInv,
         worker' \in [Workers -> Invocation],
         \A v \in Workers : worker'[v] = worker[v] \/ worker'[v] = Idle,
         Started \subseteq Started',
         \A r \in Started : \/ run'[r].lease = NoWorker
                            \/ run'[r].lease = run[r].lease /\ run'[r].unit = run[r].unit
  PROVE  \A v \in Workers : WorkerOK(v)'
<1> TAKE v \in Workers
<1>1. CASE worker'[v] = Idle
  BY <1>1 DEF WorkerOK, Idle, Invocation
<1>2. CASE worker'[v] = worker[v]
  BY <1>2, ExtractionAssumption DEF IInv, WorkerOK
<1> QED
  BY <1>1, <1>2

\* A step that rewrites one started run, keeps it published or not, and takes it
\* from its worker or leaves lease and units alone, keeps the invariant.
LEMMA OneRow ==
  ASSUME IInv, NEW r \in Started, NEW row,
         RowOK(row), row.current = run[r].current,
         \/ row.lease = NoWorker
         \/ row.lease = run[r].lease /\ row.unit = run[r].unit,
         run' = [run EXCEPT ![r] = row],
         document' \in DocumentType, document'.generation = document.generation,
         worker' \in [Workers -> Invocation],
         \A v \in Workers : worker'[v] = worker[v] \/ worker'[v] = Idle,
         permitted' = permitted,
         queue' \subseteq Started, recovery' \subseteq Started
  PROVE  IInv'
<1>1. Started' = Started /\ r \in Runs
  BY DEF Started
<1>2. run' \in [Runs -> Run] /\ \A q \in Runs : RowOK(run'[q])
  BY <1>1 DEF IInv, RowOK
<1>3. CurrentRuns(run') = CurrentRuns(run)
  BY <1>1 DEF IInv, CurrentRuns
<1>4. OneCurrentRun'
  BY <1>3 DEF IInv, OneCurrentRun
<1>5. \A q \in Runs \ Started : run'[q] = AbsentRun
  BY DEF IInv
<1>6. \A v \in Workers : WorkerOK(v)'
  BY <1>1, WorkersKept DEF IInv
<1> QED
  BY <1>1, <1>2, <1>4, <1>5, <1>6 DEF IInv, RowOK

-----------------------------------------------------------------------------
(* The invariant holds at first and is kept by every action *)

LEMMA InitKeeps == Init => IInv
<1> SUFFICES ASSUME Init PROVE IInv
  OBVIOUS
<1>1. document \in DocumentType /\ permitted \in BOOLEAN
  <2>1. 0 \in Generations /\ {Pages} \subseteq SUBSET Pages
    BY ExtractionAssumption DEF Generations
  <2>2. document \in DocumentType
    BY <2>1 DEF Init, DocumentType
  <2> QED
    BY <2>2 DEF Init
<1>2. run \in [Runs -> Run] /\ \A r \in Runs : RowOK(run[r]) /\ run[r] = AbsentRun
  BY AbsentRowOK DEF Init
<1>3. CurrentRuns(run) = {}
  BY <1>2 DEF CurrentRuns, AbsentRun
<1>4. worker \in [Workers -> Invocation] /\ \A w \in Workers : WorkerOK(w)
  BY DEF Init, Invocation, Idle, WorkerOK
<1> QED
  BY <1>1, <1>2, <1>3, <1>4 DEF IInv, Init, OneCurrentRun

\* Blocking a started run of a document whose workers go on or leave.
LEMMA BlockedKeeps ==
  ASSUME IInv, NEW r \in Started, Blocked(r),
         worker' \in [Workers -> Invocation],
         \A v \in Workers : worker'[v] = worker[v] \/ worker'[v] = Idle,
         permitted' = permitted, queue' \subseteq Started, recovery' \subseteq Started
  PROVE  IInv'
<1> DEFINE row == [Release(run[r]) EXCEPT !.state = "BLOCKED"]
<1>1. RowOK(row) /\ row.lease = NoWorker /\ row.current = run[r].current
  BY BlockedRow DEF IInv, Started
<1>2. document' \in DocumentType /\ document'.generation = document.generation
  BY DEF IInv, Blocked, DocumentType
<1>3. run' = [run EXCEPT ![r] = row]
  BY DEF Blocked
<1> HIDE DEF row
<1> QED
  BY <1>1, <1>2, <1>3, OneRow

LEMMA DeliverBlockedKeeps == IInv /\ (\E r \in Runs : DeliverBlocked(r)) => IInv'
<1> SUFFICES ASSUME IInv, NEW r \in Runs, DeliverBlocked(r) PROVE IInv'
  OBVIOUS
<1>1. r \in Started /\ queue' \subseteq Started
  BY DEF DeliverBlocked, Delivered, IInv
<1> QED
  BY <1>1, BlockedKeeps DEF DeliverBlocked, IInv

LEMMA ChangedKeeps == IInv /\ (\E w \in Workers : Changed(w)) => IInv'
<1> SUFFICES ASSUME IInv, NEW w \in Workers, Changed(w) PROVE IInv'
  OBVIOUS
<1> DEFINE r == worker[w].run
<1>1. r \in Started /\ r \in Runs
  BY DEF Changed, IInv, WorkerOK, Started
<1>2. /\ worker' \in [Workers -> Invocation]
      /\ \A v \in Workers : worker'[v] = worker[v] \/ worker'[v] = Idle
  BY DEF Changed, Withdraw, Stop, IInv, Invocation
<1>3. permitted' = permitted /\ queue' \subseteq Started /\ recovery' \subseteq Started
  BY DEF Changed, Withdraw, IInv
<1>4. CASE run[r].lease = w
  BY <1>1, <1>2, <1>3, <1>4, BlockedKeeps DEF Changed, Withdraw
<1>5. CASE run[r].lease # w
  <2>1. run' = [run EXCEPT ![r] = run[r]] /\ document' = document
    BY <1>1, <1>5 DEF Changed, Withdraw, IInv
  <2> QED
    BY <1>1, <1>2, <1>3, <2>1, OneRow DEF IInv
<1> QED
  BY <1>4, <1>5

\* Steps that leave every row alone.
LEMMA RowsUntouched ==
  ASSUME IInv, run' = run, document' \in DocumentType,
         document'.generation = document.generation, permitted' \in BOOLEAN,
         worker' \in [Workers -> Invocation],
         \A v \in Workers : worker'[v] = worker[v] \/ worker'[v] = Idle,
         queue' \subseteq Started, recovery' \subseteq Started
  PROVE  IInv'
<1>1. Started' = Started
  BY DEF Started
<1>2. \A v \in Workers : WorkerOK(v)'
  BY <1>1, WorkersKept
<1> QED
  BY <1>1, <1>2 DEF IInv, RowOK, OneCurrentRun, CurrentRuns

LEMMA DeliverNothingKeeps == IInv /\ (\E r \in Runs : DeliverNothing(r)) => IInv'
  BY RowsUntouched DEF DeliverNothing, Delivered, IInv

LEMMA KilledKeeps == IInv /\ (\E w \in Workers : Killed(w)) => IInv'
  BY RowsUntouched DEF Killed, Stop, IInv, Invocation

LEMMA RecoverStartKeeps == IInv /\ RecoverStart => IInv'
<1> SUFFICES ASSUME IInv, RecoverStart PROVE IInv'
  OBVIOUS
<1>1. \A r \in Runs \ Started : ~Recoverable(r)
  BY DEF IInv, Recoverable, AbsentRun
<1> QED
  BY <1>1, RowsUntouched DEF RecoverStart, IInv

LEMMA PermissionKeeps == IInv /\ PermissionChanges => IInv'
  BY RowsUntouched DEF PermissionChanges, IInv

LEMMA ConsentKeeps == IInv /\ ConsentChanges => IInv'
<1> SUFFICES ASSUME IInv, ConsentChanges PROVE IInv'
  OBVIOUS
<1>1. document' \in DocumentType /\ document'.generation = document.generation
  BY DEF ConsentChanges, IInv, DocumentType
<1> QED
  BY <1>1, RowsUntouched DEF ConsentChanges, IInv

LEMMA InterruptedKeeps == IInv /\ (\E w \in Workers : Interrupted(w)) => IInv'
<1> SUFFICES ASSUME IInv, NEW w \in Workers, Interrupted(w) PROVE IInv'
  OBVIOUS
<1> DEFINE r     == worker[w].run
           times == run[r].interruptions + 1
           s     == IF times < MaxInterruptions THEN "RETRY_WAIT" ELSE "ACTION_REQUIRED"
           row   == [Release(run[r]) EXCEPT !.state = s, !.interruptions = times, !.waiting = TRUE]
<1>1. r \in Started /\ r \in Runs /\ RowOK(run[r])
  BY DEF Interrupted, IInv, WorkerOK, Started
<1>2. /\ worker' \in [Workers -> Invocation]
      /\ \A v \in Workers : worker'[v] = worker[v] \/ worker'[v] = Idle
  BY DEF Interrupted, Stop, IInv, Invocation
<1>3. permitted' = permitted /\ queue' \subseteq Started /\ recovery' \subseteq Started
  BY DEF Interrupted, IInv
<1>4. CASE run[r].lease = w /\ document.generation = r[2]
  <2>1. run[r].interruptions \in 0..MaxInterruptions /\ run[r].interruptions < MaxInterruptions
    BY <1>1, <1>4, ExtractionAssumption DEF RowOK, Run, Open, Terminal
  <2>2. times \in 0..MaxInterruptions
    BY <2>1, ExtractionAssumption
  <2>3. s \in {"PENDING", "RETRY_WAIT"} \cup Terminal /\ (s \in {"PENDING", "RETRY_WAIT"} => times < MaxInterruptions)
    BY DEF Terminal
  <2> HIDE DEF times, s
  <2>4. RowOK(row) /\ row.lease = NoWorker /\ row.current = run[r].current
    BY <1>1, <2>2, <2>3 DEF RowOK, Run, Release, Open, Terminal
  <2>5. document' \in DocumentType /\ document'.generation = document.generation
    BY <1>4 DEF Interrupted, IInv, DocumentType, Retained
  <2>6. run' = [run EXCEPT ![r] = row]
    BY <1>4 DEF Interrupted, times, s
  <2> HIDE DEF r, row
  <2> QED
    BY <1>1, <1>2, <1>3, <2>4, <2>5, <2>6, OneRow
<1>5. CASE ~(run[r].lease = w /\ document.generation = r[2])
  BY <1>2, <1>3, <1>5, RowsUntouched DEF Interrupted, IInv
<1> QED
  BY <1>4, <1>5

LEMMA RecoverOneKeeps == IInv /\ (\E r \in Runs : RecoverOne(r)) => IInv'
<1> SUFFICES ASSUME IInv, NEW r \in Runs, RecoverOne(r) PROVE IInv'
  OBVIOUS
<1> DEFINE times == run[r].interruptions + IF run[r].state = "RUNNING" THEN 1 ELSE 0
<1>1. r \in Started /\ RowOK(run[r]) /\ recovery' \subseteq Started /\ permitted' = permitted
  BY DEF RecoverOne, IInv
<1>2. worker' \in [Workers -> Invocation] /\ \A v \in Workers : worker'[v] = worker[v]
  BY DEF RecoverOne, IInv
<1>3. times \in 0..MaxInterruptions
  BY <1>1, ExtractionAssumption DEF RowOK, Run, Open, Terminal
<1>4. CASE ~Eligible(r) /\ Blocked(r) /\ UNCHANGED queue
  BY <1>1, <1>2, <1>4, BlockedKeeps DEF IInv
<1>5. CASE /\ times >= MaxInterruptions
           /\ run' = [run EXCEPT ![r] = [Release(run[r]) EXCEPT
                            !.state = "ACTION_REQUIRED", !.interruptions = times]]
           /\ UNCHANGED <<document, queue>>
  <2> DEFINE row == [Release(run[r]) EXCEPT !.state = "ACTION_REQUIRED", !.interruptions = times]
  <2>1. run[r].waiting \in BOOLEAN
    BY <1>1 DEF RowOK, Run
  <2>2. RowOK(row) /\ row.lease = NoWorker /\ row.current = run[r].current
    <3> HIDE DEF times
    <3> QED
      BY <1>1, <1>3, <2>1 DEF RowOK, Run, Release, Open, Terminal
  <2> HIDE DEF row, times
  <2> QED
    BY <1>1, <1>2, <1>5, <2>2, OneRow DEF IInv, row
<1>6. CASE /\ times < MaxInterruptions
           /\ run' = [run EXCEPT ![r] = [Release(run[r]) EXCEPT
                            !.state = "PENDING", !.waiting = FALSE, !.interruptions = times]]
           /\ Enqueue({r}) /\ UNCHANGED document
  <2> DEFINE row == [Release(run[r]) EXCEPT !.state = "PENDING", !.waiting = FALSE, !.interruptions = times]
  <2>1. RowOK(row) /\ row.lease = NoWorker /\ row.current = run[r].current
    <3> HIDE DEF times
    <3> QED
      BY <1>1, <1>3, <1>6 DEF RowOK, Run, Release, Open, Terminal
  <2>2. queue' \subseteq Started
    BY <1>1, <1>6 DEF Enqueue, IInv
  <2> HIDE DEF row, times
  <2> QED
    BY <1>1, <1>2, <1>6, <2>1, <2>2, OneRow DEF IInv, row
<1> QED
  BY <1>4, <1>5, <1>6 DEF RecoverOne

LEMMA LeaseExpiresKeeps == IInv /\ (\E r \in Runs : LeaseExpires(r)) => IInv'
<1> SUFFICES ASSUME IInv, NEW r \in Runs, LeaseExpires(r) PROVE IInv'
  OBVIOUS
<1> DEFINE row == [run[r] EXCEPT !.expired = TRUE]
<1>1. r \in Started
  BY DEF LeaseExpires, IInv, AbsentRun
<1>2. RowOK(row) /\ row.current = run[r].current /\ row.lease = run[r].lease /\ row.unit = run[r].unit
  BY DEF IInv, RowOK, Run
<1>3. run' = [run EXCEPT ![r] = row]
  BY DEF LeaseExpires, IInv
<1> HIDE DEF row
<1> QED
  BY <1>1, <1>2, <1>3, OneRow DEF LeaseExpires, IInv

LEMMA WaitPassesKeeps == IInv /\ (\E r \in Runs : WaitPasses(r)) => IInv'
<1> SUFFICES ASSUME IInv, NEW r \in Runs, WaitPasses(r) PROVE IInv'
  OBVIOUS
<1> DEFINE row == [run[r] EXCEPT !.waiting = FALSE]
<1>1. r \in Started
  BY DEF WaitPasses, IInv, AbsentRun
<1>2. RowOK(row) /\ row.current = run[r].current /\ row.lease = run[r].lease /\ row.unit = run[r].unit
  BY DEF IInv, RowOK, Run
<1>3. run' = [run EXCEPT ![r] = row]
  BY DEF WaitPasses, IInv
<1> HIDE DEF row
<1> QED
  BY <1>1, <1>2, <1>3, OneRow DEF WaitPasses, IInv

\* A unit map is right when its rows are and a unit still to be read has attempts left.
UnitsOK(units) ==
    /\ units \in [Units -> UnitRow]
    /\ \A u \in Units : units[u].state \in {"TO_READ", "RETRY_WAIT"} => units[u].attempts < MaxAttempts

LEMMA RequestKeeps == IInv /\ Request => IInv'
<1> SUFFICES ASSUME IInv, Request PROVE IInv'
  OBVIOUS
<1> DEFINE new == {r \in Runs : r[2] = document.generation + 1}
<1>1. document' \in DocumentType /\ document'.generation = document.generation + 1
  <2> DEFINE kept == IF document.status = "FAILED" THEN Retained(document) ELSE document
  <2>1. kept \in DocumentType /\ kept.generation = document.generation
    BY DEF IInv, DocumentType, Retained
  <2>2. document' = [kept EXCEPT !.generation = @ + 1, !.status = "PENDING"]
    BY DEF Request
  <2>3. kept.generation + 1 \in Generations
    BY <2>1, ExtractionAssumption DEF Request, IInv, DocumentType, Generations
  <2> HIDE DEF kept
  <2> QED
    BY <2>1, <2>2, <2>3 DEF DocumentType
<1>2. document.generation \in Nat
  BY ExtractionAssumption DEF IInv, DocumentType, Generations
<1>3. Started \subseteq Started' /\ new \subseteq Started' /\ new \cap Started = {}
      /\ Runs \ Started' \subseteq Runs \ (Started \cup new)
  BY <1>1, <1>2, RunType DEF Started
<1>4. run' = [r \in Runs |-> IF r \in new THEN NewRun ELSE run[r]]
  BY DEF Request
<1>5. run' \in [Runs -> Run] /\ \A r \in Runs : RowOK(run'[r])
  BY <1>4, AbsentRowOK DEF IInv
<1>6. \A r \in Started : run'[r] = run[r]
  BY <1>3, <1>4 DEF Started
<1>7. \A r \in new : run[r] = AbsentRun /\ ~run[r].current /\ ~run'[r].current
  BY <1>3, <1>4 DEF IInv, AbsentRun, NewRun
<1>8. CurrentRuns(run') = CurrentRuns(run)
  BY <1>4, <1>7 DEF CurrentRuns
<1>9. \A v \in Workers : WorkerOK(v)'
  BY <1>3, <1>6, WorkersKept DEF IInv, Request
<1>10. queue' \subseteq Started' /\ recovery' \subseteq Started'
  BY <1>3 DEF IInv, Request, Enqueue
<1>11. \A r \in Runs \ Started' : run'[r] = AbsentRun
  BY <1>3, <1>4 DEF IInv
<1> QED
  BY <1>1, <1>5, <1>8, <1>9, <1>10, <1>11 DEF IInv, Request, RowOK, OneCurrentRun

LEMMA ClaimKeeps == IInv /\ (\E w \in Workers, r \in Runs : Claim(w, r)) => IInv'
<1> SUFFICES ASSUME IInv, NEW w \in Workers, NEW r \in Runs, Claim(w, r) PROVE IInv'
  OBVIOUS
<1> DEFINE row == [run[r] EXCEPT !.state = "RUNNING", !.lease = w, !.expired = FALSE]
           inv == [phase |-> "read", run |-> r, unit |-> {}, outcome |-> "none"]
<1>1. r \in Started /\ queue' \subseteq Started
  BY DEF Claim, Delivered, IInv
<1>2. RowOK(row) /\ row.current = run[r].current /\ row.lease = w
  BY ExtractionAssumption DEF Claim, IInv, RowOK, Run, Open, Terminal
<1>3. run' = [run EXCEPT ![r] = row]
  BY DEF Claim, IInv
<1>4. worker' = [worker EXCEPT ![w] = inv] /\ inv \in Invocation
  BY DEF Claim, Invocation
<1>5. document' \in DocumentType /\ document'.generation = document.generation
  BY DEF Claim, IInv, DocumentType
<1>6. Started' = Started
  BY <1>5 DEF Started
<1> HIDE DEF row
<1>7. run' \in [Runs -> Run] /\ \A q \in Runs : RowOK(run'[q])
  BY <1>2, <1>3 DEF IInv, RowOK
<1>8. OneCurrentRun'
  <2>1. CurrentRuns(run') = CurrentRuns(run)
    BY <1>2, <1>3 DEF IInv, CurrentRuns
  <2> QED
    BY <2>1 DEF IInv, OneCurrentRun
<1>9. ASSUME NEW v \in Workers PROVE WorkerOK(v)'
  <2>1. CASE v = w
    BY <1>1, <1>4, <1>6, <2>1 DEF WorkerOK, IInv
  <2>2. CASE v # w
    BY <1>2, <1>3, <1>4, <1>6, <2>2, ExtractionAssumption DEF WorkerOK, IInv, Started
  <2> QED
    BY <2>1, <2>2
<1>10. \A q \in Runs \ Started : run'[q] = AbsentRun
  BY <1>1, <1>3 DEF IInv
<1> QED
  BY <1>1, <1>4, <1>5, <1>6, <1>7, <1>8, <1>9, <1>10 DEF IInv, Claim, RowOK

\* A worker that writes the units of the run it holds, and goes on with it.
LEMMA OwnUnits ==
  ASSUME IInv, NEW w \in Workers, NEW r \in Started, run[r].lease = w,
         NEW units, UnitsOK(units), NEW inv \in Invocation,
         inv.phase \in {"ocr", "store"}, inv.run = r, inv.outcome = "none",
         inv.phase = "store" => inv.unit = {},
         \A u \in inv.unit : u \in Units /\ units[u].state \in {"TO_READ", "RETRY_WAIT"},
         run' = [run EXCEPT ![r].unit = units],
         worker' = [worker EXCEPT ![w] = inv],
         UNCHANGED <<document, permitted, queue, recovery>>
  PROVE  IInv'
<1> DEFINE row == [run[r] EXCEPT !.unit = units]
<1>1. Started' = Started /\ r \in Runs
  BY DEF Started
<1>2. RowOK(row) /\ row.current = run[r].current /\ row.lease = w /\ row.unit = units
  BY <1>1 DEF IInv, RowOK, Run, UnitsOK
<1>3. run' = [run EXCEPT ![r] = row]
  BY <1>1 DEF IInv
<1> HIDE DEF row
<1>4. run' \in [Runs -> Run] /\ \A q \in Runs : RowOK(run'[q])
  BY <1>1, <1>2, <1>3 DEF IInv, RowOK
<1>5. OneCurrentRun'
  <2>1. CurrentRuns(run') = CurrentRuns(run)
    BY <1>1, <1>2, <1>3 DEF IInv, CurrentRuns
  <2> QED
    BY <2>1 DEF IInv, OneCurrentRun
<1>6. ASSUME NEW v \in Workers PROVE WorkerOK(v)'
  <2>1. CASE v = w
    BY <1>1, <1>2, <1>3, <2>1 DEF WorkerOK, IInv
  <2>2. CASE v # w
    BY <1>1, <1>2, <1>3, <2>2, ExtractionAssumption DEF WorkerOK, IInv, Started
  <2> QED
    BY <2>1, <2>2
<1>7. \A q \in Runs \ Started : run'[q] = AbsentRun
  BY <1>3 DEF IInv
<1> QED
  BY <1>1, <1>4, <1>5, <1>6, <1>7 DEF IInv, RowOK

\* Reading a unit without OCR, or finding it blocked, leaves attempts to spare.
LEMMA SaveNativeKeeps ==
  IInv /\ (\E w \in Workers, native \in [Units -> NativeOutcomes] : SaveNative(w, native)) => IInv'
<1> SUFFICES ASSUME IInv, NEW w \in Workers, NEW native \in [Units -> NativeOutcomes],
                    SaveNative(w, native)
             PROVE  IInv'
  OBVIOUS
<1> DEFINE r     == worker[w].run
           units == NativeUnits(r, native)
           todo  == Candidates(units)
           later == {u \in todo : units[u].state = "RETRY_WAIT"}
           shut(open) == [u \in Units |-> IF u \in todo \ open
                                          THEN [units[u] EXCEPT !.state = "BLOCKED"] ELSE units[u]]
<1>1. r \in Started /\ r \in Runs /\ run[r].lease = w /\ worker[w].outcome = "none"
      /\ worker[w].unit = {} /\ worker[w].phase = "read" /\ RowOK(run[r])
  BY DEF SaveNative, HoldsLease, IInv, WorkerOK, Started
<1>2. UnitsOK(units)
  <2>1. \A u \in Units : native[u] \in {"TO_READ"} \cup Terminal
    BY ExtractionAssumption
  <2>2. \A u \in Units : units[u] \in UnitRow
    BY <1>1, <2>1, ExtractionAssumption DEF NativeUnits, UnitRow, UnitStates, RowOK, Run
  <2>3. \A u \in Units : units[u].state \in {"TO_READ", "RETRY_WAIT"} => units[u].attempts < MaxAttempts
    BY <1>1, ExtractionAssumption DEF NativeUnits, RowOK
  <2> QED
    BY <2>2, <2>3 DEF UnitsOK, NativeUnits
<1>3. todo \subseteq Units /\ \A u \in todo : units[u].state \in {"TO_READ", "RETRY_WAIT"}
  BY DEF Candidates
<1>4. UNCHANGED <<document, permitted, queue, recovery>>
  BY DEF SaveNative
<1>5. \A open : UnitsOK(shut(open))
  BY <1>2 DEF UnitsOK, UnitRow, UnitStates, Terminal
<1> HIDE DEF units, todo, shut
<1>6. ASSUME NEW inv \in Invocation, inv.phase = "ocr", inv.run = r, inv.outcome = "none",
              \A v \in inv.unit : v \in Units /\ units[v].state \in {"TO_READ", "RETRY_WAIT"},
              run' = [run EXCEPT ![r].unit = units], worker' = [worker EXCEPT ![w] = inv]
       PROVE  IInv'
  <2> HIDE DEF r
  <2> QED
    BY <1>1, <1>2, <1>4, <1>6, OwnUnits
<1>7. CASE \E u \in todo : /\ worker' = [worker EXCEPT ![w].phase = "ocr", ![w].unit = {u}]
                           /\ run' = [run EXCEPT ![r].unit = units]
  <2> PICK u \in todo : /\ worker' = [worker EXCEPT ![w].phase = "ocr", ![w].unit = {u}]
                        /\ run' = [run EXCEPT ![r].unit = units]
    BY <1>7
  <2> DEFINE inv == [worker[w] EXCEPT !.phase = "ocr", !.unit = {u}]
  <2>1. inv \in Invocation /\ inv.phase = "ocr" /\ inv.run = r /\ inv.outcome = "none" /\ inv.unit = {u}
    <3>1. {u} \in SUBSET Units
      BY <1>3
    <3> QED
      BY <1>1, <3>1, BusyWorker DEF IInv, Invocation
  <2>2. worker' = [worker EXCEPT ![w] = inv]
    BY DEF IInv
  <2>3. \A v \in inv.unit : v \in Units /\ units[v].state \in {"TO_READ", "RETRY_WAIT"}
    BY <1>3, <2>1
  <2>4. run' = [run EXCEPT ![r].unit = units]
    OBVIOUS
  <2> HIDE DEF inv, r
  <2> QED
    BY <1>6, <2>1, <2>2, <2>3, <2>4
<1>8. ASSUME NEW any, UnitsOK(any), run' = [run EXCEPT ![r].unit = any],
             worker' = [worker EXCEPT ![w].phase = "store"]
      PROVE  IInv'
  <2> DEFINE inv == [worker[w] EXCEPT !.phase = "store"]
  <2>1. inv \in Invocation /\ inv.phase = "store" /\ inv.run = r /\ inv.outcome = "none" /\ inv.unit = {}
    BY <1>1 DEF IInv, Invocation, Idle
  <2>2. worker' = [worker EXCEPT ![w] = inv]
    BY <1>8 DEF IInv
  <2> HIDE DEF inv, r
  <2> QED
    BY <1>1, <1>8, <2>1, <2>2, OwnUnits DEF SaveNative
<1>9. CASE \E open \in SUBSET later : run' = [run EXCEPT ![r].unit = shut(open)]
                                      /\ worker' = [worker EXCEPT ![w].phase = "store"]
  BY <1>5, <1>8, <1>9
<1>10. CASE run' = [run EXCEPT ![r].unit = units] /\ worker' = [worker EXCEPT ![w].phase = "store"]
  BY <1>2, <1>8, <1>10
<1> QED
  BY <1>7, <1>9, <1>10 DEF SaveNative, units, todo, shut

LEMMA CallProviderKeeps ==
  IInv /\ (\E w \in Workers, outcome \in OcrOutcomes \cup {"BLOCKED"} : CallProvider(w, outcome)) => IInv'
<1> SUFFICES ASSUME IInv, NEW w \in Workers, NEW outcome \in OcrOutcomes \cup {"BLOCKED"},
                    CallProvider(w, outcome)
             PROVE  IInv'
  OBVIOUS
<1>1. outcome \in {"RETRY_WAIT"} \cup Terminal
  BY ExtractionAssumption DEF Terminal
<1> DEFINE inv == [worker[w] EXCEPT !.phase = "store", !.outcome = outcome]
<1>2. /\ inv \in Invocation /\ inv.phase = "store" /\ inv.outcome = outcome
      /\ inv.run = worker[w].run /\ inv.unit = worker[w].unit
  <2>1. outcome \in UnitStates /\ worker[w].phase # "idle" /\ worker[w] \in Invocation
    BY <1>1 DEF CallProvider, IInv, UnitStates
  <2> QED
    BY <2>1, BusyWorker DEF Invocation
<1>3. worker' = [worker EXCEPT ![w] = inv]
  BY DEF CallProvider, IInv
<1>4. Started' = Started /\ outcome \notin {"none", "ABSENT", "TO_READ"}
  BY <1>1 DEF CallProvider, Started, Terminal
<1> HIDE DEF inv
<1>5. ASSUME NEW v \in Workers PROVE WorkerOK(v)'
  <2>1. CASE v = w
    <3>1. WorkerOK(w) /\ worker[w].phase = "ocr" /\ run' = run
      BY DEF CallProvider, IInv
    <3>2. worker'[w] = inv
      BY <1>3 DEF IInv
    <3> QED
      BY <1>2, <1>4, <2>1, <3>1, <3>2 DEF WorkerOK
  <2>2. CASE v # w
    BY <1>3, <1>4, <2>2 DEF CallProvider, IInv, WorkerOK
  <2> QED
    BY <2>1, <2>2
<1> QED
  BY <1>2, <1>3, <1>4, <1>5 DEF CallProvider, IInv, RowOK, OneCurrentRun, CurrentRuns

\* The document after a publication keeps its generation and its types.
LEMMA AggregatedType ==
  ASSUME document \in DocumentType, NEW runs
  PROVE  Aggregated(runs) \in DocumentType /\ Aggregated(runs).generation = document.generation
<1> DEFINE text     == {p \in Pages : \E r \in CurrentRuns(runs) : r[1] = p[1] /\ runs[r].unit[p[2]].text}
           complete == \A r \in CurrentRuns(runs) : runs[r].state = "COMPLETE"
           read     == [document EXCEPT !.text = IF complete /\ text # {} THEN text ELSE @ \cup text]
<1>1. text \in SUBSET Pages
  OBVIOUS
<1>2. Aggregated(runs) = IF PendingWork(runs) THEN [read EXCEPT !.status = "PENDING"]
                         ELSE IF AllFilesRead(runs) THEN [read EXCEPT !.status = "DONE", !.failed = FALSE]
                         ELSE Retained(read)
  BY DEF Aggregated
<1> HIDE DEF text, complete
<1>3. read \in DocumentType /\ read.generation = document.generation
  BY <1>1 DEF DocumentType
<1> HIDE DEF read
<1> QED
  BY <1>2, <1>3 DEF DocumentType, Retained

\* After a publication the published run is the only current one of its file.
LEMMA PublishedCurrent ==
  ASSUME run \in [Runs -> Run], NEW r \in Runs, NEW state, NEW units
  PROVE  CurrentRuns(Published(r, state, units)) = {q \in CurrentRuns(run) : q[1] # r[1]} \cup {r}
<1>1. Published(r, state, units)[r].current
  BY DEF Published, Release, Run
<1>2. \A q \in Runs \ {r} : Published(r, state, units)[q].current <=> run[q].current /\ q[1] # r[1]
  BY DEF Published, Run
<1> QED
  BY <1>1, <1>2 DEF CurrentRuns

\* Publishing the run a worker holds, after which the worker is idle.
LEMMA PublishKeeps ==
  ASSUME IInv, NEW w \in Workers, worker[w].phase # "idle",
         run[worker[w].run].lease = w,
         NEW state \in {"PENDING", "RETRY_WAIT"} \cup Terminal, NEW units, UnitsOK(units),
         Publish(worker[w].run, state, units), Stop(w), UNCHANGED <<permitted, recovery>>
  PROVE  IInv'
<1> DEFINE r == worker[w].run
<1>1. r \in Started /\ r \in Runs /\ RowOK(run[r]) /\ run[r].lease = w
  BY DEF IInv, WorkerOK, Started
<1>2. run' = Published(r, state, units) /\ document' = Aggregated(run')
  BY DEF Publish
<1>3. document' \in DocumentType /\ document'.generation = document.generation /\ Started' = Started
  BY <1>2, AggregatedType DEF IInv, Started
<1>4. queue' \subseteq Started
  BY <1>1 DEF Publish, Enqueue, IInv
<1>5. worker' \in [Workers -> Invocation] /\ \A v \in Workers : worker'[v] = worker[v] \/ worker'[v] = Idle
  BY DEF Stop, IInv, Invocation
<1> HIDE DEF r
<1>6. run'[r] \in Run /\ RowOK(run'[r]) /\ run'[r].lease = NoWorker
  <2>1. run'[r] = [Release(run[r]) EXCEPT !.state = state, !.unit = units,
                            !.waiting = state = "RETRY_WAIT", !.current = TRUE]
    BY <1>1, <1>2 DEF Published
  <2>2. state # "RUNNING" /\ run[r].interruptions < MaxInterruptions
    BY <1>1, ExtractionAssumption DEF RowOK, Terminal
  <2> QED
    BY <1>1, <2>1, <2>2 DEF RowOK, Run, Release, UnitsOK, Open, Terminal
<1>7. \A q \in Runs \ {r} : run'[q] = run[q] \/ run'[q] = [run[q] EXCEPT !.current = FALSE]
  BY <1>2 DEF Published
<1>8. ASSUME NEW q \in Runs \ {r}
      PROVE  RowOK(run'[q]) /\ run'[q].lease = run[q].lease /\ run'[q].unit = run[q].unit
  <2>1. RowOK(run[q])
    BY DEF IInv
  <2>2. CASE run'[q] = [run[q] EXCEPT !.current = FALSE]
    BY <2>1, <2>2 DEF RowOK, Run
  <2> QED
    BY <1>7, <2>1, <2>2
<1>9. run' \in [Runs -> Run] /\ \A q \in Runs : RowOK(run'[q])
  BY <1>2, <1>6, <1>8 DEF RowOK, Published
<1>10. \A v \in Workers : WorkerOK(v)'
  BY <1>3, <1>5, <1>6, <1>8, WorkersKept DEF Started
<1>11. OneCurrentRun'
  BY <1>1, <1>2, PublishedCurrent DEF IInv, OneCurrentRun
<1>12. \A q \in Runs \ Started : run'[q] = AbsentRun
  <2>1. [AbsentRun EXCEPT !.current = FALSE] = AbsentRun
    <3>1. ~AbsentRun.current
      BY DEF AbsentRun
    <3> QED
      BY <3>1, AbsentRowOK DEF Run
  <2> QED
    BY <1>1, <1>7, <2>1 DEF IInv
<1> QED
  BY <1>3, <1>4, <1>5, <1>9, <1>10, <1>11, <1>12 DEF IInv

LEMMA ReadFailsKeeps == IInv /\ (\E w \in Workers : ReadFails(w)) => IInv'
<1> SUFFICES ASSUME IInv, NEW w \in Workers, ReadFails(w) PROVE IInv'
  OBVIOUS
<1> DEFINE r == worker[w].run
<1>1. CASE Eligible(r) /\ HoldsLease(w, r)
  <2>1. run[r].lease = w /\ Publish(r, "FAILED", run[r].unit)
    BY <1>1 DEF ReadFails, HoldsLease
  <2>2. UnitsOK(run[r].unit)
    BY DEF ReadFails, IInv, WorkerOK, Started, UnitsOK, RowOK, Run
  <2>3. "FAILED" \in {"PENDING", "RETRY_WAIT"} \cup Terminal
    BY DEF Terminal
  <2> QED
    BY <2>1, <2>2, <2>3, PublishKeeps DEF ReadFails
<1>2. CASE ~(Eligible(r) /\ HoldsLease(w, r))
  BY <1>2, RowsUntouched DEF ReadFails, Stop, IInv, Invocation
<1> QED
  BY <1>1, <1>2

\* A run never becomes RUNNING by publication.
LEMMA NextStateType ==
  ASSUME NEW units, UnitsOK(units)
  PROVE  NextState(units) \in {"PENDING", "RETRY_WAIT"} \cup Terminal
  BY DEF NextState, Terminal

LEMMA StoreKeeps == IInv /\ (\E w \in Workers : Store(w)) => IInv'
<1> SUFFICES ASSUME IInv, NEW w \in Workers, Store(w) PROVE IInv'
  OBVIOUS
<1> DEFINE r     == worker[w].run
           units == StoredUnits(w, r)
<1>1. /\ run[r].lease = w /\ worker[w].phase = "store" /\ r \in Runs
      /\ Publish(r, NextState(units), units) /\ Stop(w) /\ UNCHANGED <<permitted, recovery>>
  BY DEF Store, HoldsLease, IInv, WorkerOK, Started
<1>2. RowOK(run[r]) /\ run[r].unit \in [Units -> UnitRow]
  BY <1>1 DEF IInv, RowOK, Run
<1>3. UnitsOK(units)
  <2>1. ASSUME NEW u \in worker[w].unit
        PROVE  /\ u \in Units
               /\ run[r].unit[u].state \in {"TO_READ", "RETRY_WAIT"}
               /\ Accepted(worker[w].outcome) \in {"RETRY_WAIT"} \cup Terminal
    <3>1. worker[w] \in [phase: {"read", "ocr", "store"}, run: Runs,
                         unit: SUBSET Units, outcome: {"none"} \cup UnitStates]
      BY <1>1, BusyWorker DEF IInv
    <3>2. worker[w].outcome \notin {"none", "ABSENT", "TO_READ"}
      BY <1>1 DEF IInv, WorkerOK
    <3>3. worker[w].outcome \in {"RETRY_WAIT"} \cup Terminal
      BY <3>1, <3>2 DEF UnitStates
    <3> QED
      BY <1>1, <3>1, <3>3 DEF IInv, WorkerOK, Accepted, Terminal
  <2>2. ASSUME NEW unit \in UnitRow, unit.attempts < MaxAttempts,
               NEW o \in {"RETRY_WAIT"} \cup Terminal
        PROVE  /\ Answered(unit, o) \in UnitRow
               /\ Answered(unit, o).state \in {"TO_READ", "RETRY_WAIT"}
                    => Answered(unit, o).attempts < MaxAttempts
    BY <2>2, ExtractionAssumption DEF Answered, UnitRow, UnitStates, Terminal
  <2>3. \A u \in Units : run[r].unit[u] \in UnitRow
            /\ (run[r].unit[u].state \in {"TO_READ", "RETRY_WAIT"} => run[r].unit[u].attempts < MaxAttempts)
    BY <1>2 DEF RowOK
  <2>4. \A u \in Units : units[u] = IF u \in worker[w].unit
                                    THEN Answered(run[r].unit[u], Accepted(worker[w].outcome))
                                    ELSE run[r].unit[u]
    BY DEF StoredUnits
  <2>5. units = [u \in Units |-> units[u]]
    BY DEF StoredUnits
  <2> HIDE DEF units, r
  <2>6. \A u \in Units : units[u] \in UnitRow
            /\ (units[u].state \in {"TO_READ", "RETRY_WAIT"} => units[u].attempts < MaxAttempts)
    BY <2>1, <2>2, <2>3, <2>4
  <2> QED
    BY <2>5, <2>6 DEF UnitsOK
<1>4. NextState(units) \in {"PENDING", "RETRY_WAIT"} \cup Terminal
  <2> HIDE DEF units
  <2> QED
    BY <1>3, NextStateType
<1> QED
  BY <1>1, <1>3, <1>4, PublishKeeps

-----------------------------------------------------------------------------
(* What is published *)

\* A publication under _eligible replaces the file's current run by one of the
\* document's generation.
LEMMA PublishMovesForward ==
  ASSUME IInv, NEW p \in Runs, Eligible(p), NEW state, NEW units, Publish(p, state, units)
  PROVE  \A q \in CurrentRuns(run), r \in CurrentRuns(run') : q[1] = r[1] => q[2] <= r[2]
<1>1. CurrentRuns(run') = {q \in CurrentRuns(run) : q[1] # p[1]} \cup {p}
  BY PublishedCurrent DEF Publish, IInv
<1>2. p[2] = document.generation
  BY DEF Eligible
<1>3. \A q \in CurrentRuns(run) : q \in Runs /\ q[2] \in Nat /\ q[2] <= document.generation
  BY RunType DEF IInv, CurrentRuns, Started, AbsentRun
<1>4. \A q, r \in CurrentRuns(run) : q[1] = r[1] => q = r
  BY DEF IInv, OneCurrentRun
<1> QED
  BY <1>1, <1>2, <1>3, <1>4

\* Most steps write neither what is published nor what has been read.
RowsAlike == \A q \in Runs : run'[q].current = run[q].current /\ run'[q].unit = run[q].unit

LEMMA OthersKeepRows ==
  ASSUME IInv, [Next]_vars, ~Request,
         ~\E w \in Workers : Store(w) \/ ReadFails(w),
         ~\E w \in Workers, native \in [Units -> NativeOutcomes] : SaveNative(w, native)
  PROVE  RowsAlike
<1> USE DEF IInv, RowsAlike
<1>1. CASE UNCHANGED vars
  BY <1>1 DEF vars
<1>2. ASSUME NEW p \in Runs, Blocked(p) PROVE RowsAlike
  BY <1>2 DEF Blocked, Release, Run
<1>3. ASSUME NEW r \in Runs, DeliverBlocked(r) \/ DeliverNothing(r)
      PROVE  RowsAlike
  BY <1>2, <1>3 DEF DeliverBlocked, DeliverNothing
<1>4. ASSUME NEW w \in Workers, NEW r \in Runs, Claim(w, r)
      PROVE  RowsAlike
  BY <1>4 DEF Claim, Run
<1>5. ASSUME NEW w \in Workers, NEW o, CallProvider(w, o) \/ Killed(w)
      PROVE  RowsAlike
  BY <1>5 DEF CallProvider, Killed
<1>6. ASSUME NEW w \in Workers, Changed(w) PROVE RowsAlike
  <2>1. worker[w].run \in Runs
    BY <1>6 DEF Changed, WorkerOK, Started
  <2> QED
    BY <1>2, <1>6, <2>1 DEF Changed, Withdraw
<1>7. ASSUME NEW w \in Workers, Interrupted(w) PROVE RowsAlike
  <2> DEFINE p == worker[w].run
  <2>1. CASE run[p].lease = w /\ document.generation = p[2]
    <3>1. p \in Runs
      BY <1>7 DEF Interrupted, WorkerOK, Started
    <3>2. PICK s, n : run' = [run EXCEPT ![p] = [Release(run[p]) EXCEPT
                                  !.interruptions = n, !.waiting = TRUE, !.state = s]]
      BY <1>7, <2>1 DEF Interrupted
    <3> QED
      BY <3>1, <3>2 DEF Release, Run
  <2>2. CASE UNCHANGED run
    BY <2>2
  <2> QED
    BY <1>7, <2>1, <2>2 DEF Interrupted
<1>8. CASE Recover
  <2>1. CASE RecoverStart
    BY <2>1 DEF RecoverStart
  <2>2. ASSUME NEW p \in Runs, RecoverOne(p)
        PROVE  RowsAlike
    <3> DEFINE times == run[p].interruptions + IF run[p].state = "RUNNING" THEN 1 ELSE 0
    <3> HIDE DEF times
    <3>1. CASE run' = [run EXCEPT ![p] = [Release(run[p]) EXCEPT
                            !.state = "ACTION_REQUIRED", !.interruptions = times]]
      BY <3>1 DEF Release, Run
    <3>2. CASE run' = [run EXCEPT ![p] = [Release(run[p]) EXCEPT
                            !.state = "PENDING", !.waiting = FALSE, !.interruptions = times]]
      BY <3>2 DEF Release, Run
    <3> QED
      BY <1>2, <2>2, <3>1, <3>2 DEF RecoverOne, times
  <2> QED
    BY <1>8, <2>1, <2>2 DEF Recover
<1>9. CASE Surroundings
  <2>1. ASSUME NEW p \in Runs, LeaseExpires(p) PROVE RowsAlike
    BY <2>1 DEF LeaseExpires, Run
  <2>2. ASSUME NEW p \in Runs, WaitPasses(p) PROVE RowsAlike
    BY <2>2 DEF WaitPasses, Run
  <2>3. CASE PermissionChanges \/ ConsentChanges
    BY <2>3 DEF PermissionChanges, ConsentChanges
  <2> QED
    BY <1>9, <2>1, <2>2, <2>3 DEF Surroundings
<1>10. CASE Process
  BY <1>3, <1>4, <1>5, <1>6, <1>7, <1>10 DEF Process
<1> QED
  BY <1>1, <1>8, <1>9, <1>10 DEF Next

\* No step but a publication publishes or withdraws a run.
LEMMA OthersKeepCurrent ==
  ASSUME IInv, [Next]_vars, ~\E w \in Workers : Store(w) \/ ReadFails(w)
  PROVE  CurrentRuns(run') = CurrentRuns(run)
<1> SUFFICES \A q \in Runs : run'[q].current = run[q].current
  BY DEF CurrentRuns
<1> USE DEF IInv
<1>1. ASSUME NEW w \in Workers, NEW native \in [Units -> NativeOutcomes], SaveNative(w, native)
      PROVE  \A q \in Runs : run'[q].current = run[q].current
  <2>1. PICK units : run' = [run EXCEPT ![worker[w].run].unit = units]
    BY <1>1 DEF SaveNative
  <2> QED
    BY <2>1 DEF Run
<1>2. CASE Request
  <2>1. \A q \in Runs : q[2] = document.generation + 1 => ~run[q].current
    BY ExtractionAssumption DEF Started, AbsentRun, DocumentType, Generations
  <2>2. ~NewRun.current /\ \A q \in Runs : run[q].current \in BOOLEAN
    BY DEF NewRun, AbsentRun, Run
  <2>3. NewRun.current = FALSE /\ \A q \in Runs : q[2] = document.generation + 1 => run[q].current = FALSE
    BY <2>1, <2>2, AbsentRowOK DEF Run
  <2> QED
    BY <1>2, <2>3 DEF Request
<1> QED
  BY <1>1, <1>2, OthersKeepRows DEF RowsAlike

\* The step that stores what was read changes only units still to be read.
LEMMA SaveNativeKeepsRead ==
  ASSUME IInv, NEW w \in Workers, NEW native \in [Units -> NativeOutcomes], SaveNative(w, native)
  PROVE  \A q \in Runs, u \in Units : run[q].unit[u].state = "COMPLETE" => run'[q].unit[u] = run[q].unit[u]
<1> DEFINE r     == worker[w].run
           units == NativeUnits(r, native)
           todo  == Candidates(units)
           shut(open) == [u \in Units |-> IF u \in todo \ open
                                          THEN [units[u] EXCEPT !.state = "BLOCKED"] ELSE units[u]]
<1>1. r \in Runs
  BY DEF SaveNative, IInv, WorkerOK, Started
<1>2. \A u \in Units : run[r].unit[u].state = "COMPLETE" =>
         units[u] = run[r].unit[u] /\ u \notin todo
  BY DEF NativeUnits, Candidates
<1> HIDE DEF units, todo
<1>3. ASSUME NEW open
      PROVE  \A u \in Units : run[r].unit[u].state = "COMPLETE" => shut(open)[u] = run[r].unit[u]
  BY <1>2
<1> HIDE DEF shut
<1>4. \/ run' = [run EXCEPT ![r].unit = units]
      \/ \E open : run' = [run EXCEPT ![r].unit = shut(open)]
  BY DEF SaveNative, units, todo, shut
<1> HIDE DEF r
<1>5. ASSUME NEW new, run' = [run EXCEPT ![r].unit = new],
             \A u \in Units : run[r].unit[u].state = "COMPLETE" => new[u] = run[r].unit[u]
      PROVE  \A q \in Runs, u \in Units : run[q].unit[u].state = "COMPLETE" => run'[q].unit[u] = run[q].unit[u]
  BY <1>1, <1>5 DEF IInv, Run
<1>6. CASE run' = [run EXCEPT ![r].unit = units]
  BY <1>2, <1>5, <1>6
<1>7. ASSUME NEW open, run' = [run EXCEPT ![r].unit = shut(open)]
      PROVE  \A q \in Runs, u \in Units : run[q].unit[u].state = "COMPLETE" => run'[q].unit[u] = run[q].unit[u]
  <2>1. \A u \in Units : run[r].unit[u].state = "COMPLETE" => shut(open)[u] = run[r].unit[u]
    BY <1>3
  <2> QED
    BY <1>5, <1>7, <2>1
<1> QED
  BY <1>4, <1>6, <1>7

LEMMA StoreKeepsRead ==
  ASSUME IInv, NEW w \in Workers, Store(w) \/ ReadFails(w)
  PROVE  \A q \in Runs, u \in Units : run[q].unit[u].state = "COMPLETE" => run'[q].unit[u] = run[q].unit[u]
<1> DEFINE r == worker[w].run
<1>1. r \in Runs
  BY DEF Store, ReadFails, IInv, WorkerOK, Started
<1>2. CASE UNCHANGED run
  BY <1>2
<1>3. ASSUME NEW state, NEW units, run' = Published(r, state, units),
             \A u \in Units : run[r].unit[u].state = "COMPLETE" => units[u] = run[r].unit[u]
      PROVE  \A q \in Runs, u \in Units : run[q].unit[u].state = "COMPLETE" => run'[q].unit[u] = run[q].unit[u]
  <2> HIDE DEF r
  <2> QED
    BY <1>1, <1>3 DEF IInv, Run, Published, Release
<1>4. CASE Store(w)
  <2>1. run' = Published(r, NextState(StoredUnits(w, r)), StoredUnits(w, r))
    BY <1>4 DEF Store, Publish
  <2>2. \A u \in Units : run[r].unit[u].state = "COMPLETE" => u \notin worker[w].unit
    BY <1>4 DEF Store, HoldsLease, IInv, WorkerOK
  <2>3. \A u \in Units : run[r].unit[u].state = "COMPLETE" => StoredUnits(w, r)[u] = run[r].unit[u]
    BY <2>2 DEF StoredUnits
  <2> QED
    BY <1>3, <2>1, <2>3
<1>5. CASE ReadFails(w) /\ ~UNCHANGED run
  <2>1. run' = Published(r, "FAILED", run[r].unit)
    BY <1>5 DEF ReadFails, Publish
  <2> QED
    BY <1>3, <2>1
<1> QED
  BY <1>2, <1>4, <1>5

-----------------------------------------------------------------------------
(* Theorems *)

LEMMA NextKeeps == IInv /\ [Next]_vars => IInv'
<1> SUFFICES ASSUME IInv, [Next]_vars PROVE IInv'
  OBVIOUS
<1>1. CASE UNCHANGED vars
  BY <1>1, RowsUntouched DEF vars, IInv
<1>2. CASE Process
  BY <1>2, DeliverBlockedKeeps, DeliverNothingKeeps, ClaimKeeps, SaveNativeKeeps, CallProviderKeeps,
     StoreKeeps, ChangedKeeps, ReadFailsKeeps, InterruptedKeeps, KilledKeeps
  DEF Process
<1>3. CASE Recover
  BY <1>3, RecoverStartKeeps, RecoverOneKeeps DEF Recover
<1>4. CASE Surroundings
  BY <1>4, LeaseExpiresKeeps, WaitPassesKeeps, PermissionKeeps, ConsentKeeps DEF Surroundings
<1>5. CASE Request
  BY <1>5, RequestKeeps
<1> QED
  BY <1>1, <1>2, <1>3, <1>4, <1>5 DEF Next

THEOREM Inductive == Spec => []IInv
  BY InitKeeps, NextKeeps, PTL DEF Spec

\* The rows of extraction keep the shape of the schema, a run is leased exactly
\* while it runs, and neither interruptions nor OCR attempts pass their budget.
THEOREM TypeCorrect == Spec => []TypeOK
<1>1. IInv => TypeOK
  BY RunType DEF IInv, TypeOK, DocumentType, RowOK, Started
<1> QED
  BY <1>1, Inductive, PTL

\* _publish leaves a file with one published run, whatever the interleaving.
THEOREM OneCurrentRunAlways == Spec => []OneCurrentRun
<1>1. IInv => OneCurrentRun
  BY DEF IInv
<1> QED
  BY <1>1, Inductive, PTL

\* A retry requested while an older generation is read is not undone by it: only
\* _publish changes what is current, and _eligible lets it move forward only.
LEMMA CurrentMovesForward == IInv /\ [Next]_vars => CurrentNeverGoesBack
<1> SUFFICES ASSUME IInv, [Next]_vars
             PROVE  \A q \in CurrentRuns(run), r \in CurrentRuns(run') : q[1] = r[1] => q[2] <= r[2]
  BY DEF CurrentRuns, CurrentNeverGoesBack
<1>1. ASSUME NEW w \in Workers, Store(w) \/ ReadFails(w), ~UNCHANGED run
      PROVE  \A q \in CurrentRuns(run), r \in CurrentRuns(run') : q[1] = r[1] => q[2] <= r[2]
  <2>1. worker[w].run \in Runs
    BY <1>1 DEF Store, ReadFails, IInv, WorkerOK, Started
  <2>2. Eligible(worker[w].run) /\ \E state, units : Publish(worker[w].run, state, units)
    BY <1>1 DEF Store, ReadFails
  <2> QED
    BY <2>1, <2>2, PublishMovesForward
<1>2. ASSUME CurrentRuns(run') = CurrentRuns(run)
      PROVE  \A q \in CurrentRuns(run), r \in CurrentRuns(run') : q[1] = r[1] => q[2] <= r[2]
  BY <1>2, RunType DEF IInv, OneCurrentRun, CurrentRuns
<1>3. CASE UNCHANGED run
  BY <1>2, <1>3 DEF CurrentRuns
<1> QED
  BY <1>1, <1>2, <1>3, OthersKeepCurrent

\* The lease keeps a worker that lost its run from undoing what its successor
\* has read: no step changes a unit that is complete.
LEMMA CompletedStay == IInv /\ [Next]_vars => CompletedUnitsStay
<1> SUFFICES ASSUME IInv, [Next]_vars, NEW r \in Runs, NEW u \in Units,
                    run[r].unit[u].state = "COMPLETE"
             PROVE  run'[r].unit[u].state = "COMPLETE"
  BY DEF CompletedUnitsStay
<1>1. CASE Request
  <2>1. r \in Started
    BY DEF IInv, AbsentRun
  <2>2. r[2] # document.generation + 1
    BY <2>1, RunType, ExtractionAssumption DEF Started, IInv, DocumentType, Generations
  <2> QED
    BY <1>1, <2>2 DEF Request
<1>2. CASE \E w \in Workers : Store(w) \/ ReadFails(w)
  BY <1>2, StoreKeepsRead
<1>3. CASE \E w \in Workers, native \in [Units -> NativeOutcomes] : SaveNative(w, native)
  BY <1>3, SaveNativeKeepsRead
<1> QED
  BY <1>1, <1>2, <1>3, OthersKeepRows DEF RowsAlike

\* Reading moves forward: neither an older generation nor a worker that lost its
\* lease takes anything back.
THEOREM ReadingForward == Spec => ReadingMovesForward
<1>1. IInv /\ [Next]_vars => [CurrentNeverGoesBack /\ CompletedUnitsStay]_vars
  BY CurrentMovesForward, CompletedStay
<1> QED
  BY <1>1, Inductive, PTL DEF ReadingMovesForward, Spec

-----------------------------------------------------------------------------
(* What the document says about its reading *)

\* A run that may still be read, or that recovery gave up.
HasWork(row) == row.state \in Open \/ row.interruptions = MaxInterruptions

\* A step that leaves work where it was, or shows the document as not being read.
LEMMA WorkStays ==
  ASSUME BusyMeansWork, document'.generation = document.generation,
         \A q \in GenerationRuns : HasWork(run[q]) => HasWork(run'[q]),
         document'.status \in {"PENDING", "RUNNING"} => document.status \in {"PENDING", "RUNNING"}
  PROVE  BusyMeansWork'
  BY DEF BusyMeansWork, GenerationRuns, HasWork

LEMMA BlockedShows ==
  ASSUME IInv, BusyMeansWork, NEW p \in Runs, Blocked(p)
  PROVE  BusyMeansWork'
<1>1. document.generation = document'.generation /\ \A q \in Runs \ {p} : run'[q] = run[q]
  BY DEF Blocked, IInv, DocumentType
<1>2. CASE p[2] = document.generation
  <2>1. document'.status = "SKIPPED"
    BY <1>2 DEF Blocked, IInv, DocumentType
  <2> QED
    BY <2>1 DEF BusyMeansWork
<1>3. CASE p[2] # document.generation
  <2>1. document' = document /\ \A q \in GenerationRuns : run'[q] = run[q]
    BY <1>1, <1>3 DEF Blocked, GenerationRuns
  <2> QED
    BY <2>1, WorkStays
<1> QED
  BY <1>2, <1>3

LEMMA PublishShows ==
  ASSUME IInv, NEW p \in Runs, NEW state, NEW units, Publish(p, state, units)
  PROVE  /\ BusyMeansWork'
         /\ document'.status = "DONE" => ~PendingWork(run') /\ AllFilesRead(run')
<1> DEFINE text     == {q \in Pages : \E r \in CurrentRuns(run') : r[1] = q[1] /\ run'[r].unit[q[2]].text}
           complete == \A r \in CurrentRuns(run') : run'[r].state = "COMPLETE"
           read     == [document EXCEPT !.text = IF complete /\ text # {} THEN text ELSE @ \cup text]
<1>1. document' = IF PendingWork(run') THEN [read EXCEPT !.status = "PENDING"]
                  ELSE IF AllFilesRead(run') THEN [read EXCEPT !.status = "DONE", !.failed = FALSE]
                  ELSE Retained(read)
  BY DEF Publish, Aggregated
<1> HIDE DEF text, complete
<1>2. read.generation = document.generation
  BY DEF IInv, DocumentType
<1>3. read \in [generation: {read.generation}, status: {read.status}, failed: {read.failed},
                text: {read.text}, external: {read.external}]
  BY DEF IInv, DocumentType
<1> HIDE DEF read
<1>4. CASE PendingWork(run')
  <2>1. document'.status = "PENDING" /\ document'.generation = document.generation
    BY <1>1, <1>2, <1>3, <1>4
  <2> QED
    BY <1>4, <2>1 DEF PendingWork, GenerationRuns, BusyMeansWork
<1>5. CASE ~PendingWork(run') /\ AllFilesRead(run')
  <2>1. document'.status = "DONE"
    BY <1>1, <1>3, <1>5
  <2> QED
    BY <1>5, <2>1 DEF BusyMeansWork
<1>6. CASE ~PendingWork(run') /\ ~AllFilesRead(run')
  <2>1. document'.status = "FAILED"
    BY <1>1, <1>3, <1>6 DEF Retained
  <2> QED
    BY <2>1 DEF BusyMeansWork
<1> QED
  BY <1>4, <1>5, <1>6

\* A step that rewrites one run and leaves the document to its readers.
LEMMA OneRunShows ==
  ASSUME IInv, BusyMeansWork, NEW p \in Runs, NEW row, run' = [run EXCEPT ![p] = row],
         document'.generation = document.generation,
         HasWork(row),
         document'.status \in {"PENDING", "RUNNING"} =>
            document.status \in {"PENDING", "RUNNING"} \/ p \in GenerationRuns
  PROVE  BusyMeansWork'
<1>1. run'[p] = row /\ \A q \in Runs \ {p} : run'[q] = run[q]
  BY DEF IInv
<1>2. \A q \in GenerationRuns : HasWork(run[q]) => HasWork(run'[q])
  BY <1>1 DEF GenerationRuns
<1>3. CASE p \in GenerationRuns
  BY <1>1, <1>3 DEF BusyMeansWork, GenerationRuns, HasWork
<1>4. CASE p \notin GenerationRuns
  BY <1>2, <1>4, WorkStays
<1> QED
  BY <1>3, <1>4

LEMMA ProcessShows == IInv /\ BusyMeansWork /\ Process => BusyMeansWork'
<1> SUFFICES ASSUME IInv, BusyMeansWork, Process PROVE BusyMeansWork'
  OBVIOUS
<1>0. /\ document \in DocumentType /\ \A q \in Runs : run[q] \in Run
      /\ \A w \in Workers : worker[w].phase # "idle" => worker[w].run \in Runs
  BY DEF IInv, WorkerOK, Started
<1>1. ASSUME NEW r \in Runs, DeliverBlocked(r) \/ DeliverNothing(r) PROVE BusyMeansWork'
  <2>1. CASE DeliverBlocked(r)
    BY <2>1, BlockedShows DEF DeliverBlocked
  <2>2. CASE DeliverNothing(r)
    BY <2>2, WorkStays DEF DeliverNothing
  <2> QED
    BY <1>1, <2>1, <2>2
<1>2. ASSUME NEW w \in Workers, NEW r \in Runs, Claim(w, r) PROVE BusyMeansWork'
  <2> DEFINE row == [run[r] EXCEPT !.state = "RUNNING", !.lease = w, !.expired = FALSE]
  <2>1. run' = [run EXCEPT ![r] = row] /\ row.state = "RUNNING"
    BY <1>0, <1>2 DEF Claim, IInv, Run
  <2>2. document'.generation = document.generation /\ r \in GenerationRuns
    BY <1>0, <1>2 DEF Claim, Eligible, GenerationRuns, DocumentType
  <2> HIDE DEF row
  <2> QED
    BY <2>1, <2>2, OneRunShows DEF HasWork, Open
<1>3. ASSUME NEW w \in Workers, NEW native \in [Units -> NativeOutcomes], SaveNative(w, native)
      PROVE  BusyMeansWork'
  <2>1. PICK units : run' = [run EXCEPT ![worker[w].run].unit = units]
    BY <1>3 DEF SaveNative
  <2>2. \A q \in Runs : run'[q].state = run[q].state /\ run'[q].interruptions = run[q].interruptions
    BY <1>0, <2>1 DEF IInv, Run
  <2>3. document' = document
    BY <1>3 DEF SaveNative
  <2> QED
    BY <2>2, <2>3, WorkStays DEF HasWork, GenerationRuns
<1>4. ASSUME NEW w \in Workers, NEW o, CallProvider(w, o) \/ Killed(w) PROVE BusyMeansWork'
  BY <1>4, WorkStays DEF CallProvider, Killed
<1>5. ASSUME NEW w \in Workers, Store(w) \/ ReadFails(w) PROVE BusyMeansWork'
  <2>1. worker[w].run \in Runs
    BY <1>0, <1>5 DEF Store, ReadFails
  <2>2. CASE \E state, units : Publish(worker[w].run, state, units)
    BY <2>1, <2>2, PublishShows
  <2>3. CASE UNCHANGED <<run, document>>
    BY <2>3, WorkStays
  <2> QED
    BY <1>5, <2>2, <2>3 DEF Store, ReadFails
<1>6. ASSUME NEW w \in Workers, Changed(w) PROVE BusyMeansWork'
  <2>1. worker[w].run \in Runs
    BY <1>0, <1>6 DEF Changed
  <2> QED
    BY <1>6, <2>1, BlockedShows, WorkStays DEF Changed, Withdraw
<1>7. ASSUME NEW w \in Workers, Interrupted(w) PROVE BusyMeansWork'
  <2>1. CASE document' = Retained(document)
    <3>1. document'.status = "FAILED"
      BY <1>0, <2>1 DEF Retained, DocumentType
    <3> QED
      BY <3>1 DEF BusyMeansWork
  <2>2. CASE UNCHANGED <<run, document>>
    BY <2>2, WorkStays
  <2> QED
    BY <1>7, <2>1, <2>2 DEF Interrupted
<1> QED
  BY <1>1, <1>2, <1>3, <1>4, <1>5, <1>6, <1>7 DEF Process

LEMMA RecoverShows == IInv /\ BusyMeansWork /\ Recover => BusyMeansWork'
<1> SUFFICES ASSUME IInv, BusyMeansWork, Recover PROVE BusyMeansWork'
  OBVIOUS
<1>1. CASE RecoverStart
  BY <1>1, WorkStays DEF RecoverStart
<1>2. ASSUME NEW p \in Runs, RecoverOne(p) PROVE BusyMeansWork'
  <2> DEFINE times == run[p].interruptions + IF run[p].state = "RUNNING" THEN 1 ELSE 0
             given == [Release(run[p]) EXCEPT !.state = "ACTION_REQUIRED", !.interruptions = times]
             again == [Release(run[p]) EXCEPT !.state = "PENDING", !.waiting = FALSE,
                                              !.interruptions = times]
  <2>1. RowOK(run[p]) /\ run[p] \in Run
    BY DEF IInv, RowOK
  <2>2. times \in 0..MaxInterruptions
    BY <2>1, ExtractionAssumption DEF RowOK, Run, Open, Terminal
  <2>3. given.interruptions = times /\ again.state = "PENDING"
    <3> HIDE DEF times
    <3> QED
      BY <2>1 DEF Release, Run
  <2>4. CASE Blocked(p)
    BY <2>4, BlockedShows
  <2>5. CASE times >= MaxInterruptions /\ run' = [run EXCEPT ![p] = given] /\ document' = document
    <3>1. HasWork(given)
      <4>1. times = MaxInterruptions
        BY <2>2, <2>5, ExtractionAssumption
      <4> HIDE DEF given, times
      <4> QED
        BY <2>3, <4>1 DEF HasWork
    <3> HIDE DEF given
    <3> QED
      BY <2>5, <3>1, OneRunShows
  <2>6. CASE run' = [run EXCEPT ![p] = again] /\ document' = document
    <3>1. HasWork(again)
      BY <2>3 DEF HasWork, Open
    <3> HIDE DEF again
    <3> QED
      BY <2>6, <3>1, OneRunShows
  <2> QED
    BY <1>2, <2>4, <2>5, <2>6 DEF RecoverOne
<1> QED
  BY <1>1, <1>2 DEF Recover

LEMMA OthersShow == IInv /\ BusyMeansWork /\ (Request \/ Surroundings \/ UNCHANGED vars) => BusyMeansWork'
<1> SUFFICES ASSUME IInv, BusyMeansWork, Request \/ Surroundings \/ UNCHANGED vars PROVE BusyMeansWork'
  OBVIOUS
<1>0. document \in DocumentType /\ \A q \in Runs : run[q] \in Run
  BY DEF IInv
<1>1. CASE Request
  <2>1. PICK f : f \in Files
    BY ExtractionAssumption
  <2>2. document'.generation = document.generation + 1 /\ document.generation + 1 \in Generations
    <3> DEFINE kept == IF document.status = "FAILED" THEN Retained(document) ELSE document
    <3>1. kept \in DocumentType /\ kept.generation = document.generation
      BY <1>0 DEF DocumentType, Retained
    <3>2. document' = [kept EXCEPT !.generation = @ + 1, !.status = "PENDING"]
      BY <1>1 DEF Request
    <3>3. document.generation \in Nat /\ document.generation < MaxGeneration
      BY <1>0, <1>1, ExtractionAssumption DEF DocumentType, Generations, Request
    <3> HIDE DEF kept
    <3> QED
      BY <3>1, <3>2, <3>3, ExtractionAssumption DEF DocumentType, Generations
  <2> DEFINE r == <<f, document.generation + 1>>
  <2>3. r \in Runs /\ r[2] = document.generation + 1
    BY <2>1, <2>2 DEF Runs
  <2>4. run'[r] = NewRun /\ NewRun.state \in Open
    BY <1>1, <2>3, AbsentRowOK DEF Request, NewRun, Run, Open
  <2> HIDE DEF r
  <2> QED
    BY <2>2, <2>3, <2>4 DEF BusyMeansWork, GenerationRuns
<1>2. ASSUME NEW p \in Runs, LeaseExpires(p) \/ WaitPasses(p) PROVE BusyMeansWork'
  <2>1. \A q \in Runs : run'[q].state = run[q].state /\ run'[q].interruptions = run[q].interruptions
    BY <1>0, <1>2 DEF LeaseExpires, WaitPasses, IInv, Run
  <2>2. document' = document
    BY <1>2 DEF LeaseExpires, WaitPasses
  <2> QED
    BY <2>1, <2>2, WorkStays DEF HasWork, GenerationRuns
<1>3. CASE PermissionChanges \/ ConsentChanges \/ UNCHANGED vars
  <2>1. document'.generation = document.generation /\ document'.status = document.status /\ run' = run
    BY <1>0, <1>3 DEF PermissionChanges, ConsentChanges, vars, DocumentType
  <2> QED
    BY <2>1, WorkStays
<1> QED
  BY <1>1, <1>2, <1>3 DEF Surroundings

\* A document that is shown as being read has a run of its generation that is still
\* open, or one that the recovery command gave up without a word to the document.
THEOREM BusyAlwaysMeansWork == Spec => []BusyMeansWork
<1>1. Init => BusyMeansWork
  BY DEF Init, BusyMeansWork
<1>2. IInv /\ BusyMeansWork /\ [Next]_vars => BusyMeansWork'
  BY ProcessShows, RecoverShows, OthersShow DEF Next
<1> QED
  BY <1>1, <1>2, Inductive, PTL DEF Spec

UnitsRead(row) == \A u \in Units : row.unit[u].state = "COMPLETE"

\* Only a publication calls a run complete, and then every unit of it is.
LEMMA CompleteIsPublished ==
  ASSUME IInv, [Next]_vars, NEW q \in Runs, run'[q].state = "COMPLETE"
  PROVE  run[q].state = "COMPLETE" \/ UnitsRead(run'[q])
<1>0. /\ \A r \in Runs : run[r] \in Run
      /\ \A w \in Workers : worker[w].phase # "idle" => worker[w].run \in Runs
  BY DEF IInv, WorkerOK, Started
<1>1. ASSUME NEW p \in Runs, NEW row, run' = [run EXCEPT ![p] = row],
             row.state = "COMPLETE" => run[p].state = "COMPLETE"
      PROVE  run[q].state = "COMPLETE"
  BY <1>1 DEF IInv
<1>2. ASSUME NEW p \in Runs, Blocked(p) PROVE run[q].state = "COMPLETE"
  <2> DEFINE row == [Release(run[p]) EXCEPT !.state = "BLOCKED"]
  <2>1. run' = [run EXCEPT ![p] = row] /\ row.state = "BLOCKED"
    BY <1>0, <1>2 DEF Blocked, Release, Run
  <2> HIDE DEF row
  <2> QED
    BY <1>1, <2>1
<1>3. ASSUME NEW p \in Runs, NEW s, NEW units, run' = Published(p, s, units),
             s = "COMPLETE" => \A u \in Units : units[u].state = "COMPLETE"
      PROVE  run[q].state = "COMPLETE" \/ UnitsRead(run'[q])
  <2>1. CASE q = p
    <3>1. run'[q].state = s /\ run'[q].unit = units
      BY <1>0, <1>3, <2>1 DEF Published, Release, Run
    <3> QED
      BY <1>3, <3>1 DEF UnitsRead
  <2>2. CASE q # p
    <3>1. run'[q].state = run[q].state
      BY <1>0, <1>3, <2>2 DEF Published, Run
    <3> QED
      BY <3>1
  <2> QED
    BY <2>1, <2>2
<1>4. CASE run' = run
  BY <1>4
<1>5. ASSUME NEW w \in Workers, NEW r \in Runs, Claim(w, r) PROVE run[q].state = "COMPLETE"
  <2> DEFINE row == [run[r] EXCEPT !.state = "RUNNING", !.lease = w, !.expired = FALSE]
  <2>1. run' = [run EXCEPT ![r] = row] /\ row.state = "RUNNING"
    BY <1>0, <1>5 DEF Claim, IInv, Run
  <2> HIDE DEF row
  <2> QED
    BY <1>1, <2>1
<1>6. ASSUME NEW w \in Workers, NEW native \in [Units -> NativeOutcomes], SaveNative(w, native)
      PROVE  run[q].state = "COMPLETE"
  <2>1. PICK units : run' = [run EXCEPT ![worker[w].run].unit = units]
    BY <1>6 DEF SaveNative
  <2> QED
    BY <1>0, <2>1 DEF IInv, Run
<1>7. ASSUME NEW w \in Workers, Store(w)
      PROVE  run[q].state = "COMPLETE" \/ UnitsRead(run'[q])
  <2> DEFINE r == worker[w].run
             units == StoredUnits(w, r)
  <2>1. r \in Runs /\ run' = Published(r, NextState(units), units)
    BY <1>0, <1>7 DEF Store, Publish
  <2> HIDE DEF units, r
  <2>2. NextState(units) = "COMPLETE" => \A u \in Units : units[u].state = "COMPLETE"
    BY DEF NextState
  <2> QED
    BY <1>3, <2>1, <2>2
<1>8. ASSUME NEW w \in Workers, ReadFails(w)
      PROVE  run[q].state = "COMPLETE" \/ UnitsRead(run'[q])
  <2>1. worker[w].run \in Runs
    BY <1>0, <1>8 DEF ReadFails
  <2>2. \/ run' = run
        \/ run' = Published(worker[w].run, "FAILED", run[worker[w].run].unit)
    BY <1>8 DEF ReadFails, Publish
  <2> QED
    BY <1>3, <1>4, <2>1, <2>2
<1>9. ASSUME NEW w \in Workers, Interrupted(w) PROVE run[q].state = "COMPLETE"
  <2> DEFINE p == worker[w].run
             n == run[p].interruptions + 1
             s == IF n < MaxInterruptions THEN "RETRY_WAIT" ELSE "ACTION_REQUIRED"
             row == [Release(run[p]) EXCEPT !.interruptions = n, !.waiting = TRUE, !.state = s]
  <2>1. p \in Runs /\ s # "COMPLETE"
    BY <1>0, <1>9 DEF Interrupted
  <2>2. run' = run \/ run' = [run EXCEPT ![p] = row]
    BY <1>9 DEF Interrupted
  <2> HIDE DEF n, s, p
  <2>3. row.state = s
    BY <1>0, <2>1 DEF Release, Run
  <2> HIDE DEF row
  <2> QED
    BY <1>1, <1>4, <2>1, <2>2, <2>3
<1>10. ASSUME NEW p \in Runs, RecoverOne(p) PROVE run[q].state = "COMPLETE"
  <2> DEFINE times == run[p].interruptions + IF run[p].state = "RUNNING" THEN 1 ELSE 0
             given == [Release(run[p]) EXCEPT !.state = "ACTION_REQUIRED", !.interruptions = times]
             again == [Release(run[p]) EXCEPT !.state = "PENDING", !.waiting = FALSE,
                                              !.interruptions = times]
  <2>1. \/ Blocked(p)
        \/ run' = [run EXCEPT ![p] = given]
        \/ run' = [run EXCEPT ![p] = again]
    BY <1>10 DEF RecoverOne
  <2> HIDE DEF times
  <2>2. given.state # "COMPLETE" /\ again.state # "COMPLETE"
    BY <1>0 DEF Release, Run
  <2> HIDE DEF given, again
  <2> QED
    BY <1>1, <1>2, <2>1, <2>2
<1>11. CASE Request
  BY <1>11, AbsentRowOK DEF Request, NewRun, Run
<1>12. ASSUME NEW p \in Runs, LeaseExpires(p) \/ WaitPasses(p) PROVE run[q].state = "COMPLETE"
  BY <1>0, <1>12 DEF LeaseExpires, WaitPasses, IInv, Run
<1>13. ASSUME NEW w \in Workers, Changed(w) PROVE run[q].state = "COMPLETE"
  BY <1>0, <1>2, <1>4, <1>13 DEF Changed, Withdraw
<1>14. CASE Process
  <2>1. ASSUME NEW r \in Runs, DeliverBlocked(r) \/ DeliverNothing(r) PROVE run[q].state = "COMPLETE"
    BY <1>2, <1>4, <2>1 DEF DeliverBlocked, DeliverNothing
  <2>2. ASSUME NEW w \in Workers, NEW o, CallProvider(w, o) \/ Killed(w) PROVE run[q].state = "COMPLETE"
    BY <1>4, <2>2 DEF CallProvider, Killed
  <2> QED
    BY <1>5, <1>6, <1>7, <1>8, <1>9, <1>13, <1>14, <2>1, <2>2 DEF Process
<1>15. CASE RecoverStart \/ PermissionChanges \/ ConsentChanges \/ UNCHANGED vars
  BY <1>4, <1>15 DEF RecoverStart, PermissionChanges, ConsentChanges, vars
<1> QED
  BY <1>10, <1>11, <1>12, <1>14, <1>15 DEF Next, Recover, Surroundings

\* Only a publication calls a document done.
LEMMA DoneIsPublished ==
  ASSUME IInv, [Next]_vars, document'.status = "DONE"
  PROVE  \/ /\ document.status = "DONE" /\ document'.generation = document.generation
            /\ CurrentRuns(run') = CurrentRuns(run)
         \/ AllFilesRead(run')
<1>0. document \in DocumentType /\ \A w \in Workers : worker[w].phase # "idle" => worker[w].run \in Runs
  BY DEF IInv, WorkerOK, Started
<1>1. ASSUME NEW w \in Workers, Store(w) \/ ReadFails(w)
      PROVE  UNCHANGED <<run, document>> \/ AllFilesRead(run')
  <2>1. worker[w].run \in Runs
    BY <1>0, <1>1 DEF Store, ReadFails
  <2>2. UNCHANGED <<run, document>> \/ \E state, units : Publish(worker[w].run, state, units)
    BY <1>1 DEF Store, ReadFails
  <2> QED
    BY <2>1, <2>2, PublishShows
<1>2. CASE UNCHANGED <<run, document>>
  BY <1>2
<1>3. CASE ~\E w \in Workers : Store(w) \/ ReadFails(w)
  <2>1. CurrentRuns(run') = CurrentRuns(run)
    BY <1>3, OthersKeepCurrent
  <2> DEFINE Goal == document.status = "DONE" /\ document'.generation = document.generation
  <2> SUFFICES Goal
    BY <2>1
  <2>2. ASSUME NEW p, Blocked(p) PROVE Goal
    BY <1>0, <2>2 DEF Blocked, DocumentType
  <2>3. CASE document' = document
    BY <2>3
  <2>4. ~(document' = Retained(document)) /\ document' # [document EXCEPT !.status = "RUNNING"]
    BY <1>0 DEF Retained, DocumentType
  <2>5. ~Request
    <3> SUFFICES ASSUME Request PROVE FALSE
      OBVIOUS
    <3> DEFINE kept == IF document.status = "FAILED" THEN Retained(document) ELSE document
    <3>1. kept \in DocumentType
      BY <1>0 DEF DocumentType, Retained
    <3>2. document' = [kept EXCEPT !.generation = @ + 1, !.status = "PENDING"]
      BY DEF Request
    <3> HIDE DEF kept
    <3> QED
      BY <3>1, <3>2 DEF DocumentType
  <2>6. CASE ConsentChanges
    BY <1>0, <2>6 DEF ConsentChanges, DocumentType
  <2> HIDE DEF Goal
  <2>7. CASE Process
    BY <1>3, <2>2, <2>3, <2>4, <2>7 DEF Process, DeliverBlocked, DeliverNothing, Claim, SaveNative,
       CallProvider, Changed, Withdraw, Interrupted, Killed
  <2>8. CASE Recover
    BY <2>2, <2>3, <2>8 DEF Recover, RecoverStart, RecoverOne
  <2>9. CASE Surroundings \/ UNCHANGED vars
    BY <2>3, <2>6, <2>9 DEF Surroundings, LeaseExpires, WaitPasses, PermissionChanges, vars
  <2> QED
    BY <2>5, <2>7, <2>8, <2>9 DEF Next
<1> QED
  BY <1>1, <1>2, <1>3

\* As many published runs as files, and one of each at most: one of each.
LEMMA EveryFileHasOne ==
  ASSUME NEW runs, \A q, r \in CurrentRuns(runs) : q[1] = r[1] => q = r,
         Cardinality(CurrentRuns(runs)) = Cardinality(Files), NEW f \in Files
  PROVE  \E r \in CurrentRuns(runs) : r[1] = f
<1> DEFINE cur == CurrentRuns(runs)
           of == [r \in cur |-> r[1]]
<1>1. of \in [cur -> Files] /\ \A q, r \in cur : of[q] = of[r] => q = r
  BY DEF CurrentRuns, Runs
<1>2. \A r \in cur : of[r] = r[1]
  OBVIOUS
<1> HIDE DEF of
<1>3. of \in Injection(cur, Files)
  BY <1>1 DEF Injection, IsInjective
<1>4. of \in Surjection(cur, Files)
  BY <1>3, FS_Injection, ExtractionAssumption
<1>5. \E r \in cur : of[r] = f
  BY <1>4 DEF Surjection
<1> QED
  BY <1>2, <1>5

\* A document that is done has each of its files read to the end, however often its
\* runs were recovered, retried or taken over.
THEOREM DoneAlwaysComplete == Spec => []DoneIsComplete
<1> DEFINE Inv == /\ IInv /\ DoneIsComplete
                  /\ \A r \in Runs : run[r].state = "COMPLETE" => UnitsRead(run[r])
<1>1. Init => Inv
  BY InitKeeps DEF Init, DoneIsComplete, AbsentRun
<1>2. Inv /\ [Next]_vars => Inv'
  <2> SUFFICES ASSUME Inv, [Next]_vars PROVE Inv'
    OBVIOUS
  <2>1. IInv'
    BY NextKeeps
  <2>2. \A r \in Runs, u \in Units :
           run[r].unit[u].state = "COMPLETE" => run'[r].unit[u].state = "COMPLETE"
    BY CompletedStay DEF CompletedUnitsStay
  <2>3. ASSUME NEW r \in Runs, run'[r].state = "COMPLETE" PROVE UnitsRead(run'[r])
    BY <2>2, <2>3, CompleteIsPublished DEF UnitsRead
  <2>4. ASSUME document'.status = "DONE", document'.generation > 0, NEW f \in Files
        PROVE  \E r \in CurrentRuns(run') :
                  r[1] = f /\ \A u \in Units : run'[r].unit[u].state = "COMPLETE"
    <3>1. CASE /\ document.status = "DONE" /\ document'.generation = document.generation
               /\ CurrentRuns(run') = CurrentRuns(run)
      <4>1. PICK r \in CurrentRuns(run) :
                r[1] = f /\ \A u \in Units : run[r].unit[u].state = "COMPLETE"
        BY <2>4, <3>1 DEF DoneIsComplete
      <4> QED
        BY <2>2, <3>1, <4>1 DEF CurrentRuns
    <3>2. CASE AllFilesRead(run')
      <4>1. \A q, r \in CurrentRuns(run') : q[1] = r[1] => q = r
        BY <2>1 DEF IInv, OneCurrentRun
      <4>2. PICK r \in CurrentRuns(run') : r[1] = f
        BY <3>2, <4>1, EveryFileHasOne DEF AllFilesRead
      <4>3. r \in Runs /\ run'[r].state = "COMPLETE"
        BY <3>2 DEF AllFilesRead, CurrentRuns
      <4> QED
        BY <2>3, <4>2, <4>3 DEF UnitsRead
    <3> QED
      BY <2>4, <3>1, <3>2, DoneIsPublished
  <2>5. DoneIsComplete'
    BY <2>4 DEF DoneIsComplete, CurrentRuns
  <2>6. \A r \in Runs : (run[r].state = "COMPLETE" => UnitsRead(run[r]))'
    BY <2>3 DEF UnitsRead
  <2> QED
    BY <2>1, <2>5, <2>6
<1>3. Inv => DoneIsComplete
  OBVIOUS
<1> HIDE DEF Inv
<1> QED
  BY <1>1, <1>2, <1>3, PTL DEF Spec

\* A unit is read by a provider only in the step that stores an answer, and that step
\* asks for the consent and the permission once more.
LEMMA ReadWithConsent ==
  ASSUME IInv, [Next]_vars, NEW r \in Runs, NEW u \in Units,
         run[r].unit[u].state \in {"TO_READ", "RETRY_WAIT"}, run'[r].unit[u].state = "COMPLETE"
  PROVE  document.external /\ permitted
<1>0. run[r] \in Run /\ \A w \in Workers : worker[w].phase # "idle" => worker[w].run \in Runs
  BY DEF IInv, WorkerOK, Started
<1>1. CASE Request
  <2>1. r \in Started
    BY DEF IInv, AbsentRun
  <2>2. r[2] # document.generation + 1
    BY <2>1, RunType, ExtractionAssumption DEF Started, IInv, DocumentType, Generations
  <2> QED
    BY <1>1, <2>2 DEF Request
<1>2. ASSUME NEW w \in Workers, NEW native \in [Units -> NativeOutcomes], SaveNative(w, native)
      PROVE  FALSE
  <2> DEFINE q     == worker[w].run
             units == NativeUnits(q, native)
             todo  == Candidates(units)
             shut(open) == [v \in Units |-> IF v \in todo \ open
                                            THEN [units[v] EXCEPT !.state = "BLOCKED"] ELSE units[v]]
  <2>1. q \in Runs
    BY <1>0, <1>2 DEF SaveNative
  <2>2. run[q].unit[u].state # "ABSENT" => units[u] = run[q].unit[u]
    BY DEF NativeUnits
  <2>3. \/ run' = [run EXCEPT ![q].unit = units]
        \/ \E open : run' = [run EXCEPT ![q].unit = shut(open)]
    BY <1>2 DEF SaveNative
  <2> HIDE DEF units, q, todo
  <2>4. ASSUME NEW open PROVE shut(open)[u] = units[u] \/ shut(open)[u].state # "COMPLETE"
    <3>1. CASE u \in todo \ open
      <4>1. shut(open)[u] = [units[u] EXCEPT !.state = "BLOCKED"]
        BY <3>1
      <4>2. units[u].state = "COMPLETE" \/ shut(open)[u].state # "COMPLETE"
        BY <4>1, <1>2 DEF todo, Candidates
      <4> QED
        BY <3>1, <4>2 DEF todo, Candidates
    <3>2. CASE u \notin todo \ open
      BY <3>2
    <3> QED
      BY <3>1, <3>2
  <2> HIDE DEF shut
  <2>5. ASSUME NEW new, run' = [run EXCEPT ![q].unit = new]
        PROVE  q = r /\ new[u].state = "COMPLETE"
    BY <2>1, <2>5 DEF IInv, Run
  <2> QED
    BY <2>2, <2>3, <2>4, <2>5
<1>3. ASSUME NEW w \in Workers, ReadFails(w) PROVE FALSE
  <2> DEFINE q == worker[w].run
  <2>1. q \in Runs /\ (run' = run \/ run' = Published(q, "FAILED", run[q].unit))
    BY <1>0, <1>3 DEF ReadFails, Publish
  <2> HIDE DEF q
  <2>2. run'[r].unit = run[r].unit
    <3>1. run[q] \in Run
      BY <2>1 DEF IInv
    <3>2. CASE r = q /\ run' # run
      <4>1. run'[r] = [Release(run[r]) EXCEPT !.state = "FAILED", !.unit = run[r].unit,
                            !.waiting = "FAILED" = "RETRY_WAIT", !.current = TRUE]
        BY <2>1, <3>2 DEF Published
      <4> QED
        BY <1>0, <4>1 DEF Release, Run
    <3>3. CASE r # q /\ run' # run
      BY <1>0, <2>1, <3>3 DEF Published, Run
    <3> QED
      BY <3>2, <3>3
  <2> QED
    BY <2>2
<1>4. ASSUME NEW w \in Workers, Store(w) PROVE document.external /\ permitted
  <2> DEFINE q == worker[w].run
             units == StoredUnits(w, q)
  <2>1. q \in Runs /\ run' = Published(q, NextState(units), units) /\ permitted
    BY <1>0, <1>4 DEF Store, Publish, Eligible
  <2>2. units[u] = IF u \in worker[w].unit
                   THEN Answered(run[q].unit[u], Accepted(worker[w].outcome))
                   ELSE run[q].unit[u]
    BY DEF StoredUnits
  <2> HIDE DEF q, units
  <2>3. q = r /\ units[u].state = "COMPLETE"
    <3> DEFINE state == NextState(units)
    <3>1. run' = Published(q, state, units)
      BY <2>1
    <3> HIDE DEF state
    <3>2. q = r
      BY <1>0, <3>1 DEF Published, Run
    <3>3. run'[r].unit = units
      BY <1>0, <3>1, <3>2 DEF Published, Release, Run
    <3> QED
      BY <3>2, <3>3
  <2>4. Accepted(worker[w].outcome) = "COMPLETE"
    BY <2>2, <2>3 DEF Answered
  <2> QED
    BY <2>1, <2>4 DEF Accepted
<1> QED
  BY <1>1, <1>2, <1>3, <1>4, OthersKeepRows DEF RowsAlike

\* Nothing the provider answers is stored without the document's consent and the
\* requester's permission at that moment.
THEOREM ConsentAlwaysHonoured == Spec => ConsentHonoured
<1>1. IInv /\ [Next]_vars =>
        \A r \in Runs, u \in Units :
          /\ run[r].unit[u].state \in {"TO_READ", "RETRY_WAIT"}
          /\ run'[r].unit[u].state = "COMPLETE"
          => document.external /\ permitted
  BY ReadWithConsent
<1> QED
  BY <1>1, Inductive, PTL DEF ConsentHonoured, Spec

=============================================================================
