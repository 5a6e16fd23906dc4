----------------------------- MODULE Extraction -----------------------------
(***************************************************************************)
(* Text extraction of one repository document (apps/documents/             *)
(* processing.py): a run per file and generation, leased by one worker at  *)
(* a time, read and sent for OCR outside any transaction, and published    *)
(* under the locks of actor, document and run.  A retry of the document    *)
(* starts a generation; the queue may deliver a run twice or lose it, a    *)
(* worker may be killed anywhere, and the recovery command reads its       *)
(* candidates without a lock.                                              *)
(*                                                                         *)
(* The files of a document are frozen once it is filed, so they and their  *)
(* versions are constant.  A unit's text is whether it holds the text of a *)
(* complete reading.  permitted stands for every condition of _eligible    *)
(* on the account and the settings.                                        *)
(***************************************************************************)
EXTENDS Naturals, FiniteSets

CONSTANTS
    Files, Units,           \* the files and the units (pages) of each
    Workers, NoWorker,
    MaxGeneration,          \* bound: retries of the document
    MaxInterruptions,       \* errors a run survives; 3 in the code
    MaxAttempts,            \* OCR retries of a unit; 3 in the code
    NativeOutcomes,         \* what reading a unit without OCR may give
    OcrOutcomes             \* what the OCR provider may answer

Terminal == {"COMPLETE", "BLOCKED", "UNSUPPORTED", "FAILED", "ACTION_REQUIRED"}
Open     == {"PENDING", "RUNNING", "RETRY_WAIT"}

\* TO_READ is a unit that needs OCR and has not been tried.
UnitStates == {"ABSENT", "TO_READ", "RETRY_WAIT"} \cup Terminal

ASSUME ExtractionAssumption ==
    /\ NoWorker \notin Workers
    /\ IsFiniteSet(Files) /\ Files # {}     \* without files there is nothing to read
    /\ MaxGeneration \in Nat
    /\ MaxInterruptions \in Nat \ {0} /\ MaxAttempts \in Nat \ {0}
    /\ NativeOutcomes \subseteq {"TO_READ"} \cup Terminal
    /\ OcrOutcomes \subseteq {"RETRY_WAIT"} \cup Terminal

VARIABLES
    document,   \* the fields of the Document that processing writes
    permitted,  \* the requester's account and the settings allow the work
    run,        \* ExtractionRun and its ExtractionUnit rows
    queue,      \* runs the queue has a message for
    worker,     \* each worker's invocation of process_run
    recovery    \* candidates of the recovery command still to handle

vars == <<document, permitted, run, queue, worker, recovery>>

Generations == 0..MaxGeneration
Runs == Files \X Generations
Pages == Files \X Units

UnitRow == [state: UnitStates, text: BOOLEAN, attempts: 0..MaxAttempts]

Run == [state: {"ABSENT"} \cup Open \cup Terminal, lease: Workers \cup {NoWorker},
        expired: BOOLEAN, waiting: BOOLEAN, interruptions: 0..MaxInterruptions,
        current: BOOLEAN, unit: [Units -> UnitRow]]

Idle == [phase |-> "idle", run |-> <<>>, unit |-> {}, outcome |-> "none"]

Invocation == {Idle} \cup [phase: {"read", "ocr", "store"}, run: Runs,
                           unit: SUBSET Units, outcome: {"none"} \cup UnitStates]

AbsentRun == [state |-> "ABSENT", lease |-> NoWorker, expired |-> FALSE,
              waiting |-> FALSE, interruptions |-> 0, current |-> FALSE,
              unit |-> [u \in Units |-> [state |-> "ABSENT", text |-> FALSE, attempts |-> 0]]]

NewRun == [AbsentRun EXCEPT !.state = "PENDING"]

GenerationRuns == {r \in Runs : r[2] = document.generation}
CurrentRuns(runs) == {r \in Runs : runs[r].current}

-----------------------------------------------------------------------------
(* Guards and small steps of the handlers *)

\* Fault: a run of an older generation is still eligible.
EligibleInAnyGeneration(r) == permitted

\* _eligible without a token.
Eligible(r) == permitted /\ document.generation = r[2]

\* Fault: the result is taken whoever holds the lease now.
AnyLease(w, r) == TRUE

HoldsLease(w, r) == run[r].lease = w /\ ~run[r].expired

Release(row) == [row EXCEPT !.lease = NoWorker, !.expired = FALSE]

\* retain_extraction_failure
Retained(doc) == [doc EXCEPT !.failed = TRUE, !.status = "FAILED"]

\* _blocked without a token, or with the token of the run's lease.
Blocked(r) ==
    /\ run' = [run EXCEPT ![r] = [Release(run[r]) EXCEPT !.state = "BLOCKED"]]
    /\ document' = IF r[2] = document.generation
                   THEN [document EXCEPT !.failed = TRUE, !.status = "SKIPPED"]
                   ELSE document

Stop(w) == worker' = [worker EXCEPT ![w] = Idle]

\* A worker whose run is no longer its own leaves without a trace.
Withdraw(w, r) ==
    /\ Stop(w)
    /\ IF run[r].lease = w THEN Blocked(r) ELSE UNCHANGED <<run, document>>
    /\ UNCHANGED <<permitted, queue, recovery>>

\* Work enqueued after a commit: the queue may be unavailable.
Enqueue(runs) == \E sent \in SUBSET runs : queue' = queue \cup sent

-----------------------------------------------------------------------------
(* request_processing: all files of the document, in a new generation *)

Request ==
    LET new  == {r \in Runs : r[2] = document.generation + 1}
        kept == IF document.status = "FAILED" THEN Retained(document) ELSE document
    IN  /\ permitted
        /\ document.generation < MaxGeneration
        /\ run' = [r \in Runs |-> IF r \in new THEN NewRun ELSE run[r]]
        /\ document' = [kept EXCEPT !.generation = @ + 1, !.status = "PENDING"]
        /\ Enqueue(new)
        /\ UNCHANGED <<permitted, worker, recovery>>

-----------------------------------------------------------------------------
(* process_run *)

\* A message is acknowledged late, so it may be delivered again.
Delivered(r) == r \in queue /\ (queue' = queue \/ queue' = queue \ {r})

DeliverBlocked(r) ==
    /\ Delivered(r)
    /\ run[r].state \notin Terminal /\ ~Eligible(r)
    /\ Blocked(r)
    /\ UNCHANGED <<permitted, worker, recovery>>

\* Already done, leased by another worker, or not yet due.
DeliverNothing(r) ==
    /\ Delivered(r)
    /\ \/ run[r].state \in Terminal
       \/ Eligible(r) /\ run[r].lease # NoWorker /\ ~run[r].expired
       \/ Eligible(r) /\ run[r].waiting
    /\ UNCHANGED <<document, permitted, run, worker, recovery>>

Claim(w, r) ==
    /\ worker[w].phase = "idle"
    /\ Delivered(r)
    /\ run[r].state \notin Terminal /\ Eligible(r)
    /\ run[r].lease = NoWorker \/ run[r].expired
    /\ ~run[r].waiting
    /\ run' = [run EXCEPT ![r].state = "RUNNING", ![r].lease = w, ![r].expired = FALSE]
    /\ document' = [document EXCEPT !.status = "RUNNING"]
    /\ worker' = [worker EXCEPT ![w] = [phase |-> "read", run |-> r,
                                        unit |-> {}, outcome |-> "none"]]
    /\ UNCHANGED <<permitted, recovery>>

\* The unit of an earlier published run of the same file that is fully read.
LastGood(r, u) ==
    \E q \in CurrentRuns(run) \ {r} :
        q[1] = r[1] /\ run[q].unit[u].state = "COMPLETE" /\ run[q].unit[u].text

\* _save_native_units, once per run.
NativeUnits(r, native) ==
    [u \in Units |->
        IF run[r].unit[u].state # "ABSENT" THEN run[r].unit[u]
        ELSE [state |-> native[u], attempts |-> 0,
              text |-> native[u] = "COMPLETE" \/ LastGood(r, u)]]

Candidates(units) == {u \in Units : units[u].state \in {"TO_READ", "RETRY_WAIT"}}

\* A unit waiting for its retry is a candidate once its time has come.
SaveNative(w, native) ==
    LET r     == worker[w].run
        units == NativeUnits(r, native)
        todo  == Candidates(units)
        later == {u \in todo : units[u].state = "RETRY_WAIT"}
        shut(open) == [u \in Units |-> IF u \in todo \ open
                                       THEN [units[u] EXCEPT !.state = "BLOCKED"] ELSE units[u]]
    IN  /\ worker[w].phase = "read"
        /\ Eligible(r) /\ HoldsLease(w, r)
        /\ \/ /\ document.external /\ \E u \in todo :
                    worker' = [worker EXCEPT ![w].phase = "ocr", ![w].unit = {u}]
              /\ run' = [run EXCEPT ![r].unit = units]
           \/ /\ document.external /\ todo = later
              /\ worker' = [worker EXCEPT ![w].phase = "store"]
              /\ run' = [run EXCEPT ![r].unit = units]
           \/ /\ ~document.external
              /\ worker' = [worker EXCEPT ![w].phase = "store"]
              /\ \E open \in SUBSET later : run' = [run EXCEPT ![r].unit = shut(open)]
        /\ UNCHANGED <<document, permitted, queue, recovery>>

\* ocr_unit asks _dispatch_allowed before each request.
CallProvider(w, outcome) ==
    LET r == worker[w].run
        allowed == Eligible(r) /\ HoldsLease(w, r) /\ document.external
    IN  /\ worker[w].phase = "ocr"
        /\ outcome \in IF allowed THEN OcrOutcomes ELSE {"BLOCKED"}
        /\ worker' = [worker EXCEPT ![w].phase = "store", ![w].outcome = outcome]
        /\ UNCHANGED <<document, permitted, run, queue, recovery>>

\* Fault: the consent is not asked for again before the answer is stored.
AcceptedAsSent(outcome) == outcome

\* An answer that arrives after the consent was withdrawn is discarded.
Accepted(outcome) == IF document.external THEN outcome ELSE "BLOCKED"

\* The selected unit with the provider's answer, its retries counted.
Answered(unit, outcome) ==
    LET tries == unit.attempts + 1
    IN  [attempts |-> tries,
         text  |-> unit.text \/ outcome = "COMPLETE",
         state |-> IF outcome = "RETRY_WAIT" /\ tries >= MaxAttempts THEN "ACTION_REQUIRED"
                   ELSE outcome]

StoredUnits(w, r) ==
    [u \in Units |-> IF u \in worker[w].unit
                     THEN Answered(run[r].unit[u], Accepted(worker[w].outcome))
                     ELSE run[r].unit[u]]

NextState(units) ==
    LET states == {units[u].state : u \in Units}
    IN  CASE "RETRY_WAIT" \in states -> "RETRY_WAIT"
          [] "RETRY_WAIT" \notin states /\ "TO_READ" \in states -> "PENDING"
          [] states \cap {"RETRY_WAIT", "TO_READ"} = {} ->
                IF "FAILED" \in states THEN "FAILED"
                ELSE IF states = {"COMPLETE"} THEN "COMPLETE"
                ELSE IF states = {"BLOCKED"} THEN "BLOCKED"
                ELSE IF states = {"UNSUPPORTED"} THEN "UNSUPPORTED"
                ELSE "ACTION_REQUIRED"

\* Fault: the run published before stays current.
PublishedBeside(r, state, units) ==
    [run EXCEPT ![r] = [Release(run[r]) EXCEPT !.state = state, !.unit = units,
                            !.waiting = state = "RETRY_WAIT", !.current = TRUE]]

\* The run becomes the file's current one, whatever it was able to read.
Published(r, state, units) ==
    [q \in Runs |->
        IF q = r THEN [Release(run[r]) EXCEPT !.state = state, !.unit = units,
                            !.waiting = state = "RETRY_WAIT", !.current = TRUE]
        ELSE IF q[1] = r[1] THEN [run[q] EXCEPT !.current = FALSE] ELSE run[q]]

\* Fault: runs of superseded generations count as pending work.
PendingInAnyGeneration(runs) == \E r \in Runs : runs[r].state \in Open

PendingWork(runs) == \E r \in GenerationRuns : runs[r].state \in Open

\* Fault: files without any published run are overlooked.
AllCurrentRead(runs) == \A r \in CurrentRuns(runs) : runs[r].state = "COMPLETE"

AllFilesRead(runs) ==
    /\ \A r \in CurrentRuns(runs) : runs[r].state = "COMPLETE"
    /\ Cardinality(CurrentRuns(runs)) = Cardinality(Files)

\* The document after a publication: its text, status and failure mark.
Aggregated(runs) ==
    LET text     == {p \in Pages : \E r \in CurrentRuns(runs) :
                                        r[1] = p[1] /\ runs[r].unit[p[2]].text}
        complete == \A r \in CurrentRuns(runs) : runs[r].state = "COMPLETE"
        read     == [document EXCEPT !.text = IF complete /\ text # {} THEN text
                                              ELSE @ \cup text]
    IN  IF PendingWork(runs) THEN [read EXCEPT !.status = "PENDING"]
        ELSE IF AllFilesRead(runs) THEN [read EXCEPT !.status = "DONE", !.failed = FALSE]
        ELSE Retained(read)

\* _publish
Publish(r, state, units) ==
    LET runs == Published(r, state, units)
    IN  /\ run' = runs
        /\ document' = Aggregated(runs)
        /\ IF state = "PENDING" THEN Enqueue({r}) ELSE UNCHANGED queue

Store(w) ==
    LET r     == worker[w].run
        units == StoredUnits(w, r)
    IN  /\ worker[w].phase = "store"
        /\ Eligible(r) /\ HoldsLease(w, r)
        /\ Publish(r, NextState(units), units)
        /\ Stop(w)
        /\ UNCHANGED <<permitted, recovery>>

\* Either transaction of an invocation finds its run changed.
Changed(w) ==
    LET r == worker[w].run
    IN  /\ worker[w].phase \in {"read", "store"}
        /\ ~(Eligible(r) /\ HoldsLease(w, r))
        /\ Withdraw(w, r)

\* The stored file cannot be read or verified, or a step rejects its data.
ReadFails(w) ==
    LET r == worker[w].run
    IN  /\ worker[w].phase # "idle"
        /\ IF Eligible(r) /\ HoldsLease(w, r) THEN Publish(r, "FAILED", run[r].unit)
           ELSE UNCHANGED <<run, document, queue>>
        /\ Stop(w)
        /\ UNCHANGED <<permitted, recovery>>

\* Any other error: a later retry, and the third one needs a person.
Interrupted(w) ==
    LET r     == worker[w].run
        times == run[r].interruptions + 1
    IN  /\ worker[w].phase # "idle"
        /\ IF run[r].lease = w /\ document.generation = r[2]
           THEN /\ run' = [run EXCEPT ![r] =
                        [Release(run[r]) EXCEPT
                            !.interruptions = times, !.waiting = TRUE,
                            !.state = IF times < MaxInterruptions THEN "RETRY_WAIT"
                                      ELSE "ACTION_REQUIRED"]]
                /\ document' = Retained(document)
           ELSE UNCHANGED <<run, document>>
        /\ Stop(w)
        /\ UNCHANGED <<permitted, queue, recovery>>

\* The process dies; its lease stays.
Killed(w) ==
    /\ worker[w].phase # "idle"
    /\ Stop(w)
    /\ UNCHANGED <<document, permitted, run, queue, recovery>>

-----------------------------------------------------------------------------
(* recover_processing --apply *)

Recoverable(r) ==
    \/ run[r].state = "PENDING"
    \/ run[r].state = "RETRY_WAIT" /\ ~run[r].waiting
    \/ run[r].state = "RUNNING" /\ run[r].expired

RecoverStart ==
    /\ recovery = {}
    /\ recovery' = {r \in Runs : Recoverable(r)}
    /\ UNCHANGED <<document, permitted, run, queue, worker>>

\* The candidate is not looked at again under its lock.
RecoverOne(r) ==
    LET times == run[r].interruptions + IF run[r].state = "RUNNING" THEN 1 ELSE 0
    IN  /\ r \in recovery
        /\ recovery' = recovery \ {r}
        /\ \/ /\ ~Eligible(r)
              /\ Blocked(r)
              /\ UNCHANGED queue
           \/ /\ Eligible(r) /\ times >= MaxInterruptions
              /\ run' = [run EXCEPT ![r] = [Release(run[r]) EXCEPT
                            !.state = "ACTION_REQUIRED", !.interruptions = times]]
              /\ UNCHANGED <<document, queue>>
           \/ /\ Eligible(r) /\ times < MaxInterruptions
              /\ run' = [run EXCEPT ![r] = [Release(run[r]) EXCEPT
                            !.state = "PENDING", !.waiting = FALSE, !.interruptions = times]]
              /\ Enqueue({r})
              /\ UNCHANGED document
        /\ UNCHANGED <<permitted, worker>>

-----------------------------------------------------------------------------
(* The surroundings *)

LeaseExpires(r) ==
    /\ run[r].lease # NoWorker /\ ~run[r].expired
    /\ run' = [run EXCEPT ![r].expired = TRUE]
    /\ UNCHANGED <<document, permitted, queue, worker, recovery>>

WaitPasses(r) ==
    /\ run[r].waiting
    /\ run' = [run EXCEPT ![r].waiting = FALSE]
    /\ UNCHANGED <<document, permitted, queue, worker, recovery>>

PermissionChanges ==
    /\ permitted' = ~permitted
    /\ UNCHANGED <<document, run, queue, worker, recovery>>

ConsentChanges ==
    /\ document' = [document EXCEPT !.external = ~@]
    /\ UNCHANGED <<permitted, run, queue, worker, recovery>>

\* A document whose text was saved before runs were kept for its files.
Init ==
    /\ document \in [generation: {0}, status: {"DONE"}, failed: {FALSE},
                     text: {Pages}, external: BOOLEAN]
    /\ permitted = TRUE
    /\ run = [r \in Runs |-> AbsentRun]
    /\ queue = {}
    /\ worker = [w \in Workers |-> Idle]
    /\ recovery = {}

Process ==
    \/ \E r \in Runs : DeliverBlocked(r) \/ DeliverNothing(r)
    \/ \E w \in Workers :
        \/ \E r \in Runs : Claim(w, r)
        \/ \E native \in [Units -> NativeOutcomes] : SaveNative(w, native)
        \/ \E outcome \in OcrOutcomes \cup {"BLOCKED"} : CallProvider(w, outcome)
        \/ Store(w)
        \/ Changed(w)
        \/ ReadFails(w)
        \/ Interrupted(w)
        \/ Killed(w)

Recover == RecoverStart \/ \E r \in Runs : RecoverOne(r)

Surroundings ==
    \/ \E r \in Runs : LeaseExpires(r) \/ WaitPasses(r)
    \/ PermissionChanges
    \/ ConsentChanges

Next == Request \/ Process \/ Recover \/ Surroundings

Spec == Init /\ [][Next]_vars

-----------------------------------------------------------------------------
(* Properties *)

\* The rows have the shape of the schema, a run is leased exactly while it runs,
\* and no counter passes its budget.
TypeOK ==
    /\ document \in [generation: Generations, status: {"PENDING", "RUNNING", "DONE", "FAILED", "SKIPPED"},
                     failed: BOOLEAN, text: SUBSET Pages, external: BOOLEAN]
    /\ permitted \in BOOLEAN
    /\ run \in [Runs -> Run]
    /\ queue \in SUBSET Runs
    /\ worker \in [Workers -> Invocation]
    /\ recovery \in SUBSET Runs
    /\ \A r \in Runs : run[r].state = "RUNNING" <=> run[r].lease # NoWorker

\* A file never has two published runs that search, tags and the document's
\* text would both read, however publications of its generations interleave.
OneCurrentRun ==
    \A q, r \in CurrentRuns(run) : q[1] = r[1] => q = r

\* A file's published run is never replaced by one of an older generation,
\* although a worker of that generation may still be reading when a retry of
\* the document is requested, and finish last.
CurrentNeverGoesBack ==
    \A q \in CurrentRuns(run), r \in CurrentRuns(run)' : q[1] = r[1] => q[2] <= r[2]

\* What one worker has read of a run is never undone by another worker of the
\* same run: a late answer of a worker whose lease was lost changes no unit.
CompletedUnitsStay ==
    \A r \in Runs, u \in Units :
        run[r].unit[u].state = "COMPLETE" => run'[r].unit[u].state = "COMPLETE"

\* Reading moves forward: runs by generation, units within a run.
ReadingMovesForward == [][CurrentNeverGoesBack /\ CompletedUnitsStay]_vars

\* Text from the OCR provider is stored only while the document's consent and
\* the requester's permission hold, also when both changed during the call.
ConsentHonoured ==
    [][\A r \in Runs, u \in Units :
        /\ run[r].unit[u].state \in {"TO_READ", "RETRY_WAIT"}
        /\ run'[r].unit[u].state = "COMPLETE"
        => document.external /\ permitted]_vars

\* A document that processing calls done has a published and completely read
\* run of each of its files.
DoneIsComplete ==
    document.status = "DONE" /\ document.generation > 0 =>
        \A f \in Files : \E r \in CurrentRuns(run) :
            r[1] = f /\ \A u \in Units : run[r].unit[u].state = "COMPLETE"

\* A document is shown as being read only while a run of its generation is open,
\* unless recovery gave a run up: that leaves the document's status as it was.
BusyMeansWork ==
    document.status \in {"PENDING", "RUNNING"} =>
        \E r \in GenerationRuns :
            run[r].state \in Open \/ run[r].interruptions = MaxInterruptions

\* Text that a file's published run holds is held by the next one that reads the
\* page again: the file does not change, so an OCR error must not erase what an
\* earlier run had read of it.
LastGoodTextSurvives ==
    [][\A q \in CurrentRuns(run), r \in CurrentRuns(run)', u \in Units :
        /\ q[1] = r[1] /\ run[q].unit[u].text
        /\ run'[r].unit[u].state # "ABSENT"
        => run'[r].unit[u].text]_vars

\* A lease that has not expired ends by a step of the worker that holds it, or by
\* blocking its run.
LiveLeaseIsKept ==
    [][\A r \in Runs :
        /\ run[r].lease # NoWorker /\ ~run[r].expired
        /\ run'[r].lease # run[r].lease
        => run'[r].state = "BLOCKED" \/ worker'[run[r].lease] = Idle]_vars

=============================================================================
