------------------------------ MODULE Repository ------------------------------
(***************************************************************************)
(* The document repository (apps/documents: services, tasks, models): the  *)
(* reading of a document's files by queued tasks, the review that removes  *)
(* and restores documents, and the nightly purge of what was removed.      *)
(*                                                                         *)
(* This is the repository as it runs by default, with background tasks and *)
(* without source-unit extraction, whose runs are in module Extraction.    *)
(* A document's files are frozen when it is filed; a file is identified    *)
(* with the key of its stored object.  The text of a document is the set   *)
(* of files whose text it holds.  updated_at changes with every write that *)
(* names it, so a page of the review is current or it is not.              *)
(***************************************************************************)
EXTENDS Naturals, FiniteSets

CONSTANTS
    Docs,
    StoredKeys,     \* objects in the store
    FilesOf,        \* [Docs -> non-empty sets of StoredKeys]; rows may share one
    Jobs,           \* deliveries of extract_document_task
    Reviewers,      \* administrators with a deletion review open
    Purgers,        \* workers that run purge_deleted_documents
    NoDoc,
    PurgeLimit,     \* documents of one run: 100 in the code
    MaxGeneration   \* bound: full retries

ASSUME RepositoryAssumption ==
    /\ FilesOf \in [Docs -> SUBSET StoredKeys] /\ \A d \in Docs : FilesOf[d] # {}
    /\ NoDoc \notin Docs /\ PurgeLimit \in Nat \ {0} /\ MaxGeneration \in Nat

VARIABLES
    row,        \* Document rows
    text,       \* ocr_text of each document
    objects,    \* keys in the store
    job,        \* tasks, from the request that commits them to their end
    entitled,   \* documents whose requester may still have them read
    page,       \* what each reviewer looks at
    purger,     \* what each run of the purge is doing
    unread,     \* ghost: files that could not be read since the last full reading
    abandoned   \* ghost: documents whose last task to start was given up unfinished

repositoryVars == <<row, text, objects, job, entitled, page, purger, unread, abandoned>>

Busy == {"PENDING", "RUNNING"}
OcrStatus == Busy \cup {"DONE", "EMPTY", "FAILED", "SKIPPED"}
Kept == {"active", "removed"}

NoJob == [state |-> "none", doc |-> NoDoc, files |-> {}, replace |-> FALSE, generation |-> 0,
          attempts |-> 0, left |-> {}, got |-> {}, failed |-> {}, skipped |-> FALSE]
NoPage == [doc |-> NoDoc, current |-> FALSE, state |-> "absent", status |-> "PENDING", text |-> {}]
NoPurge == [todo |-> {}, doc |-> NoDoc, left |-> {}, keys |-> {}, failed |-> NoDoc]

Locked(d) == \E w \in Purgers : purger[w].doc = d

\* A write that names updated_at makes every page of the document old.
Turned(d) ==
    [u \in Reviewers |-> IF page[u].doc = d THEN [page[u] EXCEPT !.current = FALSE] ELSE page[u]]

Write(d, new) == row' = [row EXCEPT ![d] = new] /\ page' = Turned(d)

\* retain_extraction_failure, with the save that follows it.
Failing(d) == [row[d] EXCEPT !.marked = TRUE, !.status = "FAILED"]

RepositoryInit ==
    /\ row = [d \in Docs |-> [state |-> "absent", due |-> FALSE, over |-> FALSE, generation |-> 0,
                              marked |-> FALSE, status |-> "PENDING", tried |-> "never"]]
    /\ text = [d \in Docs |-> {}]
    /\ objects = {}
    /\ job = [j \in Jobs |-> NoJob]
    /\ entitled = Docs
    /\ page = [u \in Reviewers |-> NoPage]
    /\ purger = [w \in Purgers |-> NoPurge]
    /\ unread = [d \in Docs |-> {}]
    /\ abandoned = {}

-----------------------------------------------------------------------------
(* Requests *)

Task(d, files, replace, generation) ==
    [NoJob EXCEPT !.state = "committed", !.doc = d, !.files = files, !.replace = replace,
                  !.generation = generation]

Free == {j \in Jobs : job[j].state = "none"}

\* _persist_upload: a task for each file, or one for all of a saved upload.
Upload(d) ==
    /\ row[d].state = "absent"
    /\ \E new \in SUBSET Free, split \in BOOLEAN :
        /\ Cardinality(new) = IF split THEN Cardinality(FilesOf[d]) ELSE 1
        /\ \E of \in [new -> SUBSET FilesOf[d]] :
            /\ UNION {of[j] : j \in new} = FilesOf[d]
            /\ split => \A j \in new : Cardinality(of[j]) = 1
            /\ job' = [j \in Jobs |-> IF j \in new THEN Task(d, of[j], FALSE, row[d].generation)
                                      ELSE job[j]]
    /\ row' = [row EXCEPT ![d].state = "active"]
    /\ objects' = objects \cup FilesOf[d]
    /\ UNCHANGED <<text, entitled, page, purger, unread, abandoned>>

\* _request_document_extraction: every file anew, with a generation of its own.
Retry(d) ==
    /\ row[d].state = "active" /\ d \in entitled /\ ~Locked(d)
    /\ row[d].generation < MaxGeneration
    /\ Write(d, [row[d] EXCEPT !.marked = @ \/ row[d].status = "FAILED", !.status = "PENDING",
                               !.generation = @ + 1])
    /\ \E j \in Free :
        job' = [job EXCEPT ![j] = Task(d, FilesOf[d], TRUE, row[d].generation + 1)]
    /\ abandoned' = abandoned \ {d}
    /\ UNCHANGED <<text, objects, entitled, purger, unread>>

\* _enqueue_extraction, after the commit.
Submit(j) ==
    /\ job[j].state = "committed"
    /\ job' = [job EXCEPT ![j].state = "queued"]
    /\ UNCHANGED <<row, text, objects, entitled, page, purger, unread, abandoned>>

\* Fault: the queue fails and only the log says so.
QueueFailsQuietly(j) ==
    /\ job[j].state = "committed" /\ ~Locked(job[j].doc)
    /\ job' = [job EXCEPT ![j] = NoJob]
    /\ UNCHANGED <<row, text, objects, entitled, page, purger, unread, abandoned>>

\* Fault: whether the document is still there is not looked at.
CurrentGeneration(j) == row[job[j].doc].generation = job[j].generation

\* The task may still speak for its document.
Current(j) == row[job[j].doc].state = "active" /\ row[job[j].doc].generation = job[j].generation

\* What a task that could not be read leaves of its files.
Unread(d, files) == unread' = [unread EXCEPT ![d] = @ \cup files]

\* The queue is not there: the document says so, unless a newer request has it.
QueueFails(j) ==
    LET d == job[j].doc IN
    /\ job[j].state = "committed" /\ ~Locked(d)
    /\ IF Current(j) THEN Write(d, Failing(d)) /\ Unread(d, job[j].files)
       ELSE UNCHANGED <<row, page, unread>>
    /\ job' = [job EXCEPT ![j] = NoJob]
    /\ UNCHANGED <<text, objects, entitled, purger, abandoned>>

-----------------------------------------------------------------------------
(* _extract_document_task *)

Superseded(j) == row[job[j].doc].generation # job[j].generation
Allowed(j) == row[job[j].doc].state = "active" /\ job[j].doc \in entitled

EndTask(j) == job' = [job EXCEPT ![j] = NoJob]

\* The queue delivers a task again until its second failure is on record.
Again(j) == job' = [job EXCEPT ![j].state = "queued", ![j].attempts = 1]

GivenUp(j) == job[j].attempts = 1 /\ EndTask(j)

\* The document is gone, or a newer request has it.
Drop(j) ==
    /\ job[j].state \in {"queued", "reading"} /\ ~Locked(job[j].doc)
    /\ row[job[j].doc].state = "gone" \/ Superseded(j)
    /\ EndTask(j)
    /\ UNCHANGED <<row, text, objects, entitled, page, purger, unread, abandoned>>

\* _cancel_extraction: a removed document is left as its removal left it.
Cancel(j) ==
    LET d == job[j].doc IN
    /\ job[j].state \in {"queued", "reading"} /\ ~Locked(d)
    /\ row[d].state \in Kept /\ ~Superseded(j) /\ ~Allowed(j)
    /\ IF row[d].state = "active"
       THEN Write(d, [Failing(d) EXCEPT !.status = "SKIPPED"]) /\ Unread(d, job[j].files)
       ELSE UNCHANGED <<row, page, unread>>
    /\ EndTask(j)
    /\ UNCHANGED <<text, objects, entitled, purger, abandoned>>

Start(j) ==
    LET d == job[j].doc IN
    /\ job[j].state = "queued" /\ ~Locked(d) /\ ~Superseded(j) /\ Allowed(j)
    /\ Write(d, [row[d] EXCEPT !.marked = @ \/ row[d].status = "FAILED", !.status = "RUNNING"])
    /\ job' = [job EXCEPT ![j].state = "reading", ![j].left = job[j].files,
                          ![j].got = {}, ![j].failed = {}, ![j].skipped = FALSE]
    /\ abandoned' = abandoned \ {d}
    /\ UNCHANGED <<text, objects, entitled, purger, unread>>

\* One file: its object is missing, or the reader or the provider answers.
Read(j, k) ==
    LET d == job[j].doc IN
    /\ job[j].state = "reading" /\ k \in job[j].left /\ ~Superseded(j) /\ Allowed(j)
    /\ \E answer \in IF k \in objects THEN {"text", "empty", "failed", "skipped"} ELSE {"failed"} :
        /\ ~Locked(d)
        /\ job' = [job EXCEPT ![j].left = @ \ {k},
                     ![j].got = IF answer = "text" THEN @ \cup {k} ELSE @,
                     ![j].failed = IF answer = "failed" THEN @ \cup {k} ELSE @,
                     ![j].skipped = @ \/ answer = "skipped"]
    /\ UNCHANGED <<row, text, objects, entitled, page, purger, unread, abandoned>>

Incomplete(j) == job[j].failed # {} \/ job[j].skipped

\* Fault: the result is put together from the text the task began with.
CombinedFromNothing(j) == IF job[j].replace /\ Incomplete(j) THEN text[job[j].doc] ELSE job[j].got

\* A retry that could not read everything keeps the text that was there.
Combined(j) ==
    LET old == text[job[j].doc]
    IN  IF job[j].replace /\ Incomplete(j) /\ old # {} THEN old
        ELSE IF job[j].replace \/ old = {} THEN job[j].got
        ELSE old \cup job[j].got

ReadStatus(j) ==
    IF job[j].failed # {} THEN "FAILED"
    ELSE IF job[j].skipped THEN "SKIPPED"
    ELSE IF Combined(j) # {} THEN "DONE" ELSE "EMPTY"

\* Fault: an appended file that was read clears what another left behind.
RetainedOwn(j) == ReadStatus(j) = "FAILED" \/ (row[job[j].doc].marked /\ job[j].replace /\ Incomplete(j))

\* A failure stays until a full retry has read every file.
Retained(j) ==
    \/ ReadStatus(j) = "FAILED"
    \/ row[job[j].doc].marked /\ (~job[j].replace \/ Incomplete(j))

Finish(j) ==
    LET d == job[j].doc
        whole == job[j].replace /\ ~Incomplete(j)
    IN
    /\ job[j].state = "reading" /\ job[j].left = {} /\ ~Locked(d) /\ ~Superseded(j) /\ Allowed(j)
    /\ text' = [text EXCEPT ![d] = Combined(j)]
    /\ Write(d, IF Retained(j) THEN Failing(d)
                ELSE [row[d] EXCEPT !.status = ReadStatus(j), !.marked = @ /\ ~whole,
                                    !.generation = IF whole THEN @ + 1 ELSE @])
    /\ unread' = [unread EXCEPT ![d] = IF whole THEN {} ELSE @ \cup job[j].failed]
    /\ EndTask(j)
    /\ UNCHANGED <<objects, entitled, purger, abandoned>>

\* _extraction_finalization: the result could not be saved.
FinishFails(j) ==
    LET d == job[j].doc IN
    /\ job[j].state = "reading" /\ job[j].left = {} /\ ~Locked(d)
    /\ IF Current(j) THEN Write(d, Failing(d)) /\ Unread(d, job[j].files)
       ELSE UNCHANGED <<row, page, unread>>
    /\ Again(j) \/ GivenUp(j)
    /\ UNCHANGED <<text, objects, entitled, purger, abandoned>>

\* The worker is killed, or the reader or the database ends the task early.
Killed(j) ==
    /\ job[j].state = "reading"
    /\ \/ Again(j) /\ UNCHANGED abandoned
       \/ GivenUp(j) /\ abandoned' = abandoned \cup {job[j].doc}
    /\ UNCHANGED <<row, text, objects, entitled, page, purger, unread>>

\* The requester's rights over the document are taken away or given back.
Entitle(d) ==
    /\ row[d].state \in Kept
    /\ entitled' = IF d \in entitled THEN entitled \ {d} ELSE entitled \cup {d}
    /\ UNCHANGED <<row, text, objects, job, page, purger, unread, abandoned>>

-----------------------------------------------------------------------------
(* The deletion review *)

ComesDue(d) ==
    /\ row[d].state = "active" /\ ~row[d].due
    /\ row' = [row EXCEPT ![d].due = TRUE]
    /\ UNCHANGED <<text, objects, job, entitled, page, purger, unread, abandoned>>

\* The 30 days of the recovery period pass.
RecoveryEnds(d) ==
    /\ row[d].state = "removed" /\ ~row[d].over
    /\ row' = [row EXCEPT ![d].over = TRUE]
    /\ UNCHANGED <<text, objects, job, entitled, page, purger, unread, abandoned>>

OpenReview(u, d) ==
    /\ row[d].state \in Kept
    /\ page' = [page EXCEPT ![u] = [doc |-> d, current |-> TRUE, state |-> row[d].state,
                                    status |-> row[d].status, text |-> text[d]]]
    /\ UNCHANGED <<row, text, objects, job, entitled, purger, unread, abandoned>>

\* Fault: the page is compared by the decision alone, not by when the row was written.
ShowsStateOf(u, d) == page[u].doc = d /\ page[u].state = row[d].state

\* expected_state
ShowsStateNow(u, d) == page[u].doc = d /\ page[u].current

Retain(u, d) ==
    /\ ShowsStateNow(u, d) /\ row[d].state = "active" /\ ~Locked(d)
    /\ Write(d, [row[d] EXCEPT !.due = FALSE, !.tried = "never"])
    /\ UNCHANGED <<text, objects, job, entitled, purger, unread, abandoned>>

\* A removal cancels the reading.
RemoveDocument(u, d) ==
    /\ ShowsStateNow(u, d) /\ row[d].state = "active" /\ row[d].due /\ ~Locked(d)
    /\ Write(d, [row[d] EXCEPT !.state = "removed", !.over = FALSE, !.tried = "never",
                               !.status = IF @ \in Busy THEN "SKIPPED" ELSE @])
    /\ UNCHANGED <<text, objects, job, entitled, purger, unread, abandoned>>

\* Fault: whatever was not purged yet may come back.
RestoreLate(u, d) ==
    /\ ShowsStateNow(u, d) /\ row[d].state = "removed" /\ ~Locked(d)
    /\ Write(d, [row[d] EXCEPT !.state = "active", !.due = FALSE, !.over = FALSE, !.tried = "never"])
    /\ UNCHANGED <<text, objects, job, entitled, purger, unread, abandoned>>

Restore(u, d) ==
    /\ ShowsStateNow(u, d) /\ row[d].state = "removed" /\ ~row[d].over /\ ~Locked(d)
    /\ Write(d, [row[d] EXCEPT !.state = "active", !.due = FALSE, !.tried = "never"])
    /\ UNCHANGED <<text, objects, job, entitled, purger, unread, abandoned>>

-----------------------------------------------------------------------------
(* purge_deleted_documents *)

Expired == {d \in Docs : row[d].state = "removed" /\ row[d].over}

Earlier(d, e) ==
    <<row[d].tried, row[e].tried>> \in
        {<<"never", "before">>, <<"never", "last">>, <<"before", "last">>}

\* The candidates: those tried longest ago come first.
Batches ==
    {b \in SUBSET Expired :
        /\ Cardinality(b) = IF Cardinality(Expired) < PurgeLimit THEN Cardinality(Expired)
                            ELSE PurgeLimit
        /\ \A d \in b, e \in Expired \ b : ~Earlier(e, d)}

PurgeStart(w) ==
    /\ purger[w] = NoPurge /\ Expired # {}
    /\ \E b \in Batches : purger' = [purger EXCEPT ![w].todo = b]
    /\ UNCHANGED <<row, text, objects, job, entitled, page, unread, abandoned>>

Open(w, d) == [purger[w] EXCEPT !.todo = @ \ {d}, !.doc = d, !.left = FilesOf[d]]

PurgeOpen(w, d) ==
    /\ d \in purger[w].todo /\ purger[w].doc = NoDoc /\ purger[w].failed = NoDoc /\ ~Locked(d)
    /\ purger' = [purger EXCEPT ![w] = IF d \in Expired THEN Open(w, d)
                                       ELSE [purger[w] EXCEPT !.todo = @ \ {d}]]
    /\ UNCHANGED <<row, text, objects, job, entitled, page, unread, abandoned>>

\* pg_advisory_xact_lock, held to the end of the transaction.
KeyIsFree(w, k) == \A v \in Purgers \ {w} : k \notin purger[v].keys

\* Fault: what another document holds is not looked at.
ReferencedNever(d, k) == FALSE

\* referenced_storage_key: any other row that names the key keeps it.
ReferencedElsewhere(d, k) == \E e \in Docs \ {d} : row[e].state \in Kept /\ k \in FilesOf[e]

\* The object goes at once and for good, whatever becomes of the transaction.
PurgeObject(w, k) ==
    LET d == purger[w].doc IN
    /\ k \in purger[w].left /\ KeyIsFree(w, k)
    /\ objects' = IF ReferencedElsewhere(d, k) THEN objects ELSE objects \ {k}
    /\ purger' = [purger EXCEPT ![w].left = @ \ {k}, ![w].keys = @ \cup {k}]
    /\ UNCHANGED <<row, text, job, entitled, page, unread, abandoned>>

PurgeCommit(w) ==
    LET d == purger[w].doc IN
    /\ d # NoDoc /\ purger[w].left = {}
    /\ row' = [row EXCEPT ![d].state = "gone", ![d].marked = FALSE]
    /\ text' = [text EXCEPT ![d] = {}]
    /\ unread' = [unread EXCEPT ![d] = {}]
    /\ page' = Turned(d)
    /\ purger' = [purger EXCEPT ![w] = [NoPurge EXCEPT !.todo = purger[w].todo]]
    /\ UNCHANGED <<objects, job, entitled, abandoned>>

\* The store, the database or a deadlock between two runs ends the transaction.
PurgeFails(w) ==
    LET d == purger[w].doc IN
    /\ d # NoDoc
    /\ purger' = [purger EXCEPT ![w] = [NoPurge EXCEPT !.todo = purger[w].todo, !.failed = d]]
    /\ UNCHANGED <<row, text, objects, job, entitled, page, unread, abandoned>>

\* In a transaction of its own: the document waits behind the others.
PurgeMark(w) ==
    LET d == purger[w].failed IN
    /\ d # NoDoc /\ ~Locked(d)
    /\ row' = IF d \notin Expired THEN row
              ELSE [e \in Docs |-> IF e = d THEN [row[e] EXCEPT !.tried = "last"]
                                   ELSE IF row[e].tried = "last" THEN [row[e] EXCEPT !.tried = "before"]
                                   ELSE row[e]]
    /\ purger' = [purger EXCEPT ![w].failed = NoDoc]
    /\ UNCHANGED <<text, objects, job, entitled, page, unread, abandoned>>

PurgeKilled(w) ==
    /\ purger[w] # NoPurge
    /\ purger' = [purger EXCEPT ![w] = NoPurge]
    /\ UNCHANGED <<row, text, objects, job, entitled, page, unread, abandoned>>

-----------------------------------------------------------------------------
JobStep(j) ==
    \/ Submit(j) \/ QueueFails(j) \/ Drop(j) \/ Cancel(j) \/ Start(j)
    \/ \E k \in StoredKeys : Read(j, k)
    \/ Finish(j) \/ FinishFails(j) \/ Killed(j)

ReviewStep(u, d) == OpenReview(u, d) \/ Retain(u, d) \/ RemoveDocument(u, d) \/ Restore(u, d)

PurgeStep(w) ==
    \/ PurgeStart(w)
    \/ \E d \in Docs : PurgeOpen(w, d)
    \/ \E k \in StoredKeys : PurgeObject(w, k)
    \/ PurgeCommit(w) \/ PurgeFails(w) \/ PurgeMark(w) \/ PurgeKilled(w)

RepositoryNext ==
    \/ \E d \in Docs : Upload(d) \/ Retry(d) \/ Entitle(d) \/ ComesDue(d) \/ RecoveryEnds(d)
    \/ \E j \in Jobs : JobStep(j)
    \/ \E u \in Reviewers, d \in Docs : ReviewStep(u, d)
    \/ \E w \in Purgers : PurgeStep(w)

RepositorySpec == RepositoryInit /\ [][RepositoryNext]_repositoryVars

-----------------------------------------------------------------------------
(* Properties *)

\* Type correctness of the rows, the tasks, the pages and the runs of the purge.
RepositoryTypeOK ==
    /\ row \in [Docs -> [state: {"absent", "active", "removed", "gone"}, due: BOOLEAN,
                         over: BOOLEAN, generation: Nat, marked: BOOLEAN, status: OcrStatus,
                         tried: {"never", "before", "last"}]]
    /\ text \in [Docs -> SUBSET StoredKeys]
    /\ objects \subseteq StoredKeys
    /\ job \in [Jobs -> [state: {"none", "committed", "queued", "reading"}, doc: Docs \cup {NoDoc},
                         files: SUBSET StoredKeys, replace: BOOLEAN, generation: Nat,
                         attempts: {0, 1}, left: SUBSET StoredKeys, got: SUBSET StoredKeys,
                         failed: SUBSET StoredKeys, skipped: BOOLEAN]]
    /\ entitled \subseteq Docs /\ abandoned \subseteq Docs
    /\ page \in [Reviewers -> [doc: Docs \cup {NoDoc}, current: BOOLEAN,
                               state: {"absent", "active", "removed"}, status: OcrStatus,
                               text: SUBSET StoredKeys]]
    /\ purger \in [Purgers -> [todo: SUBSET Docs, doc: Docs \cup {NoDoc}, left: SUBSET StoredKeys,
                               keys: SUBSET StoredKeys, failed: Docs \cup {NoDoc}]]
    /\ unread \in [Docs -> SUBSET StoredKeys]

\* A document that is in the repository, or may still be brought back to it, has
\* every object: the purge deletes outside its transaction, after candidates it
\* read without a lock, beside reviewers who restore and other runs.
RestorableIsWhole ==
    \A d \in Docs :
        row[d].state = "active" \/ (row[d].state = "removed" /\ ~row[d].over)
        => FilesOf[d] \subseteq objects

\* No object outlives the last row that names it, although two runs may purge
\* two documents that share it, and either may fail halfway.
ObjectsHaveRows ==
    \A k \in objects : \E d \in Docs : row[d].state \in Kept /\ k \in FilesOf[d]

\* A document whose last word on some file was a failure says so: it carries the
\* mark, and is never shown as read, until a full retry has read every file.
FailureStaysVisible ==
    \A d \in Docs :
        /\ unread[d] # {} => row[d].marked
        /\ row[d].marked => row[d].status \notin {"DONE", "EMPTY"}

\* "Being read" is true: a task of the present generation is on its way, or the
\* queue has given up the last one that started.
BusyMeansTask ==
    \A d \in Docs :
        row[d].state \in Kept /\ row[d].status \in Busy =>
            \/ d \in abandoned
            \/ row[d].state = "active" /\ \E j \in Jobs :
                job[j].doc = d /\ job[j].generation = row[d].generation

\* A document is removed or restored only on a page that showed its state, its
\* status and its text as they are: tasks go on writing while the page is open.
DecidedOnWhatWasShown ==
    [][\A d \in Docs :
        {row[d].state, row'[d].state} = Kept =>
            \E u \in Reviewers :
                page[u].doc = d /\ page[u].state = row[d].state
                /\ page[u].status = row[d].status /\ page[u].text = text[d]]_repositoryVars

\* Saved text is lost only to a reading of the whole document that found none in
\* that file, or with the document; tasks of single files run side by side.
SavedTextIsKept ==
    \A d \in Docs : text[d] \ text'[d] # {} =>
        \/ row'[d].state = "gone"
        \/ \E j \in Jobs :
            /\ job[j].doc = d /\ job[j].replace /\ job[j].left = {} /\ ~Incomplete(j)
            /\ FilesOf[d] \subseteq job[j].files
            /\ job'[j].state = "none"

\* What was removed stays as it was: no task in flight writes to it.
RemovedIsStill ==
    \A d \in Docs : row[d].state = "removed" /\ row'[d].state = "removed" =>
        /\ text'[d] = text[d]
        /\ row'[d].status = row[d].status /\ row'[d].marked = row[d].marked
        /\ row'[d].generation = row[d].generation

\* A document and its objects go together.
DocumentsAreWhole == RestorableIsWhole /\ ObjectsHaveRows

\* What a document shows of its reading is so.
StatusIsTrue == FailureStaysVisible /\ BusyMeansTask

\* Tasks that read outside their transactions lose and spoil nothing.
TextIsKept == [][SavedTextIsKept /\ RemovedIsStill]_repositoryVars
=============================================================================
