----------------------------- MODULE StoresProofs -----------------------------
(***************************************************************************)
(* Theorems about the document repository, for any documents, objects,     *)
(* tasks, reviewers and runs of the purge; and about the row locks, for    *)
(* any connections and any rows.                                           *)
(*                                                                         *)
(* Every transaction takes its locks by turns: the lock of the account     *)
(* table, its own account, a second account under the first lock, then     *)
(* rows by table and primary key.  A transaction that holds what another   *)
(* asks for asks itself for something whose turn comes later, so nobody    *)
(* waits in a circle.                                                      *)
(***************************************************************************)
EXTENDS Repository, RowLocks, FiniteSetTheorems, SequenceTheorems, WellFoundedInduction, TLAPS

States == {"absent", "active", "removed", "gone"}
Tries == {"never", "before", "last"}

Row == [state: States, due: BOOLEAN, over: BOOLEAN, generation: Nat, marked: BOOLEAN,
        status: OcrStatus, tried: Tries]
JobType == [state: {"none", "committed", "queued", "reading"}, doc: Docs \cup {NoDoc},
            files: SUBSET StoredKeys, replace: BOOLEAN, generation: Nat, attempts: {0, 1},
            left: SUBSET StoredKeys, got: SUBSET StoredKeys, failed: SUBSET StoredKeys,
            skipped: BOOLEAN]
PageType == [doc: Docs \cup {NoDoc}, current: BOOLEAN, state: {"absent", "active", "removed"},
             status: OcrStatus, text: SUBSET StoredKeys]
PurgeType == [todo: SUBSET Docs, doc: Docs \cup {NoDoc}, left: SUBSET StoredKeys,
              keys: SUBSET StoredKeys, failed: Docs \cup {NoDoc}]

Typed ==
    /\ row \in [Docs -> Row] /\ text \in [Docs -> SUBSET StoredKeys]
    /\ objects \subseteq StoredKeys /\ job \in [Jobs -> JobType]
    /\ entitled \subseteq Docs /\ abandoned \subseteq Docs
    /\ page \in [Reviewers -> PageType] /\ purger \in [Purgers -> PurgeType]
    /\ unread \in [Docs -> SUBSET StoredKeys]

LEMMA TypeIs == (RepositoryTypeOK <=> Typed) /\ (RepositoryTypeOK' <=> Typed')
BY DEF RepositoryTypeOK, Typed, Row, JobType, PageType, PurgeType, States, Tries

\* A task is on its way for a document, or there is none; a full retry is one of
\* every file of the document.
JobsFit ==
    \A j \in Jobs :
        /\ job[j].state = "none" => job[j].doc = NoDoc /\ ~job[j].replace
        /\ job[j].state # "none" => job[j].doc \in Docs
        /\ job[j].replace => job[j].files = FilesOf[job[j].doc]

\* A page nobody wrote behind shows the document as it is.
PagesTrue ==
    \A u \in Reviewers : page[u].current =>
        LET d == page[u].doc IN
        /\ d \in Docs /\ row[d].state \in Kept
        /\ page[u].state = row[d].state /\ page[u].status = row[d].status
        /\ page[u].text = text[d]

\* What a run of the purge works on stays expired under its lock.
PurgeHolds(w) ==
    LET d == purger[w].doc IN
    /\ d = NoDoc => purger[w].left = {} /\ purger[w].keys = {}
    /\ d # NoDoc =>
        /\ row[d].state = "removed" /\ row[d].over
        /\ FilesOf[d] \subseteq purger[w].left \cup purger[w].keys
        /\ \A k \in purger[w].keys : k \notin objects \/ ReferencedElsewhere(d, k)

\* Two runs never work on one document, nor decide on one object.
PurgesApart ==
    \A v, w \in Purgers : v # w =>
        /\ purger[v].doc = purger[w].doc => purger[v].doc = NoDoc
        /\ purger[v].keys \cap purger[w].keys = {}

PurgesFit == (\A w \in Purgers : PurgeHolds(w)) /\ PurgesApart

RepositoryInv ==
    /\ Typed /\ JobsFit /\ PagesTrue /\ PurgesFit
    /\ RestorableIsWhole /\ ObjectsHaveRows /\ FailureStaysVisible /\ BusyMeansTask

USE RepositoryAssumption

-----------------------------------------------------------------------------
LEMMA InitRepositoryInv == RepositoryInit => RepositoryInv
<1> SUFFICES ASSUME RepositoryInit PROVE RepositoryInv
  OBVIOUS
<1> USE DEF RepositoryInit
<1>1. Typed
  BY DEF Typed, Row, States, Tries, JobType, PageType, PurgeType, OcrStatus, Busy, NoJob, NoPage, NoPurge
<1>2. JobsFit /\ PagesTrue /\ PurgesFit
  BY DEF JobsFit, PagesTrue, PurgesFit, PurgeHolds, PurgesApart, NoJob, NoPage, NoPurge
<1>3. RestorableIsWhole /\ ObjectsHaveRows /\ FailureStaysVisible /\ BusyMeansTask
  BY DEF RestorableIsWhole, ObjectsHaveRows, FailureStaysVisible, BusyMeansTask, Kept
<1> QED BY <1>1, <1>2, <1>3 DEF RepositoryInv

-----------------------------------------------------------------------------
(* Types *)

LEMMA WriteType ==
    ASSUME NEW d \in Docs, NEW new \in Row, Write(d, new),
           row \in [Docs -> Row], page \in [Reviewers -> PageType]
    PROVE  row' \in [Docs -> Row] /\ page' \in [Reviewers -> PageType]
<1>1. \A u \in Reviewers : [page[u] EXCEPT !.current = FALSE] \in PageType
  BY DEF PageType
<1> QED BY <1>1 DEF Write, Turned

LEMMA RowFields ==
    ASSUME NEW x \in Row
    PROVE  /\ x.generation \in Nat /\ x.generation + 1 \in Nat
           /\ x.marked \in BOOLEAN /\ x.status \in OcrStatus /\ x.state \in States
BY DEF Row

LEMMA RequestTypes ==
    ASSUME Typed, NEW d \in Docs,
           Upload(d) \/ Retry(d) \/ Entitle(d) \/ ComesDue(d) \/ RecoveryEnds(d)
    PROVE  Typed'
<1> USE DEF Typed
<1>0. row[d] \in Row
  OBVIOUS
<1>1. CASE Upload(d)
  <2>1. row' \in [Docs -> Row]
    BY <1>1 DEF Upload, Row, States
  <2>2. \A files \in SUBSET FilesOf[d], n \in Nat : Task(d, files, FALSE, n) \in JobType
    BY DEF Task, JobType, NoJob
  <2>3. row[d].generation \in Nat
    BY <1>0, RowFields
  <2>4. PICK new \in SUBSET Free : \E of \in [new -> SUBSET FilesOf[d]] :
            job' = [j \in Jobs |-> IF j \in new THEN Task(d, of[j], FALSE, row[d].generation)
                                  ELSE job[j]]
    BY <1>1 DEF Upload
  <2>7. PICK of \in [new -> SUBSET FilesOf[d]] :
            job' = [j \in Jobs |-> IF j \in new THEN Task(d, of[j], FALSE, row[d].generation)
                                  ELSE job[j]]
    BY <2>4
  <2>8. \A j \in new : Task(d, of[j], FALSE, row[d].generation) \in JobType
    BY <2>2, <2>3
  <2>6. job' \in [Jobs -> JobType]
    BY <2>7, <2>8
  <2>5. objects' \subseteq StoredKeys
    BY <1>1 DEF Upload
  <2> QED BY <1>1, <2>1, <2>5, <2>6 DEF Upload
<1>2. CASE Retry(d)
  <2> DEFINE mark == row[d].marked \/ row[d].status = "FAILED"
             next == row[d].generation + 1
             new == [row[d] EXCEPT !.marked = mark, !.status = "PENDING", !.generation = next]
  <2>0. mark \in BOOLEAN /\ next \in Nat /\ "PENDING" \in OcrStatus
    BY <1>0, RowFields DEF OcrStatus, Busy
  <2>1. new \in Row
    <3> HIDE DEF mark, next
    <3> QED BY <1>0, <2>0 DEF Row
  <2>2. Write(d, new)
    BY <1>2 DEF Retry
  <2> HIDE DEF new
  <2>3. row' \in [Docs -> Row] /\ page' \in [Reviewers -> PageType]
    BY <2>1, <2>2, WriteType
  <2>4. \A n \in Nat : Task(d, FilesOf[d], TRUE, n) \in JobType
    BY DEF Task, JobType, NoJob
  <2>5. row[d].generation + 1 \in Nat
    BY <1>0, RowFields
  <2>6. job' \in [Jobs -> JobType]
    BY <1>2, <2>4, <2>5 DEF Retry, Free
  <2> QED BY <1>2, <2>3, <2>6 DEF Retry
<1>3. CASE Entitle(d)
  BY <1>3 DEF Entitle
<1>4. CASE ComesDue(d) \/ RecoveryEnds(d)
  <2> DEFINE due == [row[d] EXCEPT !.due = TRUE]
             over == [row[d] EXCEPT !.over = TRUE]
  <2>1. due \in Row /\ over \in Row
    BY <1>0 DEF Row
  <2>2. row' = [row EXCEPT ![d] = due] \/ row' = [row EXCEPT ![d] = over]
    BY <1>4 DEF ComesDue, RecoveryEnds
  <2> HIDE DEF due, over
  <2>3. row' \in [Docs -> Row]
    BY <2>1, <2>2
  <2> QED BY <1>4, <2>3 DEF ComesDue, RecoveryEnds
<1> QED BY <1>1, <1>2, <1>3, <1>4

LEMMA TaskEnds ==
    ASSUME NEW j \in Jobs, job \in [Jobs -> JobType], EndTask(j) \/ Again(j) \/ GivenUp(j)
    PROVE  job' \in [Jobs -> JobType]
<1>1. NoJob \in JobType /\ job[j] \in JobType
  BY DEF NoJob, JobType
<1> DEFINE queued == [job[j] EXCEPT !.state = "queued", !.attempts = 1]
<1>2. queued \in JobType
  BY <1>1 DEF JobType
<1>3. Again(j) => job' = [job EXCEPT ![j] = queued]
  BY DEF Again
<1> HIDE DEF queued
<1> QED BY <1>1, <1>2, <1>3 DEF EndTask, GivenUp

\* What a step of a task writes.
LEMMA FailingType ==
    ASSUME NEW d \in Docs, row[d] \in Row
    PROVE  /\ Failing(d) \in Row /\ [Failing(d) EXCEPT !.status = "SKIPPED"] \in Row
           /\ Failing(d).state = row[d].state /\ Failing(d).marked /\ Failing(d).status = "FAILED"
           /\ Failing(d).over = row[d].over /\ Failing(d).generation = row[d].generation
BY DEF Failing, Row, OcrStatus

LEMMA CombinedType ==
    ASSUME NEW j \in Jobs, job[j] \in JobType, text \in [Docs -> SUBSET StoredKeys],
           job[j].doc \in Docs
    PROVE  Combined(j) \in SUBSET StoredKeys /\ ReadStatus(j) \in OcrStatus
BY DEF Combined, ReadStatus, JobType, OcrStatus

LEMMA UnreadType ==
    ASSUME NEW d \in Docs, NEW files \in SUBSET StoredKeys,
           unread \in [Docs -> SUBSET StoredKeys], Unread(d, files)
    PROVE  unread' \in [Docs -> SUBSET StoredKeys]
BY DEF Unread

LEMMA JobTypes ==
    ASSUME Typed, JobsFit, NEW j \in Jobs, JobStep(j)
    PROVE  Typed'
<1> USE DEF Typed
<1> DEFINE d == job[j].doc
<1>0. /\ job[j] \in JobType /\ job[j].files \in SUBSET StoredKeys
      /\ job[j].failed \in SUBSET StoredKeys
  BY DEF JobType
<1>01. job[j].state # "none" => d \in Docs /\ row[d] \in Row
  BY DEF JobsFit
<1>1. CASE Submit(j)
  <2> DEFINE queued == [job[j] EXCEPT !.state = "queued"]
  <2>1. queued \in JobType
    BY <1>0 DEF JobType
  <2>2. job' = [job EXCEPT ![j] = queued]
    BY <1>1 DEF Submit
  <2> HIDE DEF queued
  <2> QED BY <1>1, <2>1, <2>2 DEF Submit
<1>2. CASE QueueFails(j) \/ FinishFails(j)
  <2>1. d \in Docs /\ row[d] \in Row
    BY <1>01, <1>2 DEF QueueFails, FinishFails
  <2>2. \/ Write(d, Failing(d)) /\ Unread(d, job[j].files)
        \/ UNCHANGED <<row, page, unread>>
    BY <1>2 DEF QueueFails, FinishFails
  <2>3. row' \in [Docs -> Row] /\ page' \in [Reviewers -> PageType]
    <3> HIDE DEF d
    <3> QED BY <2>1, <2>2, WriteType, FailingType
  <2>4. unread' \in [Docs -> SUBSET StoredKeys]
    <3> HIDE DEF d
    <3> QED BY <1>0, <2>1, <2>2, UnreadType
  <2>5. job' \in [Jobs -> JobType]
    BY <1>2, TaskEnds DEF QueueFails, FinishFails, EndTask
  <2> QED BY <1>2, <2>3, <2>4, <2>5 DEF QueueFails, FinishFails
<1>3. CASE Drop(j)
  BY <1>3, TaskEnds DEF Drop
<1>4. CASE Cancel(j)
  <2>1. d \in Docs /\ row[d] \in Row
    BY <1>01, <1>4 DEF Cancel
  <2>2. \/ Write(d, [Failing(d) EXCEPT !.status = "SKIPPED"]) /\ Unread(d, job[j].files)
        \/ UNCHANGED <<row, page, unread>>
    BY <1>4 DEF Cancel
  <2> DEFINE skipped == [Failing(d) EXCEPT !.status = "SKIPPED"]
  <2>3. row' \in [Docs -> Row] /\ page' \in [Reviewers -> PageType]
    <3>1. skipped \in Row
      BY <2>1, FailingType
    <3> HIDE DEF d, skipped
    <3> QED BY <2>1, <2>2, <3>1, WriteType DEF skipped
  <2>4. unread' \in [Docs -> SUBSET StoredKeys]
    <3> HIDE DEF d
    <3> QED BY <1>0, <2>1, <2>2, UnreadType
  <2> QED BY <1>4, <2>3, <2>4, TaskEnds DEF Cancel
<1>5. CASE Start(j)
  <2> DEFINE mark == row[d].marked \/ row[d].status = "FAILED"
             new == [row[d] EXCEPT !.marked = mark, !.status = "RUNNING"]
             reading == [job[j] EXCEPT !.state = "reading", !.left = job[j].files,
                                       !.got = {}, !.failed = {}, !.skipped = FALSE]
  <2>1. d \in Docs /\ row[d] \in Row
    BY <1>01, <1>5 DEF Start
  <2>2. new \in Row
    <3>1. mark \in BOOLEAN
      BY <2>1, RowFields
    <3> HIDE DEF mark
    <3> QED BY <2>1, <3>1 DEF Row, OcrStatus, Busy
  <2>3. reading \in JobType
    BY <1>0 DEF JobType
  <2>4. Write(d, new) /\ job' = [job EXCEPT ![j] = reading]
    BY <1>5 DEF Start
  <2> HIDE DEF d, new, reading
  <2>5. row' \in [Docs -> Row] /\ page' \in [Reviewers -> PageType]
    BY <2>1, <2>2, <2>4, WriteType
  <2>6. UNCHANGED <<text, objects, entitled, purger, unread>> /\ abandoned' \subseteq abandoned
    BY <1>5 DEF Start
  <2> QED BY <2>3, <2>4, <2>5, <2>6
<1>6. ASSUME NEW k \in StoredKeys, Read(j, k) PROVE Typed'
  <2>1. PICK answer \in {"text", "empty", "failed", "skipped"} :
            job' = [job EXCEPT ![j].left = @ \ {k},
                     ![j].got = IF answer = "text" THEN @ \cup {k} ELSE @,
                     ![j].failed = IF answer = "failed" THEN @ \cup {k} ELSE @,
                     ![j].skipped = @ \/ answer = "skipped"]
    BY <1>6 DEF Read
  <2> DEFINE left == job[j].left \ {k}
             got == IF answer = "text" THEN job[j].got \cup {k} ELSE job[j].got
             failed == IF answer = "failed" THEN job[j].failed \cup {k} ELSE job[j].failed
             skipped == job[j].skipped \/ answer = "skipped"
             new == [job[j] EXCEPT !.left = left, !.got = got, !.failed = failed,
                                   !.skipped = skipped]
  <2>2. left \subseteq StoredKeys /\ got \subseteq StoredKeys /\ failed \subseteq StoredKeys
        /\ skipped \in BOOLEAN
    BY <1>0 DEF JobType
  <2>3. job' = [job EXCEPT ![j] = new]
    BY <2>1
  <2>4. new \in JobType
    <3> HIDE DEF left, got, failed, skipped
    <3> QED BY <1>0, <2>2 DEF JobType
  <2> HIDE DEF new
  <2> QED BY <1>6, <2>3, <2>4 DEF Read
<1>7. CASE Finish(j)
  <2> DEFINE whole == job[j].replace /\ ~Incomplete(j)
             mark == row[d].marked /\ ~whole
             next == IF whole THEN row[d].generation + 1 ELSE row[d].generation
             status == ReadStatus(j)
             read == [row[d] EXCEPT !.status = status, !.marked = mark, !.generation = next]
  <2>1. d \in Docs /\ row[d] \in Row
    BY <1>01, <1>7 DEF Finish
  <2>2. read \in Row
    <3>1. mark \in BOOLEAN /\ next \in Nat /\ status \in OcrStatus
      BY <1>0, <2>1, RowFields, CombinedType
    <3> HIDE DEF mark, next, status
    <3> QED BY <2>1, <3>1 DEF Row
  <2>3. Write(d, Failing(d)) \/ Write(d, read)
    BY <1>7 DEF Finish
  <2>4. row' \in [Docs -> Row] /\ page' \in [Reviewers -> PageType]
    <3> HIDE DEF d, read
    <3> QED BY <2>1, <2>2, <2>3, WriteType, FailingType
  <2>5. text' \in [Docs -> SUBSET StoredKeys]
    BY <1>0, <1>7, <2>1, CombinedType DEF Finish
  <2>6. unread' \in [Docs -> SUBSET StoredKeys]
    BY <1>0, <1>7, <2>1 DEF Finish
  <2> QED BY <1>7, <2>4, <2>5, <2>6, TaskEnds DEF Finish
<1>8. CASE Killed(j)
  BY <1>01, <1>8, TaskEnds DEF Killed
<1> QED BY <1>1, <1>2, <1>3, <1>4, <1>5, <1>6, <1>7, <1>8 DEF JobStep

LEMMA ReviewTypes ==
    ASSUME Typed, NEW u \in Reviewers, NEW d \in Docs, ReviewStep(u, d)
    PROVE  Typed'
<1> USE DEF Typed
<1>0. row[d] \in Row /\ text[d] \in SUBSET StoredKeys /\ row[d].status \in OcrStatus
  BY RowFields
<1>1. CASE OpenReview(u, d)
  <2> DEFINE shown == [doc |-> d, current |-> TRUE, state |-> row[d].state,
                       status |-> row[d].status, text |-> text[d]]
  <2>1. shown \in PageType /\ page' = [page EXCEPT ![u] = shown]
    BY <1>0, <1>1 DEF OpenReview, PageType, Kept
  <2> HIDE DEF shown
  <2> QED BY <1>1, <2>1 DEF OpenReview
<1>2. CASE Retain(u, d)
  <2> DEFINE new == [row[d] EXCEPT !.due = FALSE, !.tried = "never"]
  <2>1. new \in Row /\ Write(d, new)
    BY <1>0, <1>2 DEF Retain, Row, Tries
  <2> HIDE DEF new
  <2> QED BY <1>2, <2>1, WriteType DEF Retain
<1>3. CASE RemoveDocument(u, d)
  <2> DEFINE status == IF row[d].status \in Busy THEN "SKIPPED" ELSE row[d].status
             new == [row[d] EXCEPT !.state = "removed", !.over = FALSE, !.tried = "never",
                                   !.status = status]
  <2>1. status \in OcrStatus
    BY <1>0 DEF OcrStatus
  <2>2. Write(d, new)
    BY <1>3 DEF RemoveDocument
  <2>3. new \in Row
    <3> HIDE DEF status
    <3> QED BY <1>0, <2>1 DEF Row, Tries, States
  <2> HIDE DEF new
  <2>4. row' \in [Docs -> Row] /\ page' \in [Reviewers -> PageType]
    BY <2>2, <2>3, WriteType
  <2>5. UNCHANGED <<text, objects, job, entitled, purger, unread, abandoned>>
    BY <1>3 DEF RemoveDocument
  <2> QED BY <2>4, <2>5
<1>4. CASE Restore(u, d)
  <2> DEFINE new == [row[d] EXCEPT !.state = "active", !.due = FALSE, !.tried = "never"]
  <2>1. new \in Row /\ Write(d, new)
    BY <1>0, <1>4 DEF Restore, Row, Tries, States
  <2> HIDE DEF new
  <2> QED BY <1>4, <2>1, WriteType DEF Restore
<1> QED BY <1>1, <1>2, <1>3, <1>4 DEF ReviewStep

LEMMA PurgeTypes ==
    ASSUME Typed, NEW w \in Purgers, PurgeStep(w)
    PROVE  Typed'
<1> USE DEF Typed
<1> DEFINE d == purger[w].doc
<1>0. /\ purger[w] \in PurgeType /\ d \in Docs \cup {NoDoc} /\ NoPurge \in PurgeType
      /\ purger[w].todo \subseteq Docs /\ purger[w].failed \in Docs \cup {NoDoc}
      /\ purger[w].keys \subseteq StoredKeys
  BY DEF PurgeType, NoPurge
<1>1. CASE PurgeStart(w)
  <2>1. PICK b \in SUBSET Docs : purger' = [purger EXCEPT ![w].todo = b]
    BY <1>1 DEF PurgeStart, Batches, Expired
  <2> DEFINE new == [purger[w] EXCEPT !.todo = b]
  <2>2. new \in PurgeType /\ purger' = [purger EXCEPT ![w] = new]
    BY <1>0, <2>1 DEF PurgeType
  <2> HIDE DEF new
  <2> QED BY <1>1, <2>2 DEF PurgeStart
<1>2. ASSUME NEW e \in Docs, PurgeOpen(w, e) PROVE Typed'
  <2> DEFINE todo == purger[w].todo \ {e}
             left == FilesOf[e]
             new == [purger[w] EXCEPT !.todo = todo, !.doc = e, !.left = left]
             past == [purger[w] EXCEPT !.todo = todo]
  <2>1. todo \subseteq Docs /\ left \subseteq StoredKeys
    BY <1>0
  <2>2. new \in PurgeType /\ past \in PurgeType
    <3> HIDE DEF todo, left
    <3> QED BY <1>0, <2>1 DEF PurgeType
  <2>3. purger' = [purger EXCEPT ![w] = new] \/ purger' = [purger EXCEPT ![w] = past]
    BY <1>2 DEF PurgeOpen, Open
  <2> HIDE DEF new, past
  <2> QED BY <1>2, <2>2, <2>3 DEF PurgeOpen
<1>3. ASSUME NEW k \in StoredKeys, PurgeObject(w, k) PROVE Typed'
  <2> DEFINE left == purger[w].left \ {k}
             keys == purger[w].keys \cup {k}
             new == [purger[w] EXCEPT !.left = left, !.keys = keys]
  <2>1. left \subseteq StoredKeys /\ keys \subseteq StoredKeys
    BY <1>0 DEF PurgeType
  <2>2. new \in PurgeType
    <3> HIDE DEF left, keys
    <3> QED BY <1>0, <2>1 DEF PurgeType
  <2>3. purger' = [purger EXCEPT ![w] = new]
    BY <1>3 DEF PurgeObject
  <2> HIDE DEF new
  <2> QED BY <1>3, <2>2, <2>3 DEF PurgeObject
<1>4. CASE PurgeCommit(w) \/ PurgeFails(w)
  <2> DEFINE todo == purger[w].todo
             done == [NoPurge EXCEPT !.todo = todo]
             failing == [NoPurge EXCEPT !.todo = todo, !.failed = d]
             gone == [row[d] EXCEPT !.state = "gone", !.marked = FALSE]
  <2>1. d \in Docs /\ row[d] \in Row
    BY <1>0, <1>4 DEF PurgeCommit, PurgeFails
  <2>2. done \in PurgeType /\ failing \in PurgeType
    <3> HIDE DEF todo, d
    <3>1. todo \subseteq Docs
      BY <1>0 DEF todo
    <3> QED BY <1>0, <2>1, <3>1 DEF PurgeType
  <2>3. gone \in Row
    <3> HIDE DEF d
    <3> QED BY <2>1 DEF Row, States
  <2>4. CASE PurgeCommit(w)
    <3>1. /\ row' = [row EXCEPT ![d] = gone] /\ purger' = [purger EXCEPT ![w] = done]
          /\ page' = Turned(d)
      BY <2>4 DEF PurgeCommit
    <3>2. Write(d, gone)
      BY <3>1 DEF Write
    <3> HIDE DEF d, gone, done
    <3>3. row' \in [Docs -> Row] /\ page' \in [Reviewers -> PageType]
      BY <2>1, <2>3, <3>2, WriteType
    <3> QED BY <2>1, <2>2, <2>4, <3>1, <3>3 DEF PurgeCommit, d
  <2>5. CASE PurgeFails(w)
    <3>1. purger' = [purger EXCEPT ![w] = failing]
      BY <2>5 DEF PurgeFails
    <3> HIDE DEF failing
    <3> QED BY <2>2, <2>5, <3>1 DEF PurgeFails
  <2> QED BY <1>4, <2>4, <2>5
<1>5. CASE PurgeMark(w)
  <2> DEFINE new == [purger[w] EXCEPT !.failed = NoDoc]
  <2>1. new \in PurgeType /\ purger' = [purger EXCEPT ![w] = new]
    BY <1>0, <1>5 DEF PurgeMark, PurgeType
  <2>2. \A e \in Docs : [row[e] EXCEPT !.tried = "last"] \in Row
                        /\ [row[e] EXCEPT !.tried = "before"] \in Row
    BY DEF Row, Tries
  <2>3. row' \in [Docs -> Row]
    BY <1>5, <2>2 DEF PurgeMark
  <2> HIDE DEF new
  <2> QED BY <1>5, <2>1, <2>3 DEF PurgeMark
<1>6. CASE PurgeKilled(w)
  BY <1>0, <1>6 DEF PurgeKilled
<1> QED BY <1>1, <1>2, <1>3, <1>4, <1>5, <1>6 DEF PurgeStep

LEMMA NextTypes == Typed /\ JobsFit /\ [RepositoryNext]_repositoryVars => Typed'
<1>1. Typed /\ UNCHANGED repositoryVars => Typed'
  BY DEF Typed, repositoryVars
<1> QED BY <1>1, RequestTypes, JobTypes, ReviewTypes, PurgeTypes DEF RepositoryNext

-----------------------------------------------------------------------------
(* Documents and their objects *)

\* A document stays where it is; its recovery period may end.
Stays(d) ==
    /\ row'[d].state = row[d].state
    /\ row'[d].over = row[d].over \/ (row[d].state = "removed" /\ ~row[d].over)

\* What requests, tasks and reviewers do to a document's place: it is removed
\* with its recovery period before it, or restored before that is over.
Moves(d) ==
    \/ Stays(d)
    \/ row[d].state = "active" /\ row'[d].state = "removed" /\ ~row'[d].over
    \/ row[d].state = "removed" /\ ~row[d].over /\ row'[d].state = "active"

Still == objects' = objects /\ purger' = purger /\ \A d \in Docs : Stays(d)
Quiet == objects' = objects /\ purger' = purger /\ \A d \in Docs : Moves(d)

LEMMA WriteStays ==
    ASSUME NEW d \in Docs, NEW new \in Row, Write(d, new), row \in [Docs -> Row],
           new.state = row[d].state, new.over = row[d].over
    PROVE  \A e \in Docs : Stays(e)
BY DEF Write, Stays

LEMMA JobIsStill == ASSUME Typed, JobsFit, NEW j \in Jobs, JobStep(j) PROVE Still
<1> USE DEF Typed
<1> DEFINE d == job[j].doc
<1>01. job[j].state # "none" => d \in Docs /\ row[d] \in Row
  BY DEF JobsFit
<1>0. UNCHANGED row => \A e \in Docs : Stays(e)
  BY DEF Stays
<1>1. CASE Submit(j) \/ Drop(j) \/ Killed(j)
  BY <1>0, <1>1 DEF Submit, Drop, Killed, Still
<1>2. CASE QueueFails(j) \/ FinishFails(j)
  <2>1. d \in Docs /\ row[d] \in Row
    BY <1>01, <1>2 DEF QueueFails, FinishFails
  <2>2. Write(d, Failing(d)) \/ UNCHANGED row
    BY <1>2 DEF QueueFails, FinishFails
  <2>3. \A e \in Docs : Stays(e)
    <3> HIDE DEF d
    <3> QED BY <1>0, <2>1, <2>2, FailingType, WriteStays
  <2> QED BY <1>2, <2>3 DEF QueueFails, FinishFails, Still
<1>3. CASE Cancel(j)
  <2> DEFINE new == [Failing(d) EXCEPT !.status = "SKIPPED"]
  <2>1. d \in Docs /\ row[d] \in Row
    BY <1>01, <1>3 DEF Cancel
  <2>2. Write(d, new) \/ UNCHANGED row
    BY <1>3 DEF Cancel
  <2>3. new \in Row /\ new.state = row[d].state /\ new.over = row[d].over
    <3> HIDE DEF d
    <3> QED BY <2>1, FailingType DEF Row
  <2> HIDE DEF new, d
  <2>4. \A e \in Docs : Stays(e)
    BY <1>0, <2>1, <2>2, <2>3, WriteStays
  <2> QED BY <1>3, <2>4 DEF Cancel, Still
<1>4. CASE Start(j)
  <2> DEFINE mark == row[d].marked \/ row[d].status = "FAILED"
             new == [row[d] EXCEPT !.marked = mark, !.status = "RUNNING"]
  <2>1. d \in Docs /\ row[d] \in Row
    BY <1>01, <1>4 DEF Start
  <2>2. Write(d, new) /\ objects' = objects /\ purger' = purger
    BY <1>4 DEF Start
  <2>3. mark \in BOOLEAN
    BY <2>1, RowFields
  <2>4. new \in Row /\ new.state = row[d].state /\ new.over = row[d].over
    <3> HIDE DEF d, mark
    <3> QED BY <2>1, <2>3 DEF Row, OcrStatus, Busy
  <2> HIDE DEF new, d
  <2> QED BY <2>1, <2>2, <2>4, WriteStays DEF Still
<1>5. ASSUME NEW k \in StoredKeys, Read(j, k) PROVE Still
  BY <1>0, <1>5 DEF Read, Still
<1>6. CASE Finish(j)
  <2> DEFINE whole == job[j].replace /\ ~Incomplete(j)
             mark == row[d].marked /\ ~whole
             next == IF whole THEN row[d].generation + 1 ELSE row[d].generation
             status == ReadStatus(j)
             read == [row[d] EXCEPT !.status = status, !.marked = mark, !.generation = next]
  <2>1. d \in Docs /\ row[d] \in Row /\ job[j] \in JobType
    BY <1>01, <1>6 DEF Finish
  <2>2. Write(d, Failing(d)) \/ Write(d, read)
    BY <1>6 DEF Finish
  <2>3. objects' = objects /\ purger' = purger
    BY <1>6 DEF Finish
  <2>4. mark \in BOOLEAN /\ next \in Nat /\ status \in OcrStatus
    BY <2>1, RowFields, CombinedType
  <2>5. read \in Row /\ read.state = row[d].state /\ read.over = row[d].over
    <3> HIDE DEF mark, next, status, d
    <3> QED BY <2>1, <2>4 DEF Row
  <2> HIDE DEF read, d
  <2> QED BY <2>1, <2>2, <2>3, <2>5, FailingType, WriteStays DEF Still
<1> QED BY <1>1, <1>2, <1>3, <1>4, <1>5, <1>6 DEF JobStep

LEMMA RequestIsStill ==
    ASSUME Typed, NEW d \in Docs, Retry(d) \/ Entitle(d) \/ ComesDue(d) \/ RecoveryEnds(d)
    PROVE  Still
<1> USE DEF Typed
<1>0. row[d] \in Row
  OBVIOUS
<1>1. CASE Retry(d)
  <2> DEFINE mark == row[d].marked \/ row[d].status = "FAILED"
             next == row[d].generation + 1
             new == [row[d] EXCEPT !.marked = mark, !.status = "PENDING", !.generation = next]
  <2>0. mark \in BOOLEAN /\ next \in Nat /\ "PENDING" \in OcrStatus
    BY <1>0, RowFields DEF OcrStatus, Busy
  <2>1. new \in Row /\ new.state = row[d].state /\ new.over = row[d].over
    <3> HIDE DEF mark, next
    <3> QED BY <1>0, <2>0 DEF Row
  <2>2. Write(d, new) /\ objects' = objects /\ purger' = purger
    BY <1>1 DEF Retry
  <2> HIDE DEF new
  <2> QED BY <2>1, <2>2, WriteStays DEF Still
<1>2. CASE Entitle(d)
  BY <1>2 DEF Entitle, Still, Stays
<1>3. CASE ComesDue(d)
  BY <1>0, <1>3 DEF ComesDue, Still, Stays, Row
<1>4. CASE RecoveryEnds(d)
  BY <1>0, <1>4 DEF RecoveryEnds, Still, Stays, Row
<1> QED BY <1>1, <1>2, <1>3, <1>4

LEMMA StillIsQuiet == Still => Quiet
BY DEF Still, Quiet, Moves

LEMMA ReviewIsQuiet ==
    ASSUME Typed, NEW u \in Reviewers, NEW d \in Docs, ReviewStep(u, d)
    PROVE  Quiet
<1> USE DEF Typed
<1>0. row[d] \in Row
  OBVIOUS
<1>1. CASE OpenReview(u, d)
  BY <1>1 DEF OpenReview, Quiet, Moves, Stays
<1>2. CASE Retain(u, d)
  BY <1>0, <1>2 DEF Retain, Write, Quiet, Moves, Stays, Row
<1>3. CASE RemoveDocument(u, d)
  BY <1>0, <1>3 DEF RemoveDocument, Write, Quiet, Moves, Stays, Row
<1>4. CASE Restore(u, d)
  BY <1>0, <1>4 DEF Restore, Write, Quiet, Moves, Stays, Row
<1> QED BY <1>1, <1>2, <1>3, <1>4 DEF ReviewStep

StoreInv == PurgesFit /\ RestorableIsWhole /\ ObjectsHaveRows

\* Nothing but an upload and the purge touches the store, and no document under
\* the purge's lock moves.
LEMMA QuietStoreInv == ASSUME Typed, StoreInv, Quiet PROVE StoreInv'
<1> USE DEF StoreInv, Quiet, PurgesFit
<1>1. \A d \in Docs : /\ row[d].state \in Kept => row'[d].state \in Kept
                      /\ row[d].state = "removed" /\ row[d].over
                            => row'[d].state = "removed" /\ row'[d].over
  BY DEF Moves, Stays, Kept
<1>2. ASSUME NEW w \in Purgers PROVE PurgeHolds(w)'
  <2>1. PurgeHolds(w) /\ purger[w].doc \in Docs \cup {NoDoc}
    BY DEF Typed, PurgeType
  <2> QED BY <1>1, <2>1 DEF PurgeHolds, ReferencedElsewhere
<1>3. PurgesApart'
  BY DEF PurgesApart
<1>4. RestorableIsWhole'
  BY DEF RestorableIsWhole, Moves, Stays
<1>5. ObjectsHaveRows'
  BY <1>1 DEF ObjectsHaveRows
<1> QED BY <1>2, <1>3, <1>4, <1>5

LEMMA UploadStoreInv == ASSUME Typed, StoreInv, NEW d \in Docs, Upload(d) PROVE StoreInv'
<1> USE DEF StoreInv, PurgesFit, Typed
<1>1. /\ row[d].state = "absent" /\ row'[d].state = "active" /\ purger' = purger
      /\ objects' = objects \cup FilesOf[d]
      /\ \A e \in Docs \ {d} : row'[e] = row[e]
  BY DEF Upload, Row
<1>2. ASSUME NEW w \in Purgers PROVE PurgeHolds(w)'
  <2>1. PurgeHolds(w) /\ purger[w].doc \in Docs \cup {NoDoc}
    BY DEF PurgeType
  <2>2. \A e \in Docs \ {d}, k \in StoredKeys :
            k \notin objects \/ ReferencedElsewhere(e, k)
                => k \notin objects' \/ ReferencedElsewhere(e, k)'
    BY <1>1 DEF ReferencedElsewhere, Kept
  <2>3. purger[w].doc # NoDoc => purger[w].doc \in Docs \ {d}
    BY <1>1, <2>1 DEF PurgeHolds
  <2>4. purger[w].keys \subseteq StoredKeys
    BY DEF PurgeType
  <2> QED BY <1>1, <2>1, <2>2, <2>3, <2>4 DEF PurgeHolds
<1>3. PurgesApart'
  BY <1>1 DEF PurgesApart
<1>4. RestorableIsWhole'
  BY <1>1 DEF RestorableIsWhole
<1>5. ObjectsHaveRows'
  BY <1>1 DEF ObjectsHaveRows, Kept
<1> QED BY <1>2, <1>3, <1>4, <1>5

LEMMA PurgeStoreInv == ASSUME Typed, StoreInv, NEW w \in Purgers, PurgeStep(w) PROVE StoreInv'
<1> USE DEF StoreInv, PurgesFit, Typed
<1> DEFINE d == purger[w].doc
<1>0. /\ purger[w] \in PurgeType /\ d \in Docs \cup {NoDoc} /\ PurgeHolds(w)
      /\ NoPurge.doc = NoDoc /\ NoPurge.left = {} /\ NoPurge.keys = {}
      /\ \A v \in Purgers : purger[v].doc \in Docs \cup {NoDoc} /\ purger[v].keys \subseteq StoredKeys
  BY DEF PurgeType, NoPurge
\* Steps after which w holds what it held, or nothing.
<1>1. ASSUME UNCHANGED objects,
             \A e \in Docs : row'[e].state = row[e].state /\ row'[e].over = row[e].over,
             \A v \in Purgers \ {w} : purger'[v] = purger[v],
             \/ purger'[w].doc = d /\ purger'[w].keys = purger[w].keys
                    /\ purger'[w].left = purger[w].left
             \/ purger'[w].doc = NoDoc /\ purger'[w].left = {} /\ purger'[w].keys = {}
      PROVE  StoreInv'
  <2>1. ASSUME NEW v \in Purgers PROVE PurgeHolds(v)'
    <3>1. PurgeHolds(v)
      OBVIOUS
    <3>2. \A e, k : ReferencedElsewhere(e, k) <=> ReferencedElsewhere(e, k)'
      BY <1>1 DEF ReferencedElsewhere
    <3> QED BY <1>0, <1>1, <3>1, <3>2 DEF PurgeHolds
  <2>2. PurgesApart'
    BY <1>1 DEF PurgesApart
  <2>3. RestorableIsWhole' /\ ObjectsHaveRows'
    BY <1>1 DEF RestorableIsWhole, ObjectsHaveRows
  <2> QED BY <2>1, <2>2, <2>3
<1>2. CASE PurgeStart(w)
  <2>1. PICK b : purger' = [purger EXCEPT ![w].todo = b]
    BY <1>2 DEF PurgeStart
  <2> QED BY <1>0, <1>1, <1>2, <2>1 DEF PurgeStart, PurgeType
<1>3. CASE PurgeFails(w) \/ PurgeKilled(w)
  <2>1. /\ purger'[w].doc = NoDoc /\ purger'[w].left = {} /\ purger'[w].keys = {}
        /\ \A v \in Purgers \ {w} : purger'[v] = purger[v]
        /\ UNCHANGED <<row, objects>>
    <3>1. CASE PurgeFails(w)
      BY <3>1 DEF PurgeFails, NoPurge
    <3>2. CASE PurgeKilled(w)
      BY <1>0, <3>2 DEF PurgeKilled
    <3> QED BY <1>3, <3>1, <3>2
  <2> HIDE DEF d
  <2> QED BY <1>1, <2>1
<1>4. CASE PurgeMark(w)
  <2>1. /\ purger'[w].doc = d /\ purger'[w].keys = purger[w].keys
        /\ purger'[w].left = purger[w].left /\ UNCHANGED objects
        /\ \A v \in Purgers \ {w} : purger'[v] = purger[v]
    BY <1>0, <1>4 DEF PurgeMark, PurgeType
  <2>2. ASSUME NEW e \in Docs PROVE row'[e].state = row[e].state /\ row'[e].over = row[e].over
    <3>1. row[e] \in Row
      OBVIOUS
    <3> QED BY <1>4, <3>1 DEF PurgeMark, Row
  <2> HIDE DEF d
  <2> QED BY <1>1, <2>1, <2>2
<1>5. ASSUME NEW e \in Docs, PurgeOpen(w, e) PROVE StoreInv'
  <2>1. CASE e \notin Expired
    <3>1. purger' = [purger EXCEPT ![w] = [purger[w] EXCEPT !.todo = @ \ {e}]]
      BY <1>5, <2>1 DEF PurgeOpen
    <3>2. /\ purger'[w].doc = d /\ purger'[w].keys = purger[w].keys
          /\ purger'[w].left = purger[w].left
          /\ \A v \in Purgers \ {w} : purger'[v] = purger[v]
      BY <1>0, <3>1 DEF PurgeType
    <3>3. UNCHANGED <<row, objects>>
      BY <1>5 DEF PurgeOpen
    <3> HIDE DEF d
    <3> QED BY <1>1, <3>2, <3>3
  <2>2. CASE e \in Expired
    <3>1. /\ purger'[w].doc = e /\ purger'[w].keys = {} /\ purger'[w].left = FilesOf[e]
          /\ \A v \in Purgers \ {w} : purger'[v] = purger[v]
          /\ UNCHANGED <<row, objects>>
      BY <1>0, <1>5, <2>2 DEF PurgeOpen, Open, PurgeType, PurgeHolds
    <3>2. row[e].state = "removed" /\ row[e].over /\ \A v \in Purgers : purger[v].doc # e
      BY <1>5, <2>2 DEF PurgeOpen, Locked, Expired
    <3>3. ASSUME NEW v \in Purgers PROVE PurgeHolds(v)'
      <4>1. PurgeHolds(v)
        OBVIOUS
      <4>2. \A c, k : ReferencedElsewhere(c, k) <=> ReferencedElsewhere(c, k)'
        BY <3>1 DEF ReferencedElsewhere
      <4> QED BY <1>0, <3>1, <3>2, <4>1, <4>2 DEF PurgeHolds
    <3>4. PurgesApart'
      BY <3>1, <3>2 DEF PurgesApart
    <3>5. RestorableIsWhole' /\ ObjectsHaveRows'
      BY <3>1 DEF RestorableIsWhole, ObjectsHaveRows
    <3> QED BY <3>3, <3>4, <3>5
  <2> QED BY <2>1, <2>2
<1>6. ASSUME NEW k \in StoredKeys, PurgeObject(w, k) PROVE StoreInv'
  <2>1. /\ purger'[w].doc = d /\ purger'[w].keys = purger[w].keys \cup {k}
        /\ purger'[w].left = purger[w].left \ {k}
        /\ \A v \in Purgers \ {w} : purger'[v] = purger[v]
        /\ row' = row
    BY <1>0, <1>6 DEF PurgeObject, PurgeType
  <2>2. /\ \A v \in Purgers \ {w} : k \notin purger[v].keys
        /\ objects' = IF ReferencedElsewhere(d, k) THEN objects ELSE objects \ {k}
    BY <1>6 DEF PurgeObject, KeyIsFree
  <2>3. \A c, q : ReferencedElsewhere(c, q) <=> ReferencedElsewhere(c, q)'
    BY <2>1 DEF ReferencedElsewhere
  <2>9. d # NoDoc
    BY <1>0, <1>6 DEF PurgeObject, PurgeHolds
  <2>4. ASSUME NEW v \in Purgers PROVE PurgeHolds(v)'
    <3>1. PurgeHolds(v)
      OBVIOUS
    <3>3. CASE v # w
      BY <2>1, <2>2, <2>3, <3>1, <3>3 DEF PurgeHolds
    <3>4. CASE v = w
      BY <2>1, <2>2, <2>3, <2>9, <3>1, <3>4 DEF PurgeHolds
    <3> QED BY <3>3, <3>4
  <2>5. PurgesApart'
    BY <2>1, <2>2 DEF PurgesApart
  <2>6. d # NoDoc /\ d \in Docs /\ row[d].state = "removed" /\ row[d].over
    BY <1>0, <2>9 DEF PurgeHolds
  <2>7. RestorableIsWhole'
    BY <2>1, <2>2, <2>6 DEF RestorableIsWhole, ReferencedElsewhere, Kept
  <2>8. ObjectsHaveRows'
    BY <2>1, <2>2 DEF ObjectsHaveRows
  <2> QED BY <2>4, <2>5, <2>7, <2>8
<1>7. CASE PurgeCommit(w)
  <2>1. /\ d \in Docs /\ purger[w].left = {} /\ objects' = objects
        /\ row'[d].state = "gone" /\ \A e \in Docs \ {d} : row'[e] = row[e]
        /\ purger'[w].doc = NoDoc /\ purger'[w].left = {} /\ purger'[w].keys = {}
        /\ \A v \in Purgers \ {w} : purger'[v] = purger[v]
    <3>1. d \in Docs /\ row[d] \in Row
      BY <1>0, <1>7 DEF PurgeCommit
    <3> QED BY <1>0, <1>7, <3>1 DEF PurgeCommit, NoPurge, Row
  <2>2. FilesOf[d] \subseteq purger[w].keys
    BY <1>0, <2>1 DEF PurgeHolds
  <2>3. ASSUME NEW v \in Purgers PROVE PurgeHolds(v)'
    <3>1. CASE v = w
      BY <2>1, <3>1 DEF PurgeHolds
    <3>2. CASE v # w
      <4>1. PurgeHolds(v) /\ purger[v].doc # d /\ purger[v].keys \cap purger[w].keys = {}
        BY <2>1, <3>2 DEF PurgesApart
      <4>2. \A k \in purger[v].keys : ReferencedElsewhere(purger[v].doc, k)
                                        => ReferencedElsewhere(purger[v].doc, k)'
        BY <2>1, <2>2, <3>2, <4>1 DEF ReferencedElsewhere
      <4> QED BY <1>0, <2>1, <3>2, <4>1, <4>2 DEF PurgeHolds
    <3> QED BY <3>1, <3>2
  <2>4. PurgesApart'
    BY <2>1 DEF PurgesApart
  <2>5. RestorableIsWhole'
    BY <2>1 DEF RestorableIsWhole
  <2>6. ObjectsHaveRows'
    <3> SUFFICES ASSUME NEW k \in objects
                 PROVE  \E e \in Docs : row'[e].state \in Kept /\ k \in FilesOf[e]
      BY <2>1 DEF ObjectsHaveRows
    <3>1. CASE k \in FilesOf[d]
      BY <1>0, <2>1, <2>2, <3>1 DEF PurgeHolds, ReferencedElsewhere
    <3>2. CASE k \notin FilesOf[d]
      BY <2>1, <3>2 DEF ObjectsHaveRows
    <3> QED BY <3>1, <3>2
  <2> QED BY <2>3, <2>4, <2>5, <2>6
<1> QED BY <1>2, <1>3, <1>4, <1>5, <1>6, <1>7 DEF PurgeStep

-----------------------------------------------------------------------------
(* Tasks *)

\* What a step of a task leaves of it: the same task further on, or none.
LEMMA JobGoesOn ==
    ASSUME Typed, JobsFit, NEW j \in Jobs, JobStep(j)
    PROVE  /\ \A i \in Jobs \ {j} : job'[i] = job[i]
           /\ job[j].state # "none"
           /\ \/ job'[j] = NoJob
              \/ /\ job'[j].state # "none" /\ job'[j].doc = job[j].doc
                 /\ job'[j].files = job[j].files /\ job'[j].replace = job[j].replace
                 /\ job'[j].generation = job[j].generation
<1> USE DEF Typed
<1>0. job[j] \in JobType
  OBVIOUS
<1> DEFINE Goal == /\ \A i \in Jobs \ {j} : job'[i] = job[i]
                   /\ job[j].state # "none"
                   /\ \/ job'[j] = NoJob
                      \/ /\ job'[j].state # "none" /\ job'[j].doc = job[j].doc
                         /\ job'[j].files = job[j].files /\ job'[j].replace = job[j].replace
                         /\ job'[j].generation = job[j].generation
<1>1. CASE Submit(j) \/ QueueFails(j) \/ Drop(j) \/ Cancel(j)
  BY <1>0, <1>1 DEF Submit, QueueFails, Drop, Cancel, EndTask, JobType
<1>2. CASE Start(j)
  <2>1. job[j].state = "queued"
        /\ job' = [job EXCEPT ![j].state = "reading", ![j].left = job[j].files,
                          ![j].got = {}, ![j].failed = {}, ![j].skipped = FALSE]
    BY <1>2 DEF Start
  <2> QED BY <1>0, <2>1 DEF JobType
<1>3. ASSUME NEW k \in StoredKeys, Read(j, k) PROVE Goal
  <2>1. PICK answer \in {"text", "empty", "failed", "skipped"} :
            job' = [job EXCEPT ![j].left = @ \ {k},
                     ![j].got = IF answer = "text" THEN @ \cup {k} ELSE @,
                     ![j].failed = IF answer = "failed" THEN @ \cup {k} ELSE @,
                     ![j].skipped = @ \/ answer = "skipped"]
    BY <1>3 DEF Read
  <2>2. job[j].state = "reading"
    BY <1>3 DEF Read
  <2> QED BY <1>0, <2>1, <2>2 DEF JobType
<1>4. CASE Finish(j)
  BY <1>0, <1>4 DEF Finish, EndTask
<1>5. CASE FinishFails(j) \/ Killed(j)
  <2>1. (Again(j) \/ GivenUp(j)) /\ job[j].state = "reading"
    BY <1>5 DEF FinishFails, Killed
  <2> QED BY <1>0, <2>1 DEF Again, GivenUp, EndTask, JobType
<1> QED BY <1>1, <1>2, <1>3, <1>4, <1>5 DEF JobStep

LEMMA JobKeepsJobsFit ==
    ASSUME Typed, JobsFit, NEW j \in Jobs, JobStep(j) PROVE JobsFit'
BY JobGoesOn DEF JobsFit, NoJob

\* A step of a task writes only about its document.
LEMMA JobElsewhere ==
    ASSUME Typed, JobsFit, NEW j \in Jobs, JobStep(j), NEW e \in Docs, e # job[j].doc
    PROVE  /\ row'[e] = row[e] /\ unread'[e] = unread[e] /\ text'[e] = text[e]
           /\ e \in abandoned => e \in abandoned'
<1> USE DEF Typed
<1>1. CASE Submit(j) \/ Drop(j) \/ Killed(j)
  BY <1>1 DEF Submit, Drop, Killed
<1>2. CASE QueueFails(j) \/ FinishFails(j) \/ Cancel(j)
  BY <1>2 DEF QueueFails, FinishFails, Cancel, Write, Unread
<1>3. CASE Start(j)
  <2>1. PICK new : Write(job[j].doc, new)
    BY <1>3 DEF Start
  <2> QED BY <1>3, <2>1 DEF Start, Write
<1>4. ASSUME NEW k \in StoredKeys, Read(j, k)
      PROVE /\ row'[e] = row[e] /\ unread'[e] = unread[e] /\ text'[e] = text[e]
            /\ e \in abandoned => e \in abandoned'
  BY <1>4 DEF Read
<1>5. CASE Finish(j)
  <2>1. PICK new : Write(job[j].doc, new)
    BY <1>5 DEF Finish
  <2> QED BY <1>5, <2>1 DEF Finish, Write
<1> QED BY <1>1, <1>2, <1>3, <1>4, <1>5 DEF JobStep

-----------------------------------------------------------------------------
(* What a document shows *)

Visible(d) ==
    /\ unread[d] # {} => row[d].marked
    /\ row[d].marked => row[d].status \notin {"DONE", "EMPTY"}

Attended(d) ==
    row[d].state \in Kept /\ row[d].status \in Busy =>
        \/ d \in abandoned
        \/ row[d].state = "active" /\ \E j \in Jobs :
            job[j].doc = d /\ job[j].generation = row[d].generation

LEMMA ShownIs ==
    /\ StatusIsTrue <=> \A d \in Docs : Visible(d) /\ Attended(d)
    /\ StatusIsTrue' <=> \A d \in Docs : Visible(d)' /\ Attended(d)'
BY DEF StatusIsTrue, FailureStaysVisible, BusyMeansTask, Visible, Attended

\* A step of a task that changes its row makes it one of these.
LEMMA JobShows ==
    ASSUME Typed, JobsFit, StatusIsTrue, NEW j \in Jobs, JobStep(j),
           NEW d \in Docs, job[j].doc = d
    PROVE  Visible(d)' /\ Attended(d)'
<1> USE DEF Typed
<1>0. /\ row[d] \in Row /\ job[j] \in JobType
      /\ Visible(d) /\ Attended(d) /\ unread[d] \in SUBSET StoredKeys
  BY JobGoesOn, ShownIs DEF JobsFit
<1>1. CASE UNCHANGED <<row, unread>> /\ abandoned' = abandoned /\ job'[j] # NoJob
  <2>1. \A i \in Jobs : job[i].doc = d => job'[i].doc = d /\ job'[i].generation = job[i].generation
    BY <1>1, JobGoesOn
  <2>2. Visible(d)'
    BY <1>0, <1>1 DEF Visible
  <2>3. Attended(d)'
    BY <1>0, <1>1, <2>1 DEF Attended
  <2> QED BY <2>2, <2>3
\* The document does not wait for this task.
<1>2. CASE UNCHANGED <<row, unread>> /\ abandoned' = abandoned /\ ~Current(j)
  <2>1. \A i \in Jobs \ {j} : job'[i] = job[i]
    BY JobGoesOn
  <2>2. Visible(d)'
    BY <1>0, <1>2 DEF Visible
  <2>3. Attended(d)'
    BY <1>0, <1>2, <2>1 DEF Attended, Current
  <2> QED BY <2>2, <2>3
<1>3. ASSUME NEW new \in Row, Write(d, new), new.marked, new.status \notin Busy \cup {"DONE", "EMPTY"}
      PROVE  Visible(d)' /\ Attended(d)'
  <2>1. row'[d] = new
    BY <1>0, <1>3 DEF Write
  <2> QED BY <2>1, <1>3 DEF Visible, Attended
<1>31. CASE Write(d, Failing(d))
  BY <1>0, <1>3, <1>31, FailingType DEF Busy
<1>4. CASE Submit(j)
  <2>1. job'[j] # NoJob
    BY <1>0, <1>4 DEF Submit, JobType, NoJob
  <2> QED BY <1>1, <1>4, <2>1 DEF Submit
<1>5. CASE QueueFails(j) \/ FinishFails(j)
  <2>0. abandoned' = abandoned
        /\ IF Current(j) THEN Write(job[j].doc, Failing(job[j].doc)) ELSE UNCHANGED <<row, unread>>
    BY <1>5 DEF QueueFails, FinishFails
  <2>1. CASE Current(j)
    <3>1. Write(d, Failing(d))
      BY <2>0, <2>1
    <3> QED BY <1>31, <3>1
  <2>2. CASE ~Current(j)
    BY <1>2, <2>0, <2>2
  <2> QED BY <2>1, <2>2
<1>6. CASE Drop(j)
  <2>1. ~Current(j) /\ UNCHANGED <<row, unread>> /\ abandoned' = abandoned
    BY <1>6 DEF Drop, Current, Superseded
  <2> QED BY <1>2, <2>1
<1>7. CASE Cancel(j)
  <2> DEFINE new == [Failing(d) EXCEPT !.status = "SKIPPED"]
  <2>1. \/ row[d].state = "active" /\ Write(d, new)
        \/ row[d].state # "active" /\ UNCHANGED <<row, unread>>
    BY <1>7 DEF Cancel
  <2>2. abandoned' = abandoned
    BY <1>7 DEF Cancel
  <2>3. new \in Row /\ new.marked /\ new.status = "SKIPPED"
    <3> QED BY <1>0, FailingType DEF Row
  <2>4. row[d].state # "active" => ~Current(j)
    BY DEF Current
  <2> HIDE DEF new
  <2> QED BY <1>2, <1>3, <2>1, <2>2, <2>3, <2>4 DEF Busy
<1>8. CASE Start(j)
  <2> DEFINE mark == row[d].marked \/ row[d].status = "FAILED"
             new == [row[d] EXCEPT !.marked = mark, !.status = "RUNNING"]
  <2>1. /\ Write(d, new) /\ unread' = unread /\ job[j].generation = row[d].generation
        /\ row[d].state = "active"
    BY <1>8 DEF Start, Superseded, Allowed
  <2>2. mark \in BOOLEAN
    BY <1>0, RowFields
  <2>3. /\ new.marked = mark /\ new.status = "RUNNING" /\ new.state = row[d].state
        /\ new.generation = row[d].generation
    <3> HIDE DEF mark
    <3> QED BY <1>0, <2>2 DEF Row
  <2>4. row'[d] = new
    BY <1>0, <2>1 DEF Write
  <2>5. job'[j].doc = d /\ job'[j].generation = job[j].generation
    <3>1. job' = [job EXCEPT ![j].state = "reading", ![j].left = job[j].files,
                          ![j].got = {}, ![j].failed = {}, ![j].skipped = FALSE]
      BY <1>8 DEF Start
    <3> QED BY <1>0, <3>1 DEF JobType
  <2> HIDE DEF new
  <2>6. Visible(d)'
    BY <1>0, <2>1, <2>3, <2>4 DEF Visible, mark
  <2>7. Attended(d)'
    BY <1>0, <2>1, <2>3, <2>4, <2>5 DEF Attended
  <2> QED BY <2>6, <2>7
<1>9. ASSUME NEW k \in StoredKeys, Read(j, k) PROVE Visible(d)' /\ Attended(d)'
  <2>1. job'[j] # NoJob
    <3>1. PICK answer \in {"text", "empty", "failed", "skipped"} :
              job' = [job EXCEPT ![j].left = @ \ {k},
                       ![j].got = IF answer = "text" THEN @ \cup {k} ELSE @,
                       ![j].failed = IF answer = "failed" THEN @ \cup {k} ELSE @,
                       ![j].skipped = @ \/ answer = "skipped"]
      BY <1>9 DEF Read
    <3>2. job[j].state = "reading"
      BY <1>9 DEF Read
    <3>3. job'[j].state = "reading"
      BY <1>0, <3>1, <3>2 DEF JobType
    <3> QED BY <3>3 DEF NoJob
  <2>2. UNCHANGED <<row, unread>> /\ abandoned' = abandoned
    BY <1>9 DEF Read
  <2> QED BY <1>1, <2>1, <2>2
<1>10. CASE Finish(j)
  <2> DEFINE whole == job[j].replace /\ ~Incomplete(j)
             mark == row[d].marked /\ ~whole
             next == IF whole THEN row[d].generation + 1 ELSE row[d].generation
             status == ReadStatus(j)
             read == [row[d] EXCEPT !.status = status, !.marked = mark, !.generation = next]
  <2>0. LET c == job[j].doc
            last == [row[c] EXCEPT !.status = ReadStatus(j), !.marked = @ /\ ~whole,
                                   !.generation = IF whole THEN @ + 1 ELSE @]
        IN  /\ Write(c, IF Retained(j) THEN Failing(c) ELSE last)
            /\ unread' = [unread EXCEPT ![c] = IF whole THEN {} ELSE @ \cup job[j].failed]
    BY <1>10 DEF Finish
  <2>1. /\ (Retained(j) /\ Write(d, Failing(d))) \/ (~Retained(j) /\ Write(d, read))
        /\ unread' = [unread EXCEPT ![d] = IF whole THEN {} ELSE @ \cup job[j].failed]
    BY <2>0
  <2>2. CASE ~Retained(j) /\ Write(d, read)
    <3>1. mark \in BOOLEAN /\ next \in Nat /\ status \in OcrStatus
      BY <1>0, RowFields, CombinedType
    <3>2. read.marked = mark /\ read.status = status
      <4> HIDE DEF mark, next, status
      <4> QED BY <1>0, <3>1 DEF Row
    <3>3. mark = FALSE /\ (whole \/ (~row[d].marked /\ job[j].failed = {}))
      BY <1>0, <2>2 DEF Retained, ReadStatus, Row
    <3>4. status \notin Busy
      BY DEF ReadStatus, Busy
    <3>5. unread'[d] = {}
      BY <1>0, <2>1, <3>3 DEF Visible
    <3>6. row'[d] = read
      BY <1>0, <2>2 DEF Write
    <3> HIDE DEF read, mark, status
    <3> QED BY <3>2, <3>3, <3>4, <3>5, <3>6 DEF Visible, Attended
  <2> HIDE DEF read
  <2> QED BY <1>31, <2>1, <2>2
<1>11. CASE Killed(j)
  <2>1. CASE GivenUp(j) /\ abandoned' = abandoned \cup {d}
    BY <1>0, <1>11, <2>1 DEF Killed, GivenUp, Visible, Attended
  <2>2. CASE Again(j) /\ abandoned' = abandoned
    <3>1. job'[j] # NoJob
      BY <1>0, <2>2 DEF Again, JobType, NoJob
    <3>2. UNCHANGED <<row, unread>>
      BY <1>11 DEF Killed
    <3> QED BY <1>1, <2>2, <3>1, <3>2
  <2> QED BY <1>11, <2>1, <2>2 DEF Killed
<1> QED BY <1>4, <1>5, <1>6, <1>7, <1>8, <1>9, <1>10, <1>11 DEF JobStep

-----------------------------------------------------------------------------
(* Pages *)

LEMMA WritePages ==
    ASSUME Typed, PagesTrue, NEW d \in Docs, NEW new, Write(d, new),
           \A e \in Docs \ {d} : text'[e] = text[e]
    PROVE  PagesTrue'
<1> SUFFICES ASSUME NEW u \in Reviewers, page'[u].current
             PROVE  LET e == page'[u].doc IN
                    /\ e \in Docs /\ row'[e].state \in Kept
                    /\ page'[u].state = row'[e].state /\ page'[u].status = row'[e].status
                    /\ page'[u].text = text'[e]
  BY DEF PagesTrue
<1>1. page[u] \in PageType
  BY DEF Typed
<1>2. page[u].doc # d
  BY <1>1 DEF Write, Turned, PageType
<1>3. page'[u] = page[u]
  BY <1>2 DEF Write, Turned
<1> QED BY <1>2, <1>3 DEF PagesTrue, Write, Typed

LEMMA SamePages ==
    ASSUME PagesTrue, UNCHANGED <<page, text>>,
           \A e \in Docs : row[e].state \in Kept =>
                row'[e].state = row[e].state /\ row'[e].status = row[e].status
    PROVE  PagesTrue'
BY DEF PagesTrue

LEMMA JobPages == ASSUME Typed, JobsFit, PagesTrue, NEW j \in Jobs, JobStep(j) PROVE PagesTrue'
<1>1. job[j].doc \in Docs /\ \A e \in Docs \ {job[j].doc} : text'[e] = text[e]
  BY JobGoesOn, JobElsewhere DEF JobsFit
<1>2. (\E new : Write(job[j].doc, new)) \/ UNCHANGED <<row, page, text>>
  <2>1. CASE Submit(j) \/ Drop(j) \/ Killed(j)
    BY <2>1 DEF Submit, Drop, Killed
  <2>2. CASE QueueFails(j) \/ FinishFails(j) \/ Cancel(j)
    BY <2>2 DEF QueueFails, FinishFails, Cancel
  <2>3. CASE Start(j)
    BY <2>3 DEF Start
  <2>4. ASSUME NEW k \in StoredKeys, Read(j, k) PROVE UNCHANGED <<row, page, text>>
    BY <2>4 DEF Read
  <2>5. CASE Finish(j)
    BY <2>5 DEF Finish
  <2> QED BY <2>1, <2>2, <2>3, <2>4, <2>5 DEF JobStep
<1> QED BY <1>1, <1>2, WritePages, SamePages

-----------------------------------------------------------------------------
(* Requests, reviewers and the purge *)

ShowInv == JobsFit /\ PagesTrue /\ StatusIsTrue

LEMMA UploadShows == ASSUME Typed, ShowInv, NEW d \in Docs, Upload(d) PROVE ShowInv'
<1> USE DEF Typed, ShowInv
<1>0. row[d] \in Row /\ row[d].generation \in Nat /\ FilesOf[d] # {}
  BY RowFields
<1>1. /\ UNCHANGED <<text, page, unread, abandoned>> /\ row[d].state = "absent"
      /\ row'[d].state = "active" /\ row'[d].status = row[d].status
      /\ row'[d].generation = row[d].generation /\ row'[d].marked = row[d].marked
      /\ \A e \in Docs \ {d} : row'[e] = row[e]
  BY <1>0 DEF Upload, Row
<1>2. PICK new \in SUBSET Free : \E of \in [new -> SUBSET FilesOf[d]] :
          /\ UNION {of[j] : j \in new} = FilesOf[d]
          /\ job' = [j \in Jobs |-> IF j \in new THEN Task(d, of[j], FALSE, row[d].generation)
                                  ELSE job[j]]
  BY DEF Upload
<1>3. PICK of \in [new -> SUBSET FilesOf[d]] :
          /\ UNION {of[j] : j \in new} = FilesOf[d]
          /\ job' = [j \in Jobs |-> IF j \in new THEN Task(d, of[j], FALSE, row[d].generation)
                                  ELSE job[j]]
  BY <1>2
<1>4. new # {} /\ \A i \in new : i \in Jobs /\ job[i].doc = NoDoc
  BY <1>0, <1>3 DEF Free, JobsFit
<1>5. ASSUME NEW i \in new
      PROVE  /\ job'[i].state = "committed" /\ job'[i].doc = d /\ ~job'[i].replace
             /\ job'[i].generation = row[d].generation
  <2> DEFINE files == of[i]
             n == row[d].generation
             t == Task(d, files, FALSE, n)
  <2>1. files \in SUBSET StoredKeys /\ n \in Nat /\ job'[i] = t
    BY <1>0, <1>3, <1>4
  <2> HIDE DEF files, n
  <2>2. t.state = "committed" /\ t.doc = d /\ ~t.replace /\ t.generation = n
    BY <2>1 DEF Task, NoJob
  <2> HIDE DEF t
  <2> QED BY <2>1, <2>2 DEF n
<1>6. \A i \in Jobs \ new : job'[i] = job[i]
  BY <1>3
<1>7. JobsFit'
  BY <1>4, <1>5, <1>6 DEF JobsFit
<1>8. PagesTrue'
  BY <1>1, SamePages DEF Kept
<1>9. \A e \in Docs : Visible(e)'
  BY <1>1, ShownIs DEF Visible
<1>10. \A e \in Docs : Attended(e)'
  <2> TAKE e \in Docs
  <2>1. CASE e = d
    BY <1>1, <1>4, <1>5, <2>1 DEF Attended
  <2>2. CASE e # d
    <3>1. Attended(e) /\ \A i \in Jobs : job[i].doc = e => job'[i] = job[i]
      BY <1>4, <1>6, ShownIs
    <3> QED BY <1>1, <2>2, <3>1 DEF Attended
  <2> QED BY <2>1, <2>2
<1> QED BY <1>7, <1>8, <1>9, <1>10, ShownIs

LEMMA RetryShows == ASSUME Typed, ShowInv, NEW d \in Docs, Retry(d) PROVE ShowInv'
<1> USE DEF Typed, ShowInv
<1> DEFINE mark == row[d].marked \/ row[d].status = "FAILED"
           next == row[d].generation + 1
           new == [row[d] EXCEPT !.marked = mark, !.status = "PENDING", !.generation = next]
<1>0. row[d] \in Row /\ mark \in BOOLEAN /\ next \in Nat /\ "PENDING" \in OcrStatus
  BY RowFields DEF OcrStatus, Busy
<1>1. /\ new.marked = mark /\ new.status = "PENDING" /\ new.generation = next
      /\ new.state = row[d].state
  <2> HIDE DEF mark, next
  <2> QED BY <1>0 DEF Row
<1>2. Write(d, new) /\ UNCHANGED <<text, unread>> /\ row[d].state = "active"
      /\ abandoned' = abandoned \ {d}
  BY DEF Retry
<1>3. PICK j \in Free : job' = [job EXCEPT ![j] = Task(d, FilesOf[d], TRUE, next)]
  BY DEF Retry
<1> DEFINE files == FilesOf[d]
           t == Task(d, files, TRUE, next)
<1>4. t.state = "committed" /\ t.doc = d /\ t.files = FilesOf[d] /\ t.generation = next
  <2> HIDE DEF next
  <2> QED BY <1>0 DEF Task, NoJob
<1>5. row' = [row EXCEPT ![d] = new] /\ job' = [job EXCEPT ![j] = t]
  BY <1>2, <1>3 DEF Write
<1>6. j \in Jobs /\ job[j].doc = NoDoc
  BY <1>3 DEF Free, JobsFit
<1> HIDE DEF new, mark, next, t, files
<1>7. JobsFit'
  BY <1>4, <1>5, <1>6 DEF JobsFit
<1>8. PagesTrue'
  BY <1>2, WritePages
<1>9. \A e \in Docs : Visible(e)'
  BY <1>0, <1>1, <1>2, <1>5, ShownIs DEF Visible, mark
<1>10. \A e \in Docs : Attended(e)'
  <2> TAKE e \in Docs
  <2>1. CASE e = d
    BY <1>1, <1>2, <1>4, <1>5, <1>6, <2>1 DEF Attended
  <2>2. CASE e # d
    <3>1. Attended(e) /\ \A i \in Jobs : job[i].doc = e => job'[i] = job[i]
      BY <1>5, <1>6, ShownIs
    <3> QED BY <1>2, <1>5, <2>2, <3>1 DEF Attended
  <2> QED BY <2>1, <2>2
<1> QED BY <1>7, <1>8, <1>9, <1>10, ShownIs

\* Steps that leave the tasks alone and make no document busier, or end it.
Calm(d) ==
    \/ row'[d].state = "gone" /\ ~row'[d].marked /\ unread'[d] = {}
    \/ /\ unread'[d] = unread[d] /\ row'[d].marked = row[d].marked
       /\ row'[d].generation = row[d].generation
       /\ row'[d].status = row[d].status \/ row'[d].status = "SKIPPED"
       /\ \/ row'[d].state = row[d].state
          \/ row[d].state = "removed" /\ row'[d].state = "active"
          \/ row'[d].status \notin Busy

LEMMA CalmShows ==
    ASSUME ShowInv, PagesTrue', UNCHANGED <<job, abandoned>>, \A d \in Docs : Calm(d)
    PROVE  ShowInv'
<1>1. JobsFit'
  BY DEF ShowInv, JobsFit
<1>2. ASSUME NEW d \in Docs PROVE Visible(d)' /\ Attended(d)'
  <2>1. Visible(d) /\ Attended(d) /\ Calm(d)
    BY ShownIs DEF ShowInv
  <2> QED BY <2>1 DEF Calm, Visible, Attended, Kept, Busy
<1> QED BY <1>1, <1>2, ShownIs DEF ShowInv

LEMMA RequestShows ==
    ASSUME Typed, ShowInv, NEW d \in Docs, Entitle(d) \/ ComesDue(d) \/ RecoveryEnds(d)
    PROVE  ShowInv'
<1> USE DEF Typed, ShowInv
<1>0. row[d] \in Row
  OBVIOUS
<1>1. UNCHANGED <<text, job, page, unread, abandoned>>
  BY DEF Entitle, ComesDue, RecoveryEnds
<1>2. \A e \in Docs : /\ row'[e].state = row[e].state /\ row'[e].status = row[e].status
                      /\ row'[e].marked = row[e].marked /\ row'[e].generation = row[e].generation
  BY <1>0 DEF Entitle, ComesDue, RecoveryEnds, Row
<1>3. PagesTrue'
  BY <1>1, <1>2, SamePages
<1>4. \A e \in Docs : Calm(e)
  BY <1>1, <1>2 DEF Calm
<1> QED BY <1>1, <1>3, <1>4, CalmShows

LEMMA ReviewShows ==
    ASSUME Typed, ShowInv, NEW u \in Reviewers, NEW d \in Docs, ReviewStep(u, d)
    PROVE  ShowInv'
<1> USE DEF Typed, ShowInv
<1>0. row[d] \in Row
  OBVIOUS
<1>1. UNCHANGED <<text, job, unread, abandoned>>
  BY DEF ReviewStep, OpenReview, Retain, RemoveDocument, Restore
<1>2. \A e \in Docs \ {d} : row'[e] = row[e]
  BY DEF ReviewStep, OpenReview, Retain, RemoveDocument, Restore, Write
<1>3. PagesTrue'
  <2>1. CASE OpenReview(u, d)
    <3>1. /\ row' = row /\ row[d].state \in Kept
          /\ \A v \in Reviewers \ {u} : page'[v] = page[v]
          /\ page'[u].doc = d /\ page'[u].state = row[d].state
          /\ page'[u].status = row[d].status /\ page'[u].text = text[d]
      BY <2>1 DEF OpenReview
    <3> QED BY <1>1, <3>1 DEF PagesTrue
  <2>2. CASE Retain(u, d) \/ RemoveDocument(u, d) \/ Restore(u, d)
    <3>1. PICK new : Write(d, new)
      BY <2>2 DEF Retain, RemoveDocument, Restore
    <3> QED BY <1>1, <3>1, WritePages
  <2> QED BY <2>1, <2>2 DEF ReviewStep
<1>4. Calm(d)
  <2>1. CASE OpenReview(u, d)
    BY <1>1, <2>1 DEF OpenReview, Calm
  <2>2. CASE Retain(u, d)
    BY <1>0, <1>1, <2>2 DEF Retain, Write, Calm, Row
  <2>3. CASE RemoveDocument(u, d)
    <3> DEFINE status == IF row[d].status \in Busy THEN "SKIPPED" ELSE row[d].status
               new == [row[d] EXCEPT !.state = "removed", !.over = FALSE, !.tried = "never",
                                     !.status = status]
    <3>1. row'[d] = new
      BY <2>3 DEF RemoveDocument, Write
    <3>2. new.status = status /\ new.marked = row[d].marked /\ new.generation = row[d].generation
      <4> HIDE DEF status
      <4> QED BY <1>0 DEF Row
    <3>3. status \notin Busy /\ (status = row[d].status \/ status = "SKIPPED")
      BY DEF Busy
    <3> HIDE DEF new, status
    <3> QED BY <1>1, <3>1, <3>2, <3>3 DEF Calm
  <2>4. CASE Restore(u, d)
    BY <1>0, <1>1, <2>4 DEF Restore, Write, Calm, Row
  <2> QED BY <2>1, <2>2, <2>3, <2>4 DEF ReviewStep
<1>5. \A e \in Docs : Calm(e)
  BY <1>1, <1>2, <1>4 DEF Calm
<1> QED BY <1>1, <1>3, <1>5, CalmShows

LEMMA PurgeShows == ASSUME Typed, ShowInv, NEW w \in Purgers, PurgeStep(w) PROVE ShowInv'
<1> USE DEF Typed, ShowInv
<1> DEFINE d == purger[w].doc
<1>1. CASE PurgeCommit(w)
  <2>1. /\ d \in Docs /\ page' = Turned(d) /\ UNCHANGED <<job, abandoned>>
        /\ row' = [row EXCEPT ![d].state = "gone", ![d].marked = FALSE]
        /\ text' = [text EXCEPT ![d] = {}] /\ unread' = [unread EXCEPT ![d] = {}]
    BY <1>1 DEF PurgeCommit, PurgeType
  <2> DEFINE new == [row[d] EXCEPT !.state = "gone", !.marked = FALSE]
  <2>2. Write(d, new)
    BY <2>1 DEF Write
  <2>3. new.state = "gone" /\ ~new.marked
    <3> HIDE DEF d
    <3> QED BY <2>1 DEF Row
  <2> HIDE DEF new, d
  <2>4. PagesTrue'
    BY <2>1, <2>2, WritePages
  <2>5. \A e \in Docs : Calm(e)
    BY <2>1, <2>2, <2>3 DEF Calm, Write
  <2> QED BY <2>1, <2>4, <2>5, CalmShows
<1>2. CASE PurgeMark(w)
  <2>1. UNCHANGED <<text, job, page, unread, abandoned>>
    BY <1>2 DEF PurgeMark
  <2>2. ASSUME NEW e \in Docs
        PROVE  /\ row'[e].state = row[e].state /\ row'[e].status = row[e].status
               /\ row'[e].marked = row[e].marked /\ row'[e].generation = row[e].generation
    <3>1. row[e] \in Row
      OBVIOUS
    <3> QED BY <1>2, <3>1 DEF PurgeMark, Row
  <2>3. PagesTrue'
    BY <2>1, <2>2, SamePages
  <2>4. \A e \in Docs : Calm(e)
    BY <2>1, <2>2 DEF Calm
  <2> QED BY <2>1, <2>3, <2>4, CalmShows
<1>3. CASE UNCHANGED <<row, text, job, page, unread, abandoned>>
  <2>1. PagesTrue' /\ \A e \in Docs : Calm(e)
    BY <1>3, SamePages DEF Calm
  <2> QED BY <1>3, <2>1, CalmShows
<1> QED BY <1>1, <1>2, <1>3 DEF PurgeStep, PurgeStart, PurgeOpen, PurgeObject, PurgeFails, PurgeKilled

LEMMA JobShowInv == ASSUME Typed, ShowInv, NEW j \in Jobs, JobStep(j) PROVE ShowInv'
<1> USE DEF ShowInv
<1>1. JobsFit' /\ PagesTrue'
  BY JobKeepsJobsFit, JobPages
<1>2. ASSUME NEW d \in Docs PROVE Visible(d)' /\ Attended(d)'
  <2>1. CASE job[j].doc = d
    BY <2>1, JobShows
  <2>2. CASE job[j].doc # d
    <3>1. /\ row'[d] = row[d] /\ unread'[d] = unread[d]
          /\ d \in abandoned => d \in abandoned'
          /\ \A i \in Jobs : job[i].doc = d => job'[i] = job[i]
      BY <2>2, JobElsewhere, JobGoesOn
    <3>2. Visible(d) /\ Attended(d)
      BY ShownIs
    <3> QED BY <3>1, <3>2 DEF Visible, Attended
  <2> QED BY <2>1, <2>2
<1> QED BY <1>1, <1>2, ShownIs

-----------------------------------------------------------------------------
(* The invariant and the theorems *)

LEMMA InvIs ==
    /\ RepositoryInv <=> Typed /\ StoreInv /\ ShowInv
    /\ RepositoryInv' <=> Typed' /\ StoreInv' /\ ShowInv'
BY DEF RepositoryInv, StoreInv, ShowInv, StatusIsTrue

LEMMA NextRepositoryInv ==
    ASSUME RepositoryInv, [RepositoryNext]_repositoryVars PROVE RepositoryInv'
<1> USE InvIs
<1>0. Typed /\ StoreInv /\ ShowInv /\ JobsFit
  BY DEF ShowInv
<1>1. Typed'
  BY <1>0, NextTypes
<1>2. CASE UNCHANGED repositoryVars
  <2>1. UNCHANGED <<job, abandoned>> /\ PagesTrue' /\ (\A d \in Docs : Calm(d)) /\ Quiet
    BY <1>0, <1>2 DEF repositoryVars, ShowInv, PagesTrue, Calm, Quiet, Moves, Stays
  <2> QED BY <1>0, <1>1, <2>1, QuietStoreInv, CalmShows
<1>3. ASSUME NEW d \in Docs, Upload(d) \/ Retry(d) \/ Entitle(d) \/ ComesDue(d) \/ RecoveryEnds(d)
      PROVE  StoreInv' /\ ShowInv'
  BY <1>0, <1>3, UploadStoreInv, UploadShows, RequestIsStill, StillIsQuiet, QuietStoreInv, RetryShows, RequestShows
<1>4. ASSUME NEW j \in Jobs, JobStep(j) PROVE StoreInv' /\ ShowInv'
  BY <1>0, <1>4, JobIsStill, StillIsQuiet, QuietStoreInv, JobShowInv
<1>5. ASSUME NEW u \in Reviewers, NEW d \in Docs, ReviewStep(u, d) PROVE StoreInv' /\ ShowInv'
  BY <1>0, <1>5, ReviewIsQuiet, QuietStoreInv, ReviewShows
<1>6. ASSUME NEW w \in Purgers, PurgeStep(w) PROVE StoreInv' /\ ShowInv'
  BY <1>0, <1>6, PurgeStoreInv, PurgeShows
<1> QED BY <1>1, <1>2, <1>3, <1>4, <1>5, <1>6 DEF RepositoryNext

LEMMA RepositoryInductive == RepositorySpec => []RepositoryInv
BY InitRepositoryInv, NextRepositoryInv, PTL DEF RepositorySpec

\* The rows, the tasks, the pages and the runs of the purge keep the shape the
\* models give them.
THEOREM RepositoryTyped == RepositorySpec => []RepositoryTypeOK
<1>1. RepositoryInv => RepositoryTypeOK
  BY TypeIs, InvIs
<1> QED BY <1>1, RepositoryInductive, PTL

\* A document that is there, or may be restored, has every object, and no object
\* outlives the last document that names it: for any number of runs of the purge,
\* which delete outside their transaction and fail anywhere.
THEOREM DocumentsStayWhole == RepositorySpec => []DocumentsAreWhole
<1>1. RepositoryInv => DocumentsAreWhole
  BY DEF RepositoryInv, DocumentsAreWhole
<1> QED BY <1>1, RepositoryInductive, PTL

\* A failure stays in sight until every file was read anew, and a document that
\* is said to be read has a task that will end it, or one the queue gave up:
\* for any number of tasks, of single files or of all of them.
THEOREM StatusStaysTrue == RepositorySpec => []StatusIsTrue
<1>1. RepositoryInv => StatusIsTrue
  BY DEF RepositoryInv, StatusIsTrue
<1> QED BY <1>1, RepositoryInductive, PTL

-----------------------------------------------------------------------------
(* Action properties *)

LEMMA ReviewElsewhere ==
    ASSUME NEW u \in Reviewers, NEW e \in Docs, ReviewStep(u, e), NEW d \in Docs, Typed,
           row'[d] # row[d]
    PROVE  e = d /\ (Retain(u, d) \/ RemoveDocument(u, d) \/ Restore(u, d))
<1>1. ~OpenReview(u, e)
  BY DEF OpenReview
<1>2. \E new : Write(e, new)
  BY <1>1 DEF ReviewStep, Retain, RemoveDocument, Restore
<1>3. e = d
  BY <1>2 DEF Write, Typed
<1> QED BY <1>1, <1>3 DEF ReviewStep

\* Nothing but an upload and the end of a purge, a removal and a restoration
\* moves a document.
LEMMA PurgeMoves ==
    ASSUME Typed, NEW w \in Purgers, PurgeStep(w), NEW d \in Docs
    PROVE  row'[d].state \in {row[d].state, "gone"}
<1>1. CASE PurgeCommit(w)
  <2>1. /\ purger[w].doc \in Docs
        /\ row' = [row EXCEPT ![purger[w].doc].state = "gone", ![purger[w].doc].marked = FALSE]
    BY <1>1 DEF PurgeCommit, Typed, PurgeType
  <2> QED BY <2>1 DEF Typed, Row
<1>2. CASE PurgeMark(w)
  <2>1. row[d] \in Row
    BY DEF Typed
  <2> QED BY <1>2, <2>1 DEF PurgeMark, Row
<1> QED BY <1>1, <1>2 DEF PurgeStep, PurgeStart, PurgeOpen, PurgeObject, PurgeFails, PurgeKilled

LEMMA OnlyReviewersDecide ==
    ASSUME RepositoryInv, [RepositoryNext]_repositoryVars, NEW d \in Docs,
           {row[d].state, row'[d].state} = Kept
    PROVE  \E u \in Reviewers : ShowsStateNow(u, d)
<1>0. Typed /\ JobsFit
  BY DEF RepositoryInv
<1>1. row'[d].state # row[d].state /\ row[d].state \in Kept /\ row'[d].state \in Kept
  BY DEF Kept
<1>2. ~Still
  BY <1>1 DEF Still, Stays
<1>3. ASSUME NEW e \in Docs, Upload(e) \/ Retry(e) \/ Entitle(e) \/ ComesDue(e) \/ RecoveryEnds(e)
      PROVE  FALSE
  <2>1. CASE Upload(e)
    BY <1>0, <1>1, <2>1 DEF Upload, Kept, Typed, Row
  <2> QED BY <1>0, <1>2, <1>3, <2>1, RequestIsStill
<1>4. ASSUME NEW j \in Jobs, JobStep(j) PROVE FALSE
  BY <1>0, <1>2, <1>4, JobIsStill
<1>5. ASSUME NEW w \in Purgers, PurgeStep(w) PROVE FALSE
  BY <1>0, <1>1, <1>5, PurgeMoves DEF Kept
<1>6. ASSUME NEW u \in Reviewers, NEW e \in Docs, ReviewStep(u, e) PROVE ShowsStateNow(u, d)
  BY <1>0, <1>1, <1>6, ReviewElsewhere DEF Retain, RemoveDocument, Restore
<1>7. CASE UNCHANGED repositoryVars
  BY <1>1, <1>7 DEF repositoryVars
<1> QED BY <1>3, <1>4, <1>5, <1>6, <1>7 DEF RepositoryNext

\* A document is removed or restored only on a page that showed its state, its
\* status and its text as they are, whatever tasks wrote while it was open.
THEOREM DecisionsAreInformed == RepositorySpec => DecidedOnWhatWasShown
<1> DEFINE Informed ==
        \A d \in Docs :
            {row[d].state, row'[d].state} = Kept =>
                \E u \in Reviewers :
                    page[u].doc = d /\ page[u].state = row[d].state
                    /\ page[u].status = row[d].status /\ page[u].text = text[d]
<1>1. ASSUME RepositoryInv, [RepositoryNext]_repositoryVars PROVE [Informed]_repositoryVars
  <2> SUFFICES ASSUME NEW d \in Docs, {row[d].state, row'[d].state} = Kept
               PROVE  \E u \in Reviewers :
                        page[u].doc = d /\ page[u].state = row[d].state
                        /\ page[u].status = row[d].status /\ page[u].text = text[d]
    OBVIOUS
  <2>1. PICK u \in Reviewers : ShowsStateNow(u, d)
    BY <1>1, OnlyReviewersDecide
  <2> QED BY <1>1, <2>1 DEF ShowsStateNow, RepositoryInv, PagesTrue
<1> QED BY <1>1, RepositoryInductive, PTL DEF RepositorySpec, DecidedOnWhatWasShown

\* Text is lost only to a full reading of every file that could be read, or with
\* the document.
LEMMA JobKeepsText ==
    ASSUME RepositoryInv, NEW j \in Jobs, JobStep(j), NEW d \in Docs, text[d] \ text'[d] # {}
    PROVE  /\ job[j].doc = d /\ job[j].replace /\ job[j].left = {} /\ ~Incomplete(j)
           /\ FilesOf[d] \subseteq job[j].files /\ job'[j].state = "none"
<1>0. Typed /\ JobsFit
  BY DEF RepositoryInv
<1>1. job[j].doc = d
  BY <1>0, JobElsewhere
<1>2. Finish(j)
  BY DEF JobStep, Submit, QueueFails, Drop, Cancel, Start, Read, FinishFails, Killed
<1>3. text'[d] = Combined(j) /\ job' = [job EXCEPT ![j] = NoJob] /\ job[j].left = {}
  BY <1>0, <1>1, <1>2 DEF Finish, EndTask, Typed
<1>4. job[j].replace /\ ~Incomplete(j)
  BY <1>1, <1>3 DEF Combined
<1> QED BY <1>0, <1>1, <1>3, <1>4 DEF JobsFit, NoJob, Typed

LEMMA RemovedStaysStill ==
    ASSUME RepositoryInv, [RepositoryNext]_repositoryVars, NEW d \in Docs,
           row[d].state = "removed", row'[d].state = "removed"
    PROVE  /\ text'[d] = text[d] /\ row'[d].status = row[d].status
           /\ row'[d].marked = row[d].marked /\ row'[d].generation = row[d].generation
<1> DEFINE Goal == /\ text'[d] = text[d] /\ row'[d].status = row[d].status
                   /\ row'[d].marked = row[d].marked /\ row'[d].generation = row[d].generation
<1>0. Typed /\ JobsFit /\ row[d] \in Row
  BY DEF RepositoryInv, Typed
<1>1. ASSUME NEW e \in Docs, Upload(e) \/ Retry(e) \/ Entitle(e) \/ ComesDue(e) \/ RecoveryEnds(e)
      PROVE  Goal
  <2>1. CASE Upload(e)
    BY <1>0, <2>1 DEF Upload, Typed, Row
  <2>2. CASE Retry(e)
    <3>1. e # d /\ text' = text /\ \E new : row' = [row EXCEPT ![e] = new]
      BY <2>2 DEF Retry, Write
    <3> QED BY <1>0, <3>1
  <2>3. CASE Entitle(e) \/ ComesDue(e) \/ RecoveryEnds(e)
    BY <1>0, <2>3 DEF Entitle, ComesDue, RecoveryEnds, Typed, Row
  <2> QED BY <1>1, <2>1, <2>2, <2>3
<1>2. ASSUME NEW j \in Jobs, JobStep(j) PROVE Goal
  <2>1. CASE job[j].doc # d
    BY <1>0, <1>2, <2>1, JobElsewhere
  <2>2. CASE job[j].doc = d
    <3>1. row' = row /\ text' = text
      BY <1>2, <2>2 DEF JobStep, Submit, QueueFails, Drop, Cancel, Start, Read, Finish, FinishFails,
                        Killed, Current, Allowed
    <3> QED BY <3>1
  <2> QED BY <2>1, <2>2
<1>3. ASSUME NEW u \in Reviewers, NEW e \in Docs, ReviewStep(u, e) PROVE Goal
  <2>1. text' = text
    BY <1>3 DEF ReviewStep, OpenReview, Retain, RemoveDocument, Restore
  <2>2. row'[d] = row[d] \/ Restore(u, d)
    BY <1>0, <1>3, ReviewElsewhere DEF Retain, RemoveDocument
  <2>3. ~Restore(u, d)
    <3>1. ASSUME Restore(u, d)
          PROVE  row'[d] = [row[d] EXCEPT !.state = "active", !.due = FALSE, !.tried = "never"]
      BY <1>0, <3>1 DEF Restore, Write, Typed
    <3> QED BY <1>0, <3>1 DEF Row
  <2> QED BY <2>1, <2>2, <2>3
<1>4. ASSUME NEW w \in Purgers, PurgeStep(w) PROVE Goal
  <2>1. CASE PurgeCommit(w)
    <3>1. /\ purger[w].doc \in Docs
          /\ row' = [row EXCEPT ![purger[w].doc].state = "gone", ![purger[w].doc].marked = FALSE]
          /\ text' = [text EXCEPT ![purger[w].doc] = {}]
      BY <1>0, <2>1 DEF PurgeCommit, Typed, PurgeType
    <3>2. purger[w].doc # d
      BY <1>0, <3>1 DEF Typed, Row
    <3> QED BY <1>0, <3>1, <3>2 DEF Typed
  <2>2. CASE PurgeMark(w)
    BY <1>0, <2>2 DEF PurgeMark, Row
  <2> QED BY <1>4, <2>1, <2>2 DEF PurgeStep, PurgeStart, PurgeOpen, PurgeObject, PurgeFails, PurgeKilled
<1>5. CASE UNCHANGED repositoryVars
  BY <1>5 DEF repositoryVars
<1> QED BY <1>1, <1>2, <1>3, <1>4, <1>5 DEF RepositoryNext

\* Tasks that read outside their transactions lose no text that was saved, and
\* write nothing to a document that was removed meanwhile.
THEOREM TextStaysKept == RepositorySpec => TextIsKept
<1>1. ASSUME RepositoryInv, [RepositoryNext]_repositoryVars
      PROVE  SavedTextIsKept /\ RemovedIsStill
  <2>1. RemovedIsStill
    BY <1>1, RemovedStaysStill DEF RemovedIsStill
  <2>2. ASSUME NEW d \in Docs, text[d] \ text'[d] # {}
        PROVE  \/ row'[d].state = "gone"
               \/ \E j \in Jobs :
                    /\ job[j].doc = d /\ job[j].replace /\ job[j].left = {} /\ ~Incomplete(j)
                    /\ FilesOf[d] \subseteq job[j].files
                    /\ job'[j].state = "none"
    <3>1. ASSUME NEW j \in Jobs, JobStep(j)
          PROVE  \E i \in Jobs :
                    /\ job[i].doc = d /\ job[i].replace /\ job[i].left = {} /\ ~Incomplete(i)
                    /\ FilesOf[d] \subseteq job[i].files
                    /\ job'[i].state = "none"
      BY <1>1, <2>2, <3>1, JobKeepsText
    <3>2. ASSUME NEW w \in Purgers, PurgeCommit(w) PROVE row'[d].state = "gone"
      <4>1. /\ purger[w].doc \in Docs
            /\ row' = [row EXCEPT ![purger[w].doc].state = "gone", ![purger[w].doc].marked = FALSE]
            /\ text' = [text EXCEPT ![purger[w].doc] = {}]
        BY <1>1, <3>2 DEF PurgeCommit, RepositoryInv, Typed, PurgeType
      <4>2. purger[w].doc = d
        BY <1>1, <2>2, <4>1 DEF RepositoryInv, Typed
      <4> QED BY <1>1, <4>1, <4>2 DEF RepositoryInv, Typed, Row
    <3>3. text' # text
      BY <2>2
    <3>4. (\E j \in Jobs : JobStep(j)) \/ (\E w \in Purgers : PurgeCommit(w))
      BY <1>1, <3>3 DEF RepositoryNext, repositoryVars, Upload, Retry, Entitle, ComesDue,
           RecoveryEnds, ReviewStep, OpenReview, Retain, RemoveDocument, Restore,
           PurgeStep, PurgeStart, PurgeOpen, PurgeObject, PurgeFails, PurgeMark, PurgeKilled
    <3> QED BY <3>1, <3>2, <3>4
  <2>3. SavedTextIsKept
    BY <2>2 DEF SavedTextIsKept
  <2> QED BY <2>1, <2>3
<1> QED BY <1>1, RepositoryInductive, PTL DEF RepositorySpec, TextIsKept

-----------------------------------------------------------------------------
(* The order of the locks of one transaction *)

Tables == {"advisory", "user", "policy", "record", "office", "series", "external", "entry",
           "document", "tag"}

LockRow == [table : Tables, pk : Nat, mode : Modes]

LockPlan == Seq(LockRow)

\* Where a table comes among the locks of a transaction; an account there is one
\* that a foreign key refers to.
Place(table) ==
    CASE table = "advisory" -> 0 [] table = "policy" -> 3 [] table = "record" -> 4
      [] table = "office" -> 5 [] table = "series" -> 6 [] table = "external" -> 7
      [] table = "entry" -> 8 [] table = "user" -> 9 [] table = "document" -> 10
      [] table = "tag" -> 11

UnderAccountWide(p) == p[1] = [table |-> "advisory", pk |-> 0, mode |-> "UPDATE"]

IsAccount(lock) == lock.table = "user" /\ lock.mode # "KEY_SHARE"

\* The account a transaction locks first comes before any other row, a second one
\* right after it.
Turn(p, i) ==
    IF IsAccount(p[i])
    THEN IF i = 1 \/ (i = 2 /\ UnderAccountWide(p)) THEN 1 ELSE 2
    ELSE Place(p[i].table)

Precedes(p, i, q, k) ==
    \/ Turn(p, i) < Turn(q, k)
    \/ Turn(p, i) = Turn(q, k) /\ p[i].pk < q[k].pk

\* A transaction takes its turns in order, a second account only under the lock
\* of the whole account table, and behind a plain lock on an account documents.
Orderly(p) ==
    /\ p \in LockPlan
    /\ \A i, j \in 1..Len(p) : i < j => Precedes(p, i, p, j)
    /\ \A i \in 1..Len(p) : Turn(p, i) = 2 => UnderAccountWide(p) /\ i # 1
    /\ \A i, j \in 1..Len(p) :
          i < j /\ p[i].table = "user" /\ p[i].mode = "UPDATE" => p[j].table = "document"

LEMMA TurnIs ==
    ASSUME NEW p \in LockPlan, NEW i \in 1..Len(p)
    PROVE  /\ p[i] \in LockRow
           /\ Turn(p, i) \in 0..11
           /\ IsAccount(p[i]) => Turn(p, i) \in {1, 2}
           /\ ~IsAccount(p[i]) => Turn(p, i) = Place(p[i].table) /\ Turn(p, i) \notin {1, 2}
<1>1. p[i] \in LockRow
  BY DEF LockPlan
<1>2. Place(p[i].table) \in 0..11 \ {1, 2}
  BY <1>1 DEF LockRow, Tables, Place
<1> QED BY <1>1, <1>2 DEF Turn

-----------------------------------------------------------------------------
(* The rows after the accounts *)

\* Locks on the rows of one table, in order of primary key.
Segment(q, table) ==
    /\ q \in LockPlan
    /\ \A i \in 1..Len(q) : q[i].table = table
    /\ \A i, j \in 1..Len(q) : i < j => q[i].pk < q[j].pk

\* Locks behind the accounts, in order of their place and primary key.
Tail3(q) ==
    /\ q \in LockPlan
    /\ \A i \in 1..Len(q) : Place(q[i].table) >= 3 /\ ~IsAccount(q[i])
    /\ \A i, j \in 1..Len(q) : i < j =>
          \/ Place(q[i].table) < Place(q[j].table)
          \/ Place(q[i].table) = Place(q[j].table) /\ q[i].pk < q[j].pk

RowTables == Tables \ {"advisory", "user"}

LEMMA Joined ==
    ASSUME NEW a \in LockPlan, NEW b \in LockPlan
    PROVE  /\ a \o b \in LockPlan /\ Len(a \o b) = Len(a) + Len(b)
           /\ \A i \in 1..Len(a) + Len(b) :
                (a \o b)[i] = IF i <= Len(a) THEN a[i] ELSE b[i - Len(a)]
BY ConcatProperties DEF LockPlan

LEMMA Regrouped ==
    ASSUME NEW a \in LockPlan, NEW b \in LockPlan, NEW c \in LockPlan
    PROVE  (a \o b) \o c = a \o (b \o c)
BY ConcatAssociative DEF LockPlan

LEMMA LockIs ==
    ASSUME NEW table \in Tables, NEW pk \in Nat, NEW mode \in Modes
    PROVE  /\ Lock(table, pk, mode) \in LockPlan /\ Len(Lock(table, pk, mode)) = 1
           /\ Lock(table, pk, mode)[1] = [table |-> table, pk |-> pk, mode |-> mode]
           /\ Segment(Lock(table, pk, mode), table)
<1>1. [table |-> table, pk |-> pk, mode |-> mode] \in LockRow
  BY DEF LockRow
<1> QED BY <1>1 DEF Lock, LockPlan, Segment

\* Primary keys in order.
Sorted(rows) ==
    rows \in Seq(Nat) /\ \A i, j \in 1..Len(rows) : i < j => rows[i] < rows[j]

LEMMA AscendingIsSorted ==
    ASSUME NEW pks \in SUBSET Nat, NEW rows \in Ascending(pks)
    PROVE  Sorted(rows)
<1>1. PICK n \in Nat : rows \in [1..n -> pks]
  BY DEF Ascending
<1>2. \A i, j \in 1..n : i < j => rows[i] < rows[j]
  BY <1>1 DEF Ascending
<1>3. rows \in Seq(Nat) /\ Len(rows) = n
  <2>1. rows \in [1..n -> Nat]
    BY <1>1
  <2> QED BY <2>1
<1> QED BY <1>2, <1>3 DEF Sorted

LEMMA FewAreSorted ==
    /\ Sorted(<<>>)
    /\ \A u \in Nat : Sorted(<<u>>)
    /\ \A u, v \in Nat : Sorted(BothInOrder(u, v)) /\ Len(BothInOrder(u, v)) \in {1, 2}
<1>1. Sorted(<<>>)
  BY DEF Sorted
<1>2. \A u \in Nat : Sorted(<<u>>) /\ Len(<<u>>) = 1
  BY DEF Sorted
<1>3. \A u, v \in Nat : u < v => Sorted(<<u, v>>) /\ Len(<<u, v>>) = 2
  BY DEF Sorted
<1> QED BY <1>1, <1>2, <1>3 DEF BothInOrder

LEMMA InPkOrderIs ==
    ASSUME NEW table \in Tables, NEW rows, Sorted(rows), NEW mode \in Modes
    PROVE  /\ Segment(InPkOrder(table, rows, mode), table)
           /\ Len(InPkOrder(table, rows, mode)) = Len(rows)
           /\ \A i \in 1..Len(rows) : InPkOrder(table, rows, mode)[i].mode = mode
<1> DEFINE q == InPkOrder(table, rows, mode)
           n == Len(rows)
<1>1. rows \in [1..n -> Nat] /\ n \in Nat
  BY DEF Sorted
<1>2. \A i, j \in 1..n : i < j => rows[i] < rows[j]
  BY DEF Sorted
<1> HIDE DEF n
<1>3. q = [i \in 1..n |-> [table |-> table, pk |-> rows[i], mode |-> mode]]
  BY <1>1 DEF InPkOrder
<1>4. q \in [1..n -> LockRow]
  <2>1. \A i \in 1..n : rows[i] \in Nat
    BY <1>1
  <2>2. \A i \in 1..n : [table |-> table, pk |-> rows[i], mode |-> mode] \in LockRow
    BY <2>1 DEF LockRow
  <2> QED BY <1>3, <2>2
<1>5. q \in LockPlan /\ Len(q) = n
  BY <1>1, <1>3, <1>4 DEF LockPlan
<1>6. \A i \in 1..n : q[i].table = table /\ q[i].pk = rows[i] /\ q[i].mode = mode
  BY <1>3
<1> HIDE DEF q
<1>7. Segment(q, table) /\ Len(q) = n /\ \A i \in 1..n : q[i].mode = mode
  BY <1>2, <1>5, <1>6 DEF Segment
<1> QED BY <1>7 DEF q, n

LEMMA NothingLocked == <<>> \in LockPlan /\ Len(<<>>) = 0 /\ Tail3(<<>>)
BY DEF LockPlan, Tail3

\* Rows of one table behind rows of earlier tables.
LEMMA TailGrows ==
    ASSUME NEW a, Tail3(a), NEW table \in RowTables, NEW b, Segment(b, table),
           \A i \in 1..Len(a) : Place(a[i].table) < Place(table)
    PROVE  Tail3(a \o b) /\ \A i \in 1..Len(a \o b) : Place((a \o b)[i].table) <= Place(table)
<1> DEFINE c == a \o b
<1>1. a \in LockPlan /\ b \in LockPlan
  BY DEF Tail3, Segment
<1>2. c \in LockPlan /\ Len(c) = Len(a) + Len(b) /\ Len(a) \in Nat /\ Len(b) \in Nat
  BY <1>1 DEF LockPlan
<1>3. /\ \A i \in 1..Len(a) : c[i] = a[i]
      /\ \A i \in Len(a)+1 .. Len(c) : c[i] = b[i - Len(a)] /\ i - Len(a) \in 1..Len(b)
  BY <1>1, <1>2 DEF LockPlan
<1> HIDE DEF c
<1>4. Place(table) \in 3..11 /\ table # "user"
  BY DEF RowTables, Tables, Place
<1>5. \A i \in 1..Len(a) :
         /\ c[i].table = a[i].table /\ c[i].pk = a[i].pk
         /\ Place(c[i].table) \in 3..11 /\ Place(c[i].table) < Place(table) /\ ~IsAccount(c[i])
  <2>1. \A i \in 1..Len(a) : a[i] \in LockRow
    BY <1>1 DEF LockPlan
  <2>2. \A i \in 1..Len(a) : Place(a[i].table) \in 0..11
    BY <2>1 DEF LockRow, Tables, Place
  <2> QED BY <1>3, <2>2 DEF Tail3
<1>6. \A i \in Len(a)+1 .. Len(c) : c[i].table = table /\ ~IsAccount(c[i])
  BY <1>3, <1>4 DEF Segment, IsAccount
<1>7. \A i, j \in 1..Len(c) : i < j =>
          \/ Place(c[i].table) < Place(c[j].table)
          \/ Place(c[i].table) = Place(c[j].table) /\ c[i].pk < c[j].pk
  <2> SUFFICES ASSUME NEW i \in 1..Len(c), NEW j \in 1..Len(c), i < j
               PROVE  \/ Place(c[i].table) < Place(c[j].table)
                      \/ Place(c[i].table) = Place(c[j].table) /\ c[i].pk < c[j].pk
    OBVIOUS
  <2>1. CASE j <= Len(a)
    <3>1. i \in 1..Len(a) /\ j \in 1..Len(a)
      BY <1>2, <2>1
    <3>2. c[i] = a[i] /\ c[j] = a[j]
      BY <1>3, <3>1
    <3> QED BY <3>1, <3>2 DEF Tail3
  <2>2. CASE i <= Len(a) /\ j > Len(a)
    <3>1. i \in 1..Len(a) /\ j \in Len(a)+1 .. Len(c)
      BY <1>2, <2>2
    <3> QED BY <1>5, <1>6, <3>1
  <2>3. CASE i > Len(a)
    <3>1. i \in Len(a)+1 .. Len(c) /\ j \in Len(a)+1 .. Len(c)
      BY <1>2, <2>3
    <3>2. c[i].pk < c[j].pk
      <4>1. i - Len(a) \in 1..Len(b) /\ j - Len(a) \in 1..Len(b) /\ i - Len(a) < j - Len(a)
        BY <1>2, <1>3, <3>1
      <4> QED BY <1>3, <3>1, <4>1 DEF Segment
    <3> QED BY <1>6, <3>1, <3>2
  <2> QED BY <1>2, <2>1, <2>2, <2>3
<1>8. \A i \in 1..Len(c) : i \in 1..Len(a) \/ i \in Len(a)+1 .. Len(c)
  BY <1>2
<1>9. \A i \in 1..Len(c) :
        /\ Place(c[i].table) >= 3 /\ ~IsAccount(c[i]) /\ Place(c[i].table) <= Place(table)
  BY <1>4, <1>5, <1>6, <1>8
<1>10. Tail3(c)
  BY <1>2, <1>7, <1>9 DEF Tail3
<1> QED BY <1>9, <1>10 DEF c

LEMMA TailOne ==
    ASSUME NEW table \in RowTables, NEW b, Segment(b, table)
    PROVE  Tail3(b) /\ \A i \in 1..Len(b) : Place(b[i].table) = Place(table)
<1>1. Place(table) \in 3..11 /\ table # "user"
  BY DEF RowTables, Tables, Place
<1>2. b \in LockPlan /\ \A i \in 1..Len(b) : b[i].table = table /\ ~IsAccount(b[i])
  BY <1>1 DEF Segment, IsAccount
<1>3. \A i, j \in 1..Len(b) : i < j => b[i].pk < b[j].pk
  BY DEF Segment
<1> QED BY <1>1, <1>2, <1>3 DEF Tail3

\* A reference to an account comes behind a record.
LEMMA TailRefers ==
    ASSUME NEW a, Segment(a, "record"), NEW u \in Nat
    PROVE  Tail3(a \o Lock("user", u, "KEY_SHARE"))
<1> DEFINE b == Lock("user", u, "KEY_SHARE")
           c == a \o b
<1>1. a \in LockPlan /\ Len(a) \in Nat
  BY DEF Segment, LockPlan
<1>2. b \in LockPlan /\ Len(b) = 1 /\ b[1].table = "user" /\ b[1].mode = "KEY_SHARE"
  <2>1. "user" \in Tables /\ "KEY_SHARE" \in Modes
    BY DEF Tables, Modes
  <2>2. /\ b \in LockPlan /\ Len(b) = 1
        /\ b[1] = [table |-> "user", pk |-> u, mode |-> "KEY_SHARE"]
    BY <2>1, LockIs
  <2> QED BY <2>2
<1> HIDE DEF b
<1>12. /\ c \in LockPlan /\ Len(c) = Len(a) + Len(b)
       /\ \A i \in 1..Len(a) + Len(b) : c[i] = IF i <= Len(a) THEN a[i] ELSE b[i - Len(a)]
  BY <1>1, <1>2, Joined
<1> HIDE DEF c
<1>3. /\ c \in LockPlan /\ Len(c) = Len(a) + 1
      /\ \A i \in 1..Len(a) + 1 : c[i] = IF i <= Len(a) THEN a[i] ELSE b[i - Len(a)]
  BY <1>2, <1>12
<1>11. c[Len(a) + 1] = b[1] /\ \A i \in 1..Len(a) : c[i] = a[i]
  <2>1. Len(a) + 1 - Len(a) = 1 /\ ~(Len(a) + 1 <= Len(a)) /\ Len(a) + 1 \in 1..Len(a) + 1
    BY <1>1
  <2> QED BY <1>1, <1>3, <2>1
<1>4. \A i \in 1..Len(a) : c[i].table = "record" /\ ~IsAccount(c[i]) /\ Place(c[i].table) = 4
  BY <1>11 DEF Segment, IsAccount, Place
<1>5. ~IsAccount(c[Len(a) + 1]) /\ Place(c[Len(a) + 1].table) = 9
  BY <1>2, <1>11 DEF IsAccount, Place
<1>6. \A i, j \in 1..Len(a) : i < j => c[i].pk < c[j].pk
  BY <1>11 DEF Segment
<1>7. \A i \in 1..Len(c) : i \in 1..Len(a) \/ i = Len(a) + 1
  BY <1>1, <1>3
<1>8. \A i \in 1..Len(c) : Place(c[i].table) \in {4, 9} /\ ~IsAccount(c[i])
  BY <1>4, <1>5, <1>7
<1>9. \A i, j \in 1..Len(c) : i < j =>
          \/ Place(c[i].table) < Place(c[j].table)
          \/ Place(c[i].table) = Place(c[j].table) /\ c[i].pk < c[j].pk
  BY <1>1, <1>4, <1>5, <1>6, <1>7
<1>10. Tail3(c)
  BY <1>3, <1>8, <1>9 DEF Tail3
<1> QED BY <1>10 DEF c, b

-----------------------------------------------------------------------------
(* Accounts, then rows *)

\* What a transaction locks before any other row.
AccountsFirst(h) ==
    /\ Orderly(h)
    /\ \A i \in 1..Len(h) : Turn(h, i) <= 2

LEMMA HeadTail ==
    ASSUME NEW h, AccountsFirst(h), NEW q, Tail3(q),
           \/ \A i \in 1..Len(q) : q[i].table = "document"
           \/ \A i \in 1..Len(h) : h[i].table = "user" => h[i].mode # "UPDATE"
    PROVE  Orderly(h \o q)
<1> DEFINE p == h \o q
<1>1. h \in LockPlan /\ q \in LockPlan
  BY DEF AccountsFirst, Orderly, Tail3
<1>2. p \in LockPlan /\ Len(p) = Len(h) + Len(q) /\ Len(h) \in Nat /\ Len(q) \in Nat
  BY <1>1 DEF LockPlan
<1>3. /\ \A i \in 1..Len(h) : p[i] = h[i]
      /\ \A i \in Len(h)+1 .. Len(p) : p[i] = q[i - Len(h)] /\ i - Len(h) \in 1..Len(q)
  BY <1>1, <1>2 DEF LockPlan
<1> HIDE DEF p
<1>4. \A i \in 1..Len(p) : i \in 1..Len(h) \/ i \in Len(h)+1 .. Len(p)
  BY <1>2
<1>5. \A i \in 1..Len(h) : Turn(p, i) = Turn(h, i) /\ Turn(p, i) \in 0..2
  <2> SUFFICES ASSUME NEW i \in 1..Len(h)
               PROVE  Turn(p, i) = Turn(h, i) /\ Turn(p, i) \in 0..2
    OBVIOUS
  <2>1. 1 \in 1..Len(h)
    BY <1>2
  <2>2. p[i] = h[i] /\ p[1] = h[1]
    BY <1>3, <2>1
  <2>3. Turn(h, i) \in 0..2
    BY <1>1, TurnIs DEF AccountsFirst
  <2> QED BY <2>2, <2>3 DEF Turn, UnderAccountWide
<1>6. \A i \in Len(h)+1 .. Len(p) :
        ~IsAccount(p[i]) /\ Turn(p, i) = Place(p[i].table) /\ Turn(p, i) >= 3
  BY <1>3 DEF Tail3, Turn
<1>7. \A i \in Len(h)+1 .. Len(p) : Turn(p, i) \in 3..11
  <2>1. \A i \in Len(h)+1 .. Len(p) : i \in 1..Len(p)
    BY <1>2
  <2>2. \A i \in Len(h)+1 .. Len(p) : Turn(p, i) \in 0..11
    BY <1>2, <2>1, TurnIs
  <2> QED BY <1>6, <2>2
<1>8. ASSUME NEW i \in 1..Len(p), NEW j \in 1..Len(p), i < j
      PROVE  /\ Precedes(p, i, p, j)
             /\ p[i].table = "user" /\ p[i].mode = "UPDATE" => p[j].table = "document"
  <2>1. CASE j \in 1..Len(h)
    <3>1. i \in 1..Len(h)
      BY <1>2, <1>8, <2>1
    <3>2. p[i] = h[i] /\ p[j] = h[j] /\ Turn(p, i) = Turn(h, i) /\ Turn(p, j) = Turn(h, j)
      BY <1>3, <1>5, <2>1, <3>1
    <3>3. /\ Precedes(h, i, h, j)
          /\ h[i].table = "user" /\ h[i].mode = "UPDATE" => h[j].table = "document"
      BY <1>8, <2>1, <3>1 DEF AccountsFirst, Orderly
    <3> QED BY <3>2, <3>3 DEF Precedes
  <2>2. CASE i \in 1..Len(h) /\ j \in Len(h)+1 .. Len(p)
    <3>1. Turn(p, i) < Turn(p, j)
      BY <1>5, <1>7, <2>2
    <3>2. p[i] = h[i] /\ p[j] = q[j - Len(h)] /\ j - Len(h) \in 1..Len(q)
      BY <1>3, <2>2
    <3> QED BY <2>2, <3>1, <3>2 DEF Precedes
  <2>3. CASE i \in Len(h)+1 .. Len(p) /\ j \in Len(h)+1 .. Len(p)
    <3>1. /\ i - Len(h) \in 1..Len(q) /\ j - Len(h) \in 1..Len(q) /\ i - Len(h) < j - Len(h)
          /\ p[i] = q[i - Len(h)] /\ p[j] = q[j - Len(h)]
      BY <1>2, <1>3, <1>8, <2>3
    <3>2. \/ Place(p[i].table) < Place(p[j].table)
          \/ Place(p[i].table) = Place(p[j].table) /\ p[i].pk < p[j].pk
      BY <3>1 DEF Tail3
    <3>3. ~(p[i].table = "user" /\ p[i].mode = "UPDATE")
      BY <1>6, <2>3 DEF IsAccount
    <3> QED BY <1>6, <2>3, <3>2, <3>3 DEF Precedes
  <2> QED BY <1>2, <1>4, <1>8, <2>1, <2>2, <2>3
<1>9. ASSUME NEW i \in 1..Len(p), Turn(p, i) = 2
      PROVE  UnderAccountWide(p) /\ i # 1
  <2>1. i \in 1..Len(h) /\ 1 \in 1..Len(h)
    BY <1>2, <1>4, <1>7, <1>9
  <2>2. UnderAccountWide(h) /\ i # 1
    BY <1>5, <1>9, <2>1 DEF AccountsFirst, Orderly
  <2> QED BY <1>3, <2>1, <2>2 DEF UnderAccountWide
<1>10. Orderly(p)
  BY <1>2, <1>8, <1>9 DEF Orderly
<1> QED BY <1>10 DEF p

LEMMA ModeNames ==
    /\ {"advisory", "user", "policy", "record", "office", "series", "external", "entry",
        "document", "tag"} \subseteq Tables
    /\ {"policy", "record", "office", "series", "external", "entry", "document", "tag"}
          \subseteq RowTables
    /\ {"KEY_SHARE", "NO_KEY_UPDATE", "UPDATE"} \subseteq Modes
BY DEF Tables, RowTables, Modes

LEMMA NoAccounts ==
    /\ AccountsFirst(<<>>)
    /\ \A i \in 1..Len(<<>>) : <<>>[i].table = "user" => <<>>[i].mode # "UPDATE"
<1>1. <<>> \in LockPlan /\ Len(<<>>) = 0 /\ \A i : i \notin 1..0
  BY NothingLocked
<1> QED BY <1>1 DEF AccountsFirst, Orderly

\* One account.
LEMMA OneAccount ==
    ASSUME NEW u \in Nat, NEW mode \in {"NO_KEY_UPDATE", "UPDATE"},
           NEW h, h = Lock("user", u, mode)
    PROVE  /\ AccountsFirst(h) /\ h \in LockPlan
           /\ \A i \in 1..Len(h) : h[i].table = "user" /\ h[i].mode = mode
           /\ Len(h) = 1
<1>1. h \in LockPlan /\ Len(h) = 1 /\ h[1] = [table |-> "user", pk |-> u, mode |-> mode]
  <2>1. mode \in Modes
    BY DEF Modes
  <2> QED BY <2>1, LockIs, ModeNames
<1>2. Turn(h, 1) = 1
  BY <1>1 DEF Turn, IsAccount
<1>3. \A i \in 1..Len(h) : i = 1
  <2>1. Len(h) = 1
    BY <1>1
  <2>2. \A i \in 1..1 : i = 1
    OBVIOUS
  <2> QED BY <2>1, <2>2
<1>4. Orderly(h)
  BY <1>1, <1>2, <1>3 DEF Orderly
<1> QED BY <1>1, <1>2, <1>3, <1>4 DEF AccountsFirst

\* One account or two under the lock of the whole account table.
LEMMA WideAccounts ==
    ASSUME NEW h \in LockPlan, Len(h) \in {2, 3}, UnderAccountWide(h),
           \A i \in 2..Len(h) : h[i].table = "user" /\ h[i].mode = "NO_KEY_UPDATE"
    PROVE  /\ AccountsFirst(h)
           /\ \A i \in 1..Len(h) : h[i].table = "user" => h[i].mode # "UPDATE"
<1>1. h[1].table = "advisory"
  BY DEF UnderAccountWide
<1>2. Turn(h, 1) = 0
  BY <1>1 DEF Turn, IsAccount, Place
<1>3. \A i \in 2..Len(h) : Turn(h, i) = IF i = 2 THEN 1 ELSE 2
  BY DEF Turn, IsAccount
<1>4. \A i \in 1..Len(h) : i = 1 \/ i \in 2..Len(h)
  OBVIOUS
<1>5. \A i \in 1..Len(h) : h[i].table = "user" => h[i].mode # "UPDATE"
  BY <1>1, <1>4
<1>6. \A i, j \in 1..Len(h) : i < j => Turn(h, i) < Turn(h, j)
  <2>1. \A i \in 1..Len(h) : Turn(h, i) = i - 1
    BY <1>2, <1>3, <1>4
  <2> QED BY <2>1
<1>7. \A i \in 1..Len(h) : Turn(h, i) = 2 => i # 1
  BY <1>2
<1>8. Orderly(h)
  BY <1>5, <1>6, <1>7 DEF Orderly, Precedes
<1>9. \A i \in 1..Len(h) : Turn(h, i) <= 2
  BY <1>2, <1>3, <1>4
<1> QED BY <1>5, <1>8, <1>9 DEF AccountsFirst

-----------------------------------------------------------------------------
(* The transactions *)

LEMMA KeysAreNumbers ==
    /\ Users \subseteq Nat /\ Records \subseteq Nat /\ Offices \subseteq Nat
    /\ Documents \subseteq Nat /\ Tags \subseteq Nat /\ Entries \subseteq Nat
BY RowLocksAssumption

LEMMA ActorIs ==
    ASSUME NEW u \in Users
    PROVE  /\ AccountsFirst(Actor(u)) /\ Actor(u) \in LockPlan
           /\ \A i \in 1..Len(Actor(u)) :
                Actor(u)[i].table = "user" /\ Actor(u)[i].mode = "NO_KEY_UPDATE"
           /\ Len(Actor(u)) = 1
<1>1. u \in Nat
  BY KeysAreNumbers
<1> QED BY <1>1, OneAccount DEF Actor

\* An actor, then rows.
LEMMA ActorThen ==
    ASSUME NEW u \in Users, NEW q, Tail3(q)
    PROVE  Orderly(Actor(u) \o q)
<1>1. /\ AccountsFirst(Actor(u))
      /\ \A i \in 1..Len(Actor(u)) : Actor(u)[i].mode = "NO_KEY_UPDATE"
  BY ActorIs
<1> DEFINE h == Actor(u)
<1> HIDE DEF h
<1> QED BY <1>1, HeadTail

LEMMA WideIs ==
    /\ AccountWide \in LockPlan /\ Len(AccountWide) = 1
    /\ AccountWide[1] = [table |-> "advisory", pk |-> 0, mode |-> "UPDATE"]
<1>1. 0 \in Nat
  OBVIOUS
<1> QED BY <1>1, LockIs, ModeNames DEF AccountWide

\* The lock of the account table, one account or two, then rows.
LEMMA WideThen ==
    ASSUME NEW a \in LockPlan, Len(a) \in {1, 2},
           \A i \in 1..Len(a) : a[i].table = "user" /\ a[i].mode = "NO_KEY_UPDATE",
           NEW q, Tail3(q)
    PROVE  /\ Orderly((AccountWide \o a) \o q)
           /\ (AccountWide \o a) \o q = AccountWide \o (a \o q)
<1> DEFINE h == AccountWide \o a
<1>1. a \in LockPlan /\ q \in LockPlan /\ AccountWide \in LockPlan
  BY WideIs DEF Tail3
<1>8. /\ h \in LockPlan /\ Len(h) = Len(AccountWide) + Len(a)
      /\ \A i \in 1..Len(AccountWide) + Len(a) :
            h[i] = IF i <= Len(AccountWide) THEN AccountWide[i] ELSE a[i - Len(AccountWide)]
  BY <1>1, Joined
<1> HIDE DEF h
<1>9. Len(AccountWide) = 1
  BY WideIs
<1>10. Len(h) = 1 + Len(a) /\ \A i \in 1..1 + Len(a) :
            h[i] = IF i <= 1 THEN AccountWide[i] ELSE a[i - 1]
  BY <1>8, <1>9
<1>2. /\ h \in LockPlan /\ Len(h) = 1 + Len(a) /\ h[1] = AccountWide[1]
      /\ \A i \in 2..Len(h) : h[i] = a[i - 1] /\ i - 1 \in 1..Len(a)
  BY <1>8, <1>10
<1>3. \A i \in 2..Len(h) : h[i].table = "user" /\ h[i].mode = "NO_KEY_UPDATE"
  BY <1>2
<1>4. UnderAccountWide(h)
  BY <1>2, WideIs DEF UnderAccountWide
<1>5. Len(h) \in {2, 3}
  BY <1>10
<1>6. /\ AccountsFirst(h)
      /\ \A i \in 1..Len(h) : h[i].table = "user" => h[i].mode # "UPDATE"
  BY <1>2, <1>3, <1>4, <1>5, WideAccounts
<1>7. Orderly(h \o q)
  BY <1>6, HeadTail
<1> QED BY <1>1, <1>7, Regrouped DEF h

\* A row of one table, and rows of two or three, behind the actor.
LEMMA ActorThenRows ==
    ASSUME NEW u \in Users, NEW tx \in RowTables, NEW x, Segment(x, tx)
    PROVE  /\ Orderly(Actor(u) \o x)
           /\ \A ty \in RowTables : \A y :
                Segment(y, ty) /\ Place(tx) < Place(ty) => Orderly((Actor(u) \o x) \o y)
           /\ \A ty, tz \in RowTables : \A y, z :
                /\ Segment(y, ty) /\ Place(tx) < Place(ty)
                /\ Segment(z, tz) /\ Place(ty) < Place(tz)
                => Orderly(((Actor(u) \o x) \o y) \o z)
<1> DEFINE a == Actor(u)
<1>1. a \in LockPlan /\ x \in LockPlan
  BY ActorIs DEF Segment
<1>2. Tail3(x) /\ \A i \in 1..Len(x) : Place(x[i].table) = Place(tx)
  BY TailOne
<1>3. \A t \in RowTables : Place(t) \in Nat
  BY DEF RowTables, Tables, Place
<1>4. ASSUME NEW ty \in RowTables, NEW y, Segment(y, ty), Place(tx) < Place(ty)
      PROVE  /\ Orderly((a \o x) \o y) /\ y \in LockPlan
             /\ Tail3(x \o y) /\ \A i \in 1..Len(x \o y) : Place((x \o y)[i].table) <= Place(ty)
  <2>1. \A i \in 1..Len(x) : Place(x[i].table) < Place(ty)
    BY <1>2, <1>4
  <2>2. Tail3(x \o y) /\ \A i \in 1..Len(x \o y) : Place((x \o y)[i].table) <= Place(ty)
    BY <1>2, <1>4, <2>1, TailGrows
  <2>3. y \in LockPlan
    BY <1>4 DEF Segment
  <2>4. (a \o x) \o y = a \o (x \o y)
    BY <1>1, <2>3, Regrouped
  <2> QED BY <2>2, <2>3, <2>4, ActorThen
<1>5. ASSUME NEW ty \in RowTables, NEW y, Segment(y, ty), Place(tx) < Place(ty),
             NEW tz \in RowTables, NEW z, Segment(z, tz), Place(ty) < Place(tz)
      PROVE  Orderly(((a \o x) \o y) \o z)
  <2>1. y \in LockPlan /\ z \in LockPlan
    BY <1>5 DEF Segment
  <2> DEFINE xy == x \o y
  <2>2. xy \in LockPlan
    BY <1>1, <2>1, Joined
  <2>3. Tail3(xy) /\ \A i \in 1..Len(xy) : Place(xy[i].table) <= Place(ty)
    BY <1>4, <1>5
  <2>4. (a \o x) \o y = a \o xy
    BY <1>1, <2>1, Regrouped
  <2> HIDE DEF xy
  <2>5. \A i \in 1..Len(xy) : xy[i] \in LockRow
    BY <2>2 DEF LockPlan
  <2>6. \A i \in 1..Len(xy) : Place(xy[i].table) \in Nat
    BY <2>5 DEF LockRow, Tables, Place
  <2>7. \A i \in 1..Len(xy) : Place(xy[i].table) < Place(tz)
    BY <1>3, <1>5, <2>3, <2>6
  <2>8. Tail3(xy \o z)
    BY <1>5, <2>3, <2>7, TailGrows
  <2>9. (a \o xy) \o z = a \o (xy \o z)
    BY <1>1, <2>1, <2>2, Regrouped
  <2> QED BY <2>4, <2>8, <2>9, ActorThen
<1>6. Orderly(a \o x)
  BY <1>2, ActorThen
<1> QED BY <1>4, <1>5, <1>6

\* The services whose transactions take their turns; the other three lock an
\* account after a record or a record's tags out of order.
InTurn == AllServices \ {"share_with_user", "administer", "review_tag"}

LEMMA RequestedIsOrderly ==
    ASSUME NEW service \in InTurn, NEW p \in Transactions(service)
    PROVE  Orderly(p)
<1>1. \A r \in Nat : /\ Segment(Lock("record", r, "UPDATE"), "record")
                      /\ Segment(Lock("document", r, "UPDATE"), "document")
                      /\ Segment(Lock("office", r, "NO_KEY_UPDATE"), "office")
                      /\ Segment(Lock("policy", r, "UPDATE"), "policy")
                      /\ Segment(Lock("external", r, "UPDATE"), "external")
  <2>1. {"record", "document", "office", "policy", "external"} \subseteq Tables
    BY DEF Tables
  <2>2. {"UPDATE", "NO_KEY_UPDATE"} \subseteq Modes
    BY DEF Modes
  <2>3. \A r \in Nat, table \in Tables, mode \in Modes : Segment(Lock(table, r, mode), table)
    BY LockIs
  <2> QED BY <2>1, <2>2, <2>3
<1>2. /\ Place("record") = 4 /\ Place("office") = 5 /\ Place("series") = 6
      /\ Place("external") = 7 /\ Place("entry") = 8 /\ Place("document") = 10
      /\ Place("tag") = 11
  BY DEF Place
<1>3. ASSUME NEW u \in Users, NEW r \in Records
      PROVE  Orderly(Work(u, r))
  BY <1>1, KeysAreNumbers, ModeNames, ActorThenRows DEF Work
<1>4. CASE service = "work"
  BY <1>3, <1>4 DEF Transactions
<1>5. CASE service = "route"
  <2>1. PICK u \in Users, r \in Records, dest \in Ascending(Offices) \ {<<>>},
             series \in {<<>>} \cup {<<o>> : o \in Offices} : p = Route(u, r, dest, series)
    BY <1>5 DEF Transactions
  <2>2. Sorted(dest) /\ Sorted(series)
    BY <2>1, KeysAreNumbers, AscendingIsSorted, FewAreSorted
  <2>3. /\ Segment(InPkOrder("office", dest, "NO_KEY_UPDATE"), "office")
        /\ Segment(InPkOrder("series", series, "UPDATE"), "series")
    BY <2>2, InPkOrderIs, ModeNames
  <2> QED BY <1>1, <1>2, <2>1, <2>3, KeysAreNumbers, ModeNames, ActorThenRows DEF Route, Work
<1>6. CASE service = "bulk_receive"
  <2>1. PICK u \in Users, rr \in Ascending(Records) \ {<<>>} : p = BulkReceive(u, rr)
    BY <1>6 DEF Transactions
  <2>2. Segment(InPkOrder("record", rr, "UPDATE"), "record")
    BY <2>1, KeysAreNumbers, AscendingIsSorted, InPkOrderIs, ModeNames
  <2> QED BY <2>1, <2>2, ModeNames, ActorThenRows DEF BulkReceive
<1>7. CASE service = "file"
  <2>1. PICK u \in Users, v \in Users, r \in Records : p = File(u, r, v)
    BY <1>7 DEF Transactions
  <2> DEFINE a == Actor(u)
             b == Lock("record", r, "UPDATE")
             c == Lock("user", v, "KEY_SHARE")
  <2>2. a \in LockPlan /\ b \in LockPlan /\ c \in LockPlan
    <3>1. "user" \in Tables /\ "KEY_SHARE" \in Modes
      BY DEF Tables, Modes
    <3>2. u \in Nat /\ v \in Nat /\ r \in Nat
      BY <2>1, KeysAreNumbers
    <3>3. c \in LockPlan
      BY <3>1, <3>2, LockIs
    <3>4. b \in LockPlan
      BY <1>1, <3>2 DEF Segment
    <3> QED BY <3>3, <3>4, ActorIs
  <2>3. Tail3(b \o c)
    BY <1>1, <2>1, KeysAreNumbers, TailRefers
  <2>4. Orderly(a \o (b \o c))
    BY <2>1, <2>3, ActorThen
  <2>5. (a \o b) \o c = a \o (b \o c)
    BY <2>2, Regrouped
  <2>6. p = (a \o b) \o c
    BY <2>1 DEF File, Work
  <2> QED BY <2>4, <2>5, <2>6
<1>8. CASE service = "chase"
  <2>1. PICK r \in Records : p = Chase(r)
    BY <1>8 DEF Transactions
  <2>2. Tail3(p)
    BY <1>1, <2>1, KeysAreNumbers, ModeNames, TailOne DEF Chase
  <2>3. <<>> \o p = p
    BY <2>2, ConcatEmptySeq DEF Tail3, LockPlan
  <2>5. Orderly(<<>> \o p)
    BY <2>2, NoAccounts, HeadTail
  <2> QED BY <2>3, <2>5
<1>9. CASE service = "share_with_office"
  <2>1. PICK u \in Users, r \in Records, o \in Offices : p = ShareWithOffice(u, r, o)
    BY <1>9 DEF Transactions
  <2> DEFINE a == Actor(u)
             b == Lock("record", r, "UPDATE")
             c == Lock("office", o, "NO_KEY_UPDATE")
  <2>2. r \in Nat /\ o \in Nat
    BY <2>1, KeysAreNumbers
  <2>3. Segment(b, "record") /\ Segment(c, "office")
    BY <1>1, <2>2
  <2>4. a \in LockPlan /\ b \in LockPlan /\ c \in LockPlan /\ AccountWide \in LockPlan
    BY <2>3, ActorIs, WideIs DEF Segment
  <2>5. Tail3(b \o c)
    <3>1. \A i \in 1..Len(b) : Place(b[i].table) < Place("office")
      BY <1>2, <2>3 DEF Segment
    <3> QED BY <2>3, <3>1, ModeNames, TailOne, TailGrows
  <2>6. Orderly((AccountWide \o a) \o (b \o c))
    BY <2>5, ActorIs, WideThen
  <2>7. (AccountWide \o (a \o b)) \o c = (AccountWide \o a) \o (b \o c)
    <3>1. AccountWide \o (a \o b) = (AccountWide \o a) \o b
      BY <2>4, Regrouped
    <3>2. AccountWide \o a \in LockPlan
      BY <2>4, Joined
    <3> DEFINE w == AccountWide \o a
    <3> HIDE DEF w
    <3>3. (w \o b) \o c = w \o (b \o c)
      BY <2>4, <3>2, Regrouped DEF w
    <3> QED BY <3>1, <3>3 DEF w
  <2>8. p = (AccountWide \o (a \o b)) \o c
    BY <2>1 DEF ShareWithOffice, Work
  <2> QED BY <2>6, <2>7, <2>8
<1>10. CASE service = "restrict"
  <2>1. PICK u \in Users, v \in Users : p = RestrictAccount(u, v)
    BY <1>10 DEF Transactions
  <2> DEFINE rows == BothInOrder(u, v)
             a == InPkOrder("user", rows, "NO_KEY_UPDATE")
             q == Lock("policy", v, "UPDATE")
  <2>2. u \in Nat /\ v \in Nat
    BY <2>1, KeysAreNumbers
  <2>3. Sorted(rows) /\ Len(rows) \in {1, 2}
    BY <2>2, FewAreSorted
  <2>4. Tail3(q)
    BY <1>1, <2>2, ModeNames, TailOne
  <2> HIDE DEF rows, q
  <2>5. /\ Segment(a, "user") /\ Len(a) = Len(rows)
        /\ \A i \in 1..Len(rows) : a[i].mode = "NO_KEY_UPDATE"
    BY <2>3, InPkOrderIs, ModeNames
  <2> HIDE DEF a
  <2>6. /\ a \in LockPlan /\ Len(a) \in {1, 2}
        /\ \A i \in 1..Len(a) : a[i].table = "user" /\ a[i].mode = "NO_KEY_UPDATE"
    BY <2>3, <2>5 DEF Segment
  <2>7. Orderly((AccountWide \o a) \o q)
    BY <2>4, <2>6, WideThen
  <2>8. p = (AccountWide \o a) \o q
    BY <2>1 DEF RestrictAccount, a, q, rows
  <2> QED BY <2>7, <2>8
<1>11. CASE service = "raw_admin"
  <2>1. PICK u \in Users, v \in Users : p = RawAdmin(u, v)
    BY <1>11 DEF Transactions
  <2> DEFINE b == Lock("user", v, "NO_KEY_UPDATE")
             c == Actor(u)
             a == c \o b
  <2>2. u \in Nat /\ v \in Nat
    BY <2>1, KeysAreNumbers
  <2>3. /\ b \in LockPlan /\ Len(b) = 1 /\ c \in LockPlan /\ Len(c) = 1
        /\ \A i \in 1..Len(b) : b[i].table = "user" /\ b[i].mode = "NO_KEY_UPDATE"
        /\ \A i \in 1..Len(c) : c[i].table = "user" /\ c[i].mode = "NO_KEY_UPDATE"
    BY <2>2, ActorIs, OneAccount
  <2> HIDE DEF b, c
  <2>10. /\ a \in LockPlan /\ Len(a) = Len(c) + Len(b)
         /\ \A i \in 1..Len(c) + Len(b) : a[i] = IF i <= Len(c) THEN c[i] ELSE b[i - Len(c)]
    BY <2>3, Joined
  <2> HIDE DEF a
  <2>4. /\ a \in LockPlan /\ Len(a) = 2
        /\ \A i \in 1..2 : a[i] = IF i <= 1 THEN c[i] ELSE b[i - 1]
    BY <2>3, <2>10
  <2>5. \A i \in 1..Len(a) : a[i].table = "user" /\ a[i].mode = "NO_KEY_UPDATE"
    BY <2>3, <2>4
  <2>6. /\ Orderly((AccountWide \o a) \o <<>>)
        /\ (AccountWide \o a) \o <<>> = AccountWide \o (a \o <<>>)
    BY <2>4, <2>5, NothingLocked, WideThen
  <2>7. a \o <<>> = a
    BY <2>4, ConcatEmptySeq DEF LockPlan
  <2>8. AccountWide \o a = (AccountWide \o c) \o b
    BY <2>3, WideIs, Regrouped DEF a
  <2>9. p = (AccountWide \o c) \o b
    BY <2>1 DEF RawAdmin, b, c
  <2> QED BY <2>6, <2>7, <2>8, <2>9
<1>12. CASE service = "account"
  <2>1. PICK u \in Users : p = Account(u)
    BY <1>12 DEF Transactions
  <2>2. AccountsFirst(p)
    BY <2>1, KeysAreNumbers, OneAccount DEF Account
  <2> QED BY <2>2 DEF AccountsFirst
<1>13. CASE service = "edit_document"
  <2>1. PICK u \in Users, d \in Documents : p = EditDocument(u, d)
    BY <1>13 DEF Transactions
  <2> QED BY <1>1, <2>1, KeysAreNumbers, ModeNames, ActorThenRows DEF EditDocument
<1>14. CASE service = "extract"
  <2>1. PICK u \in Users, d \in Documents : p = Extract(u, d)
    BY <1>14 DEF Transactions
  <2> DEFINE h == Lock("user", u, "UPDATE")
             q == Lock("document", d, "UPDATE")
  <2>2. AccountsFirst(h)
    BY <2>1, KeysAreNumbers, OneAccount
  <2>3. Segment(q, "document")
    BY <1>1, <2>1, KeysAreNumbers
  <2>4. Tail3(q) /\ \A i \in 1..Len(q) : q[i].table = "document"
    BY <2>3, ModeNames, TailOne DEF Segment
  <2> HIDE DEF h, q
  <2>5. Orderly(h \o q)
    BY <2>2, <2>4, HeadTail
  <2> QED BY <2>1, <2>5 DEF Extract, h, q
<1>15. CASE service = "set_tags"
  <2>1. PICK u \in Users, d \in Documents, tags \in Ascending(Tags) : p = SetTags(u, d, tags)
    BY <1>15 DEF Transactions
  <2>2. Segment(InPkOrder("tag", tags, "UPDATE"), "tag")
    BY <2>1, KeysAreNumbers, AscendingIsSorted, InPkOrderIs, ModeNames
  <2> QED BY <1>1, <1>2, <2>1, <2>2, KeysAreNumbers, ModeNames, ActorThenRows
          DEF SetTags, EditDocument
<1>16. CASE service = "correct_external"
  <2>1. PICK u \in Users, r \in Records, entries \in Ascending(Entries) :
            p = CorrectExternal(u, r, entries)
    BY <1>16 DEF Transactions
  <2>2. Segment(InPkOrder("entry", entries, "UPDATE"), "entry")
    BY <2>1, KeysAreNumbers, AscendingIsSorted, InPkOrderIs, ModeNames
  <2> QED BY <1>1, <1>2, <2>1, <2>2, KeysAreNumbers, ModeNames, ActorThenRows
          DEF CorrectExternal
<1> QED BY <1>4, <1>5, <1>6, <1>7, <1>8, <1>9, <1>10, <1>11, <1>12, <1>13, <1>14, <1>15, <1>16
        DEF InTurn, AllServices

-----------------------------------------------------------------------------
(* Who holds what *)

Clash(g, h) == g.table = h.table /\ g.pk = h.pk /\ Conflicts(g.mode, h.mode)

\* Two sessions never hold one row in modes that conflict.
Exclusive ==
    \A s, t \in Sessions : s # t =>
        \A g \in Holds(s), h \in Holds(t) : ~Clash(g, h)

LockInv ==
    /\ plan \in [Sessions -> LockPlan]
    /\ held \in [Sessions -> Nat]
    /\ \A s \in Sessions : held[s] <= Len(plan[s]) /\ Orderly(plan[s])
    /\ Exclusive

LEMMA ClashIsMutual == \A g, h : Clash(g, h) <=> Clash(h, g)
BY DEF Clash, Conflicts

LEMMA NothingIsOrderly == Orderly(<<>>)
BY NoAccounts DEF AccountsFirst

LEMMA InitLockInv == LockInit => LockInv
<1> SUFFICES ASSUME LockInit
             PROVE  LockInv
  OBVIOUS
<1>1. \A s \in Sessions : plan[s] = <<>> /\ held[s] = 0
  BY DEF LockInit
<1>2. plan \in [Sessions -> LockPlan] /\ held \in [Sessions -> Nat]
  BY NothingLocked DEF LockInit
<1>3. \A s \in Sessions : Holds(s) = {}
  BY <1>1 DEF Holds
<1>4. Exclusive
  BY <1>3 DEF Exclusive
<1> QED BY <1>1, <1>2, <1>4, NothingIsOrderly, NothingLocked DEF LockInv

LEMMA BeginKeepsLockInv ==
    ASSUME LockInv, NEW s \in Sessions, NEW locks, Orderly(locks), Begin(s, locks)
    PROVE  LockInv'
<1>1. locks \in LockPlan /\ Len(locks) \in Nat
  BY DEF Orderly, LockPlan
<1>2. plan' \in [Sessions -> LockPlan] /\ held' \in [Sessions -> Nat]
  BY <1>1 DEF Begin, LockInv
<1>3. /\ plan'[s] = locks /\ held' = held
      /\ \A t \in Sessions \ {s} : plan'[t] = plan[t]
  BY DEF Begin, LockInv
<1>4. held[s] = 0
  BY NothingLocked DEF Begin, LockInv
<1>5. \A t \in Sessions : held'[t] <= Len(plan'[t]) /\ Orderly(plan'[t])
  BY <1>1, <1>3, <1>4 DEF LockInv
<1>6. Holds(s)' = {} /\ \A t \in Sessions \ {s} : Holds(t)' = Holds(t)
  BY <1>3, <1>4 DEF Holds
<1>7. Exclusive'
  BY <1>6 DEF Exclusive, LockInv
<1> QED BY <1>2, <1>5, <1>7 DEF LockInv

LEMMA AcquireKeepsLockInv ==
    ASSUME LockInv, NEW s \in Sessions, Acquire(s)
    PROVE  LockInv'
<1>1. /\ held'[s] = held[s] + 1 /\ plan' = plan
      /\ \A t \in Sessions \ {s} : held'[t] = held[t]
      /\ held[s] < Len(plan[s])
  BY DEF Acquire, Asks, LockInv
<1>2. plan' \in [Sessions -> LockPlan] /\ held' \in [Sessions -> Nat]
  BY DEF Acquire, LockInv
<1>3. \A t \in Sessions : held[t] \in Nat /\ Len(plan[t]) \in Nat
  BY DEF LockInv, LockPlan
<1>4. \A t \in Sessions : held'[t] <= Len(plan'[t]) /\ Orderly(plan'[t])
  BY <1>1, <1>3 DEF LockInv
<1> DEFINE asked == plan[s][held[s] + 1]
<1>5. Asks(s) = {asked}
  BY <1>1 DEF Asks
<1>6. Holds(s)' = Holds(s) \cup {asked}
  <2>1. 1..(held[s] + 1) = (1..held[s]) \cup {held[s] + 1}
    BY <1>3
  <2> QED BY <1>1, <2>1 DEF Holds
<1>7. \A t \in Sessions \ {s} : Holds(t)' = Holds(t)
  BY <1>1 DEF Holds
<1> HIDE DEF asked
<1>8. \A t \in Sessions \ {s} : \A h \in Holds(t) : ~Clash(asked, h)
  BY <1>5 DEF Acquire, Waiting, WaitsFor, Clash
<1>9. \A t \in Sessions \ {s} : \A g \in Holds(s)', h \in Holds(t) : ~Clash(g, h) /\ ~Clash(h, g)
  BY <1>6, <1>8, ClashIsMutual DEF Exclusive, LockInv
<1>10. Exclusive'
  <2> SUFFICES ASSUME NEW v \in Sessions, NEW t \in Sessions, v # t,
                      NEW g \in Holds(v)', NEW h \in Holds(t)'
               PROVE  ~Clash(g, h)
    BY DEF Exclusive, Clash
  <2>1. CASE v = s
    BY <1>7, <1>9, <2>1
  <2>2. CASE t = s
    BY <1>7, <1>9, <2>2
  <2>3. CASE v # s /\ t # s
    BY <1>7, <2>3 DEF Exclusive, LockInv
  <2> QED BY <2>1, <2>2, <2>3
<1> QED BY <1>2, <1>4, <1>10 DEF LockInv

LEMMA EndKeepsLockInv ==
    ASSUME LockInv, NEW s \in Sessions, End(s)
    PROVE  LockInv'
<1>1. /\ plan'[s] = <<>> /\ held'[s] = 0
      /\ \A t \in Sessions \ {s} : plan'[t] = plan[t] /\ held'[t] = held[t]
  BY DEF End, LockInv
<1>2. plan' \in [Sessions -> LockPlan] /\ held' \in [Sessions -> Nat]
  BY NothingLocked DEF End, LockInv
<1>3. \A t \in Sessions : held'[t] <= Len(plan'[t]) /\ Orderly(plan'[t])
  BY <1>1, NothingLocked, NothingIsOrderly DEF LockInv
<1>4. Holds(s)' = {} /\ \A t \in Sessions \ {s} : Holds(t)' = Holds(t)
  BY <1>1 DEF Holds
<1>5. Exclusive'
  BY <1>4 DEF Exclusive, LockInv
<1> QED BY <1>2, <1>3, <1>5 DEF LockInv

LEMMA NextLockInv ==
    ASSUME Services \subseteq InTurn
    PROVE  LockInv /\ [LockNext]_lockVars => LockInv'
<1> SUFFICES ASSUME LockInv, [LockNext]_lockVars
             PROVE  LockInv'
  OBVIOUS
<1>1. ASSUME NEW s \in Sessions, NEW locks \in Requested, Begin(s, locks)
      PROVE  LockInv'
  <2>1. Orderly(locks)
    BY RequestedIsOrderly DEF Requested
  <2> QED BY <1>1, <2>1, BeginKeepsLockInv
<1>2. CASE UNCHANGED lockVars
  <2>1. plan' = plan /\ held' = held
    BY <1>2 DEF lockVars
  <2>2. \A s : Holds(s)' = Holds(s)
    BY <2>1 DEF Holds
  <2>3. Exclusive'
    BY <2>2 DEF Exclusive, LockInv
  <2> QED BY <2>1, <2>3 DEF LockInv
<1> QED BY <1>1, <1>2, AcquireKeepsLockInv, EndKeepsLockInv DEF LockNext

-----------------------------------------------------------------------------
(* Who waits for whom *)

\* The turn of what a session asks for, and its primary key.
NextTurn(s) == Turn(plan[s], held[s] + 1)

NextKey(s) == plan[s][held[s] + 1].pk

Before(s, t) == NextTurn(s) < NextTurn(t) \/ (NextTurn(s) = NextTurn(t) /\ NextKey(s) < NextKey(t))

\* A session waits for one whose turn comes later, if that one still asks.
LEMMA WaitingIsForward ==
    ASSUME LockInv, NEW s \in Sessions, NEW t \in Sessions, WaitsFor(s, t), Asks(t) # {}
    PROVE  Before(s, t)
<1> DEFINE p == plan[s]
           q == plan[t]
           i == held[s] + 1
           k == held[t] + 1
<1>1. /\ p \in LockPlan /\ Len(p) \in Nat /\ i \in 1..Len(p)
      /\ q \in LockPlan /\ Len(q) \in Nat /\ k \in 1..Len(q)
      /\ held[s] \in Nat /\ held[t] \in Nat
  BY DEF LockInv, LockPlan, WaitsFor, Asks
<1>2. Orderly(p) /\ Orderly(q)
  BY DEF LockInv
<1>3. PICK j \in 1..held[t] : s # t /\ Clash(p[i], q[j])
  BY DEF WaitsFor, Asks, Holds, Clash
<1>4. j \in 1..Len(q) /\ j < k
  BY <1>1, <1>3
<1>5. \A n \in 1..held[s] : p[n] \in Holds(s)
  BY DEF Holds
<1>6. \A n \in 1..held[t] : q[n] \in Holds(t)
  BY DEF Holds
<1>7. \A g \in Holds(s), h \in Holds(t) : ~Clash(g, h)
  BY <1>3 DEF LockInv, Exclusive
<1>8. NextTurn(s) = Turn(p, i) /\ NextTurn(t) = Turn(q, k) /\ NextKey(s) = p[i].pk /\ NextKey(t) = q[k].pk
  BY DEF NextTurn, NextKey
<1> HIDE DEF p, q, i, k
<1>9. Precedes(q, j, q, k)
  BY <1>1, <1>2, <1>4 DEF Orderly
<1>10. /\ p[i] \in LockRow /\ Turn(p, i) \in 0..11 /\ p[i].pk \in Nat
       /\ q[j] \in LockRow /\ Turn(q, j) \in 0..11 /\ q[j].pk \in Nat
       /\ q[k] \in LockRow /\ Turn(q, k) \in 0..11 /\ q[k].pk \in Nat
  BY <1>1, <1>4, TurnIs DEF LockRow
<1>11. p[i].table = q[j].table /\ p[i].pk = q[j].pk /\ Conflicts(p[i].mode, q[j].mode)
  BY <1>3 DEF Clash
<1>12. CASE Turn(p, i) <= Turn(q, j)
  BY <1>8, <1>9, <1>10, <1>11, <1>12 DEF Before, Precedes
<1>13. CASE Turn(p, i) > Turn(q, j)
  \* Only the turns of accounts differ from place to place.
  <2>1. p[i].table = "user"
    <3>1. p[i].table # "user" => ~IsAccount(p[i]) /\ ~IsAccount(q[j])
      BY <1>11 DEF IsAccount
    <3>2. p[i].table # "user" => Turn(p, i) = Turn(q, j)
      BY <1>1, <1>4, <1>11, <3>1, TurnIs
    <3> QED BY <1>10, <1>13, <3>2
  <2>2. CASE ~IsAccount(p[i])
    \* A reference to an account waits for a plain lock, behind which are documents.
    <3>1. Turn(p, i) = 9
      BY <1>1, <2>1, <2>2, TurnIs DEF Place
    <3>2. q[j].mode = "UPDATE"
      BY <1>11, <2>1, <2>2 DEF IsAccount, Conflicts
    <3>3. q[k].table = "document"
      BY <1>1, <1>2, <1>4, <1>11, <2>1, <3>2 DEF Orderly
    <3>4. Turn(q, k) = 10
      BY <3>3 DEF Turn, IsAccount, Place
    <3> QED BY <1>8, <3>1, <3>4 DEF Before
  <2>3. CASE IsAccount(p[i])
    \* A second account waits for a first one: the holder is not under the lock of
    \* the account table, so it asks for another row.
    <3>1. Turn(p, i) = 2 /\ Turn(q, j) = 1
      <4>1. Turn(p, i) \in {1, 2}
        BY <1>1, <2>3, TurnIs
      <4>2. Turn(q, j) \in {1, 2} \/ Turn(q, j) = 9
        BY <1>1, <1>4, <1>11, <2>1, TurnIs DEF Place
      <4>3. Turn(q, j) < Turn(p, i)
        BY <1>10, <1>13
      <4> QED BY <4>1, <4>2, <4>3
    <3>2. UnderAccountWide(p) /\ 1 \in 1..held[s]
      <4>1. UnderAccountWide(p) /\ i # 1
        BY <1>1, <1>2, <3>1 DEF Orderly
      <4> QED BY <1>1, <4>1 DEF i
    <3>3. ~UnderAccountWide(q)
      <4> SUFFICES ASSUME UnderAccountWide(q)
                   PROVE  FALSE
        OBVIOUS
      <4>1. 1 \in 1..held[t]
        BY <1>1, <1>3
      <4>2. p[1] \in Holds(s) /\ q[1] \in Holds(t)
        BY <1>5, <1>6, <3>2, <4>1
      <4>3. Clash(p[1], q[1])
        BY <3>2 DEF UnderAccountWide, Clash, Conflicts
      <4> QED BY <1>7, <4>2, <4>3
    <3>4. Turn(q, k) # 2
      BY <1>1, <1>2, <3>3 DEF Orderly
    <3>5. Turn(q, k) # 1
      <4>1. k # 1
        BY <1>1, <1>4
      <4>2. IsAccount(q[k]) => Turn(q, k) = 2
        BY <3>3, <4>1 DEF Turn
      <4> QED BY <1>1, <4>2, TurnIs
    <3>6. Turn(q, k) >= Turn(q, j)
      BY <1>9, <1>10 DEF Precedes
    <3> QED BY <1>8, <1>10, <3>1, <3>4, <3>5, <3>6 DEF Before
  <2> QED BY <2>2, <2>3
<1> QED BY <1>10, <1>12, <1>13

LEMMA LeastNumber ==
    ASSUME NEW T \in SUBSET Nat, T # {}
    PROVE  \E x \in T : \A y \in T : x <= y
<1>1. IsWellFoundedOn(OpToRel(<, Nat), Nat)
  BY NatLessThanWellFounded
<1>2. PICK x \in T : \A y \in T : ~ (<<y, x>> \in OpToRel(<, Nat))
  BY <1>1, WFMin
<1>3. \A y \in T : ~(y < x)
  BY <1>2 DEF OpToRel
<1> QED BY <1>3

\* No finite set of sessions each wait for one of them: in a smallest such set each
\* is waited for too, and the one whose turn is first by none.
LEMMA NoCircle ==
    ASSUME LockInv
    PROVE  NoCircularWait
<1> SUFFICES ASSUME NEW circle \in (SUBSET Sessions) \ {{}}
             PROVE  \E s \in circle : \A t \in circle : ~WaitsFor(s, t)
  BY DEF NoCircularWait
<1> SUFFICES ASSUME \A s \in circle : \E t \in circle : WaitsFor(s, t)
             PROVE  FALSE
  OBVIOUS
<1> DEFINE circles == {c \in SUBSET Sessions :
                          c # {} /\ \A s \in c : \E t \in c : WaitsFor(s, t)}
<1>1. PICK m \in circles : \A c \in circles : ~ (<<c, m>> \in StrictSubsetOrdering(Sessions))
  <2>1. IsWellFoundedOn(StrictSubsetOrdering(Sessions), FiniteSubsetsOf(Sessions))
    BY FS_StrictSubsetOrderingWellFounded
  <2>2. circles \subseteq FiniteSubsetsOf(Sessions)
    BY RowLocksAssumption, FS_Subset DEF FiniteSubsetsOf
  <2>3. circle \in circles
    <3>1. circle \in SUBSET Sessions /\ circle # {}
      OBVIOUS
    <3> QED BY <3>1
  <2> HIDE DEF circles
  <2>4. circles # {}
    BY <2>3
  <2> QED BY <2>1, <2>2, <2>4, WFMin
<1>2. ASSUME NEW s \in m
      PROVE  \E t \in m : WaitsFor(t, s)
  <2> SUFFICES ASSUME \A t \in m : ~WaitsFor(t, s)
               PROVE  FALSE
    OBVIOUS
  <2> DEFINE c == m \ {s}
  <2>1. PICK t \in m : WaitsFor(s, t)
    BY <1>1
  <2>2. t \in c
    BY <2>1 DEF WaitsFor
  <2>3. \A v \in c : \E w \in c : WaitsFor(v, w)
    BY <1>1
  <2>4. c \in circles
    BY <1>1, <2>2, <2>3
  <2>5. <<c, m>> \in StrictSubsetOrdering(Sessions)
    BY <1>1 DEF StrictSubsetOrdering
  <2> QED BY <1>1, <2>4, <2>5
<1>3. m \subseteq Sessions /\ m # {} /\ \A s \in m : Asks(s) # {}
  BY <1>1 DEF WaitsFor
<1> HIDE DEF circles
<1>4. \A s \in m : NextTurn(s) \in Nat /\ NextKey(s) \in Nat
  <2> SUFFICES ASSUME NEW s \in m
               PROVE  NextTurn(s) \in Nat /\ NextKey(s) \in Nat
    OBVIOUS
  <2>1. plan[s] \in LockPlan /\ held[s] + 1 \in 1..Len(plan[s])
    BY <1>3 DEF LockInv, LockPlan, Asks
  <2>2. /\ Turn(plan[s], held[s] + 1) \in 0..11
        /\ plan[s][held[s] + 1] \in LockRow
    BY <2>1, TurnIs
  <2> QED BY <2>2 DEF NextTurn, NextKey, LockRow
<1>5. \A s \in m : \E t \in m : Before(t, s)
  BY <1>2, <1>3, WaitingIsForward
<1>6. PICK first \in m : \A t \in m : NextTurn(first) <= NextTurn(t)
  <2> DEFINE turns == {NextTurn(s) : s \in m}
  <2>1. turns \in SUBSET Nat /\ turns # {}
    BY <1>3, <1>4
  <2>2. PICK x \in turns : \A y \in turns : x <= y
    BY <2>1, LeastNumber
  <2> QED BY <2>2
<1>7. PICK least \in m : /\ NextTurn(least) = NextTurn(first)
                         /\ \A t \in m : NextTurn(t) = NextTurn(first) => NextKey(least) <= NextKey(t)
  <2> DEFINE keys == {NextKey(s) : s \in {t \in m : NextTurn(t) = NextTurn(first)}}
  <2>1. keys \in SUBSET Nat /\ keys # {}
    BY <1>4
  <2>2. PICK x \in keys : \A y \in keys : x <= y
    BY <2>1, LeastNumber
  <2> QED BY <2>2
<1>8. PICK t \in m : Before(t, least)
  BY <1>5
<1> QED BY <1>4, <1>6, <1>7, <1>8 DEF Before

\* As long as no service runs that locks an account after a record or a document's
\* tags out of order, whatever mix of the others runs on whatever rows, no
\* sessions wait for each other in a circle.
THEOREM NobodyWaitsInACircle ==
    ASSUME Services \subseteq InTurn
    PROVE  LockSpec => []NoCircularWait
BY InitLockInv, NextLockInv, NoCircle, PTL DEF LockSpec
=============================================================================
