------------------------------ MODULE Tracking ------------------------------
(***************************************************************************)
(* Active document tracking (apps/tracking): the custody chain of each     *)
(* tracking record, its append-only timeline, and the status cached from   *)
(* both.  Every operation is one transaction that holds the actor's and    *)
(* the record's row locks (core/permissions.py, locked_mutation), so an    *)
(* operation is one action.                                                *)
(*                                                                         *)
(* Time is the length of a record's timeline: receivedAt is the position   *)
(* of the entry the receipt wrote, and "created_at >= received_at" compares *)
(* positions.  REMARK and ATTACHMENT entries, which the code always reads  *)
(* together, are the one event WORK.  All capabilities are granted.        *)
(***************************************************************************)
EXTENDS Integers, Sequences, FiniteSets

CONSTANTS
    Records, Offices, Users,
    NoOffice, NoUser,           \* the NULLs of the foreign keys
    OfficeOf,                   \* [Users -> Offices or NoOffice]
    RoleOf,                     \* [Users -> Roles]
    MaxBatch,                   \* bound: routings of one record
    MaxTimeline                 \* bound: timeline entries of one record

Roles == {"USER", "VIEWER", "ADMIN", "SYSTEM_ADMIN"}

ASSUME TrackingAssumption ==
    /\ NoOffice \notin Offices
    /\ NoUser \notin Users
    /\ OfficeOf \in [Users -> Offices \cup {NoOffice}]
    /\ RoleOf \in [Users -> Roles]
    /\ MaxBatch \in Nat
    /\ MaxTimeline \in Nat

VARIABLES
    record,         \* TrackingRecord rows
    steps,          \* RoutingStep rows of each record
    timeline,       \* RecordActivity rows of each record, oldest first
    lastNumber,     \* TrackingNumberSequence.last_number of each office
    filed           \* records whose repository Document was created

vars == <<record, steps, timeline, lastNumber, filed>>

CompletedStatuses == {"COMPLETED_PENDING_UPLOAD", "COMPLETED"}
ActiveStatuses    == {"PENDING_RECEIPT", "RECEIVED", "IN_PROCESS"}
Statuses          == {"ABSENT", "DRAFT"} \cup ActiveStatuses \cup CompletedStatuses

Row == [status: Statuses, origin: Offices \cup {NoOffice},
        creator: Users \cup {NoUser}, office: Offices \cup {NoOffice},
        holder: Users \cup {NoUser}, batch: Nat, number: Nat,
        completedBy: Users \cup {NoUser}, archived: BOOLEAN]

Step == [batch: Nat, from: Offices, to: Offices,
         receivedBy: Users \cup {NoUser}, receivedAt: Nat]

Events == {"CREATED", "ROUTED", "RECEIVED", "WORK", "COMPLETED", "ARCHIVED", "REOPENED"}

Activity == [event: Events, batch: Nat, actorOffice: Offices \cup {NoOffice},
             workOffice: Offices \cup {NoOffice}]

AbsentRow == [status |-> "ABSENT", origin |-> NoOffice, creator |-> NoUser,
              office |-> NoOffice, holder |-> NoUser, batch |-> 0, number |-> 0,
              completedBy |-> NoUser, archived |-> FALSE]

-----------------------------------------------------------------------------
(* Routing steps, custody and work *)

StepsOfBatch(rs, b) == {s \in rs : s.batch = b}

Received(rs) == {s \in rs : s.receivedAt # 0}

Outstanding(rs) == {s \in rs : s.receivedAt = 0}

CurrentSteps(r) == StepsOfBatch(steps[r], record[r].batch)

\* Fault: an addressee counts as a holder before it confirms.
HasCustodyWhenAddressed(r, o) == \E s \in CurrentSteps(r) : s.to = o

HasCustody(r, o) == \E s \in Received(CurrentSteps(r)) : s.to = o

\* Fault: ensure_received looks for a step instead of a receipt.
AnySent(r) == CurrentSteps(r) # {}

AnyReceived(r) == Received(CurrentSteps(r)) # {}

\* Work an office did on step s after it confirmed receipt.
WorkedOn(s, log) ==
    \E i \in 1..Len(log) :
        /\ i >= s.receivedAt
        /\ log[i].event = "WORK"
        /\ log[i].batch = s.batch
        /\ \/ log[i].workOffice = s.to
           \/ log[i].workOffice = NoOffice /\ log[i].actorOffice = s.to

\* Fault: the first receipt of the batch decides the custody.
EarliestReceipt(received) ==
    CHOOSE s \in received : \A t \in received : t.receivedAt >= s.receivedAt

LatestReceipt(received) ==
    CHOOSE s \in received : \A t \in received : t.receivedAt <= s.receivedAt

\* Fault: the destination is shown before anyone confirmed.
BatchDestination(current) == (CHOOSE s \in current : TRUE).to

\* The office a batch left from: the first step's, as all share it.
BatchSender(current) == (CHOOSE s \in current : TRUE).from

\* recalculate_status: the cached summary of an active record's current batch.
Recalculated(row, rs, log) ==
    LET current  == StepsOfBatch(rs, row.batch)
        received == Received(current)
        latest   == LatestReceipt(received)
    IN  CASE row.status \notin ActiveStatuses -> row
          [] row.status \in ActiveStatuses /\ current = {} ->
                [row EXCEPT !.status = "DRAFT"]
          [] row.status \in ActiveStatuses /\ current # {} /\ received = {} ->
                [row EXCEPT !.status = "PENDING_RECEIPT",
                            !.office = BatchSender(current), !.holder = NoUser]
          [] row.status \in ActiveStatuses /\ received # {} ->
                [row EXCEPT !.status = IF received # current THEN "PENDING_RECEIPT"
                                       ELSE IF \E s \in received : WorkedOn(s, log)
                                       THEN "IN_PROCESS" ELSE "RECEIVED",
                            !.office = latest.to, !.holder = latest.receivedBy]

-----------------------------------------------------------------------------
(* Who may do what *)

SystemAdmin(u) == RoleOf[u] = "SYSTEM_ADMIN"
OfficeAdmin(u) == RoleOf[u] = "ADMIN" \/ SystemAdmin(u)

CanStartWork(u) ==
    /\ RoleOf[u] # "VIEWER"
    /\ OfficeOf[u] # NoOffice \/ SystemAdmin(u)

\* Fault: a recipient must confirm before the record shows.
CanViewCustodian(u, r) ==
    \/ SystemAdmin(u)
    \/ /\ OfficeOf[u] # NoOffice
       /\ OfficeOf[u] \in {record[r].origin, record[r].office}
       /\ record[r].status = "DRAFT" => record[r].creator = u

\* visible_to without access grants, which give nobody custody or a draft.
CanView(u, r) ==
    \/ SystemAdmin(u)
    \/ /\ OfficeOf[u] # NoOffice
       /\ \/ record[r].origin = OfficeOf[u]
          \/ OfficeAdmin(u) /\ record[r].office = OfficeOf[u]
          \/ ~OfficeAdmin(u) /\ record[r].creator = u
          \/ \E s \in steps[r] : OfficeOf[u] \in {s.from, s.to}
       /\ record[r].status = "DRAFT" => record[r].creator = u

\* Any holder of a received step acts; a draft is its creator's.
CanAct(u, r) ==
    /\ CanStartWork(u)
    /\ record[r].status \notin CompletedStatuses
    /\ \/ SystemAdmin(u)
       \/ /\ CanView(u, r)
          /\ IF record[r].status = "DRAFT"
             THEN record[r].creator = u \/ OfficeOf[u] = record[r].origin
             ELSE HasCustody(r, OfficeOf[u])

\* Fault: a step that already has its receipt is offered again.
AddressedSteps(u, r) == {s \in CurrentSteps(r) : s.to = OfficeOf[u]}

PendingSteps(u, r) == {s \in Outstanding(CurrentSteps(r)) : s.to = OfficeOf[u]}

CanConfirm(u, r) ==
    /\ CanStartWork(u)
    /\ OfficeOf[u] # NoOffice
    /\ record[r].status \notin CompletedStatuses \cup {"DRAFT"}
    /\ PendingSteps(u, r) # {}

CanApprove(u, r) ==
    /\ CanStartWork(u)
    /\ record[r].status = "COMPLETED_PENDING_UPLOAD"
    /\ \/ SystemAdmin(u)
       \/ OfficeAdmin(u) /\ OfficeOf[u] \in {record[r].origin, record[r].office}

CanReopen(u, r) ==
    /\ CanStartWork(u)
    /\ record[r].status = "COMPLETED_PENDING_UPLOAD" /\ ~record[r].archived
    /\ \/ SystemAdmin(u)
       \/ OfficeAdmin(u) /\ OfficeOf[u] \in {record[r].origin, record[r].office}
       \/ ~OfficeAdmin(u) /\ (record[r].completedBy = u \/ OfficeOf[u] = record[r].office)

\* The office a forward or a return leaves from.
SendingOffice(u, r) ==
    IF OfficeOf[u] # NoOffice /\ HasCustody(r, OfficeOf[u]) THEN OfficeOf[u]
    ELSE IF record[r].office # NoOffice THEN record[r].office
    ELSE OfficeOf[u]

\* Fault: an administrator's work counts for an office without custody.
WorkOfficeUnchecked(u, r) ==
    IF HasCustody(r, OfficeOf[u]) THEN OfficeOf[u]
    ELSE IF SystemAdmin(u) THEN record[r].office
    ELSE NoOffice

\* The office whose custody a remark or an attachment advances.
WorkOffice(u, r) ==
    IF HasCustody(r, OfficeOf[u]) THEN OfficeOf[u]
    ELSE IF SystemAdmin(u) /\ HasCustody(r, record[r].office) THEN record[r].office
    ELSE NoOffice

-----------------------------------------------------------------------------
(* The services *)

Entry(event, b, u, work) ==
    [event |-> event, batch |-> b, actorOffice |-> OfficeOf[u], workOffice |-> work]

Logged(r, entry) == Append(timeline[r], entry)

\* One transaction on one record: its row, its steps and one timeline entry.
Commit(r, row, rs, log) ==
    /\ record' = [record EXCEPT ![r] = row]
    /\ steps' = [steps EXCEPT ![r] = rs]
    /\ timeline' = [timeline EXCEPT ![r] = log]

CreateDraft(u, r, o) ==
    /\ record[r].status = "ABSENT"
    /\ CanStartWork(u)
    /\ SystemAdmin(u) \/ o = OfficeOf[u]
    /\ Commit(r,
              [AbsentRow EXCEPT !.status = "DRAFT", !.origin = o, !.creator = u,
                                !.office = o, !.holder = u],
              {}, Logged(r, Entry("CREATED", 0, u, NoOffice)))
    /\ UNCHANGED <<lastNumber, filed>>

LastBatch(rs) ==
    IF rs = {} THEN 0
    ELSE (CHOOSE s \in rs : \A t \in rs : t.batch <= s.batch).batch

\* Fault: a step is created with its receipt time.
NewStepsStamped(b, from, dest) ==
    [batch: {b}, from: {from}, to: dest, receivedBy: {NoUser}, receivedAt: {1}]

NewSteps(b, from, dest) ==
    [batch: {b}, from: {from}, to: dest, receivedBy: {NoUser}, receivedAt: {0}]

\* Fault: the guard fires only for the sole recipient.
MayReceiveUnlessAlone(from, dest) == dest # {from}

\* The guard against a step addressed to the office it leaves from.
MayReceive(from, dest) == from \notin dest

\* Fault: the number counts the rows of the office, drafts included.
RowsOf(o) == Cardinality({r \in Records : record[r].origin = o})

\* TrackingNumberSequence.last_number after a number is issued.
Issued(o) == lastNumber[o] + 1

\* The row with its new batch; a draft is sent and numbered.
RoutedRow(row, b, number) ==
    IF row.status = "DRAFT"
    THEN [row EXCEPT !.batch = b, !.status = "PENDING_RECEIPT", !.number = number]
    ELSE [row EXCEPT !.batch = b]

\* RETURN takes the branch of FORWARD.
Route(u, r, action, dest) ==
    LET draft == record[r].status = "DRAFT"
        from  == IF action = "SEND" THEN record[r].origin ELSE SendingOffice(u, r)
        b     == LastBatch(steps[r]) + 1
        rs    == steps[r] \cup NewSteps(b, from, dest)
        log   == Logged(r, Entry("ROUTED", b, u, NoOffice))
        row   == RoutedRow(record[r], b, Issued(record[r].origin))
    IN  /\ record[r].status # "ABSENT"
        /\ CanAct(u, r)
        /\ dest # {}
        /\ action = "SEND" => draft
        /\ from # NoOffice
        /\ MayReceive(from, dest)
        /\ b <= MaxBatch
        /\ Commit(r, Recalculated(row, rs, log), rs, log)
        /\ lastNumber' = IF draft THEN [lastNumber EXCEPT ![record[r].origin] =
                                            Issued(record[r].origin)]
                         ELSE lastNumber
        /\ UNCHANGED filed

WithReceipt(s, u, at) == [s EXCEPT !.receivedBy = u, !.receivedAt = at]

\* confirm_receipt: what it leaves in the steps, the timeline and the row.
ReceiptSteps(u, r) ==
    LET s == CHOOSE p \in PendingSteps(u, r) : TRUE
    IN  (steps[r] \ {s}) \cup {WithReceipt(s, u, Len(timeline[r]) + 1)}

ReceiptLog(u, r) == Logged(r, Entry("RECEIVED", record[r].batch, u, NoOffice))

ReceiptRow(u, r) == Recalculated(record[r], ReceiptSteps(u, r), ReceiptLog(u, r))

ConfirmReceipt(u, r) ==
    /\ CanConfirm(u, r)
    /\ Commit(r, ReceiptRow(u, r), ReceiptSteps(u, r), ReceiptLog(u, r))
    /\ UNCHANGED <<lastNumber, filed>>

\* All of the selection or, when one record refuses, none of it.
BulkConfirmReceipts(u, rr) ==
    /\ rr # {}
    /\ \A r \in rr : CanConfirm(u, r)
    /\ record' = [r \in Records |-> IF r \in rr THEN ReceiptRow(u, r) ELSE record[r]]
    /\ steps' = [r \in Records |-> IF r \in rr THEN ReceiptSteps(u, r) ELSE steps[r]]
    /\ timeline' = [r \in Records |-> IF r \in rr THEN ReceiptLog(u, r) ELSE timeline[r]]
    /\ UNCHANGED <<lastNumber, filed>>

\* A REMARK or ATTACHMENT entry and the status recomputed from it.
LogWork(u, r) ==
    LET log == Logged(r, Entry("WORK", record[r].batch, u, WorkOffice(u, r)))
    IN  /\ Commit(r, Recalculated(record[r], steps[r], log), steps[r], log)
        /\ UNCHANGED <<lastNumber, filed>>

\* No status check beyond can_user_act: a draft takes remarks and files.
AddRemark(u, r) ==
    /\ record[r].status # "ABSENT"
    /\ CanAct(u, r)
    /\ LogWork(u, r)

AttachFiles(u, r) ==
    /\ record[r].status # "ABSENT"
    /\ CanAct(u, r)
    /\ LogWork(u, r)

UploadVersion(u, r) ==
    /\ record[r].status \notin CompletedStatuses \cup {"ABSENT"}
    /\ record[r].status # "DRAFT" => AnyReceived(r)
    /\ CanAct(u, r)
    /\ LogWork(u, r)

\* Does nothing when the office has already worked on the document.
MarkInProcess(u, r) ==
    LET office == IF HasCustody(r, OfficeOf[u]) THEN OfficeOf[u] ELSE record[r].office
    IN  /\ record[r].status \in ActiveStatuses
        /\ AnyReceived(r)
        /\ CanAct(u, r)
        /\ \A s \in Received(CurrentSteps(r)) :
               s.to = office => ~WorkedOn(s, timeline[r])
        /\ LogWork(u, r)

CanComplete(u, r) ==
    /\ record[r].status \in ActiveStatuses
    /\ CanAct(u, r)
    /\ AnyReceived(r)

Complete(u, r) ==
    /\ CanComplete(u, r)
    /\ Commit(r,
              [record[r] EXCEPT !.status = "COMPLETED_PENDING_UPLOAD", !.completedBy = u],
              steps[r], Logged(r, Entry("COMPLETED", record[r].batch, u, NoOffice)))
    /\ UNCHANGED <<lastNumber, filed>>

\* approve_upload: the Document and the record's last status in one transaction.
Approve(u, r) ==
    /\ CanApprove(u, r)
    /\ r \notin filed
    /\ filed' = filed \cup {r}
    /\ Commit(r, [record[r] EXCEPT !.status = "COMPLETED", !.archived = TRUE],
              steps[r], Logged(r, Entry("ARCHIVED", record[r].batch, u, NoOffice)))
    /\ UNCHANGED lastNumber

\* Fault: a reopened record is assumed to be in hand.
ReopenedAsReceived(r) ==
    [record[r] EXCEPT !.status = "RECEIVED", !.completedBy = NoUser, !.archived = FALSE]

\* The status a reopened record takes from its routing steps.
ReopenedRow(r) ==
    Recalculated([record[r] EXCEPT !.status = "RECEIVED", !.completedBy = NoUser,
                                   !.archived = FALSE],
                 steps[r], timeline[r])

Reopen(u, r) ==
    /\ record[r].status # "COMPLETED" /\ ~record[r].archived /\ r \notin filed
    /\ CanReopen(u, r)
    /\ Commit(r, ReopenedRow(r), steps[r],
              Logged(r, Entry("REOPENED", record[r].batch, u, NoOffice)))
    /\ UNCHANGED <<lastNumber, filed>>

-----------------------------------------------------------------------------
Init ==
    /\ record = [r \in Records |-> AbsentRow]
    /\ steps = [r \in Records |-> {}]
    /\ timeline = [r \in Records |-> <<>>]
    /\ lastNumber = [o \in Offices |-> 0]
    /\ filed = {}

\* The bound on a record's history.
Room(r) == Len(timeline[r]) < MaxTimeline

RoutingActions == {"SEND", "FORWARD", "RETURN"}

Next ==
    \/ \E r \in {q \in Records : Room(q)}, u \in Users :
        \/ \E o \in Offices : CreateDraft(u, r, o)
        \/ \E action \in RoutingActions, dest \in SUBSET Offices : Route(u, r, action, dest)
        \/ ConfirmReceipt(u, r)
        \/ AddRemark(u, r)
        \/ AttachFiles(u, r)
        \/ UploadVersion(u, r)
        \/ MarkInProcess(u, r)
        \/ Complete(u, r)
        \/ Approve(u, r)
        \/ Reopen(u, r)
    \/ \E rr \in SUBSET {q \in Records : Room(q)}, u \in Users : BulkConfirmReceipts(u, rr)

Spec == Init /\ [][Next]_vars

-----------------------------------------------------------------------------
(* Properties *)

\* The rows have the shape of the schema; a record that was never sent has no
\* batch and no number, and the two receipt fields are written together.
TypeOK ==
    /\ record \in [Records -> Row]
    /\ steps \in [Records -> SUBSET Step]
    /\ timeline \in [Records -> Seq(Activity)]
    /\ lastNumber \in [Offices -> Nat]
    /\ filed \in SUBSET Records
    /\ \A r \in Records :
        /\ record[r].status \in {"ABSENT", "DRAFT"} <=> record[r].batch = 0
        /\ record[r].batch = 0 <=> record[r].number = 0
        /\ record[r].status # "ABSENT" => {record[r].origin, record[r].office} \subseteq Offices
        /\ \A s \in steps[r] : s.receivedAt = 0 <=> s.receivedBy = NoUser

\* with_stage_for: the stage the list pages compute in SQL for every record.
StageOf(status, current, log) ==
    IF status \notin ActiveStatuses THEN status
    ELSE IF Outstanding(current) # {} THEN "PENDING_RECEIPT"
    ELSE IF \E s \in Received(current) : WorkedOn(s, log) THEN "IN_PROCESS"
    ELSE IF Received(current) # {} THEN "RECEIVED"
    ELSE status

\* The cached status of a record is the stage its routing steps and timeline
\* give it, whatever sequence of services ran: no handler leaves it stale, the
\* list pages agree with the permissions, and an active record has been sent.
StatusIsStage ==
    \A r \in Records :
        /\ record[r].status = StageOf(record[r].status, CurrentSteps(r), timeline[r])
        /\ record[r].status \in ActiveStatuses => CurrentSteps(r) # {}

\* The cached current office and holder are those of the latest receipt of the
\* current batch and, until there is one, the sender's and nobody's.  Completed
\* and filed records keep the custody they were finished in.
CustodyIsCached ==
    \A r \in Records :
        LET received == Received(CurrentSteps(r))
        IN  record[r].batch # 0 =>
            IF received = {}
            THEN record[r].holder = NoUser
                 /\ \A s \in CurrentSteps(r) : record[r].office = s.from
            ELSE \E s \in received :
                    /\ \A t \in received : t.receivedAt <= s.receivedAt
                    /\ record[r].office = s.to
                    /\ record[r].holder = s.receivedBy

\* The routing history is a chain: the first batch leaves the originating
\* office, and every later one an office that had confirmed receipt of the
\* batch before, or its sender when nobody had.
CustodyChain ==
    \A r \in Records : \A s \in steps[r] :
        LET before == StepsOfBatch(steps[r], s.batch - 1)
        IN  IF s.batch = 1 THEN s.from = record[r].origin
            ELSE IF Received(before) = {} THEN \E t \in before : t.from = s.from
            ELSE \E t \in Received(before) : t.to = s.from

\* Every step of a batch shares one sender, and the sender is not a recipient:
\* a document is never incoming and outgoing for the same office at once.
BatchHasOneSender ==
    \A r \in Records : \A s, t \in steps[r] :
        s.batch = t.batch => s.from = t.from /\ s.to # t.from

\* Completed work was in somebody's hands, and a record is COMPLETED, archived
\* and backed by a repository Document all at once or not at all.
FiledWhenCompleted ==
    \A r \in Records :
        /\ record[r].status \in CompletedStatuses => Received(CurrentSteps(r)) # {}
        /\ (r \in filed) <=> record[r].status = "COMPLETED"
        /\ (r \in filed) <=> record[r].archived

\* Work is attributed to an office only after that office confirmed receipt of
\* the batch the work was done in.
WorkFollowsReceipt ==
    \A r \in Records : \A i \in 1..Len(timeline[r]) :
        LET e == timeline[r][i]
        IN  e.workOffice # NoOffice =>
            \E s \in StepsOfBatch(steps[r], e.batch) :
                s.to = e.workOffice /\ s.receivedAt \in 1..(i - 1)

\* Tracking numbers of an office: no two records share one, none is skipped,
\* and a draft holds none.
NumbersHaveNoGaps ==
    \A o \in Offices :
        LET sent == {r \in Records : record[r].origin = o /\ record[r].number # 0}
        IN  /\ {record[r].number : r \in sent} = 1..lastNumber[o]
            /\ \A r, q \in sent : record[r].number = record[q].number => r = q
            /\ \A r \in sent : record[r].status # "DRAFT"

\* Nothing in the history is overwritten: entries and steps are never lost or
\* changed, except that an outstanding step of the current batch takes its
\* receipt, once.
HistoryIsAppendOnly ==
    [][\A r \in Records :
        /\ Len(timeline'[r]) >= Len(timeline[r])
        /\ \A i \in 1..Len(timeline[r]) : timeline'[r][i] = timeline[r][i]
        /\ \A s \in steps[r] :
            \/ s \in steps'[r]
            \/ /\ s \in Outstanding(CurrentSteps(r))
               /\ \E t \in Received(steps'[r]) :
                    t.batch = s.batch /\ t.from = s.from /\ t.to = s.to]_vars

\* What is cached on a record says what its steps and timeline say.
CachesAgree == StatusIsStage /\ CustodyIsCached

\* From the first dispatch to the last entry, every hand the paper passed and
\* every office that worked on it is accounted for.
ChainOfCustody == CustodyChain /\ BatchHasOneSender /\ WorkFollowsReceipt

\* The register of an office: its numbers, and what was filed under them.
RegisterHolds == NumbersHaveNoGaps /\ FiledWhenCompleted
=============================================================================
