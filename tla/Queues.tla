------------------------------- MODULE Queues -------------------------------
(***************************************************************************)
(* What the pages say about the records of Tracking: the work queues of an *)
(* office, the direction tag and the Confirm button of a row, the chase    *)
(* list of overdue work, the report's splits and the dashboard's ring.     *)
(* None of them changes state.  Each is its own query in the code, and     *)
(* they must agree with one another and with the permissions.              *)
(*                                                                         *)
(* A page answers for a set of offices: all of them, one, or none when the *)
(* viewer has no office.  "late" is the set of records past a deadline:    *)
(* any set, as a deadline may be any time or none.                         *)
(***************************************************************************)
EXTENDS TrackingCustody, FiniteSets

\* A page counts offices and records: both are the rows of a table.
ASSUME QueuesAssumption == IsFiniteSet(Offices) /\ IsFiniteSet(Records)

Rows == {r \in Records : record[r].status # "ABSENT"}

VisibleTo(u) == {r \in Rows : CanView(u, r)}

Finished(r) == record[r].status \in CompletedStatuses

Addressed(r, oo) == {s \in CurrentSteps(r) : s.to \in oo}

SentFrom(r, oo) == {s \in CurrentSteps(r) : s.from \in oo}

-----------------------------------------------------------------------------
(* Stages and queues *)

\* Fault: one stage for everybody, whichever office asks.
StageForAll(r, oo) == StageOf(record[r].status, CurrentSteps(r), timeline[r])

\* with_stage_for: a recipient follows its own receipt, anybody else the batch.
StageFor(r, oo) ==
    LET mine == IF Cardinality(oo) = 1 THEN Addressed(r, oo) ELSE {}
    IN  StageOf(record[r].status, IF mine = {} THEN CurrentSteps(r) ELSE mine, timeline[r])

\* apply_scope, one operator for each queue.
Incoming(rows, oo) == {r \in rows : Addressed(r, oo) # {} /\ ~Finished(r)}

\* Fault: what left an office leaves its list once somebody confirms it.
OutgoingUnconfirmed(rows, oo) ==
    {r \in rows : Outstanding(SentFrom(r, oo)) # {} /\ ~Finished(r)}

Outgoing(rows, oo) == {r \in rows : SentFrom(r, oo) # {} /\ ~Finished(r)}

Inbox(rows, oo) == {r \in rows : Outstanding(Addressed(r, oo)) # {} /\ ~Finished(r)}

Sent(rows, oo) == {r \in rows : Outstanding(SentFrom(r, oo)) # {} /\ ~Finished(r)}

PendingReceipt(rows, oo) ==
    {r \in rows : Outstanding(Addressed(r, oo) \cup SentFrom(r, oo)) # {} /\ ~Finished(r)}

SignedFor(rows, oo, stage) ==
    {r \in rows : Received(Addressed(r, oo)) # {} /\ StageFor(r, oo) = stage}

PendingUpload(rows) ==
    {r \in rows : record[r].status = "COMPLETED_PENDING_UPLOAD" /\ r \notin filed}

Mine(rows, u) == {r \in rows : record[r].creator = u}

\* overdue_q
Overdue(late) == {r \in late : ~Finished(r)}

\* Every way an office is involved in a record, past hops included.
Touches(o, r) ==
    o \in {record[r].origin, record[r].office} \/ \E s \in steps[r] : o \in {s.from, s.to}

\* office_queue on a queue that answers for no office: a named one narrows it.
OfficeQueue(queue, oo) ==
    IF Cardinality(oo) = 1 THEN {r \in queue : \E o \in oo : Touches(o, r)} ELSE queue

-----------------------------------------------------------------------------
(* A row of a page: its direction and its Confirm button *)

\* scope_office: only a system administrator picks whose queue a page shows.
ScopeOffice(u, pick) == IF SystemAdmin(u) THEN pick ELSE {}

OfficesOf(u) == {OfficeOf[u]} \ {NoOffice}

\* The offices a page of u answers for.
PageOffices(u, pick) ==
    IF ScopeOffice(u, pick) # {} THEN ScopeOffice(u, pick) ELSE OfficesOf(u)

\* direction_annotation: which way the current batch moves for one office.
Direction(r, oo) ==
    IF Addressed(r, oo) # {} THEN "incoming"
    ELSE IF SentFrom(r, oo) # {} THEN "outgoing" ELSE ""

\* Fault: the row is described from the viewer's office, not the page's.
RowTagOfViewer(u, pick, r) == Direction(r, OfficesOf(u))

\* annotate_direction: blank on a page that answers for every office.
RowTag(u, pick, r) ==
    IF Cardinality(PageOffices(u, pick)) # 1 THEN "" ELSE Direction(r, PageOffices(u, pick))

\* inbox_for: what bulk receipt selects from.
InboxFor(u) == Inbox(VisibleTo(u), OfficesOf(u))

\* Fault: the button is offered on any unconfirmed step of the batch.
ConfirmAnyStep(u, r) == CanStartWork(u) /\ ~Finished(r) /\ Outstanding(CurrentSteps(r)) # {}

\* annotate_can_confirm: the Confirm button of a row.
CanConfirmNow(u, r) ==
    /\ CanStartWork(u)
    /\ record[r].status \notin CompletedStatuses \cup {"DRAFT"}
    /\ Outstanding(Addressed(r, OfficesOf(u))) # {}

\* annotate_receiving_offices: the offices a receipt cell shows as awaited.
AwaitedBadges(r) ==
    IF record[r].status \in CompletedStatuses \cup {"DRAFT"} THEN {}
    ELSE {s.to : s \in Outstanding(CurrentSteps(r))}

-----------------------------------------------------------------------------
(* Reports and the dashboard *)

\* Fault: an unreceived batch is charged to the office that has custody.
AwaitingCustodian(r) ==
    IF Outstanding(CurrentSteps(r)) = {} THEN {} ELSE {record[r].office}

\* overdue_accountability: the offices that owe record r a receipt, and those
\* that confirmed one and owe it the work.
Awaiting(r) == {s.to : s \in Outstanding(CurrentSteps(r))}

Holding(r) == {s.to : s \in Received(CurrentSteps(r))}

Unattributed(late) == {r \in Overdue(late) : Awaiting(r) \cup Holding(r) = {}}

\* The overdue work office o can clear, and what it waits on others to sign for.
OverdueOurs(late, o) == {r \in Overdue(late) : Addressed(r, {o}) # {}}

OverdueElsewhere(late, o) ==
    {r \in Overdue(late) : /\ Outstanding(SentFrom(r, {o})) # {}
                           /\ Outstanding(Addressed(r, {o})) = {}}

WorkStages == {"PENDING_RECEIPT", "RECEIVED", "IN_PROCESS"}

\* by_status_direction: a live stage of the report, split by direction.
StageCell(rows, oo, stage, way) ==
    Cardinality({r \in rows : /\ record[r].status \in ActiveStatuses
                              /\ StageFor(r, oo) = stage
                              /\ Direction(r, oo) = way})

\* Fault: a row per record instead of a group, and the last one kept.
StageTotalUngrouped(rows, oo, stage) ==
    IF \E r \in rows : StageFor(r, oo) = stage /\ record[r].status \in ActiveStatuses
    THEN 1 ELSE 0

StageTotal(rows, oo, stage) ==
    Cardinality({r \in rows : StageFor(r, oo) = stage /\ record[r].status \in ActiveStatuses})

\* all_office_stages: drafts are what the three stages leave of the total.
DraftsByDifference(rows) ==
    Cardinality({r \in rows : ~Finished(r)})
        - (StageTotal(rows, {}, "PENDING_RECEIPT") + StageTotal(rows, {}, "RECEIVED")
             + StageTotal(rows, {}, "IN_PROCESS"))

\* combined_totals: the tracking slices of the ring.
RingSlice(rows, oo, stage) == Cardinality({r \in rows : StageFor(r, oo) = stage})

TrackingSlices(rows, oo) ==
    RingSlice(rows, oo, "PENDING_RECEIPT") + RingSlice(rows, oo, "RECEIVED")
        + RingSlice(rows, oo, "IN_PROCESS") + RingSlice(rows, oo, "COMPLETED_PENDING_UPLOAD")

-----------------------------------------------------------------------------
(* Properties *)

IsPartition(parts, whole) ==
    /\ UNION {parts[i] : i \in DOMAIN parts} = whole
    /\ \A i, j \in DOMAIN parts : i # j => parts[i] \cap parts[j] = {}

\* The receipt an office owes, what it signed for and what it works on are
\* disjoint and together all its incoming; likewise for what it sent, whose
\* stage is that of the batch.  Another recipient moves neither pile.
OfficeQueuesPartition ==
    \A o \in Offices :
        /\ IsPartition(<<Inbox(Rows, {o}), SignedFor(Rows, {o}, "RECEIVED"),
                         SignedFor(Rows, {o}, "IN_PROCESS")>>,
                       Incoming(Rows, {o}))
        /\ Inbox(Rows, {o}) = {r \in Incoming(Rows, {o}) : StageFor(r, {o}) = "PENDING_RECEIPT"}
        /\ Sent(Rows, {o}) = {r \in Outgoing(Rows, {o}) : StageFor(r, {o}) = "PENDING_RECEIPT"}

\* The direction printed on a row is that of the queue it is listed in, whoever
\* looks and whichever office the page answers for; no row is in both queues.
TagMatchesQueue ==
    \A u \in Users : \A pick \in {{}, Offices} \cup {{o} : o \in Offices} :
        LET page == PageOffices(u, pick)
            rows == {r \in VisibleTo(u) : ~Finished(r)}
        IN  Cardinality(page) = 1 =>
            /\ Incoming(rows, page) = {r \in rows : RowTag(u, pick, r) = "incoming"}
            /\ Outgoing(rows, page) = {r \in rows : RowTag(u, pick, r) = "outgoing"}

\* The answers to "may I confirm this?" are one: the bulk-receipt list, the
\* button of a row, the office badge of its receipt cell and the permission the
\* service checks, for every account that can work.
ConfirmQueueIsHonest ==
    \A u \in {v \in Users : CanStartWork(v)} :
        /\ InboxFor(u) = {r \in Rows : CanConfirm(u, r)}
        /\ InboxFor(u) = {r \in Rows : CanConfirmNow(u, r)}
        /\ InboxFor(u) = {r \in Rows : OfficeOf[u] \in AwaitedBadges(r)}

\* A sent record is outgoing for exactly one office and incoming for another
\* until its work is completed, and then waits for filing; a draft is in its
\* creator's list alone.  No record drops out of every queue.
NothingFallsBetweenQueues ==
    \A r \in Rows :
        /\ record[r].status \in ActiveStatuses =>
            /\ Cardinality({o \in Offices : r \in Outgoing(Rows, {o})}) = 1
            /\ \E o \in Offices : r \in Incoming(Rows, {o})
        /\ record[r].status \in CompletedStatuses => (r \in PendingUpload(Rows) <=> r \notin filed)
        /\ record[r].status = "DRAFT" =>
            \A u \in Users : r \in VisibleTo(u) => r \in Mine(VisibleTo(u), u) \/ SystemAdmin(u)

\* Whoever a service would let act on a record can open the page it acts from.
NobodyActsUnseen ==
    \A u \in Users : \A r \in Rows :
        CanAct(u, r) \/ CanConfirm(u, r) \/ CanApprove(u, r) \/ CanReopen(u, r)
            => r \in VisibleTo(u)

\* The chase list names, for every sent record past its deadline, an office
\* whose accounts can make the next move and find the record in their overdue
\* queue; and no office is told a record is both its own and another's to clear.
OverdueIsCharged ==
    \A late \in SUBSET Rows :
        /\ \A r \in Unattributed(late) : record[r].status = "DRAFT"
        /\ \A r \in Overdue(late) : \A u \in {v \in Users : CanStartWork(v)} :
            /\ OfficeOf[u] \in Awaiting(r) => CanConfirm(u, r)
            /\ OfficeOf[u] \in Holding(r) => CanAct(u, r)
            /\ OfficeOf[u] \in Awaiting(r) \cup Holding(r) =>
                r \in OfficeQueue(Overdue(late) \cap VisibleTo(u), OfficesOf(u))
        /\ \A o \in Offices : OverdueOurs(late, o) \cap OverdueElsewhere(late, o) = {}

\* The dashboard counts each document once: a live record in one slice of the
\* ring, a filed one among the repository's documents, drafts nowhere; and for
\* one office, each record that office touched.  The report's stages add up over
\* the directions and leave exactly the drafts.
EveryRecordCountedOnce ==
    LET drafts == {r \in Rows : record[r].status = "DRAFT"}
    IN  /\ DraftsByDifference(Rows) = Cardinality(drafts)
        /\ TrackingSlices(Rows, {}) + Cardinality(filed) = Cardinality(Rows \ drafts)
        /\ \A o \in Offices :
            LET touched == OfficeQueue(Rows, {o})
            IN  /\ TrackingSlices(touched, {o}) = Cardinality(touched \ (drafts \cup filed))
                /\ \A stage \in WorkStages :
                    StageCell(touched, {o}, stage, "incoming")
                        + StageCell(touched, {o}, stage, "outgoing")
                        + StageCell(touched, {o}, stage, "") = StageTotal(touched, {o}, stage)

\* Queues, row tags, buttons, badges and the chase list are computed by different
\* queries and say one thing about every record.
QueuesAgree ==
    /\ OfficeQueuesPartition /\ TagMatchesQueue /\ ConfirmQueueIsHonest
    /\ NothingFallsBetweenQueues /\ OverdueIsCharged

\* So do the pages that open, list and count the records.
PagesAgree == NobodyActsUnseen /\ EveryRecordCountedOnce
=============================================================================
