-------------------------- MODULE TrackingNotices --------------------------
(***************************************************************************)
(* The office notices of document tracking: what the services write beside *)
(* a record (apps/core/notifications.py) and the daily chase job that runs *)
(* beside the services (apps/core/tasks.py).  The job reads its candidates *)
(* without a lock and handles each of them later in a transaction of its   *)
(* own; the task queue may run it on several workers and kill it halfway.  *)
(*                                                                         *)
(* An open notice is the set of offices it says still owe a receipt.  The  *)
(* informational kinds (RECEIVED, COMPLETED, SHARED) are left out.         *)
(***************************************************************************)
EXTENDS Tracking

CONSTANT Workers            \* task workers that may run the chase

VARIABLES
    deadline,   \* due_at of each record: none, ahead or passed
    aged,       \* records whose current batch is older than the nudge delay
    notices,    \* unresolved notices of each record, by kind and office
    chase       \* each worker's run of the job and its remaining candidates

noticeVars == <<deadline, aged, notices, chase>>

Kinds == {"ROUTED", "UNRECEIVED", "OVERDUE"}
Owing(current) == {s.to : s \in Outstanding(current)}
Senders(current) == {s.from : s \in current}
Recipients(current) == {s.to : s \in current}

Completed(r) == record[r].status \in CompletedStatuses

IsOverdue(r) == deadline[r] = "passed" /\ ~Completed(r)

-----------------------------------------------------------------------------
(* notifications.py: the open notices n of one record *)

Resolve(n, kinds, offices) ==
    [k \in Kinds |-> [o \in Offices |->
        IF k \in kinds /\ o \in offices THEN <<>> ELSE n[k][o]]]

Raise(n, kind, o, owing) == [n EXCEPT ![kind][o] = Append(@, owing)]

Reword(n, kind, o, owing) ==
    [n EXCEPT ![kind][o] = [i \in DOMAIN @ |-> owing]]

\* A notice that is already open is reworded, not raised again.
Tell(n, kind, o, owing) ==
    IF n[kind][o] # <<>> THEN Reword(n, kind, o, owing) ELSE Raise(n, kind, o, owing)

-----------------------------------------------------------------------------
(* What the services do to the notices of the record they commit *)

SetNotices(r, n) == notices' = [notices EXCEPT ![r] = n]

\* A new batch answers what was open and tells each recipient.
RoutedNotices(n, dest) ==
    LET answered == Resolve(n, Kinds, Offices)
    IN  [answered EXCEPT !["ROUTED"] =
            [o \in Offices |-> IF o \in dest THEN Append(@[o], {o}) ELSE @[o]]]

\* Fault: the receipt answers the notices of every recipient.
ReceiptNoticesOfAll(u, r) == Resolve(notices[r], Kinds, Offices)

\* confirm_receipt: the office's own notice is answered, the sender's reminder
\* names who is left, and a deadline notice no longer asks for the receipt.
ReceiptNotices(u, r) ==
    LET o        == OfficeOf[u]
        current  == StepsOfBatch(ReceiptSteps(u, r), record[r].batch)
        sender   == BatchSender(current)
        answered == Resolve(notices[r], {"ROUTED"}, {o})
        reminded == IF Owing(current) = {} THEN Resolve(answered, {"UNRECEIVED"}, {sender})
                    ELSE Reword(answered, "UNRECEIVED", sender, Owing(current))
    IN  IF deadline[r] = "passed" THEN Reword(reminded, "OVERDUE", o, {})
        ELSE Resolve(reminded, {"OVERDUE"}, Offices)

CompletionNotices(n) == Resolve(n, Kinds, Offices)

\* The services, each with its notices.  A deadline is never set in the past.
RouteAndNotify(u, r, action, dest, due) ==
    /\ Route(u, r, action, dest)
    /\ deadline' = [deadline EXCEPT ![r] = due]
    /\ aged' = aged \ {r}
    /\ SetNotices(r, RoutedNotices(notices[r], dest))
    /\ UNCHANGED chase

ConfirmAndNotify(u, r) ==
    /\ ConfirmReceipt(u, r)
    /\ SetNotices(r, ReceiptNotices(u, r))
    /\ UNCHANGED <<deadline, aged, chase>>

BulkConfirmAndNotify(u, rr) ==
    /\ BulkConfirmReceipts(u, rr)
    /\ notices' = [r \in Records |-> IF r \in rr THEN ReceiptNotices(u, r) ELSE notices[r]]
    /\ UNCHANGED <<deadline, aged, chase>>

CompleteAndNotify(u, r) ==
    /\ Complete(u, r)
    /\ SetNotices(r, CompletionNotices(notices[r]))
    /\ UNCHANGED <<deadline, aged, chase>>

\* The other services leave the notices alone; reopening raises none.
WithoutNotice(u, r) ==
    /\ \/ \E o \in Offices : CreateDraft(u, r, o)
       \/ AddRemark(u, r)
       \/ AttachFiles(u, r)
       \/ UploadVersion(u, r)
       \/ MarkInProcess(u, r)
       \/ Approve(u, r)
       \/ Reopen(u, r)
    /\ UNCHANGED noticeVars

-----------------------------------------------------------------------------
(* Time *)

BatchAges(r) ==
    /\ record[r].batch # 0 /\ r \notin aged
    /\ aged' = aged \cup {r}
    /\ UNCHANGED <<vars, deadline, notices, chase>>

DeadlinePasses(r) ==
    /\ deadline[r] = "ahead"
    /\ deadline' = [deadline EXCEPT ![r] = "passed"]
    /\ UNCHANGED <<vars, aged, notices, chase>>

-----------------------------------------------------------------------------
(* chase_unreceived_and_overdue *)

Idle == [phase |-> "idle", todo |-> {}]

\* The steps of the current batch that office o sent and nobody received in time.
AgedSteps(r, o) ==
    {s \in Outstanding(CurrentSteps(r)) : r \in aged /\ s.from = o}

HasOpen(r, kind) == {o \in Offices : notices[r][kind][o] # <<>>}

\* Fault: the reminder is sought for the office the record is shown in.
NudgeCandidatesInOffice ==
    {c \in Records \X Offices :
        \/ ~Completed(c[1]) /\ AgedSteps(c[1], c[2]) # {} /\ record[c[1]].office = c[2]
        \/ c[2] \in HasOpen(c[1], "UNRECEIVED")}

NudgeCandidates ==
    {c \in Records \X Offices :
        \/ ~Completed(c[1]) /\ AgedSteps(c[1], c[2]) # {}
        \/ c[2] \in HasOpen(c[1], "UNRECEIVED")}

ChaseStart(w) ==
    /\ chase[w].phase = "idle"
    /\ chase' = [chase EXCEPT ![w] = [phase |-> "nudge", todo |-> NudgeCandidates]]
    /\ UNCHANGED <<vars, deadline, aged, notices>>

\* Fault: the job trusts the candidates it read before it took the lock.
NudgedAsRead(r, o) == Tell(notices[r], "UNRECEIVED", o, Owing(CurrentSteps(r)))

\* Fault: the job raises its notice every night.
NudgedNightly(r, o) ==
    IF Completed(r) \/ AgedSteps(r, o) = {} THEN Resolve(notices[r], {"UNRECEIVED"}, {o})
    ELSE Raise(notices[r], "UNRECEIVED", o, Owing(CurrentSteps(r)))

\* What the job does for one sender under the record's lock.
Nudged(r, o) ==
    IF Completed(r) \/ AgedSteps(r, o) = {} THEN Resolve(notices[r], {"UNRECEIVED"}, {o})
    ELSE Tell(notices[r], "UNRECEIVED", o, Owing(CurrentSteps(r)))

Nudge(w, r, o) ==
    /\ chase[w].phase = "nudge" /\ <<r, o>> \in chase[w].todo
    /\ SetNotices(r, Nudged(r, o))
    /\ chase' = [chase EXCEPT ![w].todo = @ \ {<<r, o>>}]
    /\ UNCHANGED <<vars, deadline, aged>>

LateCandidates ==
    {r \in Records : IsOverdue(r) \/ HasOpen(r, "OVERDUE") # {}
                     \/ (Completed(r) /\ HasOpen(r, "ROUTED") # {})}

ChaseLate(w) ==
    /\ chase[w].phase = "nudge" /\ chase[w].todo = {}
    /\ chase' = [chase EXCEPT ![w] = [phase |-> "late", todo |-> LateCandidates]]
    /\ UNCHANGED <<vars, deadline, aged, notices>>

\* Fault: only the latest confirmed holder is told of the deadline.
LateTargetsShown(r) == {record[r].office} \cap Offices

\* Every recipient of the current batch owes a receipt or its work.
LateTargets(r) == Recipients(CurrentSteps(r))

\* What the job does for one record past its deadline, or no longer so.
Lated(r) ==
    LET tidy   == IF Completed(r) THEN Resolve(notices[r], {"ROUTED"}, Offices) ELSE notices[r]
        others == Resolve(tidy, {"OVERDUE"}, Offices \ LateTargets(r))
    IN  IF ~IsOverdue(r) THEN Resolve(tidy, {"OVERDUE"}, Offices)
        ELSE [others EXCEPT !["OVERDUE"] = [o \in Offices |->
                IF o \in LateTargets(r)
                THEN Tell(others, "OVERDUE", o, {o} \cap Owing(CurrentSteps(r)))["OVERDUE"][o]
                ELSE @[o]]]

Late(w, r) ==
    /\ chase[w].phase = "late" /\ r \in chase[w].todo
    /\ SetNotices(r, Lated(r))
    /\ chase' = [chase EXCEPT ![w].todo = @ \ {r}]
    /\ UNCHANGED <<vars, deadline, aged>>

ChaseEnd(w) ==
    /\ chase[w].phase = "late" /\ chase[w].todo = {}
    /\ chase' = [chase EXCEPT ![w] = Idle]
    /\ UNCHANGED <<vars, deadline, aged, notices>>

\* The queue kills a run that takes too long; what it committed stays.
ChaseKilled(w) ==
    /\ chase[w].phase # "idle"
    /\ chase' = [chase EXCEPT ![w] = Idle]
    /\ UNCHANGED <<vars, deadline, aged, notices>>

-----------------------------------------------------------------------------
NoticeInit ==
    /\ Init
    /\ deadline = [r \in Records |-> "none"]
    /\ aged = {}
    /\ notices = [r \in Records |-> [k \in Kinds |-> [o \in Offices |-> <<>>]]]
    /\ chase = [w \in Workers |-> Idle]

Services ==
    \/ \E r \in {q \in Records : Room(q)}, u \in Users :
        \/ \E action \in RoutingActions, dest \in SUBSET Offices, due \in {"none", "ahead"} :
                RouteAndNotify(u, r, action, dest, due)
        \/ ConfirmAndNotify(u, r)
        \/ CompleteAndNotify(u, r)
        \/ WithoutNotice(u, r)
    \/ \E rr \in SUBSET {q \in Records : Room(q)}, u \in Users : BulkConfirmAndNotify(u, rr)

Time == \E r \in Records : BatchAges(r) \/ DeadlinePasses(r)

Job ==
    \E w \in Workers :
        \/ ChaseStart(w)
        \/ \E r \in Records, o \in Offices : Nudge(w, r, o)
        \/ ChaseLate(w)
        \/ \E r \in Records : Late(w, r)
        \/ ChaseEnd(w)
        \/ ChaseKilled(w)

NoticeNext == Services \/ Time \/ Job

NoticeSpec == NoticeInit /\ [][NoticeNext]_<<vars, noticeVars>>

\* A run that keeps coming to a candidate is not killed before it every time.
ChaseContinues(w) ==
    /\ WF_<<vars, noticeVars>>(ChaseEnd(w))
    /\ SF_<<vars, noticeVars>>(ChaseLate(w))
    /\ \A r \in Records :
        /\ SF_<<vars, noticeVars>>(Late(w, r))
        /\ \A o \in Offices : SF_<<vars, noticeVars>>(Nudge(w, r, o))

\* The schedule starts the job every day.
ChaseFairness ==
    \A w \in Workers : WF_<<vars, noticeVars>>(ChaseStart(w)) /\ ChaseContinues(w)

FairNoticeSpec == NoticeSpec /\ ChaseFairness

-----------------------------------------------------------------------------
(* Properties *)

\* What an open notice says is so: its office is the one it is about, and the
\* receipts it asks for are those still owed, whatever the job had read before.
NoticesAreTrue ==
    \A r \in Records, o \in Offices :
        LET current == CurrentSteps(r)
            says(k) == {notices[r][k][o][i] : i \in DOMAIN notices[r][k][o]}
        IN  /\ says("ROUTED") # {} => ~Completed(r) /\ o \in Owing(current)
            /\ says("UNRECEIVED") # {} =>
                /\ ~Completed(r) /\ o \in Senders(current) /\ Owing(current) # {}
                /\ says("UNRECEIVED") = {Owing(current)}
            /\ says("OVERDUE") # {} =>
                /\ IsOverdue(r) /\ o \in Recipients(current)
                /\ says("OVERDUE") = {{o} \cap Owing(current)}

\* An office is told once per record and outstanding condition, however often
\* the job runs and however many workers run it.
ToldOnce ==
    \A r \in Records, k \in Kinds, o \in Offices : Len(notices[r][k][o]) <= 1

\* An office that owes a receipt has the notice that asks for it, unless the
\* record was completed and reopened since it was routed: reopening tells
\* nobody.
OwingOfficesAreTold ==
    \A r \in Records : \A s \in Outstanding(CurrentSteps(r)) :
        ~Completed(r) =>
            \/ notices[r]["ROUTED"][s.to] # <<>>
            \/ \E i \in 1..Len(timeline[r]) :
                timeline[r][i].event = "REOPENED" /\ timeline[r][i].batch = s.batch

\* The sender of a batch that nobody received in time is reminded, also when the
\* batch is reopened after its completion had answered the reminder.
SenderIsReminded ==
    \A r \in Records, o \in Offices :
        ~Completed(r) /\ AgedSteps(r, o) # {}
        ~> (Completed(r) \/ AgedSteps(r, o) = {} \/ notices[r]["UNRECEIVED"][o] # <<>>)

\* Every office the current batch is with is told that the deadline has passed,
\* not only the one the record is shown in.
HoldersAreWarned ==
    \A r \in Records, o \in Offices :
        IsOverdue(r) /\ o \in Recipients(CurrentSteps(r))
        ~> (~IsOverdue(r) \/ o \notin Recipients(CurrentSteps(r)) \/ notices[r]["OVERDUE"][o] # <<>>)

\* Every office that owes a receipt is told, and told once.
OfficesAreTold == ToldOnce /\ OwingOfficesAreTold

\* Whoever is late hears of it, although the chase may be killed at any point.
RemindersCome == SenderIsReminded /\ HoldersAreWarned
=============================================================================
