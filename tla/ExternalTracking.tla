-------------------------- MODULE ExternalTracking --------------------------
(***************************************************************************)
(* The custody ledger of papers that travel to offices without accounts    *)
(* (tracking/external_services.py, external_models.py, external_views.py,  *)
(* documents/external_services.py).  Internal offices act for themselves   *)
(* at the time of the clock; what an external office did is reported later *)
(* by an administrator, with the time it happened, and may be corrected.   *)
(*                                                                         *)
(* A transaction locks its case's row, so each operation is one action and *)
(* cases do not meet: the module follows one of them.  A form carries the  *)
(* revision of the page it was opened on.  Revisions are only compared for *)
(* equality and only grow, so instead of numbers the module keeps who has  *)
(* a page with the present one (matching).  Directory entries stay active  *)
(* and all capabilities are granted.                                       *)
(***************************************************************************)
EXTENDS Integers, Sequences, FiniteSets, FiniteSetsExt

CONSTANTS
    Inside, Outside,            \* offices with accounts, and without
    NoParty,                    \* the NULL of the foreign keys
    Staff, StaffOffice, StaffRole,
    MaxNow,                     \* bound: the clock
    MaxSteps,                   \* bound: dispatches of the case
    MaxTurns,                   \* bound: completions and reopenings
    NudgeAge                    \* UNRECEIVED_NUDGE_DAYS

ASSUME ExternalAssumption ==
    /\ Inside \cap Outside = {} /\ NoParty \notin Inside \cup Outside
    /\ StaffOffice \in [Staff -> Inside \cup {NoParty}]
    /\ StaffRole \in [Staff -> {"USER", "VIEWER", "ADMIN", "SYSTEM_ADMIN"}]
    /\ MaxNow \in Nat /\ MaxSteps \in Nat /\ MaxTurns \in Nat /\ NudgeAge \in Nat

VARIABLES
    xcase,      \* the ExternalTrackingRecord row
    xsteps,     \* its ExternalRoutingStep rows, by sequence
    origin,     \* actual_at of CREATED, 0 when not known
    work,       \* EXTERNAL_WORK, REMARK and ATTACHMENT: step and actual_at
    turns,      \* COMPLETED and REOPENED: event, step and actual_at
    xnotices,   \* its open notices: kind and office
    matching,   \* who has a page with the present revision
    fresh,      \* who has a page that shows the case as it is
    now

extVars == <<xcase, xsteps, origin, work, turns, xnotices, matching, fresh, now>>

Parties == Inside \cup Outside
Clock == 1..MaxNow
Closed == {"COMPLETED_PENDING_UPLOAD", "COMPLETED"}
Moving == {"PENDING_RECEIPT", "RECEIVED", "IN_PROCESS"}

NoCase == [status |-> "ABSENT", manager |-> NoParty, custodian |-> NoParty,
           completedAt |-> 0, filedFor |-> NoParty]

-----------------------------------------------------------------------------
(* The case and who may touch it *)

HasStep == xsteps # <<>>
LastStep == xsteps[Len(xsteps)]
AwaitsReceipt == HasStep /\ LastStep.receivedAt = 0

\* The office of the filed document, the holder inside, or the last one.
ResponsibleOffice ==
    LET inner == {i \in 1..Len(xsteps) : xsteps[i].receivedAt # 0 /\ xsteps[i].to \in Inside}
    IN  IF xcase.filedFor # NoParty THEN xcase.filedFor
        ELSE IF xcase.custodian \in Inside THEN xcase.custodian
        ELSE IF inner # {} THEN xsteps[Max(inner)].to ELSE xcase.manager

SystemAdmin(u) == StaffRole[u] = "SYSTEM_ADMIN"
OfficeAdmin(u) == StaffRole[u] \in {"ADMIN", "SYSTEM_ADMIN"}

\* can_start_work, the gate of active_writer
MayWrite(u) == StaffRole[u] # "VIEWER" /\ (StaffOffice[u] # NoParty \/ SystemAdmin(u))

CanManage(u) ==
    OfficeAdmin(u) /\ (SystemAdmin(u) \/ StaffOffice[u] = ResponsibleOffice)

CanAct(u) ==
    /\ MayWrite(u) /\ ~AwaitsReceipt
    /\ \/ xcase.status = "DRAFT" /\ ~HasStep /\ CanManage(u)
       \/ xcase.custodian \in Outside /\ CanManage(u)
       \/ xcase.custodian \in Inside /\ StaffOffice[u] = xcase.custodian

CanConfirmReceipt(u) ==
    MayWrite(u) /\ AwaitsReceipt /\ LastStep.to \in Inside /\ StaffOffice[u] = LastStep.to

\* Fault: the list is kept to offices that sent the paper on.
VisibleToSenders(u) ==
    \/ SystemAdmin(u)
    \/ /\ StaffOffice[u] # NoParty
       /\ xcase.status = "DRAFT" => OfficeAdmin(u)
       /\ \/ StaffOffice[u] \in {xcase.manager, xcase.filedFor}
          \/ \E i \in 1..Len(xsteps) : xsteps[i].from = StaffOffice[u]

CaseVisibleTo(u) ==
    \/ SystemAdmin(u)
    \/ /\ StaffOffice[u] # NoParty
       /\ xcase.status = "DRAFT" => OfficeAdmin(u)
       /\ \/ StaffOffice[u] \in {xcase.manager, xcase.filedFor}
          \/ /\ xcase.status # "DRAFT"
             /\ \E i \in 1..Len(xsteps) : StaffOffice[u] \in {xsteps[i].from, xsteps[i].to}

-----------------------------------------------------------------------------
(* Times *)

WorkOf(i) == {w.at : w \in {v \in work : v.step = i}}
             \cup {turns[j].at : j \in {k \in 1..Len(turns) : turns[k].step = i}}

\* Fault: what was reported of the work is left out.
LatestMovement ==
    Max({0} \cup {xsteps[i].sentAt : i \in 1..Len(xsteps)}
            \cup {xsteps[i].receivedAt : i \in 1..Len(xsteps)})

LatestActual ==
    Max({origin} \cup {xsteps[i].sentAt : i \in 1..Len(xsteps)}
                 \cup {xsteps[i].receivedAt : i \in 1..Len(xsteps)}
                 \cup UNION {WorkOf(i) : i \in 0..Len(xsteps)})

\* _actual: a reported time is neither in the future nor before `earliest`.
Reportable(earliest) == {t \in Clock : earliest <= t /\ t <= now}

\* What an inside custodian does happens now; for one outside it is reported.
TimesToday(earliest) ==
    IF xcase.custodian \in Inside THEN {now} ELSE Reportable(earliest)

-----------------------------------------------------------------------------
(* Notices: notify_office after resolve_for_external_record *)

Notice(kind, o) == [kind |-> kind, office |-> o]

\* Fault: the earlier notices stay open.
MoreNotices(notices) == xnotices' = xnotices \cup notices

OnlyNotices(notices) == xnotices' = notices

-----------------------------------------------------------------------------
(* Pages and the revision *)

\* Fault: the revision stays.
KeepRevision == matching' = matching /\ fresh' = {}

BumpRevision == matching' = {} /\ fresh' = {}

\* _mutation: a writer who sees the case, from a page with its revision.
Mutation(u) ==
    /\ u \in matching /\ MayWrite(u) /\ CaseVisibleTo(u)
    /\ BumpRevision
    /\ UNCHANGED <<origin, now>>

OpenPage(u) ==
    /\ xcase.status # "ABSENT" /\ CaseVisibleTo(u)
    /\ matching' = matching \cup {u}
    /\ fresh' = fresh \cup {u}
    /\ UNCHANGED <<xcase, xsteps, origin, work, turns, xnotices, now>>

Tick ==
    /\ now < MaxNow
    /\ now' = now + 1
    /\ UNCHANGED <<xcase, xsteps, origin, work, turns, xnotices, matching, fresh>>

-----------------------------------------------------------------------------
(* Operations *)

CreateRecord(u) ==
    /\ xcase.status = "ABSENT"
    /\ MayWrite(u) /\ OfficeAdmin(u)
    /\ \E o \in Inside : \E custodian \in Outside \cup {o} :
        /\ SystemAdmin(u) \/ o = StaffOffice[u]
        /\ xcase' = [NoCase EXCEPT !.status = "DRAFT", !.manager = o,
                                   !.custodian = custodian]
    /\ origin' \in {0} \cup Reportable(0)
    /\ UNCHANGED <<xsteps, work, turns, xnotices, matching, fresh, now>>

RouteRecord(u) ==
    /\ Mutation(u)
    /\ xcase.status \notin Closed
    /\ CanAct(u)
    /\ Len(xsteps) < MaxSteps
    /\ xcase' = [xcase EXCEPT !.status = "PENDING_RECEIPT"]
    /\ \E to \in Parties \ {xcase.custodian}, sent \in TimesToday(LatestActual) :
        /\ xsteps' = Append(xsteps, [from |-> xcase.custodian, to |-> to,
                                     sentAt |-> sent, receivedAt |-> 0])
        /\ OnlyNotices({Notice("ROUTED", o) : o \in {to} \cap Inside})
    /\ UNCHANGED <<work, turns>>

ReceiveStep(at) ==
    /\ xcase.status \notin Closed
    /\ AwaitsReceipt
    /\ xsteps' = [xsteps EXCEPT ![Len(xsteps)].receivedAt = at]
    /\ xcase' = [xcase EXCEPT !.status = "RECEIVED", !.custodian = LastStep.to]
    /\ OnlyNotices({})
    /\ UNCHANGED <<work, turns>>

ConfirmReceipt(u) ==
    /\ Mutation(u)
    /\ CanConfirmReceipt(u)
    /\ ReceiveStep(now)

RecordExternalReceipt(u) ==
    /\ Mutation(u)
    /\ CanManage(u)
    /\ AwaitsReceipt /\ LastStep.to \in Outside
    /\ \E at \in Reportable(LastStep.sentAt) : ReceiveStep(at)

\* add_remark and add_attachment: work of an inside office is timed by the
\* clock; a remark or file for one outside has no time.
AddRemark(u) ==
    /\ Mutation(u)
    /\ xcase.status \notin Closed
    /\ CanAct(u)
    /\ IF xcase.custodian \in Inside
       THEN /\ work' = work \cup {[step |-> Len(xsteps), at |-> now]}
            /\ xcase' = [xcase EXCEPT !.status = IF @ = "DRAFT" THEN @ ELSE "IN_PROCESS"]
       ELSE UNCHANGED <<work, xcase>>
    /\ UNCHANGED <<xsteps, turns, xnotices>>

ReopenedAt(i) ==
    Max({0} \cup {turns[j].at : j \in {k \in 1..Len(turns) :
                                    turns[k].step = i /\ turns[k].event = "REOPENED"}})

RecordExternalWork(u) ==
    /\ Mutation(u)
    /\ xcase.status \notin Closed \cup {"DRAFT"}
    /\ CanManage(u) /\ CanAct(u)
    /\ xcase.custodian \in Outside
    /\ \E at \in Reportable(Max({LastStep.receivedAt, ReopenedAt(Len(xsteps))})) :
        work' = work \cup {[step |-> Len(xsteps), at |-> at]}
    /\ xcase' = [xcase EXCEPT !.status = "IN_PROCESS"]
    /\ UNCHANGED <<xsteps, turns, xnotices>>

CompleteRecord(u) ==
    /\ Mutation(u)
    /\ xcase.status \notin Closed \cup {"DRAFT"}
    /\ CanAct(u)
    /\ Len(turns) < MaxTurns
    /\ \E at \in TimesToday(LatestActual) :
        /\ xcase' = [xcase EXCEPT !.status = "COMPLETED_PENDING_UPLOAD", !.completedAt = at]
        /\ turns' = Append(turns, [event |-> "COMPLETED", step |-> Len(xsteps), at |-> at])
    /\ OnlyNotices({Notice("COMPLETED", ResponsibleOffice)})
    /\ UNCHANGED <<xsteps, work>>

ReopenRecord(u) ==
    /\ Mutation(u)
    /\ CanManage(u)
    /\ xcase.status = "COMPLETED_PENDING_UPLOAD"
    /\ Len(turns) < MaxTurns
    /\ xcase' = [xcase EXCEPT !.status = "RECEIVED", !.completedAt = 0]
    /\ turns' = Append(turns, [event |-> "REOPENED", step |-> Len(xsteps), at |-> now])
    /\ OnlyNotices({})
    /\ UNCHANGED <<xsteps, work>>

AnnotateRecord(u) ==
    /\ Mutation(u)
    /\ CanManage(u)
    /\ UNCHANGED <<xcase, xsteps, work, turns, xnotices>>

-----------------------------------------------------------------------------
(* Corrections of what was reported for an outside office *)

\* Fault: only the row's own two times are compared.
OwnTimesFit(i, s) == s.receivedAt # 0 => s.sentAt <= s.receivedAt

\* The chronology a corrected step s must keep with its neighbours and with
\* the work under it and under the custody before it.
TimesFit(i, s) ==
    /\ s.receivedAt # 0 => s.sentAt <= s.receivedAt
    /\ i > 1 => s.sentAt >= xsteps[i - 1].receivedAt
    /\ i < Len(xsteps) /\ s.receivedAt # 0 => xsteps[i + 1].sentAt >= s.receivedAt
    /\ s.sentAt # xsteps[i].sentAt =>
        /\ i > 1 => \A t \in WorkOf(i - 1) : t <= s.sentAt
        /\ i = 1 => s.sentAt >= origin
    /\ s.receivedAt # xsteps[i].receivedAt => \A t \in WorkOf(i) : s.receivedAt <= t

\* Fault: the sender's time is opened with the recipient's.
MayCorrectEither(i, s) ==
    /\ s.from = xsteps[i].from /\ s.to = xsteps[i].to
    /\ s.sentAt # xsteps[i].sentAt => {xsteps[i].from, xsteps[i].to} \cap Outside # {}
    /\ s.receivedAt # xsteps[i].receivedAt => xsteps[i].to \in Outside

\* Fault: an endpoint may be corrected after its receipt.
MayCorrectReceived(i, s) ==
    /\ s.sentAt # xsteps[i].sentAt => xsteps[i].from \in Outside
    /\ s.receivedAt # xsteps[i].receivedAt => xsteps[i].to \in Outside
    /\ s.from # xsteps[i].from => xsteps[i].from \in Outside /\ i = 1
    /\ s.to # xsteps[i].to => xsteps[i].to \in Outside

\* Which fields of step i an administrator may change.
MayCorrect(i, s) ==
    /\ s.sentAt # xsteps[i].sentAt => xsteps[i].from \in Outside
    /\ s.receivedAt # xsteps[i].receivedAt => xsteps[i].to \in Outside
    /\ s.from # xsteps[i].from => xsteps[i].from \in Outside /\ i = 1
    /\ s.to # xsteps[i].to => xsteps[i].to \in Outside
    /\ s.from # xsteps[i].from \/ s.to # xsteps[i].to =>
        xsteps[i].receivedAt = 0 /\ i = Len(xsteps)

\* Corrections cannot invent or remove a receipt.
Corrections(i) ==
    LET other(p) == IF p \in Outside THEN Outside ELSE {p}
        received == IF xsteps[i].receivedAt = 0 THEN {0} ELSE 1..now
    IN  [from: other(xsteps[i].from), to: other(xsteps[i].to),
         sentAt: 1..now, receivedAt: received]

CorrectStep(u) ==
    /\ Mutation(u)
    /\ CanManage(u)
    /\ xcase.status # "COMPLETED"
    /\ \E i \in 1..Len(xsteps) : \E s \in Corrections(i) \ {xsteps[i]} :
        /\ s.from # s.to
        /\ MayCorrect(i, s) /\ TimesFit(i, s)
        /\ xsteps' = [xsteps EXCEPT ![i] = s]
        /\ xcase' = [xcase EXCEPT !.custodian = IF s.from # xsteps[i].from THEN s.from ELSE @]
    /\ UNCHANGED <<work, turns, xnotices>>

-----------------------------------------------------------------------------
(* Filing and the daily chase *)

\* archive_external_record: a second approval finds the document and returns.
ArchiveExternalRecord(u) ==
    /\ u \in matching /\ MayWrite(u) /\ CanManage(u)
    /\ xcase.status = "COMPLETED_PENDING_UPLOAD"
    /\ Outside \cap ({xcase.custodian} \cup UNION {{xsteps[i].from, xsteps[i].to} :
                                                        i \in 1..Len(xsteps)}) # {}
    /\ xcase' = [xcase EXCEPT !.status = "COMPLETED", !.filedFor = ResponsibleOffice]
    /\ OnlyNotices({Notice("COMPLETED", ResponsibleOffice)})
    /\ BumpRevision
    /\ UNCHANGED <<xsteps, origin, work, turns, now>>

\* chase_external_followups for one case.  Deadlines are left to choice: any
\* chase may find one passed.
ChaseExternalFollowups(overdue) ==
    /\ xcase.status \in Moving
    /\ LET late == AwaitsReceipt /\ LastStep.sentAt + NudgeAge < now
           due  == IF AwaitsReceipt THEN LastStep.to ELSE xcase.custodian
           keep == {n \in xnotices : n.kind \notin {"UNRECEIVED", "OVERDUE"}}
       IN  xnotices' = keep
            \cup (IF late THEN {Notice("UNRECEIVED", ResponsibleOffice)} ELSE {})
            \cup (IF overdue
                  THEN {Notice("OVERDUE", IF due \in Inside THEN due ELSE ResponsibleOffice)}
                  ELSE {})
    /\ UNCHANGED <<xcase, xsteps, origin, work, turns, matching, fresh, now>>

-----------------------------------------------------------------------------
ExtInit ==
    /\ xcase = NoCase
    /\ xsteps = <<>>
    /\ origin = 0
    /\ work = {}
    /\ turns = <<>>
    /\ xnotices = {}
    /\ matching = {} /\ fresh = {}
    /\ now = 1

StaffNext(u) ==
    \/ OpenPage(u)
    \/ CreateRecord(u)
    \/ RouteRecord(u)
    \/ ConfirmReceipt(u)
    \/ RecordExternalReceipt(u)
    \/ AddRemark(u)
    \/ RecordExternalWork(u)
    \/ CompleteRecord(u)
    \/ ReopenRecord(u)
    \/ AnnotateRecord(u)
    \/ CorrectStep(u)
    \/ ArchiveExternalRecord(u)

ExtNext ==
    \/ Tick
    \/ \E u \in Staff : StaffNext(u)
    \/ \E overdue \in BOOLEAN : ChaseExternalFollowups(overdue)

ExtSpec == ExtInit /\ [][ExtNext]_extVars

-----------------------------------------------------------------------------
(* Turnaround: timing_for_record, with office hours taken as clock time *)

Span(start, finish) == IF finish > start THEN finish - start ELSE 0

\* The sum of a sequence of numbers.
Total(f) ==
    LET sum[k \in 0..Len(f)] == IF k = 0 THEN 0 ELSE sum[k - 1] + f[k]
    IN  sum[Len(f)]

EndOfCase == IF xcase.completedAt # 0 THEN xcase.completedAt ELSE now

Pause == {j \in 1..Len(turns) : turns[j].event = "COMPLETED"}

\* A pause ends with the turn after it, and the last with the case.
PauseEnd(j) == IF j < Len(turns) THEN turns[j + 1].at ELSE EndOfCase

Overlaps(start, until) ==
    [j \in 1..Len(turns) |->
        IF j \in Pause THEN Span(Max({start, turns[j].at}), Min({until, PauseEnd(j)})) ELSE 0]

\* Fault: the wait for filing before a reopening counts as work.
ChargedWithPauses(start, finish, pauseWork) ==
    LET until == Min({finish, EndOfCase}) IN IF start > until THEN 0 ELSE until - start

\* add: the part of an interval before the end of the case, without the pauses.
Charged(start, finish, pauseWork) ==
    LET until == Min({finish, EndOfCase})
    IN  IF start > until THEN 0
        ELSE Span(IF pauseWork THEN Total(Overlaps(start, until)) ELSE 0, Span(start, until))

CustodyEnd(i) == IF i < Len(xsteps) THEN xsteps[i + 1].sentAt ELSE EndOfCase

ReceiptEnd(i) == IF xsteps[i].receivedAt # 0 THEN xsteps[i].receivedAt ELSE EndOfCase

WaitingSeconds ==
    Total([i \in 1..Len(xsteps) |-> Charged(xsteps[i].sentAt, ReceiptEnd(i), FALSE)])

CustodySeconds(offices) ==
    Total([i \in 1..Len(xsteps) |->
            IF xsteps[i].to \in offices /\ xsteps[i].receivedAt \in 1..EndOfCase
            THEN Charged(xsteps[i].receivedAt, CustodyEnd(i), TRUE) ELSE 0])

\* A known source is external custody before the first dispatch.
SourceSeconds ==
    IF origin # 0 /\ (IF HasStep THEN xsteps[1].from ELSE xcase.custodian) \in Outside
    THEN Charged(origin, IF HasStep THEN xsteps[1].sentAt ELSE EndOfCase, TRUE)
    ELSE 0

Earliest ==
    Min(({origin} \cup {xsteps[i].sentAt : i \in 1..Len(xsteps)}
                  \cup UNION {WorkOf(i) : i \in 0..Len(xsteps)}) \ {0})

OverallSeconds == Span(Earliest, EndOfCase)

-----------------------------------------------------------------------------
(* The list of one office: _filtered and direction_for *)

Direction(o) ==
    CASE HasStep /\ LastStep.to = o -> "incoming"
      [] HasStep /\ LastStep.to # o /\ LastStep.from = o -> "outgoing"
      [] OTHER -> "other"

\* Fault: the list follows the paper's holder, the badge its last dispatch.
ListedByHolder(o, direction) ==
    LET is == [incoming |-> xcase.custodian = o, outgoing |-> HasStep /\ LastStep.from = o]
    IN  CASE direction = "other" -> ~is.incoming /\ ~is.outgoing
          [] OTHER -> is[direction]

ListedUnder(o, direction) ==
    LET is == [incoming |-> HasStep /\ LastStep.to = o, outgoing |-> HasStep /\ LastStep.from = o]
    IN  CASE direction = "other" -> ~is.incoming /\ ~is.outgoing
          [] OTHER -> is[direction]

-----------------------------------------------------------------------------
(* Properties *)

ExtTypeOK ==
    /\ xcase \in [status: {"ABSENT", "DRAFT"} \cup Moving \cup Closed,
                  manager: Inside \cup {NoParty}, custodian: Parties \cup {NoParty},
                  completedAt: 0..MaxNow, filedFor: Inside \cup {NoParty}]
    /\ xsteps \in Seq([from: Parties, to: Parties, sentAt: Clock, receivedAt: 0..MaxNow])
    /\ origin \in 0..MaxNow
    /\ work \subseteq [step: Nat, at: Clock]
    /\ turns \in Seq([event: {"COMPLETED", "REOPENED"}, step: Nat, at: Clock])
    /\ xnotices \subseteq [kind: {"ROUTED", "COMPLETED", "UNRECEIVED", "OVERDUE"},
                           office: Inside]
    /\ matching \subseteq Staff /\ fresh \subseteq Staff
    /\ now \in Clock

\* Whatever is reported late and however it is corrected (correct_step), the
\* paper's history keeps its order: source, dispatch, receipt, the work under
\* that custody, the next dispatch, and nothing later than now.
Chronology ==
    /\ HasStep => origin <= xsteps[1].sentAt
    /\ \A i \in 1..Len(xsteps) :
        /\ xsteps[i].sentAt <= now
        /\ xsteps[i].receivedAt # 0 =>
            /\ xsteps[i].sentAt <= xsteps[i].receivedAt /\ xsteps[i].receivedAt <= now
            /\ \A t \in WorkOf(i) : xsteps[i].receivedAt <= t /\ t <= now
        /\ i < Len(xsteps) =>
            /\ xsteps[i].receivedAt <= xsteps[i + 1].sentAt
            /\ \A t \in WorkOf(i) : t <= xsteps[i + 1].sentAt

\* The paper passes from hand to hand: each dispatch starts where the last
\* receipt ended, only the last may be on its way, the row's status and
\* custodian say the same as the steps, and corrected endpoints keep it so.
ExternalCustodyChain ==
    /\ \A i \in 1..Len(xsteps) - 1 :
        xsteps[i].receivedAt # 0 /\ xsteps[i].to = xsteps[i + 1].from
    /\ \A i \in 1..Len(xsteps) : xsteps[i].from # xsteps[i].to
    /\ xcase.status = "PENDING_RECEIPT" <=> AwaitsReceipt
    /\ HasStep => /\ xcase.status # "DRAFT"
                  /\ xcase.custodian = IF AwaitsReceipt THEN LastStep.from ELSE LastStep.to
    /\ xcase.status \in Closed <=> xcase.completedAt # 0

\* The revision guards every page: one that still matches shows the case as it
\* is, so a form decided on an older case is refused (_mutation).
MatchingPageIsCurrent == matching \subseteq fresh

\* The turnaround report charges every moment of a dispatched case once: to
\* its source, a receipt wait, a custody or the wait for filing; the only time
\* left out is an inside draft's.  It rests on Chronology.
EveryMomentChargedOnce ==
    LET paused == [j \in 1..Len(turns) |-> IF j \in Pause THEN PauseEnd(j) - turns[j].at ELSE 0]
        drafted == IF SourceSeconds = 0 THEN Span(Earliest, xsteps[1].sentAt) ELSE 0
    IN  HasStep =>
            OverallSeconds = drafted + SourceSeconds + WaitingSeconds
                             + CustodySeconds(Parties) + Total(paused)

\* An open notice is about work that is still owed by its office, and an office
\* a paper is addressed to has one (resolve_for_external_record).
ExternalNoticesAreTrue ==
    /\ \A n \in xnotices :
        /\ n.kind = "ROUTED" => AwaitsReceipt /\ n.office = LastStep.to
        /\ n.kind = "UNRECEIVED" => AwaitsReceipt /\ n.office = ResponsibleOffice
        /\ n.kind = "COMPLETED" => xcase.status \in Closed /\ n.office = ResponsibleOffice
        /\ n.kind = "OVERDUE" => xcase.status \in Moving
    /\ AwaitsReceipt /\ LastStep.to \in Inside => Notice("ROUTED", LastStep.to) \in xnotices

\* Whoever may act on a sent case, confirm its receipt or manage it can also
\* open it: no right is held behind a page that answers "not found".
NobodyManagesUnseen ==
    xcase.status \notin {"ABSENT", "DRAFT"} =>
        \A u \in Staff : CanAct(u) \/ CanConfirmReceipt(u) \/ (MayWrite(u) /\ CanManage(u))
                            => CaseVisibleTo(u)

\* For each office the three direction links list the cases their badges count,
\* each active case once.
DirectionsPartition ==
    xcase.status \in Moving =>
        \A o \in Inside, d \in {"incoming", "outgoing", "other"} :
            ListedUnder(o, d) <=> Direction(o) = d

\* What an inside office did itself is never rewritten: no correction changes
\* the time it sent or confirmed, nor an endpoint once the paper was received.
OwnFactsStand ==
    [][\A i \in 1..Len(xsteps) :
        /\ xsteps[i].from \in Inside => xsteps'[i].sentAt = xsteps[i].sentAt
        /\ xsteps[i].to \in Inside /\ xsteps[i].receivedAt # 0 =>
            xsteps'[i].receivedAt = xsteps[i].receivedAt
        /\ xsteps[i].receivedAt # 0 =>
            xsteps'[i].from = xsteps[i].from /\ xsteps'[i].to = xsteps[i].to
      ]_extVars

\* The history of a case holds, however late it is reported and corrected.
CaseHistoryHolds == Chronology /\ ExternalCustodyChain

\* Pages, links and rights over a case agree with what it is now.
CaseViewsAgree == MatchingPageIsCurrent /\ NobodyManagesUnseen /\ DirectionsPartition
=============================================================================
