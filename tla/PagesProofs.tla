----------------------------- MODULE PagesProofs -----------------------------
(***************************************************************************)
(* What the pages say of every record and what the notices tell, for all   *)
(* sets of records, offices, users and chase workers.                      *)
(*                                                                         *)
(* The queries have no state of their own: that they agree follows from    *)
(* the custody invariant, which says that the current batch left one       *)
(* office, addresses every other at most once, and is empty exactly for    *)
(* drafts (BatchOf).  It needs one more part, that whoever completed a     *)
(* record belongs to an office it was sent to, before it gives that nobody *)
(* acts on a record it cannot open.                                        *)
(*                                                                         *)
(* What a notice may say depends on nothing of a record but its custody as *)
(* Custody sees it: the phase, the sender, and the offices that hold a     *)
(* copy or are awaited.  The invariant Honest is a predicate of one        *)
(* record's notices and of these, so each service needs only the values    *)
(* CustodyProofs gives its move, and the chase only what it writes,        *)
(* whenever it read its candidates and wherever it is killed.              *)
(***************************************************************************)
EXTENDS Queues, TrackingNotices, CustodyProofs, FiniteSetTheorems

-----------------------------------------------------------------------------
(* The current batch of one record *)

\* What the custody invariant says of the current batch.
LEMMA BatchOf ==
    ASSUME CustodyInv, NEW r \in Records
    PROVE  /\ CurrentSteps(r) \subseteq steps[r]
           /\ CurrentSteps(r) \subseteq Step
           /\ \A s, t \in CurrentSteps(r) : s.from = t.from /\ s.to # t.from
           /\ \A s, t \in CurrentSteps(r) : s.to = t.to => s = t
           /\ record[r].status \in ActiveStatuses => CurrentSteps(r) # {}
           /\ record[r].status \in {"ABSENT", "DRAFT"} => CurrentSteps(r) = {}
           /\ record[r].status \in Statuses
           /\ record[r].status = StageOf(record[r].status, CurrentSteps(r), timeline[r])
<1>1. Sound(record[r], steps[r], timeline[r]) /\ Traced(record[r], steps[r], timeline[r])
  BY RecordTraced
<1>2. Cached(record[r], steps[r], timeline[r])
  BY RecordTraced DEF IInv
<1>3. CurrentSteps(r) \subseteq steps[r] /\ steps[r] \subseteq Step
  BY <1>1 DEF Sound, CurrentSteps, StepsOfBatch
<1>4. /\ \A s, t \in CurrentSteps(r) : s.from = t.from /\ s.to # t.from
      /\ \A s, t \in CurrentSteps(r) : s.to = t.to => s = t
  BY <1>1 DEF Traced, OneSender, OneAddress, CurrentSteps, StepsOfBatch
<1>5. record[r].status \in ActiveStatuses => CurrentSteps(r) # {}
  BY <1>1 DEF Sound, ActiveStatuses, CurrentSteps
<1>6. record[r].status \in {"ABSENT", "DRAFT"} => CurrentSteps(r) = {}
  BY <1>1, <1>3, NoBatchNoSteps DEF Sound
<1>7. record[r].status \in Statuses
  BY <1>1 DEF Sound, Row
<1> QED BY <1>2, <1>3, <1>4, <1>5, <1>6, <1>7 DEF Cached, CurrentSteps

\* A record with a current batch is on its way, unless it was completed.
LEMMA BatchIsLive ==
    ASSUME CustodyInv, NEW r \in Records, CurrentSteps(r) # {}, ~Finished(r)
    PROVE  record[r].status \in ActiveStatuses
BY BatchOf DEF Finished, Statuses

\* Two offices cannot share a piece of a batch.
LEMMA Pieces ==
    ASSUME CustodyInv, NEW r \in Records, NEW o
    PROVE  /\ \A s, t \in Addressed(r, {o}) : s = t
           /\ SentFrom(r, {o}) # {} => SentFrom(r, {o}) = CurrentSteps(r)
           /\ SentFrom(r, {o}) # {} => Addressed(r, {o}) = {}
           /\ Addressed(r, {o}) \subseteq CurrentSteps(r)
BY BatchOf DEF Addressed, SentFrom

\* The stage of a record on its way is that of the steps it is computed from.
LEMMA LiveStage ==
    ASSUME NEW status \in ActiveStatuses, NEW part, part # {}, NEW log
    PROVE  /\ StageOf(status, part, log) = "PENDING_RECEIPT" <=> Outstanding(part) # {}
           /\ Outstanding(part) = {} =>
                StageOf(status, part, log) \in {"RECEIVED", "IN_PROCESS"}
BY DEF StageOf, ActiveStatuses, Outstanding, Received

\* Only a record on its way has a live stage.
LEMMA StageIsLive ==
    ASSUME NEW status, NEW part, NEW log, status \notin ActiveStatuses
    PROVE  StageOf(status, part, log) = status
BY DEF StageOf

-----------------------------------------------------------------------------
(* The queues of one office *)

LEMMA ThreeParts ==
    ASSUME NEW a, NEW b, NEW c, NEW whole, a \cup b \cup c = whole,
           a \cap b = {}, a \cap c = {}, b \cap c = {}
    PROVE  IsPartition(<<a, b, c>>, whole)
<1> DEFINE parts == <<a, b, c>>
<1>1. DOMAIN parts = {1, 2, 3} /\ parts[1] = a /\ parts[2] = b /\ parts[3] = c
  OBVIOUS
<1> HIDE DEF parts
<1>2. UNION {parts[i] : i \in DOMAIN parts} = whole
  BY <1>1
<1>3. \A i, j \in DOMAIN parts : i # j => parts[i] \cap parts[j] = {}
  BY <1>1
<1>4. IsPartition(parts, whole)
  BY <1>2, <1>3 DEF IsPartition
<1> QED BY <1>4 DEF parts

\* The stage an office sees is that of its own step, when it has one.
LEMMA StageForOffice ==
    ASSUME CustodyInv, NEW r \in Records, NEW o
    PROVE  StageFor(r, {o}) =
             StageOf(record[r].status,
                     IF Addressed(r, {o}) = {} THEN CurrentSteps(r) ELSE Addressed(r, {o}),
                     timeline[r])
BY FS_Singleton DEF StageFor

\* Where a record addressed to an office stands in the queues of that office.
LEMMA IncomingStands ==
    ASSUME CustodyInv, NEW r \in Records, NEW o, Addressed(r, {o}) # {}, ~Finished(r)
    PROVE  /\ StageFor(r, {o}) = "PENDING_RECEIPT" <=> Outstanding(Addressed(r, {o})) # {}
           /\ Outstanding(Addressed(r, {o})) # {} => Received(Addressed(r, {o})) = {}
           /\ Outstanding(Addressed(r, {o})) = {} =>
                /\ Received(Addressed(r, {o})) # {}
                /\ StageFor(r, {o}) \in {"RECEIVED", "IN_PROCESS"}
<1>1. record[r].status \in ActiveStatuses
  BY Pieces, BatchIsLive
<1>2. /\ StageFor(r, {o}) = "PENDING_RECEIPT" <=> Outstanding(Addressed(r, {o})) # {}
      /\ Outstanding(Addressed(r, {o})) = {} =>
            StageFor(r, {o}) \in {"RECEIVED", "IN_PROCESS"}
  <2>1. StageFor(r, {o}) = StageOf(record[r].status, Addressed(r, {o}), timeline[r])
    BY StageForOffice
  <2> QED BY <1>1, <2>1, LiveStage
<1>3. Outstanding(Addressed(r, {o})) # {} => Received(Addressed(r, {o})) = {}
  <2>1. \A s, t \in Addressed(r, {o}) : s = t
    BY Pieces
  <2> QED BY <2>1 DEF Outstanding, Received
<1>4. Outstanding(Addressed(r, {o})) = {} => Received(Addressed(r, {o})) # {}
  BY DEF Outstanding, Received
<1> QED BY <1>2, <1>3, <1>4

\* Nobody has signed for a record that is not in one of the office's queues.
LEMMA SignedIsIncoming ==
    ASSUME CustodyInv, NEW r \in Records, NEW o, Received(Addressed(r, {o})) # {},
           StageFor(r, {o}) \in {"RECEIVED", "IN_PROCESS"}
    PROVE  Addressed(r, {o}) # {} /\ ~Finished(r)
<1>1. Addressed(r, {o}) # {}
  BY DEF Received
<1>2. record[r].status \in ActiveStatuses
  <2>1. StageFor(r, {o}) = StageOf(record[r].status, Addressed(r, {o}), timeline[r])
    BY <1>1, StageForOffice
  <2> QED BY <2>1, StageIsLive DEF ActiveStatuses
<1> QED BY <1>1, <1>2 DEF Finished, ActiveStatuses, CompletedStatuses

LEMMA SentStands ==
    ASSUME CustodyInv, NEW r \in Records, NEW o, SentFrom(r, {o}) # {}, ~Finished(r)
    PROVE  StageFor(r, {o}) = "PENDING_RECEIPT" <=> Outstanding(SentFrom(r, {o})) # {}
<1>1. record[r].status \in ActiveStatuses
  BY Pieces, BatchIsLive
<1>2. SentFrom(r, {o}) = CurrentSteps(r) /\ Addressed(r, {o}) = {}
  BY Pieces
<1> QED BY <1>1, <1>2, StageForOffice, LiveStage

\* The queues of every office partition what it was sent and what it sent.
LEMMA QueuesPartition == CustodyInv => OfficeQueuesPartition
<1> SUFFICES ASSUME CustodyInv, NEW o \in Offices
             PROVE  /\ IsPartition(<<Inbox(Rows, {o}), SignedFor(Rows, {o}, "RECEIVED"),
                                     SignedFor(Rows, {o}, "IN_PROCESS")>>,
                                   Incoming(Rows, {o}))
                    /\ Inbox(Rows, {o}) =
                        {r \in Incoming(Rows, {o}) : StageFor(r, {o}) = "PENDING_RECEIPT"}
                    /\ Sent(Rows, {o}) =
                        {r \in Outgoing(Rows, {o}) : StageFor(r, {o}) = "PENDING_RECEIPT"}
  BY DEF OfficeQueuesPartition
<1> DEFINE inbox    == Inbox(Rows, {o})
           received == SignedFor(Rows, {o}, "RECEIVED")
           working  == SignedFor(Rows, {o}, "IN_PROCESS")
           incoming == Incoming(Rows, {o})
<1>1. Rows \subseteq Records
  BY DEF Rows
<1>2. \A r \in Rows : Outstanding(Addressed(r, {o})) # {} => Addressed(r, {o}) # {}
  BY DEF Outstanding
<1>3. inbox \cup received \cup working = incoming
  BY <1>1, <1>2, IncomingStands, SignedIsIncoming DEF Inbox, SignedFor, Incoming
<1>4. inbox \cap received = {} /\ inbox \cap working = {}
  BY <1>1, <1>2, IncomingStands DEF Inbox, SignedFor
<1>5. received \cap working = {}
  BY DEF SignedFor
<1>6. inbox = {r \in incoming : StageFor(r, {o}) = "PENDING_RECEIPT"}
  BY <1>1, <1>2, IncomingStands DEF Inbox, Incoming
<1>7. \A r \in Rows : Outstanding(SentFrom(r, {o})) # {} => SentFrom(r, {o}) # {}
  BY DEF Outstanding
<1>8. Sent(Rows, {o}) = {r \in Outgoing(Rows, {o}) : StageFor(r, {o}) = "PENDING_RECEIPT"}
  BY <1>1, <1>7, SentStands DEF Sent, Outgoing
<1> HIDE DEF inbox, received, working, incoming
<1>9. IsPartition(<<inbox, received, working>>, incoming)
  BY <1>3, <1>4, <1>5, ThreeParts
<1> QED BY <1>6, <1>8, <1>9 DEF inbox, received, working, incoming

-----------------------------------------------------------------------------
(* The rows of a page *)

\* A page of one office names it.
LEMMA PageOfOne ==
    ASSUME NEW u \in Users, NEW pick \in SUBSET Offices, Cardinality(PageOffices(u, pick)) = 1
    PROVE  \E o \in Offices : PageOffices(u, pick) = {o}
<1>1. PageOffices(u, pick) \subseteq Offices
  BY TrackingAssumption DEF PageOffices, ScopeOffice, OfficesOf
<1>2. IsFiniteSet(PageOffices(u, pick))
  BY <1>1, QueuesAssumption, FS_Subset
<1> QED BY <1>1, <1>2, FS_Singleton

\* The direction of a row is the queue it is listed in.
LEMMA TagsMatch == CustodyInv => TagMatchesQueue
<1> SUFFICES ASSUME CustodyInv, NEW u \in Users,
                    NEW pick \in {{}, Offices} \cup {{o} : o \in Offices},
                    Cardinality(PageOffices(u, pick)) = 1,
                    NEW rows, rows = {r \in VisibleTo(u) : ~Finished(r)}
             PROVE  /\ Incoming(rows, PageOffices(u, pick)) =
                        {r \in rows : RowTag(u, pick, r) = "incoming"}
                    /\ Outgoing(rows, PageOffices(u, pick)) =
                        {r \in rows : RowTag(u, pick, r) = "outgoing"}
  BY DEF TagMatchesQueue
<1>1. PICK o \in Offices : PageOffices(u, pick) = {o}
  BY PageOfOne
<1>2. rows \subseteq Records /\ \A r \in rows : ~Finished(r)
  BY DEF VisibleTo, Rows
<1>3. \A r : RowTag(u, pick, r) = Direction(r, {o})
  BY <1>1 DEF RowTag
<1>4. \A r \in rows : Direction(r, {o}) = "incoming" <=> Addressed(r, {o}) # {}
  BY DEF Direction
<1>5. \A r \in rows : Direction(r, {o}) = "outgoing" <=> SentFrom(r, {o}) # {}
  BY <1>2, Pieces DEF Direction
<1>6. Incoming(rows, {o}) = {r \in rows : Direction(r, {o}) = "incoming"}
  BY <1>2, <1>4 DEF Incoming
<1>7. Outgoing(rows, {o}) = {r \in rows : Direction(r, {o}) = "outgoing"}
  BY <1>2, <1>5 DEF Outgoing
<1> QED BY <1>1, <1>3, <1>6, <1>7

\* An office in the current batch of a record can open it, once it is sent.
LEMMA BatchIsVisible ==
    ASSUME CustodyInv, NEW r \in Records, NEW u \in Users, NEW s \in CurrentSteps(r),
           OfficeOf[u] \in {s.from, s.to}
    PROVE  CanView(u, r) /\ record[r].status \notin {"ABSENT", "DRAFT"} /\ OfficeOf[u] \in Offices
<1>1. s \in steps[r] /\ s.from \in Offices /\ s.to \in Offices
  BY BatchOf DEF Step
<1>2. record[r].status \notin {"ABSENT", "DRAFT"}
  BY BatchOf
<1> QED BY <1>1, <1>2, TrackingAssumption DEF CanView

\* What an account may confirm is what waits for its office.
LEMMA ConfirmIsPending ==
    ASSUME CustodyInv, NEW r \in Records, NEW u \in Users, CanStartWork(u)
    PROVE  CanConfirm(u, r)
             <=> Outstanding(Addressed(r, OfficesOf(u))) # {} /\ ~Finished(r)
<1>1. CASE OfficeOf[u] = NoOffice
  BY <1>1 DEF CanConfirm, OfficesOf, Addressed, Outstanding
<1>2. CASE OfficeOf[u] # NoOffice
  <2>1. Outstanding(Addressed(r, OfficesOf(u))) = PendingSteps(u, r)
    BY <1>2 DEF OfficesOf, Addressed, PendingSteps, Outstanding
  <2>2. PendingSteps(u, r) # {} => record[r].status # "DRAFT"
    BY BatchOf DEF PendingSteps, Outstanding
  <2> QED BY <1>2, <2>1, <2>2 DEF CanConfirm, Finished
<1> QED BY <1>1, <1>2

\* Whoever may confirm a record can open it.
LEMMA ConfirmIsVisible ==
    ASSUME CustodyInv, NEW r \in Records, NEW u \in Users, CanConfirm(u, r)
    PROVE  r \in VisibleTo(u)
<1>1. PICK s \in CurrentSteps(r) : s.to = OfficeOf[u]
  BY DEF CanConfirm, PendingSteps, Outstanding
<1> QED BY <1>1, BatchIsVisible DEF VisibleTo, Rows

LEMMA ConfirmsAgree == CustodyInv => ConfirmQueueIsHonest
<1> SUFFICES ASSUME CustodyInv, NEW u \in Users, CanStartWork(u)
             PROVE  /\ InboxFor(u) = {r \in Rows : CanConfirm(u, r)}
                    /\ InboxFor(u) = {r \in Rows : CanConfirmNow(u, r)}
                    /\ InboxFor(u) = {r \in Rows : OfficeOf[u] \in AwaitedBadges(r)}
  BY DEF ConfirmQueueIsHonest
<1>1. Rows \subseteq Records /\ VisibleTo(u) \subseteq Rows
  BY DEF Rows, VisibleTo
<1>2. InboxFor(u) = {r \in Rows : CanConfirm(u, r)}
  BY <1>1, ConfirmIsPending, ConfirmIsVisible DEF InboxFor, Inbox
<1>3. ASSUME NEW r \in Rows
      PROVE  CanConfirm(u, r) <=> CanConfirmNow(u, r)
  <2>1. CanConfirmNow(u, r) <=> /\ record[r].status # "DRAFT" /\ ~Finished(r)
                                /\ Outstanding(Addressed(r, OfficesOf(u))) # {}
    BY DEF CanConfirmNow, Finished
  <2>2. CanConfirm(u, r) => record[r].status # "DRAFT"
    BY DEF CanConfirm
  <2> QED BY <1>1, <2>1, <2>2, ConfirmIsPending
<1>4. ASSUME NEW r \in Rows
      PROVE  CanConfirm(u, r) <=> OfficeOf[u] \in AwaitedBadges(r)
  <2>1. \A s \in CurrentSteps(r) : s.to \in Offices
    BY <1>1, BatchOf DEF Step
  <2>2. CASE OfficeOf[u] = NoOffice
    BY <2>1, <2>2, TrackingAssumption DEF CanConfirm, AwaitedBadges, Outstanding
  <2>3. CASE OfficeOf[u] # NoOffice
    BY <2>3 DEF CanConfirm, AwaitedBadges, PendingSteps
  <2> QED BY <2>2, <2>3
<1> QED BY <1>2, <1>3, <1>4

-----------------------------------------------------------------------------
(* No record drops out of the queues *)

LEMMA NothingFalls == CustodyInv => NothingFallsBetweenQueues
<1> SUFFICES ASSUME CustodyInv, NEW r \in Rows
             PROVE  /\ record[r].status \in ActiveStatuses =>
                        /\ Cardinality({o \in Offices : r \in Outgoing(Rows, {o})}) = 1
                        /\ \E o \in Offices : r \in Incoming(Rows, {o})
                    /\ record[r].status \in CompletedStatuses =>
                        (r \in PendingUpload(Rows) <=> r \notin filed)
                    /\ record[r].status = "DRAFT" =>
                        \A u \in Users : r \in VisibleTo(u) =>
                            r \in Mine(VisibleTo(u), u) \/ SystemAdmin(u)
  BY DEF NothingFallsBetweenQueues
<1>1. r \in Records
  BY DEF Rows
<1>2. ASSUME record[r].status \in ActiveStatuses
      PROVE  /\ Cardinality({o \in Offices : r \in Outgoing(Rows, {o})}) = 1
             /\ \E o \in Offices : r \in Incoming(Rows, {o})
  <2>1. PICK s \in CurrentSteps(r) : s.from \in Offices /\ s.to \in Offices
    BY <1>1, <1>2, BatchOf DEF Step
  <2>2. ~Finished(r)
    BY <1>2 DEF Finished, ActiveStatuses, CompletedStatuses
  <2>3. \A t \in CurrentSteps(r) : t.from = s.from
    BY <1>1, BatchOf
  <2>4. {o \in Offices : r \in Outgoing(Rows, {o})} = {s.from}
    BY <2>1, <2>2, <2>3 DEF Outgoing, SentFrom
  <2>5. r \in Incoming(Rows, {s.to})
    BY <2>1, <2>2 DEF Incoming, Addressed
  <2> QED BY <2>1, <2>4, <2>5, FS_Singleton
<1>3. record[r].status \in CompletedStatuses => (r \in PendingUpload(Rows) <=> r \notin filed)
  BY <1>1, RecordTraced DEF Filed, PendingUpload, CompletedStatuses
<1>4. ASSUME record[r].status = "DRAFT", NEW u \in Users, r \in VisibleTo(u)
      PROVE  r \in Mine(VisibleTo(u), u) \/ SystemAdmin(u)
  BY <1>4 DEF VisibleTo, CanView, Mine
<1> QED BY <1>2, <1>3, <1>4

-----------------------------------------------------------------------------
(* The chase list *)

\* A sent record past its deadline is somebody's to clear.
LEMMA LateIsAttributed ==
    ASSUME CustodyInv, NEW r \in Rows, ~Finished(r), Awaiting(r) \cup Holding(r) = {}
    PROVE  record[r].status = "DRAFT"
<1>1. r \in Records /\ record[r].status # "ABSENT"
  BY DEF Rows
<1>2. CurrentSteps(r) = {}
  BY DEF Awaiting, Holding, Outstanding, Received
<1> QED BY <1>1, <1>2, BatchOf DEF Finished, Statuses

\* The accounts of a charged office can make the next move.
LEMMA ChargedCanMove ==
    ASSUME CustodyInv, NEW r \in Records, ~Finished(r), NEW u \in Users, CanStartWork(u)
    PROVE  /\ OfficeOf[u] \in Awaiting(r) => CanConfirm(u, r)
           /\ OfficeOf[u] \in Holding(r) => CanAct(u, r)
           /\ OfficeOf[u] \in Awaiting(r) \cup Holding(r) =>
                /\ OfficeOf[u] \in Offices /\ CanView(u, r) /\ Touches(OfficeOf[u], r)
                /\ record[r].status # "ABSENT"
<1>1. ASSUME OfficeOf[u] \in Awaiting(r)
      PROVE  \E s \in CurrentSteps(r) : s.to = OfficeOf[u] /\ s \in PendingSteps(u, r)
  BY <1>1 DEF Awaiting, PendingSteps, Outstanding
<1>2. ASSUME OfficeOf[u] \in Holding(r)
      PROVE  (\E s \in CurrentSteps(r) : s.to = OfficeOf[u]) /\ HasCustody(r, OfficeOf[u])
  BY <1>2 DEF Holding, HasCustody, Received
<1>3. ASSUME NEW s \in CurrentSteps(r), s.to = OfficeOf[u]
      PROVE  /\ OfficeOf[u] \in Offices /\ CanView(u, r) /\ Touches(OfficeOf[u], r)
             /\ record[r].status \notin {"ABSENT", "DRAFT"}
  BY <1>3, BatchIsVisible, BatchOf DEF Touches
<1>4. OfficeOf[u] \in Awaiting(r) => CanConfirm(u, r)
  BY <1>1, <1>3, TrackingAssumption DEF CanConfirm, Finished
<1>5. OfficeOf[u] \in Holding(r) => CanAct(u, r)
  BY <1>2, <1>3 DEF CanAct, Finished
<1> QED BY <1>1, <1>2, <1>3, <1>4, <1>5

LEMMA ChargesAreRight == CustodyInv => OverdueIsCharged
<1> SUFFICES ASSUME CustodyInv, NEW late \in SUBSET Rows
             PROVE  /\ \A r \in Unattributed(late) : record[r].status = "DRAFT"
                    /\ \A r \in Overdue(late) : \A u \in {v \in Users : CanStartWork(v)} :
                        /\ OfficeOf[u] \in Awaiting(r) => CanConfirm(u, r)
                        /\ OfficeOf[u] \in Holding(r) => CanAct(u, r)
                        /\ OfficeOf[u] \in Awaiting(r) \cup Holding(r) =>
                            r \in OfficeQueue(Overdue(late) \cap VisibleTo(u), OfficesOf(u))
                    /\ \A o \in Offices : OverdueOurs(late, o) \cap OverdueElsewhere(late, o) = {}
  BY DEF OverdueIsCharged
<1>1. late \subseteq Records
  BY DEF Rows
<1>2. \A r \in Unattributed(late) : record[r].status = "DRAFT"
  BY LateIsAttributed DEF Unattributed, Overdue
<1>3. ASSUME NEW r \in Overdue(late), NEW u \in Users, CanStartWork(u)
      PROVE  /\ OfficeOf[u] \in Awaiting(r) => CanConfirm(u, r)
             /\ OfficeOf[u] \in Holding(r) => CanAct(u, r)
             /\ OfficeOf[u] \in Awaiting(r) \cup Holding(r) =>
                  r \in OfficeQueue(Overdue(late) \cap VisibleTo(u), OfficesOf(u))
  <2>1. r \in Records /\ r \in Rows /\ ~Finished(r)
    BY <1>1 DEF Overdue
  <2>2. ASSUME OfficeOf[u] \in Awaiting(r) \cup Holding(r)
        PROVE  r \in OfficeQueue(Overdue(late) \cap VisibleTo(u), OfficesOf(u))
    <3>1. OfficeOf[u] \in Offices /\ CanView(u, r) /\ Touches(OfficeOf[u], r)
      BY <1>3, <2>1, <2>2, ChargedCanMove
    <3>2. OfficesOf(u) = {OfficeOf[u]}
      BY <3>1, TrackingAssumption DEF OfficesOf
    <3>3. Cardinality(OfficesOf(u)) = 1
      BY <3>2, FS_Singleton
    <3>4. r \in Overdue(late) \cap VisibleTo(u)
      BY <2>1, <3>1 DEF VisibleTo
    <3> QED BY <3>1, <3>2, <3>3, <3>4 DEF OfficeQueue
  <2> QED BY <1>3, <2>1, <2>2, ChargedCanMove
<1>4. ASSUME NEW o \in Offices
      PROVE  OverdueOurs(late, o) \cap OverdueElsewhere(late, o) = {}
  <2>1. \A r \in late : Outstanding(SentFrom(r, {o})) # {} => Addressed(r, {o}) = {}
    BY <1>1, Pieces DEF Outstanding
  <2> QED BY <2>1 DEF OverdueOurs, OverdueElsewhere, Overdue
<1> QED BY <1>2, <1>3, <1>4

\* In every reachable state the queues of an office, the direction and the Confirm
\* button of a row, the receipt badges and the chase list say one thing about
\* every record: the queries of the pages and the permissions of the services
\* never part.
THEOREM QueuesCorrect == Spec => []QueuesAgree
<1>1. CustodyInv => QueuesAgree
  BY QueuesPartition, TagsMatch, ConfirmsAgree, NothingFalls, ChargesAreRight DEF QueuesAgree
<1> QED BY <1>1, CustodyInductive, PTL

-----------------------------------------------------------------------------
(* Nobody acts on a record it cannot open *)

\* Whoever completed a record administers the system, or belongs to an office
\* the record was sent to; while it waits for filing, that account may reopen it.
Signer(r) ==
    record[r].completedBy # NoUser =>
        \/ SystemAdmin(record[r].completedBy)
        \/ \E s \in steps[r] : s.to = OfficeOf[record[r].completedBy]

SignerInv == CustodyInv /\ \A r \in Records : Signer(r)

\* A step leaves who completed a record alone, clears it, or writes an account
\* that may act on the record.
LEMMA SignerMoves ==
    ASSUME CustodyInv, [Next]_vars, NEW r \in Records
    PROVE  \/ record'[r].completedBy \in {record[r].completedBy, NoUser}
           \/ \E u \in Users : /\ record'[r].completedBy = u /\ steps'[r] = steps[r]
                               /\ record[r].status \in ActiveStatuses /\ CanAct(u, r)
<1>1. Moved(r) /\ Sound(record[r], steps[r], timeline[r]) /\ record[r] \in Row
  BY StepMovesEach, RecordTraced DEF Sound
<1>2. CASE Kept(r)
  BY <1>2 DEF Kept, Became
<1>3. CASE \E u \in Users, o \in Offices : Drafted(r, u, o)
  BY <1>3 DEF Drafted, Became, AbsentRow
<1>4. ASSUME NEW u \in Users, NEW action \in RoutingActions, NEW dest \in SUBSET Offices,
             Routed(r, u, action, dest)
      PROVE  record'[r].completedBy = record[r].completedBy
  <2> DEFINE b   == NextBatch(r)
             n   == Issued(record[r].origin)
             rs  == steps[r] \cup NewSteps(b, LeftFrom(r, u, action), dest)
             log == Append(timeline[r], Entry("ROUTED", b, u, NoOffice))
             row == RoutedRow(record[r], b, n)
  <2>1. record'[r] = Recalculated(row, rs, log)
    BY <1>4 DEF Routed, Became, Logged
  <2>2. LeftFrom(r, u, action) \in Offices /\ record[r].status \notin CompletedStatuses \cup {"ABSENT"}
        /\ dest # {}
    BY <1>4, SenderHasIt DEF Routed
  <2>3. Sound(row, rs, log)
    BY <2>2, RecordTraced, RouteSound DEF NextBatch
  <2>4. row.completedBy = record[r].completedBy
    <3> HIDE DEF b, n
    <3> QED BY <1>1 DEF RoutedRow, Row
  <2> HIDE DEF row, rs, log
  <2> QED BY <2>1, <2>3, <2>4, RecalculatedRow
<1>5. ASSUME NEW u \in Users, Receipted(r, u) \/ Worked(r, u)
      PROVE  record'[r].completedBy = record[r].completedBy
  BY <1>5, RowKept
<1>6. ASSUME NEW u \in Users, CompletedBy(r, u)
      PROVE  /\ record'[r].completedBy = u /\ steps'[r] = steps[r]
             /\ record[r].status \in ActiveStatuses /\ CanAct(u, r)
  BY <1>1, <1>6 DEF CompletedBy, Became, Row
<1>7. ASSUME NEW u \in Users, FiledBy(r, u)
      PROVE  record'[r].completedBy = record[r].completedBy
  BY <1>1, <1>7 DEF FiledBy, Became, Row
<1>8. ASSUME NEW u \in Users, ReopenedBy(r, u)
      PROVE  record'[r].completedBy = NoUser
  BY <1>8, RowKept
<1> QED BY <1>1, <1>2, <1>3, <1>4, <1>5, <1>6, <1>7, <1>8 DEF Moved, MovedBy

\* Nobody completes a record of an office it was never sent to, and no office
\* leaves the history of a record.
LEMMA NextSignerInv == SignerInv /\ [Next]_vars => SignerInv'
<1> SUFFICES ASSUME SignerInv, [Next]_vars
             PROVE  SignerInv'
  OBVIOUS
<1>1. CustodyInv /\ CustodyInv'
  BY NextCustodyInv DEF SignerInv
<1>2. ASSUME NEW r \in Records
      PROVE  Signer(r)'
  <2>1. \A s \in steps[r] : \E t \in steps'[r] : t.to = s.to
    BY <1>1, StepExtends DEF Extended, Received
  <2>2. CASE record'[r].completedBy \in {record[r].completedBy, NoUser}
    <3>1. Signer(r)
      BY DEF SignerInv
    <3> QED BY <2>1, <2>2, <3>1 DEF Signer, SystemAdmin
  <2>3. ASSUME NEW u \in Users, record'[r].completedBy = u, steps'[r] = steps[r],
               record[r].status \in ActiveStatuses, CanAct(u, r)
        PROVE  Signer(r)'
    <3>1. SystemAdmin(u) \/ HasCustody(r, OfficeOf[u])
      BY <2>3 DEF CanAct, ActiveStatuses
    <3>2. HasCustody(r, OfficeOf[u]) => \E s \in steps[r] : s.to = OfficeOf[u]
      BY DEF HasCustody, Received, CurrentSteps, StepsOfBatch
    <3> QED BY <2>3, <3>1, <3>2 DEF Signer, SystemAdmin
  <2> QED BY <1>1, <2>2, <2>3, SignerMoves
<1> QED BY <1>1, <1>2 DEF SignerInv

\* The office a completed record is shown in received it.
LEMMA FinishedIsHeld ==
    ASSUME CustodyInv, NEW r \in Records, record[r].status = "COMPLETED_PENDING_UPLOAD"
    PROVE  \E s \in steps[r] : s.to = record[r].office
<1>1. record[r].batch # 0 /\ Received(CurrentSteps(r)) # {}
  BY RecordTraced DEF Sound, Traced, InHand, CompletedStatuses, CurrentSteps
<1>2. PICK s \in Received(CurrentSteps(r)) : record[r].office = s.to
  BY <1>1, RecordTraced DEF Traced, Held, CurrentSteps
<1> QED BY <1>2, BatchOf DEF Received

\* An account that belongs to an office of the history, or administers the office
\* the record is shown in or comes from, can open it once it is sent.
LEMMA OpenedBy ==
    ASSUME NEW r \in Rows, NEW u \in Users, record[r].status # "DRAFT",
           OfficeOf[u] # NoOffice \/ SystemAdmin(u),
           \/ SystemAdmin(u)
           \/ OfficeAdmin(u) /\ OfficeOf[u] \in {record[r].origin, record[r].office}
           \/ \E s \in steps[r] : s.to = OfficeOf[u]
    PROVE  r \in VisibleTo(u)
BY DEF VisibleTo, CanView

LEMMA ActorsSee == SignerInv => NobodyActsUnseen
<1> SUFFICES ASSUME SignerInv, NEW u \in Users, NEW r \in Rows,
                    CanAct(u, r) \/ CanConfirm(u, r) \/ CanApprove(u, r) \/ CanReopen(u, r)
             PROVE  r \in VisibleTo(u)
  BY DEF NobodyActsUnseen
<1>1. CustodyInv /\ r \in Records /\ Signer(r)
  BY DEF SignerInv, Rows
<1>2. CASE CanAct(u, r)
  BY <1>2 DEF CanAct, CanView, VisibleTo
<1>3. CASE CanConfirm(u, r)
  BY <1>1, <1>3, ConfirmIsVisible
<1>4. CASE CanApprove(u, r)
  BY <1>4, OpenedBy DEF CanApprove, CanStartWork
<1>5. CASE CanReopen(u, r)
  <2>1. /\ record[r].status = "COMPLETED_PENDING_UPLOAD" /\ CanStartWork(u)
        /\ \/ SystemAdmin(u)
           \/ OfficeAdmin(u) /\ OfficeOf[u] \in {record[r].origin, record[r].office}
           \/ record[r].completedBy = u \/ OfficeOf[u] = record[r].office
    BY <1>5 DEF CanReopen
  <2>2. \E s \in steps[r] : s.to = record[r].office
    BY <1>1, <2>1, FinishedIsHeld
  <2>3. record[r].completedBy = u =>
            SystemAdmin(u) \/ \E s \in steps[r] : s.to = OfficeOf[u]
    BY <1>1, TrackingAssumption DEF Signer
  <2>4. OfficeOf[u] = record[r].office => \E s \in steps[r] : s.to = OfficeOf[u]
    BY <2>2
  <2>5. OfficeOf[u] # NoOffice \/ SystemAdmin(u)
    BY <2>1 DEF CanStartWork
  <2> HIDE DEF SignerInv
  <2> QED BY <2>1, <2>3, <2>4, <2>5, OpenedBy
<1> QED BY <1>2, <1>3, <1>4, <1>5

-----------------------------------------------------------------------------
(* Every record is counted once *)

LEMMA TwoPiles ==
    ASSUME NEW a, NEW b, IsFiniteSet(a), IsFiniteSet(b), a \cap b = {}
    PROVE  /\ IsFiniteSet(a \cup b)
           /\ Cardinality(a \cup b) = Cardinality(a) + Cardinality(b)
<1>1. Cardinality(a) \in Nat /\ Cardinality(b) \in Nat
  BY FS_CardinalityType
<1>2. Cardinality(a \cap b) = 0
  BY FS_EmptySet
<1>3. /\ IsFiniteSet(a \cup b)
      /\ Cardinality(a \cup b) = Cardinality(a) + Cardinality(b) - Cardinality(a \cap b)
  BY FS_Union
<1> QED BY <1>1, <1>2, <1>3

LEMMA ThreePiles ==
    ASSUME NEW a, NEW b, NEW c, IsFiniteSet(a), IsFiniteSet(b), IsFiniteSet(c),
           a \cap b = {}, a \cap c = {}, b \cap c = {}
    PROVE  /\ IsFiniteSet(a \cup b \cup c)
           /\ Cardinality(a \cup b \cup c) = Cardinality(a) + Cardinality(b) + Cardinality(c)
<1>1. IsFiniteSet(a \cup b) /\ Cardinality(a \cup b) = Cardinality(a) + Cardinality(b)
  BY TwoPiles
<1>2. (a \cup b) \cap c = {}
  OBVIOUS
<1> QED BY <1>1, <1>2, TwoPiles

\* A stage computed for an office, or for everybody, is a live one exactly for
\* the records on their way.
StageSound(r, oo) ==
    IF record[r].status \in ActiveStatuses
    THEN StageFor(r, oo) \in ActiveStatuses ELSE StageFor(r, oo) = record[r].status

LEMMA StageForAnybody ==
    ASSUME CustodyInv, NEW r \in Records
    PROVE  StageFor(r, {}) = record[r].status
<1>1. Cardinality({}) # 1
  BY FS_EmptySet
<1> QED BY <1>1, BatchOf DEF StageFor

LEMMA StagesSound ==
    ASSUME CustodyInv, NEW r \in Records, NEW o
    PROVE  StageSound(r, {}) /\ StageSound(r, {o})
<1>1. StageSound(r, {})
  BY StageForAnybody DEF StageSound
<1> DEFINE part == IF Addressed(r, {o}) = {} THEN CurrentSteps(r) ELSE Addressed(r, {o})
<1>2. StageFor(r, {o}) = StageOf(record[r].status, part, timeline[r])
  BY StageForOffice
<1>3. CASE record[r].status \in ActiveStatuses
  <2>1. part # {}
    BY <1>3, BatchOf
  <2> HIDE DEF part
  <2>2. StageFor(r, {o}) \in ActiveStatuses
    BY <1>2, <1>3, <2>1, LiveStage DEF ActiveStatuses
  <2> QED BY <1>1, <1>3, <2>2 DEF StageSound
<1>4. CASE record[r].status \notin ActiveStatuses
  BY <1>1, <1>2, <1>4, StageIsLive DEF StageSound
<1> QED BY <1>3, <1>4

OnTheirWay(rows) == {r \in rows : record[r].status \in ActiveStatuses}

Drafts(rows) == {r \in rows : record[r].status = "DRAFT"}

\* The three live stages share out the records on their way.
LEMMA StagesShareOut ==
    ASSUME NEW rows \in SUBSET Records, NEW oo, \A r \in rows : StageSound(r, oo)
    PROVE  /\ StageTotal(rows, oo, "PENDING_RECEIPT") + StageTotal(rows, oo, "RECEIVED")
                + StageTotal(rows, oo, "IN_PROCESS") = Cardinality(OnTheirWay(rows))
           /\ RingSlice(rows, oo, "PENDING_RECEIPT") + RingSlice(rows, oo, "RECEIVED")
                + RingSlice(rows, oo, "IN_PROCESS") = Cardinality(OnTheirWay(rows))
<1> DEFINE At(stage) == {r \in rows : StageFor(r, oo) = stage}
<1>1. \A stage \in ActiveStatuses :
          At(stage) = {r \in rows : StageFor(r, oo) = stage /\ record[r].status \in ActiveStatuses}
  BY DEF StageSound
<1>2. OnTheirWay(rows) = At("PENDING_RECEIPT") \cup At("RECEIVED") \cup At("IN_PROCESS")
  BY DEF OnTheirWay, StageSound, ActiveStatuses
<1>3. \A stage : IsFiniteSet(At(stage))
  <2>1. \A stage : At(stage) \in SUBSET Records
    OBVIOUS
  <2> HIDE DEF At
  <2> QED BY <2>1, QueuesAssumption, FS_Subset
<1>4. /\ At("PENDING_RECEIPT") \cap At("RECEIVED") = {}
      /\ At("PENDING_RECEIPT") \cap At("IN_PROCESS") = {}
      /\ At("RECEIVED") \cap At("IN_PROCESS") = {}
  OBVIOUS
<1>5. \A stage \in ActiveStatuses : /\ StageTotal(rows, oo, stage) = Cardinality(At(stage))
                                    /\ RingSlice(rows, oo, stage) = Cardinality(At(stage))
  BY <1>1 DEF StageTotal, RingSlice
<1>6. {"PENDING_RECEIPT", "RECEIVED", "IN_PROCESS"} \subseteq ActiveStatuses
  BY DEF ActiveStatuses
<1> HIDE DEF At
<1>7. Cardinality(OnTheirWay(rows)) = Cardinality(At("PENDING_RECEIPT"))
        + Cardinality(At("RECEIVED")) + Cardinality(At("IN_PROCESS"))
  BY <1>2, <1>3, <1>4, ThreePiles
<1> QED BY <1>5, <1>6, <1>7

\* The ring shows what is neither a draft nor filed.
LEMMA RingShows ==
    ASSUME CustodyInv, NEW rows \in SUBSET Rows, NEW oo, \A r \in rows : StageSound(r, oo)
    PROVE  TrackingSlices(rows, oo) = Cardinality(rows \ (Drafts(rows) \cup filed))
<1> DEFINE done == {r \in rows : StageFor(r, oo) = "COMPLETED_PENDING_UPLOAD"}
           live == OnTheirWay(rows)
<1>1. rows \in SUBSET Records
  BY DEF Rows
<1>2. RingSlice(rows, oo, "PENDING_RECEIPT") + RingSlice(rows, oo, "RECEIVED")
        + RingSlice(rows, oo, "IN_PROCESS") = Cardinality(live)
  BY <1>1, StagesShareOut
<1>3. RingSlice(rows, oo, "COMPLETED_PENDING_UPLOAD") = Cardinality(done)
  BY DEF RingSlice
<1>4. done = {r \in rows : record[r].status = "COMPLETED_PENDING_UPLOAD"}
  BY DEF StageSound, ActiveStatuses
<1>5. live \cap done = {}
  BY <1>4 DEF OnTheirWay, ActiveStatuses
<1>6. \A r \in rows : /\ r \in filed <=> record[r].status = "COMPLETED"
                      /\ record[r].status \in Statuses \ {"ABSENT"}
  BY <1>1, RecordTraced, BatchOf DEF Filed, Rows
<1>7. rows \ (Drafts(rows) \cup filed) = live \cup done
  BY <1>4, <1>6 DEF Drafts, OnTheirWay, Statuses, CompletedStatuses, ActiveStatuses
<1>8. IsFiniteSet(live) /\ IsFiniteSet(done)
  BY <1>1, QueuesAssumption, FS_Subset DEF OnTheirWay
<1> HIDE DEF live, done
<1> QED BY <1>2, <1>3, <1>5, <1>7, <1>8, TwoPiles DEF TrackingSlices

\* The cells of a stage, one for each direction, add up to the stage.
LEMMA CellsAddUp ==
    ASSUME NEW rows \in SUBSET Records, NEW oo, NEW stage
    PROVE  StageCell(rows, oo, stage, "incoming") + StageCell(rows, oo, stage, "outgoing")
             + StageCell(rows, oo, stage, "") = StageTotal(rows, oo, stage)
<1> DEFINE Cell(way) == {r \in rows : /\ record[r].status \in ActiveStatuses
                                      /\ StageFor(r, oo) = stage
                                      /\ Direction(r, oo) = way}
           total == {r \in rows : StageFor(r, oo) = stage /\ record[r].status \in ActiveStatuses}
<1>1. \A r : Direction(r, oo) \in {"incoming", "outgoing", ""}
  BY DEF Direction
<1>2. total = Cell("incoming") \cup Cell("outgoing") \cup Cell("")
  BY <1>1
<1>3. /\ Cell("incoming") \cap Cell("outgoing") = {} /\ Cell("incoming") \cap Cell("") = {}
      /\ Cell("outgoing") \cap Cell("") = {}
  OBVIOUS
<1>4. /\ \A way : StageCell(rows, oo, stage, way) = Cardinality(Cell(way))
      /\ StageTotal(rows, oo, stage) = Cardinality(total)
  BY DEF StageCell, StageTotal
<1>5. \A way : IsFiniteSet(Cell(way))
  <2>1. \A way : Cell(way) \in SUBSET Records
    OBVIOUS
  <2> HIDE DEF Cell
  <2> QED BY <2>1, QueuesAssumption, FS_Subset
<1> HIDE DEF Cell, total
<1> DEFINE in == Cell("incoming")
           out == Cell("outgoing")
           neither == Cell("")
<1>6. /\ total = in \cup out \cup neither
      /\ in \cap out = {} /\ in \cap neither = {} /\ out \cap neither = {}
      /\ IsFiniteSet(in) /\ IsFiniteSet(out) /\ IsFiniteSet(neither)
  BY <1>2, <1>3, <1>5
<1>7. /\ StageCell(rows, oo, stage, "incoming") = Cardinality(in)
      /\ StageCell(rows, oo, stage, "outgoing") = Cardinality(out)
      /\ StageCell(rows, oo, stage, "") = Cardinality(neither)
  BY <1>4
<1> HIDE DEF in, out, neither
<1>8. Cardinality(total) = Cardinality(in) + Cardinality(out) + Cardinality(neither)
  BY <1>6, ThreePiles
<1> QED BY <1>4, <1>7, <1>8

LEMMA CountedOnce == CustodyInv => EveryRecordCountedOnce
<1> SUFFICES ASSUME CustodyInv
             PROVE  EveryRecordCountedOnce
  OBVIOUS
<1> DEFINE drafts == Drafts(Rows)
           live   == OnTheirWay(Rows)
<1>1. Rows \in SUBSET Records
  BY DEF Rows
<1>2. \A r \in Rows : StageSound(r, {}) /\ \A o : StageSound(r, {o})
  BY <1>1, StagesSound
<1>3. \A r \in Rows : /\ r \in filed <=> record[r].status = "COMPLETED"
                      /\ record[r].status \in Statuses \ {"ABSENT"}
  BY <1>1, RecordTraced, BatchOf DEF Filed, Rows
<1>4. filed \subseteq Rows
  <2>1. filed \subseteq Records /\ \A r \in Records : r \in filed => record[r].status = "COMPLETED"
    BY RecordTraced DEF CustodyInv, IInv, Filed
  <2> QED BY <2>1 DEF Rows
<1>5. /\ IsFiniteSet(drafts) /\ IsFiniteSet(live) /\ IsFiniteSet(filed)
      /\ IsFiniteSet(Rows \ (drafts \cup filed))
  BY <1>1, <1>4, QueuesAssumption, FS_Subset DEF Drafts, OnTheirWay
<1>6. DraftsByDifference(Rows) = Cardinality(drafts)
  <2>1. {r \in Rows : ~Finished(r)} = live \cup drafts /\ live \cap drafts = {}
    BY <1>3 DEF Drafts, OnTheirWay, Finished, Statuses, ActiveStatuses, CompletedStatuses
  <2>2. StageTotal(Rows, {}, "PENDING_RECEIPT") + StageTotal(Rows, {}, "RECEIVED")
          + StageTotal(Rows, {}, "IN_PROCESS") = Cardinality(live)
    BY <1>1, <1>2, StagesShareOut
  <2>3. Cardinality(live) \in Nat /\ Cardinality(drafts) \in Nat
    BY <1>5, FS_CardinalityType
  <2> HIDE DEF live, drafts
  <2>4. Cardinality({r \in Rows : ~Finished(r)}) = Cardinality(live) + Cardinality(drafts)
    BY <1>5, <2>1, TwoPiles
  <2>5. DraftsByDifference(Rows) = Cardinality({r \in Rows : ~Finished(r)}) - Cardinality(live)
    BY <2>2 DEF DraftsByDifference
  <2> QED BY <2>3, <2>4, <2>5
<1>7. TrackingSlices(Rows, {}) + Cardinality(filed) = Cardinality(Rows \ drafts)
  <2>1. TrackingSlices(Rows, {}) = Cardinality(Rows \ (drafts \cup filed))
    BY <1>2, RingShows
  <2>2. Rows \ drafts = (Rows \ (drafts \cup filed)) \cup filed
    BY <1>3, <1>4 DEF Drafts
  <2>3. (Rows \ (drafts \cup filed)) \cap filed = {}
    OBVIOUS
  <2> HIDE DEF drafts
  <2> QED BY <1>5, <2>1, <2>2, <2>3, TwoPiles
<1>8. ASSUME NEW o \in Offices, NEW touched, touched = OfficeQueue(Rows, {o})
      PROVE  /\ TrackingSlices(touched, {o}) = Cardinality(touched \ (drafts \cup filed))
             /\ \A stage \in WorkStages :
                    StageCell(touched, {o}, stage, "incoming")
                      + StageCell(touched, {o}, stage, "outgoing")
                      + StageCell(touched, {o}, stage, "") = StageTotal(touched, {o}, stage)
  <2>1. touched \in SUBSET Rows
    BY <1>8 DEF OfficeQueue
  <2>2. touched \ (Drafts(touched) \cup filed) = touched \ (drafts \cup filed)
    BY <2>1 DEF Drafts
  <2>3. TrackingSlices(touched, {o}) = Cardinality(touched \ (drafts \cup filed))
    BY <1>2, <2>1, <2>2, RingShows
  <2> QED BY <1>1, <2>1, <2>3, CellsAddUp
<1>9. \A o \in Offices :
        LET touched == OfficeQueue(Rows, {o})
        IN  /\ TrackingSlices(touched, {o}) = Cardinality(touched \ (drafts \cup filed))
            /\ \A stage \in WorkStages :
                   StageCell(touched, {o}, stage, "incoming")
                     + StageCell(touched, {o}, stage, "outgoing")
                     + StageCell(touched, {o}, stage, "") = StageTotal(touched, {o}, stage)
  BY <1>8
<1> QED BY <1>6, <1>7, <1>9 DEF EveryRecordCountedOnce, Drafts

\* The pages agree in every reachable state: whoever may act on a record can open
\* it, and the dashboard, the report and the repository count each record once.
THEOREM PagesAlwaysAgree == Spec => []PagesAgree
<1>1. Init => SignerInv
  <2> SUFFICES ASSUME Init
               PROVE  SignerInv
    OBVIOUS
  <2>1. \A r \in Records : record[r].completedBy = NoUser
    BY DEF Init, AbsentRow
  <2> QED BY <2>1, InitCustodyInv DEF SignerInv, Signer
<1>2. SignerInv => PagesAgree
  BY ActorsSee, CountedOnce DEF SignerInv, PagesAgree
<1> QED BY <1>1, <1>2, NextSignerInv, PTL DEF Spec


-----------------------------------------------------------------------------
(* The open notices of one kind and office: none, or one *)

Slip == Seq(SUBSET Offices)

Slips == [Kinds -> [Offices -> Slip]]

LEMMA OneSlip ==
    ASSUME NEW x
    PROVE  /\ <<x>> # <<>> /\ Len(<<x>>) = 1 /\ Len(<<>>) = 0
           /\ DOMAIN <<x>> = {1} /\ DOMAIN <<>> = {} /\ <<x>>[1] = x
OBVIOUS

\* A list of at most one notice, reworded or told.
LEMMA SlipRewritten ==
    ASSUME NEW slip \in Slip, Len(slip) <= 1, NEW y \in SUBSET Offices
    PROVE  /\ [i \in DOMAIN slip |-> y] = IF slip = <<>> THEN <<>> ELSE <<y>>
           /\ slip = <<>> => Append(slip, y) = <<y>>
           /\ <<y>> \in Slip /\ <<>> \in Slip
<1>1. CASE slip = <<>>
  <2>1. DOMAIN slip = {}
    BY <1>1
  <2>2. [i \in DOMAIN slip |-> y] = <<>>
    BY <2>1
  <2>3. Append(slip, y) = <<y>>
    BY <1>1
  <2> QED BY <1>1, <2>2, <2>3 DEF Slip
<1>2. CASE slip # <<>>
  <2>1. Len(slip) = 1 /\ DOMAIN slip = 1..1
    <3>1. Len(slip) \in Nat /\ DOMAIN slip = 1..Len(slip)
      BY DEF Slip
    <3>2. Len(slip) # 0
      BY <1>2 DEF Slip
    <3> QED BY <3>1, <3>2
  <2>2. [i \in DOMAIN slip |-> y] = <<y>>
    BY <2>1
  <2> QED BY <1>2, <2>2 DEF Slip
<1> QED BY <1>1, <1>2

\* What resolving closes, and what it leaves.
LEMMA Resolved ==
    ASSUME NEW n \in Slips, NEW kinds, NEW offices
    PROVE  /\ Resolve(n, kinds, offices) \in Slips
           /\ \A k \in Kinds, o \in Offices :
                Resolve(n, kinds, offices)[k][o] =
                    IF k \in kinds /\ o \in offices THEN <<>> ELSE n[k][o]
BY DEF Resolve, Slips, Slip

\* Writing the notices of one kind and office writes no others.
Write(n, kind, o, slip) == [n EXCEPT ![kind] = [n[kind] EXCEPT ![o] = slip]]

OnlyWrote(new, n, kind, o) ==
    \A k \in Kinds, p \in Offices : k # kind \/ p # o => new[k][p] = n[k][p]

LEMMA Written ==
    ASSUME NEW n \in Slips, NEW kind \in Kinds, NEW o \in Offices, NEW slip \in Slip
    PROVE  LET new == Write(n, kind, o, slip)
           IN  new \in Slips /\ new[kind][o] = slip /\ OnlyWrote(new, n, kind, o)
<1> DEFINE row == [n[kind] EXCEPT ![o] = slip]
           new == Write(n, kind, o, slip)
<1>1. row \in [Offices -> Slip]
  BY DEF Slips
<1>2. row[o] = slip /\ \A p \in Offices : p # o => row[p] = n[kind][p]
  BY DEF Slips
<1>3. new = [n EXCEPT ![kind] = row]
  BY DEF Write
<1> HIDE DEF row, new
<1>4. new \in Slips
  BY <1>1, <1>3 DEF Slips
<1>5. new[kind] = row /\ \A k \in Kinds : k # kind => new[k] = n[k]
  BY <1>3 DEF Slips
<1> QED BY <1>2, <1>4, <1>5 DEF new, OnlyWrote

\* Rewording an open notice changes what it asks for, and opens none.
LEMMA Reworded ==
    ASSUME NEW n \in Slips, NEW kind \in Kinds, NEW o \in Offices, NEW y \in SUBSET Offices,
           Len(n[kind][o]) <= 1
    PROVE  LET new == Reword(n, kind, o, y)
           IN  /\ new \in Slips
               /\ new[kind][o] = IF n[kind][o] = <<>> THEN <<>> ELSE <<y>>
               /\ OnlyWrote(new, n, kind, o)
<1> DEFINE slip == [i \in DOMAIN n[kind][o] |-> y]
<1>1. n[kind][o] \in Slip
  BY DEF Slips
<1>2. slip = (IF n[kind][o] = <<>> THEN <<>> ELSE <<y>>) /\ slip \in Slip
  BY <1>1, SlipRewritten
<1>3. Reword(n, kind, o, y) = Write(n, kind, o, slip)
  BY DEF Reword, Write, Slips
<1> HIDE DEF slip
<1> QED BY <1>2, <1>3, Written

\* Telling an office leaves it one notice, which says what it is told now.
LEMMA Told ==
    ASSUME NEW n \in Slips, NEW kind \in Kinds, NEW o \in Offices, NEW y \in SUBSET Offices,
           Len(n[kind][o]) <= 1
    PROVE  LET new == Tell(n, kind, o, y)
           IN  new \in Slips /\ new[kind][o] = <<y>> /\ OnlyWrote(new, n, kind, o)
<1>1. CASE n[kind][o] # <<>>
  <2>1. Tell(n, kind, o, y) = Reword(n, kind, o, y)
    BY <1>1 DEF Tell
  <2>2. LET new == Reword(n, kind, o, y)
        IN  new \in Slips /\ new[kind][o] = <<y>> /\ OnlyWrote(new, n, kind, o)
    BY <1>1, Reworded
  <2> QED BY <2>1, <2>2
<1>2. CASE n[kind][o] = <<>>
  <2> DEFINE slip == Append(n[kind][o], y)
  <2>1. slip = <<y>> /\ slip \in Slip
    <3>1. n[kind][o] \in Slip
      BY DEF Slips
    <3>2. n[kind][o] = <<>> => Append(n[kind][o], y) = <<y>>
      BY <3>1, SlipRewritten
    <3>3. <<y>> \in Slip
      BY <3>1, SlipRewritten
    <3> QED BY <1>2, <3>2, <3>3
  <2>2. Tell(n, kind, o, y) = Write(n, kind, o, slip)
    BY <1>2 DEF Tell, Raise, Write, Slips
  <2> HIDE DEF slip
  <2> QED BY <2>1, <2>2, Written
<1> QED BY <1>1, <1>2

-----------------------------------------------------------------------------
(* What the notices of one record may say *)

\* The open notices n of a record in a given phase, sent by one office, awaited by
\* some and held by others, with the deadline "due".
Honest(n, phase, due, sender, awaited, holders) ==
    \A o \in Offices :
        /\ n["ROUTED"][o] \in {<<>>, <<{o}>>}
        /\ n["ROUTED"][o] # <<>> => phase = "moving" /\ o \in awaited
        /\ n["UNRECEIVED"][o] \in {<<>>, <<awaited>>}
        /\ n["UNRECEIVED"][o] # <<>> => phase = "moving" /\ o = sender /\ awaited # {}
        /\ n["OVERDUE"][o] \in {<<>>, <<{o} \cap awaited>>}
        /\ n["OVERDUE"][o] # <<>> =>
            phase = "moving" /\ due = "passed" /\ o \in awaited \cup holders

\* Of each kind and office at most one notice is open.
LEMMA HonestIsOnce ==
    ASSUME NEW n, NEW phase, NEW due, NEW sender, NEW awaited, NEW holders,
           Honest(n, phase, due, sender, awaited, holders), NEW k \in Kinds, NEW o \in Offices
    PROVE  Len(n[k][o]) <= 1
<1>1. n[k][o] = <<>> \/ \E x : n[k][o] = <<x>>
  BY DEF Honest, Kinds
<1>2. CASE n[k][o] = <<>>
  BY <1>2
<1>3. ASSUME NEW x, n[k][o] = <<x>>
      PROVE  Len(n[k][o]) <= 1
  BY <1>3
<1> QED BY <1>1, <1>2, <1>3

Silent(n) == \A k \in Kinds, o \in Offices : n[k][o] = <<>>

\* Saying nothing is true of any record, and all that is true of one not on its way.
LEMMA SilentIsHonest ==
    ASSUME NEW n, NEW phase, NEW due, NEW sender, NEW awaited, NEW holders
    PROVE  /\ Silent(n) => Honest(n, phase, due, sender, awaited, holders)
           /\ Honest(n, phase, due, sender, awaited, holders) /\ phase # "moving" => Silent(n)
BY DEF Silent, Honest, Kinds

\* A new batch answers what was open and tells its recipients.
LEMMA RoutedIsHonest ==
    ASSUME NEW n \in Slips, NEW due, NEW sender, NEW dest \in SUBSET Offices
    PROVE  LET new == RoutedNotices(n, dest)
           IN  /\ new \in Slips
               /\ Honest(new, "moving", due, sender, dest, {})
               /\ \A o \in dest : new["ROUTED"][o] # <<>>
<1> DEFINE answered == Resolve(n, Kinds, Offices)
           row == [o \in Offices |-> IF o \in dest THEN Append(answered["ROUTED"][o], {o})
                                     ELSE answered["ROUTED"][o]]
           new == RoutedNotices(n, dest)
<1>1. answered \in Slips /\ Silent(answered)
  BY Resolved DEF Silent
<1>2. new = [answered EXCEPT !["ROUTED"] = row]
  BY DEF RoutedNotices
<1> HIDE DEF answered
<1>3. ASSUME NEW o \in Offices
      PROVE  row[o] = IF o \in dest THEN <<{o}>> ELSE <<>>
  <2>1. answered["ROUTED"][o] = <<>>
    BY <1>1 DEF Silent, Kinds
  <2>2. Append(<<>>, {o}) = <<{o}>>
    OBVIOUS
  <2> QED BY <2>1, <2>2
<1>4. row \in [Offices -> Slip]
  <2>1. \A o \in Offices : <<{o}>> \in Slip /\ <<>> \in Slip
    BY DEF Slip
  <2> QED BY <1>3, <2>1
<1> HIDE DEF row, new
<1>5. new \in Slips
  BY <1>1, <1>2, <1>4 DEF Slips
<1>6. new["ROUTED"] = row /\ \A k \in Kinds \ {"ROUTED"} : new[k] = answered[k]
  BY <1>1, <1>2 DEF Slips, Kinds
<1>7. \A o \in Offices : new["UNRECEIVED"][o] = <<>> /\ new["OVERDUE"][o] = <<>>
  BY <1>1, <1>6 DEF Silent, Kinds
<1> QED BY <1>3, <1>5, <1>6, <1>7, OneSlip DEF Honest, new

\* confirm_receipt on the notices n of a record: the receipt of office o leaves
\* "owing" awaited.
ReceiptOn(n, o, sender, owing, due) ==
    LET answered == Resolve(n, {"ROUTED"}, {o})
        reminded == IF owing = {} THEN Resolve(answered, {"UNRECEIVED"}, {sender})
                    ELSE Reword(answered, "UNRECEIVED", sender, owing)
    IN  IF due = "passed" THEN Reword(reminded, "OVERDUE", o, {})
        ELSE Resolve(reminded, {"OVERDUE"}, Offices)

LEMMA ReceiptIsHonest ==
    ASSUME NEW n \in Slips, NEW due, NEW sender \in Offices, NEW awaited \in SUBSET Offices,
           NEW holders, NEW o \in awaited, Honest(n, "moving", due, sender, awaited, holders)
    PROVE  LET new == ReceiptOn(n, o, sender, awaited \ {o}, due)
           IN  /\ new \in Slips
               /\ Honest(new, "moving", due, sender, awaited \ {o}, holders \cup {o})
               /\ \A p \in Offices \ {o} : new["ROUTED"][p] = n["ROUTED"][p]
<1> DEFINE owing    == awaited \ {o}
           answered == Resolve(n, {"ROUTED"}, {o})
           reminded == IF owing = {} THEN Resolve(answered, {"UNRECEIVED"}, {sender})
                       ELSE Reword(answered, "UNRECEIVED", sender, owing)
           new      == ReceiptOn(n, o, sender, owing, due)
<1>1. /\ o \in Offices /\ owing \in SUBSET Offices /\ {} \in SUBSET Offices
      /\ {"ROUTED", "UNRECEIVED", "OVERDUE"} = Kinds
  BY DEF Kinds
<1>2. /\ answered \in Slips
      /\ \A k \in Kinds, p \in Offices :
            answered[k][p] = IF k = "ROUTED" /\ p = o THEN <<>> ELSE n[k][p]
  BY Resolved
<1>3. \A k \in Kinds, p \in Offices : Len(n[k][p]) <= 1
  BY HonestIsOnce
<1>3a. Len(answered["UNRECEIVED"][sender]) <= 1
  BY <1>1, <1>2, <1>3
<1> HIDE DEF answered, owing
<1>4. /\ reminded \in Slips
      /\ \A k \in Kinds, p \in Offices :
            k # "UNRECEIVED" \/ p # sender => reminded[k][p] = answered[k][p]
      /\ reminded["UNRECEIVED"][sender] =
            IF owing = {} \/ answered["UNRECEIVED"][sender] = <<>> THEN <<>> ELSE <<owing>>
  <2>1. CASE owing = {}
    BY <1>1, <1>2, <2>1, Resolved
  <2>2. CASE owing # {}
    <3>1. reminded = Reword(answered, "UNRECEIVED", sender, owing)
      BY <2>2
    <3> HIDE DEF reminded
    <3> QED BY <1>1, <1>2, <1>3a, <2>2, <3>1, Reworded DEF OnlyWrote
  <2> QED BY <2>1, <2>2
<1>4a. Len(reminded["OVERDUE"][o]) <= 1
  BY <1>1, <1>2, <1>3, <1>4
<1>5. new = IF due = "passed" THEN Reword(reminded, "OVERDUE", o, {})
            ELSE Resolve(reminded, {"OVERDUE"}, Offices)
  BY DEF ReceiptOn, answered
<1> HIDE DEF reminded, new
<1>6. /\ new \in Slips
      /\ \A k \in Kinds \ {"OVERDUE"}, p \in Offices : new[k][p] = reminded[k][p]
      /\ \A p \in Offices :
            new["OVERDUE"][p] = IF due # "passed" \/ n["OVERDUE"][p] = <<>> THEN <<>>
                                ELSE IF p = o THEN <<{}>> ELSE n["OVERDUE"][p]
  <2>1. \A p \in Offices : reminded["OVERDUE"][p] = n["OVERDUE"][p]
    BY <1>1, <1>2, <1>4
  <2>2. CASE due = "passed"
    <3>1. new = Reword(reminded, "OVERDUE", o, {})
      BY <1>5, <2>2
    <3> DEFINE nobody == {}
    <3>2. nobody \in SUBSET Offices /\ "OVERDUE" \in Kinds
      BY <1>1
    <3>3. new = Reword(reminded, "OVERDUE", o, nobody)
      BY <3>1
    <3> HIDE DEF nobody
    <3>4. /\ new \in Slips
          /\ new["OVERDUE"][o] = IF reminded["OVERDUE"][o] = <<>> THEN <<>> ELSE <<nobody>>
          /\ OnlyWrote(new, reminded, "OVERDUE", o)
      BY <1>1, <1>4, <1>4a, <3>2, <3>3, Reworded
    <3> QED BY <1>1, <2>1, <2>2, <3>4 DEF OnlyWrote, nobody
  <2>3. CASE due # "passed"
    <3>1. new = Resolve(reminded, {"OVERDUE"}, Offices)
      BY <1>5, <2>3
    <3> QED BY <1>1, <1>4, <2>1, <2>3, <3>1, Resolved
  <2> QED BY <2>2, <2>3
<1>7. ASSUME NEW p \in Offices
      PROVE  /\ new["ROUTED"][p] = IF p = o THEN <<>> ELSE n["ROUTED"][p]
             /\ new["UNRECEIVED"][p] =
                    IF p = sender
                    THEN IF owing = {} \/ n["UNRECEIVED"][p] = <<>> THEN <<>> ELSE <<owing>>
                    ELSE n["UNRECEIVED"][p]
  BY <1>1, <1>2, <1>4, <1>6
<1>8. ASSUME NEW p \in Offices
      PROVE  /\ new["ROUTED"][p] \in {<<>>, <<{p}>>}
             /\ new["ROUTED"][p] # <<>> => p \in owing
             /\ new["UNRECEIVED"][p] \in {<<>>, <<owing>>}
             /\ new["UNRECEIVED"][p] # <<>> => p = sender /\ owing # {}
             /\ new["OVERDUE"][p] \in {<<>>, <<{p} \cap owing>>}
             /\ new["OVERDUE"][p] # <<>> =>
                    due = "passed" /\ p \in owing \cup (holders \cup {o})
  <2>1. new["ROUTED"][p] \in {<<>>, <<{p}>>} /\ (new["ROUTED"][p] # <<>> => p \in owing)
    BY <1>7 DEF Honest, owing
  <2>2. /\ new["UNRECEIVED"][p] \in {<<>>, <<owing>>}
        /\ new["UNRECEIVED"][p] # <<>> => p = sender /\ owing # {}
    BY <1>7 DEF Honest
  <2>3. /\ new["OVERDUE"][p] \in {<<>>, <<{p} \cap owing>>}
        /\ new["OVERDUE"][p] # <<>> => due = "passed" /\ p \in owing \cup (holders \cup {o})
    <3>1. p = o => {p} \cap owing = {}
      BY DEF owing
    <3>2. p # o => {p} \cap owing = {p} \cap awaited
      BY DEF owing
    <3>3. p \in awaited \cup holders => p \in owing \cup (holders \cup {o})
      BY DEF owing
    <3> QED BY <1>6, <3>1, <3>2, <3>3 DEF Honest
  <2> QED BY <2>1, <2>2, <2>3
<1>9. Honest(new, "moving", due, sender, owing, holders \cup {o})
  BY <1>8 DEF Honest
<1> QED BY <1>6, <1>7, <1>9 DEF new, owing

\* Resolving a notice makes nothing untrue.
LEMMA ResolvedIsHonest ==
    ASSUME NEW n \in Slips, NEW phase, NEW due, NEW sender, NEW awaited, NEW holders,
           Honest(n, phase, due, sender, awaited, holders), NEW kinds, NEW offices
    PROVE  LET new == Resolve(n, kinds, offices)
           IN  /\ new \in Slips /\ Honest(new, phase, due, sender, awaited, holders)
               /\ "ROUTED" \notin kinds => \A o \in Offices : new["ROUTED"][o] = n["ROUTED"][o]
<1> DEFINE new == Resolve(n, kinds, offices)
<1>1. /\ new \in Slips
      /\ \A k \in Kinds, o \in Offices :
            new[k][o] = IF k \in kinds /\ o \in offices THEN <<>> ELSE n[k][o]
  BY Resolved
<1> HIDE DEF new
<1>2. {"ROUTED", "UNRECEIVED", "OVERDUE"} = Kinds
  BY DEF Kinds
<1>3. Honest(new, phase, due, sender, awaited, holders)
  BY <1>1, <1>2 DEF Honest
<1> QED BY <1>1, <1>2, <1>3 DEF new

\* The nightly job reminds the sender of a batch that somebody still owes.
LEMMA NudgeIsHonest ==
    ASSUME NEW n \in Slips, NEW due, NEW sender \in Offices, NEW awaited \in SUBSET Offices,
           NEW holders, Honest(n, "moving", due, sender, awaited, holders), awaited # {}
    PROVE  LET new == Tell(n, "UNRECEIVED", sender, awaited)
           IN  /\ new \in Slips /\ Honest(new, "moving", due, sender, awaited, holders)
               /\ \A o \in Offices : new["ROUTED"][o] = n["ROUTED"][o]
<1> DEFINE new == Tell(n, "UNRECEIVED", sender, awaited)
<1>1. {"ROUTED", "UNRECEIVED", "OVERDUE"} = Kinds
  BY DEF Kinds
<1>2. Len(n["UNRECEIVED"][sender]) <= 1
  BY <1>1, HonestIsOnce
<1>3. /\ new \in Slips /\ new["UNRECEIVED"][sender] = <<awaited>>
      /\ OnlyWrote(new, n, "UNRECEIVED", sender)
  BY <1>1, <1>2, Told
<1> HIDE DEF new
<1>4. /\ \A o \in Offices : new["ROUTED"][o] = n["ROUTED"][o]
      /\ \A o \in Offices : new["OVERDUE"][o] = n["OVERDUE"][o]
      /\ \A o \in Offices \ {sender} : new["UNRECEIVED"][o] = n["UNRECEIVED"][o]
  BY <1>1, <1>3 DEF OnlyWrote
<1>5. Honest(new, "moving", due, sender, awaited, holders)
  BY <1>3, <1>4 DEF Honest
<1> QED BY <1>3, <1>4, <1>5 DEF new

\* The deadline notices of the offices the current batch is with.
LateOn(n, targets, awaited) ==
    LET others == Resolve(n, {"OVERDUE"}, Offices \ targets)
    IN  [others EXCEPT !["OVERDUE"] = [o \in Offices |->
            IF o \in targets THEN Tell(others, "OVERDUE", o, {o} \cap awaited)["OVERDUE"][o]
            ELSE @[o]]]

\* The nightly job tells every office of the batch that the deadline has passed.
LEMMA LateIsHonest ==
    ASSUME NEW n \in Slips, NEW sender, NEW awaited \in SUBSET Offices,
           NEW holders \in SUBSET Offices,
           Honest(n, "moving", "passed", sender, awaited, holders)
    PROVE  LET new == LateOn(n, awaited \cup holders, awaited)
           IN  /\ new \in Slips /\ Honest(new, "moving", "passed", sender, awaited, holders)
               /\ \A o \in Offices : new["ROUTED"][o] = n["ROUTED"][o]
<1> DEFINE targets == awaited \cup holders
           others == Resolve(n, {"OVERDUE"}, Offices \ targets)
           new == LateOn(n, targets, awaited)
           row == [o \in Offices |->
                    IF o \in targets
                    THEN Tell(others, "OVERDUE", o, {o} \cap awaited)["OVERDUE"][o]
                    ELSE others["OVERDUE"][o]]
<1>1. {"ROUTED", "UNRECEIVED", "OVERDUE"} = Kinds
  BY DEF Kinds
<1>2. /\ others \in Slips
      /\ Honest(others, "moving", "passed", sender, awaited, holders)
      /\ \A o \in Offices : others["ROUTED"][o] = n["ROUTED"][o]
  BY ResolvedIsHonest
<1>3. \A o \in Offices \ targets : others["OVERDUE"][o] = <<>>
  BY <1>1, Resolved
<1> HIDE DEF others
<1>4. ASSUME NEW o \in Offices
      PROVE  row[o] = IF o \in targets THEN <<{o} \cap awaited>> ELSE <<>>
  <2>1. Len(others["OVERDUE"][o]) <= 1
    BY <1>1, <1>2, HonestIsOnce
  <2>2. Tell(others, "OVERDUE", o, {o} \cap awaited)["OVERDUE"][o] = <<{o} \cap awaited>>
    <3> DEFINE owed == {o} \cap awaited
    <3>1. owed \in SUBSET Offices
      OBVIOUS
    <3> HIDE DEF owed
    <3>2. Tell(others, "OVERDUE", o, owed)["OVERDUE"][o] = <<owed>>
      BY <1>1, <1>2, <2>1, <3>1, Told
    <3> QED BY <3>2 DEF owed
  <2> QED BY <1>3, <2>2
<1>5. row \in [Offices -> Slip]
  <2>1. \A o \in Offices : <<{o} \cap awaited>> \in Slip /\ <<>> \in Slip
    BY DEF Slip
  <2> QED BY <1>4, <2>1
<1>6. new = [others EXCEPT !["OVERDUE"] = row]
  BY <1>1, <1>2 DEF Slips, LateOn, others
<1> HIDE DEF row, new
<1>7. new \in Slips
  BY <1>1, <1>2, <1>5, <1>6 DEF Slips
<1>8. new["OVERDUE"] = row /\ new["ROUTED"] = others["ROUTED"]
      /\ new["UNRECEIVED"] = others["UNRECEIVED"]
  BY <1>1, <1>2, <1>6 DEF Slips
<1>9. Honest(new, "moving", "passed", sender, awaited, holders)
  BY <1>2, <1>4, <1>8 DEF Honest
<1> QED BY <1>2, <1>7, <1>8, <1>9 DEF new

-----------------------------------------------------------------------------
(* The invariant *)

\* The batch on its way was reopened since it was routed.
Reopened(r) ==
    \E i \in 1..Len(timeline[r]) :
        timeline[r][i].event = "REOPENED" /\ timeline[r][i].batch = record[r].batch

Alerted(r) ==
    Phase(r) = "moving" =>
        \A o \in Awaited(r) : notices[r]["ROUTED"][o] # <<>> \/ Reopened(r)

NoticeOf(r) ==
    /\ notices[r] \in Slips
    /\ Honest(notices[r], Phase(r), deadline[r], Sender(r), Awaited(r), Holders(r))
    /\ Alerted(r)

NoticeInv ==
    /\ CustodyInv
    /\ deadline \in [Records -> {"none", "ahead", "passed"}]
    /\ notices \in [Records -> Slips]
    /\ \A r \in Records : NoticeOf(r)

\* The custody of a record as the notices see it.
LEMMA Seen ==
    ASSUME CustodyInv, NEW r \in Records
    PROVE  /\ Owing(CurrentSteps(r)) = Awaited(r)
           /\ Recipients(CurrentSteps(r)) = Awaited(r) \cup Holders(r)
           /\ Awaited(r) \in SUBSET Offices /\ Holders(r) \in SUBSET Offices
           /\ Completed(r) <=> Phase(r) \in {"finished", "filed"}
           /\ Phase(r) = "moving" <=> record[r].status \in ActiveStatuses
           /\ CurrentSteps(r) # {} /\ ~Completed(r) => Phase(r) = "moving"
           /\ Phase(r) = "moving" =>
                /\ Senders(CurrentSteps(r)) = {Sender(r)} /\ Sender(r) \in Offices
                /\ Sender(r) = BatchSender(CurrentSteps(r))
<1> DEFINE current == CurrentSteps(r)
<1>1. /\ Sound(record[r], steps[r], timeline[r]) /\ OneSender(steps[r])
      /\ steps[r] \subseteq Step
  BY RecordTraced DEF Traced
<1>2. /\ current \subseteq Step /\ \A s, t \in current : s.from = t.from
  BY <1>1 DEF OneSender, CurrentSteps, StepsOfBatch
<1>3. \A s \in current : s.from \in Offices /\ s.to \in Offices
  BY <1>2 DEF Step
<1>4. Owing(current) = Awaited(r)
  BY DEF Owing, Awaited, Addressees
<1>5. Recipients(current) = Awaited(r) \cup Holders(r)
  BY DEF Recipients, Awaited, Holders, Addressees, Outstanding, Received
<1>6. Awaited(r) \in SUBSET Offices /\ Holders(r) \in SUBSET Offices
  BY <1>3 DEF Awaited, Holders, Addressees, Outstanding, Received
<1>7. record[r].status \in Statuses
  BY <1>1 DEF Sound, Row
<1>8. /\ Completed(r) <=> Phase(r) \in {"finished", "filed"}
      /\ Phase(r) = "moving" <=> record[r].status \in ActiveStatuses
  BY <1>7, Phases DEF Completed, CompletedStatuses, Phase
<1>9. current # {} /\ ~Completed(r) => Phase(r) = "moving"
  <2>1. current # {} => record[r].batch # 0
    BY <1>1, NoBatchNoSteps DEF CurrentSteps, StepsOfBatch
  <2>2. current # {} => record[r].status \notin {"ABSENT", "DRAFT"}
    BY <1>1, <2>1 DEF Sound
  <2> QED BY <1>7, <1>8, <2>2 DEF Statuses, Completed
<1>10. ASSUME Phase(r) = "moving"
       PROVE  /\ Senders(current) = {Sender(r)} /\ Sender(r) \in Offices
              /\ Sender(r) = BatchSender(current)
  <2>1. record[r].batch # 0 /\ current # {}
    BY <1>1, <1>8, <1>10 DEF Sound, ActiveStatuses, CurrentSteps
  <2>2. Sender(r) = BatchSender(current)
    BY <2>1 DEF Sender
  <2>3. \E s \in current : BatchSender(current) = s.from
    BY <2>1 DEF BatchSender
  <2> QED BY <1>2, <1>3, <2>2, <2>3 DEF Senders
<1> QED BY <1>4, <1>5, <1>6, <1>8, <1>9, <1>10

\* What the invariant says is what the properties say.
LEMMA NoticeInvImplies == NoticeInv => NoticesAreTrue /\ OfficesAreTold
<1> SUFFICES ASSUME NoticeInv
             PROVE  NoticesAreTrue /\ ToldOnce /\ OwingOfficesAreTold
  BY DEF OfficesAreTold
<1>1. \A r \in Records : CustodyInv /\ NoticeOf(r)
  BY DEF NoticeInv
<1>2. NoticesAreTrue
  <2> SUFFICES ASSUME NEW r \in Records, NEW o \in Offices
               PROVE  LET current == CurrentSteps(r)
                          says(k) == {notices[r][k][o][i] : i \in DOMAIN notices[r][k][o]}
                      IN  /\ says("ROUTED") # {} => ~Completed(r) /\ o \in Owing(current)
                          /\ says("UNRECEIVED") # {} =>
                              /\ ~Completed(r) /\ o \in Senders(current) /\ Owing(current) # {}
                              /\ says("UNRECEIVED") = {Owing(current)}
                          /\ says("OVERDUE") # {} =>
                              /\ IsOverdue(r) /\ o \in Recipients(current)
                              /\ says("OVERDUE") = {{o} \cap Owing(current)}
    BY DEF NoticesAreTrue
  <2> DEFINE says(k) == {notices[r][k][o][i] : i \in DOMAIN notices[r][k][o]}
  <2>1. Honest(notices[r], Phase(r), deadline[r], Sender(r), Awaited(r), Holders(r))
    BY <1>1 DEF NoticeOf
  <2>2. ASSUME NEW k, notices[r][k][o] = <<>>
        PROVE  says(k) = {}
    BY <2>2
  <2>3. ASSUME NEW k, NEW x, notices[r][k][o] = <<x>>
        PROVE  says(k) = {x}
    BY <2>3, OneSlip
  <2>4. /\ Owing(CurrentSteps(r)) = Awaited(r)
        /\ Recipients(CurrentSteps(r)) = Awaited(r) \cup Holders(r)
        /\ Phase(r) = "moving" => ~Completed(r) /\ Senders(CurrentSteps(r)) = {Sender(r)}
    BY <1>1, Seen
  <2>5. says("ROUTED") # {} => ~Completed(r) /\ o \in Awaited(r)
    BY <2>1, <2>2, <2>4 DEF Honest
  <2>6. says("UNRECEIVED") # {} =>
            /\ Phase(r) = "moving" /\ o = Sender(r) /\ Awaited(r) # {}
            /\ says("UNRECEIVED") = {Awaited(r)}
    <3>1. CASE notices[r]["UNRECEIVED"][o] = <<>>
      BY <2>2, <3>1
    <3>2. CASE notices[r]["UNRECEIVED"][o] # <<>>
      BY <2>1, <2>3, <3>2 DEF Honest
    <3> QED BY <3>1, <3>2
  <2>7. says("OVERDUE") # {} =>
            /\ Phase(r) = "moving" /\ deadline[r] = "passed" /\ o \in Awaited(r) \cup Holders(r)
            /\ says("OVERDUE") = {{o} \cap Awaited(r)}
    <3>1. CASE notices[r]["OVERDUE"][o] = <<>>
      BY <2>2, <3>1
    <3>2. CASE notices[r]["OVERDUE"][o] # <<>>
      BY <2>1, <2>3, <3>2 DEF Honest
    <3> QED BY <3>1, <3>2
  <2> HIDE DEF says
  <2>8. /\ says("ROUTED") # {} => ~Completed(r) /\ o \in Owing(CurrentSteps(r))
        /\ says("UNRECEIVED") # {} =>
            /\ ~Completed(r) /\ o \in Senders(CurrentSteps(r)) /\ Owing(CurrentSteps(r)) # {}
            /\ says("UNRECEIVED") = {Owing(CurrentSteps(r))}
        /\ says("OVERDUE") # {} =>
            /\ IsOverdue(r) /\ o \in Recipients(CurrentSteps(r))
            /\ says("OVERDUE") = {{o} \cap Owing(CurrentSteps(r))}
    BY <2>4, <2>5, <2>6, <2>7 DEF IsOverdue
  <2> QED BY <2>8 DEF says
<1>3. ToldOnce
  BY <1>1, HonestIsOnce DEF ToldOnce, NoticeOf
<1>4. OwingOfficesAreTold
  <2> SUFFICES ASSUME NEW r \in Records, NEW s \in Outstanding(CurrentSteps(r)), ~Completed(r)
               PROVE  \/ notices[r]["ROUTED"][s.to] # <<>>
                      \/ \E i \in 1..Len(timeline[r]) :
                            timeline[r][i].event = "REOPENED" /\ timeline[r][i].batch = s.batch
    BY DEF OwingOfficesAreTold
  <2>1. s \in CurrentSteps(r) /\ s.batch = record[r].batch /\ s.to \in Awaited(r)
    BY DEF Outstanding, CurrentSteps, StepsOfBatch, Awaited, Addressees
  <2>2. Phase(r) = "moving"
    BY <1>1, <2>1, Seen
  <2> QED BY <1>1, <2>1, <2>2 DEF NoticeOf, Alerted, Reopened
<1> QED BY <1>2, <1>3, <1>4

-----------------------------------------------------------------------------
(* What each service leaves of the invariant of its record *)

SameNotices(r) == notices'[r] = notices[r] /\ deadline'[r] = deadline[r]

\* What the invariant says of one record.
LEMMA OneNotice ==
    ASSUME NoticeInv, NEW r \in Records
    PROVE  /\ CustodyInv /\ NoticeOf(r) /\ notices[r] \in Slips
           /\ Honest(notices[r], Phase(r), deadline[r], Sender(r), Awaited(r), Holders(r))
           /\ Phase(r) # "moving" => Silent(notices[r])
BY SilentIsHonest DEF NoticeInv, NoticeOf

\* A later entry takes no reopening back.
LEMMA StaysReopened ==
    ASSUME CustodyInv, NEW r \in Records, NEW e, timeline'[r] = Append(timeline[r], e),
           record'[r].batch = record[r].batch, Reopened(r)
    PROVE  Reopened(r)'
<1>1. timeline[r] \in Seq(Activity)
  BY RecordTraced
<1>2. /\ Len(timeline'[r]) >= Len(timeline[r])
      /\ \A i \in 1..Len(timeline[r]) : timeline'[r][i] = timeline[r][i]
  BY <1>1, LogExtends
<1>3. PICK i \in 1..Len(timeline[r]) :
          timeline[r][i].event = "REOPENED" /\ timeline[r][i].batch = record[r].batch
  BY DEF Reopened
<1>4. i \in 1..Len(timeline'[r]) /\ timeline'[r][i] = timeline[r][i]
  <2>1. timeline'[r] = Append(timeline[r], e) /\ Len(timeline'[r]) = Len(timeline[r]) + 1
    BY <1>1
  <2> QED BY <1>1, <1>2, <2>1
<1> QED BY <1>3, <1>4 DEF Reopened

\* The record of another transaction.
LEMMA KeptNotice ==
    ASSUME NoticeInv, NEW r \in Records, Kept(r), SameNotices(r)
    PROVE  NoticeOf(r)'
<1>1. Phase(r)' = Phase(r) /\ Unmoved(r)
  BY KeptValues
<1>2. Reopened(r)' <=> Reopened(r)
  BY DEF Kept, Became, Reopened
<1> QED BY <1>1, <1>2, OneNotice DEF NoticeOf, Alerted, SameNotices, Unmoved

LEMMA RoutedNotice ==
    ASSUME NoticeInv, NEW r \in Records, NEW u \in Users, NEW action \in RoutingActions,
           NEW dest \in SUBSET Offices, Routed(r, u, action, dest),
           notices'[r] = RoutedNotices(notices[r], dest)
    PROVE  NoticeOf(r)'
<1>1. /\ Phase(r)' = "moving" /\ Holders(r)' = {} /\ Awaited(r)' = dest
  BY OneNotice, RoutedValues
<1>2. /\ notices'[r] \in Slips
      /\ Honest(notices'[r], "moving", deadline'[r], Sender(r)', dest, {})
      /\ \A o \in dest : notices'[r]["ROUTED"][o] # <<>>
  BY OneNotice, RoutedIsHonest
<1> QED BY <1>1, <1>2 DEF NoticeOf, Alerted

\* A receipt is read off the steps it leaves.
LEMMA ReceiptNoticesAre ==
    ASSUME NoticeInv, NEW r \in Records, NEW u \in Users, Receipted(r, u)
    PROVE  ReceiptNotices(u, r) =
               ReceiptOn(notices[r], OfficeOf[u], Sender(r), Awaited(r) \ {OfficeOf[u]}, deadline[r])
<1> DEFINE current == StepsOfBatch(ReceiptSteps(u, r), record[r].batch)
<1>1. CustodyInv /\ steps'[r] = ReceiptSteps(u, r) /\ record'[r].batch = record[r].batch
  BY OneNotice, RowKept DEF Receipted, Became
<1>2. current = CurrentSteps(r)'
  BY <1>1 DEF CurrentSteps
<1>3. Sender(r)' = Sender(r) /\ Awaited(r)' = Awaited(r) \ {OfficeOf[u]} /\ Phase(r) = "moving"
  BY <1>1, ReceiptedValues
<1>4. record[r].batch # 0
  <2>1. record[r].status \in ActiveStatuses
    BY <1>1, <1>3, Seen
  <2> QED BY <1>1, <2>1, RecordTraced DEF Sound, ActiveStatuses
<1>5. BatchSender(current) = Sender(r)
  BY <1>1, <1>2, <1>3, <1>4 DEF Sender
<1>6. Owing(current) = Awaited(r) \ {OfficeOf[u]}
  BY <1>2, <1>3 DEF Owing, Awaited, Addressees
<1> HIDE DEF current
<1> QED BY <1>5, <1>6 DEF ReceiptNotices, ReceiptOn, current

LEMMA ReceiptedNotice ==
    ASSUME NoticeInv, NEW r \in Records, NEW u \in Users, Receipted(r, u),
           deadline'[r] = deadline[r], notices'[r] = ReceiptNotices(u, r)
    PROVE  NoticeOf(r)'
<1> DEFINE o == OfficeOf[u]
<1>1. /\ CustodyInv /\ notices[r] \in Slips
      /\ o \in Awaited(r)
      /\ Phase(r) = "moving" /\ Phase(r)' = Phase(r) /\ Sender(r)' = Sender(r)
      /\ Holders(r)' = Holders(r) \cup {o} /\ Awaited(r)' = Awaited(r) \ {o}
  BY OneNotice, ReceiptedValues
<1>2. Sender(r) \in Offices /\ Awaited(r) \in SUBSET Offices
  BY <1>1, Seen
<1>3. notices'[r] = ReceiptOn(notices[r], o, Sender(r), Awaited(r) \ {o}, deadline[r])
  BY ReceiptNoticesAre
<1>4. Honest(notices[r], "moving", deadline[r], Sender(r), Awaited(r), Holders(r))
  BY <1>1, OneNotice
<1> HIDE DEF o
<1>5. /\ notices'[r] \in Slips
      /\ Honest(notices'[r], "moving", deadline[r], Sender(r), Awaited(r) \ {o}, Holders(r) \cup {o})
      /\ \A p \in Offices \ {o} : notices'[r]["ROUTED"][p] = notices[r]["ROUTED"][p]
  <2> DEFINE n == notices[r]
             due == deadline[r]
             sender == Sender(r)
             awaited == Awaited(r)
             holders == Holders(r)
             new == ReceiptOn(n, o, sender, awaited \ {o}, due)
  <2>1. /\ n \in Slips /\ sender \in Offices /\ awaited \in SUBSET Offices /\ o \in awaited
        /\ Honest(n, "moving", due, sender, awaited, holders)
    BY <1>1, <1>2, <1>4
  <2> HIDE DEF n, due, sender, awaited, holders
  <2>2. /\ new \in Slips
        /\ Honest(new, "moving", due, sender, awaited \ {o}, holders \cup {o})
        /\ \A p \in Offices \ {o} : new["ROUTED"][p] = n["ROUTED"][p]
    BY <2>1, ReceiptIsHonest
  <2> QED BY <1>3, <2>2 DEF n, due, sender, awaited, holders
<1>6. Reopened(r) => Reopened(r)'
  <2>1. timeline'[r] = Append(timeline[r], Entry("RECEIVED", record[r].batch, u, NoOffice))
    BY DEF Receipted, Became, ReceiptLog, Logged
  <2>2. record'[r].batch = record[r].batch
    BY <1>1, RowKept
  <2> QED BY <1>1, <2>1, <2>2, StaysReopened
<1>7. Alerted(r)
  BY OneNotice DEF NoticeOf
<1>8. Alerted(r)'
  BY <1>1, <1>2, <1>5, <1>6, <1>7 DEF Alerted
<1> QED BY <1>1, <1>5, <1>8 DEF NoticeOf

\* Work on a record, and the filing and reopening of completed ones, write no
\* notices; completing answers them all.
LEMMA WorkedNotice ==
    ASSUME NoticeInv, NEW r \in Records, NEW u \in Users, Worked(r, u), SameNotices(r)
    PROVE  NoticeOf(r)'
<1>1. /\ CustodyInv /\ Phase(r)' = Phase(r) /\ Unmoved(r)
  BY OneNotice, WorkedValues
<1>2. Reopened(r) => Reopened(r)'
  <2>1. timeline'[r] = Append(timeline[r], Entry("WORK", record[r].batch, u, WorkOffice(u, r)))
    BY DEF Worked, Became, Logged
  <2>2. record'[r].batch = record[r].batch
    BY <1>1, RowKept
  <2> QED BY <1>1, <2>1, <2>2, StaysReopened
<1> QED BY <1>1, <1>2, OneNotice DEF NoticeOf, Alerted, SameNotices, Unmoved

\* A record that no notice is open about and that is not on its way.
LEMMA QuietNotice ==
    ASSUME NEW r \in Records, notices'[r] \in Slips, Silent(notices'[r]), Alerted(r)'
    PROVE  NoticeOf(r)'
BY SilentIsHonest DEF NoticeOf

LEMMA DraftedNotice ==
    ASSUME NoticeInv, NEW r \in Records, NEW u \in Users, NEW o \in Offices,
           Drafted(r, u, o), SameNotices(r)
    PROVE  NoticeOf(r)'
<1>1. Phase(r) = "none" /\ Phase(r)' = "preparing"
  BY OneNotice, DraftedValues
<1> QED BY <1>1, OneNotice, QuietNotice DEF SameNotices, Alerted

LEMMA CompletedNotice ==
    ASSUME NoticeInv, NEW r \in Records, NEW u \in Users, CompletedBy(r, u),
           notices'[r] = CompletionNotices(notices[r])
    PROVE  NoticeOf(r)'
<1>1. Phase(r)' = "finished"
  BY OneNotice, FinishedValues
<1>2. notices'[r] \in Slips /\ Silent(notices'[r])
  BY OneNotice, Resolved DEF CompletionNotices, Silent
<1> QED BY <1>1, <1>2, QuietNotice DEF Alerted

LEMMA FiledNotice ==
    ASSUME NoticeInv, NEW r \in Records, NEW u \in Users, FiledBy(r, u), SameNotices(r)
    PROVE  NoticeOf(r)'
<1>1. Phase(r) = "finished" /\ Phase(r)' = "filed"
  BY OneNotice, FinishedValues
<1> QED BY <1>1, OneNotice, QuietNotice DEF SameNotices, Alerted

\* Reopening tells nobody, and leaves its entry in the timeline.
LEMMA ReopenedNotice ==
    ASSUME NoticeInv, NEW r \in Records, NEW u \in Users, ReopenedBy(r, u), SameNotices(r)
    PROVE  NoticeOf(r)'
<1> DEFINE e == Entry("REOPENED", record[r].batch, u, NoOffice)
<1>1. CustodyInv /\ Phase(r) = "finished" /\ record'[r].batch = record[r].batch
  BY OneNotice, FinishedValues, RowKept
<1>2. timeline'[r] = Append(timeline[r], e) /\ timeline[r] \in Seq(Activity)
  BY <1>1, RecordTraced DEF ReopenedBy, Became, Logged
<1>3. e.event = "REOPENED" /\ e.batch = record[r].batch
  BY DEF Entry
<1> HIDE DEF e
<1>4. /\ Len(timeline[r]) + 1 \in 1..Len(timeline'[r])
      /\ timeline'[r][Len(timeline[r]) + 1] = e
  BY <1>2
<1>5. Reopened(r)'
  BY <1>1, <1>3, <1>4 DEF Reopened
<1> QED BY <1>1, <1>5, OneNotice, QuietNotice DEF SameNotices, Alerted

-----------------------------------------------------------------------------
(* What the chase and the clock leave of it *)

\* The chase and the clock move no record.
LEMMA NothingMoves ==
    ASSUME UNCHANGED vars, NEW r \in Records
    PROVE  /\ Kept(r) /\ Reopened(r)' = Reopened(r)
           /\ Phase(r)' = Phase(r) /\ Unmoved(r)
<1>1. Kept(r)
  BY StutterMoves
<1>2. CurrentSteps(r)' = CurrentSteps(r)
  BY DEF vars, CurrentSteps
<1> QED BY <1>1, <1>2 DEF vars, Reopened, Phase, Unmoved, Sender, Holders, Awaited

\* What the chase writes is so when it writes it, whenever it read its candidates.
LEMMA NudgedNotice ==
    ASSUME NoticeInv, NEW r \in Records, NEW o \in Offices, UNCHANGED vars,
           deadline'[r] = deadline[r], notices'[r] = Nudged(r, o)
    PROVE  NoticeOf(r)'
<1>1. /\ CustodyInv /\ notices[r] \in Slips /\ Alerted(r)
      /\ Honest(notices[r], Phase(r), deadline[r], Sender(r), Awaited(r), Holders(r))
  BY OneNotice DEF NoticeOf
<1>2. /\ notices'[r] \in Slips
      /\ Honest(notices'[r], Phase(r), deadline[r], Sender(r), Awaited(r), Holders(r))
      /\ \A p \in Offices : notices'[r]["ROUTED"][p] = notices[r]["ROUTED"][p]
  <2>1. CASE Completed(r) \/ AgedSteps(r, o) = {}
    <3>1. notices'[r] = Resolve(notices[r], {"UNRECEIVED"}, {o})
      BY <2>1 DEF Nudged
    <3> QED BY <1>1, <3>1, ResolvedIsHonest
  <2>2. CASE ~Completed(r) /\ AgedSteps(r, o) # {}
    <3>1. notices'[r] = Tell(notices[r], "UNRECEIVED", o, Owing(CurrentSteps(r)))
      BY <2>2 DEF Nudged
    <3>2. PICK s \in Outstanding(CurrentSteps(r)) : s.from = o
      BY <2>2 DEF AgedSteps
    <3>3. s \in CurrentSteps(r) /\ o \in Senders(CurrentSteps(r)) /\ s.to \in Awaited(r)
      BY <3>2 DEF Outstanding, Senders, Awaited, Addressees
    <3>4. Phase(r) = "moving"
      BY <1>1, <2>2, <3>3, Seen
    <3>5. /\ o = Sender(r) /\ Owing(CurrentSteps(r)) = Awaited(r)
          /\ Awaited(r) \in SUBSET Offices /\ Awaited(r) # {}
      BY <1>1, <3>3, <3>4, Seen
    <3> DEFINE n       == notices[r]
               due     == deadline[r]
               awaited == Awaited(r)
               holders == Holders(r)
               new     == Tell(n, "UNRECEIVED", o, awaited)
    <3>6. /\ n \in Slips /\ awaited \in SUBSET Offices /\ awaited # {}
          /\ Honest(n, "moving", due, o, awaited, holders)
      BY <1>1, <3>4, <3>5
    <3> HIDE DEF n, due, awaited, holders
    <3>7. /\ new \in Slips /\ Honest(new, "moving", due, o, awaited, holders)
          /\ \A p \in Offices : new["ROUTED"][p] = n["ROUTED"][p]
      BY <3>6, NudgeIsHonest
    <3> QED BY <3>1, <3>4, <3>5, <3>7 DEF n, due, awaited, holders
  <2> QED BY <2>1, <2>2
<1>3. /\ Phase(r)' = Phase(r) /\ Unmoved(r) /\ Reopened(r)' = Reopened(r)
  BY NothingMoves
<1>4. Awaited(r) \in SUBSET Offices
  BY <1>1, Seen
<1> QED BY <1>1, <1>2, <1>3, <1>4 DEF NoticeOf, Alerted, Unmoved

LEMMA LatedNotice ==
    ASSUME NoticeInv, NEW r \in Records, UNCHANGED vars,
           deadline'[r] = deadline[r], notices'[r] = Lated(r)
    PROVE  NoticeOf(r)'
<1>1. /\ CustodyInv /\ notices[r] \in Slips /\ Alerted(r)
      /\ Honest(notices[r], Phase(r), deadline[r], Sender(r), Awaited(r), Holders(r))
      /\ Phase(r) # "moving" => Silent(notices[r])
  BY OneNotice DEF NoticeOf
<1>2. /\ Awaited(r) \in SUBSET Offices /\ Holders(r) \in SUBSET Offices
      /\ LateTargets(r) = Awaited(r) \cup Holders(r)
      /\ Owing(CurrentSteps(r)) = Awaited(r)
      /\ Completed(r) <=> Phase(r) \in {"finished", "filed"}
      /\ CurrentSteps(r) # {} /\ ~Completed(r) => Phase(r) = "moving"
  BY <1>1, Seen DEF LateTargets
<1> DEFINE tidy   == IF Completed(r) THEN Resolve(notices[r], {"ROUTED"}, Offices) ELSE notices[r]
           others == Resolve(tidy, {"OVERDUE"}, Offices \ LateTargets(r))
<1>3. /\ tidy \in Slips
      /\ Honest(tidy, Phase(r), deadline[r], Sender(r), Awaited(r), Holders(r))
      /\ ~Completed(r) => tidy = notices[r]
  BY <1>1, ResolvedIsHonest
<1>4. Lated(r) = IF ~IsOverdue(r) THEN Resolve(tidy, {"OVERDUE"}, Offices)
                 ELSE [others EXCEPT !["OVERDUE"] = [o \in Offices |->
                        IF o \in LateTargets(r)
                        THEN Tell(others, "OVERDUE", o, {o} \cap Owing(CurrentSteps(r)))["OVERDUE"][o]
                        ELSE @[o]]]
  BY DEF Lated
<1> HIDE DEF tidy
<1>5. /\ notices'[r] \in Slips
      /\ Honest(notices'[r], Phase(r), deadline[r], Sender(r), Awaited(r), Holders(r))
      /\ ~Completed(r) =>
            \A o \in Offices : notices'[r]["ROUTED"][o] = notices[r]["ROUTED"][o]
  <2>1. CASE ~IsOverdue(r)
    <3>1. notices'[r] = Resolve(tidy, {"OVERDUE"}, Offices)
      BY <1>4, <2>1
    <3> QED BY <1>3, <3>1, ResolvedIsHonest
  <2>2. CASE IsOverdue(r) /\ Phase(r) = "moving"
    <3>1. deadline[r] = "passed" /\ ~Completed(r) /\ tidy = notices[r]
      BY <1>3, <2>2 DEF IsOverdue
    <3>2. Honest(tidy, "moving", "passed", Sender(r), Awaited(r), Holders(r))
      BY <1>3, <2>2, <3>1
    <3>3. notices'[r] = LateOn(tidy, LateTargets(r), Awaited(r))
      BY <1>2, <1>4, <2>2 DEF LateOn
    <3>4. /\ notices'[r] \in Slips
          /\ Honest(notices'[r], "moving", "passed", Sender(r), Awaited(r), Holders(r))
          /\ \A o \in Offices : notices'[r]["ROUTED"][o] = tidy["ROUTED"][o]
      <4> DEFINE sender  == Sender(r)
                 awaited == Awaited(r)
                 holders == Holders(r)
                 new     == notices'[r]
      <4>1. /\ awaited \in SUBSET Offices /\ holders \in SUBSET Offices
            /\ Honest(tidy, "moving", "passed", sender, awaited, holders)
            /\ new = LateOn(tidy, awaited \cup holders, awaited)
        BY <1>2, <3>2, <3>3
      <4> HIDE DEF sender, awaited, holders, new
      <4>2. /\ new \in Slips /\ Honest(new, "moving", "passed", sender, awaited, holders)
            /\ \A o \in Offices : new["ROUTED"][o] = tidy["ROUTED"][o]
        BY <1>3, <4>1, LateIsHonest
      <4> QED BY <4>2 DEF sender, awaited, holders, new
    <3> QED BY <2>2, <3>1, <3>4
  <2>3. CASE IsOverdue(r) /\ Phase(r) # "moving"
    <3>1. ~Completed(r) /\ CurrentSteps(r) = {}
      BY <1>2, <2>3 DEF IsOverdue
    <3>2. tidy = notices[r] /\ Silent(notices[r]) /\ LateTargets(r) = {}
      BY <1>1, <1>3, <2>3, <3>1 DEF LateTargets, Recipients
    <3> DEFINE row == [o \in Offices |-> others["OVERDUE"][o]]
    <3>3. others \in Slips /\ Silent(others)
      <4>1. others = Resolve(tidy, {"OVERDUE"}, Offices)
        BY <3>2
      <4> QED BY <1>1, <3>2, <4>1, Resolved DEF Silent
    <3>4. notices'[r] = [others EXCEPT !["OVERDUE"] = row]
      BY <1>4, <2>3, <3>2, <3>3 DEF Slips, Kinds
    <3>5. notices'[r] = others
      BY <3>3, <3>4 DEF Slips, Kinds
    <3>6. \A o \in Offices : notices'[r]["ROUTED"][o] = notices[r]["ROUTED"][o]
      BY <3>2, <3>3, <3>5 DEF Silent, Kinds
    <3> QED BY <3>3, <3>5, <3>6, SilentIsHonest
  <2> QED BY <2>1, <2>2, <2>3
<1>6. /\ Phase(r)' = Phase(r) /\ Unmoved(r) /\ Reopened(r)' = Reopened(r)
  BY NothingMoves
<1>7. Alerted(r)'
  <2>1. CASE Completed(r)
    BY <1>2, <1>6, <2>1 DEF Alerted
  <2>2. CASE ~Completed(r)
    BY <1>1, <1>2, <1>5, <1>6, <2>2 DEF Alerted, Unmoved
  <2> QED BY <2>1, <2>2
<1> QED BY <1>5, <1>6, <1>7 DEF NoticeOf, Unmoved

\* A deadline passes over notices that said nothing of it.
LEMMA AgedNotice ==
    ASSUME NoticeInv, NEW r \in Records, UNCHANGED vars, notices'[r] = notices[r],
           deadline'[r] = deadline[r] \/ deadline[r] # "passed"
    PROVE  NoticeOf(r)'
<1>1. /\ notices[r] \in Slips /\ Alerted(r)
      /\ Honest(notices[r], Phase(r), deadline[r], Sender(r), Awaited(r), Holders(r))
  BY OneNotice DEF NoticeOf
<1>2. Honest(notices[r], Phase(r), deadline'[r], Sender(r), Awaited(r), Holders(r))
  <2>1. CASE deadline'[r] = deadline[r]
    BY <1>1, <2>1
  <2>2. CASE deadline[r] # "passed"
    BY <1>1, <2>2 DEF Honest
  <2> QED BY <2>1, <2>2
<1>3. /\ Phase(r)' = Phase(r) /\ Unmoved(r) /\ Reopened(r)' = Reopened(r)
  BY NothingMoves
<1> QED BY <1>1, <1>2, <1>3 DEF NoticeOf, Alerted, Unmoved

-----------------------------------------------------------------------------
(* The theorems *)

\* The services with their notices take the steps of the services, and the chase
\* and the clock take none.
LEMMA NoticeStep ==
    ASSUME NoticeNext
    PROVE  [Next]_vars
<1>1. ASSUME NEW r \in {q \in Records : Room(q)}, NEW u \in Users,
             NEW action \in RoutingActions, NEW dest \in SUBSET Offices,
             NEW due \in {"none", "ahead"}, RouteAndNotify(u, r, action, dest, due)
      PROVE  [Next]_vars
  BY <1>1 DEF RouteAndNotify, Next
<1>2. ASSUME NEW r \in {q \in Records : Room(q)}, NEW u \in Users,
             ConfirmAndNotify(u, r) \/ CompleteAndNotify(u, r) \/ WithoutNotice(u, r)
      PROVE  [Next]_vars
  BY <1>2 DEF ConfirmAndNotify, CompleteAndNotify, WithoutNotice, Next
<1>3. ASSUME NEW rr \in SUBSET {q \in Records : Room(q)}, NEW u \in Users,
             BulkConfirmAndNotify(u, rr)
      PROVE  [Next]_vars
  BY <1>3 DEF BulkConfirmAndNotify, Next
<1>4. ASSUME Time \/ Job
      PROVE  UNCHANGED vars
  BY <1>4 DEF Time, Job, BatchAges, DeadlinePasses, ChaseStart, Nudge, ChaseLate, Late,
              ChaseEnd, ChaseKilled
<1> QED BY <1>1, <1>2, <1>3, <1>4 DEF NoticeNext, Services

\* A transaction on one record leaves the invariant of the others alone.
LEMMA OneRecordNotices ==
    ASSUME NoticeInv, CustodyInv', NEW r \in Records, NEW n, NEW due \in {"none", "ahead", "passed"},
           \A q \in Records \ {r} : Kept(q),
           SetNotices(r, n), deadline' = [deadline EXCEPT ![r] = due], NoticeOf(r)'
    PROVE  NoticeInv'
<1>1. /\ deadline \in [Records -> {"none", "ahead", "passed"}]
      /\ notices \in [Records -> Slips]
  BY DEF NoticeInv
<1>2. \A q \in Records \ {r} : SameNotices(q)
  BY <1>1 DEF SameNotices, SetNotices
<1>3. \A q \in Records : NoticeOf(q)'
  BY <1>2, KeptNotice
<1>4. notices' \in [Records -> Slips]
  BY <1>1, <1>3 DEF SetNotices, NoticeOf
<1>5. deadline' \in [Records -> {"none", "ahead", "passed"}]
  BY <1>1
<1> QED BY <1>3, <1>4, <1>5 DEF NoticeInv

LEMMA InitNoticeInv == NoticeInit => NoticeInv
<1> SUFFICES ASSUME NoticeInit
             PROVE  NoticeInv
  OBVIOUS
<1>1. CustodyInv
  BY InitCustodyInv DEF NoticeInit
<1>2. notices \in [Records -> Slips] /\ \A r \in Records : Silent(notices[r])
  <2>1. <<>> \in Slip
    BY DEF Slip
  <2> QED BY <2>1 DEF NoticeInit, Slips, Silent
<1>3. \A r \in Records : Phase(r) # "moving"
  <2>1. \A r \in Records : record[r].status = "ABSENT"
    BY DEF NoticeInit, Init, AbsentRow
  <2> QED BY <1>1, <2>1, Seen DEF ActiveStatuses
<1>4. \A r \in Records : NoticeOf(r)
  BY <1>2, <1>3, SilentIsHonest DEF NoticeOf, Alerted
<1> QED BY <1>1, <1>2, <1>4 DEF NoticeInit, NoticeInv

\* Every step of the services, of the clock and of every chase keeps the invariant.
LEMMA NextNoticeInv == NoticeInv /\ [NoticeNext]_<<vars, noticeVars>> => NoticeInv'
<1> SUFFICES ASSUME NoticeInv, [NoticeNext]_<<vars, noticeVars>>
             PROVE  NoticeInv'
  OBVIOUS
<1>1. /\ CustodyInv /\ IInv /\ CustodyInv'
      /\ deadline \in [Records -> {"none", "ahead", "passed"}]
      /\ notices \in [Records -> Slips]
  <2>1. [Next]_vars
    BY NoticeStep DEF vars
  <2> QED BY <2>1, NextCustodyInv DEF NoticeInv, CustodyInv
<1>2. \A r \in Records : deadline' = deadline => deadline' = [deadline EXCEPT ![r] = deadline[r]]
  BY <1>1
<1>3. \A r \in Records : notices' = notices => SetNotices(r, notices[r])
  BY <1>1 DEF SetNotices
<1>4. ASSUME NEW r \in Records, NEW n, SetNotices(r, n)
      PROVE  notices'[r] = n
  BY <1>1, <1>4 DEF SetNotices
<1>5. ASSUME NEW r \in Records, NEW u \in Users, NEW action \in RoutingActions,
             NEW dest \in SUBSET Offices, NEW due \in {"none", "ahead"},
             RouteAndNotify(u, r, action, dest, due)
      PROVE  NoticeInv'
  <2>1. /\ SetNotices(r, RoutedNotices(notices[r], dest))
        /\ deadline' = [deadline EXCEPT ![r] = due]
        /\ due \in {"none", "ahead", "passed"}
    BY <1>5 DEF RouteAndNotify
  <2>2. Routed(r, u, action, dest) /\ \A q \in Records \ {r} : Kept(q)
    BY <1>1, <1>5, ServiceMoves DEF RouteAndNotify
  <2>3. NoticeOf(r)'
    BY <1>4, <2>1, <2>2, RoutedNotice
  <2> QED BY <1>1, <2>1, <2>2, <2>3, OneRecordNotices
<1>6. ASSUME NEW r \in Records, NEW u \in Users, ConfirmAndNotify(u, r)
      PROVE  NoticeInv'
  <2>1. SetNotices(r, ReceiptNotices(u, r)) /\ deadline' = deadline
    BY <1>6 DEF ConfirmAndNotify
  <2>2. Receipted(r, u) /\ \A q \in Records \ {r} : Kept(q)
    BY <1>1, <1>6, ServiceMoves DEF ConfirmAndNotify
  <2>3. NoticeOf(r)'
    BY <1>4, <2>1, <2>2, ReceiptedNotice
  <2> QED BY <1>1, <1>2, <2>1, <2>2, <2>3, OneRecordNotices
<1>7. ASSUME NEW r \in Records, NEW u \in Users, CompleteAndNotify(u, r)
      PROVE  NoticeInv'
  <2>1. SetNotices(r, CompletionNotices(notices[r])) /\ deadline' = deadline
    BY <1>7 DEF CompleteAndNotify
  <2>2. CompletedBy(r, u) /\ \A q \in Records \ {r} : Kept(q)
    BY <1>1, <1>7, ServiceMoves DEF CompleteAndNotify
  <2>3. NoticeOf(r)'
    BY <1>4, <2>1, <2>2, CompletedNotice
  <2> QED BY <1>1, <1>2, <2>1, <2>2, <2>3, OneRecordNotices
<1>8. ASSUME NEW r \in Records, NEW u \in Users, WithoutNotice(u, r)
      PROVE  NoticeInv'
  <2>1. deadline' = deadline /\ notices' = notices /\ SameNotices(r)
    BY <1>8 DEF WithoutNotice, noticeVars, SameNotices
  <2>2. /\ \/ \E o \in Offices : Drafted(r, u, o)
           \/ Worked(r, u) \/ FiledBy(r, u) \/ ReopenedBy(r, u)
        /\ \A q \in Records \ {r} : Kept(q)
    BY <1>1, <1>8, ServiceMoves DEF WithoutNotice
  <2>3. NoticeOf(r)'
    BY <2>1, <2>2, DraftedNotice, WorkedNotice, FiledNotice, ReopenedNotice
  <2> QED BY <1>1, <1>2, <1>3, <2>1, <2>2, <2>3, OneRecordNotices
<1>9. ASSUME NEW rr \in SUBSET Records, NEW u \in Users, BulkConfirmAndNotify(u, rr)
      PROVE  NoticeInv'
  <2>1. /\ notices' = [r \in Records |->
                IF r \in rr THEN ReceiptNotices(u, r) ELSE notices[r]]
        /\ deadline' = deadline
    BY <1>9 DEF BulkConfirmAndNotify
  <2>2. \A q \in Records : IF q \in rr THEN Receipted(q, u) ELSE Kept(q)
    BY <1>1, <1>9, BulkMoves DEF BulkConfirmAndNotify
  <2>3. ASSUME NEW q \in Records
        PROVE  NoticeOf(q)'
    <3>1. CASE q \in rr
      BY <2>1, <2>2, <3>1, ReceiptedNotice
    <3>2. CASE q \notin rr
      BY <2>1, <2>2, <3>2, KeptNotice DEF SameNotices
    <3> QED BY <3>1, <3>2
  <2>4. notices' \in [Records -> Slips]
    BY <2>1, <2>3 DEF NoticeOf
  <2> QED BY <1>1, <2>1, <2>3, <2>4 DEF NoticeInv
<1>10. ASSUME UNCHANGED vars, NEW r \in Records, NEW n, SetNotices(r, n), deadline' = deadline,
              NoticeOf(r)'
       PROVE  NoticeInv'
  BY <1>1, <1>2, <1>10, NothingMoves, OneRecordNotices
<1>11. ASSUME UNCHANGED vars, NEW r \in Records, UNCHANGED notices,
              \/ deadline' = deadline
              \/ deadline[r] = "ahead" /\ deadline' = [deadline EXCEPT ![r] = "passed"]
       PROVE  NoticeInv'
  <2>1. NoticeOf(r)'
    BY <1>1, <1>11, AgedNotice
  <2> QED BY <1>1, <1>2, <1>3, <1>11, <2>1, NothingMoves, OneRecordNotices
<1>12. ASSUME UNCHANGED vars, UNCHANGED notices, UNCHANGED deadline
       PROVE  NoticeInv'
  BY <1>1, <1>12, AgedNotice DEF NoticeInv
<1>13. ASSUME Time
       PROVE  NoticeInv'
  BY <1>11, <1>13 DEF Time, BatchAges, DeadlinePasses
<1>14. ASSUME NEW w \in Workers, NEW r \in Records, NEW o \in Offices, Nudge(w, r, o)
       PROVE  NoticeInv'
  <2>1. UNCHANGED vars /\ deadline' = deadline /\ SetNotices(r, Nudged(r, o))
    BY <1>14 DEF Nudge
  <2>2. NoticeOf(r)'
    BY <1>4, <2>1, NudgedNotice
  <2> QED BY <1>10, <2>1, <2>2
<1>15. ASSUME NEW w \in Workers, NEW r \in Records, Late(w, r)
       PROVE  NoticeInv'
  <2>1. UNCHANGED vars /\ deadline' = deadline /\ SetNotices(r, Lated(r))
    BY <1>15 DEF Late
  <2>2. NoticeOf(r)'
    BY <1>4, <2>1, LatedNotice
  <2> QED BY <1>10, <2>1, <2>2
<1>16. ASSUME NEW w \in Workers,
              ChaseStart(w) \/ ChaseLate(w) \/ ChaseEnd(w) \/ ChaseKilled(w)
       PROVE  NoticeInv'
  BY <1>12, <1>16 DEF ChaseStart, ChaseLate, ChaseEnd, ChaseKilled
<1>17. CASE UNCHANGED <<vars, noticeVars>>
  BY <1>12, <1>17 DEF noticeVars
<1>18. CASE Services
  BY <1>5, <1>6, <1>7, <1>8, <1>9, <1>18 DEF Services
<1>19. CASE Job
  BY <1>14, <1>15, <1>16, <1>19 DEF Job
<1> QED BY <1>13, <1>17, <1>18, <1>19 DEF NoticeNext

\* What an open notice says is so, however many workers run the chase, whatever
\* it read before it took the record's lock, and wherever it is killed.
THEOREM NoticesAlwaysTrue == NoticeSpec => []NoticesAreTrue
BY InitNoticeInv, NextNoticeInv, NoticeInvImplies, PTL DEF NoticeSpec

\* An office is told once of each outstanding condition, and every office that
\* owes a receipt has been told.
THEOREM OfficesAlwaysTold == NoticeSpec => []OfficesAreTold
BY InitNoticeInv, NextNoticeInv, NoticeInvImplies, PTL DEF NoticeSpec

=============================================================================
