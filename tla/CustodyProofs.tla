---------------------------- MODULE CustodyProofs ----------------------------
(***************************************************************************)
(* The records of internal tracking, for all sets of records, offices and  *)
(* users: their rows are well typed and their cached status is their       *)
(* stage; what else is cached of the custody chain, what its history       *)
(* proves, the register of tracking numbers, and that Tracking implements  *)
(* Custody.                                                                *)
(*                                                                         *)
(* A step of the system moves each record by one service or leaves it      *)
(* alone, so every invariant below but the register's is a predicate of    *)
(* one record, and its proof has one case per move.  Sound is what every   *)
(* service keeps before the status is recalculated; the custody chain      *)
(* rests on it.                                                            *)
(***************************************************************************)
EXTENDS Tracking, TrackingCustody, TLAPS

-----------------------------------------------------------------------------
(* Types and the cached status *)

\* The current batch has a latest receipt as soon as it has a receipt.
HasLatest(current) ==
    Received(current) # {} =>
        \E s \in Received(current) :
            \A t \in Received(current) : t.receivedAt <= s.receivedAt

Sound(row, rs, log) ==
    /\ row \in Row
    /\ rs \in SUBSET Step
    /\ log \in Seq(Activity)
    /\ row.status \in {"ABSENT", "DRAFT"} <=> row.batch = 0
    /\ row.batch = 0 <=> row.number = 0
    /\ row.status # "ABSENT" => row.origin \in Offices /\ row.office \in Offices
    /\ \A s \in rs : s.receivedAt = 0 <=> s.receivedBy = NoUser
    /\ \A s \in rs : s.batch \in 1..row.batch /\ s.receivedAt <= Len(log)
    /\ row.batch # 0 => StepsOfBatch(rs, row.batch) # {}
    /\ HasLatest(StepsOfBatch(rs, row.batch))

Cached(row, rs, log) ==
    row.status = StageOf(row.status, StepsOfBatch(rs, row.batch), log)

IInv ==
    /\ record \in [Records -> Row]
    /\ steps \in [Records -> SUBSET Step]
    /\ timeline \in [Records -> Seq(Activity)]
    /\ lastNumber \in [Offices -> Nat]
    /\ filed \in SUBSET Records
    /\ \A r \in Records :
        /\ Sound(record[r], steps[r], timeline[r])
        /\ Cached(record[r], steps[r], timeline[r])

-----------------------------------------------------------------------------
(* Recalculation *)

\* recalculate_status keeps a sound record sound and makes its status its stage.
LEMMA RecalculatedIsCached ==
    ASSUME NEW row, NEW rs, NEW log, Sound(row, rs, log)
    PROVE  /\ Sound(Recalculated(row, rs, log), rs, log)
           /\ Cached(Recalculated(row, rs, log), rs, log)
<1> DEFINE current  == StepsOfBatch(rs, row.batch)
           received == Received(current)
           latest   == LatestReceipt(received)
           new      == Recalculated(row, rs, log)
<1>1. CASE row.status \notin ActiveStatuses
  <2>1. new = row
    BY <1>1 DEF Recalculated
  <2> QED BY <2>1, <1>1 DEF Cached, StageOf
<1>2. CASE row.status \in ActiveStatuses
  <2>1. row.batch # 0 /\ current # {} /\ current \subseteq Step
    BY <1>2 DEF Sound, ActiveStatuses, StepsOfBatch
  <2>2. CASE received = {}
    <3>1. new = [row EXCEPT !.status = "PENDING_RECEIPT",
                            !.office = BatchSender(current), !.holder = NoUser]
      BY <1>2, <2>1, <2>2 DEF Recalculated
    <3>2. BatchSender(current) \in Offices
      BY <2>1 DEF BatchSender, Step
    <3>3. Outstanding(current) # {}
      BY <2>1, <2>2 DEF Outstanding, Received
    <3>4. /\ new \in Row /\ new.status = "PENDING_RECEIPT"
          /\ new.batch = row.batch /\ new.number = row.number
          /\ new.origin = row.origin /\ new.office \in Offices
      BY <3>1, <3>2 DEF Sound, Row, Statuses, ActiveStatuses
    <3>5. Sound(new, rs, log)
      BY <1>2, <2>1, <3>4 DEF Sound, ActiveStatuses
    <3>6. Cached(new, rs, log)
      BY <3>3, <3>4 DEF Cached, StageOf, ActiveStatuses
    <3> QED BY <3>5, <3>6
  <2>3. CASE received # {}
    <3> DEFINE status == IF received # current THEN "PENDING_RECEIPT"
                         ELSE IF \E s \in received : WorkedOn(s, log)
                         THEN "IN_PROCESS" ELSE "RECEIVED"
    <3>1. new = [row EXCEPT !.status = status, !.office = latest.to,
                            !.holder = latest.receivedBy]
      BY <1>2, <2>1, <2>3 DEF Recalculated
    <3>2. latest \in received /\ latest \in Step
      BY <2>1, <2>3 DEF Sound, HasLatest, LatestReceipt, Received
    <3>3. status \in ActiveStatuses
      BY DEF ActiveStatuses
    <3>4. latest.to \in Offices /\ latest.receivedBy \in Users \cup {NoUser}
      BY <3>2 DEF Step
    <3> HIDE DEF status, latest
    <3>5. /\ new \in Row /\ new.status = status
          /\ new.batch = row.batch /\ new.number = row.number
          /\ new.origin = row.origin /\ new.office \in Offices
      BY <3>1, <3>3, <3>4 DEF Sound, Row, Statuses
    <3>6. Sound(new, rs, log)
      BY <1>2, <2>1, <3>3, <3>5 DEF Sound, ActiveStatuses
    <3>7. received # current <=> Outstanding(current) # {}
      BY DEF Outstanding, Received
    <3>8. status = StageOf(status, current, log)
      BY <2>3, <3>3, <3>7 DEF status, StageOf
    <3>9. Cached(new, rs, log)
      BY <3>5, <3>8 DEF Cached
    <3> QED BY <3>6, <3>9
  <2> QED BY <2>2, <2>3
<1> QED BY <1>1, <1>2

-----------------------------------------------------------------------------
(* Timeline entries *)

\* add_activity writes a well-typed timeline entry.
LEMMA EntryType ==
    ASSUME NEW event \in Events, NEW b \in Nat, NEW u \in Users,
           NEW work \in Offices \cup {NoOffice}
    PROVE  /\ Entry(event, b, u, work) \in Activity
           /\ Entry(event, b, u, work).event = event
BY TrackingAssumption DEF Entry, Activity

\* An entry that is not work changes no step's work.
LEMMA WorkedOnAppend ==
    ASSUME NEW log \in Seq(Activity), NEW e \in Activity, e.event # "WORK",
           NEW s \in Step
    PROVE  WorkedOn(s, Append(log, e)) <=> WorkedOn(s, log)
<1>1. /\ Len(Append(log, e)) = Len(log) + 1
      /\ Append(log, e)[Len(log) + 1] = e
      /\ \A i \in 1..Len(log) : Append(log, e)[i] = log[i]
      /\ Len(log) \in Nat
  OBVIOUS
<1>2. \A i \in 1..Len(Append(log, e)) : i \in 1..Len(log) \/ i = Len(log) + 1
  BY <1>1
<1>3. \A i \in 1..Len(log) : i \in 1..Len(Append(log, e))
  BY <1>1
<1> QED BY <1>1, <1>2, <1>3 DEF WorkedOn

\* A new timeline entry leaves the row and the steps of its record sound.
LEMMA AppendSound ==
    ASSUME NEW row, NEW rs, NEW log, Sound(row, rs, log), NEW e \in Activity
    PROVE  Sound(row, rs, Append(log, e))
<1>1. log \in Seq(Activity)
  BY DEF Sound
<1>2. Append(log, e) \in Seq(Activity) /\ Len(Append(log, e)) = Len(log) + 1
      /\ Len(log) \in Nat
  BY <1>1
<1>3. \A s \in rs : s.receivedAt \in Nat
  BY DEF Sound, Step
<1>4. \A s \in rs : s.receivedAt <= Len(Append(log, e))
  BY <1>2, <1>3 DEF Sound
<1> QED BY <1>2, <1>4 DEF Sound

\* An entry that is not work leaves the status of its record its stage.
LEMMA AppendCached ==
    ASSUME NEW row, NEW rs, NEW log, Sound(row, rs, log), Cached(row, rs, log),
           NEW e \in Activity, e.event # "WORK"
    PROVE  Cached(row, rs, Append(log, e))
<1>1. log \in Seq(Activity) /\ rs \subseteq Step
  BY DEF Sound
<1>2. \A s \in StepsOfBatch(rs, row.batch) :
          WorkedOn(s, Append(log, e)) <=> WorkedOn(s, log)
  BY <1>1, WorkedOnAppend DEF StepsOfBatch
<1>3. (\E s \in Received(StepsOfBatch(rs, row.batch)) : WorkedOn(s, Append(log, e)))
      <=> (\E s \in Received(StepsOfBatch(rs, row.batch)) : WorkedOn(s, log))
  BY <1>2 DEF Received
<1> QED BY <1>3 DEF Cached, StageOf

\* A row that is not in circulation is its own stage.
LEMMA InactiveCached ==
    ASSUME NEW row, NEW rs, NEW log, row.status \notin ActiveStatuses
    PROVE  Cached(row, rs, log)
BY DEF Cached, StageOf

-----------------------------------------------------------------------------
(* What each service leaves in the record it works on *)

\* The highest batch number of the steps is the batch the row is in, so a new
\* routing always takes a batch nobody has used.
LEMMA LastBatchIsCurrent ==
    ASSUME NEW row, NEW rs, NEW log, Sound(row, rs, log)
    PROVE  LastBatch(rs) = row.batch
<1>1. row.batch \in Nat /\ \A s \in rs : s.batch \in 1..row.batch /\ s.batch \in Nat
  BY DEF Sound, Row, Step
<1>2. CASE rs = {}
  BY <1>1, <1>2 DEF LastBatch, Sound, StepsOfBatch
<1>3. CASE rs # {}
  <2>1. row.batch # 0
    BY <1>1, <1>3
  <2>2. PICK s \in rs : s.batch = row.batch
    BY <2>1 DEF Sound, StepsOfBatch
  <2>3. \A t \in rs : t.batch <= s.batch
    BY <1>1, <2>2
  <2> DEFINE last == CHOOSE q \in rs : \A t \in rs : t.batch <= q.batch
  <2>4. last \in rs /\ \A t \in rs : t.batch <= last.batch
    BY <2>3
  <2>5. last.batch = row.batch
    BY <1>1, <2>2, <2>4
  <2> QED BY <1>3, <2>5 DEF LastBatch
<1> QED BY <1>2, <1>3

\* A new draft is sound, with no step and no number.
LEMMA CreatedSound ==
    ASSUME NEW u \in Users, NEW o \in Offices, NEW log \in Seq(Activity)
    PROVE  LET row == [AbsentRow EXCEPT !.status = "DRAFT", !.origin = o,
                            !.creator = u, !.office = o, !.holder = u]
           IN  Sound(row, {}, log) /\ Cached(row, {}, log)
<1> DEFINE row == [AbsentRow EXCEPT !.status = "DRAFT", !.origin = o,
                        !.creator = u, !.office = o, !.holder = u]
<1>1. /\ row \in Row /\ row.status = "DRAFT" /\ row.batch = 0 /\ row.number = 0
      /\ row.origin = o /\ row.office = o
  BY DEF AbsentRow, Row, Statuses
<1>2. Sound(row, {}, log)
  BY <1>1 DEF Sound, HasLatest, Received, StepsOfBatch
<1>3. Cached(row, {}, log)
  BY <1>1, InactiveCached DEF ActiveStatuses
<1> QED BY <1>2, <1>3

\* A new batch, none of whose steps is received.
LEMMA RoutedSound ==
    ASSUME NEW row, NEW rs, NEW log, Sound(row, rs, log),
           row.status \notin CompletedStatuses \cup {"ABSENT"},
           NEW from \in Offices, NEW dest \in SUBSET Offices, dest # {},
           NEW n \in Nat, n # 0,
           NEW b, b = LastBatch(rs) + 1
    PROVE  Sound(RoutedRow(row, b, n), rs \cup NewSteps(b, from, dest), log)
<1> DEFINE new == RoutedRow(row, b, n)
           added == NewSteps(b, from, dest)
<1>1. row.batch \in Nat /\ b = row.batch + 1 /\ b \in Nat
  <2>1. LastBatch(rs) = row.batch
    BY LastBatchIsCurrent
  <2>2. row.batch \in Nat
    BY DEF Sound, Row
  <2> QED BY <2>1, <2>2
<1>2. row \in Row /\ (row.status = "DRAFT" \/ row.number # 0)
  BY DEF Sound
<1>3. /\ new \in Row /\ new.batch = b /\ new.number # 0
      /\ new.status \notin {"ABSENT", "DRAFT"}
      /\ new.origin = row.origin /\ new.office = row.office
  <2>1. CASE row.status = "DRAFT"
    <3>1. new = [row EXCEPT !.batch = b, !.status = "PENDING_RECEIPT", !.number = n]
      BY <2>1 DEF RoutedRow
    <3> HIDE DEF new
    <3>2. "PENDING_RECEIPT" \in Statuses
      BY DEF Statuses, ActiveStatuses
    <3> QED BY <1>1, <1>2, <3>1, <3>2 DEF Row
  <2>2. CASE row.status # "DRAFT"
    <3>1. new = [row EXCEPT !.batch = b]
      BY <2>2 DEF RoutedRow
    <3> HIDE DEF new
    <3>2. row.status \notin {"ABSENT", "DRAFT"} /\ row.number # 0
      BY <1>2, <2>2
    <3> QED BY <1>1, <1>2, <3>1, <3>2 DEF Row
  <2> QED BY <2>1, <2>2
<1>4. /\ added \subseteq Step /\ added # {}
      /\ \A s \in added : s.batch = b /\ s.receivedAt = 0 /\ s.receivedBy = NoUser
  <2>1. \A s \in added : /\ s \in Step
                         /\ s.batch = b /\ s.receivedAt = 0 /\ s.receivedBy = NoUser
    BY <1>1 DEF NewSteps, Step
  <2>2. PICK d \in dest : TRUE
    OBVIOUS
  <2>3. [batch |-> b, from |-> from, to |-> d, receivedBy |-> NoUser,
         receivedAt |-> 0] \in added
    BY DEF NewSteps
  <2> QED BY <2>1, <2>3
<1> HIDE DEF new, added
<1>5. \A s \in rs : s.batch \in 1..row.batch /\ s.batch \in Nat /\ s.receivedAt <= Len(log)
  BY DEF Sound, Step
<1>6. StepsOfBatch(rs \cup added, b) = added
  BY <1>1, <1>4, <1>5 DEF StepsOfBatch
<1>7. HasLatest(added)
  BY <1>4 DEF HasLatest, Received
<1>8. log \in Seq(Activity) /\ Len(log) \in Nat
  BY DEF Sound
<1>9. \A s \in rs \cup added : s.batch \in 1..b /\ s.receivedAt <= Len(log)
  BY <1>1, <1>4, <1>5, <1>8 DEF Sound
<1>10. \A s \in rs \cup added : s.receivedAt = 0 <=> s.receivedBy = NoUser
  BY <1>4 DEF Sound
<1>11. rs \cup added \in SUBSET Step
  BY <1>4 DEF Sound
<1>12. new.origin \in Offices /\ new.office \in Offices
  BY <1>3 DEF Sound
<1>13. Sound(new, rs \cup added, log)
  BY <1>1, <1>3, <1>4, <1>6, <1>7, <1>8, <1>9, <1>10, <1>11, <1>12 DEF Sound
<1> QED BY <1>13 DEF new, added

\* One outstanding step of the current batch takes its receipt, the latest.
LEMMA ReceivedSound ==
    ASSUME NEW row, NEW rs, NEW log, Sound(row, rs, log),
           NEW s \in StepsOfBatch(rs, row.batch), NEW u \in Users,
           NEW e \in Activity
    PROVE  Sound(row,
                 (rs \ {s}) \cup {WithReceipt(s, u, Len(log) + 1)},
                 Append(log, e))
<1> DEFINE got == WithReceipt(s, u, Len(log) + 1)
           new == (rs \ {s}) \cup {got}
           later == Append(log, e)
<1>1. /\ log \in Seq(Activity) /\ Len(log) \in Nat
      /\ later \in Seq(Activity) /\ Len(later) = Len(log) + 1
  BY DEF Sound
<1>2. s \in Step /\ s \in rs /\ s.batch = row.batch /\ s.batch \in 1..row.batch
  BY DEF Sound, StepsOfBatch
<1>3. /\ got \in Step /\ got.batch = row.batch
      /\ got.receivedAt = Len(log) + 1 /\ got.receivedBy = u
  <2> DEFINE at == Len(log) + 1
  <2>1. at \in Nat
    BY <1>1
  <2> HIDE DEF at
  <2>2. /\ WithReceipt(s, u, at) \in Step
        /\ WithReceipt(s, u, at).batch = s.batch
        /\ WithReceipt(s, u, at).receivedAt = at
        /\ WithReceipt(s, u, at).receivedBy = u
    BY <1>2, <2>1 DEF Step, WithReceipt
  <2> QED BY <1>2, <2>2 DEF at
<1> HIDE DEF got
<1>4. new \in SUBSET Step
  BY <1>3 DEF Sound
<1>5. \A t \in new : t.receivedAt \in Nat /\ t.receivedAt <= Len(later)
  BY <1>1, <1>3, <1>4 DEF Sound, Step
<1>6. \A t \in new : t.batch \in 1..row.batch
  BY <1>2, <1>3 DEF Sound
<1>7. \A t \in new : t.receivedAt = 0 <=> t.receivedBy = NoUser
  BY <1>1, <1>3, TrackingAssumption DEF Sound
<1>8. got \in StepsOfBatch(new, row.batch)
  BY <1>3 DEF StepsOfBatch
<1>9. HasLatest(StepsOfBatch(new, row.batch))
  <2>1. got \in Received(StepsOfBatch(new, row.batch))
    BY <1>1, <1>3, <1>8 DEF Received
  <2>2. \A t \in Received(StepsOfBatch(new, row.batch)) : t.receivedAt <= got.receivedAt
    BY <1>1, <1>3, <1>5 DEF Received, StepsOfBatch
  <2> QED BY <2>1, <2>2 DEF HasLatest
<1> HIDE DEF new, later
<1>10. Sound(row, new, later)
  BY <1>1, <1>4, <1>5, <1>6, <1>7, <1>8, <1>9 DEF Sound
<1> QED BY <1>10 DEF got, new, later

-----------------------------------------------------------------------------
(* Every action keeps the invariant *)

\* A transaction on one record keeps the invariant when it leaves that record
\* sound and its status its stage.
LEMMA CommitKeeps ==
    ASSUME IInv, NEW r \in Records, NEW row, NEW rs, NEW log,
           Sound(row, rs, log), Cached(row, rs, log), Commit(r, row, rs, log),
           lastNumber' \in [Offices -> Nat], filed' \in SUBSET Records
    PROVE  IInv'
<1>1. row \in Row /\ rs \in SUBSET Step /\ log \in Seq(Activity)
  BY DEF Sound
<1>2. /\ record' = [record EXCEPT ![r] = row]
      /\ steps' = [steps EXCEPT ![r] = rs]
      /\ timeline' = [timeline EXCEPT ![r] = log]
  BY DEF Commit
<1>3. /\ record \in [Records -> Row] /\ steps \in [Records -> SUBSET Step]
      /\ timeline \in [Records -> Seq(Activity)]
  BY DEF IInv
<1>4. /\ record' \in [Records -> Row] /\ steps' \in [Records -> SUBSET Step]
      /\ timeline' \in [Records -> Seq(Activity)]
  BY <1>1, <1>2, <1>3
<1>5. ASSUME NEW q \in Records
      PROVE  Sound(record'[q], steps'[q], timeline'[q])
             /\ Cached(record'[q], steps'[q], timeline'[q])
  <2>1. CASE q = r
    BY <1>2, <1>3, <2>1
  <2>2. CASE q # r
    <3>1. record'[q] = record[q] /\ steps'[q] = steps[q] /\ timeline'[q] = timeline[q]
      BY <1>2, <1>3, <2>2
    <3> QED BY <3>1 DEF IInv
  <2> QED BY <2>1, <2>2
<1> QED BY <1>4, <1>5 DEF IInv

\* What the invariant says of one record.
LEMMA RecordSound ==
    ASSUME IInv, NEW r \in Records
    PROVE  /\ Sound(record[r], steps[r], timeline[r])
           /\ Cached(record[r], steps[r], timeline[r])
           /\ record[r] \in Row
           /\ record[r].batch \in Nat
           /\ timeline[r] \in Seq(Activity)
           /\ record[r].office \in Offices \cup {NoOffice}
           /\ record[r].status # "ABSENT" => record[r].origin \in Offices
           /\ lastNumber \in [Offices -> Nat]
           /\ filed \in SUBSET Records
BY DEF IInv, Sound, Row

\* The offices the services read off an actor or a record are offices or NULL.
LEMMA OfficeTypes ==
    ASSUME IInv, NEW r \in Records, NEW u \in Users
    PROVE  /\ SendingOffice(u, r) \in Offices \cup {NoOffice}
           /\ WorkOffice(u, r) \in Offices \cup {NoOffice}
<1>1. /\ OfficeOf[u] \in Offices \cup {NoOffice}
      /\ record[r].office \in Offices \cup {NoOffice}
  BY RecordSound, TrackingAssumption
<1>2. SendingOffice(u, r) \in {OfficeOf[u], record[r].office}
  BY DEF SendingOffice
<1>3. WorkOffice(u, r) \in {OfficeOf[u], record[r].office, NoOffice}
  BY DEF WorkOffice
<1> QED BY <1>1, <1>2, <1>3

\* create_draft_record keeps the invariant.
LEMMA CreateDraftKeeps ==
    ASSUME IInv, NEW r \in Records, NEW u \in Users, NEW o \in Offices,
           CreateDraft(u, r, o)
    PROVE  IInv'
<1> DEFINE row == [AbsentRow EXCEPT !.status = "DRAFT", !.origin = o,
                        !.creator = u, !.office = o, !.holder = u]
           log == Logged(r, Entry("CREATED", 0, u, NoOffice))
<1>1. Entry("CREATED", 0, u, NoOffice) \in Activity
  BY EntryType DEF Events
<1>2. log \in Seq(Activity)
  BY <1>1, RecordSound DEF Logged
<1>3. Sound(row, {}, log) /\ Cached(row, {}, log)
  BY <1>2, CreatedSound
<1>4. Commit(r, row, {}, log) /\ UNCHANGED <<lastNumber, filed>>
  BY DEF CreateDraft
<1>5. lastNumber' \in [Offices -> Nat] /\ filed' \in SUBSET Records
  BY <1>4, RecordSound
<1> HIDE DEF row, log
<1> QED BY <1>3, <1>4, <1>5, CommitKeeps

\* A routing leaves a sound record behind, before its status is recalculated.
LEMMA RouteSound ==
    ASSUME IInv, NEW r \in Records, NEW u \in Users,
           record[r].status \notin CompletedStatuses \cup {"ABSENT"},
           NEW from \in Offices, NEW dest \in SUBSET Offices, dest # {}
    PROVE  LET b   == LastBatch(steps[r]) + 1
               n   == Issued(record[r].origin)
               e   == Entry("ROUTED", b, u, NoOffice)
               row == RoutedRow(record[r], b, n)
               rs  == steps[r] \cup NewSteps(b, from, dest)
           IN  /\ b \in Nat /\ n \in Nat /\ n # 0 /\ e \in Activity
               /\ Sound(row, rs, Append(timeline[r], e))
<1> DEFINE b   == LastBatch(steps[r]) + 1
           rs  == steps[r] \cup NewSteps(b, from, dest)
           e   == Entry("ROUTED", b, u, NoOffice)
           n   == Issued(record[r].origin)
<1>1. record[r].origin \in Offices
  BY RecordSound
<1>2. n \in Nat /\ n # 0
  BY <1>1, RecordSound DEF Issued
<1>3. b \in Nat
  BY RecordSound, LastBatchIsCurrent
<1>4. e \in Activity
  BY <1>3, EntryType DEF Events
<1>5. Sound(record[r], steps[r], Append(timeline[r], e))
  BY <1>4, RecordSound, AppendSound
<1> HIDE DEF n, e
<1>6. Sound(RoutedRow(record[r], b, n), rs, Append(timeline[r], e))
  BY <1>2, <1>5, RoutedSound
<1> QED BY <1>2, <1>3, <1>4, <1>6 DEF n, e

\* route_record keeps the invariant, for a send, a forward and a return.
LEMMA RouteKeeps ==
    ASSUME IInv, NEW r \in Records, NEW u \in Users, NEW action \in RoutingActions,
           NEW dest \in SUBSET Offices, Route(u, r, action, dest)
    PROVE  IInv'
<1> DEFINE from == IF action = "SEND" THEN record[r].origin ELSE SendingOffice(u, r)
           b    == LastBatch(steps[r]) + 1
           rs   == steps[r] \cup NewSteps(b, from, dest)
           log  == Logged(r, Entry("ROUTED", b, u, NoOffice))
           n    == Issued(record[r].origin)
           row  == RoutedRow(record[r], b, n)
           new  == Recalculated(row, rs, log)
<1>1. /\ record[r].status \notin CompletedStatuses \cup {"ABSENT"}
      /\ from # NoOffice /\ dest # {}
      /\ Commit(r, new, rs, log)
      /\ lastNumber' = IF record[r].status = "DRAFT"
                       THEN [lastNumber EXCEPT ![record[r].origin] = n] ELSE lastNumber
      /\ filed' = filed
  BY DEF Route, CanAct
<1>2. from \in Offices
  BY <1>1, RecordSound, OfficeTypes
<1> HIDE DEF from
<1>3. n \in Nat /\ Sound(row, rs, log)
  BY <1>1, <1>2, RouteSound DEF Logged
<1>4. lastNumber' \in [Offices -> Nat] /\ filed' \in SUBSET Records
  BY <1>1, <1>3, RecordSound
<1> HIDE DEF row, rs, b, log, n
<1>5. Sound(new, rs, log) /\ Cached(new, rs, log)
  BY <1>3, RecalculatedIsCached
<1> HIDE DEF new
<1> QED BY <1>1, <1>4, <1>5, CommitKeeps

\* The step a receipt goes to: an outstanding one of the current batch.
ReceivedStep(u, r) == CHOOSE p \in PendingSteps(u, r) : TRUE

\* What confirm_receipt leaves of a record before its status is recalculated.
LEMMA ReceiptSound ==
    ASSUME IInv, NEW r \in Records, NEW u \in Users, CanConfirm(u, r)
    PROVE  LET s == ReceivedStep(u, r)
               e == Entry("RECEIVED", record[r].batch, u, NoOffice)
           IN  /\ s \in PendingSteps(u, r)
               /\ s \in StepsOfBatch(steps[r], record[r].batch)
               /\ e \in Activity
               /\ ReceiptLog(u, r) = Append(timeline[r], e)
               /\ ReceiptSteps(u, r) =
                      (steps[r] \ {s}) \cup {WithReceipt(s, u, Len(timeline[r]) + 1)}
               /\ Sound(record[r], ReceiptSteps(u, r), ReceiptLog(u, r))
<1> DEFINE s == ReceivedStep(u, r)
           e == Entry("RECEIVED", record[r].batch, u, NoOffice)
<1>1. s \in PendingSteps(u, r)
  BY DEF CanConfirm, ReceivedStep
<1>2. s \in StepsOfBatch(steps[r], record[r].batch)
  BY <1>1 DEF PendingSteps, Outstanding, CurrentSteps
<1>3. e \in Activity
  BY RecordSound, EntryType DEF Events
<1>4. ReceiptLog(u, r) = Append(timeline[r], e)
  BY DEF ReceiptLog, Logged
<1>5. ReceiptSteps(u, r) =
          (steps[r] \ {s}) \cup {WithReceipt(s, u, Len(timeline[r]) + 1)}
  BY DEF ReceiptSteps, ReceivedStep
<1> HIDE DEF s, e
<1>6. Sound(record[r], steps[r], timeline[r])
  BY RecordSound
<1>7. Sound(record[r],
            (steps[r] \ {s}) \cup {WithReceipt(s, u, Len(timeline[r]) + 1)},
            Append(timeline[r], e))
  BY <1>2, <1>3, <1>6, ReceivedSound
<1>8. Sound(record[r], ReceiptSteps(u, r), ReceiptLog(u, r))
  BY <1>4, <1>5, <1>7
<1> QED BY <1>1, <1>2, <1>3, <1>4, <1>5, <1>8 DEF s, e

\* A receipt leaves its record sound and its status its stage.
LEMMA ReceiptKeepsRecord ==
    ASSUME IInv, NEW r \in Records, NEW u \in Users, CanConfirm(u, r)
    PROVE  /\ Sound(ReceiptRow(u, r), ReceiptSteps(u, r), ReceiptLog(u, r))
           /\ Cached(ReceiptRow(u, r), ReceiptSteps(u, r), ReceiptLog(u, r))
<1>1. Sound(record[r], ReceiptSteps(u, r), ReceiptLog(u, r))
  BY ReceiptSound
<1> QED BY <1>1, RecalculatedIsCached DEF ReceiptRow

\* confirm_receipt keeps the invariant.
LEMMA ConfirmReceiptKeeps ==
    ASSUME IInv, NEW r \in Records, NEW u \in Users, ConfirmReceipt(u, r)
    PROVE  IInv'
<1>1. /\ CanConfirm(u, r)
      /\ Commit(r, ReceiptRow(u, r), ReceiptSteps(u, r), ReceiptLog(u, r))
      /\ lastNumber' \in [Offices -> Nat] /\ filed' \in SUBSET Records
  BY RecordSound DEF ConfirmReceipt
<1> QED BY <1>1, ReceiptKeepsRecord, CommitKeeps

\* bulk_confirm_receipts keeps the invariant of every selected record at once.
LEMMA BulkConfirmReceiptsKeeps ==
    ASSUME IInv, NEW rr \in SUBSET Records, NEW u \in Users, BulkConfirmReceipts(u, rr)
    PROVE  IInv'
<1>1. /\ \A r \in rr : CanConfirm(u, r)
      /\ record' = [r \in Records |-> IF r \in rr THEN ReceiptRow(u, r) ELSE record[r]]
      /\ steps' = [r \in Records |-> IF r \in rr THEN ReceiptSteps(u, r) ELSE steps[r]]
      /\ timeline' = [r \in Records |-> IF r \in rr THEN ReceiptLog(u, r) ELSE timeline[r]]
      /\ lastNumber' = lastNumber /\ filed' = filed
  BY DEF BulkConfirmReceipts
<1>2. ASSUME NEW r \in Records
      PROVE  Sound(record'[r], steps'[r], timeline'[r])
             /\ Cached(record'[r], steps'[r], timeline'[r])
  <2>1. CASE r \in rr
    <3>1. /\ record'[r] = ReceiptRow(u, r) /\ steps'[r] = ReceiptSteps(u, r)
          /\ timeline'[r] = ReceiptLog(u, r) /\ CanConfirm(u, r)
      BY <1>1, <2>1
    <3> QED BY <3>1, ReceiptKeepsRecord
  <2>2. CASE r \notin rr
    <3>1. record'[r] = record[r] /\ steps'[r] = steps[r] /\ timeline'[r] = timeline[r]
      BY <1>1, <2>2
    <3> QED BY <3>1, RecordSound
  <2> QED BY <2>1, <2>2
<1>3. \A r \in Records : record'[r] \in Row /\ steps'[r] \in SUBSET Step
                         /\ timeline'[r] \in Seq(Activity)
  BY <1>2 DEF Sound
<1>4. /\ record' \in [Records -> Row] /\ steps' \in [Records -> SUBSET Step]
      /\ timeline' \in [Records -> Seq(Activity)]
  BY <1>1, <1>3
<1>5. lastNumber' \in [Offices -> Nat] /\ filed' \in SUBSET Records
  BY <1>1 DEF IInv
<1> QED BY <1>2, <1>4, <1>5 DEF IInv

\* Remarks, attachments, uploaded versions and the confirmed start of work.
LEMMA LogWorkKeeps ==
    ASSUME IInv, NEW r \in Records, NEW u \in Users, LogWork(u, r)
    PROVE  IInv'
<1> DEFINE e   == Entry("WORK", record[r].batch, u, WorkOffice(u, r))
           log == Logged(r, e)
           new == Recalculated(record[r], steps[r], log)
<1>1. e \in Activity
  BY RecordSound, OfficeTypes, EntryType DEF Events
<1>2. Sound(record[r], steps[r], log)
  BY <1>1, RecordSound, AppendSound DEF Logged
<1>3. Sound(new, steps[r], log) /\ Cached(new, steps[r], log)
  BY <1>2, RecalculatedIsCached
<1>4. /\ Commit(r, new, steps[r], log)
      /\ lastNumber' \in [Offices -> Nat] /\ filed' \in SUBSET Records
  BY RecordSound DEF LogWork
<1> HIDE DEF new, log
<1> QED BY <1>3, <1>4, CommitKeeps

\* A row that changes only in its status, its finisher and its archive mark.
FinishedRow(row, status, by, archived) ==
    [row EXCEPT !.status = status, !.completedBy = by, !.archived = archived]

\* Completing, filing and reopening a sent record keep it sound.
LEMMA FinishedSound ==
    ASSUME NEW row, NEW rs, NEW log, Sound(row, rs, log), row.batch # 0,
           NEW status \in Statuses \ {"ABSENT", "DRAFT"},
           NEW by \in Users \cup {NoUser}, NEW archived \in BOOLEAN
    PROVE  /\ Sound(FinishedRow(row, status, by, archived), rs, log)
           /\ FinishedRow(row, status, by, archived).status = status
<1> DEFINE new == FinishedRow(row, status, by, archived)
<1>1. /\ new \in Row /\ new.status = status
      /\ new.batch = row.batch /\ new.number = row.number
      /\ new.origin = row.origin /\ new.office = row.office
  BY DEF Sound, Row, FinishedRow
<1> HIDE DEF new
<1>2. Sound(new, rs, log)
  <2>1. row.status # "ABSENT"
    BY DEF Sound
  <2> QED BY <1>1, <2>1 DEF Sound
<1> QED BY <1>1, <1>2 DEF new

\* complete_record keeps the invariant.
LEMMA CompleteKeeps ==
    ASSUME IInv, NEW r \in Records, NEW u \in Users, Complete(u, r)
    PROVE  IInv'
<1> DEFINE new == [record[r] EXCEPT !.status = "COMPLETED_PENDING_UPLOAD", !.completedBy = u]
           row == FinishedRow(record[r], "COMPLETED_PENDING_UPLOAD", u, record[r].archived)
           log == Logged(r, Entry("COMPLETED", record[r].batch, u, NoOffice))
<1>1. /\ record[r].status \in ActiveStatuses
      /\ Commit(r, new, steps[r], log)
      /\ lastNumber' \in [Offices -> Nat] /\ filed' \in SUBSET Records
  BY RecordSound DEF Complete, CanComplete
<1>2. new = row
  BY RecordSound DEF Row, FinishedRow
<1>3. Entry("COMPLETED", record[r].batch, u, NoOffice) \in Activity
  BY RecordSound, EntryType DEF Events
<1>4. Sound(record[r], steps[r], log)
  BY <1>3, RecordSound, AppendSound DEF Logged
<1>5. record[r].batch # 0 /\ record[r].archived \in BOOLEAN
  BY <1>1, <1>4 DEF Sound, ActiveStatuses, Row
<1>6. "COMPLETED_PENDING_UPLOAD" \in Statuses \ {"ABSENT", "DRAFT"}
  BY DEF Statuses, CompletedStatuses
<1> HIDE DEF log
<1>7. Sound(row, steps[r], log) /\ row.status = "COMPLETED_PENDING_UPLOAD"
  BY <1>4, <1>5, <1>6, FinishedSound
<1> HIDE DEF new, row
<1>8. Cached(row, steps[r], log)
  BY <1>7, InactiveCached DEF ActiveStatuses
<1> QED BY <1>1, <1>2, <1>7, <1>8, CommitKeeps

\* approve_upload keeps the invariant.
LEMMA ApproveKeeps ==
    ASSUME IInv, NEW r \in Records, NEW u \in Users, Approve(u, r)
    PROVE  IInv'
<1> DEFINE new == [record[r] EXCEPT !.status = "COMPLETED", !.archived = TRUE]
           by  == record[r].completedBy
           row == FinishedRow(record[r], "COMPLETED", by, TRUE)
           log == Logged(r, Entry("ARCHIVED", record[r].batch, u, NoOffice))
<1>1. /\ record[r].status = "COMPLETED_PENDING_UPLOAD"
      /\ Commit(r, new, steps[r], log)
      /\ lastNumber' \in [Offices -> Nat] /\ filed' \in SUBSET Records
  BY RecordSound DEF Approve, CanApprove
<1>2. new = row
  BY RecordSound DEF Row, FinishedRow
<1>3. Entry("ARCHIVED", record[r].batch, u, NoOffice) \in Activity
  BY RecordSound, EntryType DEF Events
<1>4. Sound(record[r], steps[r], log)
  BY <1>3, RecordSound, AppendSound DEF Logged
<1>5. record[r].batch # 0 /\ by \in Users \cup {NoUser}
  BY <1>1, <1>4 DEF Sound, Row
<1>6. "COMPLETED" \in Statuses \ {"ABSENT", "DRAFT"}
  BY DEF Statuses, CompletedStatuses
<1> HIDE DEF log, by
<1>7. Sound(row, steps[r], log) /\ row.status = "COMPLETED"
  BY <1>4, <1>5, <1>6, FinishedSound
<1> HIDE DEF new, row
<1>8. Cached(row, steps[r], log)
  BY <1>7, InactiveCached DEF ActiveStatuses
<1> QED BY <1>1, <1>2, <1>7, <1>8, CommitKeeps

\* A reopened record is recalculated before the entry is written, and the entry
\* is not work, so it cannot change the stage.
LEMMA ReopenKeeps ==
    ASSUME IInv, NEW r \in Records, NEW u \in Users, Reopen(u, r)
    PROVE  IInv'
<1> DEFINE row == FinishedRow(record[r], "RECEIVED", NoUser, FALSE)
           new == Recalculated(row, steps[r], timeline[r])
           e   == Entry("REOPENED", record[r].batch, u, NoOffice)
           log == Logged(r, e)
<1>1. /\ record[r].status = "COMPLETED_PENDING_UPLOAD"
      /\ ReopenedRow(r) = new
      /\ Commit(r, ReopenedRow(r), steps[r], log)
      /\ lastNumber' \in [Offices -> Nat] /\ filed' \in SUBSET Records
  BY RecordSound DEF Reopen, CanReopen, ReopenedRow, FinishedRow
<1>2. record[r].batch # 0
  BY <1>1, RecordSound DEF Sound
<1>3. "RECEIVED" \in Statuses \ {"ABSENT", "DRAFT"}
  BY DEF Statuses, ActiveStatuses
<1>4. Sound(row, steps[r], timeline[r])
  BY <1>2, <1>3, RecordSound, FinishedSound
<1> HIDE DEF row
<1>5. Sound(new, steps[r], timeline[r]) /\ Cached(new, steps[r], timeline[r])
  BY <1>4, RecalculatedIsCached
<1>6. e \in Activity /\ e.event # "WORK"
  BY RecordSound, EntryType DEF Events
<1> HIDE DEF new, e
<1>7. Sound(new, steps[r], log) /\ Cached(new, steps[r], log)
  BY <1>5, <1>6, AppendSound, AppendCached DEF Logged
<1> HIDE DEF log
<1> QED BY <1>1, <1>7, CommitKeeps

-----------------------------------------------------------------------------
(* The theorems *)

\* Before any record is created every row is absent, sound and its own stage.
LEMMA InitIInv == Init => IInv
<1> SUFFICES ASSUME Init
             PROVE  IInv
  OBVIOUS
<1>1. AbsentRow \in Row /\ AbsentRow.status = "ABSENT" /\ AbsentRow.batch = 0
      /\ AbsentRow.number = 0
  BY DEF AbsentRow, Row, Statuses
<1>2. <<>> \in Seq(Activity)
  OBVIOUS
<1>3. Sound(AbsentRow, {}, <<>>)
  BY <1>1, <1>2 DEF Sound, HasLatest, Received, StepsOfBatch
<1>4. Cached(AbsentRow, {}, <<>>)
  BY <1>1, InactiveCached DEF ActiveStatuses
<1>5. /\ record \in [Records -> Row] /\ steps \in [Records -> SUBSET Step]
      /\ timeline \in [Records -> Seq(Activity)]
      /\ lastNumber \in [Offices -> Nat] /\ filed \in SUBSET Records
  BY <1>1, <1>2 DEF Init
<1> QED BY <1>3, <1>4, <1>5 DEF Init, IInv

\* Every step of every service keeps the invariant.
LEMMA NextIInv == IInv /\ [Next]_vars => IInv'
<1> SUFFICES ASSUME IInv, [Next]_vars
             PROVE  IInv'
  OBVIOUS
<1>1. ASSUME NEW r \in Records, NEW u \in Users, NEW o \in Offices, CreateDraft(u, r, o)
      PROVE  IInv'
  BY <1>1, CreateDraftKeeps
<1>2. ASSUME NEW r \in Records, NEW u \in Users, NEW action \in RoutingActions,
             NEW dest \in SUBSET Offices, Route(u, r, action, dest)
      PROVE  IInv'
  BY <1>2, RouteKeeps
<1>3. ASSUME NEW r \in Records, NEW u \in Users, ConfirmReceipt(u, r)
      PROVE  IInv'
  BY <1>3, ConfirmReceiptKeeps
<1>4. ASSUME NEW r \in Records, NEW u \in Users,
             \/ AddRemark(u, r) \/ AttachFiles(u, r)
             \/ UploadVersion(u, r) \/ MarkInProcess(u, r)
      PROVE  IInv'
  <2>1. LogWork(u, r)
    BY <1>4 DEF AddRemark, AttachFiles, UploadVersion, MarkInProcess
  <2> QED BY <2>1, LogWorkKeeps
<1>5. ASSUME NEW r \in Records, NEW u \in Users, Complete(u, r)
      PROVE  IInv'
  BY <1>5, CompleteKeeps
<1>6. ASSUME NEW r \in Records, NEW u \in Users, Approve(u, r)
      PROVE  IInv'
  BY <1>6, ApproveKeeps
<1>7. ASSUME NEW r \in Records, NEW u \in Users, Reopen(u, r)
      PROVE  IInv'
  BY <1>7, ReopenKeeps
<1>8. ASSUME NEW rr \in SUBSET Records, NEW u \in Users, BulkConfirmReceipts(u, rr)
      PROVE  IInv'
  BY <1>8, BulkConfirmReceiptsKeeps
<1>9. CASE UNCHANGED vars
  BY <1>9 DEF vars, IInv
<1> QED BY <1>1, <1>2, <1>3, <1>4, <1>5, <1>6, <1>7, <1>8, <1>9 DEF Next

\* The invariant contains the type invariant and the agreement of the cached
\* status with the stage.
LEMMA IInvImplies == IInv => TypeOK /\ StatusIsStage
<1> SUFFICES ASSUME IInv
             PROVE  TypeOK /\ StatusIsStage
  OBVIOUS
<1>1. TypeOK
  BY DEF IInv, Sound, TypeOK
<1>2. ASSUME NEW r \in Records
      PROVE  /\ record[r].status = StageOf(record[r].status, CurrentSteps(r), timeline[r])
             /\ record[r].status \in ActiveStatuses => CurrentSteps(r) # {}
  <2>1. record[r].status \in ActiveStatuses => CurrentSteps(r) # {}
    BY RecordSound DEF Sound, CurrentSteps, ActiveStatuses
  <2>2. record[r].status = StageOf(record[r].status, CurrentSteps(r), timeline[r])
    BY RecordSound DEF Cached, CurrentSteps
  <2> QED BY <2>1, <2>2
<1> QED BY <1>1, <1>2 DEF StatusIsStage

\* Every reachable state satisfies the inductive invariant.
THEOREM Inductive == Spec => []IInv
BY InitIInv, NextIInv, PTL DEF Spec

\* Rows keep the shape of the schema, numbers and batches appear together when a
\* draft is sent, and the two receipt fields of a step are set together.
THEOREM TypeCorrect == Spec => []TypeOK
BY Inductive, IInvImplies, PTL

\* Whatever services run on however many records, offices and users, the status
\* stored on a record is the stage its routing steps and timeline give it.
THEOREM StatusCorrect == Spec => []StatusIsStage
BY Inductive, IInvImplies, PTL

-----------------------------------------------------------------------------
(* What one step does to one record *)

Became(r, row, rs, log) == record'[r] = row /\ steps'[r] = rs /\ timeline'[r] = log

\* The record is filed after the step exactly when it was before.
SameFiling(r) == r \in filed' <=> r \in filed

Kept(r) == Became(r, record[r], steps[r], timeline[r]) /\ SameFiling(r)

Drafted(r, u, o) ==
    /\ record[r].status = "ABSENT"
    /\ Became(r, [AbsentRow EXCEPT !.status = "DRAFT", !.origin = o, !.creator = u,
                                   !.office = o, !.holder = u],
              {}, Logged(r, Entry("CREATED", 0, u, NoOffice)))
    /\ SameFiling(r) /\ UNCHANGED lastNumber

\* The office a routing leaves from, and the batch it opens.
LeftFrom(r, u, action) ==
    IF action = "SEND" THEN record[r].origin ELSE SendingOffice(u, r)

NextBatch(r) == LastBatch(steps[r]) + 1

Routed(r, u, action, dest) ==
    LET from == LeftFrom(r, u, action)
        b    == NextBatch(r)
        rs   == steps[r] \cup NewSteps(b, from, dest)
        log  == Logged(r, Entry("ROUTED", b, u, NoOffice))
    IN  /\ record[r].status \notin CompletedStatuses \cup {"ABSENT"}
        /\ action = "SEND" => record[r].status = "DRAFT"
        /\ dest # {} /\ from # NoOffice /\ from \notin dest
        /\ Became(r, Recalculated(RoutedRow(record[r], b, Issued(record[r].origin)), rs, log),
                  rs, log)
        /\ SameFiling(r)
        /\ lastNumber' = IF record[r].status = "DRAFT"
                         THEN [lastNumber EXCEPT ![record[r].origin] = Issued(record[r].origin)]
                         ELSE lastNumber

Receipted(r, u) ==
    /\ CanConfirm(u, r)
    /\ Became(r, ReceiptRow(u, r), ReceiptSteps(u, r), ReceiptLog(u, r))
    /\ SameFiling(r) /\ UNCHANGED lastNumber

Worked(r, u) ==
    LET log == Logged(r, Entry("WORK", record[r].batch, u, WorkOffice(u, r)))
    IN  /\ Became(r, Recalculated(record[r], steps[r], log), steps[r], log)
        /\ SameFiling(r) /\ UNCHANGED lastNumber

CompletedBy(r, u) ==
    /\ record[r].status \in ActiveStatuses /\ AnyReceived(r) /\ CanAct(u, r)
    /\ Became(r, [record[r] EXCEPT !.status = "COMPLETED_PENDING_UPLOAD", !.completedBy = u],
              steps[r], Logged(r, Entry("COMPLETED", record[r].batch, u, NoOffice)))
    /\ SameFiling(r) /\ UNCHANGED lastNumber

FiledBy(r, u) ==
    /\ record[r].status = "COMPLETED_PENDING_UPLOAD"
    /\ Became(r, [record[r] EXCEPT !.status = "COMPLETED", !.archived = TRUE],
              steps[r], Logged(r, Entry("ARCHIVED", record[r].batch, u, NoOffice)))
    /\ r \in filed' /\ UNCHANGED lastNumber

ReopenedBy(r, u) ==
    /\ record[r].status = "COMPLETED_PENDING_UPLOAD" /\ r \notin filed
    /\ Became(r, ReopenedRow(r), steps[r],
              Logged(r, Entry("REOPENED", record[r].batch, u, NoOffice)))
    /\ SameFiling(r) /\ UNCHANGED lastNumber

MovedBy(r) ==
    \/ \E u \in Users, o \in Offices : Drafted(r, u, o)
    \/ \E u \in Users, action \in RoutingActions, dest \in SUBSET Offices :
           Routed(r, u, action, dest)
    \/ \E u \in Users :
           Receipted(r, u) \/ Worked(r, u) \/ CompletedBy(r, u) \/ FiledBy(r, u) \/ ReopenedBy(r, u)

Moved(r) == Kept(r) \/ MovedBy(r)

\* A transaction on one record changes that record and no other.
LEMMA CommitMoves ==
    ASSUME IInv, NEW r \in Records, NEW row, NEW rs, NEW log, Commit(r, row, rs, log),
           NEW q \in Records
    PROVE  IF q = r THEN Became(q, row, rs, log)
           ELSE Became(q, record[q], steps[q], timeline[q])
BY DEF Commit, Became, IInv

\* One record moves, or one account receives a selection, or nothing changes.
SystemMoves ==
    \/ \E r \in Records : MovedBy(r) /\ \A q \in Records \ {r} : Kept(q)
    \/ /\ \E rr \in SUBSET Records, u \in Users : \A q \in Records :
              IF q \in rr THEN Receipted(q, u) ELSE Kept(q)
       /\ UNCHANGED lastNumber
    \/ (\A q \in Records : Kept(q)) /\ UNCHANGED lastNumber

\* The move each service makes: of its own record, and of no other.
LEMMA ServiceMoves ==
    ASSUME IInv, NEW r \in Records, NEW u \in Users
    PROVE  LET Alone(move) == move /\ \A q \in Records \ {r} : Kept(q)
           IN  /\ \A o \in Offices : CreateDraft(u, r, o) => Alone(Drafted(r, u, o))
               /\ \A action \in RoutingActions, dest \in SUBSET Offices :
                    Route(u, r, action, dest) => Alone(Routed(r, u, action, dest))
               /\ ConfirmReceipt(u, r) => Alone(Receipted(r, u))
               /\ AddRemark(u, r) \/ AttachFiles(u, r) => Alone(Worked(r, u))
               /\ UploadVersion(u, r) \/ MarkInProcess(u, r) => Alone(Worked(r, u))
               /\ Complete(u, r) => Alone(CompletedBy(r, u))
               /\ Approve(u, r) => Alone(FiledBy(r, u))
               /\ Reopen(u, r) => Alone(ReopenedBy(r, u))
<1>1. ASSUME NEW o \in Offices, CreateDraft(u, r, o)
      PROVE  Drafted(r, u, o) /\ \A q \in Records \ {r} : Kept(q)
  BY <1>1, CommitMoves DEF CreateDraft, Drafted, Kept, SameFiling
<1>2. ASSUME NEW action \in RoutingActions, NEW dest \in SUBSET Offices,
             Route(u, r, action, dest)
      PROVE  Routed(r, u, action, dest) /\ \A q \in Records \ {r} : Kept(q)
  BY <1>2, CommitMoves
     DEF Route, CanAct, MayReceive, Routed, LeftFrom, NextBatch, Kept, SameFiling
<1>3. ASSUME ConfirmReceipt(u, r)
      PROVE  Receipted(r, u) /\ \A q \in Records \ {r} : Kept(q)
  BY <1>3, CommitMoves DEF ConfirmReceipt, Receipted, Kept, SameFiling
<1>4. ASSUME \/ AddRemark(u, r) \/ AttachFiles(u, r)
             \/ UploadVersion(u, r) \/ MarkInProcess(u, r)
      PROVE  Worked(r, u) /\ \A q \in Records \ {r} : Kept(q)
  <2>1. LogWork(u, r)
    BY <1>4 DEF AddRemark, AttachFiles, UploadVersion, MarkInProcess
  <2> QED BY <2>1, CommitMoves DEF LogWork, Worked, Kept, SameFiling
<1>5. ASSUME Complete(u, r)
      PROVE  CompletedBy(r, u) /\ \A q \in Records \ {r} : Kept(q)
  BY <1>5, CommitMoves DEF Complete, CanComplete, CompletedBy, Kept, SameFiling
<1>6. ASSUME Approve(u, r)
      PROVE  FiledBy(r, u) /\ \A q \in Records \ {r} : Kept(q)
  BY <1>6, CommitMoves DEF Approve, CanApprove, FiledBy, Kept, SameFiling
<1>7. ASSUME Reopen(u, r)
      PROVE  ReopenedBy(r, u) /\ \A q \in Records \ {r} : Kept(q)
  BY <1>7, CommitMoves DEF Reopen, CanReopen, ReopenedBy, Kept, SameFiling
<1> QED BY <1>1, <1>2, <1>3, <1>4, <1>5, <1>6, <1>7

\* A bulk receipt receives every record of the selection, and moves no other.
LEMMA BulkMoves ==
    ASSUME IInv, NEW rr \in SUBSET Records, NEW u \in Users, BulkConfirmReceipts(u, rr)
    PROVE  /\ \A q \in Records : IF q \in rr THEN Receipted(q, u) ELSE Kept(q)
           /\ UNCHANGED lastNumber
BY DEF BulkConfirmReceipts, Receipted, Became, Kept, SameFiling

\* A stutter moves nothing.
LEMMA StutterMoves ==
    ASSUME UNCHANGED vars
    PROVE  (\A q \in Records : Kept(q)) /\ UNCHANGED lastNumber
BY DEF vars, Kept, Became, SameFiling

\* Every step of the services is one of these.
LEMMA StepMoves == IInv /\ [Next]_vars => SystemMoves
<1> SUFFICES ASSUME IInv, [Next]_vars
             PROVE  SystemMoves
  OBVIOUS
<1>1. ASSUME NEW r \in Records, NEW u \in Users, NEW o \in Offices, CreateDraft(u, r, o)
      PROVE  SystemMoves
  BY <1>1, ServiceMoves DEF MovedBy, SystemMoves
<1>2. ASSUME NEW r \in Records, NEW u \in Users, NEW action \in RoutingActions,
             NEW dest \in SUBSET Offices, Route(u, r, action, dest)
      PROVE  SystemMoves
  BY <1>2, ServiceMoves DEF MovedBy, SystemMoves
<1>3. ASSUME NEW r \in Records, NEW u \in Users,
             \/ ConfirmReceipt(u, r) \/ Complete(u, r) \/ Approve(u, r) \/ Reopen(u, r)
             \/ AddRemark(u, r) \/ AttachFiles(u, r)
             \/ UploadVersion(u, r) \/ MarkInProcess(u, r)
      PROVE  SystemMoves
  BY <1>3, ServiceMoves DEF MovedBy, SystemMoves
<1>4. ASSUME NEW rr \in SUBSET Records, NEW u \in Users, BulkConfirmReceipts(u, rr)
      PROVE  SystemMoves
  BY <1>4, BulkMoves DEF SystemMoves
<1>5. CASE UNCHANGED vars
  BY <1>5, StutterMoves DEF SystemMoves
<1> QED BY <1>1, <1>2, <1>3, <1>4, <1>5 DEF Next

\* So every step moves each record by one service or leaves it alone.
LEMMA StepMovesEach ==
    ASSUME IInv, [Next]_vars, NEW q \in Records
    PROVE  Moved(q)
BY StepMoves DEF SystemMoves, Moved, MovedBy

-----------------------------------------------------------------------------
(* The invariant of one record *)

\* CustodyIsCached of one record.
Held(row, rs) ==
    LET current  == StepsOfBatch(rs, row.batch)
        received == Received(current)
    IN  row.batch # 0 =>
        IF received = {}
        THEN row.holder = NoUser /\ \A s \in current : row.office = s.from
        ELSE \E s \in received :
                /\ \A t \in received : t.receivedAt <= s.receivedAt
                /\ row.office = s.to
                /\ row.holder = s.receivedBy

\* A batch leaves one office, goes to others, and addresses each of them once.
OneSender(rs) == \A s, t \in rs : s.batch = t.batch => s.from = t.from /\ s.to # t.from

OneAddress(rs) == \A s, t \in rs : s.batch = t.batch /\ s.to = t.to => s = t

\* CustodyChain of one record.
Linked(row, rs) ==
    \A s \in rs :
        LET before == StepsOfBatch(rs, s.batch - 1)
        IN  IF s.batch = 1 THEN s.from = row.origin
            ELSE IF Received(before) = {} THEN \E t \in before : t.from = s.from
            ELSE \E t \in Received(before) : t.to = s.from

\* A draft has not moved, which its first dispatch relies on.
AtOrigin(row) == row.status = "DRAFT" => row.office = row.origin

\* WorkFollowsReceipt of one record.
Signed(rs, b, o, n) ==
    \E s \in StepsOfBatch(rs, b) : s.to = o /\ s.receivedAt \in 1..n

Credited(rs, log) ==
    \A i \in 1..Len(log) :
        log[i].workOffice # NoOffice => Signed(rs, log[i].batch, log[i].workOffice, i - 1)

InHand(row, rs) ==
    row.status \in CompletedStatuses => Received(StepsOfBatch(rs, row.batch)) # {}

Filed(r) ==
    /\ r \in filed <=> record[r].status = "COMPLETED"
    /\ r \in filed <=> record[r].archived

Traced(row, rs, log) ==
    /\ Held(row, rs)
    /\ OneSender(rs)
    /\ OneAddress(rs)
    /\ Linked(row, rs)
    /\ AtOrigin(row)
    /\ Credited(rs, log)
    /\ InHand(row, rs)

CustodyInv ==
    /\ IInv
    /\ \A r \in Records : Traced(record[r], steps[r], timeline[r]) /\ Filed(r)

-----------------------------------------------------------------------------
(* Recalculation *)

\* recalculate_status changes the status, the office and the holder at most,
\* and an active record stays active.
LEMMA RecalculatedRow ==
    ASSUME NEW row, NEW rs, NEW log, Sound(row, rs, log)
    PROVE  LET new == Recalculated(row, rs, log)
           IN  /\ new.batch = row.batch /\ new.origin = row.origin
               /\ new.number = row.number /\ new.archived = row.archived
               /\ new.completedBy = row.completedBy
               /\ row.status \notin ActiveStatuses => new = row
               /\ row.status \in ActiveStatuses => new.status \in ActiveStatuses
<1> DEFINE current  == StepsOfBatch(rs, row.batch)
           received == Received(current)
           latest   == LatestReceipt(received)
           new      == Recalculated(row, rs, log)
<1>1. CASE row.status \notin ActiveStatuses
  BY <1>1 DEF Recalculated
<1>2. CASE row.status \in ActiveStatuses
  <2>1. row \in Row /\ current # {}
    BY <1>2 DEF Sound, ActiveStatuses, StepsOfBatch
  <2>2. CASE received = {}
    <3>1. new = [row EXCEPT !.status = "PENDING_RECEIPT",
                            !.office = BatchSender(current), !.holder = NoUser]
      BY <1>2, <2>1, <2>2 DEF Recalculated
    <3> HIDE DEF new, current
    <3> QED BY <1>2, <2>1, <3>1 DEF Row, ActiveStatuses, new
  <2>3. CASE received # {}
    <3> DEFINE status == IF received # current THEN "PENDING_RECEIPT"
                         ELSE IF \E s \in received : WorkedOn(s, log)
                         THEN "IN_PROCESS" ELSE "RECEIVED"
    <3>1. new = [row EXCEPT !.status = status, !.office = latest.to,
                            !.holder = latest.receivedBy]
      BY <1>2, <2>1, <2>3 DEF Recalculated
    <3>2. status \in ActiveStatuses
      BY DEF ActiveStatuses
    <3> HIDE DEF new, status, latest
    <3> QED BY <1>2, <2>1, <3>1, <3>2 DEF Row, new
  <2> QED BY <2>2, <2>3
<1> QED BY <1>1, <1>2

\* recalculate_status caches the custody the current batch gives.
LEMMA RecalculatedHeld ==
    ASSUME NEW row, NEW rs, NEW log, Sound(row, rs, log), OneSender(rs),
           row.status \in ActiveStatuses \/ Held(row, rs)
    PROVE  Held(Recalculated(row, rs, log), rs)
<1> DEFINE current  == StepsOfBatch(rs, row.batch)
           received == Received(current)
           latest   == LatestReceipt(received)
           new      == Recalculated(row, rs, log)
<1>1. CASE row.status \notin ActiveStatuses
  BY <1>1, RecalculatedRow
<1>2. CASE row.status \in ActiveStatuses
  <2>1. row \in Row /\ current # {} /\ new.batch = row.batch
    BY <1>2, RecalculatedRow DEF Sound, ActiveStatuses, StepsOfBatch
  <2>2. CASE received = {}
    <3>1. new = [row EXCEPT !.status = "PENDING_RECEIPT",
                            !.office = BatchSender(current), !.holder = NoUser]
      BY <1>2, <2>1, <2>2 DEF Recalculated
    <3>2. \A s \in current : BatchSender(current) = s.from
      BY <2>1 DEF BatchSender, OneSender, StepsOfBatch
    <3>3. new.office = BatchSender(current) /\ new.holder = NoUser
      <4> HIDE DEF new, current
      <4> QED BY <2>1, <3>1 DEF Row, new
    <3> QED BY <2>1, <2>2, <3>2, <3>3 DEF Held
  <2>3. CASE received # {}
    <3> DEFINE status == IF received # current THEN "PENDING_RECEIPT"
                         ELSE IF \E s \in received : WorkedOn(s, log)
                         THEN "IN_PROCESS" ELSE "RECEIVED"
    <3>1. new = [row EXCEPT !.status = status, !.office = latest.to,
                            !.holder = latest.receivedBy]
      BY <1>2, <2>1, <2>3 DEF Recalculated
    <3>2. latest \in received /\ \A t \in received : t.receivedAt <= latest.receivedAt
      BY <2>1, <2>3 DEF Sound, HasLatest, LatestReceipt
    <3>3. new.office = latest.to /\ new.holder = latest.receivedBy
      <4> HIDE DEF new, status, latest
      <4> QED BY <2>1, <3>1 DEF Row, new
    <3> QED BY <2>1, <2>3, <3>2, <3>3 DEF Held
  <2> QED BY <2>2, <2>3
<1> QED BY <1>1, <1>2

\* A record keeps its chain, and its history its credits, when it is recalculated.
LEMMA RecalculatedTraced ==
    ASSUME NEW row, NEW rs, NEW log, Sound(row, rs, log),
           row.status \in ActiveStatuses \/ Held(row, rs),
           OneSender(rs), OneAddress(rs), Linked(row, rs), AtOrigin(row),
           Credited(rs, log), InHand(row, rs)
    PROVE  Traced(Recalculated(row, rs, log), rs, log)
<1> DEFINE new == Recalculated(row, rs, log)
<1>1. Held(new, rs)
  BY RecalculatedHeld
<1>2. /\ new.batch = row.batch /\ new.origin = row.origin
      /\ row.status \notin ActiveStatuses => new = row
      /\ row.status \in ActiveStatuses => new.status \in ActiveStatuses
  BY RecalculatedRow
<1> HIDE DEF new
<1>3. Linked(new, rs)
  BY <1>2 DEF Linked
<1>4. AtOrigin(new) /\ InHand(new, rs)
  BY <1>2 DEF AtOrigin, InHand, ActiveStatuses, CompletedStatuses
<1>5. Traced(new, rs, log)
  BY <1>1, <1>3, <1>4 DEF Traced
<1> QED BY <1>5 DEF new

-----------------------------------------------------------------------------
(* Timeline entries *)

\* An entry attributed to nobody, or to an office that had signed before it.
LEMMA AppendCredited ==
    ASSUME NEW rs, NEW log \in Seq(Activity), Credited(rs, log), NEW e \in Activity,
           e.workOffice # NoOffice => Signed(rs, e.batch, e.workOffice, Len(log))
    PROVE  Credited(rs, Append(log, e))
<1> DEFINE later == Append(log, e)
<1>1. /\ Len(later) = Len(log) + 1 /\ Len(log) \in Nat
      /\ later[Len(log) + 1] = e
      /\ \A i \in 1..Len(log) : later[i] = log[i]
  OBVIOUS
<1> HIDE DEF later
<1>2. ASSUME NEW i \in 1..Len(later), later[i].workOffice # NoOffice
      PROVE  Signed(rs, later[i].batch, later[i].workOffice, i - 1)
  <2>1. CASE i \in 1..Len(log)
    BY <1>1, <1>2, <2>1 DEF Credited
  <2>2. CASE i = Len(log) + 1
    <3>1. i - 1 = Len(log) /\ later[i] = e
      BY <1>1, <2>2
    <3> QED BY <1>2, <3>1
  <2> QED BY <1>1, <2>1, <2>2
<1> QED BY <1>2 DEF Credited, later

\* No service takes a receipt back, so what was signed stays signed.
LEMMA MoreCredited ==
    ASSUME NEW rs, NEW more, NEW log, Credited(rs, log), Received(rs) \subseteq more,
           rs \subseteq Step, log \in Seq(Activity)
    PROVE  Credited(more, log)
<1>1. ASSUME NEW b, NEW o, NEW i \in 1..Len(log), Signed(rs, b, o, i - 1)
      PROVE  Signed(more, b, o, i - 1)
  <2>1. PICK s \in rs : s.batch = b /\ s.to = o /\ s.receivedAt \in 1..(i - 1)
    BY <1>1 DEF Signed, StepsOfBatch
  <2>2. s \in Received(rs)
    BY <2>1 DEF Received
  <2> QED BY <2>1, <2>2 DEF Signed, StepsOfBatch
<1> QED BY <1>1 DEF Credited

-----------------------------------------------------------------------------
(* What each move leaves of the invariant *)

\* What the invariant says of one record.
LEMMA RecordTraced ==
    ASSUME CustodyInv, NEW r \in Records
    PROVE  /\ IInv
           /\ Sound(record[r], steps[r], timeline[r])
           /\ Traced(record[r], steps[r], timeline[r])
           /\ Filed(r)
           /\ timeline[r] \in Seq(Activity)
           /\ steps[r] \subseteq Step
BY RecordSound DEF CustodyInv, Sound

\* A record without a batch has no step.
LEMMA NoBatchNoSteps ==
    ASSUME NEW row, NEW rs, NEW log, Sound(row, rs, log), row.batch = 0
    PROVE  rs = {}
BY DEF Sound

\* A draft starts a chain of its own.
LEMMA DraftedTraced ==
    ASSUME CustodyInv, NEW r \in Records, NEW u \in Users, NEW o \in Offices,
           Drafted(r, u, o)
    PROVE  Traced(record'[r], steps'[r], timeline'[r]) /\ Filed(r)'
<1> DEFINE row == [AbsentRow EXCEPT !.status = "DRAFT", !.origin = o,
                        !.creator = u, !.office = o, !.holder = u]
           e   == Entry("CREATED", 0, u, NoOffice)
<1>1. /\ record'[r] = row /\ steps'[r] = {} /\ timeline'[r] = Append(timeline[r], e)
      /\ record[r].status = "ABSENT"
  BY DEF Drafted, Became, Logged
<1>2. steps[r] = {}
  BY <1>1, RecordTraced, NoBatchNoSteps DEF Sound
<1>3. e \in Activity /\ e.workOffice = NoOffice
  BY EntryType DEF Events, Entry
<1> HIDE DEF e
<1>4. Credited({}, Append(timeline[r], e))
  BY <1>2, <1>3, RecordTraced, AppendCredited DEF Traced
<1>5. row.status = "DRAFT" /\ row.batch = 0 /\ row.office = o /\ row.origin = o
      /\ row.archived = FALSE
  BY DEF AbsentRow
<1> HIDE DEF row
<1>6. Traced(row, {}, Append(timeline[r], e))
  BY <1>4, <1>5
     DEF Traced, Held, OneSender, OneAddress, Linked, AtOrigin, InHand, CompletedStatuses
<1>7. Filed(r)'
  BY <1>1, <1>5, RecordTraced DEF Filed, Drafted, SameFiling
<1> QED BY <1>1, <1>6, <1>7

\* What custody is: a received step of the current batch.
LEMMA CustodyIsReceived ==
    ASSUME NEW r \in Records, NEW o, HasCustody(r, o)
    PROVE  \E t \in Received(StepsOfBatch(steps[r], record[r].batch)) : t.to = o
BY DEF HasCustody, CurrentSteps

\* A routing leaves an office that has the document: the origin of a draft, a
\* received recipient, or the sender as long as nobody has received it.
LEMMA SenderHasIt ==
    ASSUME CustodyInv, NEW r \in Records, NEW u \in Users, NEW action \in RoutingActions,
           NEW dest \in SUBSET Offices, Routed(r, u, action, dest)
    PROVE  LET from    == LeftFrom(r, u, action)
               current == StepsOfBatch(steps[r], record[r].batch)
           IN  /\ from \in Offices
               /\ IF record[r].batch = 0 THEN from = record[r].origin
                  ELSE IF Received(current) = {}
                       THEN current # {} /\ \A t \in current : t.from = from
                       ELSE \E t \in Received(current) : t.to = from
<1> DEFINE from    == LeftFrom(r, u, action)
           current == StepsOfBatch(steps[r], record[r].batch)
<1>1. /\ record[r].status \notin {"ABSENT"} \cup CompletedStatuses
      /\ action = "SEND" => record[r].status = "DRAFT"
      /\ from # NoOffice
  BY DEF Routed
<1>2. record[r].office \in Offices /\ record[r].origin \in Offices
      /\ record[r].office # NoOffice
  BY <1>1, RecordTraced, TrackingAssumption DEF Sound
<1>3. from \in Offices
  BY <1>1, <1>2, RecordTraced, OfficeTypes DEF LeftFrom
<1>4. CASE record[r].batch = 0
  <2>1. record[r].status = "DRAFT" /\ current = {}
    BY <1>1, <1>4, RecordTraced, NoBatchNoSteps DEF Sound, StepsOfBatch
  <2>2. record[r].office = record[r].origin
    BY <2>1, RecordTraced DEF Traced, AtOrigin
  <2>3. ~HasCustody(r, OfficeOf[u])
    BY <2>1, CustodyIsReceived DEF Received
  <2>4. from = record[r].origin
    BY <1>2, <2>2, <2>3 DEF LeftFrom, SendingOffice
  <2> QED BY <1>3, <1>4, <2>4
<1>5. CASE record[r].batch # 0
  <2>1. from = SendingOffice(u, r) /\ current # {}
    BY <1>1, <1>5, RecordTraced DEF Sound, LeftFrom
  <2>2. CASE OfficeOf[u] # NoOffice /\ HasCustody(r, OfficeOf[u])
    <3>1. \E t \in Received(current) : t.to = from
      BY <2>1, <2>2, CustodyIsReceived DEF SendingOffice
    <3> QED BY <1>3, <1>5, <3>1
  <2>3. CASE ~(OfficeOf[u] # NoOffice /\ HasCustody(r, OfficeOf[u]))
    <3>1. from = record[r].office
      BY <1>2, <2>1, <2>3 DEF SendingOffice
    <3>2. Held(record[r], steps[r])
      BY RecordTraced DEF Traced
    <3> QED BY <1>3, <1>5, <2>1, <3>1, <3>2 DEF Held
  <2> QED BY <2>2, <2>3
<1> QED BY <1>4, <1>5

\* The steps of a new batch.
LEMMA NewBatch ==
    ASSUME NEW b \in Nat, NEW from \in Offices, NEW dest \in SUBSET Offices, from \notin dest
    PROVE  LET added == NewSteps(b, from, dest)
           IN  /\ \A s \in added : /\ s \in Step /\ s.batch = b /\ s.from = from
                                   /\ s.to \in dest /\ s.receivedAt = 0
               /\ \A s, t \in added : s.to = t.to => s = t
               /\ \A o \in dest : \E s \in added : s.to = o
<1> DEFINE added == NewSteps(b, from, dest)
<1>1. \A s \in added : /\ s.batch = b /\ s.from = from /\ s.to \in dest
                       /\ s.receivedBy = NoUser /\ s.receivedAt = 0
                       /\ s \in Step
  BY DEF NewSteps, Step
<1>2. \A s, t \in added : s.to = t.to => s = t
  BY DEF NewSteps
<1>3. ASSUME NEW o \in dest PROVE \E s \in added : s.to = o
  <2>1. [batch |-> b, from |-> from, to |-> o, receivedBy |-> NoUser,
         receivedAt |-> 0] \in added
    BY DEF NewSteps
  <2> QED BY <2>1
<1> QED BY <1>1, <1>2, <1>3

\* A new batch leaves an office that holds the document, for offices that do not.
LEMMA RoutedTraced ==
    ASSUME CustodyInv, NEW r \in Records, NEW u \in Users, NEW action \in RoutingActions,
           NEW dest \in SUBSET Offices, Routed(r, u, action, dest)
    PROVE  Traced(record'[r], steps'[r], timeline'[r]) /\ Filed(r)'
<1> DEFINE from  == LeftFrom(r, u, action)
           b     == NextBatch(r)
           n     == Issued(record[r].origin)
           added == NewSteps(b, from, dest)
           rs    == steps[r] \cup added
           e     == Entry("ROUTED", b, u, NoOffice)
           log   == Append(timeline[r], e)
           row   == RoutedRow(record[r], b, n)
           current == StepsOfBatch(steps[r], record[r].batch)
<1>1. /\ record[r].status \notin CompletedStatuses \cup {"ABSENT"}
      /\ dest # {} /\ from \notin dest
      /\ record'[r] = Recalculated(row, rs, log) /\ steps'[r] = rs /\ timeline'[r] = log
      /\ r \in filed' <=> r \in filed
  BY DEF Routed, Became, Logged, SameFiling
<1>2. from \in Offices
  BY SenderHasIt
<1>3. n \in Nat /\ b \in Nat /\ e \in Activity /\ Sound(row, rs, log)
  BY <1>1, <1>2, RecordTraced, RouteSound DEF NextBatch
<1>4. b = record[r].batch + 1 /\ record[r].batch \in Nat /\ record[r] \in Row
  BY RecordTraced, LastBatchIsCurrent DEF NextBatch, Sound, Row
<1>5. /\ row.batch = b /\ row.origin = record[r].origin /\ row.archived = record[r].archived
      /\ row.status \in ActiveStatuses
  <2>1. CASE record[r].status = "DRAFT"
    <3>1. row = [record[r] EXCEPT !.batch = b, !.status = "PENDING_RECEIPT", !.number = n]
      BY <2>1 DEF RoutedRow
    <3> HIDE DEF row, n, b
    <3> QED BY <1>4, <3>1 DEF Row, ActiveStatuses
  <2>2. CASE record[r].status # "DRAFT"
    <3>1. row = [record[r] EXCEPT !.batch = b]
      BY <2>2 DEF RoutedRow
    <3>2. record[r].status \in ActiveStatuses
      BY <1>1, <1>4, <2>2 DEF Row, Statuses
    <3> HIDE DEF row, n, b
    <3> QED BY <1>4, <3>1, <3>2 DEF Row
  <2> QED BY <2>1, <2>2
<1>6. /\ \A s \in added : /\ s \in Step /\ s.batch = b /\ s.from = from
                          /\ s.to \in dest /\ s.receivedAt = 0
      /\ \A s, t \in added : s.to = t.to => s = t
  BY <1>1, <1>2, <1>3, NewBatch
<1>7. \A s \in steps[r] : s \in Step /\ s.batch \in 1..record[r].batch /\ s.batch # b
  BY <1>4, RecordTraced DEF Sound
<1>8. e.workOffice = NoOffice
  BY DEF Entry
<1> HIDE DEF added, b, n, e, row
<1>9. Credited(rs, log)
  <2>1. Credited(rs, timeline[r])
    BY RecordTraced, MoreCredited DEF Traced, Received
  <2> QED BY <1>3, <1>8, <2>1, RecordTraced, AppendCredited
<1>10. OneSender(rs) /\ OneAddress(rs)
  BY <1>1, <1>6, <1>7, RecordTraced DEF Traced, OneSender, OneAddress
<1>11. Linked(row, rs)
  <2> SUFFICES ASSUME NEW s \in rs
               PROVE  LET before == StepsOfBatch(rs, s.batch - 1)
                      IN  IF s.batch = 1 THEN s.from = row.origin
                          ELSE IF Received(before) = {} THEN \E t \in before : t.from = s.from
                          ELSE \E t \in Received(before) : t.to = s.from
    BY DEF Linked
  <2>1. CASE s \in steps[r]
    <3>1. StepsOfBatch(rs, s.batch - 1) = StepsOfBatch(steps[r], s.batch - 1)
      BY <1>4, <1>6, <1>7, <2>1 DEF StepsOfBatch
    <3>2. Linked(record[r], steps[r])
      BY RecordTraced DEF Traced
    <3> QED BY <1>5, <2>1, <3>1, <3>2 DEF Linked
  <2>2. CASE s \in added
    <3>1. s.batch = record[r].batch + 1 /\ s.from = from
      BY <1>4, <1>6, <2>2
    <3>2. StepsOfBatch(rs, s.batch - 1) = current
      BY <1>4, <1>6, <1>7, <3>1 DEF StepsOfBatch
    <3>3. s.batch = 1 <=> record[r].batch = 0
      BY <1>4, <3>1
    <3> QED BY <1>5, <3>1, <3>2, <3>3, SenderHasIt
  <2> QED BY <2>1, <2>2
<1>12. AtOrigin(row) /\ InHand(row, rs)
  BY <1>5 DEF AtOrigin, InHand, ActiveStatuses, CompletedStatuses
<1>13. Traced(record'[r], rs, log)
  BY <1>1, <1>3, <1>5, <1>9, <1>10, <1>11, <1>12, RecalculatedTraced
<1>14. Filed(r)'
  <2>1. record'[r].archived = record[r].archived /\ record'[r].status \in ActiveStatuses
    BY <1>1, <1>3, <1>5, RecalculatedRow
  <2> QED BY <1>1, <2>1, RecordTraced DEF Filed, ActiveStatuses, CompletedStatuses
<1> QED BY <1>1, <1>13, <1>14

\* A receipt changes nothing of a step but the receipt, and of a history nothing.
LEMMA ReceiptOfStep ==
    ASSUME NEW s \in Step, NEW u \in Users, NEW at \in Nat, at # 0
    PROVE  LET got == WithReceipt(s, u, at)
           IN  /\ got.batch = s.batch /\ got.from = s.from /\ got.to = s.to
               /\ got.receivedBy = u /\ got.receivedAt = at
               /\ got \in Step
BY DEF Step, WithReceipt

\* An office that receives its copy becomes a holder, and no other step changes.
LEMMA ReceiptedTraced ==
    ASSUME CustodyInv, NEW r \in Records, NEW u \in Users, Receipted(r, u)
    PROVE  Traced(record'[r], steps'[r], timeline'[r]) /\ Filed(r)'
<1> DEFINE s   == ReceivedStep(u, r)
           e   == Entry("RECEIVED", record[r].batch, u, NoOffice)
           at  == Len(timeline[r]) + 1
           got == WithReceipt(s, u, at)
           rs  == (steps[r] \ {s}) \cup {got}
           log == Append(timeline[r], e)
<1>1. /\ CanConfirm(u, r)
      /\ record'[r] = ReceiptRow(u, r) /\ steps'[r] = ReceiptSteps(u, r)
      /\ timeline'[r] = ReceiptLog(u, r)
      /\ r \in filed' <=> r \in filed
  BY DEF Receipted, Became, SameFiling
<1>2. /\ ReceiptSteps(u, r) = rs /\ ReceiptLog(u, r) = log
      /\ s \in steps[r] /\ s \in Step /\ s.batch = record[r].batch /\ s.receivedAt = 0
      /\ e \in Activity
      /\ Sound(record[r], rs, log)
  BY <1>1, RecordTraced, ReceiptSound DEF PendingSteps, Outstanding, StepsOfBatch
<1>3. at \in Nat /\ at # 0
  BY RecordTraced
<1>4. got.batch = s.batch /\ got.from = s.from /\ got.to = s.to /\ got.receivedAt # 0
  BY <1>2, <1>3, ReceiptOfStep
<1>5. record[r].status \in ActiveStatuses /\ record[r].batch \in Nat
  <2>1. /\ record[r] \in Row /\ record[r].status \notin CompletedStatuses \cup {"DRAFT"}
        /\ s.batch \in 1..record[r].batch
    BY <1>1, <1>2, RecordTraced DEF CanConfirm, Sound
  <2>2. record[r].batch # 0
    BY <2>1 DEF Row
  <2>3. record[r].status # "ABSENT"
    BY <2>2, RecordTraced DEF Sound
  <2> QED BY <2>1, <2>3 DEF Row, Statuses
<1>6. e.workOffice = NoOffice
  BY DEF Entry
<1>7. \A t \in steps[r] : t.batch \in 1..record[r].batch /\ t.receivedAt \in Nat
  BY RecordTraced DEF Sound, Step
<1> HIDE DEF s, e, at, got
<1>8. \A t \in rs : \E q \in steps[r] :
          q.batch = t.batch /\ q.from = t.from /\ q.to = t.to /\ (t = q \/ (q = s /\ t = got))
  BY <1>2, <1>4
<1>9. OneSender(rs) /\ OneAddress(rs)
  <2>1. OneSender(steps[r]) /\ OneAddress(steps[r])
    BY RecordTraced DEF Traced
  <2>2. OneSender(rs)
    BY <1>8, <2>1 DEF OneSender
  <2>3. OneAddress(rs)
    <3> SUFFICES ASSUME NEW x \in rs, NEW y \in rs, x.batch = y.batch, x.to = y.to
                 PROVE  x = y
      BY DEF OneAddress
    <3>1. CASE x = got /\ y # got
      BY <1>2, <1>4, <2>1, <3>1 DEF OneAddress
    <3>2. CASE x # got /\ y = got
      BY <1>2, <1>4, <2>1, <3>2 DEF OneAddress
    <3>3. CASE x # got /\ y # got
      BY <2>1, <3>3 DEF OneAddress
    <3> QED BY <3>1, <3>2, <3>3
  <2> QED BY <2>2, <2>3
<1>10. Linked(record[r], rs)
  <2> SUFFICES ASSUME NEW t \in rs
               PROVE  LET before == StepsOfBatch(rs, t.batch - 1)
                      IN  IF t.batch = 1 THEN t.from = record[r].origin
                          ELSE IF Received(before) = {} THEN \E q \in before : q.from = t.from
                          ELSE \E q \in Received(before) : q.to = t.from
    BY DEF Linked
  <2>1. PICK q \in steps[r] : q.batch = t.batch /\ q.from = t.from
    BY <1>8
  <2>2. StepsOfBatch(rs, q.batch - 1) = StepsOfBatch(steps[r], q.batch - 1)
    BY <1>2, <1>4, <1>5, <1>7 DEF StepsOfBatch
  <2>3. Linked(record[r], steps[r])
    BY RecordTraced DEF Traced
  <2> QED BY <2>1, <2>2, <2>3 DEF Linked
<1>11. Credited(rs, log)
  <2>1. Received(steps[r]) \subseteq rs
    BY <1>2 DEF Received
  <2>2. Credited(rs, timeline[r])
    BY <2>1, RecordTraced, MoreCredited DEF Traced
  <2> QED BY <1>2, <1>6, <2>2, RecordTraced, AppendCredited
<1>12. AtOrigin(record[r]) /\ InHand(record[r], rs)
  BY <1>5 DEF AtOrigin, InHand, ActiveStatuses, CompletedStatuses
<1>13. record'[r] = Recalculated(record[r], rs, log)
  BY <1>1, <1>2 DEF ReceiptRow
<1>14. Traced(record'[r], rs, log)
  BY <1>2, <1>5, <1>9, <1>10, <1>11, <1>12, <1>13, RecalculatedTraced
<1>15. Filed(r)'
  <2>1. record'[r].archived = record[r].archived /\ record'[r].status \in ActiveStatuses
    BY <1>2, <1>5, <1>13, RecalculatedRow
  <2> QED BY <1>1, <1>5, <2>1, RecordTraced DEF Filed, ActiveStatuses
<1> QED BY <1>1, <1>2, <1>14, <1>15

\* Work is attributed to an office that has signed for the current batch.
LEMMA WorkIsSigned ==
    ASSUME CustodyInv, NEW r \in Records, NEW u \in Users, WorkOffice(u, r) # NoOffice
    PROVE  Signed(steps[r], record[r].batch, WorkOffice(u, r), Len(timeline[r]))
<1> DEFINE o == WorkOffice(u, r)
<1>1. HasCustody(r, o)
  BY DEF WorkOffice
<1>2. PICK s \in Received(StepsOfBatch(steps[r], record[r].batch)) : s.to = o
  BY <1>1, CustodyIsReceived
<1>3. s \in StepsOfBatch(steps[r], record[r].batch) /\ s.receivedAt # 0
  BY <1>2 DEF Received
<1>4. s.receivedAt \in Nat /\ s.receivedAt <= Len(timeline[r]) /\ Len(timeline[r]) \in Nat
  <2>1. s \in steps[r] /\ s \in Step
    BY <1>3, RecordTraced DEF StepsOfBatch
  <2>2. Len(timeline[r]) \in Nat
    BY RecordTraced
  <2> QED BY <2>1, <2>2, RecordTraced DEF Sound, Step
<1>5. s.receivedAt \in 1..Len(timeline[r])
  BY <1>3, <1>4
<1> QED BY <1>2, <1>3, <1>5 DEF Signed

\* Remarks, attachments, uploaded versions and the confirmed start of work.
LEMMA WorkedTraced ==
    ASSUME CustodyInv, NEW r \in Records, NEW u \in Users, Worked(r, u)
    PROVE  Traced(record'[r], steps'[r], timeline'[r]) /\ Filed(r)'
<1> DEFINE e   == Entry("WORK", record[r].batch, u, WorkOffice(u, r))
           log == Append(timeline[r], e)
<1>1. /\ record'[r] = Recalculated(record[r], steps[r], log)
      /\ steps'[r] = steps[r] /\ timeline'[r] = log
      /\ r \in filed' <=> r \in filed
  BY DEF Worked, Became, Logged, SameFiling
<1>2. e \in Activity /\ e.workOffice = WorkOffice(u, r) /\ e.batch = record[r].batch
  <2>1. e \in Activity
    BY RecordTraced, RecordSound, OfficeTypes, EntryType DEF Events
  <2> QED BY <2>1 DEF Entry
<1> HIDE DEF e
<1>3. Sound(record[r], steps[r], log)
  BY <1>2, RecordTraced, AppendSound
<1>4. Credited(steps[r], log)
  BY <1>2, RecordTraced, WorkIsSigned, AppendCredited DEF Traced
<1>5. Traced(record'[r], steps[r], log)
  BY <1>1, <1>3, <1>4, RecordTraced, RecalculatedTraced DEF Traced
<1>6. Filed(r)'
  BY <1>1, <1>3, RecordTraced, RecalculatedRow
     DEF Filed, ActiveStatuses, CompletedStatuses
<1> QED BY <1>1, <1>5, <1>6

\* Completing, filing and reopening move no paper.
LEMMA FinishedTraced ==
    ASSUME CustodyInv, NEW r \in Records, NEW u \in Users, NEW event \in Events,
           NEW status \in Statuses \ {"ABSENT", "DRAFT"}, NEW by \in Users \cup {NoUser},
           NEW archived \in BOOLEAN, record[r].batch # 0,
           status \in CompletedStatuses =>
               Received(StepsOfBatch(steps[r], record[r].batch)) # {}
    PROVE  LET row == FinishedRow(record[r], status, by, archived)
               e   == Entry(event, record[r].batch, u, NoOffice)
           IN  /\ Traced(row, steps[r], Append(timeline[r], e))
               /\ Traced(row, steps[r], timeline[r])
               /\ row.status = status /\ row.archived = archived
               /\ e \in Activity
<1> DEFINE row == FinishedRow(record[r], status, by, archived)
           e   == Entry(event, record[r].batch, u, NoOffice)
<1>1. record[r] \in Row
  BY RecordTraced DEF Sound
<1>2. /\ row.status = status /\ row.batch = record[r].batch /\ row.origin = record[r].origin
      /\ row.office = record[r].office /\ row.holder = record[r].holder
      /\ row.archived = archived
  BY <1>1 DEF Row, FinishedRow
<1>3. e \in Activity /\ e.workOffice = NoOffice
  <2>1. record[r].batch \in Nat
    BY <1>1 DEF Row
  <2> QED BY <2>1, EntryType DEF Entry
<1> HIDE DEF row, e
<1>4. Credited(steps[r], Append(timeline[r], e))
  BY <1>3, RecordTraced, AppendCredited DEF Traced
<1>5. Held(row, steps[r]) /\ Linked(row, steps[r])
  BY <1>2, RecordTraced DEF Traced, Held, Linked
<1>6. AtOrigin(row) /\ InHand(row, steps[r])
  BY <1>2 DEF AtOrigin, InHand
<1>7. Traced(row, steps[r], Append(timeline[r], e)) /\ Traced(row, steps[r], timeline[r])
  BY <1>4, <1>5, <1>6, RecordTraced DEF Traced
<1> QED BY <1>2, <1>3, <1>7 DEF row, e

\* Work is completed in somebody's hands.
LEMMA CompletedTraced ==
    ASSUME CustodyInv, NEW r \in Records, NEW u \in Users, CompletedBy(r, u)
    PROVE  Traced(record'[r], steps'[r], timeline'[r]) /\ Filed(r)'
<1> DEFINE row == FinishedRow(record[r], "COMPLETED_PENDING_UPLOAD", u, record[r].archived)
           e   == Entry("COMPLETED", record[r].batch, u, NoOffice)
<1>1. record[r] \in Row /\ record[r].status \in ActiveStatuses
  BY RecordTraced DEF CompletedBy, Sound
<1>2. record'[r] = row
  BY <1>1 DEF CompletedBy, Became, Row, FinishedRow
<1>3. /\ steps'[r] = steps[r] /\ timeline'[r] = Append(timeline[r], e)
      /\ r \in filed' <=> r \in filed
  BY DEF CompletedBy, Became, Logged, SameFiling
<1>4. record[r].batch # 0 /\ Received(StepsOfBatch(steps[r], record[r].batch)) # {}
      /\ record[r].archived \in BOOLEAN
  BY <1>1, RecordTraced DEF Sound, ActiveStatuses, CompletedBy, AnyReceived, CurrentSteps, Row
<1>5. "COMPLETED_PENDING_UPLOAD" \in Statuses \ {"ABSENT", "DRAFT"} /\ "COMPLETED" \in Events
  BY DEF Statuses, CompletedStatuses, Events
<1>6. /\ Traced(row, steps[r], Append(timeline[r], e))
      /\ row.status = "COMPLETED_PENDING_UPLOAD" /\ row.archived = record[r].archived
  BY <1>4, <1>5, FinishedTraced
<1> HIDE DEF row, e
<1>7. Filed(r)'
  BY <1>1, <1>2, <1>3, <1>6, RecordTraced DEF Filed, ActiveStatuses
<1> QED BY <1>2, <1>3, <1>6, <1>7

\* A record is filed once, from the hands it was completed in.
LEMMA FiledTraced ==
    ASSUME CustodyInv, NEW r \in Records, NEW u \in Users, FiledBy(r, u)
    PROVE  Traced(record'[r], steps'[r], timeline'[r]) /\ Filed(r)'
<1> DEFINE by  == record[r].completedBy
           yes == TRUE
           row == FinishedRow(record[r], "COMPLETED", by, yes)
           e   == Entry("ARCHIVED", record[r].batch, u, NoOffice)
<1>1. record[r] \in Row /\ record[r].status = "COMPLETED_PENDING_UPLOAD"
  BY RecordTraced DEF FiledBy, Sound
<1>2. record'[r] = row /\ by \in Users \cup {NoUser}
  BY <1>1 DEF FiledBy, Became, Row, FinishedRow
<1>3. steps'[r] = steps[r] /\ timeline'[r] = Append(timeline[r], e) /\ r \in filed'
  BY DEF FiledBy, Became, Logged
<1>4. record[r].batch # 0 /\ Received(StepsOfBatch(steps[r], record[r].batch)) # {}
  BY <1>1, RecordTraced DEF Sound, Traced, InHand, CompletedStatuses
<1>5. "COMPLETED" \in Statuses \ {"ABSENT", "DRAFT"} /\ "ARCHIVED" \in Events
  BY DEF Statuses, CompletedStatuses, Events
<1>6. yes \in BOOLEAN
  OBVIOUS
<1> HIDE DEF by, yes
<1>7. /\ Traced(row, steps[r], Append(timeline[r], e))
      /\ row.status = "COMPLETED" /\ row.archived = yes
  BY <1>2, <1>4, <1>5, <1>6, FinishedTraced
<1> HIDE DEF row
<1>8. Filed(r)'
  BY <1>2, <1>3, <1>7 DEF Filed, yes
<1> QED BY <1>2, <1>3, <1>7, <1>8

\* A reopened record goes back to the hands its steps give it.
LEMMA ReopenedTraced ==
    ASSUME CustodyInv, NEW r \in Records, NEW u \in Users, ReopenedBy(r, u)
    PROVE  Traced(record'[r], steps'[r], timeline'[r]) /\ Filed(r)'
<1> DEFINE no  == FALSE
           row == FinishedRow(record[r], "RECEIVED", NoUser, no)
           e   == Entry("REOPENED", record[r].batch, u, NoOffice)
           new == Recalculated(row, steps[r], timeline[r])
<1>1. /\ record[r] \in Row /\ record[r].status = "COMPLETED_PENDING_UPLOAD" /\ r \notin filed
  BY RecordTraced DEF ReopenedBy, Sound
<1>2. /\ record'[r] = new /\ steps'[r] = steps[r] /\ timeline'[r] = Append(timeline[r], e)
      /\ r \in filed' <=> r \in filed
  BY DEF ReopenedBy, Became, Logged, ReopenedRow, FinishedRow, SameFiling
<1>3. record[r].batch # 0
  BY <1>1, RecordTraced DEF Sound
<1>4. "RECEIVED" \in Statuses \ ({"ABSENT", "DRAFT"} \cup CompletedStatuses)
      /\ "REOPENED" \in Events /\ "RECEIVED" \in ActiveStatuses
  BY DEF Statuses, ActiveStatuses, CompletedStatuses, Events
<1>4a. no \in BOOLEAN
  OBVIOUS
<1> HIDE DEF no
<1>5. /\ Traced(row, steps[r], timeline[r])
      /\ row.status = "RECEIVED" /\ row.archived = no /\ e \in Activity
  BY <1>3, <1>4, <1>4a, FinishedTraced
<1>6. Sound(row, steps[r], timeline[r])
  BY <1>3, <1>4, <1>4a, RecordTraced, FinishedSound
<1> HIDE DEF row
<1>7. Traced(new, steps[r], timeline[r])
  BY <1>5, <1>6, RecalculatedTraced DEF Traced
<1>8. new.archived = no /\ new.status \in ActiveStatuses
  BY <1>4, <1>5, <1>6, RecalculatedRow
<1>9. e.workOffice = NoOffice
  BY DEF Entry
<1> HIDE DEF new, e
<1>10. Traced(new, steps[r], Append(timeline[r], e))
  <2>1. Credited(steps[r], Append(timeline[r], e))
    BY <1>5, <1>9, RecordTraced, AppendCredited DEF Traced
  <2> QED BY <1>7, <2>1 DEF Traced
<1>12. Filed(r)'
  BY <1>1, <1>2, <1>8 DEF Filed, ActiveStatuses, no
<1> QED BY <1>2, <1>10, <1>12

-----------------------------------------------------------------------------
(* Custody: what is cached of it and what the history proves *)

\* Before any record is created there is nothing to trace.
LEMMA InitCustodyInv == Init => CustodyInv
<1> SUFFICES ASSUME Init
             PROVE  CustodyInv
  OBVIOUS
<1>1. AbsentRow.status = "ABSENT" /\ AbsentRow.batch = 0 /\ AbsentRow.archived = FALSE
  BY DEF AbsentRow
<1>2. Traced(AbsentRow, {}, <<>>)
  BY <1>1 DEF Traced, Held, OneSender, OneAddress, Linked, AtOrigin, Credited, InHand,
              CompletedStatuses
<1>3. ASSUME NEW r \in Records
      PROVE  Traced(record[r], steps[r], timeline[r]) /\ Filed(r)
  <2>1. record[r] = AbsentRow /\ steps[r] = {} /\ timeline[r] = <<>> /\ r \notin filed
    BY DEF Init
  <2> QED BY <1>1, <1>2, <2>1 DEF Filed
<1> QED BY <1>3, InitIInv DEF CustodyInv

\* A record that nobody moved keeps its part of the invariant.
LEMMA KeptTraced ==
    ASSUME CustodyInv, NEW r \in Records, Kept(r)
    PROVE  Traced(record'[r], steps'[r], timeline'[r]) /\ Filed(r)'
BY RecordTraced DEF Kept, Became, SameFiling, Filed

\* Every step of every service keeps the invariant.
LEMMA NextCustodyInv == CustodyInv /\ [Next]_vars => CustodyInv'
<1> SUFFICES ASSUME CustodyInv, [Next]_vars
             PROVE  CustodyInv'
  OBVIOUS
<1>1. IInv /\ IInv'
  BY NextIInv DEF CustodyInv
<1>2. ASSUME NEW r \in Records
      PROVE  Traced(record'[r], steps'[r], timeline'[r]) /\ Filed(r)'
  <2>1. Moved(r)
    BY <1>1, StepMovesEach
  <2>2. CASE Kept(r)
    BY <2>2, KeptTraced
  <2>3. CASE \E u \in Users, o \in Offices : Drafted(r, u, o)
    BY <2>3, DraftedTraced
  <2>4. CASE \E u \in Users, action \in RoutingActions, dest \in SUBSET Offices :
                 Routed(r, u, action, dest)
    BY <2>4, RoutedTraced
  <2>5. ASSUME NEW u \in Users,
               \/ Receipted(r, u) \/ Worked(r, u) \/ CompletedBy(r, u)
               \/ FiledBy(r, u) \/ ReopenedBy(r, u)
        PROVE  Traced(record'[r], steps'[r], timeline'[r]) /\ Filed(r)'
    BY <2>5, ReceiptedTraced, WorkedTraced, CompletedTraced, FiledTraced, ReopenedTraced
  <2> QED BY <2>1, <2>2, <2>3, <2>4, <2>5 DEF Moved, MovedBy
<1> QED BY <1>1, <1>2 DEF CustodyInv

\* Every reachable state satisfies the custody invariant.
THEOREM CustodyInductive == Spec => []CustodyInv
BY InitCustodyInv, NextCustodyInv, PTL DEF Spec

\* The invariant of one record is what the properties say of it.
LEMMA CustodyInvImplies == CustodyInv => CachesAgree /\ ChainOfCustody /\ FiledWhenCompleted
<1> SUFFICES ASSUME CustodyInv
             PROVE  CachesAgree /\ ChainOfCustody /\ FiledWhenCompleted
  OBVIOUS
<1>1. IInv
  BY DEF CustodyInv
<1>2. CustodyIsCached
  BY RecordTraced DEF CustodyIsCached, Traced, Held, CurrentSteps
<1>3. CustodyChain
  BY RecordTraced DEF CustodyChain, Traced, Linked
<1>4. BatchHasOneSender
  BY RecordTraced DEF BatchHasOneSender, Traced, OneSender
<1>5. WorkFollowsReceipt
  <2> SUFFICES ASSUME NEW r \in Records, NEW i \in 1..Len(timeline[r]),
                      timeline[r][i].workOffice # NoOffice
               PROVE  \E s \in StepsOfBatch(steps[r], timeline[r][i].batch) :
                          /\ s.to = timeline[r][i].workOffice
                          /\ s.receivedAt \in 1..(i - 1)
    BY DEF WorkFollowsReceipt
  <2>1. Credited(steps[r], timeline[r])
    BY RecordTraced DEF Traced
  <2>2. Signed(steps[r], timeline[r][i].batch, timeline[r][i].workOffice, i - 1)
    BY <2>1 DEF Credited
  <2> QED BY <2>2 DEF Signed
<1>6. FiledWhenCompleted
  BY RecordTraced DEF FiledWhenCompleted, Traced, InHand, Filed, CurrentSteps
<1> QED BY <1>1, <1>2, <1>3, <1>4, <1>5, <1>6, IInvImplies DEF CachesAgree, ChainOfCustody

\* Whatever services run on however many records, offices and users, the cached
\* status, office and holder of a record are those its routing steps give it.
THEOREM CachesCorrect == Spec => []CachesAgree
BY CustodyInductive, CustodyInvImplies, PTL

\* The routing history of every record is an unbroken chain of offices that had
\* the paper, and work is credited only to offices that had signed for it.
THEOREM ChainUnbroken == Spec => []ChainOfCustody
BY CustodyInductive, CustodyInvImplies, PTL

-----------------------------------------------------------------------------
(* What a recalculation leaves alone *)

\* Receipts, work and a reopening keep the batch of a record; only a reopening
\* forgets who had completed it.
LEMMA RowKept ==
    ASSUME CustodyInv, NEW r \in Records, NEW u \in Users
    PROVE  /\ Receipted(r, u) \/ Worked(r, u) \/ ReopenedBy(r, u) =>
                record'[r].batch = record[r].batch
           /\ Receipted(r, u) \/ Worked(r, u) =>
                record'[r].completedBy = record[r].completedBy
           /\ ReopenedBy(r, u) => record'[r].completedBy = NoUser
<1>1. IInv /\ record[r] \in Row
  BY RecordTraced DEF Sound
<1>2. ASSUME Receipted(r, u)
      PROVE  record'[r].batch = record[r].batch /\ record'[r].completedBy = record[r].completedBy
  <2>1. Sound(record[r], ReceiptSteps(u, r), ReceiptLog(u, r))
    BY <1>1, <1>2, ReceiptSound DEF Receipted
  <2> QED BY <1>2, <2>1, RecalculatedRow DEF Receipted, Became, ReceiptRow
<1>3. ASSUME Worked(r, u)
      PROVE  record'[r].batch = record[r].batch /\ record'[r].completedBy = record[r].completedBy
  <2> DEFINE e == Entry("WORK", record[r].batch, u, WorkOffice(u, r))
  <2>1. e \in Activity
    BY <1>1, RecordSound, OfficeTypes, EntryType DEF Events
  <2> HIDE DEF e
  <2>2. Sound(record[r], steps[r], Append(timeline[r], e))
    BY <2>1, RecordTraced, AppendSound
  <2> QED BY <1>3, <2>2, RecalculatedRow DEF Worked, Became, Logged, e
<1>4. ASSUME ReopenedBy(r, u)
      PROVE  record'[r].batch = record[r].batch /\ record'[r].completedBy = NoUser
  <2> DEFINE no  == FALSE
             row == FinishedRow(record[r], "RECEIVED", NoUser, no)
  <2>1. record'[r] = Recalculated(row, steps[r], timeline[r])
    BY <1>4 DEF ReopenedBy, Became, ReopenedRow, FinishedRow
  <2>2. no \in BOOLEAN
    OBVIOUS
  <2>3. record[r].batch # 0
    BY <1>4, RecordTraced DEF Sound, ReopenedBy
  <2>4. "RECEIVED" \in Statuses \ ({"ABSENT", "DRAFT"} \cup CompletedStatuses)
    BY DEF Statuses, ActiveStatuses, CompletedStatuses
  <2> HIDE DEF no
  <2>5. Sound(row, steps[r], timeline[r])
    BY <2>2, <2>3, <2>4, RecordTraced, FinishedSound
  <2>6. row.completedBy = NoUser /\ row.batch = record[r].batch
    BY <1>1 DEF Row, FinishedRow
  <2> HIDE DEF row
  <2> QED BY <2>1, <2>5, <2>6, RecalculatedRow
<1> QED BY <1>2, <1>3, <1>4

-----------------------------------------------------------------------------
(* The history *)

\* What HistoryIsAppendOnly says of one record.
Extended(r) ==
    /\ Len(timeline'[r]) >= Len(timeline[r])
    /\ \A i \in 1..Len(timeline[r]) : timeline'[r][i] = timeline[r][i]
    /\ \A s \in steps[r] :
        \/ s \in steps'[r]
        \/ /\ s \in Outstanding(CurrentSteps(r))
           /\ \E t \in Received(steps'[r]) :
                t.batch = s.batch /\ t.from = s.from /\ t.to = s.to

\* A timeline with one more entry begins with the old one.
LEMMA LogExtends ==
    ASSUME NEW log \in Seq(Activity), NEW e
    PROVE  /\ Len(Append(log, e)) >= Len(log)
           /\ \A i \in 1..Len(log) : Append(log, e)[i] = log[i]
OBVIOUS

\* A receipt replaces the outstanding step it is for, and no other.
LEMMA ReceiptExtends ==
    ASSUME CustodyInv, NEW r \in Records, NEW u \in Users, Receipted(r, u)
    PROVE  Extended(r)
<1> DEFINE s   == ReceivedStep(u, r)
           e   == Entry("RECEIVED", record[r].batch, u, NoOffice)
           at  == Len(timeline[r]) + 1
           got == WithReceipt(s, u, at)
<1>1. CanConfirm(u, r) /\ steps'[r] = ReceiptSteps(u, r) /\ timeline'[r] = ReceiptLog(u, r)
  BY DEF Receipted, Became
<1>2. /\ timeline'[r] = Append(timeline[r], e)
      /\ steps'[r] = (steps[r] \ {s}) \cup {got}
      /\ s \in Outstanding(CurrentSteps(r)) /\ s \in Step
  BY <1>1, RecordTraced, ReceiptSound DEF PendingSteps, StepsOfBatch
<1>3. at \in Nat /\ at # 0
  BY RecordTraced
<1>4. /\ got.batch = s.batch /\ got.from = s.from /\ got.to = s.to
      /\ got.receivedAt # 0
  BY <1>2, <1>3, ReceiptOfStep
<1> HIDE DEF s, got, e
<1>5. got \in Received(steps'[r])
  BY <1>2, <1>4 DEF Received
<1>6. ASSUME NEW t \in steps[r]
      PROVE  t \in steps'[r] \/ t = s
  BY <1>2
<1> QED BY <1>2, <1>4, <1>5, <1>6, RecordTraced, LogExtends DEF Extended

\* Every move but a draft leaves the steps there were or receives one of them.
LEMMA StepExtends ==
    ASSUME CustodyInv, [Next]_vars, NEW r \in Records
    PROVE  Extended(r)
<1>1. Moved(r) /\ timeline[r] \in Seq(Activity)
  BY StepMovesEach, RecordTraced
<1>2. CASE Kept(r)
  BY <1>1, <1>2 DEF Kept, Became, Extended
<1>3. ASSUME NEW u \in Users, NEW o \in Offices, Drafted(r, u, o)
      PROVE  Extended(r)
  <2>1. steps[r] = {}
    BY <1>3, RecordTraced, NoBatchNoSteps DEF Drafted, Sound
  <2>2. timeline'[r] = Append(timeline[r], Entry("CREATED", 0, u, NoOffice))
    BY <1>3 DEF Drafted, Became, Logged
  <2> QED BY <1>1, <2>1, <2>2, LogExtends DEF Extended
<1>4. ASSUME NEW u \in Users, NEW action \in RoutingActions, NEW dest \in SUBSET Offices,
             Routed(r, u, action, dest)
      PROVE  Extended(r)
  <2> DEFINE e == Entry("ROUTED", NextBatch(r), u, NoOffice)
  <2>1. /\ timeline'[r] = Append(timeline[r], e)
        /\ steps[r] \subseteq steps'[r]
    BY <1>4 DEF Routed, Became, Logged
  <2> HIDE DEF e
  <2> QED BY <1>1, <2>1, LogExtends DEF Extended
<1>5. ASSUME NEW u \in Users, Receipted(r, u)
      PROVE  Extended(r)
  BY <1>5, ReceiptExtends
<1>6. ASSUME NEW u \in Users,
             Worked(r, u) \/ CompletedBy(r, u) \/ FiledBy(r, u) \/ ReopenedBy(r, u)
      PROVE  Extended(r)
  <2>1. steps'[r] = steps[r]
    BY <1>6 DEF Worked, CompletedBy, FiledBy, ReopenedBy, Became
  <2>2. PICK event, work : timeline'[r] = Append(timeline[r], Entry(event, record[r].batch, u, work))
    BY <1>6 DEF Worked, CompletedBy, FiledBy, ReopenedBy, Became, Logged
  <2> QED BY <1>1, <2>1, <2>2, LogExtends DEF Extended
<1> QED BY <1>1, <1>2, <1>3, <1>4, <1>5, <1>6 DEF Moved, MovedBy

\* No service, however often it runs, loses or rewrites an entry or a step.
THEOREM HistoryKept == Spec => HistoryIsAppendOnly
<1>1. CustodyInv /\ [Next]_vars => [\A r \in Records : Extended(r)]_vars
  BY StepExtends
<1>2. CustodyInv /\ [Next]_vars =>
      [\A r \in Records :
        /\ Len(timeline'[r]) >= Len(timeline[r])
        /\ \A i \in 1..Len(timeline[r]) : timeline'[r][i] = timeline[r][i]
        /\ \A s \in steps[r] :
            \/ s \in steps'[r]
            \/ /\ s \in Outstanding(CurrentSteps(r))
               /\ \E t \in Received(steps'[r]) :
                    t.batch = s.batch /\ t.from = s.from /\ t.to = s.to]_vars
  BY <1>1 DEF Extended
<1> QED BY <1>2, CustodyInductive, PTL DEF Spec, HistoryIsAppendOnly

-----------------------------------------------------------------------------
(* Tracking implements Custody: the abstract values of one record *)

Unmoved(r) == Sender(r)' = Sender(r) /\ Holders(r)' = Holders(r) /\ Awaited(r)' = Awaited(r)

\* The abstract values depend on the batch, the origin and the steps alone.
LEMMA SameSteps ==
    ASSUME NEW r \in Records, steps'[r] = steps[r],
           record'[r].batch = record[r].batch, record'[r].origin = record[r].origin
    PROVE  Unmoved(r)
<1>1. CurrentSteps(r)' = CurrentSteps(r)
  BY DEF CurrentSteps, StepsOfBatch
<1> QED BY <1>1 DEF Unmoved, Sender, Holders, Awaited, Addressees, Received, Outstanding

LEMMA KeptValues ==
    ASSUME NEW r \in Records, Kept(r)
    PROVE  Phase(r)' = Phase(r) /\ Unmoved(r)
<1>1. record'[r] = record[r] /\ steps'[r] = steps[r]
  BY DEF Kept, Became
<1> QED BY <1>1, SameSteps DEF Phase

\* The phases of the statuses of a record.
LEMMA Phases ==
    ASSUME NEW status \in Statuses
    PROVE  /\ status = "ABSENT" <=> PhaseOf(status) = "none"
           /\ status = "DRAFT" <=> PhaseOf(status) = "preparing"
           /\ status \in ActiveStatuses <=> PhaseOf(status) = "moving"
           /\ status = "COMPLETED_PENDING_UPLOAD" <=> PhaseOf(status) = "finished"
           /\ status = "COMPLETED" <=> PhaseOf(status) = "filed"
BY DEF Statuses, ActiveStatuses, CompletedStatuses, PhaseOf

\* Recalculating a record changes neither its phase nor its abstract custody.
LEMMA WorkedValues ==
    ASSUME CustodyInv, NEW r \in Records, NEW u \in Users, Worked(r, u)
    PROVE  Phase(r)' = Phase(r) /\ Unmoved(r)
<1> DEFINE log == Logged(r, Entry("WORK", record[r].batch, u, WorkOffice(u, r)))
           new == Recalculated(record[r], steps[r], log)
<1>1. record'[r] = new /\ steps'[r] = steps[r]
  BY DEF Worked, Became
<1>2. Sound(record[r], steps[r], log)
  <2>1. Entry("WORK", record[r].batch, u, WorkOffice(u, r)) \in Activity
    BY RecordTraced, RecordSound, OfficeTypes, EntryType DEF Events
  <2> QED BY <2>1, RecordTraced, AppendSound DEF Logged
<1> HIDE DEF log
<1>3. /\ new.batch = record[r].batch /\ new.origin = record[r].origin
      /\ record[r].status \notin ActiveStatuses => new = record[r]
      /\ record[r].status \in ActiveStatuses => new.status \in ActiveStatuses
  BY <1>2, RecalculatedRow
<1>4. record[r].status \in Statuses /\ ActiveStatuses \subseteq Statuses
  BY RecordTraced DEF Sound, Row, Statuses
<1> HIDE DEF new
<1>5. Phase(r)' = Phase(r)
  BY <1>1, <1>3, <1>4, Phases DEF Phase
<1> QED BY <1>1, <1>3, <1>5, SameSteps

LEMMA DraftedValues ==
    ASSUME CustodyInv, NEW r \in Records, NEW u \in Users, NEW o \in Offices,
           Drafted(r, u, o)
    PROVE  /\ Phase(r) = "none" /\ Phase(r)' = "preparing"
           /\ Sender(r)' = o
           /\ Holders(r)' = Holders(r) /\ Awaited(r)' = Awaited(r)
<1>1. /\ record[r].status = "ABSENT" /\ record'[r].status = "DRAFT"
      /\ record'[r].origin = o /\ record'[r].batch = 0 /\ steps'[r] = {}
  BY DEF Drafted, Became, AbsentRow
<1>2. steps[r] = {}
  BY <1>1, RecordTraced, NoBatchNoSteps DEF Sound
<1>3. CurrentSteps(r) = {} /\ CurrentSteps(r)' = {}
  BY <1>1, <1>2 DEF CurrentSteps, StepsOfBatch
<1>4. Holders(r)' = Holders(r) /\ Awaited(r)' = Awaited(r)
  BY <1>3 DEF Holders, Awaited, Addressees, Received, Outstanding
<1> QED BY <1>1, <1>4 DEF Phase, PhaseOf, Sender, ActiveStatuses

\* The holders and the sender before a routing, in the terms of the promise.
LEMMA RoutedFromHolder ==
    ASSUME CustodyInv, NEW r \in Records, NEW u \in Users, NEW action \in RoutingActions,
           NEW dest \in SUBSET Offices, Routed(r, u, action, dest)
    PROVE  LET from == LeftFrom(r, u, action)
           IN  /\ from \in Offices
               /\ Phase(r) \in {"preparing", "moving"}
               /\ IF Holders(r) = {} THEN from = Sender(r) ELSE from \in Holders(r)
<1> DEFINE from    == LeftFrom(r, u, action)
           current == StepsOfBatch(steps[r], record[r].batch)
<1>1. /\ from \in Offices
      /\ IF record[r].batch = 0 THEN from = record[r].origin
         ELSE IF Received(current) = {}
              THEN current # {} /\ \A t \in current : t.from = from
              ELSE \E t \in Received(current) : t.to = from
  BY SenderHasIt
<1> HIDE DEF from
<1>2. Phase(r) \in {"preparing", "moving"}
  <2>1. /\ record[r].status \in Statuses
        /\ record[r].status \notin CompletedStatuses \cup {"ABSENT"}
    BY RecordTraced DEF Routed, Sound, Row
  <2>2. record[r].status = "DRAFT" \/ record[r].status \in ActiveStatuses
    BY <2>1 DEF Statuses
  <2> QED BY <2>1, <2>2, Phases DEF Phase
<1>3. Holders(r) = {t.to : t \in Received(current)}
  BY DEF Holders, Addressees, CurrentSteps
<1>4. CASE record[r].batch = 0
  <2>1. current = {}
    BY <1>4, RecordTraced, NoBatchNoSteps DEF StepsOfBatch
  <2>2. Holders(r) = {} /\ Sender(r) = record[r].origin
    BY <1>3, <1>4, <2>1 DEF Received, Sender
  <2> QED BY <1>1, <1>2, <1>4, <2>2 DEF from
<1>5. CASE record[r].batch # 0 /\ Received(current) = {}
  <2>1. Holders(r) = {}
    BY <1>3, <1>5
  <2>2. Sender(r) = from
    BY <1>1, <1>5 DEF Sender, BatchSender, CurrentSteps
  <2> QED BY <1>1, <1>2, <2>1, <2>2 DEF from
<1>6. CASE record[r].batch # 0 /\ Received(current) # {}
  <2>1. from \in Holders(r)
    BY <1>1, <1>3, <1>6
  <2> QED BY <1>1, <1>2, <2>1 DEF from
<1> QED BY <1>4, <1>5, <1>6

LEMMA RoutedValues ==
    ASSUME CustodyInv, NEW r \in Records, NEW u \in Users, NEW action \in RoutingActions,
           NEW dest \in SUBSET Offices, Routed(r, u, action, dest)
    PROVE  LET from == LeftFrom(r, u, action)
           IN  /\ dest # {} /\ from \notin dest
               /\ Phase(r)' = "moving" /\ Sender(r)' = from
               /\ Holders(r)' = {} /\ Awaited(r)' = dest
<1> DEFINE from  == LeftFrom(r, u, action)
           b     == NextBatch(r)
           n     == Issued(record[r].origin)
           added == NewSteps(b, from, dest)
           rs    == steps[r] \cup added
           e     == Entry("ROUTED", b, u, NoOffice)
           log   == Append(timeline[r], e)
           row   == RoutedRow(record[r], b, n)
<1>1. /\ record[r].status \notin CompletedStatuses \cup {"ABSENT"}
      /\ dest # {} /\ from \notin dest
      /\ record'[r] = Recalculated(row, rs, log) /\ steps'[r] = rs
  BY DEF Routed, Became, Logged
<1>2. from \in Offices
  BY SenderHasIt
<1>3. n \in Nat /\ b \in Nat /\ Sound(row, rs, log)
  BY <1>1, <1>2, RecordTraced, RouteSound DEF NextBatch
<1>4. b = record[r].batch + 1 /\ b # 0 /\ record[r].batch \in Nat /\ record[r] \in Row
  <2>1. b = record[r].batch + 1 /\ record[r].batch \in Nat /\ record[r] \in Row
    BY RecordTraced, LastBatchIsCurrent DEF NextBatch, Sound, Row
  <2> HIDE DEF b
  <2> QED BY <2>1
<1>5. row.batch = b /\ row.status \in ActiveStatuses
  <2>1. record[r].status = "DRAFT" \/ record[r].status \in ActiveStatuses
    BY <1>1, <1>4 DEF Row, Statuses
  <2> HIDE DEF n, b
  <2> QED BY <1>4, <2>1 DEF RoutedRow, Row, ActiveStatuses
<1>6. /\ \A s \in added : s.batch = b /\ s.from = from /\ s.to \in dest /\ s.receivedAt = 0
      /\ \A o \in dest : \E s \in added : s.to = o
  BY <1>1, <1>2, <1>3, NewBatch
<1>7. \A s \in steps[r] : s.batch # b
  BY <1>4, RecordTraced DEF Sound
<1> HIDE DEF from, added, b, n, e, row
<1>8. record'[r].batch = b /\ record'[r].status \in ActiveStatuses
  BY <1>1, <1>3, <1>5, RecalculatedRow
<1>9. CurrentSteps(r)' = added
  BY <1>1, <1>6, <1>7, <1>8 DEF CurrentSteps, StepsOfBatch
<1>10. Holders(r)' = {} /\ Awaited(r)' = dest
  BY <1>6, <1>9 DEF Holders, Awaited, Addressees, Received, Outstanding
<1>11. Sender(r)' = from
  <2>1. added # {}
    BY <1>1, <1>6
  <2> QED BY <1>4, <1>6, <1>8, <1>9, <2>1 DEF Sender, BatchSender
<1>12. Phase(r)' = "moving"
  <2>1. ActiveStatuses \subseteq Statuses
    BY DEF Statuses
  <2> QED BY <1>8, <2>1, Phases DEF Phase
<1> QED BY <1>1, <1>10, <1>11, <1>12 DEF from

LEMMA ReceiptedValues ==
    ASSUME CustodyInv, NEW r \in Records, NEW u \in Users, Receipted(r, u)
    PROVE  LET o == OfficeOf[u]
           IN  /\ o \in Offices /\ o \in Awaited(r)
               /\ Phase(r) = "moving" /\ Phase(r)' = Phase(r) /\ Sender(r)' = Sender(r)
               /\ Holders(r)' = Holders(r) \cup {o} /\ Awaited(r)' = Awaited(r) \ {o}
<1> DEFINE o   == OfficeOf[u]
           s   == ReceivedStep(u, r)
           at  == Len(timeline[r]) + 1
           got == WithReceipt(s, u, at)
           rs  == (steps[r] \ {s}) \cup {got}
           before == CurrentSteps(r)
           after  == (before \ {s}) \cup {got}
<1>1. /\ CanConfirm(u, r)
      /\ record'[r] = Recalculated(record[r], rs, ReceiptLog(u, r)) /\ steps'[r] = rs
      /\ Sound(record[r], rs, ReceiptLog(u, r))
      /\ s \in before /\ s \in Step /\ s.to = o /\ s.receivedAt = 0
  <2>1. /\ CanConfirm(u, r)
        /\ record'[r] = ReceiptRow(u, r) /\ steps'[r] = ReceiptSteps(u, r)
    BY DEF Receipted, Became
  <2>2. /\ ReceiptSteps(u, r) = rs /\ s \in PendingSteps(u, r)
        /\ Sound(record[r], ReceiptSteps(u, r), ReceiptLog(u, r))
    BY <2>1, RecordTraced, ReceiptSound
  <2>3. s \in before /\ s \in Step /\ s.to = o /\ s.receivedAt = 0
    BY <2>2, RecordTraced DEF PendingSteps, Outstanding, CurrentSteps, StepsOfBatch
  <2>4. record'[r] = Recalculated(record[r], rs, ReceiptLog(u, r))
    BY <2>1, <2>2 DEF ReceiptRow
  <2> QED BY <2>1, <2>2, <2>3, <2>4
<1>2. at \in Nat /\ at # 0
  BY RecordTraced
<1>3. got.batch = s.batch /\ got.from = s.from /\ got.to = o /\ got.receivedAt # 0
  BY <1>1, <1>2, ReceiptOfStep
<1>4. /\ record[r].status \in ActiveStatuses /\ record[r].status \in Statuses
      /\ record[r].batch # 0
  <2>1. /\ record[r] \in Row /\ record[r].status \notin CompletedStatuses \cup {"DRAFT"}
    BY <1>1, RecordTraced DEF CanConfirm, Sound
  <2>2. record[r].batch # 0
    BY <1>1, RecordTraced, NoBatchNoSteps DEF CurrentSteps, StepsOfBatch
  <2>3. record[r].status # "ABSENT"
    BY <2>2, RecordTraced DEF Sound
  <2> QED BY <2>1, <2>2, <2>3 DEF Row, Statuses
<1>5. o \in Offices
  BY <1>1, TrackingAssumption DEF CanConfirm
<1>6. record'[r].batch = record[r].batch /\ record'[r].status \in ActiveStatuses
  BY <1>1, <1>4, RecalculatedRow
<1>7. \A t \in before : t.from = s.from /\ (t.to = o => t = s)
  BY <1>1, RecordTraced DEF Traced, OneSender, OneAddress, CurrentSteps, StepsOfBatch
<1> HIDE DEF s, got, o
<1>8. CurrentSteps(r)' = after
  BY <1>1, <1>3, <1>6 DEF CurrentSteps, StepsOfBatch
<1>9. Received(after) = Received(before) \cup {got}
  BY <1>1, <1>3 DEF Received
<1>10. Outstanding(after) = Outstanding(before) \ {s}
  BY <1>1, <1>3 DEF Outstanding
<1> HIDE DEF after, before
<1>11. Holders(r)' = Holders(r) \cup {o}
  <2>1. Holders(r)' = Addressees(Received(after)) /\ Holders(r) = Addressees(Received(before))
    BY <1>8 DEF Holders, before
  <2> QED BY <1>3, <1>9, <2>1 DEF Addressees
<1>12. Awaited(r)' = Awaited(r) \ {o} /\ o \in Awaited(r)
  <2>1. Awaited(r)' = Addressees(Outstanding(after)) /\ Awaited(r) = Addressees(Outstanding(before))
    BY <1>8 DEF Awaited, before
  <2>2. s \in Outstanding(before) /\ \A t \in Outstanding(before) : t.to = o => t = s
    BY <1>1, <1>7 DEF Outstanding
  <2> QED BY <1>1, <1>10, <2>1, <2>2 DEF Addressees
<1>13. Sender(r)' = Sender(r)
  <2>1. Sender(r) = BatchSender(before) /\ Sender(r)' = BatchSender(after)
    BY <1>4, <1>6, <1>8 DEF Sender, before
  <2>2. \A t \in before : t.from = s.from
    BY <1>7
  <2>3. \A t \in after : t.from = s.from
    BY <1>3, <1>7 DEF after
  <2>4. before # {} /\ after # {}
    BY <1>1 DEF after
  <2> QED BY <2>1, <2>2, <2>3, <2>4 DEF BatchSender
<1>14. Phase(r) = "moving" /\ Phase(r)' = "moving"
  <2>1. ActiveStatuses \subseteq Statuses
    BY DEF Statuses
  <2> QED BY <1>4, <1>6, <2>1, Phases DEF Phase
<1> QED BY <1>5, <1>11, <1>12, <1>13, <1>14 DEF o

\* Completing, filing and reopening move a record from phase to phase only.
LEMMA FinishedValues ==
    ASSUME CustodyInv, NEW r \in Records, NEW u \in Users
    PROVE  /\ CompletedBy(r, u) =>
                /\ Phase(r) = "moving" /\ Phase(r)' = "finished" /\ Holders(r) # {}
                /\ Unmoved(r)
           /\ FiledBy(r, u) =>
                Phase(r) = "finished" /\ Phase(r)' = "filed" /\ Unmoved(r)
           /\ ReopenedBy(r, u) =>
                Phase(r) = "finished" /\ Phase(r)' = "moving" /\ Unmoved(r)
<1>1. record[r] \in Row
  BY RecordTraced DEF Sound
<1>2. ASSUME CompletedBy(r, u)
      PROVE  /\ Phase(r) = "moving" /\ Phase(r)' = "finished" /\ Holders(r) # {}
             /\ Unmoved(r)
  <2>1. /\ record[r].status \in ActiveStatuses /\ Received(CurrentSteps(r)) # {}
        /\ record'[r].status = "COMPLETED_PENDING_UPLOAD" /\ steps'[r] = steps[r]
        /\ record'[r].batch = record[r].batch /\ record'[r].origin = record[r].origin
    BY <1>1, <1>2 DEF CompletedBy, AnyReceived, Became, Row
  <2>2. Holders(r) # {}
    BY <2>1 DEF Holders, Addressees
  <2> QED BY <2>1, <2>2, SameSteps DEF Phase, PhaseOf, ActiveStatuses
<1>3. ASSUME FiledBy(r, u)
      PROVE  Phase(r) = "finished" /\ Phase(r)' = "filed" /\ Unmoved(r)
  <2>1. /\ record[r].status = "COMPLETED_PENDING_UPLOAD"
        /\ record'[r].status = "COMPLETED" /\ steps'[r] = steps[r]
        /\ record'[r].batch = record[r].batch /\ record'[r].origin = record[r].origin
    BY <1>1, <1>3 DEF FiledBy, Became, Row
  <2> QED BY <2>1, SameSteps DEF Phase, PhaseOf, ActiveStatuses
<1>4. ASSUME ReopenedBy(r, u)
      PROVE  Phase(r) = "finished" /\ Phase(r)' = "moving" /\ Unmoved(r)
  <2> DEFINE no  == FALSE
             row == FinishedRow(record[r], "RECEIVED", NoUser, no)
             new == Recalculated(row, steps[r], timeline[r])
  <2>1. /\ record[r].status = "COMPLETED_PENDING_UPLOAD"
        /\ record'[r] = new /\ steps'[r] = steps[r]
    BY <1>4 DEF ReopenedBy, Became, ReopenedRow, FinishedRow
  <2>2. record[r].batch # 0
    BY <2>1, RecordTraced DEF Sound
  <2>3. "RECEIVED" \in Statuses \ {"ABSENT", "DRAFT"} /\ "RECEIVED" \in ActiveStatuses
    BY DEF Statuses, ActiveStatuses
  <2>4. no \in BOOLEAN
    OBVIOUS
  <2> HIDE DEF no
  <2>8. Sound(row, steps[r], timeline[r])
    BY <2>2, <2>3, <2>4, RecordTraced, FinishedSound
  <2>5. /\ row.batch = record[r].batch /\ row.origin = record[r].origin
        /\ row.status = "RECEIVED"
    BY <1>1 DEF FinishedRow, Row
  <2> HIDE DEF row
  <2>6. new.status \in ActiveStatuses /\ new.batch = row.batch /\ new.origin = row.origin
    BY <2>3, <2>5, <2>8, RecalculatedRow
  <2> HIDE DEF new
  <2>7. Unmoved(r)
    BY <2>1, <2>5, <2>6, SameSteps
  <2> QED BY <2>1, <2>6, <2>7 DEF Phase, PhaseOf, ActiveStatuses
<1> QED BY <1>2, <1>3, <1>4

-----------------------------------------------------------------------------
(* Tracking implements Custody: the steps *)

LEMMA InitRefines == Init => Promise!Init
<1> SUFFICES ASSUME Init
             PROVE  Promise!Init
  OBVIOUS
<1>1. ASSUME NEW r \in Records
      PROVE  /\ Phase(r) = "none" /\ Sender(r) = NoOffice
             /\ Holders(r) = {} /\ Awaited(r) = {}
  <2>1. record[r] = AbsentRow /\ steps[r] = {}
    BY <1>1 DEF Init
  <2>2. CurrentSteps(r) = {}
    BY <2>1 DEF CurrentSteps, StepsOfBatch
  <2> QED BY <2>1, <2>2 DEF Phase, PhaseOf, AbsentRow, ActiveStatuses, Sender, Holders,
                            Awaited, Addressees, Received, Outstanding
<1> QED BY <1>1 DEF Promise!Init

\* A step of one record is the step of one document.
LEMMA MoveRefines ==
    ASSUME CustodyInv, NEW r \in Records, MovedBy(r), \A q \in Records \ {r} : Kept(q)
    PROVE  Promise!Next \/ UNCHANGED Promise!custodyVars
<1>1. \A q \in Records \ {r} : Phase(q)' = Phase(q) /\ Unmoved(q)
  BY KeptValues
<1>2. CASE Phase(r)' = Phase(r) /\ Unmoved(r)
  <2>1. \A q \in Records : Phase(q)' = Phase(q) /\ Unmoved(q)
    BY <1>1, <1>2
  <2> QED BY <2>1 DEF Promise!custodyVars, Unmoved
<1>3. ASSUME NEW u \in Users, NEW o \in Offices, Drafted(r, u, o)
      PROVE  Promise!Next
  <2>1. Promise!Prepare(r, o)
    BY <1>1, <1>3, DraftedValues DEF Promise!Prepare, Promise!Move, Unmoved
  <2> QED BY <2>1 DEF Promise!Next
<1>4. ASSUME NEW u \in Users, NEW action \in RoutingActions, NEW dest \in SUBSET Offices,
             Routed(r, u, action, dest)
      PROVE  Promise!Next
  <2> DEFINE from == LeftFrom(r, u, action)
  <2>1. /\ from \in Offices
        /\ Phase(r) \in {"preparing", "moving"}
        /\ IF Holders(r) = {} THEN from = Sender(r) ELSE from \in Holders(r)
    BY <1>4, RoutedFromHolder
  <2>2. /\ dest # {} /\ from \notin dest
        /\ Phase(r)' = "moving" /\ Sender(r)' = from
        /\ Holders(r)' = {} /\ Awaited(r)' = dest
    BY <1>4, RoutedValues
  <2> HIDE DEF from
  <2>3. Promise!Endorse(r, from, dest)
    BY <1>1, <2>1, <2>2 DEF Promise!Endorse, Unmoved
  <2> QED BY <2>1, <2>3 DEF Promise!Next
<1>5. ASSUME NEW u \in Users, Receipted(r, u)
      PROVE  Promise!Next
  <2>1. Promise!Receive({r}, OfficeOf[u])
    BY <1>1, <1>5, ReceiptedValues DEF Promise!Receive, Unmoved
  <2> QED BY <1>5, <2>1, ReceiptedValues DEF Promise!Next
<1>6. ASSUME NEW u \in Users, CompletedBy(r, u)
      PROVE  Promise!Next
  <2>1. Promise!Finish(r)
    BY <1>1, <1>6, FinishedValues DEF Promise!Finish, Promise!Move, Unmoved
  <2> QED BY <2>1 DEF Promise!Next
<1>7. ASSUME NEW u \in Users, FiledBy(r, u)
      PROVE  Promise!Next
  <2>1. Promise!File(r)
    BY <1>1, <1>7, FinishedValues DEF Promise!File, Promise!Move, Unmoved
  <2> QED BY <2>1 DEF Promise!Next
<1>8. ASSUME NEW u \in Users, ReopenedBy(r, u)
      PROVE  Promise!Next
  <2>1. Promise!Reopen(r)
    BY <1>1, <1>8, FinishedValues DEF Promise!Reopen, Promise!Move, Unmoved
  <2> QED BY <2>1 DEF Promise!Next
<1> QED BY <1>2, <1>3, <1>4, <1>5, <1>6, <1>7, <1>8, WorkedValues DEF MovedBy

\* A receipt of several records is the receipt of several documents.
LEMMA BulkRefines ==
    ASSUME CustodyInv, NEW rr \in SUBSET Records, NEW u \in Users,
           \A q \in Records : IF q \in rr THEN Receipted(q, u) ELSE Kept(q)
    PROVE  Promise!Next \/ UNCHANGED Promise!custodyVars
<1>1. \A q \in Records \ rr : Phase(q)' = Phase(q) /\ Unmoved(q)
  BY KeptValues
<1>2. CASE rr = {}
  <2>1. \A q \in Records : Phase(q)' = Phase(q) /\ Unmoved(q)
    BY <1>1, <1>2
  <2> QED BY <2>1 DEF Promise!custodyVars, Unmoved
<1>3. CASE rr # {}
  <2> DEFINE o == OfficeOf[u]
  <2>1. \A q \in rr :
            /\ o \in Offices /\ o \in Awaited(q)
            /\ Phase(q) = "moving" /\ Phase(q)' = Phase(q) /\ Sender(q)' = Sender(q)
            /\ Holders(q)' = Holders(q) \cup {o} /\ Awaited(q)' = Awaited(q) \ {o}
    BY ReceiptedValues
  <2> HIDE DEF o
  <2>2. Promise!Receive(rr, o)
    BY <1>1, <2>1 DEF Promise!Receive, Unmoved
  <2>3. o \in Offices
    BY <1>3, <2>1
  <2> QED BY <2>2, <2>3 DEF Promise!Next
<1> QED BY <1>2, <1>3

LEMMA StepRefines == CustodyInv /\ [Next]_vars => [Promise!Next]_Promise!custodyVars
<1> SUFFICES ASSUME CustodyInv, [Next]_vars
             PROVE  Promise!Next \/ UNCHANGED Promise!custodyVars
  OBVIOUS
<1>1. SystemMoves
  BY StepMoves DEF CustodyInv
<1>2. CASE \A q \in Records : Kept(q)
  BY <1>2, KeptValues DEF Promise!custodyVars, Unmoved
<1> QED BY <1>1, <1>2, MoveRefines, BulkRefines DEF SystemMoves

\* Every behaviour of the services, for any number of records, offices and
\* users, is one the custody promise allows.
THEOREM TrackingImplementsCustody == Spec => ImplementsCustody
BY CustodyInductive, InitRefines, StepRefines, PTL DEF Spec, ImplementsCustody, Promise!Spec

-----------------------------------------------------------------------------
(* The register of tracking numbers *)

SameNumber(r) ==
    /\ record'[r].number = record[r].number
    /\ record[r].number # 0 => record'[r].origin = record[r].origin

\* The first dispatch of a draft takes the next number of its origin.
TakesNumber(r) ==
    LET o == record[r].origin
    IN  /\ o \in Offices /\ record[r].number = 0
        /\ record'[r].origin = o /\ record'[r].number = lastNumber[o] + 1
        /\ lastNumber' = [lastNumber EXCEPT ![o] = @ + 1]

\* A routing numbers a draft and leaves every other number alone.
LEMMA RoutedNumber ==
    ASSUME CustodyInv, NEW r \in Records, NEW u \in Users, NEW action \in RoutingActions,
           NEW dest \in SUBSET Offices, Routed(r, u, action, dest)
    PROVE  TakesNumber(r) \/ (SameNumber(r) /\ UNCHANGED lastNumber)
<1> DEFINE from == LeftFrom(r, u, action)
           b    == NextBatch(r)
           n    == Issued(record[r].origin)
           rs   == steps[r] \cup NewSteps(b, from, dest)
           log  == Append(timeline[r], Entry("ROUTED", b, u, NoOffice))
           row  == RoutedRow(record[r], b, n)
<1>1. /\ record[r].status \notin CompletedStatuses \cup {"ABSENT"} /\ dest # {}
      /\ record'[r] = Recalculated(row, rs, log)
      /\ lastNumber' = IF record[r].status = "DRAFT"
                       THEN [lastNumber EXCEPT ![record[r].origin] = n] ELSE lastNumber
  BY DEF Routed, Became, Logged
<1>2. from \in Offices
  BY SenderHasIt
<1>3. n \in Nat /\ Sound(row, rs, log)
  BY <1>1, <1>2, RecordTraced, RouteSound DEF NextBatch
<1> HIDE DEF rs, log, b
<1>4. record'[r].number = row.number /\ record'[r].origin = row.origin
  BY <1>1, <1>3, RecalculatedRow
<1>5. /\ record[r] \in Row /\ record[r].origin \in Offices
      /\ record[r].status = "DRAFT" => record[r].number = 0
  BY <1>1, RecordTraced DEF Sound
<1>6. CASE record[r].status = "DRAFT"
  <2>1. row.number = n /\ row.origin = record[r].origin
    <3> HIDE DEF n
    <3> QED BY <1>5, <1>6 DEF RoutedRow, Row
  <2> QED BY <1>1, <1>4, <1>5, <1>6, <2>1 DEF TakesNumber, Issued
<1>7. CASE record[r].status # "DRAFT"
  <2>1. row.number = record[r].number /\ row.origin = record[r].origin
    <3> HIDE DEF n
    <3> QED BY <1>5, <1>7 DEF RoutedRow, Row
  <2> QED BY <1>1, <1>4, <1>7, <2>1 DEF SameNumber
<1> QED BY <1>6, <1>7

\* No other service touches a number, or the origin of a numbered record.
LEMMA OtherNumbers ==
    ASSUME CustodyInv, NEW r \in Records, NEW u \in Users,
           \/ \E o \in Offices : Drafted(r, u, o)
           \/ Receipted(r, u) \/ Worked(r, u)
           \/ CompletedBy(r, u) \/ FiledBy(r, u) \/ ReopenedBy(r, u)
    PROVE  SameNumber(r) /\ UNCHANGED lastNumber
<1>1. record[r] \in Row /\ UNCHANGED lastNumber
  BY RecordTraced DEF Drafted, Receipted, Worked, CompletedBy, FiledBy, ReopenedBy, Sound
<1>2. ASSUME NEW o \in Offices, Drafted(r, u, o)
      PROVE  SameNumber(r)
  <2>1. record[r].number = 0
    BY <1>2, RecordTraced DEF Drafted, Sound
  <2> QED BY <1>2, <2>1 DEF Drafted, Became, AbsentRow, SameNumber
<1>3. ASSUME Receipted(r, u)
      PROVE  SameNumber(r)
  <2>1. /\ record'[r] = Recalculated(record[r], ReceiptSteps(u, r), ReceiptLog(u, r))
        /\ Sound(record[r], ReceiptSteps(u, r), ReceiptLog(u, r))
    BY <1>3, RecordTraced, ReceiptSound DEF Receipted, Became, ReceiptRow
  <2> QED BY <2>1, RecalculatedRow DEF SameNumber
<1>4. ASSUME Worked(r, u)
      PROVE  SameNumber(r)
  <2> DEFINE e == Entry("WORK", record[r].batch, u, WorkOffice(u, r))
  <2>1. record'[r] = Recalculated(record[r], steps[r], Append(timeline[r], e))
    BY <1>4 DEF Worked, Became, Logged
  <2>2. e \in Activity
    BY RecordTraced, RecordSound, OfficeTypes, EntryType DEF Events
  <2> HIDE DEF e
  <2>3. Sound(record[r], steps[r], Append(timeline[r], e))
    BY <2>2, RecordTraced, AppendSound
  <2> QED BY <2>1, <2>3, RecalculatedRow DEF SameNumber
<1>5. ASSUME CompletedBy(r, u)
      PROVE  SameNumber(r)
  BY <1>1, <1>5 DEF CompletedBy, Became, Row, SameNumber
<1>6. ASSUME FiledBy(r, u)
      PROVE  SameNumber(r)
  BY <1>1, <1>6 DEF FiledBy, Became, Row, SameNumber
<1>7. ASSUME ReopenedBy(r, u)
      PROVE  SameNumber(r)
  <2> DEFINE no  == FALSE
             row == FinishedRow(record[r], "RECEIVED", NoUser, no)
  <2>1. record'[r] = Recalculated(row, steps[r], timeline[r])
    BY <1>7 DEF ReopenedBy, Became, ReopenedRow, FinishedRow
  <2>2. record[r].batch # 0
    BY <1>7, RecordTraced DEF ReopenedBy, Sound
  <2>3. "RECEIVED" \in Statuses \ {"ABSENT", "DRAFT"} /\ no \in BOOLEAN
    BY DEF Statuses, ActiveStatuses
  <2>4. row.number = record[r].number /\ row.origin = record[r].origin
    BY <1>1 DEF FinishedRow, Row
  <2> HIDE DEF no
  <2>5. Sound(row, steps[r], timeline[r])
    BY <2>2, <2>3, RecordTraced, FinishedSound
  <2> HIDE DEF row
  <2> QED BY <2>1, <2>4, <2>5, RecalculatedRow DEF SameNumber
<1> QED BY <1>1, <1>2, <1>3, <1>4, <1>5, <1>6, <1>7

\* A step takes at most one number, for one draft.
LEMMA StepNumbers ==
    ASSUME CustodyInv, [Next]_vars
    PROVE  \/ (\A q \in Records : SameNumber(q)) /\ UNCHANGED lastNumber
           \/ \E r \in Records : TakesNumber(r) /\ \A q \in Records \ {r} : SameNumber(q)
<1>1. SystemMoves
  BY StepMoves DEF CustodyInv
<1>2. \A q \in Records : Kept(q) => SameNumber(q)
  BY DEF Kept, Became, SameNumber
<1>3. ASSUME NEW r \in Records, MovedBy(r)
      PROVE  TakesNumber(r) \/ (SameNumber(r) /\ UNCHANGED lastNumber)
  BY <1>3, RoutedNumber, OtherNumbers DEF MovedBy
<1>4. ASSUME NEW r \in Records, MovedBy(r), \A q \in Records \ {r} : Kept(q)
      PROVE  \/ (\A q \in Records : SameNumber(q)) /\ UNCHANGED lastNumber
             \/ TakesNumber(r) /\ \A q \in Records \ {r} : SameNumber(q)
  BY <1>2, <1>3, <1>4
<1>5. ASSUME NEW rr \in SUBSET Records, NEW u \in Users,
             \A q \in Records : IF q \in rr THEN Receipted(q, u) ELSE Kept(q)
      PROVE  \A q \in Records : SameNumber(q)
  BY <1>2, <1>5, OtherNumbers
<1> QED BY <1>1, <1>2, <1>4, <1>5 DEF SystemMoves

Numbered(o) == {r \in Records : record[r].origin = o /\ record[r].number # 0}

\* The numbers of an office are those issued so far, each to one record.
LEMMA NextNumbers ==
    ASSUME CustodyInv, CustodyInv', [Next]_vars, NumbersHaveNoGaps
    PROVE  NumbersHaveNoGaps'
<1>1. \A r \in Records : record[r].number \in Nat /\ record'[r].number \in Nat
  <2>1. \A r \in Records : record[r] \in Row
    BY RecordTraced DEF Sound
  <2>2. \A r \in Records : record'[r] \in Row
    BY DEF CustodyInv, IInv
  <2> QED BY <2>1, <2>2 DEF Row
<1>2. \A o \in Offices : lastNumber[o] \in Nat
  BY DEF CustodyInv, IInv
<1>3. \A r \in Records : record'[r].number # 0 => record'[r].status # "DRAFT"
  BY DEF CustodyInv, IInv, Sound
<1> SUFFICES ASSUME NEW o \in Offices
             PROVE  LET sent == Numbered(o)'
                    IN  /\ {record'[r].number : r \in sent} = 1..lastNumber'[o]
                        /\ \A r, q \in sent : record'[r].number = record'[q].number => r = q
  BY <1>3 DEF NumbersHaveNoGaps, Numbered
<1>4. /\ {record[r].number : r \in Numbered(o)} = 1..lastNumber[o]
      /\ \A r, q \in Numbered(o) : record[r].number = record[q].number => r = q
  BY DEF NumbersHaveNoGaps, Numbered
<1>5. CASE (\A q \in Records : SameNumber(q)) /\ UNCHANGED lastNumber
  <2>1. Numbered(o)' = Numbered(o)
    BY <1>5 DEF Numbered, SameNumber
  <2>2. \A r \in Numbered(o) : record'[r].number = record[r].number
    BY <1>5 DEF Numbered, SameNumber
  <2>3. {record'[r].number : r \in Numbered(o)'} = {record[r].number : r \in Numbered(o)}
    BY <2>1, <2>2
  <2> QED BY <1>4, <1>5, <2>1, <2>2, <2>3
<1>6. ASSUME NEW r \in Records, TakesNumber(r), \A q \in Records \ {r} : SameNumber(q)
      PROVE  LET sent == Numbered(o)'
             IN  /\ {record'[q].number : q \in sent} = 1..lastNumber'[o]
                 /\ \A p, q \in sent : record'[p].number = record'[q].number => p = q
  <2>1. r \notin Numbered(o)
    BY <1>6 DEF TakesNumber, Numbered
  <2>2. \A q \in Numbered(o) : record'[q].number = record[q].number
    BY <1>6, <2>1 DEF Numbered, SameNumber
  <2>3. CASE record[r].origin # o
    <3>1. Numbered(o)' = Numbered(o)
      BY <1>6, <2>3 DEF Numbered, SameNumber, TakesNumber
    <3>2. {record'[q].number : q \in Numbered(o)'} = {record[q].number : q \in Numbered(o)}
      BY <2>2, <3>1
    <3>3. lastNumber'[o] = lastNumber[o]
      BY <1>6, <2>3 DEF TakesNumber, CustodyInv, IInv
    <3> QED BY <1>4, <2>2, <3>1, <3>2, <3>3
  <2>4. CASE record[r].origin = o
    <3> DEFINE next == lastNumber[o] + 1
    <3>1. record'[r].number = next /\ record'[r].origin = o /\ lastNumber'[o] = next
      BY <1>6, <2>4 DEF TakesNumber, CustodyInv, IInv
    <3>2. Numbered(o)' = Numbered(o) \cup {r}
      BY <1>2, <1>6, <2>1, <3>1 DEF Numbered, SameNumber
    <3>3. {record'[q].number : q \in Numbered(o)'} = (1..lastNumber[o]) \cup {next}
      BY <1>4, <2>1, <2>2, <3>1, <3>2
    <3>4. (1..lastNumber[o]) \cup {next} = 1..next
      BY <1>2
    <3>5. \A q \in Numbered(o) : record'[q].number # next
      <4>1. \A q \in Numbered(o) : record[q].number \in 1..lastNumber[o]
        BY <1>4
      <4> QED BY <1>2, <2>2, <4>1
    <3> HIDE DEF next
    <3> QED BY <1>4, <2>2, <3>1, <3>2, <3>3, <3>4, <3>5
  <2> QED BY <2>3, <2>4
<1> QED BY <1>5, <1>6, StepNumbers

\* Whatever order drafts are sent in, an office's numbers are 1, 2, 3 and so on,
\* each on one record; and what is completed was in somebody's hands and is filed
\* once.
THEOREM RegisterCorrect == Spec => []RegisterHolds
<1>1. Init => NumbersHaveNoGaps
  <2> SUFFICES ASSUME Init
               PROVE  NumbersHaveNoGaps
    OBVIOUS
  <2>1. \A r \in Records : record[r].number = 0
    BY DEF Init, AbsentRow
  <2>2. \A o \in Offices : 1..lastNumber[o] = {}
    BY DEF Init
  <2> QED BY <2>1, <2>2 DEF NumbersHaveNoGaps
<1>2. CustodyInv /\ CustodyInv' /\ [Next]_vars /\ NumbersHaveNoGaps => NumbersHaveNoGaps'
  BY NextNumbers
<1>3. CustodyInv /\ NumbersHaveNoGaps => RegisterHolds
  BY CustodyInvImplies DEF RegisterHolds
<1> QED BY <1>1, <1>2, <1>3, CustodyInductive, PTL DEF Spec

=============================================================================
