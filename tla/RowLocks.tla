------------------------------ MODULE RowLocks ------------------------------
(***************************************************************************)
(* The row locks behind the services: which rows each transaction locks,   *)
(* in which order and in which mode, and PostgreSQL's rule for who waits.  *)
(* Tracking takes every service for one atomic step; this module asks      *)
(* whether the transactions that make it so can block each other for good. *)
(*                                                                         *)
(* Foreign keys are checked when a transaction commits, by a KEY SHARE     *)
(* lock on the row referred to.  Checks on the transaction's own rows and  *)
(* on offices are left out: nobody locks an office in a mode that meets    *)
(* them.  Rows are numbered by primary key.                                *)
(***************************************************************************)
EXTENDS Naturals, Sequences, FiniteSets

CONSTANTS
    Sessions,                   \* database connections
    Users, Records, Offices,    \* primary keys
    Documents, Tags, Entries,   \* primary keys; entries of the external directory
    Services                    \* the kinds of transaction that run

AllServices == {"work", "route", "bulk_receive", "file", "chase", "share_with_office",
                "share_with_user", "restrict", "raw_admin", "account", "administer",
                "edit_document", "extract", "set_tags", "review_tag", "correct_external"}

ASSUME RowLocksAssumption ==
    /\ Users \cup Records \cup Offices \cup Documents \cup Tags \cup Entries \subseteq Nat
    /\ Services \subseteq AllServices
    /\ IsFiniteSet(Sessions)

VARIABLES
    plan,   \* the locks the session's transaction takes, in order
    held    \* how many of them it has

lockVars == <<plan, held>>

-----------------------------------------------------------------------------
(* PostgreSQL *)

Modes == {"KEY_SHARE", "NO_KEY_UPDATE", "UPDATE"}

Conflicts(m, n) == "UPDATE" \in {m, n} \/ {m, n} = {"NO_KEY_UPDATE"}

Lock(table, pk, mode) == <<[table |-> table, pk |-> pk, mode |-> mode]>>

\* What a query with ORDER BY pk may return.
Ascending(pks) ==
    {rows \in UNION {[1..n -> pks] : n \in 0..Cardinality(pks)} :
        \A i, j \in DOMAIN rows : i < j => rows[i] < rows[j]}

\* A locking query: it locks its rows one by one as it returns them.
InPkOrder(table, rows, mode) ==
    [i \in DOMAIN rows |-> [table |-> table, pk |-> rows[i], mode |-> mode]]

Holds(s) == {plan[s][i] : i \in 1..held[s]}

Asks(s) == IF held[s] < Len(plan[s]) THEN {plan[s][held[s] + 1]} ELSE {}

\* Session s waits for t: t holds a row s asks for in a mode that conflicts.
WaitsFor(s, t) ==
    /\ s # t
    /\ \E a \in Asks(s), h \in Holds(t) :
        a.table = h.table /\ a.pk = h.pk /\ Conflicts(a.mode, h.mode)

Waiting(s) == \E t \in Sessions : WaitsFor(s, t)

-----------------------------------------------------------------------------
(* The transactions *)

\* Fault: the lock of the actor is the plain one.
ActorForUpdate(u) == Lock("user", u, "UPDATE")

\* active_writer
Actor(u) == Lock("user", u, "NO_KEY_UPDATE")

\* locked_mutation: receipt, remark, files, completion, reopening, revocation.
Work(u, r) == Actor(u) \o Lock("record", r, "UPDATE")

\* The destinations and, on the first send, the number series of the origin.
Route(u, r, dest, series) ==
    Work(u, r) \o InPkOrder("office", dest, "NO_KEY_UPDATE")
               \o InPkOrder("series", series, "UPDATE")

\* Fault: the records are locked before the account, as they once were.
BulkReceiveRecordsFirst(u, rr) == InPkOrder("record", rr, "UPDATE") \o Actor(u)

BulkReceive(u, rr) == Actor(u) \o InPkOrder("record", rr, "UPDATE")

\* The filed history refers to the accounts that uploaded the files.
File(u, r, uploader) == Work(u, r) \o Lock("user", uploader, "KEY_SHARE")

Chase(r) == Lock("record", r, "UPDATE")

\* pg_advisory_xact_lock(0x55444D414343)
AccountWide == Lock("advisory", 0, "UPDATE")

ShareWithOffice(u, r, o) == AccountWide \o Work(u, r) \o Lock("office", o, "NO_KEY_UPDATE")

ShareWithUser(u, r, recipient) ==
    AccountWide \o Work(u, r) \o Lock("user", recipient, "NO_KEY_UPDATE")

\* set_restrictions and invitation: both accounts in order of primary key.
BothInOrder(u, v) == IF u = v THEN <<u>> ELSE IF u < v THEN <<u, v>> ELSE <<v, u>>

RestrictAccount(u, target) ==
    AccountWide \o InPkOrder("user", BothInOrder(u, target), "NO_KEY_UPDATE")
                \o Lock("policy", target, "UPDATE")

\* The raw admin site.
RawAdmin(u, target) == AccountWide \o Actor(u) \o Lock("user", target, "NO_KEY_UPDATE")

\* Password and profile forms.
Account(u) == Lock("user", u, "UPDATE")

\* The account screens of an administrator.
Administer(u, target) ==
    AccountWide \o Lock("user", u, "UPDATE") \o Lock("user", target, "UPDATE")

\* Review, metadata and a retry of a document's extraction.
EditDocument(u, d) == Actor(u) \o Lock("document", d, "UPDATE")

\* The extraction task locks its account in the plain mode.
Extract(u, d) == Lock("user", u, "UPDATE") \o Lock("document", d, "UPDATE")

\* The tags a document had and those it gets, in one query.
SetTags(u, d, tags) == EditDocument(u, d) \o InPkOrder("tag", tags, "UPDATE")

\* The tag under review first, then all that the document has.
ReviewTag(u, d, tags, i) ==
    EditDocument(u, d) \o Lock("tag", tags[i], "UPDATE") \o InPkOrder("tag", tags, "UPDATE")

\* Both ends of a step may be corrected at once. External records have rows of
\* their own, with the same order of locks.
CorrectExternal(u, r, entries) ==
    Actor(u) \o Lock("external", r, "UPDATE") \o InPkOrder("entry", entries, "UPDATE")

Transactions(service) ==
    CASE service = "work"    -> {Work(u, r) : u \in Users, r \in Records}
      [] service = "route"   -> {Route(u, r, dest, series) :
                                    u \in Users, r \in Records,
                                    dest \in Ascending(Offices) \ {<<>>},
                                    series \in {<<>>} \cup {<<o>> : o \in Offices}}
      [] service = "bulk_receive" -> {BulkReceive(u, rr) : u \in Users,
                                                          rr \in Ascending(Records) \ {<<>>}}
      [] service = "file"    -> {File(u, r, v) : u, v \in Users, r \in Records}
      [] service = "chase"   -> {Chase(r) : r \in Records}
      [] service = "share_with_office" -> {ShareWithOffice(u, r, o) :
                                            u \in Users, r \in Records, o \in Offices}
      [] service = "share_with_user"   -> {ShareWithUser(u, r, v) : u, v \in Users, r \in Records}
      [] service = "restrict"   -> {RestrictAccount(u, v) : u, v \in Users}
      [] service = "raw_admin"  -> {RawAdmin(u, v) : u, v \in Users}
      [] service = "account"    -> {Account(u) : u \in Users}
      [] service = "administer" -> {Administer(u, v) : u, v \in Users}
      [] service = "edit_document" -> {EditDocument(u, d) : u \in Users, d \in Documents}
      [] service = "extract"  -> {Extract(u, d) : u \in Users, d \in Documents}
      [] service = "set_tags" -> {SetTags(u, d, tags) :
                                    u \in Users, d \in Documents, tags \in Ascending(Tags)}
      [] service = "review_tag" -> UNION {
            {ReviewTag(u, d, tags, i) : u \in Users, d \in Documents, i \in DOMAIN tags} :
                                    tags \in Ascending(Tags)}
      [] service = "correct_external" -> {CorrectExternal(u, r, entries) :
                                    u \in Users, r \in Records, entries \in Ascending(Entries)}

Requested == UNION {Transactions(service) : service \in Services}

-----------------------------------------------------------------------------
Begin(s, locks) ==
    /\ plan[s] = <<>>
    /\ plan' = [plan EXCEPT ![s] = locks]
    /\ UNCHANGED held

Acquire(s) ==
    /\ Asks(s) # {} /\ ~Waiting(s)
    /\ held' = [held EXCEPT ![s] = @ + 1]
    /\ UNCHANGED plan

\* Commit with all the locks, or a refusal after any of them: all are released.
End(s) ==
    /\ plan[s] # <<>> /\ ~Waiting(s)
    /\ plan' = [plan EXCEPT ![s] = <<>>]
    /\ held' = [held EXCEPT ![s] = 0]

LockInit ==
    /\ plan = [s \in Sessions |-> <<>>]
    /\ held = [s \in Sessions |-> 0]

LockNext ==
    \E s \in Sessions :
        \/ \E locks \in Requested : Begin(s, locks)
        \/ Acquire(s)
        \/ End(s)

LockSpec == LockInit /\ [][LockNext]_lockVars

-----------------------------------------------------------------------------
(* Properties *)

\* No sessions wait for each other in a circle: whatever mix of services runs,
\* each blocked transaction waits for one that can go on.
NoCircularWait ==
    \A circle \in (SUBSET Sessions) \ {{}} :
        \E s \in circle : \A t \in circle : ~WaitsFor(s, t)

=============================================================================
