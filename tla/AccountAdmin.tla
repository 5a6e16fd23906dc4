---------------------------- MODULE AccountAdmin ----------------------------
(* Administering accounts: the user screens (accounts/views.py), the raw    *)
(* administration site (accounts/admin.py, core/admin_site.py), assisted    *)
(* recovery and the capability restrictions (accounts/capabilities.py), and *)
(* the record writes of the people administered.  A request passes the      *)
(* middleware, waits for its locks, reads and checks under them, and        *)
(* commits; what it does not lock may change while it waits and runs.       *)
EXTENDS Integers, FiniteSets

CONSTANTS
    People, Nobody,
    OwnRole,        \* role of each account at the start
    Office,         \* the office of each account
    Capable,        \* the actions restricted here, of one record area
    MaxRevision     \* bound: saves of one restriction policy

Roles == {"SYSTEM_ADMIN", "ADMIN", "USER", "VIEWER"}

ASSUME AdminAssumption ==
    /\ Nobody \notin People
    /\ OwnRole \in [People -> Roles]
    /\ DOMAIN Office = People
    /\ Capable \subseteq {"view_record", "view_content", "download", "edit_files", "file"}
    /\ MaxRevision \in Nat

VARIABLES
    person,      \* the account rows
    policy,      \* each account's restriction policy
    form,        \* the restriction form each person has open
    arrived,     \* requests past the middleware, not yet in their transaction
    txn          \* the request each person's transaction is running

adminVars == <<person, policy, form, arrived, txn>>

Person == [role : Roles, active : BOOLEAN, staff : BOOLEAN, verified : BOOLEAN,
           exists : BOOLEAN]
Policy == [blocked : SUBSET Capable, revision : 0..MaxRevision]

NoForm == [target |-> Nobody, revision |-> 0, shown |-> {}]
Idle == [kind |-> "none"]

AdminInit ==
    /\ person = [u \in People |->
            [role |-> OwnRole[u], active |-> TRUE, staff |-> OwnRole[u] = "SYSTEM_ADMIN",
             verified |-> TRUE, exists |-> TRUE]]
    /\ policy = [u \in People |-> [blocked |-> {}, revision |-> 0]]
    /\ form = [u \in People |-> NoForm]
    /\ arrived = {}
    /\ txn = [u \in People |-> Idle]

-----------------------------------------------------------------------------
(* Roles. *)

Present(u) == person[u].exists /\ person[u].active
SystemWide(u) == person[u].role = "SYSTEM_ADMIN"
Administers(u) == Present(u) /\ person[u].role \in {"ADMIN", "SYSTEM_ADMIN"}

(* administrable_by, can_administer *)
Administrable(u, t) ==
    /\ Administers(u)
    /\ person[t].exists
    /\ SystemWide(u) \/ (Office[u] = Office[t] /\ ~SystemWide(t) /\ ~person[t].staff)

(* is_ready_system_admin, ready_system_admins *)
IsReady(row) == row.exists /\ row.active /\ row.role = "SYSTEM_ADMIN" /\ row.staff /\ row.verified
ReadyAdmins == {u \in People : IsReady(person[u])}
Replaceable(t) == t \in ReadyAdmins => ReadyAdmins \ {t} # {}

(* role_default: what the role itself may do. *)
RoleDefault(u, action) ==
    /\ Present(u)
    /\ \/ action \in {"view_record", "view_content", "download"}
       \/ action = "file" /\ person[u].role \in {"ADMIN", "SYSTEM_ADMIN"}
       \/ action = "edit_files" /\ person[u].role # "VIEWER"

(* capability_allowed: an action needs those it rests on. *)
RestsOn(action) ==
    {action, "view_record"} \cup
    (IF action \in {"download", "edit_files"} THEN {"view_content"} ELSE {})

Entitled(u, action) ==
    /\ RoleDefault(u, action)
    /\ policy[u].blocked \cap RestsOn(action) = {}

\* A mutant of Dependencies: a file needs only the record's own switch.
DependenciesOfRecord(action) == {action} \cup {"view_record"}

(* permission_snapshot: the same decisions for the pages, worked out apart. *)
Dependencies(action) ==
    {action} \cup {"view_record"} \cup
    {d \in {"view_content"} : action = "download" \/ action = "edit_files"}

Offered(u) ==
    {action \in Capable :
        RoleDefault(u, action) /\ \A d \in Dependencies(action) : d \notin policy[u].blocked}

-----------------------------------------------------------------------------
(* Requests.  Recovery reads its administrator without locking the row.     *)

Requests(u) ==
    [kind : {"toggle", "delete", "recover"}, target : People]
    \cup [kind : {"save"}, target : People, role : Roles, active : BOOLEAN]
    \cup [kind : {"edit"}, target : People, role : {"SYSTEM_ADMIN", "USER"}, active : BOOLEAN,
          staff : BOOLEAN]
    \cup [kind : {"restrict"}, target : {form[u].target} \cap People, blocked : SUBSET Capable]
    \cup [kind : {"work"}, target : {u}, action : Capable \cap {"edit_files", "file"}]

\* A mutant of Serialized: only the raw site takes the account-wide lock.
SerializedRaw(r) == r.kind \in {"edit", "delete", "recover", "restrict"}

Serialized(r) == r.kind \in {"toggle", "save", "edit", "delete", "recover", "restrict"}

\* A mutant of RowsOf: a policy is saved without locking its account.
RowsOfActor(u, r) ==
    CASE r.kind = "recover" -> {r.target}
      [] r.kind = "restrict" -> {u}
      [] OTHER -> {u, r.target}

RowsOf(u, r) == IF r.kind = "recover" THEN {r.target} ELSE {u, r.target}

LockedRows == UNION {RowsOf(u, txn[u]) : u \in {v \in People : txn[v] # Idle}}

MayTakeLocks(u, r) ==
    /\ Serialized(r) => \A v \in People : txn[v] = Idle \/ ~Serialized(txn[v])
    /\ RowsOf(u, r) \cap LockedRows = {}

(* toggle: UserToggleActiveView.post *)
MayToggle(u, r) ==
    /\ Administrable(u, r.target)
    /\ r.target # u
    /\ Replaceable(r.target)

\* A mutant of MayAssign: the posted role is taken as it comes.
MayAssignAny(u, role) == TRUE

(* _validated_role *)
MayAssign(u, role) == SystemWide(u) \/ role # "SYSTEM_ADMIN"

(* save: AdminUserUpdateForm.clean *)
MaySave(u, r) ==
    /\ Administrable(u, r.target)
    /\ MayAssign(u, r.role)
    /\ r.role # "SYSTEM_ADMIN" \/ ~r.active => Replaceable(r.target)
    /\ r.target = u =>
        /\ r.role \in {"ADMIN", "SYSTEM_ADMIN"}
        /\ r.active

(* the raw site: admin_view and AvailableAccountForm.clean *)
OnRawSite(u) == Present(u) /\ SystemWide(u) /\ person[u].staff /\ person[u].verified

MayEdit(u, r) ==
    /\ OnRawSite(u)
    /\ person[r.target].exists
    /\ r.target = u => r.active /\ r.role = "SYSTEM_ADMIN"
    /\ IsReady([person[r.target] EXCEPT !.role = r.role, !.active = r.active, !.staff = r.staff])
        \/ Replaceable(r.target)

MayDelete(u, r) ==
    /\ OnRawSite(u)
    /\ person[r.target].exists
    /\ r.target # u
    /\ Replaceable(r.target)

(* recover_email, of an active account by who may administer it. *)
MayRecover(u, r) ==
    /\ person[u].verified
    /\ Present(r.target)
    /\ Administrable(u, r.target)

\* A mutant of SameRevision: the form is saved over whatever is there.
AnyRevision(u, t) == TRUE

(* set_restrictions: the revision the form was shown with. *)
SameRevision(u, t) == form[u].revision = policy[t].revision

MayRestrict(u, r) ==
    /\ OnRawSite(u)
    /\ person[r.target].exists
    /\ policy[r.target].revision < MaxRevision
    /\ SameRevision(u, r.target)

(* requires_capability over active_writer *)
MayWork(u, r) ==
    /\ Present(u)
    /\ person[u].role # "VIEWER"
    /\ Entitled(u, r.action)

May(u, r) ==
    CASE r.kind = "toggle" -> MayToggle(u, r)
      [] r.kind = "save" -> MaySave(u, r)
      [] r.kind = "edit" -> MayEdit(u, r)
      [] r.kind = "delete" -> MayDelete(u, r)
      [] r.kind = "recover" -> MayRecover(u, r)
      [] r.kind = "restrict" -> MayRestrict(u, r)
      [] r.kind = "work" -> MayWork(u, r)

(* A request passes the middleware while its account is verified and active.*)
Arrive(u) ==
    /\ u \notin arrived /\ txn[u] = Idle
    /\ Present(u) /\ person[u].verified
    /\ arrived' = arrived \cup {u}
    /\ UNCHANGED <<person, policy, form, txn>>

OpenForm(u, t) ==
    /\ OnRawSite(u)
    /\ form[u] = NoForm
    /\ person[t].exists
    /\ form' = [form EXCEPT ![u] = [target |-> t, revision |-> policy[t].revision,
                                    shown |-> policy[t].blocked]]
    /\ UNCHANGED <<person, policy, arrived, txn>>

CloseForm(u) ==
    /\ form[u] # NoForm
    /\ txn[u] = Idle
    /\ form' = [form EXCEPT ![u] = NoForm]
    /\ UNCHANGED <<person, policy, arrived, txn>>

Begin(u, r) ==
    /\ u \in arrived
    /\ MayTakeLocks(u, r)
    /\ May(u, r)
    /\ arrived' = arrived \ {u}
    /\ txn' = [txn EXCEPT ![u] = r]
    /\ UNCHANGED <<person, policy, form>>

\* Refused, or rolled back: nothing of it remains.
Refuse(u) ==
    /\ u \in arrived \/ txn[u] # Idle
    /\ arrived' = arrived \ {u}
    /\ txn' = [txn EXCEPT ![u] = Idle]
    /\ UNCHANGED <<person, policy, form>>

Written(r) ==
    CASE r.kind = "toggle" -> [person EXCEPT ![r.target].active = ~@]
      [] r.kind = "save" -> [person EXCEPT ![r.target].role = r.role, ![r.target].active = r.active]
      [] r.kind = "edit" -> [person EXCEPT ![r.target].role = r.role, ![r.target].active = r.active,
                                           ![r.target].staff = r.staff]
      [] r.kind = "delete" -> [person EXCEPT ![r.target].exists = FALSE]
      [] r.kind = "recover" -> [person EXCEPT ![r.target].verified = FALSE]
      [] OTHER -> person

Commit(u) ==
    /\ txn[u] # Idle
    /\ person' = Written(txn[u])
    /\ IF txn[u].kind = "restrict"
       THEN /\ policy' = [policy EXCEPT ![txn[u].target] =
                    [blocked |-> txn[u].blocked, revision |-> @.revision + 1]]
            /\ form' = [form EXCEPT ![u] = NoForm]
       ELSE UNCHANGED <<policy, form>>
    /\ txn' = [txn EXCEPT ![u] = Idle]
    /\ UNCHANGED arrived

(* The owner confirms an address: only the account's row is locked.         *)
ConfirmAddress(u) ==
    /\ Present(u) /\ ~person[u].verified
    /\ u \notin LockedRows
    /\ person' = [person EXCEPT ![u].verified = TRUE]
    /\ UNCHANGED <<policy, form, arrived, txn>>

AdminNext ==
    \E u \in People :
        \/ Arrive(u) \/ Refuse(u) \/ Commit(u) \/ ConfirmAddress(u) \/ CloseForm(u)
        \/ \E t \in People : OpenForm(u, t)
        \/ \E r \in Requests(u) : Begin(u, r)

AdminSpec == AdminInit /\ [][AdminNext]_adminVars

-----------------------------------------------------------------------------
(* Properties. *)

(* No change to an account takes the last ready system administrator away,  *)
(* however two administrators' requests interleave.  The one exception is   *)
(* a recovery of that administrator's address, which checks no replacement. *)
LastReadyAdminStays ==
    ReadyAdmins # {} /\ ReadyAdmins' = {} =>
        \E u \in People : txn[u].kind = "recover" /\ txn'[u] = Idle

(* A restriction form replaces only the restrictions it showed.             *)
FormsReplaceWhatTheyShowed ==
    \A t \in People : policy'[t] # policy[t] =>
        \E u \in People : form[u].target = t /\ form[u].shown = policy[t].blocked

(* While a record is being written its author may still write it: nothing   *)
(* suspends, demotes or restricts them between the check and the commit.    *)
WriterStillEntitled ==
    \A u \in People : txn[u].kind = "work" => MayWork(u, txn[u])

(* Only someone who is a system administrator then makes another one.       *)
OnlySystemAdminsPromote ==
    \A t \in People : person'[t].role = "SYSTEM_ADMIN" /\ person[t].role # "SYSTEM_ADMIN" =>
        \E u \in People : txn[u] # Idle /\ txn'[u] = Idle /\ txn[u].target = t
                          /\ Present(u) /\ SystemWide(u)

(* The pages offer exactly the actions the writes would allow.              *)
PagesOfferWhatWritesAllow ==
    \A u \in People : Offered(u) = {action \in Capable : Entitled(u, action)}

(* No step of the administration breaks any of the three.                   *)
AdministrationHolds ==
    [][LastReadyAdminStays /\ FormsReplaceWhatTheyShowed /\ OnlySystemAdminsPromote]_adminVars

(* What the pages promise and the transactions rely on is so.               *)
RightsAgree == WriterStillEntitled /\ PagesOfferWhatWritesAllow
=============================================================================
