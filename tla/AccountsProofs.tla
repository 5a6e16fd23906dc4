--------------------------- MODULE AccountsProofs ---------------------------
(***************************************************************************)
(* Proofs about the accounts app.  AccountAdmin: what a request was        *)
(* allowed on is still so when it commits, because the rows it decided on  *)
(* are locked and those that change accounts wait for each other.          *)
(* EmailOtp: what a used code proves, because a challenge keeps what it    *)
(* was sent to and a recovery leaves none open.                            *)
(***************************************************************************)
EXTENDS AccountAdmin, EmailOtp, SequenceTheorems, TLAPS

-----------------------------------------------------------------------------
(* Requests and their rows *)

Kinds == {"toggle", "delete", "recover", "save", "edit", "restrict", "work"}

\* The shape of a request of u.
RequestOK(u, r) ==
    /\ r.kind \in Kinds /\ r.target \in People
    /\ r.kind \in {"save", "edit"} => r.role \in Roles /\ r.active \in BOOLEAN
    /\ r.kind = "edit" => r.staff \in BOOLEAN
    /\ r.kind = "restrict" => r.target = form[u].target /\ r.blocked \in SUBSET Capable
    /\ r.kind = "work" => r.target = u

\* A person may still do what a request of theirs was allowed; what is read here are
\* the locked rows of the request, and the ready administrators.
StillMay(u, r) ==
    /\ r.kind \in {"toggle", "delete"} => Replaceable(r.target)
    /\ r.kind = "save" /\ (r.role # "SYSTEM_ADMIN" \/ ~r.active) => Replaceable(r.target)
    /\ r.kind = "edit" /\ ~(r.role = "SYSTEM_ADMIN" /\ r.active /\ r.staff
                            /\ person[r.target].exists /\ person[r.target].verified)
          => Replaceable(r.target)
    /\ r.kind = "edit" \/ (r.kind = "save" /\ r.role = "SYSTEM_ADMIN") => Present(u) /\ SystemWide(u)
    /\ r.kind = "restrict" =>
          /\ form[u].revision = policy[r.target].revision
          /\ policy[r.target].revision < MaxRevision
    /\ r.kind = "work" => MayWork(u, r)

Busy(u) == txn[u] # Idle

\* A form that shows the present revision shows the present restrictions.
FormOK(u) ==
    form[u].target \in People =>
        LET p == policy[form[u].target] IN
        /\ form[u].revision \in Nat /\ form[u].revision <= p.revision
        /\ form[u].revision = p.revision => form[u].shown = p.blocked

AdminInv ==
    /\ person \in [People -> Person] /\ policy \in [People -> Policy]
    /\ DOMAIN form = People /\ DOMAIN txn = People
    /\ \A u \in People : Busy(u) => RequestOK(u, txn[u]) /\ StillMay(u, txn[u])
    /\ \A u, v \in People : Busy(u) /\ Busy(v) /\ u # v =>
          /\ RowsOf(u, txn[u]) \cap RowsOf(v, txn[v]) = {}
          /\ ~(Serialized(txn[u]) /\ Serialized(txn[v]))
    /\ \A u \in People : FormOK(u)

LEMMA RequestShape ==
    ASSUME NEW u \in People, NEW r \in Requests(u)
    PROVE  RequestOK(u, r) /\ r # Idle
<1>1. RequestOK(u, r)
  <2>1. CASE r \in [kind : {"toggle", "delete", "recover"}, target : People]
    BY <2>1 DEF RequestOK, Kinds
  <2>2. CASE r \in [kind : {"save"}, target : People, role : Roles, active : BOOLEAN]
    BY <2>2 DEF RequestOK, Kinds
  <2>3. CASE r \in [kind : {"edit"}, target : People, role : {"SYSTEM_ADMIN", "USER"},
                    active : BOOLEAN, staff : BOOLEAN]
    BY <2>3 DEF RequestOK, Kinds, Roles
  <2>4. CASE r \in [kind : {"restrict"}, target : {form[u].target} \cap People,
                    blocked : SUBSET Capable]
    BY <2>4 DEF RequestOK, Kinds
  <2>5. CASE r \in [kind : {"work"}, target : {u}, action : Capable \cap {"edit_files", "file"}]
    BY <2>5 DEF RequestOK, Kinds
  <2> QED BY <2>1, <2>2, <2>3, <2>4, <2>5 DEF Requests
<1>2. r.kind # "none"
  BY <1>1 DEF RequestOK, Kinds
<1> QED BY <1>1, <1>2 DEF Idle

\* What a commit writes to the accounts.
LEMMA WrittenFacts ==
    ASSUME person \in [People -> Person], NEW u \in People, NEW r, RequestOK(u, r)
    PROVE  LET t == r.target
               new == Written(r)
           IN  /\ new \in [People -> Person]
               /\ \A v \in People \ {t} : new[v] = person[v]
               /\ r.kind \in {"work", "restrict"} => new = person
               /\ r.kind = "save" =>
                    /\ new[t].role = r.role /\ new[t].active = r.active
                    /\ new[t].staff = person[t].staff /\ new[t].verified = person[t].verified
                    /\ new[t].exists = person[t].exists
               /\ r.kind = "edit" =>
                    /\ new[t].role = r.role /\ new[t].active = r.active /\ new[t].staff = r.staff
                    /\ new[t].verified = person[t].verified /\ new[t].exists = person[t].exists
               /\ r.kind \in {"toggle", "delete", "recover"} => new[t].role = person[t].role
<1> DEFINE t == r.target
           old == person[t]
<1>0. t \in People /\ old \in Person
  BY DEF RequestOK
<1>1. ASSUME NEW row \in Person
      PROVE  /\ [person EXCEPT ![t] = row] \in [People -> Person]
             /\ \A v \in People \ {t} : [person EXCEPT ![t] = row][v] = person[v]
             /\ [person EXCEPT ![t] = row][t] = row
  BY <1>0
<1>2. CASE r.kind = "toggle"
  <2> DEFINE row == [old EXCEPT !.active = ~@]
  <2>1. row \in Person /\ row.role = old.role
    BY <1>0 DEF Person
  <2>2. Written(r) = [person EXCEPT ![t] = row]
    BY <1>0, <1>2 DEF Written
  <2> HIDE DEF row
  <2> QED BY <1>1, <1>2, <2>1, <2>2
<1>3. CASE r.kind = "save"
  <2> DEFINE row == [old EXCEPT !.role = r.role, !.active = r.active]
  <2>1. /\ row \in Person /\ row.role = r.role /\ row.active = r.active
        /\ row.staff = old.staff /\ row.verified = old.verified /\ row.exists = old.exists
    BY <1>0, <1>3 DEF Person, RequestOK
  <2>2. Written(r) = [person EXCEPT ![t] = row]
    BY <1>0, <1>3 DEF Written
  <2> HIDE DEF row
  <2> QED BY <1>1, <1>3, <2>1, <2>2
<1>4. CASE r.kind = "edit"
  <2> DEFINE row == [old EXCEPT !.role = r.role, !.active = r.active, !.staff = r.staff]
  <2>1. /\ row \in Person /\ row.role = r.role /\ row.active = r.active
        /\ row.staff = r.staff /\ row.verified = old.verified /\ row.exists = old.exists
    BY <1>0, <1>4 DEF Person, RequestOK
  <2>2. Written(r) = [person EXCEPT ![t] = row]
    BY <1>0, <1>4 DEF Written
  <2> HIDE DEF row
  <2> QED BY <1>1, <1>4, <2>1, <2>2
<1>5. CASE r.kind = "delete"
  <2> DEFINE row == [old EXCEPT !.exists = FALSE]
  <2>1. row \in Person /\ row.role = old.role
    BY <1>0 DEF Person
  <2>2. Written(r) = [person EXCEPT ![t] = row]
    BY <1>0, <1>5 DEF Written
  <2> HIDE DEF row
  <2> QED BY <1>1, <1>5, <2>1, <2>2
<1>6. CASE r.kind = "recover"
  <2> DEFINE row == [old EXCEPT !.verified = FALSE]
  <2>1. row \in Person /\ row.role = old.role
    BY <1>0 DEF Person
  <2>2. Written(r) = [person EXCEPT ![t] = row]
    BY <1>0, <1>6 DEF Written
  <2> HIDE DEF row
  <2> QED BY <1>1, <1>6, <2>1, <2>2
<1>7. CASE r.kind \in {"work", "restrict"}
  BY <1>7 DEF Written
<1> QED BY <1>2, <1>3, <1>4, <1>5, <1>6, <1>7 DEF RequestOK, Kinds

\* What a request is allowed on when it takes its locks is what it keeps.
LEMMA AllowedIsKept ==
    ASSUME AdminInv, NEW u \in People, NEW r \in Requests(u), May(u, r)
    PROVE  StillMay(u, r)
<1>0. RequestOK(u, r) /\ person[r.target] \in Person
  BY RequestShape DEF AdminInv, RequestOK
<1>1. CASE r.kind \in {"toggle", "delete", "recover"}
  BY <1>1 DEF May, MayToggle, MayDelete, StillMay
<1>2. CASE r.kind = "save"
  BY <1>2 DEF May, MaySave, MayAssign, Administrable, Administers, StillMay
<1>3. CASE r.kind = "edit"
  <2>1. OnRawSite(u)
    BY <1>3 DEF May, MayEdit
  <2>2. \/ Replaceable(r.target)
        \/ IsReady([person[r.target] EXCEPT !.role = r.role, !.active = r.active, !.staff = r.staff])
    BY <1>3 DEF May, MayEdit
  <2>3. \/ Replaceable(r.target)
        \/ /\ person[r.target].exists /\ person[r.target].verified
           /\ r.active /\ r.role = "SYSTEM_ADMIN" /\ r.staff
    BY <1>0, <2>2 DEF IsReady, Person
  <2> QED BY <1>3, <2>1, <2>3 DEF StillMay, OnRawSite
<1>4. CASE r.kind = "restrict"
  <2>1. r.target = form[u].target
    BY <1>0, <1>4 DEF RequestOK
  <2> QED BY <1>4, <2>1 DEF May, MayRestrict, SameRevision, StillMay
<1>5. CASE r.kind = "work"
  BY <1>5 DEF May, StillMay
<1> QED BY <1>0, <1>1, <1>2, <1>3, <1>4, <1>5 DEF RequestOK, Kinds

\* Nothing of it changes while its rows stay and those who decide alike wait.
LEMMA StaysAllowed ==
    ASSUME NEW u \in People, NEW r, RequestOK(u, r), StillMay(u, r),
           \A v \in RowsOf(u, r) : person'[v] = person[v],
           Serialized(r) => ReadyAdmins \subseteq ReadyAdmins' /\ policy' = policy,
           form'[u] = form[u] \/ r.kind # "restrict", policy'[u] = policy[u] \/ r.kind # "work"
    PROVE  RequestOK(u, r)' /\ StillMay(u, r)'
<1>1. RequestOK(u, r)'
  BY DEF RequestOK
<1>2. CASE r.kind \in {"toggle", "delete", "save", "edit", "restrict"}
  <2>1. person'[u] = person[u] /\ person'[r.target] = person[r.target]
    BY <1>2 DEF RowsOf, RequestOK
  <2>2. ReadyAdmins \subseteq ReadyAdmins' /\ policy' = policy
    BY <1>2 DEF Serialized
  <2>3. r.target \in ReadyAdmins' => r.target \in ReadyAdmins
    BY <2>1 DEF ReadyAdmins, IsReady, RequestOK
  <2>4. Replaceable(r.target) => Replaceable(r.target)'
    BY <2>2, <2>3 DEF Replaceable
  <2> QED BY <1>1, <1>2, <2>1, <2>2, <2>4 DEF StillMay, Present, SystemWide
<1>3. CASE r.kind = "recover"
  BY <1>1, <1>3 DEF StillMay
<1>4. CASE r.kind = "work"
  <2>1. person'[u] = person[u] /\ policy'[u] = policy[u]
    BY <1>4 DEF RowsOf
  <2> QED BY <1>1, <1>4, <2>1 DEF StillMay, MayWork, Present, Entitled, RoleDefault, RestsOn
<1> QED BY <1>1, <1>2, <1>3, <1>4 DEF RequestOK, Kinds

\* While u's request runs, another's commit touches neither its rows nor, if it is
\* one that changes accounts, any account.
LEMMA CommitApart ==
    ASSUME AdminInv, NEW u \in People, Commit(u), NEW v \in People, v # u, Busy(v)
    PROVE  RequestOK(v, txn[v])' /\ StillMay(v, txn[v])'
<1> DEFINE r == txn[u]
           q == txn[v]
<1>1. /\ RequestOK(u, r) /\ RequestOK(v, q) /\ StillMay(v, q)
      /\ RowsOf(u, r) \cap RowsOf(v, q) = {} /\ ~(Serialized(r) /\ Serialized(q))
  BY DEF AdminInv, Commit, Busy
<1>2. person' = Written(r) /\ form'[v] = form[v] /\ q' = q
  BY DEF Commit, AdminInv, Busy
<1>3. r.target \in RowsOf(u, r)
  BY DEF RowsOf
<1>4. r.target \in People /\ r.target \notin RowsOf(v, q) /\ RowsOf(v, q) \subseteq People
  BY <1>1, <1>3 DEF RequestOK, RowsOf
<1>5. \A w \in RowsOf(v, q) : person'[w] = person[w]
  BY <1>1, <1>2, <1>4, WrittenFacts DEF AdminInv
<1>6. \/ policy' = policy
      \/ r.kind = "restrict" /\ \A w \in People \ {r.target} : policy'[w] = policy[w]
  BY DEF Commit, AdminInv
<1>7. ASSUME Serialized(q) PROVE ReadyAdmins \subseteq ReadyAdmins' /\ policy' = policy
  <2>1. r.kind = "work"
    BY <1>1, <1>7 DEF Serialized, RequestOK, Kinds
  <2>2. person' = person /\ policy' = policy
    BY <1>1, <1>2, <1>6, <2>1, WrittenFacts DEF AdminInv
  <2> QED BY <2>2 DEF ReadyAdmins
<1>8. policy'[v] = policy[v] \/ q.kind # "work"
  <2>1. q.kind = "work" => v \in RowsOf(v, q)
    BY DEF RowsOf
  <2> QED BY <1>4, <1>6, <2>1
<1> HIDE DEF q, r
<1>9. RequestOK(v, q)' /\ StillMay(v, q)'
  <2>1. ASSUME NEW any, any = q PROVE (RequestOK(v, any))' /\ (StillMay(v, any))'
    BY <1>1, <1>2, <1>5, <1>7, <1>8, <2>1, StaysAllowed
  <2> QED BY <1>2, <2>1
<1> QED BY <1>9 DEF q


-----------------------------------------------------------------------------
(* Every step keeps the invariant *)

\* A row confirmed meanwhile belongs to no running request.
LEMMA ConfirmApart ==
    ASSUME AdminInv, NEW u \in People, ConfirmAddress(u), NEW v \in People, Busy(v)
    PROVE  RequestOK(v, txn[v])' /\ StillMay(v, txn[v])'
<1> DEFINE q == txn[v]
           row == [person[u] EXCEPT !.verified = TRUE]
<1>1. RequestOK(v, q) /\ StillMay(v, q) /\ person[u] \in Person
  BY DEF AdminInv
<1>2. /\ row.exists = person[u].exists /\ row.active = person[u].active
      /\ row.role = person[u].role /\ row.staff = person[u].staff /\ row.verified
  BY <1>1 DEF Person
<1>3. person' = [person EXCEPT ![u] = row]
  BY DEF ConfirmAddress
<1> HIDE DEF row
<1>4. /\ \A w \in People \ {u} : person'[w] = person[w]
      /\ person'[u] = row
  BY <1>3 DEF AdminInv
<1>5. u \notin RowsOf(v, q) /\ RowsOf(v, q) \subseteq People
  BY <1>1 DEF ConfirmAddress, LockedRows, Busy, RowsOf, RequestOK
<1>6. \A w \in RowsOf(v, q) : person'[w] = person[w]
  BY <1>4, <1>5
<1>7. ReadyAdmins \subseteq ReadyAdmins'
  BY <1>2, <1>4 DEF ReadyAdmins, IsReady
<1>8. policy' = policy /\ form' = form /\ q' = q
  BY DEF ConfirmAddress
<1> HIDE DEF q
<1>9. RequestOK(v, q)' /\ StillMay(v, q)'
  <2>1. ASSUME NEW any, any = q PROVE (RequestOK(v, any))' /\ (StillMay(v, any))'
    BY <1>1, <1>6, <1>7, <1>8, <2>1, StaysAllowed
  <2> QED BY <1>8, <2>1
<1> QED BY <1>9 DEF q

\* A request goes on undisturbed by a step that changes no account and no policy.
LEMMA OthersApart ==
    ASSUME AdminInv, UNCHANGED <<person, policy>>, NEW v \in People, Busy(v),
           txn'[v] = txn[v], form'[v] = form[v] \/ form[v] = NoForm, Nobody \notin People
    PROVE  RequestOK(v, txn[v])' /\ StillMay(v, txn[v])'
<1> DEFINE q == txn[v]
<1>1. RequestOK(v, q) /\ StillMay(v, q)
  BY DEF AdminInv
<1>2. form'[v] = form[v] \/ q.kind # "restrict"
  BY <1>1 DEF RequestOK, NoForm
<1>3. ReadyAdmins' = ReadyAdmins
  BY DEF ReadyAdmins
<1>4. q' = q
  OBVIOUS
<1> HIDE DEF q
<1>5. RequestOK(v, q)' /\ StillMay(v, q)'
  <2>1. ASSUME NEW any, any = q PROVE (RequestOK(v, any))' /\ (StillMay(v, any))'
    BY <1>1, <1>2, <1>3, <2>1, StaysAllowed
  <2> QED BY <1>4, <2>1
<1> QED BY <1>5 DEF q

\* Requests that end or go on keep apart from each other.
LEMMA StillApart ==
    ASSUME AdminInv, \A v \in People : txn'[v] = txn[v] \/ txn'[v] = Idle
    PROVE  \A u, v \in People : Busy(u)' /\ Busy(v)' /\ u # v =>
             /\ RowsOf(u, txn'[u]) \cap RowsOf(v, txn'[v]) = {}
             /\ ~(Serialized(txn'[u]) /\ Serialized(txn'[v]))
<1> QED BY DEF AdminInv, Busy

\* The forms of a step that saves no policy.
LEMMA FormsStay ==
    ASSUME AdminInv, policy' = policy, NEW v \in People, form'[v] = form[v]
    PROVE  FormOK(v)'
<1> QED BY DEF AdminInv, FormOK

LEMMA QuietStep ==
    ASSUME AdminInv, Nobody \notin People, UNCHANGED <<person, policy>>,
           DOMAIN form' = People, DOMAIN txn' = People,
           \A v \in People : txn'[v] = txn[v] \/ txn'[v] = Idle,
           \A v \in People : form'[v] = form[v] \/ form[v] = NoForm \/ txn'[v] = Idle,
           \A v \in People : FormOK(v)'
    PROVE  AdminInv'
<1>1. ASSUME NEW v \in People, Busy(v)'
      PROVE  RequestOK(v, txn[v])' /\ StillMay(v, txn[v])'
  <2>1. txn'[v] = txn[v] /\ Busy(v) /\ (form'[v] = form[v] \/ form[v] = NoForm)
    BY <1>1 DEF Busy
  <2> QED BY <2>1, OthersApart
<1>2. person' \in [People -> Person] /\ policy' \in [People -> Policy]
  BY DEF AdminInv
<1> QED BY <1>1, <1>2, StillApart DEF AdminInv

LEMMA BeginKeeps ==
    ASSUME AdminInv, NEW u \in People, NEW r \in Requests(u), Begin(u, r), Nobody \notin People
    PROVE  AdminInv'
<1>1. RequestOK(u, r) /\ r # Idle /\ StillMay(u, r)
  BY RequestShape, AllowedIsKept DEF Begin
<1>2. /\ UNCHANGED <<person, policy, form>>
      /\ txn'[u] = r /\ \A v \in People \ {u} : txn'[v] = txn[v]
      /\ DOMAIN txn' = People
  BY DEF Begin, AdminInv
<1>3. ASSUME NEW v \in People, Busy(v)'
      PROVE  RequestOK(v, txn[v])' /\ StillMay(v, txn[v])'
  <2>1. CASE v = u
    <3>1. (RequestOK(u, r))' /\ (StillMay(u, r))'
      BY <1>1, <1>2, StaysAllowed DEF ReadyAdmins
    <3> QED BY <1>2, <2>1, <3>1
  <2>2. CASE v # u
    BY <1>2, <1>3, <2>2, OthersApart DEF Busy
  <2> QED BY <2>1, <2>2
<1>4. ASSUME NEW v \in People, v # u, Busy(v)
      PROVE  RowsOf(u, r) \cap RowsOf(v, txn[v]) = {} /\ ~(Serialized(r) /\ Serialized(txn[v]))
  BY <1>4 DEF Begin, MayTakeLocks, LockedRows, Busy
<1>5. \A v, w \in People : Busy(v)' /\ Busy(w)' /\ v # w =>
          /\ RowsOf(v, txn'[v]) \cap RowsOf(w, txn'[w]) = {}
          /\ ~(Serialized(txn'[v]) /\ Serialized(txn'[w]))
  <2> SUFFICES ASSUME NEW v \in People, NEW w \in People, Busy(v)', Busy(w)', v # w
               PROVE  /\ RowsOf(v, txn'[v]) \cap RowsOf(w, txn'[w]) = {}
                      /\ ~(Serialized(txn'[v]) /\ Serialized(txn'[w]))
    OBVIOUS
  <2>1. CASE v = u
    BY <1>2, <1>4, <2>1 DEF Busy
  <2>2. CASE w = u
    BY <1>2, <1>4, <2>2 DEF Busy
  <2>3. CASE v # u /\ w # u
    BY <1>2, <2>3 DEF Busy, AdminInv
  <2> QED BY <2>1, <2>2, <2>3
<1>6. \A v \in People : FormOK(v)'
  BY <1>2, FormsStay
<1> QED BY <1>2, <1>3, <1>5, <1>6 DEF AdminInv

\* What a commit does to the policies, and to the form it came from.
LEMMA PolicyOfCommit ==
    ASSUME AdminInv, NEW u \in People, Commit(u), MaxRevision \in Nat, Nobody \notin People
    PROVE  /\ policy' \in [People -> Policy]
           /\ \A v \in People : FormOK(v)'
<1> DEFINE t == txn[u].target
           new == [blocked |-> txn[u].blocked, revision |-> policy[t].revision + 1]
<1>1. RequestOK(u, txn[u]) /\ StillMay(u, txn[u]) /\ t \in People
  BY DEF AdminInv, Commit, Busy, RequestOK
<1>2. CASE txn[u].kind = "restrict"
  <2>1. policy[t] \in Policy /\ policy[t].revision \in Nat /\ policy[t].revision < MaxRevision
    BY <1>1, <1>2 DEF AdminInv, StillMay, Policy
  <2>2. policy' = [policy EXCEPT ![t] = new] /\ form' = [form EXCEPT ![u] = NoForm]
    BY <1>2 DEF Commit
  <2>3. new \in Policy /\ new.revision = policy[t].revision + 1
    <3>1. txn[u].blocked \in SUBSET Capable
      BY <1>1, <1>2 DEF RequestOK
    <3>2. policy[t].revision + 1 \in 0..MaxRevision
      BY <2>1
    <3> QED BY <3>1, <3>2 DEF Policy
  <2> HIDE DEF new
  <2>4. /\ policy' \in [People -> Policy] /\ policy'[t] = new
        /\ \A w \in People \ {t} : policy'[w] = policy[w]
    BY <1>1, <2>2, <2>3 DEF AdminInv
  <2>5. ASSUME NEW v \in People PROVE FormOK(v)'
    <3>1. CASE v = u
      BY <2>2, <3>1 DEF FormOK, NoForm, AdminInv
    <3>2. CASE v # u /\ form[v].target = t
      <4>1. form'[v] = form[v] /\ FormOK(v)
        BY <2>2, <3>2 DEF AdminInv
      <4>2. form[v].revision \in Nat /\ form[v].revision < new.revision
        BY <1>1, <2>1, <2>3, <3>2, <4>1 DEF FormOK
      <4>3. /\ form'[v].revision \in Nat /\ form'[v].revision <= policy'[t].revision
            /\ form'[v].revision # policy'[t].revision
        BY <2>1, <2>3, <2>4, <4>1, <4>2
      <4> QED BY <3>2, <4>1, <4>3 DEF FormOK
    <3>3. CASE v # u /\ form[v].target # t
      <4>1. form'[v] = form[v] /\ FormOK(v)
        BY <2>2, <3>3 DEF AdminInv
      <4> QED BY <2>4, <3>3, <4>1 DEF FormOK
    <3> QED BY <3>1, <3>2, <3>3
  <2> QED BY <2>4, <2>5
<1>3. CASE txn[u].kind # "restrict"
  <2>1. policy' = policy /\ form' = form
    BY <1>3 DEF Commit
  <2> QED BY <2>1, FormsStay DEF AdminInv
<1> QED BY <1>2, <1>3

LEMMA CommitKeeps ==
    ASSUME AdminInv, NEW u \in People, Commit(u), MaxRevision \in Nat, Nobody \notin People
    PROVE  AdminInv'
<1>1. RequestOK(u, txn[u])
  BY DEF AdminInv, Commit, Busy
<1>2. person' \in [People -> Person]
  BY <1>1, WrittenFacts DEF AdminInv, Commit
<1>3. /\ DOMAIN form' = People /\ DOMAIN txn' = People
      /\ \A v \in People : txn'[v] = txn[v] \/ txn'[v] = Idle
      /\ txn'[u] = Idle /\ \A v \in People \ {u} : txn'[v] = txn[v]
  BY DEF AdminInv, Commit
<1>4. ASSUME NEW v \in People, Busy(v)'
      PROVE  RequestOK(v, txn[v])' /\ StillMay(v, txn[v])'
  BY <1>3, <1>4, CommitApart DEF Busy
<1> QED BY <1>2, <1>3, <1>4, PolicyOfCommit, StillApart DEF AdminInv

LEMMA ConfirmKeeps ==
    ASSUME AdminInv, NEW u \in People, ConfirmAddress(u)
    PROVE  AdminInv'
<1> DEFINE row == [person[u] EXCEPT !.verified = TRUE]
<1>1. row \in Person
  BY DEF AdminInv, Person
<1>2. person' = [person EXCEPT ![u] = row]
  BY DEF ConfirmAddress
<1> HIDE DEF row
<1>3. person' \in [People -> Person]
  BY <1>1, <1>2 DEF AdminInv
<1>4. UNCHANGED <<policy, form, txn>>
  BY DEF ConfirmAddress
<1>5. ASSUME NEW v \in People, Busy(v)'
      PROVE  RequestOK(v, txn[v])' /\ StillMay(v, txn[v])'
  BY <1>4, <1>5, ConfirmApart DEF Busy
<1>6. \A v \in People : FormOK(v)'
  BY <1>4, FormsStay
<1> QED BY <1>3, <1>4, <1>5, <1>6, StillApart DEF AdminInv

LEMMA OpenKeeps ==
    ASSUME AdminInv, NEW u \in People, NEW t \in People, OpenForm(u, t), Nobody \notin People
    PROVE  AdminInv'
<1> DEFINE new == [target |-> t, revision |-> policy[t].revision, shown |-> policy[t].blocked]
<1>1. form' = [form EXCEPT ![u] = new] /\ form[u] = NoForm /\ UNCHANGED <<person, policy, txn>>
  BY DEF OpenForm
<1>2. new.target = t /\ new.revision = policy[t].revision /\ new.shown = policy[t].blocked
  OBVIOUS
<1>3. policy[t].revision \in Nat
  BY DEF AdminInv, Policy
<1> HIDE DEF new
<1>4. form'[u] = new /\ \A v \in People \ {u} : form'[v] = form[v]
  BY <1>1 DEF AdminInv
<1>5. ASSUME NEW v \in People PROVE FormOK(v)'
  <2>1. CASE v = u
    BY <1>1, <1>2, <1>3, <1>4, <2>1 DEF FormOK
  <2>2. CASE v # u
    BY <1>1, <1>4, <2>2, FormsStay
  <2> QED BY <2>1, <2>2
<1> QED BY <1>1, <1>4, <1>5, QuietStep DEF AdminInv

LEMMA CloseKeeps ==
    ASSUME AdminInv, NEW u \in People, CloseForm(u), Nobody \notin People
    PROVE  AdminInv'
<1>1. /\ form' = [form EXCEPT ![u] = NoForm] /\ txn[u] = Idle
      /\ UNCHANGED <<person, policy, txn>>
  BY DEF CloseForm
<1>2. form'[u] = NoForm /\ \A v \in People \ {u} : form'[v] = form[v]
  BY <1>1 DEF AdminInv
<1>3. ASSUME NEW v \in People PROVE FormOK(v)'
  <2>1. CASE v = u
    BY <1>2, <2>1 DEF FormOK, NoForm
  <2>2. CASE v # u
    BY <1>1, <1>2, <2>2, FormsStay
  <2> QED BY <2>1, <2>2
<1> QED BY <1>1, <1>2, <1>3, QuietStep DEF AdminInv

LEMMA RequestsKeep ==
    ASSUME AdminInv, NEW u \in People, Arrive(u) \/ Refuse(u), Nobody \notin People
    PROVE  AdminInv'
<1>1. /\ UNCHANGED <<person, policy, form>> /\ DOMAIN txn' = People
      /\ \A v \in People : txn'[v] = txn[v] \/ txn'[v] = Idle
  BY DEF AdminInv, Arrive, Refuse
<1>2. \A v \in People : FormOK(v)'
  BY <1>1, FormsStay
<1> QED BY <1>1, <1>2, QuietStep DEF AdminInv

LEMMA AdminStart ==
    ASSUME AdminInit, Nobody \notin People, OwnRole \in [People -> Roles], MaxRevision \in Nat
    PROVE  AdminInv
<1>1. person \in [People -> Person]
  <2>1. ASSUME NEW u \in People
        PROVE  [role |-> OwnRole[u], active |-> TRUE, staff |-> OwnRole[u] = "SYSTEM_ADMIN",
                verified |-> TRUE, exists |-> TRUE] \in Person
    BY DEF Person
  <2> QED BY <2>1 DEF AdminInit
<1>2. policy \in [People -> Policy]
  BY DEF AdminInit, Policy
<1>3. /\ DOMAIN form = People /\ DOMAIN txn = People
      /\ \A u \in People : form[u] = NoForm /\ ~Busy(u)
  BY DEF AdminInit, Busy
<1>4. \A u \in People : FormOK(u)
  BY <1>3 DEF FormOK, NoForm
<1> QED BY <1>1, <1>2, <1>3, <1>4 DEF AdminInv

LEMMA AdminStep ==
    ASSUME AdminInv, [AdminNext]_adminVars
    PROVE  AdminInv'
<1>1. Nobody \notin People /\ MaxRevision \in Nat
  BY AdminAssumption
<1>2. CASE UNCHANGED adminVars
  <2>1. /\ UNCHANGED <<person, policy, form>> /\ DOMAIN txn' = People
        /\ \A v \in People : txn'[v] = txn[v]
    BY <1>2 DEF adminVars, AdminInv
  <2>2. \A v \in People : FormOK(v)'
    BY <2>1, FormsStay
  <2> QED BY <1>1, <2>1, <2>2, QuietStep DEF AdminInv
<1>3. ASSUME NEW u \in People, Arrive(u) \/ Refuse(u) PROVE AdminInv'
  BY <1>1, <1>3, RequestsKeep
<1>4. ASSUME NEW u \in People, Commit(u) PROVE AdminInv'
  BY <1>1, <1>4, CommitKeeps
<1>5. ASSUME NEW u \in People, ConfirmAddress(u) PROVE AdminInv'
  BY <1>5, ConfirmKeeps
<1>6. ASSUME NEW u \in People, CloseForm(u) PROVE AdminInv'
  BY <1>1, <1>6, CloseKeeps
<1>7. ASSUME NEW u \in People, NEW t \in People, OpenForm(u, t) PROVE AdminInv'
  BY <1>1, <1>7, OpenKeeps
<1>8. ASSUME NEW u \in People, NEW r \in Requests(u), Begin(u, r) PROVE AdminInv'
  BY <1>1, <1>8, BeginKeeps
<1> QED BY <1>2, <1>3, <1>4, <1>5, <1>6, <1>7, <1>8 DEF AdminNext

LEMMA AccountsInductive == AdminSpec => []AdminInv
<1>1. AdminInit => AdminInv
  BY AdminStart, AdminAssumption
<1>2. AdminInv /\ [AdminNext]_adminVars => AdminInv'
  BY AdminStep
<1> QED BY <1>1, <1>2, PTL DEF AdminSpec

-----------------------------------------------------------------------------
(* The properties *)

(* The writer of a record may write it until the commit, and every page     *)
(* offers what the writes allow (requires_capability, permission_snapshot). *)
THEOREM RightsAlwaysAgree == AdminSpec => []RightsAgree
<1>1. ASSUME AdminInv PROVE WriterStillEntitled
  <2>1. ASSUME NEW u \in People, txn[u].kind = "work" PROVE MayWork(u, txn[u])
    <3>1. Busy(u)
      BY <2>1 DEF Busy, Idle
    <3> QED BY <1>1, <2>1, <3>1 DEF AdminInv, StillMay
  <2> QED BY <2>1 DEF WriterStillEntitled
<1>2. PagesOfferWhatWritesAllow
  <2>1. ASSUME NEW u \in People, NEW action \in Capable
        PROVE  (\A d \in Dependencies(action) : d \notin policy[u].blocked)
                 <=> policy[u].blocked \cap RestsOn(action) = {}
    <3>1. Dependencies(action) = RestsOn(action)
      BY DEF Dependencies, RestsOn
    <3> QED BY <3>1
  <2> QED BY <2>1 DEF PagesOfferWhatWritesAllow, Offered, Entitled
<1>3. AdminInv => RightsAgree
  BY <1>1, <1>2 DEF RightsAgree
<1> QED BY <1>3, AccountsInductive, PTL

\* What a commit takes from the ready administrators it leaves to another.
LEMMA CommitLeavesAReadyAdmin ==
    ASSUME AdminInv, NEW u \in People, Commit(u), txn[u].kind # "recover",
           ReadyAdmins # {}
    PROVE  ReadyAdmins' # {}
<1> DEFINE r == txn[u]
           t == r.target
<1>1. RequestOK(u, r) /\ StillMay(u, r) /\ t \in People
  BY DEF AdminInv, Commit, Busy, RequestOK
<1>2. person' = Written(r)
  BY DEF Commit
<1>3. /\ \A v \in People \ {t} : person'[v] = person[v]
      /\ r.kind \in {"work", "restrict"} => person' = person
      /\ r.kind = "save" =>
           /\ person'[t].role = r.role /\ person'[t].active = r.active
           /\ person'[t].staff = person[t].staff /\ person'[t].verified = person[t].verified
           /\ person'[t].exists = person[t].exists
      /\ r.kind = "edit" =>
           /\ person'[t].role = r.role /\ person'[t].active = r.active /\ person'[t].staff = r.staff
           /\ person'[t].verified = person[t].verified /\ person'[t].exists = person[t].exists
  BY <1>1, <1>2, WrittenFacts DEF AdminInv
<1>4. ReadyAdmins \ {t} \subseteq ReadyAdmins'
  BY <1>3 DEF ReadyAdmins
<1>5. CASE t \notin ReadyAdmins
  BY <1>4, <1>5
<1>6. CASE t \in ReadyAdmins /\ Replaceable(t)
  BY <1>4, <1>6 DEF Replaceable
<1>7. CASE t \in ReadyAdmins /\ ~Replaceable(t)
  <2>1. IsReady(person[t])
    BY <1>7 DEF ReadyAdmins
  <2> HIDE DEF r, t
  <2>2. r.kind \in {"save", "edit", "work", "restrict"}
    BY <1>1, <1>7 DEF StillMay, RequestOK, Kinds, r, t
  <2>3. CASE r.kind = "save"
    <3>1. r.role = "SYSTEM_ADMIN" /\ r.active
      BY <1>1, <1>7, <2>3 DEF StillMay, t
    <3> QED BY <1>1, <1>3, <2>1, <2>3, <3>1 DEF IsReady, ReadyAdmins
  <2>4. CASE r.kind = "edit"
    <3>1. r.role = "SYSTEM_ADMIN" /\ r.active /\ r.staff
      BY <1>1, <1>7, <2>4 DEF StillMay, t
    <3> QED BY <1>1, <1>3, <2>1, <2>4, <3>1 DEF IsReady, ReadyAdmins
  <2>5. CASE r.kind \in {"work", "restrict"}
    BY <1>1, <1>3, <2>1, <2>5 DEF ReadyAdmins
  <2> QED BY <2>2, <2>3, <2>4, <2>5
<1> QED BY <1>5, <1>6, <1>7

\* Every step but a commit leaves roles and policies, and keeps who is ready.
LEMMA OnlyCommitsChange ==
    ASSUME AdminInv, [AdminNext]_adminVars
    PROVE  \/ \E u \in People : Commit(u)
           \/ /\ policy' = policy /\ ReadyAdmins \subseteq ReadyAdmins'
              /\ \A t \in People : person'[t].role = person[t].role
<1>1. ASSUME NEW u \in People, ConfirmAddress(u)
      PROVE  /\ policy' = policy /\ ReadyAdmins \subseteq ReadyAdmins'
             /\ \A t \in People : person'[t].role = person[t].role
  <2> DEFINE row == [person[u] EXCEPT !.verified = TRUE]
  <2>1. /\ row.exists = person[u].exists /\ row.active = person[u].active
        /\ row.role = person[u].role /\ row.staff = person[u].staff /\ row.verified
    BY DEF AdminInv, Person
  <2>2. person' = [person EXCEPT ![u] = row] /\ policy' = policy
    BY <1>1 DEF ConfirmAddress
  <2> HIDE DEF row
  <2>3. person'[u] = row /\ \A v \in People \ {u} : person'[v] = person[v]
    BY <2>2 DEF AdminInv
  <2> QED BY <2>1, <2>2, <2>3 DEF ReadyAdmins, IsReady
<1>2. ASSUME UNCHANGED <<person, policy>>
      PROVE  /\ policy' = policy /\ ReadyAdmins \subseteq ReadyAdmins'
             /\ \A t \in People : person'[t].role = person[t].role
  BY <1>2 DEF ReadyAdmins
<1> QED BY <1>1, <1>2 DEF AdminNext, adminVars, Arrive, Refuse, CloseForm, OpenForm, Begin

LEMMA OneChangeAtATime ==
    ASSUME AdminInv, [AdminNext]_adminVars
    PROVE  LastReadyAdminStays /\ FormsReplaceWhatTheyShowed /\ OnlySystemAdminsPromote
<1>1. CASE \E u \in People : Commit(u)
  <2>1. PICK u \in People : Commit(u)
    BY <1>1
  <2>2. RequestOK(u, txn[u]) /\ StillMay(u, txn[u]) /\ txn'[u] = Idle /\ txn[u] # Idle
    BY <2>1 DEF AdminInv, Commit, Busy
  <2>3. LastReadyAdminStays
    BY <2>1, <2>2, CommitLeavesAReadyAdmin DEF LastReadyAdminStays
  <2>4. FormsReplaceWhatTheyShowed
    <3>1. ASSUME NEW t \in People, policy'[t] # policy[t]
          PROVE  form[u].target = t /\ form[u].shown = policy[t].blocked
      <4>1. txn[u].kind = "restrict" /\ txn[u].target = t
        BY <2>1, <3>1 DEF Commit, AdminInv
      <4>2. form[u].target = t /\ form[u].revision = policy[t].revision
        BY <2>2, <4>1 DEF RequestOK, StillMay
      <4>3. FormOK(u)
        BY DEF AdminInv
      <4> QED BY <4>2, <4>3 DEF FormOK
    <3> QED BY <3>1 DEF FormsReplaceWhatTheyShowed
  <2>5. OnlySystemAdminsPromote
    <3>1. ASSUME NEW t \in People, person'[t].role = "SYSTEM_ADMIN", person[t].role # "SYSTEM_ADMIN"
          PROVE  txn[u].target = t /\ Present(u) /\ SystemWide(u)
      <4>1. person' = Written(txn[u])
        BY <2>1 DEF Commit
      <4>2. /\ txn[u].target = t
            /\ \/ txn[u].kind = "save" /\ txn[u].role = "SYSTEM_ADMIN"
               \/ txn[u].kind = "edit"
        BY <2>2, <3>1, <4>1, WrittenFacts DEF AdminInv, RequestOK, Kinds
      <4> QED BY <2>2, <4>2 DEF StillMay
    <3> QED BY <2>2, <3>1 DEF OnlySystemAdminsPromote
  <2> QED BY <2>3, <2>4, <2>5
<1>2. CASE /\ policy' = policy /\ ReadyAdmins \subseteq ReadyAdmins'
           /\ \A t \in People : person'[t].role = person[t].role
  BY <1>2 DEF LastReadyAdminStays, FormsReplaceWhatTheyShowed, OnlySystemAdminsPromote
<1> QED BY <1>1, <1>2, OnlyCommitsChange

(* However the requests of the administrators interleave, no step takes the *)
(* last ready one away (but a recovery), saves restrictions over others     *)
(* than the form showed, or promotes without a system administrator         *)
(* (AvailableAccountForm, set_restrictions, _validated_role).               *)
THEOREM AdministrationAlwaysHolds == AdminSpec => AdministrationHolds
<1>1. AdminInv /\ [AdminNext]_adminVars =>
        [LastReadyAdminStays /\ FormsReplaceWhatTheyShowed /\ OnlySystemAdminsPromote]_adminVars
  BY OneChangeAtATime
<1> QED BY <1>1, AccountsInductive, PTL DEF AdminSpec, AdministrationHolds

-----------------------------------------------------------------------------
(* Codes by mail: the rows of EmailChallenge                                *)

Stamp == [password: 1..MaxPasswords, email: Addresses,
          verified: Addresses \cup {NoAddress}, active: BOOLEAN]
SignIn == {"login", "reauth"}
Challenge == [purpose: SignIn \cup {"enroll", "change"}, browser: Browsers \cup {NoBrowser},
              stamp: Stamp, dest: Addresses, gen: Nat, attempts: Nat, delivered: BOOLEAN,
              clock: {"fresh", "expired", "lapsed"}, state: {"open", "cancelled", "consumed"},
              era: Nat]
Letter == [c: Nat, gen: Nat, browser: Browsers \cup {NoBrowser}]
Session == [logged: BOOLEAN, proof: [stamp: Stamp, recent: BOOLEAN], pending: Nat]

\* What is true of one challenge: a delivered code reached its address, only delivered
\* codes were used, and none is open that was begun before the last recovery.
RowOK(c, row, box, now) ==
    /\ row \in Challenge
    /\ row.delivered => [to |-> row.dest, c |-> c, gen |-> row.gen] \in box
    /\ row.state = "consumed" => row.delivered
    /\ row.browser # NoBrowser => row.purpose \in SignIn
    /\ row.purpose \in SignIn => row.dest = row.stamp.email
    /\ row.state = "open" => row.era = now

\* The code that session s of browser b signed in with.
SignedInWith(s, b, row) ==
    /\ row.state = "consumed" /\ row.purpose \in SignIn
    /\ row.browser = b /\ row.dest = s.proof.stamp.email

\* The link that verified address a.
VerifiedBy(a, row) ==
    row.state = "consumed" /\ row.purpose \in {"enroll", "change"} /\ row.dest = a

OtpInv ==
    /\ account \in Account /\ era \in Nat
    /\ misses \in Nat /\ misses <= MissLimit /\ guesses = misses
    /\ challenges \in Seq(Challenge)
    /\ \A c \in DOMAIN challenges : RowOK(c, challenges[c], mailbox, era)
    /\ outbox \subseteq Letter
    /\ \A m \in outbox \cup mailbox : m.c \in DOMAIN challenges
    /\ session \in [Browsers -> Session]
    /\ \A b \in Browsers : session[b].pending \in {0} \cup DOMAIN challenges
    /\ \A b \in Browsers : session[b].logged =>
           \E c \in DOMAIN challenges : SignedInWith(session[b], b, challenges[c])
    /\ account.verified \in Addresses \ {FirstAddress} =>
           \E c \in DOMAIN challenges : VerifiedBy(account.verified, challenges[c])

\* A code that was used stays used, by whom it was.
Kept(old, new) ==
    old.state = "consumed" =>
        /\ new.state = "consumed" /\ new.purpose = old.purpose
        /\ new.dest = old.dest /\ new.browser = old.browser

\* Rows that changed by steps that keep every row as it should be.
RowsKept(rows, new, box, now) ==
    /\ new \in Seq(Challenge) /\ DOMAIN rows \subseteq DOMAIN new
    /\ \A c \in DOMAIN new : RowOK(c, new[c], box, now)
    /\ \A c \in DOMAIN rows : Kept(rows[c], new[c])

\* One row is replaced.
LEMMA OneRow ==
    ASSUME NEW rows \in Seq(Challenge), NEW box, NEW now,
           \A c \in DOMAIN rows : RowOK(c, rows[c], box, now),
           NEW d \in DOMAIN rows, NEW row, RowOK(d, row, box, now), Kept(rows[d], row)
    PROVE  RowsKept(rows, [rows EXCEPT ![d] = row], box, now)
<1> DEFINE new == [rows EXCEPT ![d] = row]
<1>1. DOMAIN rows = 1..Len(rows) /\ row \in Challenge
  BY DEF RowOK
<1>2. new \in Seq(Challenge) /\ DOMAIN new = DOMAIN rows
  BY <1>1, ExceptSeq
<1>3. new[d] = row /\ \A c \in DOMAIN rows \ {d} : new[c] = rows[c]
  BY <1>1
<1> HIDE DEF new
<1>4. \A c \in DOMAIN new : RowOK(c, new[c], box, now)
  BY <1>2, <1>3
<1>5. \A c \in DOMAIN rows : Kept(rows[c], new[c])
  BY <1>3 DEF Kept
<1>6. RowsKept(rows, new, box, now)
  BY <1>2, <1>4, <1>5 DEF RowsKept
<1> QED BY <1>6 DEF new

\* Open rows are cancelled, some or all of them.
LEMMA SomeCancelled ==
    ASSUME NEW rows \in Seq(Challenge), NEW new, NEW box, NEW now,
           \A c \in DOMAIN rows : RowOK(c, rows[c], box, now),
           DOMAIN new = DOMAIN rows,
           \E f : new = [c \in DOMAIN rows |-> f[c]],
           \A c \in DOMAIN rows :
               \/ new[c] = rows[c]
               \/ rows[c].state = "open" /\ new[c] = [rows[c] EXCEPT !.state = "cancelled"]
    PROVE  RowsKept(rows, new, box, now)
<1>1. DOMAIN rows = 1..Len(rows) /\ Len(rows) \in Nat
  OBVIOUS
<1>2. ASSUME NEW c \in DOMAIN rows
      PROVE  RowOK(c, new[c], box, now) /\ Kept(rows[c], new[c])
  <2>1. CASE new[c] = rows[c]
    BY <2>1 DEF Kept
  <2>2. CASE rows[c].state = "open" /\ new[c] = [rows[c] EXCEPT !.state = "cancelled"]
    <3>1. RowOK(c, rows[c], box, now)
      OBVIOUS
    <3> DEFINE r == rows[c]
               q == [r EXCEPT !.state = "cancelled"]
    <3>2. /\ q \in Challenge /\ q.state = "cancelled" /\ q.dest = r.dest /\ q.gen = r.gen
          /\ q.delivered = r.delivered /\ q.browser = r.browser /\ q.purpose = r.purpose
          /\ q.stamp = r.stamp
      BY <3>1 DEF RowOK, Challenge
    <3> HIDE DEF q
    <3>3. RowOK(c, q, box, now)
      BY <3>1, <3>2 DEF RowOK
    <3>4. new[c] = q
      BY <2>2 DEF q
    <3> QED BY <2>2, <3>3, <3>4 DEF Kept
  <2> QED BY <2>1, <2>2
<1>3. new \in Seq(Challenge)
  <2>1. \A c \in 1..Len(rows) : new[c] \in Challenge
    BY <1>1, <1>2 DEF RowOK
  <2>2. new \in [1..Len(rows) -> Challenge]
    BY <1>1, <2>1
  <2> QED BY <1>1, <2>2, SeqDef
<1> QED BY <1>2, <1>3 DEF RowsKept

LEMMA ChallengeMade ==
    ASSUME OtpInv, FirstAddress \in Addresses, NEW old,
           RowsKept(challenges, old, mailbox, era), DOMAIN old = DOMAIN challenges,
           NEW purpose, NEW b \in Browsers \cup {NoBrowser}, NEW a \in Addresses,
           \/ purpose \in SignIn /\ a = account.email
           \/ purpose \in {"enroll", "change"} /\ b = NoBrowser,
           challenges' = Append(old, NewChallenge(purpose, b, a))
    PROVE  /\ RowsKept(challenges, challenges', mailbox, era)
           /\ Len(challenges) + 1 \in DOMAIN challenges' /\ Len(challenges) + 1 \in Nat
<1> DEFINE row == NewChallenge(purpose, b, a)
           stamp == AccountStamp(account)
<1>1. stamp \in Stamp /\ stamp.email = account.email
  BY DEF AccountStamp, Stamp, OtpInv, Account
<1> HIDE DEF stamp
<1>2. /\ row \in Challenge /\ row.state = "open" /\ row.era = era /\ ~row.delivered
      /\ row.browser = b /\ row.purpose = purpose /\ row.dest = a /\ row.stamp = stamp
  <2>1. row = [purpose |-> purpose, browser |-> b, stamp |-> stamp, dest |-> a,
               gen |-> 1, attempts |-> 0, delivered |-> FALSE, clock |-> "fresh",
               state |-> "open", era |-> era]
    BY DEF NewChallenge, stamp
  <2>2. purpose \in SignIn \cup {"enroll", "change"} /\ era \in Nat
    BY DEF OtpInv
  <2> QED BY <1>1, <2>1, <2>2 DEF Challenge
<1> HIDE DEF row
<1>3. ASSUME NEW c PROVE RowOK(c, row, mailbox, era)
  BY <1>1, <1>2 DEF RowOK, SignIn
<1>4. old \in Seq(Challenge) /\ challenges \in Seq(Challenge) /\ Len(old) = Len(challenges)
  <2>1. old \in Seq(Challenge) /\ challenges \in Seq(Challenge)
    BY DEF RowsKept, OtpInv
  <2>2. DOMAIN old = 1..Len(old) /\ DOMAIN challenges = 1..Len(challenges)
    BY <2>1
  <2>3. ASSUME NEW m \in Nat, NEW n \in Nat, 1..m = 1..n PROVE m <= n
    <3>1. m = 0 \/ m \in 1..n
      BY <2>3
    <3> QED BY <3>1
  <2>4. Len(old) \in Nat /\ Len(challenges) \in Nat
    BY <2>1
  <2>5. 1..Len(old) = 1..Len(challenges)
    BY <2>2, Zenon
  <2>6. Len(old) <= Len(challenges) /\ Len(challenges) <= Len(old)
    BY <2>3, <2>4, <2>5
  <2> QED BY <2>1, <2>4, <2>6
<1>5. /\ challenges' \in Seq(Challenge)
      /\ DOMAIN challenges' = 1..(Len(challenges) + 1) /\ Len(challenges) \in Nat
      /\ challenges'[Len(challenges) + 1] = row
      /\ \A c \in DOMAIN challenges : challenges'[c] = old[c]
  BY <1>2, <1>4 DEF row
<1>6. \A c \in DOMAIN challenges' : RowOK(c, challenges'[c], mailbox, era)
  BY <1>3, <1>4, <1>5 DEF RowsKept
<1>7. \A c \in DOMAIN challenges : Kept(challenges[c], challenges'[c])
  BY <1>5 DEF RowsKept
<1>8. DOMAIN challenges \subseteq DOMAIN challenges'
  BY <1>4, <1>5
<1> QED BY <1>5, <1>6, <1>7, <1>8 DEF RowsKept

\* Those open rows among the chosen are cancelled.
LEMMA ChosenCancelled ==
    ASSUME NEW rows \in Seq(Challenge), NEW box, NEW now, NEW chosen,
           \A c \in DOMAIN rows : RowOK(c, rows[c], box, now)
    PROVE  RowsKept(rows, [c \in DOMAIN rows |->
                             IF rows[c].state = "open" /\ c \in chosen
                             THEN [rows[c] EXCEPT !.state = "cancelled"] ELSE rows[c]], box, now)
<1> DEFINE new == [c \in DOMAIN rows |->
                     IF rows[c].state = "open" /\ c \in chosen
                     THEN [rows[c] EXCEPT !.state = "cancelled"] ELSE rows[c]]
<1>1. DOMAIN new = DOMAIN rows /\ \E f : new = [c \in DOMAIN rows |-> f[c]]
  <2>1. new = [c \in DOMAIN rows |-> new[c]]
    OBVIOUS
  <2> QED BY <2>1
<1>2. \A c \in DOMAIN rows :
        \/ new[c] = rows[c]
        \/ rows[c].state = "open" /\ new[c] = [rows[c] EXCEPT !.state = "cancelled"]
  OBVIOUS
<1> HIDE DEF new
<1>3. RowsKept(rows, new, box, now)
  BY <1>1, <1>2, SomeCancelled
<1> QED BY <1>3 DEF new

\* A step that makes a challenge and mails its code.
LEMMA MadeKeeps ==
    ASSUME OtpInv, RowsKept(challenges, challenges', mailbox, era),
           UNCHANGED <<account, mailbox, session, misses, guesses, era>>,
           NEW d \in DOMAIN challenges', d \in Nat, NEW b \in Browsers \cup {NoBrowser},
           outbox' = outbox \cup {[c |-> d, gen |-> 1, browser |-> b]}
    PROVE  OtpInv'
<1> DEFINE m == [c |-> d, gen |-> 1, browser |-> b]
<1>1. m \in Letter /\ m.c = d
  BY DEF Letter
<1>2. outbox' = outbox \cup {m}
  OBVIOUS
<1> HIDE DEF m
<1>3. outbox' \subseteq Letter /\ \A n \in outbox' \cup mailbox' : n.c \in DOMAIN challenges'
  BY <1>1, <1>2 DEF OtpInv, RowsKept
<1>4. ASSUME NEW u \in Browsers, session[u].logged
      PROVE  \E c \in DOMAIN challenges' : SignedInWith(session[u], u, challenges'[c])
  BY <1>4 DEF OtpInv, RowsKept, Kept, SignedInWith
<1>5. account.verified \in Addresses \ {FirstAddress} =>
        \E c \in DOMAIN challenges' : VerifiedBy(account.verified, challenges'[c])
  BY DEF OtpInv, RowsKept, Kept, VerifiedBy
<1> QED BY <1>3, <1>4, <1>5 DEF OtpInv, RowsKept

LEMMA BeginLoginKeeps ==
    ASSUME OtpInv, FirstAddress \in Addresses, NEW b \in Browsers, BeginLogin(b)
    PROVE  OtpInv'
<1> DEFINE chosen == {c \in DOMAIN challenges :
                        challenges[c].browser = b /\ challenges[c].purpose = "login"}
           old == [c \in DOMAIN challenges |->
                     IF challenges[c].state = "open" /\ c \in chosen
                     THEN [challenges[c] EXCEPT !.state = "cancelled"] ELSE challenges[c]]
<1>1. /\ challenges' = Append(old, NewChallenge("login", b, account.email))
      /\ outbox' = outbox \cup {[c |-> Len(challenges) + 1, gen |-> 1, browser |-> b]}
      /\ UNCHANGED <<account, mailbox, session, misses, guesses, era>>
  <2>1. old = [c \in DOMAIN challenges |->
                 IF challenges[c].state = "open"
                    /\ (challenges[c].browser = b /\ challenges[c].purpose = "login")
                 THEN [challenges[c] EXCEPT !.state = "cancelled"] ELSE challenges[c]]
    OBVIOUS
  <2> HIDE DEF old
  <2> QED BY <2>1 DEF BeginLogin, MakeChallenge, CancelThose
<1>2. RowsKept(challenges, old, mailbox, era) /\ DOMAIN old = DOMAIN challenges
  BY ChosenCancelled DEF OtpInv
<1> HIDE DEF old
<1>3. account.email \in Addresses
  BY DEF OtpInv, Account
<1>4. /\ RowsKept(challenges, challenges', mailbox, era)
      /\ Len(challenges) + 1 \in DOMAIN challenges' /\ Len(challenges) + 1 \in Nat
  BY <1>1, <1>2, <1>3, ChallengeMade DEF SignIn
<1> QED BY <1>1, <1>4, MadeKeeps

\* A step that leaves what was used as it was, and the browsers' bindings.
LEMMA Keeps ==
    ASSUME OtpInv, account' \in Account, era' \in Nat,
           misses' \in Nat, misses' <= MissLimit, guesses' = misses',
           RowsKept(challenges, challenges', mailbox', era'),
           outbox' \subseteq Letter, \A m \in outbox' \cup mailbox' : m.c \in DOMAIN challenges',
           session' \in [Browsers -> Session],
           \A b \in Browsers :
               /\ session'[b].pending \in {0, session[b].pending} \cup DOMAIN challenges'
               /\ session'[b].logged =>
                    \/ /\ session[b].logged
                       /\ session'[b].proof.stamp.email = session[b].proof.stamp.email
                    \/ \E c \in DOMAIN challenges' : SignedInWith(session'[b], b, challenges'[c]),
           \/ account'.verified \in {account.verified, NoAddress}
           \/ \E c \in DOMAIN challenges' : VerifiedBy(account'.verified, challenges'[c]),
           NoAddress \notin Addresses
    PROVE  OtpInv'
<1>1. challenges' \in Seq(Challenge) /\ DOMAIN challenges \subseteq DOMAIN challenges'
  BY DEF RowsKept
<1>2. \A c \in DOMAIN challenges' : RowOK(c, challenges'[c], mailbox', era')
  BY DEF RowsKept
<1>3. \A b \in Browsers : session'[b].pending \in {0} \cup DOMAIN challenges'
  BY <1>1 DEF OtpInv
<1>4. ASSUME NEW b \in Browsers, session'[b].logged
      PROVE  \E c \in DOMAIN challenges' : SignedInWith(session'[b], b, challenges'[c])
  <2>1. CASE \E c \in DOMAIN challenges' : SignedInWith(session'[b], b, challenges'[c])
    BY <2>1
  <2>2. CASE /\ session[b].logged
             /\ session'[b].proof.stamp.email = session[b].proof.stamp.email
    <3>1. PICK c \in DOMAIN challenges : SignedInWith(session[b], b, challenges[c])
      BY <2>2 DEF OtpInv
    <3>2. Kept(challenges[c], challenges'[c]) /\ c \in DOMAIN challenges'
      BY <1>1 DEF RowsKept
    <3>3. SignedInWith(session'[b], b, challenges'[c])
      BY <2>2, <3>1, <3>2 DEF SignedInWith, Kept
    <3> QED BY <3>2, <3>3
  <2> QED BY <1>4, <2>1, <2>2
<1>5. ASSUME account'.verified \in Addresses \ {FirstAddress}
      PROVE  \E c \in DOMAIN challenges' : VerifiedBy(account'.verified, challenges'[c])
  <2>1. CASE \E c \in DOMAIN challenges' : VerifiedBy(account'.verified, challenges'[c])
    BY <2>1
  <2>2. CASE account'.verified = account.verified
    <3>1. PICK c \in DOMAIN challenges : VerifiedBy(account.verified, challenges[c])
      BY <1>5, <2>2 DEF OtpInv
    <3>2. Kept(challenges[c], challenges'[c]) /\ c \in DOMAIN challenges'
      BY <1>1 DEF RowsKept
    <3> QED BY <2>2, <3>1, <3>2 DEF VerifiedBy, Kept
  <2> QED BY <1>5, <2>1, <2>2
<1> QED BY <1>1, <1>2, <1>3, <1>4, <1>5 DEF OtpInv

LEMMA RowsStay ==
    ASSUME OtpInv, NEW box, mailbox \subseteq box
    PROVE  RowsKept(challenges, challenges, box, era)
<1> QED BY DEF OtpInv, RowsKept, RowOK, Kept

\* Steps that touch neither the rows nor who signed in with them.
LEMMA AccountKeeps ==
    ASSUME OtpInv, OtpAssumption, UNCHANGED <<challenges, outbox, mailbox, session, era>>,
           account' \in Account, account'.verified = account.verified,
           misses' \in Nat, misses' <= MissLimit, guesses' = misses'
    PROVE  OtpInv'
<1>1. RowsKept(challenges, challenges', mailbox', era')
  BY RowsStay
<1>2. outbox' \subseteq Letter /\ \A m \in outbox' \cup mailbox' : m.c \in DOMAIN challenges'
  BY DEF OtpInv
<1> QED BY <1>1, <1>2, Keeps DEF OtpInv, OtpAssumption

LEMMA SmallSteps ==
    ASSUME OtpInv, OtpAssumption,
           \/ \E b \in Browsers : TypePassword(b) \/ RefuseLogin(b)
           \/ MissesExpire \/ ResetPassword \/ ToggleActive
    PROVE  OtpInv'
<1>0. account \in Account /\ misses \in Nat /\ misses <= MissLimit /\ guesses = misses
      /\ MissLimit \in Nat
  BY DEF OtpInv, OtpAssumption
<1>1. CASE \E b \in Browsers : TypePassword(b) \/ RefuseLogin(b)
  BY <1>0, <1>1, AccountKeeps DEF TypePassword, RefuseLogin
<1>2. CASE MissesExpire
  BY <1>0, <1>2, AccountKeeps DEF MissesExpire
<1>3. CASE ResetPassword
  <2>1. account' \in Account /\ account'.verified = account.verified
    BY <1>0, <1>3 DEF ResetPassword, Account
  <2> QED BY <1>0, <1>3, <2>1, AccountKeeps DEF ResetPassword
<1>4. CASE ToggleActive
  <2>1. account' \in Account /\ account'.verified = account.verified
    BY <1>0, <1>4 DEF ToggleActive, Account
  <2> QED BY <1>0, <1>4, <2>1, AccountKeeps DEF ToggleActive
<1> QED BY <1>1, <1>2, <1>3, <1>4

LEMMA BeginReauthKeeps ==
    ASSUME OtpInv, FirstAddress \in Addresses, NEW b \in Browsers, BeginReauth(b)
    PROVE  OtpInv'
<1> DEFINE chosen == {c \in DOMAIN challenges :
                        challenges[c].browser = b /\ challenges[c].purpose = "reauth"}
           old == [c \in DOMAIN challenges |->
                     IF challenges[c].state = "open" /\ c \in chosen
                     THEN [challenges[c] EXCEPT !.state = "cancelled"] ELSE challenges[c]]
<1>1. /\ challenges' = Append(old, NewChallenge("reauth", b, account.email))
      /\ outbox' = outbox \cup {[c |-> Len(challenges) + 1, gen |-> 1, browser |-> b]}
      /\ UNCHANGED <<account, mailbox, session, misses, guesses, era>>
  <2>1. old = [c \in DOMAIN challenges |->
                 IF challenges[c].state = "open"
                    /\ (challenges[c].browser = b /\ challenges[c].purpose = "reauth")
                 THEN [challenges[c] EXCEPT !.state = "cancelled"] ELSE challenges[c]]
    OBVIOUS
  <2> HIDE DEF old
  <2> QED BY <2>1 DEF BeginReauth, MakeChallenge, CancelThose
<1>2. RowsKept(challenges, old, mailbox, era) /\ DOMAIN old = DOMAIN challenges
  BY ChosenCancelled DEF OtpInv
<1> HIDE DEF old
<1>3. account.email \in Addresses
  BY DEF OtpInv, Account
<1>4. /\ RowsKept(challenges, challenges', mailbox, era)
      /\ Len(challenges) + 1 \in DOMAIN challenges' /\ Len(challenges) + 1 \in Nat
  BY <1>1, <1>2, <1>3, ChallengeMade DEF SignIn
<1> QED BY <1>1, <1>4, MadeKeeps

\* The two challenges that go to no browser.
LEMMA LinksKeep ==
    ASSUME OtpInv, FirstAddress \in Addresses,
           Invite \/ \E b \in Browsers : RequestEmailChange(b)
    PROVE  OtpInv'
<1>1. PICK purpose \in {"enroll", "change"}, a \in Addresses :
        LET chosen == {c \in DOMAIN challenges : challenges[c].purpose = purpose}
            old == [c \in DOMAIN challenges |->
                      IF challenges[c].state = "open" /\ c \in chosen
                      THEN [challenges[c] EXCEPT !.state = "cancelled"] ELSE challenges[c]]
        IN  /\ challenges' = Append(old, NewChallenge(purpose, NoBrowser, a))
            /\ outbox' = outbox \cup {[c |-> Len(challenges) + 1, gen |-> 1, browser |-> NoBrowser]}
            /\ UNCHANGED <<account, mailbox, session, misses, guesses, era>>
  <2> DEFINE old(p) == [c \in DOMAIN challenges |->
                          IF challenges[c].state = "open" /\ challenges[c].purpose = p
                          THEN [challenges[c] EXCEPT !.state = "cancelled"] ELSE challenges[c]]
             full(p) == [c \in DOMAIN challenges |->
                          IF challenges[c].state = "open"
                             /\ c \in {d \in DOMAIN challenges : challenges[d].purpose = p}
                          THEN [challenges[c] EXCEPT !.state = "cancelled"] ELSE challenges[c]]
  <2>1. \A p : old(p) = full(p)
    OBVIOUS
  <2>2. ASSUME NEW p \in {"enroll", "change"}, NEW a \in Addresses,
               challenges' = Append(old(p), NewChallenge(p, NoBrowser, a)),
               outbox' = outbox \cup {[c |-> Len(challenges) + 1, gen |-> 1, browser |-> NoBrowser]},
               UNCHANGED <<account, mailbox, session, misses, guesses, era>>
        PROVE  \E purpose \in {"enroll", "change"}, to \in Addresses :
                 /\ challenges' = Append(full(purpose), NewChallenge(purpose, NoBrowser, to))
                 /\ outbox' = outbox \cup {[c |-> Len(challenges) + 1, gen |-> 1,
                                            browser |-> NoBrowser]}
                 /\ UNCHANGED <<account, mailbox, session, misses, guesses, era>>
    <3> HIDE DEF old, full
    <3> QED BY <2>1, <2>2
  <2>3. CASE Invite
    <3>1. account.email \in Addresses
      BY DEF OtpInv, Account
    <3>2. /\ challenges' = Append(old("enroll"), NewChallenge("enroll", NoBrowser, account.email))
          /\ outbox' = outbox \cup {[c |-> Len(challenges) + 1, gen |-> 1, browser |-> NoBrowser]}
          /\ UNCHANGED <<account, mailbox, session, misses, guesses, era>>
      BY <2>3 DEF Invite, MakeChallenge, CancelThose
    <3> HIDE DEF old
    <3> QED BY <2>2, <3>1, <3>2
  <2>4. ASSUME NEW b \in Browsers, RequestEmailChange(b)
        PROVE  \E a \in Addresses :
                 /\ challenges' = Append(old("change"), NewChallenge("change", NoBrowser, a))
                 /\ outbox' = outbox \cup {[c |-> Len(challenges) + 1, gen |-> 1,
                                            browser |-> NoBrowser]}
                 /\ UNCHANGED <<account, mailbox, session, misses, guesses, era>>
    BY <2>4 DEF RequestEmailChange, MakeChallenge, CancelThose
  <2> HIDE DEF old
  <2> QED BY <2>2, <2>3, <2>4
<1> DEFINE chosen == {c \in DOMAIN challenges : challenges[c].purpose = purpose}
           old == [c \in DOMAIN challenges |->
                     IF challenges[c].state = "open" /\ c \in chosen
                     THEN [challenges[c] EXCEPT !.state = "cancelled"] ELSE challenges[c]]
<1>2. RowsKept(challenges, old, mailbox, era) /\ DOMAIN old = DOMAIN challenges
  BY ChosenCancelled DEF OtpInv
<1>3. challenges' = Append(old, NewChallenge(purpose, NoBrowser, a))
  BY <1>1
<1> HIDE DEF old
<1>4. /\ RowsKept(challenges, challenges', mailbox, era)
      /\ Len(challenges) + 1 \in DOMAIN challenges' /\ Len(challenges) + 1 \in Nat
  BY <1>2, <1>3, ChallengeMade
<1> QED BY <1>1, <1>4, MadeKeeps

\* A step that replaces one row, which stays open or is done with.
LEMMA RowKeeps ==
    ASSUME OtpInv, OtpAssumption, NEW d \in DOMAIN challenges, NEW row,
           challenges' = [challenges EXCEPT ![d] = row],
           RowOK(d, row, mailbox, era), Kept(challenges[d], row),
           UNCHANGED <<account, mailbox, era>>,
           misses' \in Nat, misses' <= MissLimit, guesses' = misses',
           outbox' \subseteq Letter, \A m \in outbox' : m.c \in DOMAIN challenges,
           session' \in [Browsers -> Session],
           \A b \in Browsers :
               /\ session'[b].pending \in {0, session[b].pending} \cup DOMAIN challenges
               /\ session'[b].logged =>
                    \/ session[b].logged /\ session'[b].proof = session[b].proof
                    \/ SignedInWith(session'[b], b, row)
    PROVE  OtpInv'
<1>1. RowsKept(challenges, challenges', mailbox', era')
  BY OneRow DEF OtpInv
<1>2. challenges'[d] = row /\ DOMAIN challenges' = DOMAIN challenges
  BY DEF OtpInv
<1>3. \A m \in outbox' \cup mailbox' : m.c \in DOMAIN challenges'
  BY <1>2 DEF OtpInv
<1>4. account' \in Account /\ era' \in Nat /\ account'.verified = account.verified
  BY DEF OtpInv
<1>5. \A b \in Browsers :
        /\ session'[b].pending \in {0, session[b].pending} \cup DOMAIN challenges'
        /\ session'[b].logged =>
             \/ /\ session[b].logged
                /\ session'[b].proof.stamp.email = session[b].proof.stamp.email
             \/ \E c \in DOMAIN challenges' : SignedInWith(session'[b], b, challenges'[c])
  BY <1>2
<1> QED BY <1>1, <1>3, <1>4, <1>5, Keeps DEF OtpAssumption

\* What the rows and the counter look like at a state that satisfies the invariant.
LEMMA Shapes ==
    ASSUME OtpInv
    PROVE  /\ misses \in Nat /\ misses <= MissLimit /\ guesses = misses
           /\ \A c \in DOMAIN challenges :
                /\ challenges[c] \in Challenge /\ RowOK(c, challenges[c], mailbox, era)
                /\ c \in Nat
           /\ \A b \in Browsers :
                /\ session[b] \in Session
                /\ session[b].pending # 0 => session[b].pending \in DOMAIN challenges
           /\ outbox \subseteq Letter /\ \A m \in outbox : m.c \in DOMAIN challenges
           /\ session \in [Browsers -> Session]
<1> QED BY DEF OtpInv, RowOK

LEMMA ResendKeeps ==
    ASSUME OtpInv, OtpAssumption, NEW b \in Browsers, Resend(b)
    PROVE  OtpInv'
<1> DEFINE d == session[b].pending
           old == challenges[d]
           row == [old EXCEPT !.gen = @ + 1, !.delivered = FALSE, !.clock = "fresh"]
           m == [c |-> d, gen |-> old.gen + 1, browser |-> NoBrowser]
<1>1. d \in DOMAIN challenges /\ RowOK(d, old, mailbox, era) /\ old \in Challenge /\ d \in Nat
  BY Shapes DEF Resend, Pending
<1>2. old.state = "open"
  BY DEF Resend, Pending, Open
<1>3. challenges' = [challenges EXCEPT ![d] = row] /\ outbox' = outbox \cup {m}
      /\ UNCHANGED <<account, mailbox, session, misses, guesses, era>>
  BY <1>1 DEF Resend
<1>4. m \in Letter /\ m.c = d
  BY <1>1 DEF Letter, Challenge
<1>5. /\ row \in Challenge /\ ~row.delivered /\ row.state = old.state /\ row.browser = old.browser
      /\ row.purpose = old.purpose /\ row.dest = old.dest /\ row.stamp = old.stamp
      /\ row.era = old.era
  <2>1. old.gen + 1 \in Nat /\ FALSE \in BOOLEAN
    BY <1>1 DEF Challenge
  <2> DEFINE q == [old EXCEPT !.gen = old.gen + 1]
  <2>2. q \in Challenge /\ q.state = old.state /\ q.browser = old.browser
        /\ q.purpose = old.purpose /\ q.dest = old.dest /\ q.stamp = old.stamp /\ q.era = old.era
    BY <1>1, <2>1 DEF Challenge
  <2>3. row = [q EXCEPT !.delivered = FALSE, !.clock = "fresh"]
    BY <1>1 DEF Challenge
  <2> HIDE DEF q, row, old, d
  <2> QED BY <2>2, <2>3 DEF Challenge
<1> HIDE DEF row, m, old, d
<1>6. RowOK(d, row, mailbox, era) /\ Kept(old, row)
  BY <1>1, <1>2, <1>5 DEF RowOK, Kept
<1>7. outbox' \subseteq Letter /\ \A n \in outbox' : n.c \in DOMAIN challenges
  BY <1>1, <1>3, <1>4, Shapes
<1> QED BY <1>1, <1>3, <1>6, <1>7, RowKeeps, Shapes DEF old

LEMMA VerifyWrongKeeps ==
    ASSUME OtpInv, OtpAssumption, NEW b \in Browsers, VerifyWrong(b)
    PROVE  OtpInv'
<1> DEFINE d == session[b].pending
           old == challenges[d]
           row == [old EXCEPT !.attempts = @ + 1]
<1>1. d \in DOMAIN challenges /\ RowOK(d, old, mailbox, era) /\ old \in Challenge
  BY Shapes DEF VerifyWrong, Pending
<1>2. challenges' = [challenges EXCEPT ![d] = row]
      /\ UNCHANGED <<account, mailbox, session, outbox, era>>
  BY <1>1 DEF VerifyWrong, CountMiss
<1>3. misses' \in Nat /\ misses' <= MissLimit /\ guesses' = misses'
  BY Shapes DEF VerifyWrong, CountMiss, Comparable, OtpAssumption
<1>5. /\ row \in Challenge /\ row.delivered = old.delivered /\ row.state = old.state
      /\ row.browser = old.browser /\ row.gen = old.gen
      /\ row.purpose = old.purpose /\ row.dest = old.dest /\ row.stamp = old.stamp
      /\ row.era = old.era
  BY <1>1 DEF Challenge
<1> HIDE DEF row, old, d
<1>6. RowOK(d, row, mailbox, era) /\ Kept(old, row)
  BY <1>1, <1>5 DEF RowOK, Kept
<1> QED BY <1>1, <1>2, <1>3, <1>6, RowKeeps, Shapes DEF old

LEMMA CodeExpiresKeeps ==
    ASSUME OtpInv, OtpAssumption, NEW d \in DOMAIN challenges, CodeExpires(d)
    PROVE  OtpInv'
<1>1. PICK k \in {"expired", "lapsed"} :
        /\ challenges' = [challenges EXCEPT ![d].clock = k]
        /\ UNCHANGED <<account, outbox, mailbox, session, misses, guesses, era>>
  BY DEF CodeExpires
<1> DEFINE old == challenges[d]
           row == [old EXCEPT !.clock = k]
<1>2. RowOK(d, old, mailbox, era) /\ old \in Challenge
  BY Shapes
<1>3. challenges' = [challenges EXCEPT ![d] = row]
  BY <1>1
<1>5. /\ row \in Challenge /\ row.delivered = old.delivered /\ row.state = old.state
      /\ row.browser = old.browser /\ row.gen = old.gen
      /\ row.purpose = old.purpose /\ row.dest = old.dest /\ row.stamp = old.stamp
      /\ row.era = old.era
  BY <1>2 DEF Challenge
<1> HIDE DEF row, old
<1>6. RowOK(d, row, mailbox, era) /\ Kept(old, row)
  BY <1>2, <1>5 DEF RowOK, Kept
<1> QED BY <1>1, <1>3, <1>6, RowKeeps, Shapes DEF old

LEMMA CancelSignInKeeps ==
    ASSUME OtpInv, OtpAssumption, NEW b \in Browsers, CancelSignIn(b)
    PROVE  OtpInv'
<1> DEFINE d == session[b].pending
           old == challenges[d]
           row == [old EXCEPT !.state = "cancelled"]
           s == [session[b] EXCEPT !.pending = 0]
<1>1. d \in DOMAIN challenges /\ RowOK(d, old, mailbox, era) /\ old \in Challenge
  BY Shapes DEF CancelSignIn
<1>2. s \in Session /\ s.pending = 0 /\ s.logged = session[b].logged /\ s.proof = session[b].proof
  BY Shapes DEF Session
<1>3. session' = [session EXCEPT ![b] = s] /\ UNCHANGED <<account, mailbox, outbox, misses, guesses, era>>
  BY DEF CancelSignIn
<1> HIDE DEF s
<1>4. /\ session' \in [Browsers -> Session]
      /\ \A u \in Browsers :
            /\ session'[u].pending \in {0, session[u].pending}
            /\ session'[u].logged => session[u].logged /\ session'[u].proof = session[u].proof
  BY <1>2, <1>3, Shapes
<1>5. CASE Pending(b)
  <2>1. challenges' = [challenges EXCEPT ![d] = row] /\ old.state = "open"
    BY <1>1, <1>5 DEF CancelSignIn, Pending, Open
  <2>2. /\ row \in Challenge /\ row.delivered = old.delivered /\ row.state = "cancelled"
        /\ row.browser = old.browser /\ row.gen = old.gen
        /\ row.purpose = old.purpose /\ row.dest = old.dest /\ row.stamp = old.stamp
    BY <1>1 DEF Challenge
  <2> HIDE DEF row, old, d
  <2>3. RowOK(d, row, mailbox, era) /\ Kept(old, row)
    BY <1>1, <2>1, <2>2 DEF RowOK, Kept
  <2> QED BY <1>1, <1>3, <1>4, <2>1, <2>3, RowKeeps, Shapes DEF old
<1>6. CASE ~Pending(b)
  <2>1. challenges' = [challenges EXCEPT ![d] = old]
    BY <1>6, <1>1 DEF CancelSignIn, OtpInv
  <2>2. Kept(old, old)
    BY DEF Kept
  <2> HIDE DEF d
  <2> QED BY <1>1, <1>3, <1>4, <2>1, <2>2, RowKeeps, Shapes
<1> QED BY <1>5, <1>6

LEMMA ProofAgesKeeps ==
    ASSUME OtpInv, OtpAssumption, NEW b \in Browsers, ProofAges(b)
    PROVE  OtpInv'
<1> DEFINE p == [session[b].proof EXCEPT !.recent = FALSE]
           s == [session[b] EXCEPT !.proof = p]
<1>1. p \in [stamp: Stamp, recent: BOOLEAN] /\ p.stamp = session[b].proof.stamp
  BY Shapes DEF Session
<1>2. session' = [session EXCEPT ![b] = s]
  BY Shapes DEF ProofAges, Session
<1> HIDE DEF p
<1>3. s \in Session /\ s.pending = session[b].pending /\ s.logged = session[b].logged /\ s.proof = p
  BY <1>1, Shapes DEF Session
<1> HIDE DEF s
<1>4. /\ session' \in [Browsers -> Session]
      /\ \A u \in Browsers :
            /\ session'[u].pending = session[u].pending
            /\ session'[u].logged =>
                 session[u].logged /\ session'[u].proof.stamp.email = session[u].proof.stamp.email
  BY <1>1, <1>2, <1>3, Shapes
<1>5. UNCHANGED <<account, challenges, mailbox, outbox, misses, guesses, era>>
  BY DEF ProofAges
<1>6. RowsKept(challenges, challenges', mailbox', era')
  BY <1>5, RowsStay
<1>7. outbox' \subseteq Letter /\ \A m \in outbox' \cup mailbox' : m.c \in DOMAIN challenges'
  BY <1>5 DEF OtpInv
<1> QED BY <1>4, <1>5, <1>6, <1>7, Keeps DEF OtpInv, OtpAssumption

LEMMA ChangePasswordKeeps ==
    ASSUME OtpInv, OtpAssumption, NEW b \in Browsers, ChangePassword(b)
    PROVE  OtpInv'
<1> DEFINE a == [account EXCEPT !.password = @ + 1]
           p == [stamp |-> AccountStamp(a), recent |-> TRUE]
           s == [session[b] EXCEPT !.proof = p]
<1>0. account \in Account /\ account.password + 1 \in 1..MaxPasswords
  BY DEF OtpInv, Account, ChangePassword, OtpAssumption
<1>1. /\ a \in Account /\ a.verified = account.verified /\ a.email = account.email
      /\ account' = a
  BY <1>0 DEF ChangePassword, Account
<1> HIDE DEF a
<1>2. /\ p \in [stamp: Stamp, recent: BOOLEAN] /\ p.stamp.email = account.email
  <2>1. AccountStamp(a) \in Stamp /\ AccountStamp(a).email = account.email
    BY <1>1 DEF AccountStamp, Stamp, Account
  <2> QED BY <2>1
<1>3. session' = IF Proved(b) THEN [session EXCEPT ![b] = s] ELSE session
  BY Shapes DEF ChangePassword, Session, a
<1> HIDE DEF p
<1>4. s \in Session /\ s.pending = session[b].pending /\ s.logged = session[b].logged /\ s.proof = p
  BY <1>2, Shapes DEF Session
<1> HIDE DEF s
<1>5. Proved(b) => session[b].proof.stamp.email = account.email
  BY DEF Proved, AccountStamp
<1>6. /\ session' \in [Browsers -> Session]
      /\ \A u \in Browsers :
            /\ session'[u].pending = session[u].pending
            /\ session'[u].logged =>
                 session[u].logged /\ session'[u].proof.stamp.email = session[u].proof.stamp.email
  <2>1. CASE Proved(b)
    <3>1. session' = [session EXCEPT ![b] = s]
      BY <1>3, <2>1
    <3> QED BY <1>2, <1>4, <1>5, <2>1, <3>1, Shapes
  <2>2. CASE ~Proved(b)
    BY <1>3, <2>2, Shapes
  <2> QED BY <2>1, <2>2
<1>7. UNCHANGED <<challenges, mailbox, outbox, misses, guesses, era>>
  BY DEF ChangePassword
<1>8. RowsKept(challenges, challenges', mailbox', era')
  BY <1>7, RowsStay
<1>9. outbox' \subseteq Letter /\ \A m \in outbox' \cup mailbox' : m.c \in DOMAIN challenges'
  BY <1>7 DEF OtpInv
<1> QED BY <1>1, <1>6, <1>7, <1>8, <1>9, Keeps DEF OtpInv, OtpAssumption

\* The code of a challenge signs its browser in: it was delivered to the address the
\* account has now.
LEMMA VerifyRightKeeps ==
    ASSUME OtpInv, OtpAssumption, NEW b \in Browsers, NEW m \in mailbox, VerifyRight(b, m)
    PROVE  OtpInv'
<1> DEFINE d == session[b].pending
           old == challenges[d]
           row == [old EXCEPT !.state = "consumed"]
           p == [stamp |-> AccountStamp(account), recent |-> TRUE]
           s == [logged |-> TRUE, pending |-> 0, proof |-> p]
<1>1. d \in DOMAIN challenges /\ RowOK(d, old, mailbox, era) /\ old \in Challenge
  BY Shapes DEF VerifyRight, Pending
<1>2. /\ old.state = "open" /\ old.browser = b /\ old.delivered
      /\ old.stamp = AccountStamp(account)
      /\ challenges' = [challenges EXCEPT ![d] = row]
      /\ session' = [session EXCEPT ![b] = s]
      /\ UNCHANGED <<account, mailbox, misses, guesses, era>>
  BY <1>1 DEF VerifyRight, Pending, Open, Comparable, CurrentChallenge
<1>3. /\ row \in Challenge /\ row.delivered = old.delivered /\ row.state = "consumed"
      /\ row.browser = old.browser /\ row.gen = old.gen
      /\ row.purpose = old.purpose /\ row.dest = old.dest /\ row.stamp = old.stamp
  BY <1>1 DEF Challenge
<1>4. p.stamp = old.stamp /\ p \in [stamp: Stamp, recent: BOOLEAN]
  BY <1>1, <1>2 DEF Challenge
<1> HIDE DEF row, old, d, p
<1>5. s \in Session /\ s.proof = p /\ s.pending = 0
  BY <1>4 DEF Session
<1> HIDE DEF s
<1>6. RowOK(d, row, mailbox, era) /\ Kept(old, row)
  BY <1>1, <1>2, <1>3 DEF RowOK, Kept
<1>7. SignedInWith(s, b, row)
  BY <1>1, <1>2, <1>3, <1>4, <1>5 DEF RowOK, SignedInWith, OtpAssumption
<1>8. /\ session' \in [Browsers -> Session]
      /\ \A u \in Browsers :
            /\ session'[u].pending \in {0, session[u].pending}
            /\ session'[u].logged =>
                 \/ session[u].logged /\ session'[u].proof = session[u].proof
                 \/ SignedInWith(session'[u], u, row)
  BY <1>2, <1>5, <1>7, Shapes
<1>9. outbox' \subseteq Letter /\ \A n \in outbox' : n.c \in DOMAIN challenges
  <2>1. outbox' = {[n EXCEPT !.browser = IF @ = b THEN NoBrowser ELSE @] : n \in outbox}
    BY DEF VerifyRight
  <2>2. ASSUME NEW n \in outbox
        PROVE  /\ [n EXCEPT !.browser = IF @ = b THEN NoBrowser ELSE @] \in Letter
               /\ [n EXCEPT !.browser = IF @ = b THEN NoBrowser ELSE @].c = n.c
    BY Shapes DEF Letter
  <2> QED BY <2>1, <2>2, Shapes
<1> QED BY <1>1, <1>2, <1>6, <1>8, <1>9, RowKeeps, Shapes DEF old

LEMMA DeliverKeeps ==
    ASSUME OtpInv, OtpAssumption, NEW m \in outbox,
           NEW outcome \in {"accepted", "failed", "timed out"}, Deliver(m, outcome)
    PROVE  OtpInv'
<1> DEFINE d == m.c
           old == challenges[d]
           mail == [to |-> old.dest, c |-> d, gen |-> m.gen]
<1>1. /\ m \in Letter /\ d \in DOMAIN challenges /\ d \in Nat
      /\ RowOK(d, old, mailbox, era) /\ old \in Challenge
  BY Shapes
<1>2. /\ mailbox' = IF outcome = "failed" THEN mailbox ELSE mailbox \cup {mail}
      /\ UNCHANGED <<account, misses, guesses, era>>
      /\ outbox' = outbox \ {m}
  BY DEF Deliver
<1>3. mailbox \subseteq mailbox' /\ \A n \in outbox' \cup mailbox' : n.c \in DOMAIN challenges
  <2>1. mail.c = d
    OBVIOUS
  <2> HIDE DEF mail
  <2> QED BY <1>1, <1>2, <2>1 DEF OtpInv
<1>4. /\ RowsKept(challenges, challenges', mailbox', era')
      /\ DOMAIN challenges' = DOMAIN challenges
  <2>1. CASE outcome # "accepted"
    BY <1>2, <1>3, <2>1, RowsStay DEF Deliver
  <2>2. CASE outcome = "accepted"
    <3> DEFINE yes == old.delivered \/ (old.gen = m.gen /\ old.state = "open")
               row == [old EXCEPT !.delivered = yes]
    <3>1. challenges' = [challenges EXCEPT ![d] = row]
      <4>1. challenges' = [challenges EXCEPT ![d].delivered = yes]
        BY <2>2 DEF Deliver, MarkDelivered, Open
      <4> HIDE DEF yes
      <4> QED BY <1>1, <4>1
    <3>2. yes \in BOOLEAN /\ (yes => [to |-> old.dest, c |-> d, gen |-> old.gen] \in mailbox')
      BY <1>1, <1>2, <2>2 DEF RowOK
    <3>3. old.state = "consumed" => yes
      BY <1>1 DEF RowOK
    <3> HIDE DEF yes
    <3>4. /\ row \in Challenge /\ row.delivered = yes /\ row.state = old.state
          /\ row.browser = old.browser /\ row.gen = old.gen
          /\ row.purpose = old.purpose /\ row.dest = old.dest /\ row.stamp = old.stamp
          /\ row.era = old.era
      BY <1>1, <3>2 DEF Challenge
    <3> HIDE DEF row, old, d
    <3>5. RowOK(d, row, mailbox', era) /\ Kept(old, row)
      BY <1>1, <3>2, <3>3, <3>4 DEF RowOK, Kept
    <3>6. \A c \in DOMAIN challenges : RowOK(c, challenges[c], mailbox', era)
      BY <1>3 DEF OtpInv, RowOK
    <3>7. RowsKept(challenges, [challenges EXCEPT ![d] = row], mailbox', era)
      BY <1>1, <3>5, <3>6, OneRow DEF OtpInv, old
    <3> QED BY <1>2, <3>1, <3>7
  <2> QED BY <2>1, <2>2
<1>5. /\ session' \in [Browsers -> Session]
      /\ \A u \in Browsers :
            /\ session'[u].pending \in {session[u].pending, d}
            /\ session'[u].logged = session[u].logged /\ session'[u].proof = session[u].proof
  <2>1. CASE m.browser = NoBrowser
    BY <2>1, Shapes DEF Deliver
  <2>2. CASE m.browser # NoBrowser
    <3> DEFINE s == [session[m.browser] EXCEPT !.pending = d]
    <3>1. m.browser \in Browsers
      BY <1>1, <2>2 DEF Letter
    <3>2. session' = [session EXCEPT ![m.browser] = s]
      BY <2>2, <3>1 DEF Deliver
    <3>3. s \in Session /\ s.pending = d /\ s.logged = session[m.browser].logged
          /\ s.proof = session[m.browser].proof
      BY <1>1, <3>1, Shapes DEF Session
    <3> HIDE DEF s
    <3> QED BY <3>1, <3>2, <3>3, Shapes
  <2> QED BY <2>1, <2>2
<1>6. outbox' \subseteq Letter
  BY <1>2, Shapes
<1> HIDE DEF d
<1>7. \A u \in Browsers :
        /\ session'[u].pending \in {0, session[u].pending} \cup DOMAIN challenges'
        /\ session'[u].logged =>
             session[u].logged /\ session'[u].proof.stamp.email = session[u].proof.stamp.email
  BY <1>1, <1>4, <1>5
<1> QED BY <1>2, <1>3, <1>4, <1>5, <1>6, <1>7, Keeps DEF OtpInv, OtpAssumption

\* Signing out leaves no code bound to the browser, and no session.
LEMMA FlushKeeps ==
    ASSUME OtpInv, OtpAssumption, NEW b \in Browsers, Flush(b),
           UNCHANGED <<account, mailbox, misses, guesses, era>>
    PROVE  OtpInv'
<1> DEFINE freed(c) == [challenges[c] EXCEPT !.browser = NoBrowser]
<1>1. /\ DOMAIN challenges' = DOMAIN challenges
      /\ \A c \in DOMAIN challenges :
            challenges'[c] = IF challenges[c].browser = b THEN freed(c) ELSE challenges[c]
      /\ challenges' = [c \in DOMAIN challenges |-> challenges'[c]]
  BY DEF Flush
<1>2. ASSUME NEW c \in DOMAIN challenges
      PROVE  /\ RowOK(c, challenges'[c], mailbox, era)
             /\ challenges'[c].state = challenges[c].state
             /\ challenges'[c].purpose = challenges[c].purpose
             /\ challenges'[c].dest = challenges[c].dest
             /\ challenges[c].browser # b => challenges'[c] = challenges[c]
  <2>1. RowOK(c, challenges[c], mailbox, era) /\ challenges[c] \in Challenge
    BY Shapes
  <2> DEFINE old == challenges[c]
             row == freed(c)
  <2>2. /\ row \in Challenge /\ row.delivered = old.delivered /\ row.state = old.state
        /\ row.browser = NoBrowser /\ row.gen = old.gen
        /\ row.purpose = old.purpose /\ row.dest = old.dest /\ row.stamp = old.stamp
        /\ row.era = old.era
    BY <2>1 DEF Challenge
  <2>3. challenges'[c] = IF old.browser = b THEN row ELSE old
    BY <1>1
  <2> HIDE DEF row
  <2>4. RowOK(c, row, mailbox, era)
    BY <2>1, <2>2 DEF RowOK
  <2> QED BY <2>1, <2>2, <2>3, <2>4
<1> HIDE DEF freed
<1>3. challenges' \in Seq(Challenge)
  <2>1. DOMAIN challenges = 1..Len(challenges) /\ Len(challenges) \in Nat
    BY DEF OtpInv
  <2>2. \A c \in 1..Len(challenges) : challenges'[c] \in Challenge
    BY <1>2, <2>1 DEF RowOK
  <2>3. challenges' \in [1..Len(challenges) -> Challenge]
    BY <1>1, <2>1, <2>2
  <2> QED BY <2>1, <2>3, SeqDef
<1>4. outbox' \subseteq Letter /\ \A n \in outbox' : n.c \in DOMAIN challenges'
  <2>1. outbox' = {[n EXCEPT !.browser = IF @ = b THEN NoBrowser ELSE @] : n \in outbox}
    BY DEF Flush
  <2>2. ASSUME NEW n \in outbox
        PROVE  /\ [n EXCEPT !.browser = IF @ = b THEN NoBrowser ELSE @] \in Letter
               /\ [n EXCEPT !.browser = IF @ = b THEN NoBrowser ELSE @].c = n.c
    BY Shapes DEF Letter
  <2> QED BY <1>1, <2>1, <2>2, Shapes
<1>5. EmptySession \in Session /\ ~EmptySession.logged /\ EmptySession.pending = 0
  <2> DEFINE a == [password |-> 1, email |-> FirstAddress, verified |-> NoAddress, active |-> FALSE]
  <2>1. AccountStamp(a) \in Stamp
    BY DEF AccountStamp, Stamp, OtpAssumption
  <2> HIDE DEF a
  <2>2. [stamp |-> AccountStamp(a), recent |-> FALSE] \in [stamp: Stamp, recent: BOOLEAN]
    BY <2>1
  <2>3. NoProof = [stamp |-> AccountStamp(a), recent |-> FALSE]
    BY DEF NoProof, a
  <2> QED BY <2>2, <2>3 DEF EmptySession, Session
<1>6. /\ session' = [session EXCEPT ![b] = EmptySession]
      /\ \A u \in Browsers : session'[u] = IF u = b THEN EmptySession ELSE session[u]
  BY Shapes DEF Flush
<1>7. session' \in [Browsers -> Session]
  BY <1>5, <1>6, Shapes
<1>8. \A u \in Browsers : session'[u].pending \in {0} \cup DOMAIN challenges'
  BY <1>1, <1>5, <1>6 DEF OtpInv
<1>9. ASSUME NEW u \in Browsers, session'[u].logged
      PROVE  \E c \in DOMAIN challenges' : SignedInWith(session'[u], u, challenges'[c])
  <2>1. u # b /\ session'[u] = session[u]
    BY <1>5, <1>6, <1>9
  <2>2. PICK c \in DOMAIN challenges : SignedInWith(session[u], u, challenges[c])
    BY <1>9, <2>1 DEF OtpInv
  <2>3. challenges'[c] = challenges[c]
    BY <1>2, <2>1, <2>2 DEF SignedInWith
  <2> QED BY <1>1, <2>1, <2>2, <2>3
<1>10. account.verified \in Addresses \ {FirstAddress} =>
           \E c \in DOMAIN challenges' : VerifiedBy(account.verified, challenges'[c])
  BY <1>1, <1>2 DEF VerifiedBy, OtpInv
<1>11. \A c \in DOMAIN challenges' : RowOK(c, challenges'[c], mailbox, era)
  BY <1>1, <1>2
<1>12. \A n \in outbox' \cup mailbox : n.c \in DOMAIN challenges'
  BY <1>1, <1>4 DEF OtpInv
<1> QED BY <1>3, <1>4, <1>7, <1>8, <1>9, <1>10, <1>11, <1>12 DEF OtpInv

\* A change of the address ends every challenge: one may be used, the rest are cancelled.
LEMMA AllEnded ==
    ASSUME NEW rows \in Seq(Challenge), NEW new, NEW box, NEW now, NEW later,
           \A c \in DOMAIN rows : RowOK(c, rows[c], box, now),
           \E f : new = [c \in DOMAIN rows |-> f[c]],
           \A c \in DOMAIN rows :
               \/ rows[c].state # "open" /\ new[c] = rows[c]
               \/ rows[c].state = "open" /\ new[c] = [rows[c] EXCEPT !.state = "cancelled"]
               \/ /\ rows[c].state = "open" /\ rows[c].delivered
                  /\ new[c] = [rows[c] EXCEPT !.state = "consumed"]
    PROVE  RowsKept(rows, new, box, later)
<1>1. DOMAIN rows = 1..Len(rows) /\ Len(rows) \in Nat /\ DOMAIN new = DOMAIN rows
  OBVIOUS
<1>2. ASSUME NEW c \in DOMAIN rows
      PROVE  RowOK(c, new[c], box, later) /\ Kept(rows[c], new[c])
  <2>0. RowOK(c, rows[c], box, now)
    OBVIOUS
  <2>1. CASE rows[c].state # "open" /\ new[c] = rows[c]
    BY <2>0, <2>1 DEF Kept, RowOK
  <2>2. ASSUME NEW state \in {"cancelled", "consumed"}, rows[c].state = "open",
               state = "consumed" => rows[c].delivered,
               new[c] = [rows[c] EXCEPT !.state = state]
        PROVE  RowOK(c, new[c], box, later) /\ Kept(rows[c], new[c])
    <3> DEFINE r == rows[c]
               q == [r EXCEPT !.state = state]
    <3>2. /\ q \in Challenge /\ q.state = state /\ q.dest = r.dest /\ q.gen = r.gen
          /\ q.delivered = r.delivered /\ q.browser = r.browser /\ q.purpose = r.purpose
          /\ q.stamp = r.stamp
      BY <2>0 DEF RowOK, Challenge
    <3> HIDE DEF q
    <3>3. RowOK(c, q, box, later)
      BY <2>0, <2>2, <3>2 DEF RowOK
    <3>4. new[c] = q
      BY <2>2 DEF q
    <3> QED BY <2>2, <3>3, <3>4 DEF Kept
  <2> QED BY <2>1, <2>2
<1>3. new \in Seq(Challenge)
  <2>1. \A c \in 1..Len(rows) : new[c] \in Challenge
    BY <1>1, <1>2 DEF RowOK
  <2>2. new \in [1..Len(rows) -> Challenge]
    BY <1>1, <2>1
  <2> QED BY <1>1, <2>2, SeqDef
<1> QED BY <1>1, <1>2, <1>3 DEF RowsKept

LEMMA RecoverEmailKeeps ==
    ASSUME OtpInv, OtpAssumption, NEW a \in Addresses, RecoverEmail(a)
    PROVE  OtpInv'
<1>1. challenges' = [c \in DOMAIN challenges |->
                       IF challenges[c].state = "open"
                       THEN [challenges[c] EXCEPT !.state = "cancelled"] ELSE challenges[c]]
  BY DEF RecoverEmail, CancelAll, CancelThose
<1>2. /\ \E f : challenges' = [c \in DOMAIN challenges |-> f[c]]
      /\ \A c \in DOMAIN challenges :
            \/ challenges[c].state # "open" /\ challenges'[c] = challenges[c]
            \/ /\ challenges[c].state = "open"
               /\ challenges'[c] = [challenges[c] EXCEPT !.state = "cancelled"]
  <2>1. challenges' = [c \in DOMAIN challenges |-> challenges'[c]]
    BY <1>1
  <2> QED BY <1>1, <2>1
<1>3. era' = era + 1 /\ UNCHANGED <<outbox, mailbox, session, misses, guesses>>
  BY DEF RecoverEmail
<1>4. RowsKept(challenges, challenges', mailbox, era + 1)
  <2> HIDE <1>1
  <2> QED BY <1>2, AllEnded DEF OtpInv
<1>5. account' \in Account /\ account'.verified = NoAddress
  BY DEF RecoverEmail, ResetAddress, OtpInv, Account
<1>6. outbox' \subseteq Letter /\ \A m \in outbox' \cup mailbox' : m.c \in DOMAIN challenges'
  BY <1>1, <1>3 DEF OtpInv
<1>7. era' \in Nat
  BY <1>3 DEF OtpInv
<1> HIDE <1>1
<1> QED BY <1>3, <1>4, <1>5, <1>6, <1>7, Keeps DEF OtpInv, OtpAssumption

LEMMA ConfirmInvitationKeeps ==
    ASSUME OtpInv, OtpAssumption, NEW m \in mailbox, ConfirmInvitation(m)
    PROVE  OtpInv'
<1> DEFINE d == m.c
           old == challenges[d]
           used == [old EXCEPT !.state = "consumed"]
           rows == [challenges EXCEPT ![d] = used]
<1>1. /\ d \in DOMAIN challenges /\ old \in Challenge /\ RowOK(d, old, mailbox, era)
      /\ old.state = "open" /\ old.delivered /\ old.purpose \in {"enroll", "change"}
  BY Shapes DEF ConfirmInvitation, CurrentChallenge, Open, OtpInv
<1>2. /\ used \in Challenge /\ used.state = "consumed" /\ used.dest = old.dest
      /\ used.purpose = old.purpose
  BY <1>1 DEF Challenge
<1>3. challenges' = [c \in DOMAIN rows |->
                       IF rows[c].state = "open"
                       THEN [rows[c] EXCEPT !.state = "cancelled"] ELSE rows[c]]
  <2>1. rows = [challenges EXCEPT ![d].state = "consumed"]
    BY <1>1
  <2> HIDE DEF rows
  <2> QED BY <2>1 DEF ConfirmInvitation, CancelThose
<1>4. /\ DOMAIN rows = DOMAIN challenges /\ rows[d] = used
      /\ \A c \in DOMAIN challenges \ {d} : rows[c] = challenges[c]
  BY <1>1
<1> HIDE DEF rows
<1>5. challenges' = [c \in DOMAIN challenges |-> challenges'[c]] /\ challenges'[d] = used
      /\ \A c \in DOMAIN challenges \ {d} :
            challenges'[c] = IF challenges[c].state = "open"
                             THEN [challenges[c] EXCEPT !.state = "cancelled"] ELSE challenges[c]
  BY <1>1, <1>2, <1>3, <1>4
<1>6. /\ \E f : challenges' = [c \in DOMAIN challenges |-> f[c]]
      /\ \A c \in DOMAIN challenges :
            \/ challenges[c].state # "open" /\ challenges'[c] = challenges[c]
            \/ /\ challenges[c].state = "open"
               /\ challenges'[c] = [challenges[c] EXCEPT !.state = "cancelled"]
            \/ /\ challenges[c].state = "open" /\ challenges[c].delivered
               /\ challenges'[c] = [challenges[c] EXCEPT !.state = "consumed"]
  <2>1. ASSUME NEW c \in DOMAIN challenges, c # d
        PROVE  \/ challenges[c].state # "open" /\ challenges'[c] = challenges[c]
               \/ /\ challenges[c].state = "open"
                  /\ challenges'[c] = [challenges[c] EXCEPT !.state = "cancelled"]
    BY <1>5, <2>1
  <2>2. /\ challenges[d].state = "open" /\ challenges[d].delivered
        /\ challenges'[d] = [challenges[d] EXCEPT !.state = "consumed"]
    BY <1>1, <1>5
  <2> QED BY <1>5, <2>1, <2>2
<1>7. DOMAIN challenges' = DOMAIN challenges
  BY <1>5
<1>8. RowsKept(challenges, challenges', mailbox, era + 1)
  BY <1>6, AllEnded DEF OtpInv
<1>9. /\ era' = era + 1 /\ UNCHANGED <<outbox, mailbox, session, misses, guesses>>
      /\ account' = [account EXCEPT !.verified = old.dest,
                        !.email = IF old.purpose = "change" THEN old.dest ELSE @]
  BY DEF ConfirmInvitation
<1>10. account' \in Account /\ account'.verified = old.dest
  <2>1. old.dest \in Addresses
    BY <1>1 DEF Challenge
  <2> HIDE DEF old
  <2> QED BY <1>9, <2>1 DEF OtpInv, Account
<1>11. VerifiedBy(old.dest, challenges'[d])
  BY <1>1, <1>2, <1>5 DEF VerifiedBy
<1>12. outbox' \subseteq Letter /\ \A n \in outbox' \cup mailbox' : n.c \in DOMAIN challenges'
  BY <1>7, <1>9 DEF OtpInv
<1>13. era' \in Nat
  BY <1>9 DEF OtpInv
<1> HIDE DEF old, d, used
<1> QED BY <1>1, <1>7, <1>8, <1>9, <1>10, <1>11, <1>12, <1>13, Keeps DEF OtpInv, OtpAssumption

LEMMA OtpStart == ASSUME OtpInit, OtpAssumption PROVE OtpInv
<1>1. account \in Account /\ account.verified = FirstAddress
  BY DEF OtpInit, OtpAssumption, Account
<1>2. EmptySession \in Session /\ ~EmptySession.logged /\ EmptySession.pending = 0
  <2> DEFINE a == [password |-> 1, email |-> FirstAddress, verified |-> NoAddress, active |-> FALSE]
  <2>1. AccountStamp(a) \in Stamp
    BY DEF AccountStamp, Stamp, OtpAssumption
  <2> HIDE DEF a
  <2>2. [stamp |-> AccountStamp(a), recent |-> FALSE] \in [stamp: Stamp, recent: BOOLEAN]
    BY <2>1
  <2>3. NoProof = [stamp |-> AccountStamp(a), recent |-> FALSE]
    BY DEF NoProof, a
  <2> QED BY <2>2, <2>3 DEF EmptySession, Session
<1>3. challenges = <<>> /\ challenges \in Seq(Challenge) /\ DOMAIN challenges = {}
  BY DEF OtpInit
<1>4. /\ session \in [Browsers -> Session]
      /\ \A b \in Browsers : ~session[b].logged /\ session[b].pending = 0
  <2>1. session = [b \in Browsers |-> EmptySession]
    BY DEF OtpInit
  <2> QED BY <1>2, <2>1
<1>5. /\ outbox = {} /\ mailbox = {} /\ misses = 0 /\ guesses = 0 /\ era = 0
      /\ MissLimit \in Nat
  BY DEF OtpInit, OtpAssumption
<1> QED BY <1>1, <1>3, <1>4, <1>5 DEF OtpInv

LEMMA OtpStep == ASSUME OtpInv, [OtpNext]_otpVars PROVE OtpInv'
<1>0. OtpAssumption /\ FirstAddress \in Addresses
  BY OtpAssumption DEF OtpAssumption
<1>1. CASE UNCHANGED otpVars
  BY <1>0, <1>1, AccountKeeps, Shapes DEF otpVars, OtpInv
<1>2. ASSUME NEW b \in Browsers, Visit(b) \/ SignOut(b) PROVE OtpInv'
  BY <1>0, <1>2, FlushKeeps DEF Visit, SignOut
<1>3. CASE \/ \E b \in Browsers : TypePassword(b) \/ RefuseLogin(b)
           \/ MissesExpire \/ ResetPassword \/ ToggleActive
  BY <1>0, <1>3, SmallSteps
<1>4. ASSUME NEW b \in Browsers, BeginLogin(b) \/ BeginReauth(b) PROVE OtpInv'
  BY <1>0, <1>4, BeginLoginKeeps, BeginReauthKeeps
<1>5. CASE Invite \/ \E b \in Browsers : RequestEmailChange(b)
  BY <1>0, <1>5, LinksKeep
<1>6. ASSUME NEW b \in Browsers,
             Resend(b) \/ VerifyWrong(b) \/ CancelSignIn(b) \/ ProofAges(b) \/ ChangePassword(b)
      PROVE  OtpInv'
  BY <1>0, <1>6, ResendKeeps, VerifyWrongKeeps, CancelSignInKeeps, ProofAgesKeeps,
     ChangePasswordKeeps
<1>7. ASSUME NEW b \in Browsers, NEW m \in mailbox, VerifyRight(b, m) PROVE OtpInv'
  BY <1>0, <1>7, VerifyRightKeeps
<1>8. ASSUME NEW m \in outbox, NEW outcome \in {"accepted", "failed", "timed out"},
             Deliver(m, outcome)
      PROVE  OtpInv'
  BY <1>0, <1>8, DeliverKeeps
<1>9. ASSUME NEW m \in mailbox, ConfirmInvitation(m) PROVE OtpInv'
  BY <1>0, <1>9, ConfirmInvitationKeeps
<1>10. ASSUME NEW c \in DOMAIN challenges, CodeExpires(c) PROVE OtpInv'
  BY <1>0, <1>10, CodeExpiresKeeps
<1>11. ASSUME NEW a \in Addresses, RecoverEmail(a) PROVE OtpInv'
  BY <1>0, <1>11, RecoverEmailKeeps
<1> QED BY <1>1, <1>2, <1>3, <1>4, <1>5, <1>6, <1>7, <1>8, <1>9, <1>10, <1>11 DEF OtpNext

LEMMA CodesInductive == OtpSpec => []OtpInv
<1>1. OtpInit => OtpInv
  BY OtpStart, OtpAssumption DEF OtpAssumption
<1>2. OtpInv /\ [OtpNext]_otpVars => OtpInv'
  BY OtpStep
<1> QED BY <1>1, <1>2, PTL DEF OtpSpec

\* A code that was used reached its address.
LEMMA UsedWasMailed ==
    ASSUME OtpInv, NEW c \in DOMAIN challenges, challenges[c].state = "consumed"
    PROVE  Mail(c) \in mailbox
<1> QED BY DEF OtpInv, RowOK, Mail

(* For any number of browsers, addresses, codes and changes of the account: *)
(* whoever is let through signed in with a code that reached the address    *)
(* verified now, and an address is verified only by a link that reached it  *)
(* (verified, _current, invitation_valid).                                  *)
THEOREM MailboxesAlwaysReached == OtpSpec => []MailboxesWereReached
<1>1. ASSUME OtpInv PROVE SessionRestsOnMailbox
  <2>1. ASSUME NEW b \in Browsers, Proved(b)
        PROVE  \E c \in DOMAIN challenges :
                 /\ challenges[c].state = "consumed" /\ challenges[c].purpose \in {"login", "reauth"}
                 /\ challenges[c].browser = b /\ challenges[c].dest = account.verified
                 /\ Mail(c) \in mailbox
    <3>1. session[b].logged /\ session[b].proof.stamp.email = account.verified
      BY <2>1 DEF Proved, AccountStamp, EmailIsVerified
    <3>2. PICK c \in DOMAIN challenges : SignedInWith(session[b], b, challenges[c])
      BY <1>1, <3>1 DEF OtpInv
    <3> QED BY <1>1, <3>1, <3>2, UsedWasMailed DEF SignedInWith, SignIn
  <2> QED BY <2>1 DEF SessionRestsOnMailbox
<1>2. ASSUME OtpInv PROVE VerifiedAddressWasReached
  BY <1>2, UsedWasMailed DEF OtpInv, VerifiedBy, VerifiedAddressWasReached
<1>3. OtpInv => MailboxesWereReached
  BY <1>1, <1>2 DEF MailboxesWereReached
<1> QED BY <1>3, CodesInductive, PTL

(* Only the mail of a challenge's present code marks it delivered, and one  *)
(* window never compares more wrong codes than the account's limit          *)
(* (_deliver, _failed_budget).                                              *)
THEOREM CodesStayBounded == OtpSpec => []CodesAreBounded
<1>1. OtpInv => CodesAreBounded
  BY DEF OtpInv, RowOK, CodesAreBounded, DeliveredMeansThisCode, GuessesAreBounded, Mail
<1> QED BY <1>1, CodesInductive, PTL

(* No challenge begun before a recovery or a confirmed address is used      *)
(* after it (recover_email, invitation_valid).                              *)
THEOREM NoneOutlivesRecovery == OtpSpec => NoChallengeOutlivesRecovery
<1> DEFINE UsedInItsEra == \A c \in DOMAIN challenges :
               challenges[c].state = "open" /\ challenges'[c].state = "consumed"
                   => challenges[c].era = era
<1>1. OtpInv => UsedInItsEra
  BY DEF OtpInv, RowOK
<1> QED BY <1>1, CodesInductive, PTL DEF OtpSpec, NoChallengeOutlivesRecovery

====
