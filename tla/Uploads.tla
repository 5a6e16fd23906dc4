------------------------------- MODULE Uploads -------------------------------
(***************************************************************************)
(* Private uploads, the files of one record, and the job that removes      *)
(* stored objects (apps/core: upload_drafts, upload_forms, storage,        *)
(* file_lifecycle, file_maintenance; apps/tracking: file_versions).        *)
(*                                                                         *)
(* A form keeps the files a user has chosen in a draft until the user      *)
(* submits it.  Bytes are written to a store that takes no part in a       *)
(* database transaction; they are removed later, by intents that the       *)
(* transactions leave behind.  One owner has several tabs open on the same *)
(* drafts; a POST of a form is a row of transactions and the other tabs,   *)
(* the worker and the other offices run between them.                      *)
(***************************************************************************)
EXTENDS Integers, FiniteSets, Sequences

CONSTANTS
    Drafts,         \* manifests, one per form nonce
    Files,          \* client_upload_id of the files of a form
    Tabs,           \* browser tabs of the owner
    Cleaners,       \* processes that run maintain_file_uploads
    Groups,         \* logical files of the record
    NoDraft, NoFile, NoTab, NoWorker, NoGroup,
    Keep,           \* retained versions of a file: 5 in the code
    MaxFiles,       \* MAX_UPLOAD_FILES
    MaxOpen,        \* UPLOAD_DRAFT_MAX_OPEN
    Quota,          \* UPLOAD_DRAFT_MAX_BYTES, every file of size one
    MaxRevision,    \* bound: revisions of a draft
    MaxVersions,    \* bound: versions of a file
    MaxKills        \* bound: writers killed between the store and the commit

ASSUME UploadsAssumption ==
    /\ Keep \in Nat \ {0} /\ MaxFiles \in Nat \ {0} /\ Quota \in Nat /\ MaxOpen \in Nat
    /\ MaxRevision \in Nat /\ MaxVersions \in Nat \ {0} /\ MaxKills \in Nat
    /\ NoDraft \notin Drafts /\ NoTab \notin Tabs /\ NoWorker \notin Cleaners
    /\ NoGroup \notin Groups /\ NoFile \notin Files
    /\ (Drafts \cup {NoDraft}) \cap Groups = {}    \* keys of two models have two prefixes

VARIABLES
    blobs,      \* keys of the objects in the store
    kills,      \* writers killed so far; part of the name a writer draws
    lost,       \* keys whose writer was killed before its commit
    draft,      \* UploadDraft rows
    staged,     \* StagedUpload rows of each draft
    group,      \* file groups of the record with their versions
    editable,   \* the owner may change the record's files now
    drafting,   \* the record is a draft that was never routed
    intent,     \* StorageCleanupIntent rows by key
    worker,     \* what each worker is doing
    tab         \* what each tab shows and is posting

uploadVars == <<blobs, kills, lost, draft, staged, group, editable, drafting,
                intent, worker, tab>>

NoRevision == -1

(* A uuid is drawn for each write: by row, and anew after a killed writer. *)
Rows == (Drafts \X Files) \cup (Groups \X (1..MaxVersions))
Keys == [row: Rows, try: 0..MaxKills]
NoKey == [row |-> <<NoDraft, NoFile>>, try |-> 0]
KeyOf(row) == [row |-> row, try |-> kills]

DraftStates == {"none", "open", "consumed", "discarded", "expired"}
Receipt == [by: Tabs \cup {NoTab}, version: 0..MaxVersions]
NoReceipt == [by |-> NoTab, version |-> 0]
Draft == [state: DraftStates, revision: 0..(MaxRevision + 1), lapsed: BOOLEAN,
          group: Groups \cup {NoGroup}, receipt: Receipt]
Staged == [state: {"none", "saved", "removed", "consumed"},
           key: Keys \cup {NoKey}]
Version == [key: Keys, retired: BOOLEAN]
Group == [state: {"none", "live", "discarded"}, versions: Seq(Version)]
IntentStates == {"none", "pending", "running", "lapsed", "waiting", "due",
                 "complete"}
Intent == [state: IntentStates, by: Cleaners \cup {NoWorker}]
Worker == [key: Keys \cup {NoKey}, failed: BOOLEAN]
Steps == {"page", "loading", "stage", "refresh", "save", "finish", "explain"}
Tab == [at: Steps, draft: Drafts \cup {NoDraft},
        revision: (0..(MaxRevision + 1)) \cup {NoRevision}, seen: SUBSET Files,
        version: 0..MaxVersions, posting: SUBSET Files,
        expected: (0..(MaxRevision + 1)) \cup {NoRevision}, told: BOOLEAN]

(* ------------------------------ the rows ------------------------------- *)

Saved(d) == {f \in Files : staged[d][f].state = "saved"}
Live(g) == group[g].state = "live"
Latest(g) == Len(group[g].versions)
Available(g) == {n \in 1..Latest(g) : ~group[g].versions[n].retired}
Limit(d) == IF draft[d].group = NoGroup THEN MaxFiles ELSE 1

(* Bytes still held for the owner: a removed file counts until it is gone. *)
Held == {row \in Drafts \X Files : staged[row[1]][row[2]].key # NoKey}

(* locked_draft: the context is resolved again under the parent's lock. *)
InContext(d) == editable /\ (draft[d].group # NoGroup => Live(draft[d].group))
Usable(d) == draft[d].state = "open" /\ ~draft[d].lapsed /\ InContext(d)

(* _touch: the revision moves on and the draft lives for another period. *)
Touched(d) == [draft EXCEPT ![d].revision = @ + 1, ![d].lapsed = FALSE]
MayTouch(d) == draft[d].revision < MaxRevision

(* get_or_create: an intent that exists already stays as it is. *)
Queued(keys) ==
    [k \in Keys |-> IF k \in keys /\ intent[k].state = "none"
                    THEN [state |-> "pending", by |-> NoWorker] ELSE intent[k]]

(* referenced_storage_key *)
Referenced(k) ==
    \/ \E d \in Drafts, f \in Files :
          /\ staged[d][f].key = k /\ staged[d][f].state = "saved"
          /\ draft[d].state = "open"
    \/ \E g \in Groups, n \in 1..MaxVersions :
          /\ n <= Latest(g) /\ group[g].versions[n].key = k
          /\ ~group[g].versions[n].retired

(* A row, in whatever state, that names the key. *)
Named(k, rows, groups) ==
    \/ \E d \in Drafts, f \in Files : rows[d][f].key = k
    \/ \E g \in Groups : \E n \in DOMAIN groups[g].versions :
          groups[g].versions[n].key = k

(* cleanup_new_files: what is left in the store when an exception passes.  *)
(* A callback may raise after the commit; then the row is there, and so    *)
(* the object stays.                                                       *)
CompensatedBlindly(keys, rows, groups) == {}   \* mutant: no look at the rows
Compensated(keys, rows, groups) == {k \in keys : Named(k, rows, groups)}

(* What may become of a transaction that has written objects. *)
Outcomes == {"commit", "rollback", "late error", "killed"}
Committed(o) == o \in {"commit", "late error"}

(* The store after a write of keys, when the rows end as rows and groups. *)
Stored(o, keys, rows, groups) ==
    /\ blobs' = CASE o = "commit" -> blobs \cup keys
                  [] o = "killed" -> blobs \cup keys
                  [] OTHER -> blobs \cup Compensated(keys, rows, groups)
    /\ kills' = IF o = "killed" THEN kills + 1 ELSE kills
    /\ lost' = IF o = "killed" THEN lost \cup keys ELSE lost
MayEnd(o) == o = "killed" => kills < MaxKills

UploadsInit ==
    /\ blobs = {} /\ kills = 0 /\ lost = {}
    /\ \E bound \in [Drafts -> Groups \cup {NoGroup}] :
          draft = [d \in Drafts |->
                     [state |-> "none", revision |-> 0, lapsed |-> FALSE,
                      group |-> bound[d], receipt |-> NoReceipt]]
    /\ staged = [d \in Drafts |->
                   [f \in Files |-> [state |-> "none", key |-> NoKey]]]
    /\ group = [g \in Groups |-> [state |-> "none", versions |-> <<>>]]
    /\ editable = TRUE /\ drafting = TRUE
    /\ intent = [k \in Keys |-> [state |-> "none", by |-> NoWorker]]
    /\ worker = [w \in Cleaners |-> [key |-> NoKey, failed |-> FALSE]]
    /\ tab = [t \in Tabs |->
                [at |-> "page", draft |-> NoDraft, revision |-> NoRevision,
                 seen |-> {}, version |-> 0, posting |-> {},
                 expected |-> NoRevision, told |-> FALSE]]

(* ----------------------------- the form -------------------------------- *)

(* A request that ends leaves the page it was sent from. *)
Goto(t, step) ==
    tab' = IF step = "page"
           THEN [tab EXCEPT ![t].at = "page", ![t].posting = {},
                   ![t].expected = NoRevision]
           ELSE [tab EXCEPT ![t].at = step]

(* A GET of the form: first the revision is read under the locks, later,   *)
(* outside them, the list of files that the page shows.                    *)
Load(t, d) ==
    /\ tab[t].at = "page" /\ InContext(d)
    /\ draft[d].state = "none" \/ Usable(d)
    /\ tab' = [tab EXCEPT ![t].at = "loading", ![t].draft = d,
                 ![t].revision = IF draft[d].state = "none"
                                 THEN NoRevision ELSE draft[d].revision,
                 ![t].seen = {}, ![t].version = 0, ![t].told = FALSE]
    /\ UNCHANGED <<blobs, kills, lost, draft, staged, group, editable, drafting,
                   intent, worker>>

ShowFiles(t) ==
    LET d == tab[t].draft IN
    /\ tab[t].at = "loading"
    /\ tab' = [tab EXCEPT ![t].at = "page", ![t].seen = Saved(d),
                 ![t].version = IF draft[d].group = NoGroup THEN 0
                                ELSE Latest(draft[d].group)]
    /\ UNCHANGED <<blobs, kills, lost, draft, staged, group, editable, drafting,
                   intent, worker>>

OpenDrafts == {d \in Drafts : draft[d].state = "open" /\ ~draft[d].lapsed}

MayOpen(d) ==
    IF draft[d].state = "none"
    THEN InContext(d) /\ Cardinality(OpenDrafts) < MaxOpen ELSE Usable(d)
Opened(d) ==
    IF draft[d].state = "none" THEN [draft EXCEPT ![d].state = "open"] ELSE draft

(* The first transaction of a POST: open_draft, or read_draft of the one   *)
(* the page names.  A page without a draft expects whatever revision it    *)
(* finds; a consumed draft goes straight to the answer, if every file of   *)
(* the request is one it was submitted with.                               *)
Post(t, files) ==
    LET d == tab[t].draft
        first == tab[t].revision = NoRevision IN
    /\ tab[t].at = "page" /\ d # NoDraft
    /\ \/ /\ draft[d].state = "consumed"
          /\ \A f \in files : staged[d][f].state = "consumed"
          /\ tab' = [tab EXCEPT ![t].at = "finish", ![t].posting = files,
                       ![t].told = FALSE]
          /\ UNCHANGED draft
       \/ /\ MayOpen(d) /\ (draft[d].state = "none" => first)
          /\ tab' = [tab EXCEPT ![t].at = "stage", ![t].posting = files, ![t].told = FALSE,
                       ![t].expected = IF first THEN draft[d].revision
                                       ELSE tab[t].revision]
          /\ draft' = Opened(d)
    /\ UNCHANGED <<blobs, kills, lost, staged, group, editable, drafting,
                   intent, worker>>

(* stage_files: identities known already are answered without a look at    *)
(* the revision; new ones need it.  A file may be refused or fail alone.   *)
StageFiles(t, files, expected, next) ==
    LET d == tab[t].draft
        new == {f \in files : staged[d][f].state = "none"} IN
    /\ Usable(d) /\ (new # {} => expected = draft[d].revision)
    /\ \E taken \in SUBSET new, o \in Outcomes :
          LET rows == [staged EXCEPT ![d] = [f \in Files |->
                         IF f \in taken THEN [state |-> "saved",
                                              key |-> KeyOf(<<d, f>>)]
                         ELSE staged[d][f]]]
              after == IF Committed(o) THEN rows ELSE staged IN
          /\ taken = {} => o = "commit"
          /\ taken # {} => MayTouch(d)
          /\ MayEnd(o)
          /\ Cardinality(Saved(d) \cup taken) <= Limit(d)
          /\ Cardinality(Held) + Cardinality(taken) <= Quota
          /\ staged' = after
          /\ draft' = IF Committed(o) /\ taken # {} THEN Touched(d) ELSE draft
          /\ Stored(o, {KeyOf(<<d, f>>) : f \in taken}, after, group)
          /\ Goto(t, IF o = "commit" THEN next ELSE "page")
    /\ UNCHANGED <<group, editable, drafting, intent, worker>>

Stage(t) ==
    /\ tab[t].at = "stage"
    /\ StageFiles(t, tab[t].posting, tab[t].expected, "refresh")

(* refresh_from_db, outside the locks: a POST that brought files expects   *)
(* from here on whatever revision the draft has by now.                    *)
Refresh(t) ==
    /\ tab[t].at = "refresh"
    /\ tab' = [tab EXCEPT ![t].at = "save",
                 ![t].expected = IF tab[t].posting # {}
                                 THEN draft[tab[t].draft].revision ELSE @]
    /\ UNCHANGED <<blobs, kills, lost, draft, staged, group, editable, drafting,
                   intent, worker>>

(* _check_revision; the mutant is a check that was forgotten. *)
AnyRevision(t) == TRUE
AtRevision(t) == tab[t].expected = draft[tab[t].draft].revision

(* save_form_state; a form with errors goes back to its page. *)
Save(t) ==
    LET d == tab[t].draft IN
    /\ tab[t].at = "save" /\ Usable(d) /\ MayTouch(d) /\ AtRevision(t)
    /\ draft' = Touched(d)
    /\ \/ tab' = [tab EXCEPT ![t].at = "finish",
                    ![t].expected = draft[d].revision + 1]
       \/ Goto(t, "page")
    /\ UNCHANGED <<blobs, kills, lost, staged, group, editable, drafting, intent,
                   worker>>

(* An exception ends the request; after a failed finish the errors are     *)
(* saved with the form, if it is still what the request saw.               *)
Refused(t) ==
    /\ tab[t].at \in {"stage", "save", "finish"}
    /\ \/ Goto(t, "page")
       \/ tab[t].at = "finish" /\ Goto(t, "explain")
    /\ UNCHANGED <<blobs, kills, lost, draft, staged, group, editable, drafting,
                   intent, worker>>

Explain(t) ==
    LET d == tab[t].draft IN
    /\ tab[t].at = "explain" /\ Goto(t, "page")
    /\ draft' = IF Usable(d) /\ MayTouch(d) /\ AtRevision(t)
                THEN Touched(d) ELSE draft
    /\ UNCHANGED <<blobs, kills, lost, staged, group, editable, drafting, intent,
                   worker>>

(* --------------------------- the submission ---------------------------- *)

(* attach_files: every file is a new group of one version. *)
Attached(groups) ==
    [g \in Groups |-> IF g \in groups
       THEN [state |-> "live",
             versions |-> <<[key |-> KeyOf(<<g, 1>>), retired |-> FALSE]>>]
       ELSE group[g]]

(* retire_excess_versions: all but the newest Keep of what is available. *)
ExcessByOne(available) ==                       \* mutant: off by one
    {n \in available : Cardinality({m \in available : m > n}) > Keep}
Excess(available) ==
    {n \in available : Cardinality({m \in available : m > n}) >= Keep}

(* upload_attachment_version *)
Versioned(g) ==
    LET n == Latest(g) + 1
        out == Excess(Available(g) \cup {n})
        longer == Append(group[g].versions,
                         [key |-> KeyOf(<<g, n>>), retired |-> FALSE]) IN
    [group EXCEPT ![g].versions =
        [m \in 1..n |-> IF m \in out THEN [longer[m] EXCEPT !.retired = TRUE]
                        ELSE longer[m]]]

(* Keys whose version is retired in the groups to come and was not before. *)
NewlyRetired(groups) ==
    {groups[p[1]].versions[p[2]].key : p \in
       {p \in Groups \X (1..MaxVersions) :
          /\ p[2] <= Len(groups[p[1]].versions)
          /\ groups[p[1]].versions[p[2]].retired
          /\ p[2] <= Latest(p[1]) => ~group[p[1]].versions[p[2]].retired}}

ReceiptOf(t) == [by |-> t, version |-> tab[t].version]

FreeGroups == {g \in Groups : group[g].state = "none"}

(* What the business action of the form may do with the files it is given: *)
(* the file groups it leaves and the keys it writes.  A version is refused *)
(* when the page was not showing the latest one.                           *)
Effects(t) ==
    LET d == tab[t].draft
        g == draft[d].group
        n == Cardinality(Saved(d)) IN
    IF g = NoGroup
    THEN {[groups |-> Attached(new), keys |-> {KeyOf(<<h, 1>>) : h \in new}] :
             new \in {s \in SUBSET FreeGroups : Cardinality(s) = n}}
    ELSE IF /\ n = 1 /\ Latest(g) < MaxVersions
            /\ tab[t].version = Latest(g) /\ Latest(g) \in Available(g)
         THEN {[groups |-> Versioned(g), keys |-> {KeyOf(<<g, Latest(g) + 1>>)}]}
         ELSE {}

(* finalize_upload, when the draft is still open: the business action, the *)
(* receipt and the intents for the temporary objects, in one transaction.  *)
Submit(t) ==
    LET d == tab[t].draft
        files == Saved(d)
        used == {staged[d][f].key : f \in files}
        rows == [staged EXCEPT ![d] = [f \in Files |->
                   IF f \in files THEN [staged[d][f] EXCEPT !.state = "consumed"]
                   ELSE staged[d][f]]] IN
    /\ tab[t].at = "finish" /\ Usable(d) /\ AtRevision(t)
    /\ Cardinality(files) <= Limit(d) /\ used \subseteq blobs
    /\ \E o \in Outcomes, e \in Effects(t) :
          LET done == Committed(o) IN
          /\ MayEnd(o)
          /\ staged' = IF done THEN rows ELSE staged
          /\ group' = IF done THEN e.groups ELSE group
          /\ intent' = IF done THEN Queued(used \cup NewlyRetired(e.groups))
                       ELSE intent
          /\ draft' = IF done
                      THEN [draft EXCEPT ![d].state = "consumed",
                              ![d].revision = @ + 1, ![d].receipt = ReceiptOf(t)]
                      ELSE draft
          /\ Stored(o, e.keys, staged', group')
          /\ tab' = [tab EXCEPT ![t].at = "page", ![t].posting = {},
                       ![t].expected = NoRevision, ![t].told = (o = "commit")]
    /\ UNCHANGED <<editable, drafting, worker>>

(* A mutant of Replay: the fingerprint is not compared. *)
ReplayAny(t) ==
    /\ tab[t].at = "finish" /\ draft[tab[t].draft].state = "consumed"
    /\ tab' = [tab EXCEPT ![t].at = "page", ![t].posting = {},
                 ![t].expected = NoRevision, ![t].told = TRUE]
    /\ UNCHANGED <<blobs, kills, lost, draft, staged, group, editable, drafting,
                   intent, worker>>

(* The same submission once more: it is answered, and nothing is done. *)
Replay(t) ==
    LET d == tab[t].draft IN
    /\ tab[t].at = "finish" /\ draft[d].state = "consumed"
    /\ draft[d].receipt = ReceiptOf(t)
    /\ tab' = [tab EXCEPT ![t].at = "page", ![t].posting = {},
                 ![t].expected = NoRevision, ![t].told = TRUE]
    /\ UNCHANGED <<blobs, kills, lost, draft, staged, group, editable, drafting,
                   intent, worker>>

(* ------------------- single requests and other users ------------------- *)

(* UploadDraftCreateView: the page's script opens the draft of the form.   *)
(* The answers to these requests show the draft, as Load and ShowFiles do. *)
Create(t) ==
    LET d == tab[t].draft IN
    /\ tab[t].at = "page" /\ d # NoDraft /\ tab[t].revision = NoRevision
    /\ MayOpen(d) /\ draft' = Opened(d)
    /\ UNCHANGED <<blobs, kills, lost, staged, group, editable, drafting, intent,
                   worker, tab>>

(* UploadDraftView: the script saves the other fields as they change. *)
SaveValues(t) ==
    LET d == tab[t].draft IN
    /\ tab[t].at = "page" /\ d # NoDraft /\ Usable(d) /\ MayTouch(d)
    /\ tab[t].revision = draft[d].revision
    /\ draft' = Touched(d)
    /\ UNCHANGED <<blobs, kills, lost, staged, group, editable, drafting, intent,
                   worker, tab>>

(* StageUploadView: the page's script sends files as they are chosen. *)
SendFiles(t, files) ==
    /\ tab[t].at = "page" /\ tab[t].draft # NoDraft
    /\ tab[t].revision # NoRevision
    /\ StageFiles(t, files, tab[t].revision, "page")

(* The keys of rows that still have a file. *)
KeysOf(d, files) == {staged[d][f].key : f \in files} \ {NoKey}

(* discard_staged_file *)
RemoveStaged(t, f) ==
    LET d == tab[t].draft IN
    /\ tab[t].at = "page" /\ d # NoDraft /\ Usable(d)
    /\ tab[t].revision = draft[d].revision /\ MayTouch(d)
    /\ staged[d][f].state = "saved"
    /\ staged' = [staged EXCEPT ![d][f].state = "removed"]
    /\ intent' = Queued(KeysOf(d, {f}))
    /\ draft' = Touched(d)
    /\ UNCHANGED <<blobs, kills, lost, group, editable, drafting, worker, tab>>

(* A mutant of Close: only files still saved after the change are queued. *)
CloseLate(d, state) ==
    /\ draft' = [draft EXCEPT ![d].state = state, ![d].revision = @ + 1]
    /\ staged' = [staged EXCEPT ![d] = [f \in Files |->
                    IF f \in Saved(d) THEN [staged[d][f] EXCEPT !.state = "removed"]
                    ELSE staged[d][f]]]
    /\ intent' = Queued({staged[d][f].key : f \in
                         {f \in Files : staged'[d][f].state = "saved"}})

(* _close_manifest *)
Close(d, state) ==
    /\ draft' = [draft EXCEPT ![d].state = state, ![d].revision = @ + 1]
    /\ staged' = [staged EXCEPT ![d] = [f \in Files |->
                    IF f \in Saved(d) THEN [staged[d][f] EXCEPT !.state = "removed"]
                    ELSE staged[d][f]]]
    /\ intent' = Queued(KeysOf(d, Files))

(* discard_manifest *)
Discard(t) ==
    LET d == tab[t].draft IN
    /\ tab[t].at = "page" /\ d # NoDraft /\ Usable(d)
    /\ tab[t].revision = draft[d].revision
    /\ Close(d, "discarded")
    /\ UNCHANGED <<blobs, kills, lost, group, editable, drafting, worker, tab>>

(* discard_draft_group: the file leaves the record with all its versions,  *)
(* and so do the drafts that were to become its next version.              *)
DiscardGroup(g) ==
    LET bound == {d \in Drafts : draft[d].group = g /\ draft[d].state = "open"}
        groups == [group EXCEPT ![g].state = "discarded",
                     ![g].versions = [n \in 1..Latest(g) |->
                        [group[g].versions[n] EXCEPT !.retired = TRUE]]] IN
    /\ editable /\ drafting /\ Live(g)
    /\ group' = groups
    /\ draft' = [d \in Drafts |-> IF d \in bound
                   THEN [draft[d] EXCEPT !.state = "discarded", !.revision = @ + 1]
                   ELSE draft[d]]
    /\ staged' = [d \in Drafts |-> [f \in Files |->
                    IF d \in bound /\ f \in Saved(d)
                    THEN [staged[d][f] EXCEPT !.state = "removed"]
                    ELSE staged[d][f]]]
    /\ intent' = Queued(NewlyRetired(groups)
                        \cup UNION {KeysOf(d, Saved(d)) : d \in bound})
    /\ UNCHANGED <<blobs, kills, lost, editable, drafting, worker, tab>>

(* Another user's form goes through: a new file, or the next version of one. *)
OthersUpload(g) ==
    LET n == Latest(g) + 1
        groups == IF group[g].state = "none" THEN Attached({g}) ELSE Versioned(g) IN
    /\ n <= MaxVersions /\ group[g].state # "discarded"
    /\ \E o \in Outcomes :
          LET after == IF Committed(o) THEN groups ELSE group IN
          /\ MayEnd(o)
          /\ group' = after
          /\ intent' = IF Committed(o) THEN Queued(NewlyRetired(groups)) ELSE intent
          /\ Stored(o, {KeyOf(<<g, n>>)}, staged, after)
    /\ UNCHANGED <<draft, staged, editable, drafting, worker, tab>>

(* The record leaves the owner's office, or comes back; the first dispatch *)
(* ends its life as a draft.                                               *)
Move ==
    /\ editable' = ~editable
    /\ drafting' \in {drafting, FALSE}
    /\ UNCHANGED <<blobs, kills, lost, draft, staged, group, intent, worker, tab>>

(* UPLOAD_DRAFT_HOURS pass. *)
Lapse(d) ==
    /\ draft[d].state = "open" /\ ~draft[d].lapsed
    /\ draft' = [draft EXCEPT ![d].lapsed = TRUE]
    /\ UNCHANGED <<blobs, kills, lost, staged, group, editable, drafting, intent,
                   worker, tab>>

(* ---------------------------- maintenance ------------------------------ *)

(* maintain_file_uploads, its first loop: no right to the record is needed. *)
Expire(d) ==
    /\ draft[d].state = "open" /\ draft[d].lapsed
    /\ Close(d, "expired")
    /\ UNCHANGED <<blobs, kills, lost, group, editable, drafting, worker, tab>>

Unoccupied == [key |-> NoKey, failed |-> FALSE]
SetIntent(k, state, by) ==
    intent' = [intent EXCEPT ![k] = [state |-> state, by |-> by]]

(* A mutant of _claim: what failed once is not tried again. *)
ClaimPending(w, k) ==
    /\ worker[w] = Unoccupied /\ intent[k].state = "pending"
    /\ SetIntent(k, "running", w)
    /\ worker' = [worker EXCEPT ![w] = [key |-> k, failed |-> FALSE]]
    /\ UNCHANGED <<blobs, kills, lost, draft, staged, group, editable, drafting, tab>>

(* _claim: the token of a claim is its worker. *)
Claim(w, k) ==
    /\ worker[w] = Unoccupied
    /\ intent[k].state \in {"pending", "due", "lapsed"}
    /\ SetIntent(k, "running", w)
    /\ worker' = [worker EXCEPT ![w] = [key |-> k, failed |-> FALSE]]
    /\ UNCHANGED <<blobs, kills, lost, draft, staged, group, editable, drafting, tab>>

Working(w) == worker[w].key # NoKey /\ ~worker[w].failed
HoldsClaim(w) ==
    LET k == worker[w].key IN
    intent[k].state \in {"running", "lapsed"} /\ intent[k].by = w

(* _remove_intent for an object that is not needed: the object goes first, *)
(* then the rows that name it forget it, with the intent.                  *)
RemoveObject(w) ==
    LET k == worker[w].key IN
    /\ Working(w) /\ HoldsClaim(w) /\ ~Referenced(k)
    /\ blobs' = blobs \ {k}
    /\ staged' = [d \in Drafts |-> [f \in Files |->
                    IF staged[d][f].key = k THEN [staged[d][f] EXCEPT !.key = NoKey]
                    ELSE staged[d][f]]]
    /\ SetIntent(k, "complete", w)
    /\ worker' = [worker EXCEPT ![w] = Unoccupied]
    /\ UNCHANGED <<kills, lost, draft, group, editable, drafting, tab>>

(* The claim was taken over, or the object is needed: nothing is removed. *)
LeaveObject(w) ==
    LET k == worker[w].key IN
    /\ Working(w)
    /\ \/ ~HoldsClaim(w) /\ UNCHANGED intent
       \/ HoldsClaim(w) /\ Referenced(k) /\ SetIntent(k, "waiting", w)
    /\ worker' = [worker EXCEPT ![w] = Unoccupied]
    /\ UNCHANGED <<blobs, kills, lost, draft, staged, group, editable, drafting, tab>>

(* The store or the database fails, before or after the object is gone. *)
RemoveFails(w) ==
    LET k == worker[w].key IN
    /\ Working(w) /\ HoldsClaim(w) /\ ~Referenced(k)
    /\ blobs' \in {blobs, blobs \ {k}}
    /\ worker' = [worker EXCEPT ![w].failed = TRUE]
    /\ UNCHANGED <<kills, lost, draft, staged, group, editable, drafting, intent,
                   tab>>

(* Its except branch, in a transaction of its own. *)
Requeue(w) ==
    LET k == worker[w].key IN
    /\ worker[w].failed
    /\ IF intent[k].by = w THEN SetIntent(k, "waiting", w) ELSE UNCHANGED intent
    /\ worker' = [worker EXCEPT ![w] = Unoccupied]
    /\ UNCHANGED <<blobs, kills, lost, draft, staged, group, editable, drafting, tab>>

(* The worker is killed; its lease runs out; the time of a retry comes. *)
WorkerDies(w) ==
    /\ worker[w] # Unoccupied /\ worker' = [worker EXCEPT ![w] = Unoccupied]
    /\ UNCHANGED <<blobs, kills, lost, draft, staged, group, editable, drafting,
                   intent, tab>>

TimePasses(k) ==
    /\ \/ intent[k].state = "running"
          /\ SetIntent(k, "lapsed", intent[k].by)
       \/ intent[k].state = "waiting"
          /\ SetIntent(k, "due", intent[k].by)
    /\ UNCHANGED <<blobs, kills, lost, draft, staged, group, editable, drafting,
                   worker, tab>>

(* --------------------------- specification ----------------------------- *)

TabStep(t) ==
    \/ \E d \in Drafts : Load(t, d)
    \/ \E files \in SUBSET Files : Post(t, files) \/ SendFiles(t, files)
    \/ \E f \in Files : RemoveStaged(t, f)
    \/ ShowFiles(t) \/ Stage(t) \/ Refresh(t) \/ Save(t) \/ Refused(t)
    \/ Explain(t) \/ Submit(t) \/ Replay(t) \/ Discard(t)
    \/ Create(t) \/ SaveValues(t)

WorkerStep(w) ==
    \/ \E k \in Keys : Claim(w, k)
    \/ RemoveObject(w) \/ LeaveObject(w) \/ RemoveFails(w) \/ Requeue(w)
    \/ WorkerDies(w)

UploadsNext ==
    \/ \E t \in Tabs : TabStep(t)
    \/ \E g \in Groups : DiscardGroup(g) \/ OthersUpload(g)
    \/ Move
    \/ \E d \in Drafts : Lapse(d) \/ Expire(d)
    \/ \E w \in Cleaners : WorkerStep(w)
    \/ \E k \in Keys : TimePasses(k)

UploadsSpec == UploadsInit /\ [][UploadsNext]_uploadVars

(* The schedule runs the job again and again, time passes, and the store   *)
(* does not fail for ever.  Nobody has to come back to a form.             *)
UploadsFairness ==
    /\ \A d \in Drafts : WF_uploadVars(Lapse(d)) /\ WF_uploadVars(Expire(d))
    /\ \A k \in Keys : /\ WF_uploadVars(TimePasses(k))
                       /\ SF_uploadVars(\E w \in Cleaners : Claim(w, k))
    /\ \A w \in Cleaners : /\ SF_uploadVars(RemoveObject(w))
                          /\ WF_uploadVars(LeaveObject(w) \/ Requeue(w))

FairUploadsSpec == UploadsSpec /\ UploadsFairness

(* ------------------------------ properties ----------------------------- *)

(* Type correctness of the rows, the store and the requests. *)
UploadsTypeOK ==
    /\ blobs \subseteq Keys /\ lost \subseteq Keys /\ kills \in 0..MaxKills
    /\ draft \in [Drafts -> Draft] /\ staged \in [Drafts -> [Files -> Staged]]
    /\ group \in [Groups -> Group] /\ editable \in BOOLEAN /\ drafting \in BOOLEAN
    /\ intent \in [Keys -> Intent] /\ worker \in [Cleaners -> Worker]
    /\ tab \in [Tabs -> Tab]

(* Every object that a row still offers to a user is in the store: saved   *)
(* files of open drafts and the versions that were not retired, whatever   *)
(* the maintenance job, a failed write or a late callback did.             *)
NeededFilesExist == \A k \in Keys : Referenced(k) => k \in blobs

(* Nothing is left behind: an object in the store is needed, or an intent  *)
(* will remove it, or the process that wrote it was killed before its      *)
(* commit.                                                                 *)
NothingLeaks ==
    \A k \in blobs : \/ Referenced(k) \/ k \in lost
                     \/ intent[k].state \notin {"none", "complete"}

(* The user who is told that the form went through is the one whose values *)
(* the draft was consumed with; a second tab with other values is not.     *)
ToldIsTrue ==
    \A t \in Tabs : tab[t].told => LET d == tab[t].draft IN
        draft[d].state = "consumed" /\ draft[d].receipt.by = t

(* Retention: a live file keeps its newest versions, never more than Keep, *)
(* and its latest version is always one of them.                           *)
NewestAreKept ==
    \A g \in Groups : Live(g) =>
        /\ Latest(g) \in Available(g)
        /\ Cardinality(Available(g)) <= Keep
        /\ \A n \in Available(g) : n..Latest(g) \subseteq Available(g)

(* A submission without files of its own takes exactly the files that its  *)
(* page was showing, although the page read them after the revision and    *)
(* outside the locks.                                                      *)
SubmitsWhatWasShown ==
    [][\A t \in Tabs :
         LET d == tab[t].draft IN
         Submit(t) /\ draft'[d].state = "consumed" /\ tab[t].posting = {}
            /\ tab[t].revision # NoRevision
         => {f \in Files : staged'[d][f].state = "consumed"} = tab[t].seen]_uploadVars

(* Temporary objects are temporary: whatever became of its form, the       *)
(* object of a staged file leaves the store.                               *)
StagedObjectsGo ==
    \A d \in Drafts, f \in Files :
        staged[d][f].key # NoKey ~> staged[d][f].key = NoKey

(* The store holds what the rows need, and nothing else for good.          *)
StoreMatchesRows == NeededFilesExist /\ NothingLeaks

(* Versions: the newest are kept, and a submission is answered truly.       *)
SubmissionsHold == NewestAreKept /\ ToldIsTrue
=============================================================================
