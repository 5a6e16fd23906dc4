---------------------------- MODULE UploadsProofs ----------------------------
(***************************************************************************)
(* Theorems about module Uploads: for any drafts, files, tabs, file groups *)
(* and workers, the store holds what the rows need, versions are retired   *)
(* oldest first, and a form submits what its page was showing.             *)
(***************************************************************************)
EXTENDS Uploads, FiniteSetTheorems, TLAPS

USE UploadsAssumption

(* ------------------------------- types --------------------------------- *)

LEMMA KeyFacts ==
    /\ NoKey \notin Keys
    /\ \A k \in Keys : k.row \in Rows
    /\ UploadsTypeOK => \A row \in Rows : KeyOf(row) \in Keys /\ KeyOf(row).row = row
BY DEF NoKey, Keys, KeyOf, Rows, UploadsTypeOK

LEMMA RowFacts ==
    /\ \A d \in Drafts, f \in Files : <<d, f>> \in Rows
    /\ \A g \in Groups, n \in 1..MaxVersions : <<g, n>> \in Rows
    /\ \A d \in Drafts, f \in Files, g \in Groups, n \in Nat : <<d, f>> # <<g, n>>
BY DEF Rows

\* A draft that may still be changed has revisions left.
DraftsFit == \A d \in Drafts : draft[d].state \in {"none", "open"} => draft[d].revision <= MaxRevision

\* A staged file has a key of its own row, or none, and follows its draft.
StagedFit ==
    \A d \in Drafts, f \in Files :
        /\ staged[d][f].key # NoKey => staged[d][f].key.row = <<d, f>>
        /\ staged[d][f].state = "none" => staged[d][f].key = NoKey
        /\ staged[d][f].state = "saved" => draft[d].state = "open"
        /\ staged[d][f].state = "consumed" => draft[d].state = "consumed"

\* So has a version.
GroupsFit ==
    \A g \in Groups :
        /\ Latest(g) <= MaxVersions
        /\ group[g].state = "none" => Latest(g) = 0
        /\ \A n \in 1..Latest(g) : group[g].versions[n].key.row = <<g, n>>

\* A worker that failed had an intent; nobody holds one that does not exist.
WorkersFit ==
    /\ \A w \in Cleaners : worker[w].failed => worker[w].key # NoKey
    /\ \A k \in Keys : intent[k].state = "none" => intent[k].by = NoWorker

\* A request is about a draft.
TabsFit == \A t \in Tabs : tab[t].at # "page" => tab[t].draft # NoDraft

RowsFit == DraftsFit /\ StagedFit /\ GroupsFit /\ WorkersFit /\ TabsFit

LEMMA InitFits == UploadsInit => UploadsTypeOK /\ RowsFit
<1> SUFFICES ASSUME UploadsInit PROVE UploadsTypeOK /\ RowsFit
  OBVIOUS
<1>1. PICK bound \in [Drafts -> Groups \cup {NoGroup}] :
        draft = [d \in Drafts |-> [state |-> "none", revision |-> 0, lapsed |-> FALSE,
                                   group |-> bound[d], receipt |-> NoReceipt]]
  BY DEF UploadsInit
<1>2. draft \in [Drafts -> Draft]
  BY <1>1 DEF Draft, DraftStates, NoReceipt, Receipt
<1>3. staged \in [Drafts -> [Files -> Staged]]
  BY DEF UploadsInit, Staged
<1>4. group \in [Groups -> Group]
  BY DEF UploadsInit, Group
<1>5. intent \in [Keys -> Intent] /\ worker \in [Cleaners -> Worker]
  BY DEF UploadsInit, Intent, IntentStates, Worker
<1>6. tab \in [Tabs -> Tab]
  BY DEF UploadsInit, Tab, Steps
<1>7. RowsFit
  BY <1>1 DEF UploadsInit, RowsFit, DraftsFit, StagedFit, GroupsFit, WorkersFit, TabsFit, Latest
<1>8. /\ blobs \subseteq Keys /\ lost \subseteq Keys /\ kills \in 0..MaxKills
      /\ editable \in BOOLEAN /\ drafting \in BOOLEAN
  BY DEF UploadsInit
<1> QED BY <1>2, <1>3, <1>4, <1>5, <1>6, <1>7, <1>8 DEF UploadsTypeOK

Revisions == 0..(MaxRevision + 1)

LEMMA DraftUpdates ==
    ASSUME UploadsTypeOK, DraftsFit, NEW d \in Drafts
    PROVE  /\ draft[d].state = "open" /\ MayTouch(d) => Touched(d) \in [Drafts -> Draft]
           /\ Opened(d) \in [Drafts -> Draft]
           /\ draft[d].state = "open" => [draft EXCEPT ![d].lapsed = TRUE] \in [Drafts -> Draft]
<1> USE DEF UploadsTypeOK
<1> DEFINE next == draft[d].revision + 1
<1>0. draft[d] \in Draft
  OBVIOUS
<1>1. draft[d].state = "open" => next \in Revisions
  BY <1>0 DEF Draft, Revisions, DraftsFit
<1>2. draft[d].state = "open" => [draft[d] EXCEPT !.revision = next, !.lapsed = FALSE] \in Draft
  <2> HIDE DEF next
  <2> QED BY <1>0, <1>1 DEF Draft, Revisions
<1>3. [draft[d] EXCEPT !.state = "open"] \in Draft
  BY <1>0 DEF Draft, DraftStates
<1>4. [draft[d] EXCEPT !.lapsed = TRUE] \in Draft
  BY <1>0 DEF Draft
<1>5. draft[d].state = "open" /\ MayTouch(d) => Touched(d) \in [Drafts -> Draft]
  <2>1. Touched(d) = [draft EXCEPT ![d] = [draft[d] EXCEPT !.revision = next, !.lapsed = FALSE]]
    BY DEF Touched
  <2> QED BY <1>2, <2>1
<1>6. Opened(d) \in [Drafts -> Draft]
  <2>1. Opened(d) = draft \/ Opened(d) = [draft EXCEPT ![d] = [draft[d] EXCEPT !.state = "open"]]
    BY DEF Opened
  <2> QED BY <1>3, <2>1
<1>7. [draft EXCEPT ![d].lapsed = TRUE] \in [Drafts -> Draft]
  <2>1. [draft EXCEPT ![d].lapsed = TRUE] = [draft EXCEPT ![d] = [draft[d] EXCEPT !.lapsed = TRUE]]
    OBVIOUS
  <2> QED BY <1>4, <2>1
<1> QED BY <1>5, <1>6, <1>7

LEMMA DraftMoves ==
    ASSUME UploadsTypeOK, DraftsFit, NEW d \in Drafts
    PROVE  /\ draft[d].state = "open" /\ MayTouch(d) => Touched(d) \in [Drafts -> Draft]
           /\ Opened(d) \in [Drafts -> Draft]
BY DraftUpdates

(* -------------------------------- groups ------------------------------- *)

LEMMA GroupFields ==
    ASSUME UploadsTypeOK, NEW g \in Groups
    PROVE  /\ group[g] \in Group /\ group[g].versions \in Seq(Version) /\ Latest(g) \in Nat
           /\ \A n \in 1..Latest(g) : /\ group[g].versions[n] \in Version
                                      /\ group[g].versions[n].key \in Keys
                                      /\ group[g].versions[n].retired \in BOOLEAN
<1>1. group[g] \in Group
  BY DEF UploadsTypeOK
<1>2. group[g].versions \in Seq(Version)
  BY <1>1 DEF Group
<1>3. Latest(g) \in Nat /\ \A n \in 1..Latest(g) : group[g].versions[n] \in Version
  BY <1>2 DEF Latest
<1> QED BY <1>1, <1>2, <1>3 DEF Version

LEMMA AttachedFacts ==
    ASSUME UploadsTypeOK, GroupsFit, NEW new \in SUBSET FreeGroups
    PROVE  /\ Attached(new) \in [Groups -> Group]
           /\ \A g \in Groups \ new : Attached(new)[g] = group[g]
           /\ \A g \in new : LET v == Attached(new)[g].versions IN
                /\ Latest(g) = 0
                /\ Attached(new)[g].state = "live" /\ Len(v) = 1
                /\ v[1].key = KeyOf(<<g, 1>>) /\ ~v[1].retired
<1>1. new \subseteq Groups
  BY DEF FreeGroups
<1>2. \A g \in new : KeyOf(<<g, 1>>) \in Keys
  BY <1>1, KeyFacts, RowFacts
<1>3. \A g \in new : [state |-> "live",
                      versions |-> <<[key |-> KeyOf(<<g, 1>>), retired |-> FALSE]>>] \in Group
  <2> TAKE g \in new
  <2> DEFINE first == [key |-> KeyOf(<<g, 1>>), retired |-> FALSE]
  <2>1. first \in Version
    BY <1>2 DEF Version
  <2> HIDE DEF first
  <2>2. <<first>> \in Seq(Version)
    BY <2>1
  <2> QED BY <2>2 DEF Group, first
<1>4. \A g \in Groups : group[g] \in Group
  BY DEF UploadsTypeOK
<1>5. Attached(new) \in [Groups -> Group]
  BY <1>1, <1>3, <1>4 DEF Attached
<1>6. \A g \in new : Latest(g) = 0
  BY <1>1 DEF GroupsFit, FreeGroups
<1> QED BY <1>1, <1>5, <1>6 DEF Attached

\* The next version of a file: its keys stay, it gets one more, and only the
\* newest Keep of those that were available stay available.
LEMMA VersionedFacts ==
    ASSUME UploadsTypeOK, GroupsFit, NEW g \in Groups, Latest(g) < MaxVersions
    PROVE  LET n == Latest(g) + 1
               v == Versioned(g)[g].versions
               out == Excess(Available(g) \cup {n})
           IN  /\ Versioned(g) \in [Groups -> Group]
               /\ \A h \in Groups \ {g} : Versioned(g)[h] = group[h]
               /\ Versioned(g)[g].state = group[g].state /\ Len(v) = n
               /\ v[n].key = KeyOf(<<g, n>>)
               /\ \A m \in 1..Latest(g) : v[m].key = group[g].versions[m].key
               /\ \A m \in 1..Latest(g) : v[m].retired <=> group[g].versions[m].retired \/ m \in out
               /\ v[n].retired <=> n \in out
<1> DEFINE n == Latest(g) + 1
           out == Excess(Available(g) \cup {n})
           last == [key |-> KeyOf(<<g, n>>), retired |-> FALSE]
           longer == Append(group[g].versions, last)
           v == [m \in 1..n |-> IF m \in out THEN [longer[m] EXCEPT !.retired = TRUE]
                               ELSE longer[m]]
<1>0. /\ group[g] \in Group /\ group[g].versions \in Seq(Version) /\ Latest(g) \in Nat
      /\ Len(group[g].versions) = Latest(g) /\ n \in 1..MaxVersions
  BY GroupFields DEF Latest
<1>1. last \in Version
  BY <1>0, KeyFacts, RowFacts DEF Version
<1>2. /\ longer \in Seq(Version) /\ Len(longer) = n /\ longer[n] = last
      /\ \A m \in 1..Latest(g) : longer[m] = group[g].versions[m]
  <2> HIDE DEF last
  <2> QED BY <1>0, <1>1
<1>3. \A m \in 1..n : longer[m] \in Version
  <2> HIDE DEF longer, last
  <2> QED BY <1>0, <1>2
<1>4. \A x \in Version : [x EXCEPT !.retired = TRUE] \in Version
  BY DEF Version
<1>5. \A m \in 1..n : v[m] \in Version
  <2> HIDE DEF longer, out, n
  <2> QED BY <1>3, <1>4
<1>6. v \in Seq(Version) /\ Len(v) = n
  <2>1. DOMAIN v = 1..n /\ n \in Nat
    BY <1>0
  <2>2. v \in [1..n -> Version]
    BY <1>5
  <2> HIDE DEF v, n
  <2> QED BY <2>1, <2>2
<1>7. \A m \in 1..n : v[m].key = longer[m].key
                      /\ (v[m].retired <=> longer[m].retired \/ m \in out)
  <2> SUFFICES ASSUME NEW m \in 1..n
               PROVE  v[m].key = longer[m].key /\ (v[m].retired <=> longer[m].retired \/ m \in out)
    OBVIOUS
  <2> DEFINE x == longer[m]
  <2>1. x \in Version
    BY <1>3
  <2>2. v[m] = IF m \in out THEN [x EXCEPT !.retired = TRUE] ELSE x
    OBVIOUS
  <2> HIDE DEF x, v, out
  <2> QED BY <2>1, <2>2 DEF Version, x
<1>8. Versioned(g) = [group EXCEPT ![g] = [group[g] EXCEPT !.versions = v]]
  <2>1. Versioned(g) = [group EXCEPT ![g].versions = v]
    BY DEF Versioned
  <2> HIDE DEF v
  <2> QED BY <2>1
<1>9. /\ [group[g] EXCEPT !.versions = v] \in Group
      /\ [group[g] EXCEPT !.versions = v].versions = v
      /\ [group[g] EXCEPT !.versions = v].state = group[g].state
  <2> HIDE DEF v
  <2> QED BY <1>0, <1>6 DEF Group
<1>10. Versioned(g)[g].versions = v /\ Versioned(g)[g].state = group[g].state
       /\ Versioned(g) \in [Groups -> Group]
       /\ \A h \in Groups \ {g} : Versioned(g)[h] = group[h]
  <2> HIDE DEF v
  <2> QED BY <1>8, <1>9 DEF UploadsTypeOK
<1>11. v[n].key = KeyOf(<<g, n>>) /\ (v[n].retired <=> n \in out)
  <2>1. n \in 1..n /\ longer[n].key = KeyOf(<<g, n>>) /\ longer[n].retired = FALSE
    <3>1. last.key = KeyOf(<<g, n>>) /\ last.retired = FALSE
      OBVIOUS
    <3> HIDE DEF last, longer
    <3> QED BY <1>0, <1>2, <3>1
  <2> HIDE DEF v, longer, n, out
  <2> QED BY <1>7, <2>1
<1>12. \A m \in 1..Latest(g) : /\ v[m].key = group[g].versions[m].key
                               /\ v[m].retired <=> group[g].versions[m].retired \/ m \in out
  <2>1. \A m \in 1..Latest(g) : m \in 1..n
    BY <1>0
  <2> HIDE DEF v, longer, n, out
  <2> QED BY <1>2, <1>7, <2>1
<1> HIDE DEF v
<1> QED BY <1>6, <1>10, <1>11, <1>12

(* -------------------------------- steps -------------------------------- *)

LEMMA StoredType ==
    ASSUME UploadsTypeOK, NEW keys \in SUBSET Keys, NEW o \in Outcomes, MayEnd(o), NEW rows,
           NEW groups, Stored(o, keys, rows, groups)
    PROVE  blobs' \subseteq Keys /\ lost' \subseteq Keys /\ kills' \in 0..MaxKills
<1>1. Compensated(keys, rows, groups) \subseteq Keys
  BY DEF Compensated
<1>2. blobs' \subseteq blobs \cup keys \cup Compensated(keys, rows, groups)
  BY DEF Stored
<1>3. lost' \subseteq lost \cup keys /\ kills' \in 0..MaxKills
  BY DEF Stored, MayEnd, UploadsTypeOK
<1> QED BY <1>1, <1>2, <1>3 DEF UploadsTypeOK

\* What a request that stages files does to the rows.
Staging(d, taken, o) ==
    /\ Usable(d) /\ \A f \in taken : staged[d][f].state = "none"
    /\ MayEnd(o) /\ (taken = {} => o = "commit")
    /\ \A e \in Drafts, f \in Files :
        IF Committed(o) /\ e = d /\ f \in taken
        THEN staged'[e][f].state = "saved" /\ staged'[e][f].key = KeyOf(<<d, f>>)
        ELSE staged'[e][f] = staged[e][f]
    /\ Stored(o, {KeyOf(<<d, f>>) : f \in taken}, staged', group)
    /\ UNCHANGED <<group, editable, drafting, intent, worker>>
    /\ IF Committed(o) /\ taken # {} THEN MayTouch(d) /\ draft' = Touched(d) ELSE draft' = draft

LEMMA StageFacts ==
    ASSUME UploadsTypeOK, NEW t \in Tabs, tab[t].draft \in Drafts, NEW files \in SUBSET Files,
           NEW expected, NEW next, StageFiles(t, files, expected, next)
    PROVE  \E taken \in SUBSET files, o \in Outcomes :
              /\ Staging(tab[t].draft, taken, o)
              /\ taken # {} => expected = draft[tab[t].draft].revision
              /\ Goto(t, IF o = "commit" THEN next ELSE "page")
              /\ staged' \in [Drafts -> [Files -> Staged]]
<1> DEFINE d == tab[t].draft
           new == {f \in files : staged[d][f].state = "none"}
           rows(taken) == [staged EXCEPT ![d] = [f \in Files |->
                             IF f \in taken THEN [state |-> "saved", key |-> KeyOf(<<d, f>>)]
                             ELSE staged[d][f]]]
<1>1. PICK taken \in SUBSET new, o \in Outcomes :
          /\ taken = {} => o = "commit"
          /\ taken # {} => MayTouch(d)
          /\ MayEnd(o)
          /\ staged' = IF Committed(o) THEN rows(taken) ELSE staged
          /\ draft' = IF Committed(o) /\ taken # {} THEN Touched(d) ELSE draft
          /\ Stored(o, {KeyOf(<<d, f>>) : f \in taken},
                    IF Committed(o) THEN rows(taken) ELSE staged, group)
          /\ Goto(t, IF o = "commit" THEN next ELSE "page")
  BY DEF StageFiles
<1>2. /\ Usable(d) /\ (new # {} => expected = draft[d].revision)
      /\ UNCHANGED <<group, editable, drafting, intent, worker>>
  BY DEF StageFiles
<1>3. \A e \in Drafts, f \in Files :
        IF Committed(o) /\ e = d /\ f \in taken
        THEN staged'[e][f].state = "saved" /\ staged'[e][f].key = KeyOf(<<d, f>>)
        ELSE staged'[e][f] = staged[e][f]
  <2>1. \A f \in Files : /\ [state |-> "saved", key |-> KeyOf(<<d, f>>)].state = "saved"
                         /\ [state |-> "saved", key |-> KeyOf(<<d, f>>)].key = KeyOf(<<d, f>>)
    OBVIOUS
  <2>2. \A e \in Drafts, f \in Files :
          staged'[e][f] = IF Committed(o) /\ e = d /\ f \in taken
                        THEN [state |-> "saved", key |-> KeyOf(<<d, f>>)] ELSE staged[e][f]
    BY <1>1 DEF UploadsTypeOK
  <2> QED BY <2>1, <2>2
<1>4. staged' \in [Drafts -> [Files -> Staged]]
  <2>1. \A f \in taken : [state |-> "saved", key |-> KeyOf(<<d, f>>)] \in Staged
    BY KeyFacts, RowFacts DEF Staged
  <2>2. [f \in Files |-> IF f \in taken THEN [state |-> "saved", key |-> KeyOf(<<d, f>>)]
                         ELSE staged[d][f]] \in [Files -> Staged]
    BY <2>1 DEF UploadsTypeOK
  <2> QED BY <1>1, <2>2 DEF UploadsTypeOK
<1>5. Staging(d, taken, o)
  BY <1>1, <1>2, <1>3 DEF Staging
<1>6. taken \in SUBSET files /\ (taken # {} => expected = draft[d].revision)
  BY <1>2
<1> HIDE DEF rows, new
<1> QED BY <1>1, <1>4, <1>5, <1>6

LEMMA GotoType ==
    ASSUME UploadsTypeOK, NEW t \in Tabs, NEW step \in Steps, Goto(t, step)
    PROVE  tab' \in [Tabs -> Tab]
<1> DEFINE none == {}
           page == "page"
           last == NoRevision
<1>1. none \in SUBSET Files /\ page \in Steps /\ last \in Revisions \cup {NoRevision}
  BY DEF Steps
<1> HIDE DEF none, page, last
<1>2. [tab EXCEPT ![t].at = page, ![t].posting = none, ![t].expected = last] \in [Tabs -> Tab]
  <2>1. tab \in [Tabs -> Tab] /\ tab[t] \in Tab
    BY DEF UploadsTypeOK
  <2> QED BY <1>1, <2>1 DEF Tab, Revisions
<1>3. [tab EXCEPT ![t].at = step] \in [Tabs -> Tab]
  <2>1. tab \in [Tabs -> Tab] /\ tab[t] \in Tab
    BY DEF UploadsTypeOK
  <2> QED BY <2>1 DEF Tab
<1> USE DEF none, page, last
<1> QED BY <1>2, <1>3 DEF Goto

LEMMA QueuedFacts ==
    ASSUME UploadsTypeOK, NEW keys
    PROVE  /\ Queued(keys) \in [Keys -> Intent]
           /\ \A k \in Keys : IF k \in keys /\ intent[k].state = "none"
                              THEN Queued(keys)[k].state = "pending" /\ Queued(keys)[k].by = NoWorker
                              ELSE Queued(keys)[k] = intent[k]
<1>1. [state |-> "pending", by |-> NoWorker] \in Intent
  BY DEF Intent, IntentStates
<1> QED BY <1>1 DEF Queued, UploadsTypeOK

LEMMA TabFields ==
    ASSUME UploadsTypeOK, TabsFit, NEW t \in Tabs
    PROVE  /\ tab[t] \in Tab /\ tab[t].draft \in Drafts \cup {NoDraft}
           /\ tab[t].at # "page" => tab[t].draft \in Drafts
           /\ tab[t].posting \in SUBSET Files /\ tab[t].seen \in SUBSET Files
           /\ tab[t].revision \in Revisions \cup {NoRevision}
           /\ tab[t].expected \in Revisions \cup {NoRevision}
           /\ tab[t].version \in 0..MaxVersions
<1>1. tab[t] \in Tab
  BY DEF UploadsTypeOK
<1> QED BY <1>1 DEF Tab, Revisions, TabsFit

LEMMA DraftFields ==
    ASSUME UploadsTypeOK, NEW d \in Drafts
    PROVE  /\ draft[d] \in Draft /\ draft[d].state \in DraftStates
           /\ draft[d].revision \in Revisions /\ draft[d].revision \in Nat
           /\ draft[d].group \in Groups \cup {NoGroup} /\ draft[d].lapsed \in BOOLEAN
           /\ draft[d].receipt \in Receipt
<1>1. draft[d] \in Draft
  BY DEF UploadsTypeOK
<1> QED BY <1>1 DEF Draft, Revisions

\* Steps of a page that change nothing but the page and the draft.
LEMMA PageTypes ==
    ASSUME UploadsTypeOK, RowsFit, NEW t \in Tabs,
           \/ \E d \in Drafts : Load(t, d)
           \/ \E files \in SUBSET Files : Post(t, files)
           \/ ShowFiles(t) \/ Refresh(t) \/ Save(t) \/ Refused(t) \/ Explain(t) \/ Replay(t)
           \/ Create(t) \/ SaveValues(t)
    PROVE  tab' \in [Tabs -> Tab] /\ draft' \in [Drafts -> Draft]
<1> DEFINE d == tab[t].draft
           none == {}
           yes == TRUE
           no == FALSE
           zero == 0
           last == NoRevision
           loading == "loading"
           page == "page"
           save == "save"
           finish == "finish"
           stage == "stage"
<1>0. /\ none \in SUBSET Files /\ yes \in BOOLEAN /\ no \in BOOLEAN /\ zero \in 0..MaxVersions
      /\ last \in Revisions \cup {NoRevision}
      /\ loading \in Steps /\ page \in Steps /\ save \in Steps /\ finish \in Steps /\ stage \in Steps
  BY DEF Steps
<1>01. draft \in [Drafts -> Draft] /\ tab \in [Tabs -> Tab] /\ DraftsFit /\ TabsFit
  BY DEF UploadsTypeOK, RowsFit
<1>02. tab[t] \in Tab
  BY <1>01
<1>1. ASSUME NEW e \in Drafts, Load(t, e) PROVE tab' \in [Tabs -> Tab]
  <2> DEFINE r == IF draft[e].state = "none" THEN NoRevision ELSE draft[e].revision
  <2>1. r \in Revisions \cup {NoRevision}
    BY DraftFields
  <2>2. tab' = [tab EXCEPT ![t].at = loading, ![t].draft = e, ![t].revision = r, ![t].seen = none,
                           ![t].version = zero, ![t].told = no]
    BY <1>1 DEF Load
  <2> HIDE DEF r, none, no, zero, loading
  <2> QED BY <1>0, <1>01, <1>02, <2>1, <2>2 DEF Tab, Revisions
<1>2. CASE ShowFiles(t)
  <2> DEFINE seen == Saved(d)
             v == IF draft[d].group = NoGroup THEN 0 ELSE Latest(draft[d].group)
  <2>1. d \in Drafts
    BY <1>01, <1>2, TabFields DEF ShowFiles
  <2>2. seen \in SUBSET Files /\ v \in 0..MaxVersions
    BY <2>1, DraftFields, GroupFields DEF Saved, RowsFit, GroupsFit
  <2>3. tab' = [tab EXCEPT ![t].at = page, ![t].seen = seen, ![t].version = v]
    BY <1>2 DEF ShowFiles
  <2>4. draft' = draft
    BY <1>2 DEF ShowFiles
  <2> HIDE DEF seen, v, page, d
  <2> QED BY <1>0, <1>01, <1>02, <2>1, <2>2, <2>3, <2>4 DEF Tab, Revisions
<1>3. ASSUME NEW files \in SUBSET Files, Post(t, files)
      PROVE  tab' \in [Tabs -> Tab] /\ draft' \in [Drafts -> Draft]
  <2> DEFINE r == IF tab[t].revision = NoRevision THEN draft[d].revision ELSE tab[t].revision
  <2>1. d \in Drafts
    BY <1>01, <1>3, TabFields DEF Post
  <2>2. r \in Revisions \cup {NoRevision}
    BY <1>01, <2>1, DraftFields, TabFields
  <2>3. \/ /\ tab' = [tab EXCEPT ![t].at = finish, ![t].posting = files, ![t].told = no]
           /\ draft' = draft
        \/ /\ tab' = [tab EXCEPT ![t].at = stage, ![t].posting = files, ![t].told = no,
                                 ![t].expected = r]
           /\ draft' = Opened(d)
    BY <1>3 DEF Post
  <2> HIDE DEF r, finish, stage, no, d
  <2>4. [tab EXCEPT ![t].at = finish, ![t].posting = files, ![t].told = no] \in [Tabs -> Tab]
    BY <1>0, <1>01, <1>02 DEF Tab
  <2>5. [tab EXCEPT ![t].at = stage, ![t].posting = files, ![t].told = no, ![t].expected = r]
            \in [Tabs -> Tab]
    BY <1>0, <1>01, <1>02, <2>2 DEF Tab, Revisions
  <2>6. draft' \in [Drafts -> Draft]
    BY <1>01, <2>1, <2>3, DraftMoves
  <2> QED BY <2>3, <2>4, <2>5, <2>6
<1>4. CASE Refresh(t)
  <2> DEFINE r == IF tab[t].posting # {} THEN draft[d].revision ELSE tab[t].expected
  <2>1. d \in Drafts
    BY <1>01, <1>4, TabFields DEF Refresh
  <2>2. r \in Revisions \cup {NoRevision}
    BY <1>01, <2>1, DraftFields, TabFields
  <2>3. tab' = [tab EXCEPT ![t].at = save, ![t].expected = r] /\ draft' = draft
    BY <1>4 DEF Refresh
  <2> HIDE DEF r, save, d
  <2> QED BY <1>0, <1>01, <1>02, <2>1, <2>2, <2>3 DEF Tab, Revisions
<1>5. CASE Save(t)
  <2> DEFINE r == draft[d].revision + 1
  <2>1. d \in Drafts
    BY <1>01, <1>5, TabFields DEF Save
  <2>2. draft[d].state = "open" /\ MayTouch(d) /\ draft' = Touched(d)
    BY <1>5 DEF Save, Usable
  <2>3. r \in Revisions \cup {NoRevision}
    BY <1>01, <2>1, <2>2, DraftFields DEF MayTouch, Revisions
  <2>4. tab' = [tab EXCEPT ![t].at = finish, ![t].expected = r] \/ Goto(t, page)
    BY <1>5 DEF Save
  <2> HIDE DEF r, finish, page, d
  <2>5. [tab EXCEPT ![t].at = finish, ![t].expected = r] \in [Tabs -> Tab]
    BY <1>0, <1>01, <1>02, <2>3 DEF Tab, Revisions
  <2> QED BY <1>0, <1>01, <2>1, <2>2, <2>4, <2>5, DraftMoves, GotoType
<1>6. CASE Refused(t)
  <2>1. Goto(t, "page") \/ Goto(t, "explain")
    BY <1>6 DEF Refused
  <2>2. draft' = draft /\ "page" \in Steps /\ "explain" \in Steps
    BY <1>6 DEF Refused, Steps
  <2> QED BY <1>01, <2>1, <2>2, GotoType
<1>7. CASE Explain(t)
  <2>1. d \in Drafts
    BY <1>01, <1>7, TabFields DEF Explain
  <2>2. Goto(t, page) /\ (draft' = draft \/ (draft[d].state = "open" /\ MayTouch(d) /\ draft' = Touched(d)))
    BY <1>7 DEF Explain, Usable
  <2> HIDE DEF page, d
  <2> QED BY <1>0, <1>01, <2>1, <2>2, GotoType, DraftMoves
<1>8. CASE Replay(t)
  <2>1. d \in Drafts
    BY <1>01, <1>8, TabFields DEF Replay
  <2>2. draft' = draft /\ tab' = [tab EXCEPT ![t].at = page, ![t].posting = none,
                                             ![t].expected = last, ![t].told = yes]
    BY <1>8 DEF Replay
  <2> HIDE DEF page, none, last, yes, d
  <2> QED BY <1>0, <1>01, <1>02, <2>1, <2>2 DEF Tab, Revisions
<1>9. CASE Create(t) \/ SaveValues(t)
  <2>1. d \in Drafts
    BY <1>01, <1>9, TabFields DEF Create, SaveValues
  <2>2. \/ draft' = Opened(d)
        \/ draft[d].state = "open" /\ MayTouch(d) /\ draft' = Touched(d)
    BY <1>9 DEF Create, SaveValues, Usable
  <2>3. tab' = tab
    BY <1>9 DEF Create, SaveValues
  <2> HIDE DEF d
  <2> QED BY <1>01, <2>1, <2>2, <2>3, DraftMoves
<1>10. ASSUME NEW e \in Drafts, Load(t, e) PROVE draft' \in [Drafts -> Draft]
  BY <1>01, <1>10 DEF Load
<1> QED BY <1>1, <1>2, <1>3, <1>4, <1>5, <1>6, <1>7, <1>8, <1>9, <1>10

\* What an upload, a new version and a discarded file do to the versions: none is
\* lost or brought back, and those that are new are on offer and written now.
Grows(groups, keys) ==
    /\ groups \in [Groups -> Group]
    /\ \A g \in Groups :
        LET old == group[g].versions
            new == groups[g].versions
        IN  /\ Len(new) \in Len(old)..MaxVersions
            /\ groups[g].state = "none" => group[g].state = "none" /\ Len(new) = Len(old)
            /\ \A n \in 1..Len(old) : new[n].key = old[n].key /\ (old[n].retired => new[n].retired)
            /\ \A n \in (Len(old) + 1)..Len(new) :
                new[n].key = KeyOf(<<g, n>>) /\ ~new[n].retired /\ new[n].key \in keys
    /\ \A k \in keys : \E g \in Groups : \E n \in (Latest(g) + 1)..Len(groups[g].versions) :
        k = KeyOf(<<g, n>>)

LEMMA NewestIsKept ==
    ASSUME UploadsTypeOK, NEW g \in Groups
    PROVE  Latest(g) + 1 \notin Excess(Available(g) \cup {Latest(g) + 1})
<1> DEFINE n == Latest(g) + 1
           later == {m \in Available(g) \cup {n} : m > n}
<1>1. Latest(g) \in Nat /\ Available(g) \subseteq 1..Latest(g)
  BY GroupFields DEF Available
<1>2. later = {}
  BY <1>1
<1>3. Cardinality(later) = 0
  BY <1>2, FS_EmptySet
<1> QED BY <1>3 DEF Excess

LEMMA VersionedGrows ==
    ASSUME UploadsTypeOK, GroupsFit, NEW g \in Groups, Latest(g) < MaxVersions,
           group[g].state # "none"
    PROVE  Grows(Versioned(g), {KeyOf(<<g, Latest(g) + 1>>)})
<1> DEFINE n == Latest(g) + 1
           new == Versioned(g)
           v == new[g].versions
           out == Excess(Available(g) \cup {n})
           keys == {KeyOf(<<g, n>>)}
<1>1. /\ new \in [Groups -> Group] /\ \A h \in Groups \ {g} : new[h] = group[h]
      /\ new[g].state = group[g].state /\ Len(v) = n /\ v[n].key = KeyOf(<<g, n>>)
      /\ \A m \in 1..Latest(g) : v[m].key = group[g].versions[m].key
      /\ \A m \in 1..Latest(g) : v[m].retired <=> group[g].versions[m].retired \/ m \in out
      /\ v[n].retired <=> n \in out
  BY VersionedFacts
<1>2. n \notin out
  BY NewestIsKept
<1>3. \A h \in Groups : /\ Latest(h) \in Nat /\ Latest(h) = Len(group[h].versions)
                        /\ Latest(h) <= MaxVersions
  BY GroupFields DEF Latest, GroupsFit
<1> HIDE DEF new, out
<1>4. \A k \in keys : \E h \in Groups : \E m \in (Latest(h) + 1)..Len(new[h].versions) :
          k = KeyOf(<<h, m>>)
  <2>1. n \in (Latest(g) + 1)..Len(v)
    BY <1>1, <1>3
  <2> QED BY <2>1
<1>5. \A h \in Groups :
        LET old == group[h].versions
            late == new[h].versions
        IN  /\ Len(late) \in Len(old)..MaxVersions
            /\ new[h].state = "none" => group[h].state = "none" /\ Len(late) = Len(old)
            /\ \A m \in 1..Len(old) : late[m].key = old[m].key /\ (old[m].retired => late[m].retired)
            /\ \A m \in (Len(old) + 1)..Len(late) :
                late[m].key = KeyOf(<<h, m>>) /\ ~late[m].retired /\ late[m].key \in keys
  <2> TAKE h \in Groups
  <2>1. CASE h # g
    BY <1>1, <1>3, <2>1
  <2>2. CASE h = g
    <3>1. Len(v) \in Len(group[g].versions)..MaxVersions
      BY <1>1, <1>3
    <3>2. new[g].state # "none"
      BY <1>1
    <3>3. \A m \in 1..Latest(g) : /\ v[m].key = group[g].versions[m].key
                                  /\ group[g].versions[m].retired => v[m].retired
      BY <1>1
    <3>4. \A m \in (Latest(g) + 1)..Len(v) : m = n
      BY <1>1, <1>3
    <3>5. \A m \in (Latest(g) + 1)..Len(v) :
            v[m].key = KeyOf(<<g, m>>) /\ ~v[m].retired /\ v[m].key \in keys
      BY <1>1, <1>2, <3>4
    <3> HIDE DEF keys, v
    <3> QED BY <1>3, <2>2, <3>1, <3>2, <3>3, <3>5 DEF v
  <2> QED BY <2>1, <2>2
<1> QED BY <1>1, <1>4, <1>5 DEF Grows, new

LEMMA AttachedGrows ==
    ASSUME UploadsTypeOK, GroupsFit, NEW new \in SUBSET FreeGroups
    PROVE  Grows(Attached(new), {KeyOf(<<h, 1>>) : h \in new})
<1> DEFINE keys == {KeyOf(<<h, 1>>) : h \in new}
           groups == Attached(new)
<1>1. /\ groups \in [Groups -> Group] /\ \A g \in Groups \ new : groups[g] = group[g]
      /\ \A g \in new : /\ Latest(g) = 0 /\ groups[g].state = "live"
                        /\ Len(groups[g].versions) = 1
                        /\ groups[g].versions[1].key = KeyOf(<<g, 1>>)
                        /\ ~groups[g].versions[1].retired
  BY AttachedFacts
<1>2. new \subseteq Groups /\ \A h \in Groups : /\ Latest(h) \in Nat /\ Latest(h) <= MaxVersions
                                              /\ Latest(h) = Len(group[h].versions)
  BY GroupFields DEF Latest, GroupsFit, FreeGroups
<1> HIDE DEF groups
<1>3. \A k \in keys : \E h \in Groups : \E m \in (Latest(h) + 1)..Len(groups[h].versions) :
          k = KeyOf(<<h, m>>)
  <2>1. \A h \in new : 1 \in (Latest(h) + 1)..Len(groups[h].versions)
    <3> TAKE h \in new
    <3>1. Latest(h) = 0 /\ Len(groups[h].versions) = 1
      BY <1>1
    <3> QED BY <3>1
  <2> QED BY <1>2, <2>1
<1>4. \A h \in Groups :
        LET old == group[h].versions
            late == groups[h].versions
        IN  /\ Len(late) \in Len(old)..MaxVersions
            /\ groups[h].state = "none" => group[h].state = "none" /\ Len(late) = Len(old)
            /\ \A m \in 1..Len(old) : late[m].key = old[m].key /\ (old[m].retired => late[m].retired)
            /\ \A m \in (Len(old) + 1)..Len(late) :
                late[m].key = KeyOf(<<h, m>>) /\ ~late[m].retired /\ late[m].key \in keys
  <2> TAKE h \in Groups
  <2>1. CASE h \notin new
    BY <1>1, <1>2, <2>1
  <2>2. CASE h \in new
    <3>1. Len(groups[h].versions) = 1 /\ Len(group[h].versions) = 0
      BY <1>1, <1>2, <2>2
    <3>2. 1 \in 0..MaxVersions /\ groups[h].state # "none"
      <4>1. groups[h].state = "live"
        BY <1>1, <2>2
      <4>2. 1 \in 0..MaxVersions
        OBVIOUS
      <4> HIDE DEF groups
      <4> QED BY <4>1, <4>2
    <3>3. \A m \in 1..0 : FALSE
      OBVIOUS
    <3>4. \A m \in (0 + 1)..1 : m = 1
      OBVIOUS
    <3>5. \A m \in (0 + 1)..1 : /\ groups[h].versions[m].key = KeyOf(<<h, m>>)
                               /\ ~groups[h].versions[m].retired
                               /\ groups[h].versions[m].key \in keys
      <4>1. /\ groups[h].versions[1].key = KeyOf(<<h, 1>>) /\ ~groups[h].versions[1].retired
            /\ KeyOf(<<h, 1>>) \in keys
        BY <1>1, <2>2
      <4> HIDE DEF keys
      <4> QED BY <3>4, <4>1
    <3> HIDE DEF keys
    <3> QED BY <3>1, <3>2, <3>3, <3>5
  <2> QED BY <2>1, <2>2
<1> QED BY <1>1, <1>3, <1>4 DEF Grows, groups

(* ------------------------------ the store ------------------------------ *)

\* A key whose row was written, whatever became of it since.
Used(k) ==
    \/ \E d \in Drafts, f \in Files : k.row = <<d, f>> /\ staged[d][f].state # "none"
    \/ \E g \in Groups, n \in 1..MaxVersions : k.row = <<g, n>> /\ n <= Latest(g)

\* What makes the store's invariant inductive: a key with an intent is spent, no
\* row will need it again, and an object that is gone was seen to be gone.
KeysAreSpent ==
    \A k \in Keys :
        /\ intent[k].state # "none" => Used(k) /\ ~Referenced(k)
        /\ intent[k].state = "complete" => k \notin blobs

StoreInv == StoreMatchesRows /\ KeysAreSpent

\* What every step does to every key.
KeyAdvance(k) ==
    /\ Used(k) => Used(k)'
    /\ Referenced(k)' => \/ Referenced(k) /\ (k \in blobs => k \in blobs')
                         \/ ~Used(k) /\ k \in blobs'
    /\ k \in blobs' => k \in blobs \/ (~Used(k) /\ (Referenced(k)' \/ k \in lost'))
    /\ k \in lost => k \in lost'
    /\ Referenced(k) /\ ~Referenced(k)' => intent'[k].state # "none"
    /\ intent[k].state # "none" => intent'[k].state # "none"
    /\ intent[k].state = "none" /\ intent'[k].state # "none" =>
          Used(k)' /\ ~Referenced(k)' /\ intent'[k].state # "complete"
    /\ intent'[k].state = "complete" => intent[k].state = "complete" \/ k \notin blobs'

LEMMA StoreAdvances ==
    ASSUME StoreInv, blobs' \subseteq Keys, \A k \in Keys : KeyAdvance(k)
    PROVE  StoreInv'
<1>1. NeededFilesExist'
  BY DEF StoreInv, StoreMatchesRows, NeededFilesExist, KeyAdvance
<1>2. NothingLeaks'
  BY DEF StoreInv, StoreMatchesRows, NothingLeaks, KeysAreSpent, KeyAdvance
<1>3. KeysAreSpent'
  BY DEF StoreInv, KeysAreSpent, KeyAdvance
<1> QED BY <1>1, <1>2, <1>3 DEF StoreInv, StoreMatchesRows

\* A key belongs to one row, so a row alone decides whether its key is needed.
LEMMA RowsOfKeys ==
    \A k \in Keys : \/ \E d \in Drafts, f \in Files : k.row = <<d, f>>
                    \/ \E g \in Groups, n \in 1..MaxVersions : k.row = <<g, n>>
BY DEF Keys, Rows

LEMMA StagedKey ==
    ASSUME UploadsTypeOK, StagedFit, GroupsFit, NEW d \in Drafts, NEW f \in Files,
           NEW k \in Keys, k.row = <<d, f>>
    PROVE  /\ Referenced(k) <=> staged[d][f].key = k /\ staged[d][f].state = "saved"
           /\ Used(k) <=> staged[d][f].state # "none"
<1>1. \A g \in Groups, n \in 1..MaxVersions : k.row # <<g, n>>
  BY RowFacts
<1>2. \A g \in Groups, n \in 1..MaxVersions :
        n <= Latest(g) => group[g].versions[n].key.row = <<g, n>>
  BY GroupFields DEF GroupsFit
<1>3. \A e \in Drafts, h \in Files : staged[e][h].key = k => e = d /\ h = f
  BY KeyFacts DEF StagedFit
<1> QED BY <1>1, <1>2, <1>3 DEF Referenced, Used, StagedFit

LEMMA VersionKey ==
    ASSUME UploadsTypeOK, StagedFit, GroupsFit, NEW g \in Groups, NEW n \in 1..MaxVersions,
           NEW k \in Keys, k.row = <<g, n>>
    PROVE  /\ Referenced(k) <=> /\ n <= Latest(g) /\ group[g].versions[n].key = k
                                /\ ~group[g].versions[n].retired
           /\ Used(k) <=> n <= Latest(g)
<1>1. \A d \in Drafts, f \in Files : k.row # <<d, f>>
  BY RowFacts
<1>2. \A h \in Groups, m \in 1..MaxVersions :
        m <= Latest(h) => group[h].versions[m].key.row = <<h, m>>
  BY GroupFields DEF GroupsFit
<1>3. \A e \in Drafts, h \in Files : staged[e][h].key # k
  BY <1>1, KeyFacts DEF StagedFit
<1> QED BY <1>1, <1>2, <1>3 DEF Referenced, Used

LEMMA StagedKeyNext ==
    ASSUME UploadsTypeOK', StagedFit', GroupsFit', NEW d \in Drafts, NEW f \in Files,
           NEW k \in Keys, k.row = <<d, f>>
    PROVE  /\ Referenced(k)' <=> staged'[d][f].key = k /\ staged'[d][f].state = "saved"
           /\ Used(k)' <=> staged'[d][f].state # "none"
<1>1. \A g \in Groups, n \in 1..MaxVersions : k.row # <<g, n>>
  BY RowFacts
<1>2. \A g \in Groups, n \in 1..MaxVersions :
        n <= Latest(g)' => group'[g].versions[n].key.row = <<g, n>>
  <2>1. \A g \in Groups : Latest(g)' \in Nat
    BY DEF UploadsTypeOK, Group, Latest
  <2> QED BY <2>1 DEF GroupsFit
<1>3. \A e \in Drafts, h \in Files : staged'[e][h].key = k => e = d /\ h = f
  BY KeyFacts DEF StagedFit
<1> QED BY <1>1, <1>2, <1>3 DEF Referenced, Used, StagedFit

LEMMA VersionKeyNext ==
    ASSUME UploadsTypeOK', StagedFit', GroupsFit', NEW g \in Groups, NEW n \in 1..MaxVersions,
           NEW k \in Keys, k.row = <<g, n>>
    PROVE  /\ Referenced(k)' <=> /\ n <= Latest(g)' /\ group'[g].versions[n].key = k
                                 /\ ~group'[g].versions[n].retired
           /\ Used(k)' <=> n <= Latest(g)'
<1>1. \A d \in Drafts, f \in Files : k.row # <<d, f>>
  BY RowFacts
<1>2. \A h \in Groups, m \in 1..MaxVersions :
        m <= Latest(h)' => group'[h].versions[m].key.row = <<h, m>>
  <2>1. \A h \in Groups : Latest(h)' \in Nat
    BY DEF UploadsTypeOK, Group, Latest
  <2> QED BY <2>1 DEF GroupsFit
<1>3. \A e \in Drafts, h \in Files : staged'[e][h].key # k
  BY <1>1, KeyFacts DEF StagedFit
<1> QED BY <1>1, <1>2, <1>3 DEF Referenced, Used

\* The object of a row stays when its transaction commits and a callback raises.
LEMMA NamedIsUsed ==
    ASSUME UploadsTypeOK', StagedFit', GroupsFit', NEW k \in Keys
    PROVE  /\ Named(k, staged', group') => Used(k)'
           /\ Referenced(k)' => Named(k, staged', group')
<1>1. \A g \in Groups : /\ Latest(g)' \in Nat /\ Latest(g)' = Len(group'[g].versions)
                        /\ DOMAIN group'[g].versions = 1..Latest(g)'
  BY DEF UploadsTypeOK, Group, Latest
<1>2. ASSUME NEW d \in Drafts, NEW f \in Files, staged'[d][f].key = k PROVE Used(k)'
  <2>1. k.row = <<d, f>> /\ staged'[d][f].state # "none"
    BY <1>2, KeyFacts DEF StagedFit
  <2> QED BY <2>1 DEF Used
<1>3. ASSUME NEW g \in Groups, NEW n \in DOMAIN group'[g].versions,
             group'[g].versions[n].key = k
      PROVE  Used(k)'
  <2>1. n \in 1..Latest(g)' /\ n \in 1..MaxVersions
    BY <1>1, <1>3 DEF GroupsFit
  <2>2. k.row = <<g, n>>
    BY <1>3, <2>1 DEF GroupsFit
  <2> QED BY <1>1, <2>1, <2>2 DEF Used
<1>4. Referenced(k)' => Named(k, staged', group')
  BY <1>1 DEF Referenced, Named
<1> QED BY <1>2, <1>3, <1>4 DEF Named

\* A transaction that writes objects and changes rows and intents with them.
IntentMoves(k) ==
    \/ intent'[k] = intent[k]
    \/ /\ intent[k].state = "none" /\ intent'[k].state = "pending"
       /\ Used(k)' /\ ~Referenced(k)'

LEMMA WritesAdvance ==
    ASSUME UploadsTypeOK', RowsFit', NEW o \in Outcomes, NEW keys \in SUBSET Keys,
           Stored(o, keys, staged', group'),
           \A k \in keys : ~Used(k) /\ (IF Committed(o) THEN Referenced(k)' ELSE ~Used(k)'),
           NEW k \in Keys, Used(k) => Used(k)',
           Referenced(k)' => Referenced(k) \/ (k \in keys /\ Committed(o)),
           Referenced(k) /\ ~Referenced(k)' => intent'[k].state # "none",
           IntentMoves(k)
    PROVE  KeyAdvance(k)
<1>1. k \in lost => k \in lost'
  BY DEF Stored
<1>2. k \in blobs => k \in blobs'
  BY DEF Stored, Compensated
<1>3. k \in blobs' => k \in blobs \/ (k \in keys /\ (Referenced(k)' \/ k \in lost'))
  <2>1. CASE o = "killed" \/ o = "commit"
    BY <2>1 DEF Stored, Committed
  <2>2. CASE o = "rollback" \/ o = "late error"
    BY <2>2, NamedIsUsed DEF Stored, Compensated, Committed, RowsFit
  <2> QED BY <2>1, <2>2 DEF Outcomes
<1>4. k \in keys /\ Committed(o) => k \in blobs'
  BY NamedIsUsed DEF Stored, Compensated, Committed, RowsFit
<1> QED BY <1>1, <1>2, <1>3, <1>4 DEF KeyAdvance, IntentMoves

\* The same of a transaction that writes none.
LEMMA QuietAdvance ==
    ASSUME blobs' = blobs, lost' = lost,
           NEW k \in Keys, Used(k) => Used(k)', Referenced(k)' => Referenced(k),
           Referenced(k) /\ ~Referenced(k)' => intent'[k].state # "none",
           IntentMoves(k)
    PROVE  KeyAdvance(k)
BY DEF KeyAdvance, IntentMoves

(* -------------------------- steps of a page ---------------------------- *)

LEMMA TouchedFacts ==
    ASSUME UploadsTypeOK, NEW d \in Drafts
    PROVE  \A e \in Drafts :
              /\ Touched(d)[e].state = draft[e].state
              /\ Touched(d)[e].revision = IF e = d THEN draft[e].revision + 1 ELSE draft[e].revision
              /\ Touched(d)[e].group = draft[e].group
              /\ Touched(d)[e].receipt = draft[e].receipt
              /\ Opened(d)[e].state = IF e = d /\ draft[e].state = "none" THEN "open"
                                      ELSE draft[e].state
              /\ Opened(d)[e].revision = draft[e].revision
              /\ Opened(d)[e].group = draft[e].group
              /\ Opened(d)[e].receipt = draft[e].receipt
<1> SUFFICES ASSUME NEW e \in Drafts
             PROVE  /\ Touched(d)[e].state = draft[e].state
                    /\ Touched(d)[e].revision = IF e = d THEN draft[e].revision + 1
                                                ELSE draft[e].revision
                    /\ Touched(d)[e].group = draft[e].group
                    /\ Touched(d)[e].receipt = draft[e].receipt
                    /\ Opened(d)[e].state = IF e = d /\ draft[e].state = "none" THEN "open"
                                            ELSE draft[e].state
                    /\ Opened(d)[e].revision = draft[e].revision
                    /\ Opened(d)[e].group = draft[e].group
                    /\ Opened(d)[e].receipt = draft[e].receipt
  OBVIOUS
<1>1. draft \in [Drafts -> Draft] /\ draft[e] \in Draft /\ draft[d] \in Draft
  BY DEF UploadsTypeOK
<1> DEFINE old == draft[d]
           next == old.revision + 1
           touched == [old EXCEPT !.revision = next, !.lapsed = FALSE]
           opened == [old EXCEPT !.state = "open"]
<1>2. /\ touched.state = old.state /\ touched.revision = next /\ touched.group = old.group
      /\ touched.receipt = old.receipt
      /\ opened.state = "open" /\ opened.revision = old.revision /\ opened.group = old.group
      /\ opened.receipt = old.receipt
  <2> HIDE DEF next
  <2>1. old \in Draft
    BY <1>1
  <2> HIDE DEF old
  <2> QED BY <2>1 DEF Draft
<1>3. /\ Touched(d)[e] = IF e = d THEN touched ELSE draft[e]
      /\ Opened(d)[e] = IF e = d /\ draft[e].state = "none" THEN opened ELSE draft[e]
  BY <1>1 DEF Touched, Opened
<1> HIDE DEF touched, opened
<1> QED BY <1>2, <1>3

\* What a step of a page does to the draft.
DraftKept(e) ==
    /\ draft[e].state \in {"open", "consumed"} => draft'[e].state = draft[e].state
    /\ draft'[e].state \in {"none", "open"} => draft'[e].revision <= MaxRevision

Calm ==
    /\ UNCHANGED <<blobs, kills, lost, staged, group, intent, worker>>
    /\ editable' \in BOOLEAN /\ drafting' \in BOOLEAN
    /\ draft' \in [Drafts -> Draft] /\ tab' \in [Tabs -> Tab]
    /\ \A e \in Drafts : DraftKept(e)
    /\ TabsFit'

LEMMA CalmAdvances ==
    ASSUME UploadsTypeOK, RowsFit, Calm
    PROVE  /\ UploadsTypeOK' /\ RowsFit'
           /\ \A k \in Keys : KeyAdvance(k)
<1>1. UploadsTypeOK'
  BY DEF Calm, UploadsTypeOK
<1>2. DraftsFit' /\ TabsFit'
  BY DEF Calm, DraftKept, DraftsFit
<1>3. StagedFit'
  BY DEF Calm, DraftKept, StagedFit, RowsFit
<1>4. GroupsFit' /\ WorkersFit'
  BY DEF Calm, GroupsFit, WorkersFit, RowsFit, Latest
<1>5. ASSUME NEW k \in Keys PROVE KeyAdvance(k)
  <2>1. Used(k)' <=> Used(k)
    BY DEF Calm, Used, Latest
  <2>2. CASE \E d \in Drafts, f \in Files : k.row = <<d, f>>
    <3>1. Referenced(k)' <=> Referenced(k)
      BY <1>1, <1>3, <1>4, <2>2, StagedKey, StagedKeyNext DEF Calm, RowsFit
    <3> QED BY <2>1, <3>1, QuietAdvance DEF Calm, IntentMoves
  <2>3. CASE \E g \in Groups, n \in 1..MaxVersions : k.row = <<g, n>>
    <3>1. Referenced(k)' <=> Referenced(k)
      BY <1>1, <1>3, <1>4, <2>3, VersionKey, VersionKeyNext DEF Calm, RowsFit, Latest
    <3> QED BY <2>1, <3>1, QuietAdvance DEF Calm, IntentMoves
  <2> QED BY <2>2, <2>3, RowsOfKeys
<1> QED BY <1>1, <1>2, <1>3, <1>4, <1>5 DEF RowsFit

\* What one request leaves in the tab it came from.
Page(t, at, d, revision, seen, version, posting, expected, told) ==
    /\ \A u \in Tabs : u # t => tab'[u] = tab[u]
    /\ tab'[t].at = at /\ tab'[t].draft = d /\ tab'[t].revision = revision
    /\ tab'[t].seen = seen /\ tab'[t].version = version /\ tab'[t].posting = posting
    /\ tab'[t].expected = expected /\ tab'[t].told = told

LEMMA GotoPage ==
    ASSUME UploadsTypeOK, NEW t \in Tabs, NEW step, Goto(t, step)
    PROVE  Page(t, step, tab[t].draft, tab[t].revision, tab[t].seen, tab[t].version,
                IF step = "page" THEN {} ELSE tab[t].posting,
                IF step = "page" THEN NoRevision ELSE tab[t].expected, tab[t].told)
<1>1. tab \in [Tabs -> Tab] /\ tab[t] \in Tab
  BY DEF UploadsTypeOK
<1> DEFINE page == "page"
           none == {}
           last == NoRevision
<1>2. \/ /\ step = page /\ tab' = [tab EXCEPT ![t].at = page, ![t].posting = none, ![t].expected = last]
      \/ /\ step # page /\ tab' = [tab EXCEPT ![t].at = step]
  BY DEF Goto
<1> HIDE DEF page, none, last
<1>3. CASE step = page
  <2>1. Page(t, step, tab[t].draft, tab[t].revision, tab[t].seen, tab[t].version, none, last,
             tab[t].told)
    BY <1>1, <1>2, <1>3 DEF Tab, Page
  <2> QED BY <1>3, <2>1 DEF page, none, last
<1>4. CASE step # page
  <2>1. Page(t, step, tab[t].draft, tab[t].revision, tab[t].seen, tab[t].version, tab[t].posting,
             tab[t].expected, tab[t].told)
    BY <1>1, <1>2, <1>4 DEF Tab, Page
  <2> QED BY <1>4, <2>1 DEF page
<1> QED BY <1>3, <1>4

LEMMA LoadPage ==
    ASSUME UploadsTypeOK, NEW t \in Tabs, NEW d \in Drafts, Load(t, d)
    PROVE  Page(t, "loading", d, IF draft[d].state = "none" THEN NoRevision ELSE draft[d].revision,
                {}, 0, tab[t].posting, tab[t].expected, FALSE)
<1>1. tab \in [Tabs -> Tab] /\ tab[t] \in Tab
  BY DEF UploadsTypeOK
<1> DEFINE at == "loading"
           none == {}
           zero == 0
           no == FALSE
           r == IF draft[d].state = "none" THEN NoRevision ELSE draft[d].revision
<1>2. tab' = [tab EXCEPT ![t].at = at, ![t].draft = d, ![t].revision = r, ![t].seen = none,
                         ![t].version = zero, ![t].told = no]
  BY DEF Load
<1>3. Page(t, at, d, r, none, zero, tab[t].posting, tab[t].expected, no)
  <2> HIDE DEF at, none, zero, no, r
  <2> QED BY <1>1, <1>2 DEF Tab, Page
<1> QED BY <1>3

LEMMA ShowPage ==
    ASSUME UploadsTypeOK, NEW t \in Tabs, ShowFiles(t)
    PROVE  LET d == tab[t].draft IN
           Page(t, "page", d, tab[t].revision, Saved(d),
                IF draft[d].group = NoGroup THEN 0 ELSE Latest(draft[d].group),
                tab[t].posting, tab[t].expected, tab[t].told)
<1>1. tab \in [Tabs -> Tab] /\ tab[t] \in Tab
  BY DEF UploadsTypeOK
<1> DEFINE d == tab[t].draft
           at == "page"
           seen == Saved(d)
           v == IF draft[d].group = NoGroup THEN 0 ELSE Latest(draft[d].group)
<1>2. tab' = [tab EXCEPT ![t].at = at, ![t].seen = seen, ![t].version = v]
  BY DEF ShowFiles
<1>3. Page(t, at, tab[t].draft, tab[t].revision, seen, v, tab[t].posting, tab[t].expected, tab[t].told)
  <2> HIDE DEF at, seen, v, d
  <2> QED BY <1>1, <1>2 DEF Tab, Page
<1> QED BY <1>3

LEMMA PostPage ==
    ASSUME UploadsTypeOK, NEW t \in Tabs, NEW files \in SUBSET Files, Post(t, files)
    PROVE  LET d == tab[t].draft IN
           \/ /\ draft[d].state = "consumed" /\ draft' = draft
              /\ Page(t, "finish", d, tab[t].revision, tab[t].seen, tab[t].version, files,
                      tab[t].expected, FALSE)
           \/ /\ MayOpen(d) /\ draft' = Opened(d)
              /\ draft[d].state = "none" => tab[t].revision = NoRevision
              /\ Page(t, "stage", d, tab[t].revision, tab[t].seen, tab[t].version, files,
                      IF tab[t].revision = NoRevision THEN draft[d].revision ELSE tab[t].revision,
                      FALSE)
<1>1. tab \in [Tabs -> Tab] /\ tab[t] \in Tab
  BY DEF UploadsTypeOK
<1> DEFINE d == tab[t].draft
           finish == "finish"
           stage == "stage"
           no == FALSE
           r == IF tab[t].revision = NoRevision THEN draft[d].revision ELSE tab[t].revision
           Answered == /\ draft[d].state = "consumed" /\ draft' = draft
                       /\ tab' = [tab EXCEPT ![t].at = finish, ![t].posting = files, ![t].told = no]
           Taken == /\ MayOpen(d) /\ draft' = Opened(d)
                    /\ draft[d].state = "none" => tab[t].revision = NoRevision
                    /\ tab' = [tab EXCEPT ![t].at = stage, ![t].posting = files, ![t].told = no,
                                          ![t].expected = r]
<1>2. Answered \/ Taken
  BY DEF Post
<1>3. CASE Answered
  <2> HIDE DEF finish, no
  <2>1. Page(t, finish, tab[t].draft, tab[t].revision, tab[t].seen, tab[t].version, files,
             tab[t].expected, no)
    BY <1>1, <1>3 DEF Tab, Page
  <2> QED BY <1>3, <2>1 DEF finish, no
<1>4. CASE Taken
  <2> HIDE DEF stage, no, r
  <2>1. Page(t, stage, tab[t].draft, tab[t].revision, tab[t].seen, tab[t].version, files, r, no)
    BY <1>1, <1>4 DEF Tab, Page
  <2> QED BY <1>4, <2>1 DEF stage, no, r
<1> QED BY <1>2, <1>3, <1>4

LEMMA RefreshPage ==
    ASSUME UploadsTypeOK, NEW t \in Tabs, Refresh(t)
    PROVE  Page(t, "save", tab[t].draft, tab[t].revision, tab[t].seen, tab[t].version,
                tab[t].posting,
                IF tab[t].posting # {} THEN draft[tab[t].draft].revision ELSE tab[t].expected,
                tab[t].told)
<1>1. tab \in [Tabs -> Tab] /\ tab[t] \in Tab
  BY DEF UploadsTypeOK
<1> DEFINE save == "save"
           r == IF tab[t].posting # {} THEN draft[tab[t].draft].revision ELSE tab[t].expected
<1>2. tab' = [tab EXCEPT ![t].at = save, ![t].expected = r]
  BY DEF Refresh
<1>3. Page(t, save, tab[t].draft, tab[t].revision, tab[t].seen, tab[t].version, tab[t].posting, r,
           tab[t].told)
  <2> HIDE DEF save, r
  <2> QED BY <1>1, <1>2 DEF Tab, Page
<1> QED BY <1>3

LEMMA SavePage ==
    ASSUME UploadsTypeOK, NEW t \in Tabs, Save(t)
    PROVE  \/ Page(t, "finish", tab[t].draft, tab[t].revision, tab[t].seen, tab[t].version,
                   tab[t].posting, draft[tab[t].draft].revision + 1, tab[t].told)
           \/ Goto(t, "page")
<1>1. tab \in [Tabs -> Tab] /\ tab[t] \in Tab
  BY DEF UploadsTypeOK
<1> DEFINE finish == "finish"
           r == draft[tab[t].draft].revision + 1
<1>2. tab' = [tab EXCEPT ![t].at = finish, ![t].expected = r] \/ Goto(t, "page")
  BY DEF Save
<1>3. tab' = [tab EXCEPT ![t].at = finish, ![t].expected = r]
      => Page(t, finish, tab[t].draft, tab[t].revision, tab[t].seen, tab[t].version,
              tab[t].posting, r, tab[t].told)
  <2> HIDE DEF finish, r
  <2> QED BY <1>1 DEF Tab, Page
<1> QED BY <1>2, <1>3

\* Submit and Replay end the request with an answer.
Answer(t, told) ==
    tab' = [tab EXCEPT ![t].at = "page", ![t].posting = {}, ![t].expected = NoRevision,
                       ![t].told = told]

LEMMA AnswerPage ==
    ASSUME UploadsTypeOK, NEW t \in Tabs, NEW told \in BOOLEAN, Answer(t, told)
    PROVE  /\ Page(t, "page", tab[t].draft, tab[t].revision, tab[t].seen, tab[t].version, {},
                   NoRevision, told)
           /\ tab' \in [Tabs -> Tab]
<1>1. tab \in [Tabs -> Tab] /\ tab[t] \in Tab
  BY DEF UploadsTypeOK
<1> DEFINE page == "page"
           none == {}
           last == NoRevision
<1>2. tab' = [tab EXCEPT ![t].at = page, ![t].posting = none, ![t].expected = last, ![t].told = told]
  BY DEF Answer
<1>3. page \in Steps /\ none \in SUBSET Files /\ last \in Revisions \cup {NoRevision}
  BY DEF Steps
<1>4. Page(t, page, tab[t].draft, tab[t].revision, tab[t].seen, tab[t].version, none, last, told)
  <2> HIDE DEF page, none, last
  <2> QED BY <1>1, <1>2 DEF Tab, Page
<1>5. tab' \in [Tabs -> Tab]
  <2> HIDE DEF page, none, last
  <2> QED BY <1>1, <1>2, <1>3 DEF Tab, Revisions
<1> QED BY <1>4, <1>5

LEMMA PageFits ==
    ASSUME TabsFit, NEW t \in Tabs, NEW at, NEW d, NEW revision, NEW seen, NEW version,
           NEW posting, NEW expected, NEW told,
           Page(t, at, d, revision, seen, version, posting, expected, told),
           at # "page" => d # NoDraft
    PROVE  TabsFit'
BY DEF TabsFit, Page

LEMMA RevisionsStayFit ==
    ASSUME UploadsTypeOK, DraftsFit, NEW d \in Drafts, NEW e \in Drafts,
           \/ draft' = draft \/ draft' = Opened(d)
           \/ (draft[d].state = "open" /\ MayTouch(d) /\ draft' = Touched(d))
    PROVE  DraftKept(e)
<1>1. \A h \in Drafts : draft[h].state \in DraftStates /\ draft[h].revision \in Nat
  BY DraftFields
<1>2. CASE draft' = draft
  BY <1>2 DEF DraftKept, DraftsFit
<1>3. CASE draft' = Opened(d)
  BY <1>1, <1>3, TouchedFacts DEF DraftKept, DraftsFit
<1>4. CASE draft[d].state = "open" /\ MayTouch(d) /\ draft' = Touched(d)
  BY <1>1, <1>4, TouchedFacts DEF DraftKept, DraftsFit, MayTouch
<1> QED BY <1>2, <1>3, <1>4

LEMMA PageIsCalm ==
    ASSUME UploadsTypeOK, RowsFit, NEW t \in Tabs,
           \/ \E d \in Drafts : Load(t, d)
           \/ \E files \in SUBSET Files : Post(t, files)
           \/ ShowFiles(t) \/ Refresh(t) \/ Save(t) \/ Refused(t) \/ Explain(t) \/ Replay(t)
           \/ Create(t) \/ SaveValues(t)
    PROVE  Calm
<1>0. DraftsFit /\ TabsFit /\ editable \in BOOLEAN /\ drafting \in BOOLEAN
  BY DEF RowsFit, UploadsTypeOK
<1>1. tab' \in [Tabs -> Tab] /\ draft' \in [Drafts -> Draft]
  BY PageTypes
<1>2. UNCHANGED <<blobs, kills, lost, staged, group, editable, drafting, intent, worker>>
  BY DEF Load, Post, ShowFiles, Refresh, Save, Refused, Explain, Replay, Create, SaveValues
<1>3. ASSUME NEW e \in Drafts PROVE DraftKept(e)
  <2>1. \/ draft' = draft
        \/ \E d \in Drafts :
              \/ draft' = Opened(d)
              \/ (draft[d].state = "open" /\ MayTouch(d) /\ draft' = Touched(d))
    <3>1. tab[t].draft \in Drafts \cup {NoDraft}
      BY <1>0, TabFields
    <3>2. CASE \/ \E d \in Drafts : Load(t, d)
               \/ ShowFiles(t) \/ Refresh(t) \/ Refused(t) \/ Replay(t)
      BY <3>2 DEF Load, ShowFiles, Refresh, Refused, Replay
    <3>3. CASE \E files \in SUBSET Files : Post(t, files)
      <4>1. tab[t].draft \in Drafts
        BY <3>1, <3>3 DEF Post
      <4> QED BY <3>3, <4>1, PostPage
    <3>4. CASE Save(t) \/ Explain(t)
      <4>1. tab[t].draft \in Drafts
        BY <1>0, <3>4, TabFields DEF Save, Explain
      <4> QED BY <3>4, <4>1 DEF Save, Explain, Usable
    <3>5. CASE Create(t) \/ SaveValues(t)
      <4>1. tab[t].draft \in Drafts
        BY <3>1, <3>5 DEF Create, SaveValues
      <4> QED BY <3>5, <4>1 DEF Create, SaveValues, Usable
    <3> QED BY <3>2, <3>3, <3>4, <3>5
  <2> QED BY <1>0, <2>1, RevisionsStayFit
<1>4. TabsFit'
  <2>0. tab[t].at # "page" => tab[t].draft # NoDraft
    BY <1>0 DEF TabsFit
  <2>1. ASSUME NEW d \in Drafts, Load(t, d) PROVE TabsFit'
    <3>1. d # NoDraft
      OBVIOUS
    <3> DEFINE r == IF draft[d].state = "none" THEN NoRevision ELSE draft[d].revision
    <3>2. Page(t, "loading", d, r, {}, 0, tab[t].posting, tab[t].expected, FALSE)
      BY <2>1, LoadPage
    <3> HIDE DEF r
    <3> QED BY <1>0, <3>1, <3>2 DEF Page, TabsFit
  <2>2. ASSUME NEW files \in SUBSET Files, Post(t, files) PROVE TabsFit'
    <3>1. tab[t].draft # NoDraft
      BY <2>2 DEF Post
    <3> QED BY <1>0, <2>2, <3>1, PostPage, PageFits
  <2>3. CASE ShowFiles(t)
    BY <1>0, <2>3, ShowPage, PageFits
  <2>4. CASE Refresh(t)
    <3>1. tab[t].draft # NoDraft
      BY <2>0, <2>4 DEF Refresh
    <3> QED BY <1>0, <2>4, <3>1, RefreshPage, PageFits
  <2>5. CASE Save(t)
    <3>1. tab[t].draft # NoDraft
      BY <2>0, <2>5 DEF Save
    <3> QED BY <1>0, <2>5, <3>1, SavePage, GotoPage, PageFits
  <2>6. CASE Refused(t) \/ Explain(t)
    <3>1. tab[t].draft # NoDraft /\ \E step \in {"page", "explain"} : Goto(t, step)
      BY <2>0, <2>6 DEF Refused, Explain
    <3> QED BY <1>0, <3>1, GotoPage, PageFits
  <2>7. CASE Replay(t)
    <3>1. Answer(t, TRUE)
      BY <2>7 DEF Replay, Answer
    <3> QED BY <1>0, <3>1, AnswerPage, PageFits
  <2>8. CASE Create(t) \/ SaveValues(t)
    BY <1>0, <2>8 DEF Create, SaveValues, TabsFit
  <2> QED BY <2>1, <2>2, <2>3, <2>4, <2>5, <2>6, <2>7, <2>8
<1> QED BY <1>0, <1>1, <1>2, <1>3, <1>4 DEF Calm

LEMMA OutsideIsCalm ==
    ASSUME UploadsTypeOK, RowsFit, Move \/ \E d \in Drafts : Lapse(d)
    PROVE  Calm
<1>1. CASE Move
  BY <1>1 DEF Move, Calm, UploadsTypeOK, RowsFit, DraftsFit, DraftKept, TabsFit
<1>2. ASSUME NEW d \in Drafts, Lapse(d) PROVE Calm
  <2>1. draft' \in [Drafts -> Draft]
    BY <1>2, DraftUpdates DEF Lapse, RowsFit
  <2>2. \A e \in Drafts : draft'[e].state = draft[e].state /\ draft'[e].revision = draft[e].revision
    <3>1. draft \in [Drafts -> Draft] /\ draft' = [draft EXCEPT ![d].lapsed = TRUE]
      BY <1>2 DEF Lapse, UploadsTypeOK
    <3> QED BY <3>1 DEF Draft
  <2> QED BY <1>2, <2>1, <2>2 DEF Lapse, Calm, UploadsTypeOK, RowsFit, DraftsFit, DraftKept, TabsFit
<1> QED BY <1>1, <1>2

(* ---------------------- steps that change the rows --------------------- *)

LEMMA StagingAdvances ==
    ASSUME UploadsTypeOK, RowsFit, NEW d \in Drafts, NEW taken \in SUBSET Files,
           NEW o \in Outcomes, Staging(d, taken, o),
           staged' \in [Drafts -> [Files -> Staged]], tab' \in [Tabs -> Tab], TabsFit'
    PROVE  /\ UploadsTypeOK' /\ RowsFit' /\ \A e \in Drafts : DraftKept(e)
           /\ \A k \in Keys : KeyAdvance(k)
<1> DEFINE keys == {KeyOf(<<d, f>>) : f \in taken}
<1>0. DraftsFit /\ StagedFit /\ GroupsFit /\ WorkersFit /\ TabsFit
  BY DEF RowsFit
<1>1. \A f \in Files : KeyOf(<<d, f>>) \in Keys /\ KeyOf(<<d, f>>).row = <<d, f>>
  BY KeyFacts, RowFacts
<1>2. keys \in SUBSET Keys
  BY <1>1
<1>3. /\ MayEnd(o) /\ Stored(o, keys, staged', group)
      /\ UNCHANGED <<group, editable, drafting, intent, worker>>
      /\ draft[d].state = "open" /\ \A f \in taken : staged[d][f].state = "none"
  BY DEF Staging, Usable
<1>4. draft' = draft \/ (draft[d].state = "open" /\ MayTouch(d) /\ draft' = Touched(d))
  BY <1>3 DEF Staging
<1>5. \A e \in Drafts, f \in Files :
        IF Committed(o) /\ e = d /\ f \in taken
        THEN staged'[e][f].state = "saved" /\ staged'[e][f].key = KeyOf(<<d, f>>)
        ELSE staged'[e][f] = staged[e][f]
  BY DEF Staging
<1> HIDE DEF keys
<1>6. UploadsTypeOK'
  <2>1. blobs' \subseteq Keys /\ lost' \subseteq Keys /\ kills' \in 0..MaxKills
    BY <1>2, <1>3, StoredType
  <2>2. draft' \in [Drafts -> Draft]
    BY <1>0, <1>4, DraftMoves DEF UploadsTypeOK
  <2> QED BY <1>3, <2>1, <2>2 DEF UploadsTypeOK
<1>7. \A e \in Drafts : DraftKept(e) /\ draft'[e].state = draft[e].state
  BY <1>0, <1>4, RevisionsStayFit, TouchedFacts
<1>8. DraftsFit'
  BY <1>7 DEF DraftsFit, DraftKept
<1>9. StagedFit'
  <2> SUFFICES ASSUME NEW e \in Drafts, NEW f \in Files
               PROVE  /\ staged'[e][f].key # NoKey => staged'[e][f].key.row = <<e, f>>
                      /\ staged'[e][f].state = "none" => staged'[e][f].key = NoKey
                      /\ staged'[e][f].state = "saved" => draft'[e].state = "open"
                      /\ staged'[e][f].state = "consumed" => draft'[e].state = "consumed"
    BY DEF StagedFit
  <2>1. CASE Committed(o) /\ e = d /\ f \in taken
    BY <1>1, <1>3, <1>5, <1>7, <2>1
  <2>2. CASE ~(Committed(o) /\ e = d /\ f \in taken)
    <3>1. staged'[e][f] = staged[e][f] /\ draft'[e].state = draft[e].state
      BY <1>5, <1>7, <2>2
    <3> QED BY <1>0, <3>1 DEF StagedFit
  <2> QED BY <2>1, <2>2
<1>10. GroupsFit' /\ WorkersFit'
  BY <1>0, <1>3 DEF GroupsFit, WorkersFit, Latest
<1>11. RowsFit'
  BY <1>8, <1>9, <1>10 DEF RowsFit
<1>12. \A k \in keys : ~Used(k) /\ (IF Committed(o) THEN Referenced(k)' ELSE ~Used(k)')
  <2> TAKE k \in keys
  <2>1. PICK f \in taken : k = KeyOf(<<d, f>>)
    BY DEF keys
  <2>2. k \in Keys /\ k.row = <<d, f>> /\ staged[d][f].state = "none"
    BY <1>1, <1>3, <2>1
  <2>3. ~Used(k)
    BY <1>0, <2>2, StagedKey
  <2>4. Committed(o) => Referenced(k)'
    BY <1>5, <1>6, <1>9, <1>10, <2>1, <2>2, StagedKeyNext
  <2>5. ~Committed(o) => ~Used(k)'
    BY <1>5, <1>6, <1>9, <1>10, <2>2, StagedKeyNext
  <2> QED BY <2>3, <2>4, <2>5
<1>13. ASSUME NEW k \in Keys PROVE KeyAdvance(k)
  <2>1. IntentMoves(k)
    BY <1>3 DEF IntentMoves
  <2>2. /\ Used(k) => Used(k)'
        /\ Referenced(k)' => Referenced(k) \/ (k \in keys /\ Committed(o))
        /\ Referenced(k) => Referenced(k)'
    <3>1. CASE \E e \in Drafts, f \in Files : k.row = <<e, f>>
      <4>1. PICK e \in Drafts, f \in Files : k.row = <<e, f>>
        BY <3>1
      <4>2. CASE Committed(o) /\ e = d /\ f \in taken
        <5>1. staged'[e][f].state = "saved" /\ staged'[e][f].key = KeyOf(<<d, f>>)
          BY <1>5, <4>2
        <5>2. staged[e][f].state = "none"
          BY <1>3, <4>2
        <5>3. k = KeyOf(<<d, f>>) => k \in keys
          BY <4>2 DEF keys
        <5> QED BY <1>0, <1>6, <1>9, <1>10, <4>1, <4>2, <5>1, <5>2, <5>3, StagedKey, StagedKeyNext
      <4>3. CASE ~(Committed(o) /\ e = d /\ f \in taken)
        <5>1. staged'[e][f] = staged[e][f]
          BY <1>5, <4>3
        <5> QED BY <1>0, <1>6, <1>9, <1>10, <4>1, <5>1, StagedKey, StagedKeyNext
      <4> QED BY <4>2, <4>3
    <3>2. CASE \E g \in Groups, n \in 1..MaxVersions : k.row = <<g, n>>
      BY <1>0, <1>3, <1>6, <1>9, <1>10, <3>2, VersionKey, VersionKeyNext DEF Latest
    <3> QED BY <3>1, <3>2, RowsOfKeys
  <2>3. Stored(o, keys, staged', group')
    BY <1>3
  <2> QED BY <1>2, <1>6, <1>11, <1>12, <2>1, <2>2, <2>3, WritesAdvance
<1> QED BY <1>6, <1>7, <1>11, <1>13

\* A transaction that retires versions or gives up staged files, and leaves intents for
\* the keys q; it may write the versions that groups holds and this record did not.
Changes(o, groups, keys, q) ==
    /\ o \in Outcomes /\ MayEnd(o) /\ Stored(o, keys, staged', group')
    /\ Grows(groups, keys)
    /\ group' = IF Committed(o) THEN groups ELSE group
    /\ intent' = IF Committed(o) THEN Queued(q) ELSE intent
    /\ worker' = worker
    /\ \A e \in Drafts, f \in Files :
          /\ staged'[e][f].key = staged[e][f].key
          /\ \/ staged'[e][f].state = staged[e][f].state
             \/ /\ Committed(o) /\ staged[e][f].state = "saved"
                /\ staged'[e][f].state \in {"removed", "consumed"}
                /\ staged[e][f].key \in q \cup {NoKey}
    /\ \A g \in Groups : \A n \in 1..Latest(g) :
          ~group[g].versions[n].retired /\ groups[g].versions[n].retired
          => groups[g].versions[n].key \in q
    /\ Committed(o) => \A k \in q \cap Keys :
          \/ \E e \in Drafts, f \in Files : staged'[e][f].key = k /\ staged'[e][f].state # "saved"
          \/ \E g \in Groups : \E n \in 1..Len(groups[g].versions) :
                groups[g].versions[n].key = k /\ groups[g].versions[n].retired

\* What such a transaction must leave right by itself.
ChangeFits ==
    /\ draft' \in [Drafts -> Draft] /\ staged' \in [Drafts -> [Files -> Staged]]
    /\ tab' \in [Tabs -> Tab] /\ editable' = editable /\ drafting' = drafting
    /\ DraftsFit' /\ TabsFit'
    /\ \A e \in Drafts, f \in Files :
          /\ staged'[e][f].state = "saved" => draft'[e].state = "open"
          /\ staged'[e][f].state = "consumed" => draft'[e].state = "consumed"

LEMMA GrowthFits ==
    ASSUME UploadsTypeOK, GroupsFit, NEW groups, NEW keys, Grows(groups, keys)
    PROVE  /\ \A g \in Groups :
                /\ Len(groups[g].versions) \in Latest(g)..MaxVersions
                /\ groups[g].state = "none" => Len(groups[g].versions) = 0
                /\ \A n \in 1..Len(groups[g].versions) : groups[g].versions[n].key.row = <<g, n>>
           /\ keys \subseteq Keys
<1>1. \A g \in Groups : /\ Latest(g) \in Nat /\ Latest(g) = Len(group[g].versions)
                        /\ Latest(g) <= MaxVersions
  BY GroupFields DEF Latest, GroupsFit
<1>2. \A g \in Groups : /\ Len(groups[g].versions) \in Latest(g)..MaxVersions
                        /\ groups[g].state = "none" => Len(groups[g].versions) = 0
  BY <1>1 DEF Grows, GroupsFit
<1>3. \A g \in Groups : \A n \in 1..Len(groups[g].versions) :
          groups[g].versions[n].key.row = <<g, n>>
  <2> TAKE g \in Groups
  <2> TAKE n \in 1..Len(groups[g].versions)
  <2>0. n \in 1..MaxVersions
    BY <1>1, <1>2
  <2>1. CASE n <= Latest(g)
    <3>1. n \in 1..Latest(g) /\ group[g].versions[n].key.row = <<g, n>>
      BY <1>1, <1>2, <2>1 DEF GroupsFit
    <3> QED BY <1>1, <3>1 DEF Grows
  <2>2. CASE ~(n <= Latest(g))
    <3>1. n \in (Latest(g) + 1)..Len(groups[g].versions)
      BY <1>1, <1>2, <2>2
    <3>2. groups[g].versions[n].key = KeyOf(<<g, n>>)
      BY <1>1, <3>1 DEF Grows
    <3> QED BY <2>0, <3>2, KeyFacts, RowFacts
  <2> QED BY <2>1, <2>2
<1>4. keys \subseteq Keys
  <2> SUFFICES ASSUME NEW k \in keys PROVE k \in Keys
    OBVIOUS
  <2>1. PICK g \in Groups : \E n \in (Latest(g) + 1)..Len(groups[g].versions) : k = KeyOf(<<g, n>>)
    BY DEF Grows
  <2>2. PICK n \in (Latest(g) + 1)..Len(groups[g].versions) : k = KeyOf(<<g, n>>)
    BY <2>1
  <2>3. n \in 1..MaxVersions
    BY <1>1, <1>2, <2>2
  <2> QED BY <2>2, <2>3, KeyFacts, RowFacts
<1> QED BY <1>2, <1>3, <1>4

LEMMA ChangeKeepsFit ==
    ASSUME UploadsTypeOK, RowsFit, NEW o, NEW groups, NEW keys, NEW q,
           Changes(o, groups, keys, q), ChangeFits
    PROVE  UploadsTypeOK' /\ RowsFit'
<1>0. DraftsFit /\ StagedFit /\ GroupsFit /\ WorkersFit /\ TabsFit
  BY DEF RowsFit
<1>1. UploadsTypeOK'
  <2>1. blobs' \subseteq Keys /\ lost' \subseteq Keys /\ kills' \in 0..MaxKills
    BY <1>0, GrowthFits, StoredType DEF Changes
  <2>2. group' \in [Groups -> Group]
    BY DEF Changes, Grows, UploadsTypeOK
  <2>3. intent' \in [Keys -> Intent]
    BY QueuedFacts DEF Changes, UploadsTypeOK
  <2> QED BY <2>1, <2>2, <2>3 DEF UploadsTypeOK, ChangeFits, Changes
<1>2. StagedFit'
  <2> SUFFICES ASSUME NEW e \in Drafts, NEW f \in Files
               PROVE  /\ staged'[e][f].key # NoKey => staged'[e][f].key.row = <<e, f>>
                      /\ staged'[e][f].state = "none" => staged'[e][f].key = NoKey
    BY DEF StagedFit, ChangeFits
  <2> QED BY <1>0 DEF StagedFit, Changes
<1>3. GroupsFit'
  <2>1. CASE Committed(o)
    <3>1. group' = groups
      BY <2>1 DEF Changes
    <3>2. \A g \in Groups : Latest(g)' = Len(groups[g].versions)
      BY <3>1 DEF Latest
    <3> QED BY <1>0, <3>1, <3>2, GrowthFits DEF Changes, GroupsFit
  <2>2. CASE ~Committed(o)
    BY <1>0, <2>2 DEF Changes, GroupsFit, Latest
  <2> QED BY <2>1, <2>2
<1>4. WorkersFit'
  BY <1>0, QueuedFacts DEF Changes, WorkersFit
<1> QED BY <1>1, <1>2, <1>3, <1>4 DEF RowsFit, ChangeFits

LEMMA ChangeAdvances ==
    ASSUME UploadsTypeOK, RowsFit, NEW o, NEW groups, NEW keys, NEW q,
           Changes(o, groups, keys, q), ChangeFits
    PROVE  UploadsTypeOK' /\ RowsFit' /\ \A k \in Keys : KeyAdvance(k)
<1>0. DraftsFit /\ StagedFit /\ GroupsFit /\ UploadsTypeOK' /\ RowsFit' /\ StagedFit' /\ GroupsFit'
  BY ChangeKeepsFit DEF RowsFit
<1>1. /\ o \in Outcomes /\ Stored(o, keys, staged', group') /\ Grows(groups, keys)
      /\ group' = IF Committed(o) THEN groups ELSE group
      /\ intent' = IF Committed(o) THEN Queued(q) ELSE intent
  BY DEF Changes
<1>2. \A g \in Groups : /\ Latest(g) \in Nat /\ Latest(g) = Len(group[g].versions)
                        /\ Latest(g)' = Len(group'[g].versions)
                        /\ Len(groups[g].versions) \in Latest(g)..MaxVersions
  BY <1>0, <1>1, GroupFields, GrowthFits DEF Latest
<1>3. keys \in SUBSET Keys
  BY <1>0, <1>1, GrowthFits
<1>4. \A k \in keys : ~Used(k) /\ (IF Committed(o) THEN Referenced(k)' ELSE ~Used(k)')
  <2> TAKE k \in keys
  <2>1. PICK g \in Groups : \E n \in (Latest(g) + 1)..Len(groups[g].versions) : k = KeyOf(<<g, n>>)
    BY <1>1 DEF Grows
  <2>2. PICK n \in (Latest(g) + 1)..Len(groups[g].versions) : k = KeyOf(<<g, n>>)
    BY <2>1
  <2>3. n \in 1..MaxVersions /\ ~(n <= Latest(g)) /\ n <= Len(groups[g].versions)
    BY <1>2, <2>2
  <2>4. k \in Keys /\ k.row = <<g, n>>
    BY <2>2, <2>3, KeyFacts, RowFacts
  <2>5. ~Used(k)
    BY <1>0, <2>3, <2>4, VersionKey
  <2>6. CASE Committed(o)
    <3>1. groups[g].versions[n].key = KeyOf(<<g, n>>) /\ ~groups[g].versions[n].retired
      BY <1>1, <1>2, <2>2 DEF Grows
    <3>2. group' = groups
      BY <1>1, <2>6
    <3> QED BY <1>0, <1>2, <2>2, <2>3, <2>4, <2>5, <2>6, <3>1, <3>2, VersionKeyNext
  <2>7. CASE ~Committed(o)
    <3>1. group' = group
      BY <1>1, <2>7
    <3> QED BY <1>0, <1>2, <2>3, <2>4, <2>5, <2>7, <3>1, VersionKeyNext
  <2> QED BY <2>6, <2>7
<1>5. ASSUME NEW k \in Keys, NEW e \in Drafts, NEW f \in Files, k.row = <<e, f>>
      PROVE  /\ Used(k) => Used(k)'
             /\ Referenced(k)' => Referenced(k)
             /\ Referenced(k) /\ ~Referenced(k)' => Committed(o) /\ k \in q
  <2>1. /\ staged'[e][f].key = staged[e][f].key
        /\ \/ staged'[e][f].state = staged[e][f].state
           \/ /\ Committed(o) /\ staged[e][f].state = "saved"
              /\ staged'[e][f].state \in {"removed", "consumed"}
              /\ staged[e][f].key \in q \cup {NoKey}
    BY DEF Changes
  <2> QED BY <1>0, <1>5, <2>1, StagedKey, StagedKeyNext, KeyFacts
<1>6. ASSUME NEW k \in Keys, NEW g \in Groups, NEW n \in 1..MaxVersions, k.row = <<g, n>>
      PROVE  /\ Used(k) => Used(k)'
             /\ Referenced(k)' => Referenced(k) \/ (k \in keys /\ Committed(o))
             /\ Referenced(k) /\ ~Referenced(k)' => Committed(o) /\ k \in q
  <2>1. CASE ~Committed(o)
    <3>1. group' = group
      BY <1>1, <2>1
    <3> QED BY <1>0, <1>2, <1>6, <3>1, VersionKey, VersionKeyNext
  <2>2. CASE Committed(o) /\ n <= Latest(g)
    <3>1. group' = groups
      BY <1>1, <2>2
    <3>2. n \in 1..Len(group[g].versions) /\ n \in 1..Latest(g) /\ n <= Latest(g)'
      BY <1>2, <2>2, <3>1
    <3>3. /\ groups[g].versions[n].key = group[g].versions[n].key
          /\ group[g].versions[n].retired => groups[g].versions[n].retired
      BY <1>1, <3>2 DEF Grows
    <3>4. ~group[g].versions[n].retired /\ groups[g].versions[n].retired
          => groups[g].versions[n].key \in q
      BY <3>2 DEF Changes
    <3> QED BY <1>0, <1>6, <2>2, <3>1, <3>2, <3>3, <3>4, VersionKey, VersionKeyNext
  <2>3. CASE Committed(o) /\ ~(n <= Latest(g))
    <3>1. group' = groups
      BY <1>1, <2>3
    <3>2. n <= Latest(g)' => /\ n \in (Len(group[g].versions) + 1)..Len(groups[g].versions)
      BY <1>2, <2>3, <3>1
    <3>3. n <= Latest(g)' => groups[g].versions[n].key \in keys
      BY <1>1, <3>2 DEF Grows
    <3> QED BY <1>0, <1>6, <2>3, <3>1, <3>3, VersionKey, VersionKeyNext
  <2> QED BY <2>1, <2>2, <2>3
<1>7. ASSUME NEW k \in Keys PROVE KeyAdvance(k)
  <2>1. /\ Used(k) => Used(k)'
        /\ Referenced(k)' => Referenced(k) \/ (k \in keys /\ Committed(o))
        /\ Referenced(k) /\ ~Referenced(k)' => Committed(o) /\ k \in q
    BY <1>5, <1>6, RowsOfKeys
  <2>2. Committed(o) /\ k \in q => Used(k)' /\ ~Referenced(k)'
    <3> SUFFICES ASSUME Committed(o), k \in q PROVE Used(k)' /\ ~Referenced(k)'
      OBVIOUS
    <3>1. \/ \E e \in Drafts, f \in Files : staged'[e][f].key = k /\ staged'[e][f].state # "saved"
          \/ \E g \in Groups : \E n \in 1..Len(groups[g].versions) :
                groups[g].versions[n].key = k /\ groups[g].versions[n].retired
      BY DEF Changes
    <3>2. ASSUME NEW e \in Drafts, NEW f \in Files, staged'[e][f].key = k,
                 staged'[e][f].state # "saved"
          PROVE  Used(k)' /\ ~Referenced(k)'
      <4>1. k.row = <<e, f>> /\ staged'[e][f].state # "none"
        BY <1>0, <3>2, KeyFacts DEF StagedFit
      <4> QED BY <1>0, <3>2, <4>1, StagedKeyNext
    <3>3. ASSUME NEW g \in Groups, NEW n \in 1..Len(groups[g].versions),
                 groups[g].versions[n].key = k, groups[g].versions[n].retired
          PROVE  Used(k)' /\ ~Referenced(k)'
      <4>1. k.row = <<g, n>> /\ group' = groups
        BY <1>0, <1>1, <3>3, GrowthFits
      <4>2. n \in 1..MaxVersions /\ n <= Latest(g)'
        BY <1>2, <4>1
      <4> QED BY <1>0, <3>3, <4>1, <4>2, VersionKeyNext
    <3> QED BY <3>1, <3>2, <3>3
  <2>3. IntentMoves(k)
    BY <1>1, <2>2, QueuedFacts DEF IntentMoves
  <2>4. Referenced(k) /\ ~Referenced(k)' => intent'[k].state # "none"
    <3>1. Committed(o) /\ k \in q => intent'[k].state # "none"
      BY <1>1, QueuedFacts
    <3> QED BY <2>1, <3>1
  <2> QED BY <1>0, <1>1, <1>3, <1>4, <2>1, <2>3, <2>4, WritesAdvance
<1> QED BY <1>0, <1>7

LEMMA StagedFields ==
    ASSUME UploadsTypeOK, NEW d \in Drafts, NEW f \in Files
    PROVE  /\ staged[d][f] \in Staged /\ staged[d][f].key \in Keys \cup {NoKey}
           /\ staged[d][f].state \in {"none", "saved", "removed", "consumed"}
<1>1. staged[d][f] \in Staged
  BY DEF UploadsTypeOK
<1> QED BY <1>1 DEF Staged

\* The files of one draft are given up, and nothing else happens to staged files.
GivesUp(d, files, s) ==
    /\ staged' \in [Drafts -> [Files -> Staged]]
    /\ \A e \in Drafts, f \in Files :
          /\ staged'[e][f].key = staged[e][f].key
          /\ staged'[e][f].state = IF e = d /\ f \in files THEN s ELSE staged[e][f].state

LEMMA GivingUp ==
    ASSUME UploadsTypeOK, NEW d \in Drafts, NEW files \in SUBSET Files,
           NEW s \in {"removed", "consumed"},
           staged' = [staged EXCEPT ![d] = [f \in Files |->
                        IF f \in files THEN [staged[d][f] EXCEPT !.state = s] ELSE staged[d][f]]]
    PROVE  GivesUp(d, files, s)
<1> DEFINE row(f) == [staged[d][f] EXCEPT !.state = s]
<1>1. \A f \in Files : /\ row(f) \in Staged /\ row(f).key = staged[d][f].key /\ row(f).state = s
  <2> TAKE f \in Files
  <2> DEFINE old == staged[d][f]
  <2>1. old \in Staged
    BY StagedFields
  <2> HIDE DEF old
  <2>2. /\ [old EXCEPT !.state = s] \in Staged /\ [old EXCEPT !.state = s].key = old.key
        /\ [old EXCEPT !.state = s].state = s
    BY <2>1 DEF Staged
  <2> QED BY <2>2 DEF old
<1>2. staged' = [staged EXCEPT ![d] = [f \in Files |-> IF f \in files THEN row(f) ELSE staged[d][f]]]
  OBVIOUS
<1> HIDE DEF row
<1>3. staged \in [Drafts -> [Files -> Staged]]
  BY DEF UploadsTypeOK
<1>4. [f \in Files |-> IF f \in files THEN row(f) ELSE staged[d][f]] \in [Files -> Staged]
  BY <1>1, <1>3
<1>5. staged' \in [Drafts -> [Files -> Staged]]
  BY <1>2, <1>3, <1>4
<1>6. \A e \in Drafts, f \in Files :
        staged'[e][f] = IF e = d /\ f \in files THEN row(f) ELSE staged[e][f]
  BY <1>2, <1>3
<1> QED BY <1>1, <1>5, <1>6 DEF GivesUp

LEMMA GivingUpOne ==
    ASSUME UploadsTypeOK, NEW d \in Drafts, NEW f \in Files,
           staged' = [staged EXCEPT ![d][f].state = "removed"]
    PROVE  GivesUp(d, {f}, "removed")
<1> DEFINE old == staged[d][f]
           row == [old EXCEPT !.state = "removed"]
<1>1. old \in Staged /\ staged \in [Drafts -> [Files -> Staged]]
  BY StagedFields DEF UploadsTypeOK
<1>2. row \in Staged /\ row.key = staged[d][f].key /\ row.state = "removed"
  <2> HIDE DEF old
  <2>1. row \in Staged /\ row.key = old.key /\ row.state = "removed"
    BY <1>1 DEF Staged
  <2> QED BY <2>1 DEF old
<1>3. staged' = [staged EXCEPT ![d] = [staged[d] EXCEPT ![f] = row]]
  BY <1>1
<1> HIDE DEF row, old
<1>4. staged' \in [Drafts -> [Files -> Staged]]
  BY <1>1, <1>2, <1>3
<1>5. \A e \in Drafts, h \in Files :
        staged'[e][h] = IF e = d /\ h \in {f} THEN row ELSE staged[e][h]
  BY <1>1, <1>3
<1> QED BY <1>2, <1>4, <1>5 DEF GivesUp

\* A draft ends and takes a receipt, or none.
DraftEnds(d, s) ==
    /\ draft' \in [Drafts -> Draft]
    /\ \A e \in Drafts : /\ draft'[e].state = IF e = d THEN s ELSE draft[e].state
                         /\ e # d => draft'[e] = draft[e]
                         /\ e = d => draft'[e].revision = draft[e].revision + 1

LEMMA EndingDraft ==
    ASSUME UploadsTypeOK, DraftsFit, NEW d \in Drafts, draft[d].state = "open", NEW s \in DraftStates,
           \/ draft' = [draft EXCEPT ![d].state = s, ![d].revision = @ + 1]
           \/ \E r \in Receipt : draft' = [draft EXCEPT ![d].state = s, ![d].revision = @ + 1,
                                                        ![d].receipt = r]
    PROVE  DraftEnds(d, s)
<1> DEFINE old == draft[d]
           next == old.revision + 1
<1>1. draft \in [Drafts -> Draft] /\ old \in Draft /\ next \in Revisions
  <2>1. draft[d].revision <= MaxRevision /\ draft[d].revision \in Nat
    BY DraftFields DEF DraftsFit
  <2> QED BY <2>1 DEF UploadsTypeOK, Revisions
<1>2. \E new \in Draft : /\ draft' = [draft EXCEPT ![d] = new]
                        /\ new.state = s /\ new.revision = next
  <2>1. CASE draft' = [draft EXCEPT ![d].state = s, ![d].revision = @ + 1]
    <3> DEFINE new == [old EXCEPT !.state = s, !.revision = next]
    <3>1. draft' = [draft EXCEPT ![d] = new]
      BY <2>1
    <3>2. new \in Draft /\ new.state = s /\ new.revision = next
      <4> HIDE DEF old, next
      <4> QED BY <1>1 DEF Draft, Revisions
    <3> HIDE DEF new
    <3> QED BY <3>1, <3>2
  <2>2. ASSUME NEW r \in Receipt,
               draft' = [draft EXCEPT ![d].state = s, ![d].revision = @ + 1, ![d].receipt = r]
        PROVE  \E new \in Draft : /\ draft' = [draft EXCEPT ![d] = new]
                                 /\ new.state = s /\ new.revision = next
    <3> DEFINE new == [old EXCEPT !.state = s, !.revision = next, !.receipt = r]
    <3>1. draft' = [draft EXCEPT ![d] = new]
      BY <2>2
    <3>2. new \in Draft /\ new.state = s /\ new.revision = next
      <4> HIDE DEF old, next
      <4> QED BY <1>1 DEF Draft, Revisions
    <3> HIDE DEF new
    <3> QED BY <3>1, <3>2
  <2> QED BY <2>1, <2>2
<1> HIDE DEF next
<1>3. next = draft[d].revision + 1
  BY DEF next
<1> QED BY <1>1, <1>2, <1>3 DEF DraftEnds

LEMMA NothingGrows ==
    ASSUME UploadsTypeOK, GroupsFit
    PROVE  Grows(group, {}) /\ (UNCHANGED <<blobs, kills, lost>> => Stored("commit", {}, staged', group'))
<1>1. \A g \in Groups : Len(group[g].versions) \in Nat /\ Len(group[g].versions) <= MaxVersions
  BY GroupFields DEF Latest, GroupsFit
<1>2. Grows(group, {})
  BY <1>1 DEF Grows, UploadsTypeOK
<1> QED BY <1>2 DEF Stored

LEMMA GivingUpAdvances ==
    ASSUME UploadsTypeOK, RowsFit, NEW d \in Drafts, draft[d].state = "open",
           NEW files \in SUBSET Saved(d), GivesUp(d, files, "removed"),
           NEW q, intent' = Queued(q),
           \A f \in files : staged[d][f].key \in q \cup {NoKey},
           \A k \in q : \E f \in Files :
              staged[d][f].key = k /\ (f \in files \/ staged[d][f].state # "saved"),
           \/ MayTouch(d) /\ draft' = Touched(d)
           \/ /\ files = Saved(d)
              /\ DraftEnds(d, "discarded") \/ DraftEnds(d, "expired"),
           UNCHANGED <<blobs, kills, lost, group, editable, drafting, worker, tab>>
    PROVE  UploadsTypeOK' /\ RowsFit' /\ \A k \in Keys : KeyAdvance(k)
<1> DEFINE none == {}
           end == "commit"
<1>0. DraftsFit /\ StagedFit /\ GroupsFit /\ TabsFit /\ \A f \in files : staged[d][f].state = "saved"
  BY DEF RowsFit, Saved
<1>1. /\ Grows(group, none) /\ Stored(end, none, staged', group') /\ Committed(end) /\ MayEnd(end)
      /\ end \in Outcomes
  BY <1>0, NothingGrows DEF Committed, MayEnd, Outcomes
<1>2. Changes(end, group, none, q)
  <2>1. ASSUME NEW e \in Drafts, NEW f \in Files
        PROVE  /\ staged'[e][f].key = staged[e][f].key
               /\ \/ staged'[e][f].state = staged[e][f].state
                  \/ /\ Committed(end) /\ staged[e][f].state = "saved"
                     /\ staged'[e][f].state \in {"removed", "consumed"}
                     /\ staged[e][f].key \in q \cup {NoKey}
    BY <1>0, <1>1 DEF GivesUp
  <2>2. \A k \in q \cap Keys :
           \E e \in Drafts, f \in Files : staged'[e][f].key = k /\ staged'[e][f].state # "saved"
    BY DEF GivesUp
  <2> HIDE DEF none, end
  <2> QED BY <1>1, <2>1, <2>2 DEF Changes
<1>3. /\ DraftsFit' /\ draft' \in [Drafts -> Draft]
      /\ \A e \in Drafts : draft'[e].state = draft[e].state \/ e = d
      /\ draft'[d].state = "open" \/ (files = Saved(d) /\ draft'[d].state # "consumed")
  <2>1. CASE MayTouch(d) /\ draft' = Touched(d)
    BY <1>0, <2>1, DraftMoves, TouchedFacts, RevisionsStayFit DEF DraftsFit, DraftKept
  <2>2. CASE files = Saved(d) /\ (DraftEnds(d, "discarded") \/ DraftEnds(d, "expired"))
    BY <1>0, <2>2 DEF DraftEnds, DraftsFit
  <2> QED BY <2>1, <2>2
<1>4. ASSUME NEW e \in Drafts, NEW f \in Files
      PROVE  /\ staged'[e][f].state = "saved" => draft'[e].state = "open"
             /\ staged'[e][f].state = "consumed" => draft'[e].state = "consumed"
  <2>1. CASE e # d
    BY <1>0, <1>3, <2>1 DEF GivesUp, StagedFit
  <2>2. CASE e = d
    BY <1>0, <1>3, <2>2 DEF GivesUp, StagedFit, Saved
  <2> QED BY <2>1, <2>2
<1>5. ChangeFits
  BY <1>0, <1>3, <1>4 DEF ChangeFits, GivesUp, UploadsTypeOK, TabsFit
<1> HIDE DEF none, end
<1> QED BY <1>2, <1>5, ChangeAdvances

LEMMA RemoveStagedAdvances ==
    ASSUME UploadsTypeOK, RowsFit, NEW t \in Tabs, NEW f \in Files, RemoveStaged(t, f)
    PROVE  /\ UploadsTypeOK' /\ RowsFit' /\ \A k \in Keys : KeyAdvance(k)
           /\ tab[t].draft \in Drafts /\ GivesUp(tab[t].draft, {f}, "removed")
<1> DEFINE d == tab[t].draft
           files == {f}
           q == KeysOf(d, {f})
<1>1. d \in Drafts
  BY TabFields DEF RowsFit, RemoveStaged
<1>2. /\ draft[d].state = "open" /\ MayTouch(d) /\ draft' = Touched(d)
      /\ staged[d][f].state = "saved" /\ intent' = Queued(q)
      /\ UNCHANGED <<blobs, kills, lost, group, editable, drafting, worker, tab>>
  BY DEF RemoveStaged, Usable
<1>3. GivesUp(d, files, "removed")
  BY <1>1, GivingUpOne DEF RemoveStaged
<1>4. files \in SUBSET Saved(d)
  BY <1>2 DEF Saved
<1>5. /\ \A h \in files : staged[d][h].key \in q \cup {NoKey}
      /\ \A k \in q : \E h \in Files :
            staged[d][h].key = k /\ (h \in files \/ staged[d][h].state # "saved")
  BY DEF KeysOf
<1> HIDE DEF d, files, q
<1>6. UploadsTypeOK' /\ RowsFit' /\ \A k \in Keys : KeyAdvance(k)
  BY <1>1, <1>2, <1>3, <1>4, <1>5, GivingUpAdvances
<1> QED BY <1>1, <1>3, <1>6 DEF d, files

\* Discard and Expire end with _close_manifest.
LEMMA CloseAdvances ==
    ASSUME UploadsTypeOK, RowsFit, NEW d \in Drafts, draft[d].state = "open",
           NEW s \in {"discarded", "expired"}, Close(d, s),
           UNCHANGED <<blobs, kills, lost, group, editable, drafting, worker, tab>>
    PROVE  /\ UploadsTypeOK' /\ RowsFit' /\ \A k \in Keys : KeyAdvance(k)
           /\ GivesUp(d, Saved(d), "removed") /\ DraftEnds(d, s)
<1> DEFINE files == Saved(d)
           q == KeysOf(d, Files)
<1>1. s \in DraftStates /\ DraftsFit
  BY DEF DraftStates, RowsFit
<1>2. DraftEnds(d, s)
  BY <1>1, EndingDraft DEF Close
<1>3. intent' = Queued(q)
  BY DEF Close
<1>4. files \in SUBSET Files /\ files \in SUBSET Saved(d)
  BY DEF Saved
<1>5. GivesUp(d, files, "removed")
  <2>1. staged' = [staged EXCEPT ![d] = [f \in Files |->
                    IF f \in files THEN [staged[d][f] EXCEPT !.state = "removed"]
                    ELSE staged[d][f]]]
    BY DEF Close
  <2>2. "removed" \in {"removed", "consumed"}
    OBVIOUS
  <2> HIDE DEF files
  <2> QED BY <1>4, <2>1, <2>2, GivingUp
<1>6. /\ \A f \in files : staged[d][f].key \in q \cup {NoKey}
      /\ \A k \in q : \E f \in Files :
            staged[d][f].key = k /\ (f \in files \/ staged[d][f].state # "saved")
  BY DEF KeysOf, Saved
<1>7. files = Saved(d) /\ (DraftEnds(d, "discarded") \/ DraftEnds(d, "expired"))
  BY <1>2
<1> HIDE DEF files, q
<1>8. UploadsTypeOK' /\ RowsFit' /\ \A k \in Keys : KeyAdvance(k)
  BY <1>3, <1>4, <1>5, <1>6, <1>7, GivingUpAdvances
<1> QED BY <1>2, <1>5, <1>8 DEF files

LEMMA NewlyRetiredFacts ==
    ASSUME UploadsTypeOK, GroupsFit, NEW groups, NEW keys, Grows(groups, keys)
    PROVE  /\ \A g \in Groups : \A n \in 1..Latest(g) :
                ~group[g].versions[n].retired /\ groups[g].versions[n].retired
                => groups[g].versions[n].key \in NewlyRetired(groups)
           /\ \A k \in NewlyRetired(groups) :
                \E g \in Groups : \E n \in 1..Len(groups[g].versions) :
                    groups[g].versions[n].key = k /\ groups[g].versions[n].retired
<1>1. \A g \in Groups : /\ Latest(g) \in Nat /\ Latest(g) <= MaxVersions
                        /\ Len(groups[g].versions) \in Latest(g)..MaxVersions
  BY GroupFields, GrowthFits DEF GroupsFit
<1>2. ASSUME NEW g \in Groups, NEW n \in 1..Latest(g), ~group[g].versions[n].retired,
             groups[g].versions[n].retired
      PROVE  groups[g].versions[n].key \in NewlyRetired(groups)
  <2> DEFINE p == <<g, n>>
  <2>1. p \in Groups \X (1..MaxVersions) /\ p[1] = g /\ p[2] = n
    BY <1>1
  <2>2. n <= Len(groups[g].versions)
    BY <1>1
  <2> HIDE DEF p
  <2> QED BY <1>2, <2>1, <2>2 DEF NewlyRetired
<1>3. ASSUME NEW k \in NewlyRetired(groups)
      PROVE  \E g \in Groups : \E n \in 1..Len(groups[g].versions) :
                groups[g].versions[n].key = k /\ groups[g].versions[n].retired
  <2>1. PICK p \in Groups \X (1..MaxVersions) :
            /\ k = groups[p[1]].versions[p[2]].key
            /\ p[2] <= Len(groups[p[1]].versions) /\ groups[p[1]].versions[p[2]].retired
    BY DEF NewlyRetired
  <2>2. p[1] \in Groups /\ p[2] \in 1..MaxVersions
    OBVIOUS
  <2>3. p[2] \in 1..Len(groups[p[1]].versions)
    BY <1>1, <2>1, <2>2
  <2> QED BY <2>1, <2>2, <2>3
<1> QED BY <1>2, <1>3

LEMMA DiscardGroupAdvances ==
    ASSUME UploadsTypeOK, RowsFit, NEW g \in Groups, DiscardGroup(g)
    PROVE  /\ UploadsTypeOK' /\ RowsFit' /\ \A k \in Keys : KeyAdvance(k)
           /\ \A e \in Drafts :
                IF draft[e].group = g /\ draft[e].state = "open"
                THEN draft'[e].state = "discarded"
                ELSE draft'[e] = draft[e] /\ staged'[e] = staged[e]
           /\ Grows(group', {}) /\ group'[g].state = "discarded"
           /\ \A h \in Groups \ {g} : group'[h] = group[h]
<1> DEFINE bound == {d \in Drafts : draft[d].group = g /\ draft[d].state = "open"}
           old == group[g].versions
           out(n) == [old[n] EXCEPT !.retired = TRUE]
           v == [n \in 1..Latest(g) |-> out(n)]
           new == [group[g] EXCEPT !.state = "discarded", !.versions = v]
           q == NewlyRetired(group') \cup UNION {KeysOf(d, Saved(d)) : d \in bound}
           none == {}
           end == "commit"
<1>0. DraftsFit /\ StagedFit /\ GroupsFit /\ TabsFit
  BY DEF RowsFit
<1>1. /\ old \in Seq(Version) /\ Latest(g) \in Nat /\ Len(old) = Latest(g)
      /\ \A n \in 1..Latest(g) : old[n] \in Version
  BY GroupFields DEF Latest
<1>2. \A n \in 1..Latest(g) : out(n) \in Version /\ out(n).key = old[n].key /\ out(n).retired
  BY <1>1 DEF Version
<1>3. v \in Seq(Version) /\ Len(v) = Latest(g) /\ \A n \in 1..Latest(g) : v[n] = out(n)
  <2> HIDE DEF out
  <2>1. v \in [1..Latest(g) -> Version] /\ DOMAIN v = 1..Latest(g)
    BY <1>2
  <2>2. \A n \in 1..Latest(g) : v[n] = out(n)
    OBVIOUS
  <2> HIDE DEF v
  <2> QED BY <1>1, <2>1, <2>2
<1>4. new \in Group /\ new.state = "discarded" /\ new.versions = v
  <2>1. group[g] \in Group
    BY GroupFields
  <2> HIDE DEF v
  <2> QED BY <1>3, <2>1 DEF Group
<1>5. group' = [group EXCEPT ![g] = new]
  BY DEF DiscardGroup, UploadsTypeOK
<1> HIDE DEF new, v, out
<1>6. /\ group' \in [Groups -> Group] /\ group'[g] = new
      /\ \A h \in Groups \ {g} : group'[h] = group[h]
  BY <1>4, <1>5 DEF UploadsTypeOK
<1>7. Grows(group', none)
  <2>1. ASSUME NEW h \in Groups
        PROVE  /\ Len(group'[h].versions) \in Len(group[h].versions)..MaxVersions
               /\ group'[h].state = "none" => group[h].state = "none"
                                              /\ Len(group'[h].versions) = Len(group[h].versions)
               /\ \A n \in 1..Len(group[h].versions) :
                    /\ group'[h].versions[n].key = group[h].versions[n].key
                    /\ group[h].versions[n].retired => group'[h].versions[n].retired
               /\ Len(group'[h].versions) = Len(group[h].versions)
    <3>1. Len(group[h].versions) \in Nat /\ Len(group[h].versions) <= MaxVersions
      BY <1>0, GroupFields DEF Latest, GroupsFit
    <3>2. CASE h # g
      BY <1>6, <3>1, <3>2
    <3>3. CASE h = g
      <4>1. Len(group'[g].versions) = Len(old) /\ group'[g].state = "discarded"
        BY <1>1, <1>3, <1>4, <1>6
      <4>2. \A n \in 1..Len(old) : /\ group'[g].versions[n].key = old[n].key
                                  /\ group'[g].versions[n].retired
        BY <1>1, <1>2, <1>3, <1>4, <1>6
      <4> QED BY <3>1, <3>3, <4>1, <4>2
    <3> QED BY <3>2, <3>3
  <2>2. \A h \in Groups : Len(group[h].versions) \in Nat
    BY GroupFields DEF Latest
  <2> QED BY <1>6, <2>1, <2>2 DEF Grows
<1>8. \A e \in Drafts : staged[e] \in [Files -> Staged] /\ draft[e] \in Draft
  BY DEF UploadsTypeOK
<1>9. /\ staged' \in [Drafts -> [Files -> Staged]]
      /\ \A e \in Drafts, f \in Files :
            /\ staged'[e][f].key = staged[e][f].key
            /\ staged'[e][f].state = IF e \in bound /\ f \in Saved(e) THEN "removed"
                                     ELSE staged[e][f].state
      /\ \A e \in Drafts \ bound : staged'[e] = staged[e]
  <2> DEFINE row(e, f) == [staged[e][f] EXCEPT !.state = "removed"]
  <2>1. staged' = [e \in Drafts |-> [f \in Files |-> IF e \in bound /\ f \in Saved(e) THEN row(e, f)
                                                    ELSE staged[e][f]]]
    BY DEF DiscardGroup
  <2>2. \A e \in Drafts, f \in Files : /\ row(e, f) \in Staged /\ row(e, f).key = staged[e][f].key
                                       /\ row(e, f).state = "removed"
    <3> TAKE e \in Drafts, f \in Files
    <3> DEFINE was == staged[e][f]
    <3>1. was \in Staged
      BY StagedFields
    <3> HIDE DEF was
    <3>2. /\ [was EXCEPT !.state = "removed"] \in Staged
          /\ [was EXCEPT !.state = "removed"].key = was.key
          /\ [was EXCEPT !.state = "removed"].state = "removed"
      BY <3>1 DEF Staged
    <3> QED BY <3>2 DEF was
  <2> HIDE DEF row, bound
  <2>3. \A e \in Drafts, f \in Files :
            staged'[e][f] = IF e \in bound /\ f \in Saved(e) THEN row(e, f) ELSE staged[e][f]
    BY <2>1
  <2>4. staged' \in [Drafts -> [Files -> Staged]]
    BY <1>8, <2>1, <2>2
  <2>5. \A e \in Drafts \ bound : staged'[e] = staged[e]
    BY <1>8, <2>1
  <2> QED BY <2>2, <2>3, <2>4, <2>5
<1>10. /\ draft' \in [Drafts -> Draft]
       /\ \A e \in bound : draft'[e].state = "discarded"
       /\ \A e \in Drafts \ bound : draft'[e] = draft[e]
  <2> DEFINE row(e) == [draft[e] EXCEPT !.state = "discarded", !.revision = @ + 1]
  <2>1. draft' = [e \in Drafts |-> IF e \in bound THEN row(e) ELSE draft[e]]
    BY DEF DiscardGroup
  <2>2. \A e \in bound : row(e) \in Draft /\ row(e).state = "discarded"
    <3> TAKE e \in bound
    <3> DEFINE was == draft[e]
               next == was.revision + 1
    <3>1. was \in Draft /\ next \in Revisions
      <4>1. draft[e].revision <= MaxRevision /\ draft[e].revision \in Nat
        BY <1>0, DraftFields DEF DraftsFit
      <4> QED BY <1>8, <4>1 DEF Revisions
    <3> HIDE DEF was, next
    <3>2. /\ [was EXCEPT !.state = "discarded", !.revision = next] \in Draft
          /\ [was EXCEPT !.state = "discarded", !.revision = next].state = "discarded"
      BY <3>1 DEF Draft, DraftStates, Revisions
    <3> QED BY <3>2 DEF was, next
  <2> HIDE DEF row
  <2> QED BY <1>8, <2>1, <2>2
<1>11. /\ Stored(end, none, staged', group') /\ Committed(end) /\ MayEnd(end) /\ end \in Outcomes
       /\ intent' = Queued(q)
       /\ UNCHANGED <<blobs, kills, lost, editable, drafting, worker, tab>>
  <2>1. UNCHANGED <<blobs, kills, lost, editable, drafting, worker, tab>>
    BY DEF DiscardGroup
  <2>2. intent' = Queued(q)
    BY DEF DiscardGroup
  <2> QED BY <1>0, <2>1, <2>2, NothingGrows DEF Committed, MayEnd, Outcomes
<1>12. Changes(end, group', none, q)
  <2>1. ASSUME NEW e \in Drafts, NEW f \in Files
        PROVE  /\ staged'[e][f].key = staged[e][f].key
               /\ \/ staged'[e][f].state = staged[e][f].state
                  \/ /\ Committed(end) /\ staged[e][f].state = "saved"
                     /\ staged'[e][f].state \in {"removed", "consumed"}
                     /\ staged[e][f].key \in q \cup {NoKey}
    BY <1>9, <1>11 DEF Saved, KeysOf
  <2>2. ASSUME NEW k \in q
        PROVE  \/ \E e \in Drafts, f \in Files :
                    staged'[e][f].key = k /\ staged'[e][f].state # "saved"
               \/ \E h \in Groups : \E n \in 1..Len(group'[h].versions) :
                    group'[h].versions[n].key = k /\ group'[h].versions[n].retired
    <3>1. CASE k \in NewlyRetired(group')
      BY <1>0, <1>7, <3>1, NewlyRetiredFacts
    <3>2. ASSUME NEW e \in bound, k \in KeysOf(e, Saved(e))
          PROVE  \E f \in Files : staged'[e][f].key = k /\ staged'[e][f].state # "saved"
      BY <1>9, <3>2 DEF KeysOf, Saved
    <3> QED BY <3>1, <3>2
  <2>3. \A h \in Groups : \A n \in 1..Latest(h) :
          ~group[h].versions[n].retired /\ group'[h].versions[n].retired
          => group'[h].versions[n].key \in q
    BY <1>0, <1>7, NewlyRetiredFacts
  <2> HIDE DEF none, end, q, bound
  <2> QED BY <1>7, <1>11, <2>1, <2>2, <2>3 DEF Changes
<1>13. ChangeFits
  <2>1. DraftsFit'
    BY <1>0, <1>10 DEF DraftsFit
  <2>2. ASSUME NEW e \in Drafts, NEW f \in Files
        PROVE  /\ staged'[e][f].state = "saved" => draft'[e].state = "open"
               /\ staged'[e][f].state = "consumed" => draft'[e].state = "consumed"
    <3>1. CASE e \in bound
      BY <1>0, <1>9, <1>10, <3>1 DEF StagedFit, Saved
    <3>2. CASE e \notin bound
      BY <1>0, <1>9, <1>10, <3>2 DEF StagedFit
    <3> QED BY <3>1, <3>2
  <2> QED BY <1>0, <1>9, <1>10, <1>11, <2>1, <2>2 DEF ChangeFits, UploadsTypeOK, TabsFit
<1>14. UploadsTypeOK' /\ RowsFit' /\ \A k \in Keys : KeyAdvance(k)
  <2> HIDE DEF none, end, q, bound
  <2> QED BY <1>12, <1>13, ChangeAdvances
<1>15. group'[g].state = "discarded"
  BY <1>4, <1>6
<1> QED BY <1>6, <1>7, <1>9, <1>10, <1>14, <1>15

LEMMA OthersUploadAdvances ==
    ASSUME UploadsTypeOK, RowsFit, NEW g \in Groups, OthersUpload(g)
    PROVE  UploadsTypeOK' /\ RowsFit' /\ \A k \in Keys : KeyAdvance(k)
<1> DEFINE n == Latest(g) + 1
           groups == IF group[g].state = "none" THEN Attached({g}) ELSE Versioned(g)
           keys == {KeyOf(<<g, n>>)}
           q == NewlyRetired(groups)
<1>0. DraftsFit /\ StagedFit /\ GroupsFit /\ TabsFit
  BY DEF RowsFit
<1>1. PICK o \in Outcomes :
        /\ MayEnd(o) /\ group' = IF Committed(o) THEN groups ELSE group
        /\ intent' = IF Committed(o) THEN Queued(q) ELSE intent
        /\ Stored(o, keys, staged, IF Committed(o) THEN groups ELSE group)
  BY DEF OthersUpload
<1>2. /\ n <= MaxVersions /\ group[g].state # "discarded"
      /\ UNCHANGED <<draft, staged, editable, drafting, worker, tab>>
  BY DEF OthersUpload
<1>3. Grows(groups, keys)
  <2>1. CASE group[g].state = "none"
    <3> DEFINE one == {g}
               first == {KeyOf(<<h, 1>>) : h \in one}
    <3>1. one \in SUBSET FreeGroups
      BY <2>1 DEF FreeGroups
    <3>2. Grows(Attached(one), first)
      <4> HIDE DEF one
      <4> QED BY <1>0, <3>1, AttachedGrows
    <3>3. n = 1
      BY <1>0, <2>1 DEF GroupsFit
    <3>4. first = keys
      BY <3>3
    <3> QED BY <2>1, <3>2, <3>4
  <2>2. CASE group[g].state # "none"
    <3>1. Latest(g) < MaxVersions
      BY <1>2, GroupFields
    <3> QED BY <1>0, <2>2, <3>1, VersionedGrows
  <2> QED BY <2>1, <2>2
<1> HIDE DEF groups, keys, q
<1>4. Changes(o, groups, keys, q)
  <2>1. q = NewlyRetired(groups)
    BY DEF q
  <2>2. Stored(o, keys, staged', group')
    BY <1>1, <1>2
  <2>3. \A h \in Groups : \A m \in 1..Latest(h) :
          ~group[h].versions[m].retired /\ groups[h].versions[m].retired
          => groups[h].versions[m].key \in q
    BY <1>0, <1>3, <2>1, NewlyRetiredFacts
  <2>4. \A k \in q \cap Keys : \E h \in Groups : \E m \in 1..Len(groups[h].versions) :
          groups[h].versions[m].key = k /\ groups[h].versions[m].retired
    BY <1>0, <1>3, <2>1, NewlyRetiredFacts
  <2> QED BY <1>1, <1>2, <1>3, <2>2, <2>3, <2>4 DEF Changes
<1>5. ChangeFits
  BY <1>0, <1>2 DEF ChangeFits, UploadsTypeOK, DraftsFit, TabsFit, StagedFit
<1> QED BY <1>4, <1>5, ChangeAdvances

LEMMA EffectsGrow ==
    ASSUME UploadsTypeOK, RowsFit, NEW t \in Tabs, tab[t].draft \in Drafts, Usable(tab[t].draft),
           NEW e \in Effects(t)
    PROVE  Grows(e.groups, e.keys)
<1> DEFINE d == tab[t].draft
           g == draft[d].group
<1>0. GroupsFit
  BY DEF RowsFit
<1>1. CASE g = NoGroup
  <2>1. PICK new \in SUBSET FreeGroups :
            e = [groups |-> Attached(new), keys |-> {KeyOf(<<h, 1>>) : h \in new}]
    BY <1>1 DEF Effects
  <2>2. e.groups = Attached(new) /\ e.keys = {KeyOf(<<h, 1>>) : h \in new}
    BY <2>1
  <2> QED BY <1>0, <2>2, AttachedGrows
<1>2. CASE g # NoGroup
  <2>1. /\ Latest(g) < MaxVersions
        /\ e \in {[groups |-> Versioned(g), keys |-> {KeyOf(<<g, Latest(g) + 1>>)}]}
    BY <1>2 DEF Effects
  <2>2. e.groups = Versioned(g) /\ e.keys = {KeyOf(<<g, Latest(g) + 1>>)}
    BY <2>1
  <2>3. g \in Groups /\ group[g].state # "none"
    BY <1>2, DraftFields DEF Usable, InContext, Live
  <2> QED BY <1>0, <2>1, <2>2, <2>3, VersionedGrows
<1> QED BY <1>1, <1>2

\* A submission commits as a whole or not at all.
LEMMA SubmitAdvances ==
    ASSUME UploadsTypeOK, RowsFit, NEW t \in Tabs, Submit(t)
    PROVE  /\ UploadsTypeOK' /\ RowsFit' /\ \A k \in Keys : KeyAdvance(k)
           /\ LET d == tab[t].draft IN
              /\ d \in Drafts /\ draft[d].state = "open" /\ AtRevision(t)
              /\ \E o \in Outcomes :
                    /\ Answer(t, o = "commit")
                    /\ IF Committed(o)
                       THEN /\ GivesUp(d, Saved(d), "consumed") /\ DraftEnds(d, "consumed")
                            /\ draft'[d].receipt = ReceiptOf(t)
                            /\ \E e \in Effects(t) : group' = e.groups /\ Grows(e.groups, e.keys)
                       ELSE UNCHANGED <<draft, staged, group>>
<1> DEFINE d == tab[t].draft
           files == Saved(d)
           used == {staged[d][f].key : f \in files}
           rows == [staged EXCEPT ![d] = [f \in Files |->
                      IF f \in files THEN [staged[d][f] EXCEPT !.state = "consumed"]
                      ELSE staged[d][f]]]
           ended == [draft EXCEPT ![d].state = "consumed", ![d].revision = @ + 1,
                                  ![d].receipt = ReceiptOf(t)]
<1>0. DraftsFit /\ StagedFit /\ GroupsFit /\ TabsFit
  BY DEF RowsFit
<1>1. /\ tab[t].at = "finish" /\ Usable(d) /\ AtRevision(t) /\ used \subseteq blobs
      /\ UNCHANGED <<editable, drafting, worker>>
  BY DEF Submit
<1>2. d \in Drafts /\ draft[d].state = "open"
  BY <1>0, <1>1, TabFields DEF Usable
<1>3. PICK o \in Outcomes, e \in Effects(t) :
        /\ MayEnd(o)
        /\ staged' = IF Committed(o) THEN rows ELSE staged
        /\ group' = IF Committed(o) THEN e.groups ELSE group
        /\ intent' = IF Committed(o) THEN Queued(used \cup NewlyRetired(e.groups)) ELSE intent
        /\ draft' = IF Committed(o) THEN ended ELSE draft
        /\ Stored(o, e.keys, staged', group')
        /\ Answer(t, o = "commit")
  BY DEF Submit, Answer
<1> DEFINE groups == e.groups
           keys == e.keys
           q == used \cup NewlyRetired(groups)
           told == (o = "commit")
<1>4. Grows(groups, keys)
  BY <1>1, <1>2, EffectsGrow
<1>5. Committed(o) => GivesUp(d, files, "consumed")
  <2> SUFFICES ASSUME Committed(o) PROVE GivesUp(d, files, "consumed")
    OBVIOUS
  <2>1. staged' = rows
    BY <1>3
  <2>2. files \in SUBSET Files /\ "consumed" \in {"removed", "consumed"}
    BY DEF Saved
  <2> HIDE DEF files
  <2> QED BY <1>2, <2>1, <2>2, GivingUp
<1>6. Committed(o) => DraftEnds(d, "consumed")
  <2> SUFFICES ASSUME Committed(o) PROVE DraftEnds(d, "consumed")
    OBVIOUS
  <2>1. draft' = ended
    BY <1>3
  <2>2. ReceiptOf(t) \in Receipt
    BY <1>0, TabFields DEF ReceiptOf, Receipt
  <2>3. \E r \in Receipt : draft' = [draft EXCEPT ![d].state = "consumed", ![d].revision = @ + 1,
                                                 ![d].receipt = r]
    BY <2>1, <2>2
  <2>4. "consumed" \in DraftStates
    BY DEF DraftStates
  <2> QED BY <1>0, <1>2, <2>3, <2>4, EndingDraft
<1>7. Committed(o) => draft'[d].receipt = ReceiptOf(t)
  <2>1. draft \in [Drafts -> Draft] /\ draft[d] \in Draft
    BY <1>2 DEF UploadsTypeOK
  <2>2. ended[d].receipt = ReceiptOf(t)
    BY <1>2, <2>1 DEF Draft
  <2> HIDE DEF ended
  <2> QED BY <1>3, <2>2
<1>8. ~Committed(o) => draft' = draft /\ staged' = staged /\ group' = group
  BY <1>3
<1>9. told \in BOOLEAN /\ Answer(t, told)
  BY <1>3
<1>10. Committed(o) => intent' = Queued(q) /\ group' = groups
  BY <1>3
<1>11. ~Committed(o) => intent' = intent
  BY <1>3
<1>12. MayEnd(o) /\ Stored(o, keys, staged', group')
  BY <1>3
<1> HIDE DEF files, rows, ended, told, groups, keys
<1>13. Changes(o, groups, keys, q)
  <2>1. ASSUME NEW h \in Drafts, NEW f \in Files
        PROVE  /\ staged'[h][f].key = staged[h][f].key
               /\ \/ staged'[h][f].state = staged[h][f].state
                  \/ /\ Committed(o) /\ staged[h][f].state = "saved"
                     /\ staged'[h][f].state \in {"removed", "consumed"}
                     /\ staged[h][f].key \in q \cup {NoKey}
    BY <1>5, <1>8 DEF GivesUp, files, Saved
  <2>2. \A h \in Groups : \A m \in 1..Latest(h) :
          ~group[h].versions[m].retired /\ groups[h].versions[m].retired
          => groups[h].versions[m].key \in q
    BY <1>0, <1>4, NewlyRetiredFacts
  <2>3. ASSUME Committed(o), NEW k \in q
        PROVE  \/ \E h \in Drafts, f \in Files :
                    staged'[h][f].key = k /\ staged'[h][f].state # "saved"
               \/ \E h \in Groups : \E m \in 1..Len(groups[h].versions) :
                    groups[h].versions[m].key = k /\ groups[h].versions[m].retired
    <3>1. CASE k \in NewlyRetired(groups)
      BY <1>0, <1>4, <3>1, NewlyRetiredFacts
    <3>2. CASE k \in used
      BY <1>2, <1>5, <2>3, <3>2 DEF GivesUp, files, Saved
    <3> QED BY <3>1, <3>2
  <2>4. worker' = worker
    BY <1>1
  <2> HIDE DEF q, d
  <2> QED BY <1>4, <1>8, <1>10, <1>11, <1>12, <2>1, <2>2, <2>3, <2>4 DEF Changes
<1>14. ChangeFits
  <2>1. TabsFit' /\ tab' \in [Tabs -> Tab]
    BY <1>0, <1>9, AnswerPage, PageFits
  <2>2. /\ draft' \in [Drafts -> Draft] /\ staged' \in [Drafts -> [Files -> Staged]] /\ DraftsFit'
    BY <1>0, <1>5, <1>6, <1>8 DEF GivesUp, DraftEnds, DraftsFit, UploadsTypeOK
  <2>3. ASSUME NEW h \in Drafts, NEW f \in Files
        PROVE  /\ staged'[h][f].state = "saved" => draft'[h].state = "open"
               /\ staged'[h][f].state = "consumed" => draft'[h].state = "consumed"
    <3>1. CASE ~Committed(o)
      BY <1>0, <1>8, <3>1 DEF StagedFit
    <3>2. CASE Committed(o)
      BY <1>0, <1>2, <1>5, <1>6, <3>2 DEF StagedFit, GivesUp, DraftEnds, files, Saved
    <3> QED BY <3>1, <3>2
  <2> QED BY <1>1, <2>1, <2>2, <2>3 DEF ChangeFits
<1>15. UploadsTypeOK' /\ RowsFit' /\ \A k \in Keys : KeyAdvance(k)
  <2> HIDE DEF q, d
  <2> QED BY <1>13, <1>14, ChangeAdvances
<1>16. IF Committed(o)
       THEN /\ GivesUp(d, Saved(d), "consumed") /\ DraftEnds(d, "consumed")
            /\ draft'[d].receipt = ReceiptOf(t)
            /\ \E x \in Effects(t) : group' = x.groups /\ Grows(x.groups, x.keys)
       ELSE UNCHANGED <<draft, staged, group>>
  BY <1>4, <1>5, <1>6, <1>7, <1>8, <1>10 DEF files, groups, keys
<1> QED BY <1>1, <1>2, <1>3, <1>15, <1>16

(* ----------------------------- maintenance ----------------------------- *)

\* A worker takes objects from the store that nobody needs, and clears their rows.
Clears ==
    /\ UNCHANGED <<kills, lost, draft, group, editable, drafting, tab>>
    /\ staged' \in [Drafts -> [Files -> Staged]]
    /\ intent' \in [Keys -> Intent] /\ worker' \in [Cleaners -> Worker] /\ WorkersFit'
    /\ \A e \in Drafts, f \in Files :
          /\ staged'[e][f].state = staged[e][f].state
          /\ staged'[e][f].key = staged[e][f].key
             \/ (staged'[e][f].key = NoKey /\ ~Referenced(staged[e][f].key))
    /\ blobs' \subseteq blobs
    /\ \A k \in Keys :
          /\ k \in blobs /\ Referenced(k) => k \in blobs'
          /\ intent'[k].state = "none" <=> intent[k].state = "none"
          /\ intent'[k].state = "complete" => intent[k].state = "complete" \/ k \notin blobs'

LEMMA ClearsAdvances ==
    ASSUME UploadsTypeOK, RowsFit, Clears
    PROVE  UploadsTypeOK' /\ RowsFit' /\ \A k \in Keys : KeyAdvance(k)
<1>0. DraftsFit /\ StagedFit /\ GroupsFit /\ TabsFit
  BY DEF RowsFit
<1>1. UploadsTypeOK'
  BY DEF Clears, UploadsTypeOK
<1>2. StagedFit'
  <2> SUFFICES ASSUME NEW e \in Drafts, NEW f \in Files
               PROVE  /\ staged'[e][f].key # NoKey => staged'[e][f].key.row = <<e, f>>
                      /\ staged'[e][f].state = "none" => staged'[e][f].key = NoKey
                      /\ staged'[e][f].state = "saved" => draft'[e].state = "open"
                      /\ staged'[e][f].state = "consumed" => draft'[e].state = "consumed"
    BY DEF StagedFit
  <2>1. /\ staged'[e][f].state = staged[e][f].state /\ draft' = draft
        /\ staged'[e][f].key = staged[e][f].key \/ staged'[e][f].key = NoKey
    BY DEF Clears
  <2> QED BY <1>0, <2>1 DEF StagedFit
<1>3. DraftsFit' /\ GroupsFit' /\ TabsFit' /\ WorkersFit'
  BY <1>0 DEF Clears, DraftsFit, GroupsFit, TabsFit, Latest
<1>4. RowsFit'
  BY <1>2, <1>3 DEF RowsFit
<1>5. ASSUME NEW k \in Keys PROVE KeyAdvance(k)
  <2>1. (Used(k)' <=> Used(k)) /\ (Referenced(k)' <=> Referenced(k))
    <3>1. CASE \E e \in Drafts, f \in Files : k.row = <<e, f>>
      <4>1. PICK e \in Drafts, f \in Files : k.row = <<e, f>>
        BY <3>1
      <4>2. /\ staged'[e][f].state = staged[e][f].state
            /\ staged'[e][f].key = staged[e][f].key
               \/ (staged'[e][f].key = NoKey /\ ~Referenced(staged[e][f].key))
        BY DEF Clears
      <4>3. k # NoKey
        BY KeyFacts
      <4> QED BY <1>0, <1>1, <1>2, <1>3, <4>1, <4>2, <4>3, StagedKey, StagedKeyNext
    <3>2. CASE \E g \in Groups, n \in 1..MaxVersions : k.row = <<g, n>>
      <4>1. group' = group
        BY DEF Clears
      <4> QED BY <1>0, <1>1, <1>2, <1>3, <3>2, <4>1, VersionKey, VersionKeyNext DEF Latest
    <3> QED BY <3>1, <3>2, RowsOfKeys
  <2>2. /\ lost' = lost /\ blobs' \subseteq blobs
        /\ k \in blobs /\ Referenced(k) => k \in blobs'
        /\ intent'[k].state = "none" <=> intent[k].state = "none"
        /\ intent'[k].state = "complete" => intent[k].state = "complete" \/ k \notin blobs'
    BY DEF Clears
  <2> QED BY <2>1, <2>2 DEF KeyAdvance
<1> QED BY <1>1, <1>4, <1>5

LEMMA SetIntentFacts ==
    ASSUME UploadsTypeOK, NEW k \in Keys, NEW state \in IntentStates,
           NEW by \in Cleaners \cup {NoWorker}, SetIntent(k, state, by)
    PROVE  /\ intent' \in [Keys -> Intent] /\ intent'[k].state = state /\ intent'[k].by = by
           /\ \A j \in Keys : j # k => intent'[j] = intent[j]
<1>1. intent \in [Keys -> Intent]
  BY DEF UploadsTypeOK
<1> DEFINE new == [state |-> state, by |-> by]
<1>2. new \in Intent /\ new.state = state /\ new.by = by
  BY DEF Intent
<1>3. intent' = [intent EXCEPT ![k] = new]
  BY DEF SetIntent
<1> HIDE DEF new
<1> QED BY <1>1, <1>2, <1>3

LEMMA WorkerFields ==
    ASSUME UploadsTypeOK, NEW w \in Cleaners
    PROVE  /\ worker[w] \in Worker /\ worker[w].key \in Keys \cup {NoKey}
           /\ worker[w].failed \in BOOLEAN /\ Unoccupied \in Worker
           /\ Unoccupied.key = NoKey /\ ~Unoccupied.failed
           /\ w # NoWorker
<1>1. worker[w] \in Worker
  BY DEF UploadsTypeOK
<1> QED BY <1>1 DEF Worker, Unoccupied

LEMMA WorkerClears ==
    ASSUME UploadsTypeOK, RowsFit, NEW w \in Cleaners, WorkerStep(w)
    PROVE  Clears
<1> DEFINE k == worker[w].key
           Rest == UNCHANGED <<kills, lost, draft, group, editable, drafting, tab>>
           Idle == worker' = [worker EXCEPT ![w] = Unoccupied]
<1>0. /\ worker \in [Cleaners -> Worker] /\ intent \in [Keys -> Intent] /\ blobs \subseteq Keys
      /\ staged \in [Drafts -> [Files -> Staged]] /\ WorkersFit
  BY DEF UploadsTypeOK, RowsFit
<1>1. Idle => /\ worker' \in [Cleaners -> Worker]
              /\ \A u \in Cleaners : worker'[u].failed => worker'[u].key # NoKey
  <2> SUFFICES ASSUME Idle PROVE /\ worker' \in [Cleaners -> Worker]
                                 /\ \A u \in Cleaners : worker'[u].failed => worker'[u].key # NoKey
    OBVIOUS
  <2> QED BY <1>0, WorkerFields DEF WorkersFit
<1>2. ASSUME NEW j \in Keys, Claim(w, j) PROVE Clears
  <2>1. /\ SetIntent(j, "running", w) /\ intent[j].state \in {"pending", "due", "lapsed"} /\ Rest
        /\ blobs' = blobs /\ staged' = staged
    BY <1>2 DEF Claim
  <2> DEFINE new == [key |-> j, failed |-> FALSE]
  <2>2. new \in Worker /\ ~new.failed
    BY DEF Worker
  <2>3. worker' = [worker EXCEPT ![w] = new]
    BY <1>2 DEF Claim
  <2> HIDE DEF new
  <2>4. /\ worker' \in [Cleaners -> Worker]
        /\ \A u \in Cleaners : worker'[u].failed => worker'[u].key # NoKey
    BY <1>0, <2>2, <2>3 DEF WorkersFit
  <2>5. /\ intent' \in [Keys -> Intent] /\ intent'[j].state = "running" /\ intent'[j].by = w
        /\ \A h \in Keys : h # j => intent'[h] = intent[h]
    BY <2>1, SetIntentFacts DEF IntentStates
  <2> QED BY <1>0, <2>1, <2>4, <2>5 DEF Clears, WorkersFit
<1>3. CASE RemoveObject(w)
  <2>1. /\ Rest /\ Idle /\ blobs' = blobs \ {k} /\ SetIntent(k, "complete", w)
        /\ Working(w) /\ HoldsClaim(w) /\ ~Referenced(k)
    BY <1>3 DEF RemoveObject
  <2>2. k \in Keys /\ intent[k].state \in {"running", "lapsed"}
    BY <2>1, WorkerFields DEF Working, HoldsClaim
  <2>3. /\ intent' \in [Keys -> Intent] /\ intent'[k].state = "complete" /\ intent'[k].by = w
        /\ \A h \in Keys : h # k => intent'[h] = intent[h]
    BY <2>1, <2>2, SetIntentFacts DEF IntentStates
  <2>4. /\ staged' \in [Drafts -> [Files -> Staged]]
        /\ \A e \in Drafts, f \in Files :
              /\ staged'[e][f].state = staged[e][f].state
              /\ staged'[e][f].key = IF staged[e][f].key = k THEN NoKey ELSE staged[e][f].key
    <3> DEFINE row(e, f) == [staged[e][f] EXCEPT !.key = NoKey]
    <3>1. staged' = [e \in Drafts |-> [f \in Files |-> IF staged[e][f].key = k THEN row(e, f)
                                                      ELSE staged[e][f]]]
      BY <1>3 DEF RemoveObject
    <3>2. \A e \in Drafts, f \in Files : /\ row(e, f) \in Staged /\ row(e, f).key = NoKey
                                         /\ row(e, f).state = staged[e][f].state
      <4> TAKE e \in Drafts, f \in Files
      <4> DEFINE was == staged[e][f]
                 blank == NoKey
      <4>1. was \in Staged
        BY StagedFields
      <4> HIDE DEF was, blank
      <4>2. blank = NoKey
        BY DEF blank
      <4>3. /\ [was EXCEPT !.key = blank] \in Staged /\ [was EXCEPT !.key = blank].key = blank
            /\ [was EXCEPT !.key = blank].state = was.state
        BY <4>1, <4>2 DEF Staged
      <4> QED BY <4>3 DEF was, blank
    <3> HIDE DEF row, k
    <3> QED BY <1>0, <3>1, <3>2
  <2> QED BY <1>0, <1>1, <2>1, <2>2, <2>3, <2>4 DEF Clears, WorkersFit
<1>4. CASE LeaveObject(w)
  <2>1. /\ Rest /\ Idle /\ blobs' = blobs /\ staged' = staged /\ Working(w)
        /\ \/ intent' = intent
           \/ HoldsClaim(w) /\ SetIntent(k, "waiting", w)
    BY <1>4 DEF LeaveObject
  <2>2. k \in Keys
    BY <2>1, WorkerFields DEF Working
  <2>3. CASE intent' = intent
    BY <1>0, <1>1, <2>1, <2>3 DEF Clears, WorkersFit
  <2>4. CASE HoldsClaim(w) /\ SetIntent(k, "waiting", w)
    <3>1. /\ intent' \in [Keys -> Intent] /\ intent'[k].state = "waiting" /\ intent'[k].by = w
          /\ \A h \in Keys : h # k => intent'[h] = intent[h]
      BY <2>2, <2>4, SetIntentFacts DEF IntentStates
    <3>2. intent[k].state \in {"running", "lapsed"}
      BY <2>4 DEF HoldsClaim
    <3> QED BY <1>0, <1>1, <2>1, <2>2, <3>1, <3>2 DEF Clears, WorkersFit
  <2> QED BY <2>1, <2>3, <2>4
<1>5. CASE RemoveFails(w)
  <2>1. /\ UNCHANGED <<kills, lost, draft, staged, group, editable, drafting, intent, tab>>
        /\ Working(w) /\ ~Referenced(k) /\ blobs' \in {blobs, blobs \ {k}}
    BY <1>5 DEF RemoveFails
  <2> DEFINE old == worker[w]
             new == [old EXCEPT !.failed = TRUE]
  <2>2. old \in Worker /\ old.key # NoKey
    BY <2>1, WorkerFields DEF Working
  <2>3. worker' = [worker EXCEPT ![w] = new]
    BY <1>5 DEF RemoveFails
  <2>4. new \in Worker /\ new.key # NoKey
    <3> HIDE DEF old
    <3> QED BY <2>2 DEF Worker
  <2> HIDE DEF new
  <2>5. /\ worker' \in [Cleaners -> Worker]
        /\ \A u \in Cleaners : worker'[u].failed => worker'[u].key # NoKey
    BY <1>0, <2>3, <2>4 DEF WorkersFit
  <2> QED BY <1>0, <2>1, <2>5 DEF Clears, WorkersFit
<1>6. CASE Requeue(w)
  <2>1. /\ Rest /\ Idle /\ blobs' = blobs /\ staged' = staged /\ worker[w].failed
        /\ \/ intent' = intent
           \/ intent[k].by = w /\ SetIntent(k, "waiting", w)
    BY <1>6 DEF Requeue
  <2>2. k \in Keys
    BY <1>0, <2>1, WorkerFields DEF WorkersFit
  <2>3. CASE intent' = intent
    BY <1>0, <1>1, <2>1, <2>3 DEF Clears, WorkersFit
  <2>4. CASE intent[k].by = w /\ SetIntent(k, "waiting", w)
    <3>1. /\ intent' \in [Keys -> Intent] /\ intent'[k].state = "waiting" /\ intent'[k].by = w
          /\ \A h \in Keys : h # k => intent'[h] = intent[h]
      BY <2>2, <2>4, SetIntentFacts DEF IntentStates
    <3>2. intent[k].state # "none"
      BY <1>0, <2>2, <2>4, WorkerFields DEF WorkersFit
    <3> QED BY <1>0, <1>1, <2>1, <2>2, <3>1, <3>2 DEF Clears, WorkersFit
  <2> QED BY <2>1, <2>3, <2>4
<1>7. CASE WorkerDies(w)
  <2>1. /\ UNCHANGED <<blobs, kills, lost, draft, staged, group, editable, drafting, intent, tab>>
        /\ Idle
    BY <1>7 DEF WorkerDies
  <2> QED BY <1>0, <1>1, <2>1 DEF Clears, WorkersFit
<1> QED BY <1>2, <1>3, <1>4, <1>5, <1>6, <1>7 DEF WorkerStep

LEMMA TimeClears ==
    ASSUME UploadsTypeOK, RowsFit, NEW k \in Keys, TimePasses(k)
    PROVE  Clears
<1>0. intent[k] \in Intent /\ WorkersFit
  BY DEF UploadsTypeOK, RowsFit
<1>1. PICK state \in {"lapsed", "due"} : /\ SetIntent(k, state, intent[k].by)
                                         /\ intent[k].state \in {"running", "waiting"}
  BY DEF TimePasses
<1>2. UNCHANGED <<blobs, kills, lost, draft, staged, group, editable, drafting, worker, tab>>
  BY DEF TimePasses
<1>3. intent[k].by \in Cleaners \cup {NoWorker} /\ state \in IntentStates
  BY <1>0 DEF Intent, IntentStates
<1>4. /\ intent' \in [Keys -> Intent] /\ intent'[k].state = state
      /\ \A h \in Keys : h # k => intent'[h] = intent[h]
  BY <1>1, <1>3, SetIntentFacts
<1> QED BY <1>0, <1>1, <1>2, <1>4 DEF Clears, WorkersFit, UploadsTypeOK

LEMMA StagingStep ==
    ASSUME UploadsTypeOK, RowsFit, NEW t \in Tabs,
           Stage(t) \/ \E files \in SUBSET Files : SendFiles(t, files)
    PROVE  /\ UploadsTypeOK' /\ RowsFit' /\ \A k \in Keys : KeyAdvance(k)
           /\ tab[t].draft \in Drafts /\ draft[tab[t].draft].state = "open"
           /\ \E taken \in SUBSET Files, o \in Outcomes :
                 /\ Staging(tab[t].draft, taken, o)
                 /\ taken # {} => draft[tab[t].draft].revision
                                  = IF tab[t].at = "stage" THEN tab[t].expected ELSE tab[t].revision
                 /\ Stage(t) => taken \subseteq tab[t].posting
                 /\ Goto(t, IF o = "commit" /\ tab[t].at = "stage" THEN "refresh" ELSE "page")
<1>0. TabsFit /\ tab[t].draft \in Drafts
  <2>1. tab[t].draft # NoDraft
    BY DEF Stage, SendFiles, RowsFit, TabsFit
  <2> QED BY <2>1, TabFields DEF RowsFit
<1>1. \E files \in SUBSET Files, expected \in Revisions \cup {NoRevision}, next \in Steps :
        /\ StageFiles(t, files, expected, next)
        /\ Stage(t) => files = tab[t].posting
        /\ expected = IF tab[t].at = "stage" THEN tab[t].expected ELSE tab[t].revision
        /\ next = IF tab[t].at = "stage" THEN "refresh" ELSE "page"
  <2>1. CASE Stage(t)
    BY <1>0, <2>1, TabFields DEF Stage, Steps
  <2>2. ASSUME NEW files \in SUBSET Files, SendFiles(t, files)
        PROVE  /\ StageFiles(t, files, tab[t].revision, "page") /\ tab[t].at = "page"
               /\ ~Stage(t)
    BY <2>2 DEF SendFiles, Stage
  <2>3. tab[t].revision \in Revisions \cup {NoRevision} /\ "page" \in Steps
    BY <1>0, TabFields DEF Steps
  <2> QED BY <2>1, <2>2, <2>3
<1>2. PICK files \in SUBSET Files, expected \in Revisions \cup {NoRevision}, next \in Steps :
        /\ StageFiles(t, files, expected, next)
        /\ Stage(t) => files = tab[t].posting
        /\ expected = IF tab[t].at = "stage" THEN tab[t].expected ELSE tab[t].revision
        /\ next = IF tab[t].at = "stage" THEN "refresh" ELSE "page"
  BY <1>1
<1>3. PICK taken \in SUBSET files, o \in Outcomes :
        /\ Staging(tab[t].draft, taken, o)
        /\ taken # {} => expected = draft[tab[t].draft].revision
        /\ Goto(t, IF o = "commit" THEN next ELSE "page")
        /\ staged' \in [Drafts -> [Files -> Staged]]
  BY <1>0, <1>2, StageFacts
<1>4. tab' \in [Tabs -> Tab] /\ TabsFit'
  <2> DEFINE step == IF o = "commit" THEN next ELSE "page"
  <2>1. step \in Steps /\ Goto(t, step)
    BY <1>3 DEF Steps
  <2>2. tab[t].draft # NoDraft
    BY <1>0
  <2> HIDE DEF step
  <2> QED BY <1>0, <2>1, <2>2, GotoType, GotoPage, PageFits
<1>5. UploadsTypeOK' /\ RowsFit' /\ \A k \in Keys : KeyAdvance(k)
  BY <1>0, <1>3, <1>4, StagingAdvances
<1>6. draft[tab[t].draft].state = "open"
  BY <1>3 DEF Staging, Usable
<1>7. Goto(t, IF o = "commit" /\ tab[t].at = "stage" THEN "refresh" ELSE "page")
  BY <1>2, <1>3
<1> QED BY <1>0, <1>2, <1>3, <1>5, <1>6, <1>7

LEMMA UploadsAdvance ==
    ASSUME UploadsTypeOK, RowsFit, UploadsNext
    PROVE  UploadsTypeOK' /\ RowsFit' /\ \A k \in Keys : KeyAdvance(k)
<1>1. ASSUME NEW t \in Tabs, TabStep(t)
      PROVE  UploadsTypeOK' /\ RowsFit' /\ \A k \in Keys : KeyAdvance(k)
  <2>1. CASE \/ \E d \in Drafts : Load(t, d)
             \/ \E files \in SUBSET Files : Post(t, files)
             \/ ShowFiles(t) \/ Refresh(t) \/ Save(t) \/ Refused(t) \/ Explain(t) \/ Replay(t)
             \/ Create(t) \/ SaveValues(t)
    BY <2>1, PageIsCalm, CalmAdvances
  <2>2. CASE Stage(t) \/ \E files \in SUBSET Files : SendFiles(t, files)
    BY <2>2, StagingStep
  <2>3. CASE \E f \in Files : RemoveStaged(t, f)
    BY <2>3, RemoveStagedAdvances
  <2>4. CASE Submit(t)
    BY <2>4, SubmitAdvances
  <2>5. CASE Discard(t)
    <3>1. tab[t].draft \in Drafts /\ draft[tab[t].draft].state = "open"
      BY <2>5, TabFields DEF Discard, RowsFit, Usable
    <3>2. /\ Close(tab[t].draft, "discarded")
          /\ UNCHANGED <<blobs, kills, lost, group, editable, drafting, worker, tab>>
      BY <2>5 DEF Discard
    <3> QED BY <3>1, <3>2, CloseAdvances
  <2> QED BY <1>1, <2>1, <2>2, <2>3, <2>4, <2>5 DEF TabStep
<1>2. ASSUME NEW g \in Groups, DiscardGroup(g) \/ OthersUpload(g)
      PROVE  UploadsTypeOK' /\ RowsFit' /\ \A k \in Keys : KeyAdvance(k)
  BY <1>2, DiscardGroupAdvances, OthersUploadAdvances
<1>3. CASE Move \/ \E d \in Drafts : Lapse(d)
  BY <1>3, OutsideIsCalm, CalmAdvances
<1>4. ASSUME NEW d \in Drafts, Expire(d)
      PROVE  UploadsTypeOK' /\ RowsFit' /\ \A k \in Keys : KeyAdvance(k)
  <2>1. /\ draft[d].state = "open" /\ Close(d, "expired")
        /\ UNCHANGED <<blobs, kills, lost, group, editable, drafting, worker, tab>>
    BY <1>4 DEF Expire
  <2> QED BY <2>1, CloseAdvances
<1>5. CASE (\E w \in Cleaners : WorkerStep(w)) \/ (\E k \in Keys : TimePasses(k))
  BY <1>5, WorkerClears, TimeClears, ClearsAdvances
<1> QED BY <1>1, <1>2, <1>3, <1>4, <1>5 DEF UploadsNext

LEMMA UploadsStutter ==
    ASSUME UploadsTypeOK, RowsFit, UNCHANGED uploadVars
    PROVE  UploadsTypeOK' /\ RowsFit' /\ \A k \in Keys : KeyAdvance(k)
<1>1. Clears
  BY DEF Clears, uploadVars, UploadsTypeOK, RowsFit, WorkersFit
<1> QED BY <1>1, ClearsAdvances

(***************************************************************************)
(* The rows, the store and the requests stay well formed.                  *)
(***************************************************************************)
THEOREM UploadsTyped == UploadsSpec => [](UploadsTypeOK /\ RowsFit)
<1>1. UploadsInit => UploadsTypeOK /\ RowsFit
  BY InitFits
<1>2. UploadsTypeOK /\ RowsFit /\ [UploadsNext]_uploadVars => (UploadsTypeOK /\ RowsFit)'
  BY UploadsAdvance, UploadsStutter
<1> QED BY <1>1, <1>2, PTL DEF UploadsSpec

\* The inductive invariant of the store.
UploadsInv == UploadsTypeOK /\ RowsFit /\ StoreInv

LEMMA StoreStarts == UploadsInit => StoreInv
<1> SUFFICES ASSUME UploadsInit PROVE StoreInv
  OBVIOUS
<1>1. UploadsTypeOK /\ RowsFit /\ blobs = {}
  BY InitFits DEF UploadsInit
<1>2. /\ \A d \in Drafts, f \in Files : staged[d][f].state = "none"
      /\ \A g \in Groups : Latest(g) = 0
      /\ \A k \in Keys : intent[k].state = "none"
  BY <1>1 DEF UploadsInit, RowsFit, GroupsFit
<1>3. \A k \in Keys : ~Referenced(k)
  BY <1>2 DEF Referenced
<1> QED BY <1>1, <1>2, <1>3 DEF StoreInv, StoreMatchesRows, NeededFilesExist, NothingLeaks, KeysAreSpent

(***************************************************************************)
(* The store holds what the rows need and nothing else for good: saved     *)
(* files of open drafts and versions that were not retired have their      *)
(* objects, whatever workers, failed writes, killed writers and late       *)
(* callbacks did, and an object that nobody needs has an intent or lost    *)
(* its writer before the commit.                                           *)
(***************************************************************************)
THEOREM StoreStaysMatched == UploadsSpec => []StoreMatchesRows
<1>1. UploadsInit => UploadsInv
  BY InitFits, StoreStarts DEF UploadsInv
<1>2. ASSUME UploadsInv, [UploadsNext]_uploadVars PROVE UploadsInv'
  <2>1. UploadsTypeOK' /\ RowsFit' /\ \A k \in Keys : KeyAdvance(k)
    BY <1>2, UploadsAdvance, UploadsStutter DEF UploadsInv
  <2>2. blobs' \subseteq Keys
    BY <2>1 DEF UploadsTypeOK
  <2>3. StoreInv'
    BY <1>2, <2>1, <2>2, StoreAdvances DEF UploadsInv
  <2> QED BY <2>1, <2>3 DEF UploadsInv
<1>3. UploadsInv => StoreMatchesRows
  BY DEF UploadsInv, StoreInv
<1> QED BY <1>1, <1>2, <1>3, PTL DEF UploadsSpec

(* ------------------------- what a form submits ------------------------- *)

\* What every step does to a draft: its end is final, and as long as it is open its
\* revision counts the changes of its files.
DraftHistory(e) ==
    /\ draft[e].state = "consumed" =>
          draft'[e].state = "consumed" /\ draft'[e].receipt = draft[e].receipt
    /\ draft[e].state # "none" => draft'[e].state # "none"
    /\ draft'[e].state = "open" =>
          /\ draft[e].state \in {"none", "open"}
          /\ draft[e].revision <= draft'[e].revision
          /\ draft'[e].revision = draft[e].revision => Saved(e)' = Saved(e)

LEMMA SameDraftHistory ==
    ASSUME UploadsTypeOK, NEW e \in Drafts, draft'[e].state = draft[e].state,
           draft'[e].receipt = draft[e].receipt, draft[e].revision <= draft'[e].revision,
           \A f \in Files : draft'[e].revision = draft[e].revision
                            => staged'[e][f].state = staged[e][f].state
    PROVE  DraftHistory(e)
<1>1. draft'[e].state = "open" => draft[e].state \in {"none", "open"}
  OBVIOUS
<1>2. draft'[e].revision = draft[e].revision => Saved(e)' = Saved(e)
  BY DEF Saved
<1> QED BY <1>1, <1>2 DEF DraftHistory

LEMMA EndedDraftHistory ==
    ASSUME NEW e \in Drafts, draft[e].state = "open",
           draft'[e].state \in {"consumed", "discarded", "expired"}
    PROVE  DraftHistory(e)
BY DEF DraftHistory

LEMMA TouchedHistory ==
    ASSUME UploadsTypeOK, NEW d \in Drafts,
           \/ draft' = draft
           \/ draft' = Touched(d)
           \/ (draft' = Opened(d) /\ staged' = staged),
           \A e \in Drafts, f \in Files : e # d \/ draft' # Touched(d)
                => staged'[e][f].state = staged[e][f].state
    PROVE  \A e \in Drafts : DraftHistory(e)
<1> TAKE e \in Drafts
<1>1. draft[e].revision \in Nat
  BY DraftFields
<1>2. CASE draft' = Touched(d)
  <2>1. /\ draft'[e].state = draft[e].state /\ draft'[e].receipt = draft[e].receipt
        /\ draft[e].revision <= draft'[e].revision
        /\ e = d => draft'[e].revision # draft[e].revision
    BY <1>1, <1>2, TouchedFacts
  <2> QED BY <2>1, SameDraftHistory
<1>3. CASE draft' = draft /\ draft' # Touched(d)
  BY <1>1, <1>3, SameDraftHistory
<1>4. CASE draft' = Opened(d) /\ staged' = staged
  <2>1. /\ draft'[e].state = IF e = d /\ draft[e].state = "none" THEN "open" ELSE draft[e].state
        /\ draft'[e].revision = draft[e].revision /\ draft'[e].receipt = draft[e].receipt
    BY <1>4, TouchedFacts
  <2>2. Saved(e)' = Saved(e)
    BY <1>4 DEF Saved
  <2> QED BY <1>1, <2>1, <2>2 DEF DraftHistory
<1> QED BY <1>2, <1>3, <1>4

LEMMA EndingHistory ==
    ASSUME UploadsTypeOK, NEW d \in Drafts, draft[d].state = "open",
           NEW s \in {"consumed", "discarded", "expired"}, DraftEnds(d, s),
           NEW files, NEW how, GivesUp(d, files, how)
    PROVE  \A e \in Drafts : DraftHistory(e)
<1> TAKE e \in Drafts
<1>1. draft[e].revision \in Nat
  BY DraftFields
<1>2. CASE e = d
  BY <1>2, EndedDraftHistory DEF DraftEnds
<1>3. CASE e # d
  <2>1. draft'[e] = draft[e] /\ \A f \in Files : staged'[e][f].state = staged[e][f].state
    BY <1>3 DEF DraftEnds, GivesUp
  <2> QED BY <1>1, <2>1, SameDraftHistory
<1> QED BY <1>2, <1>3

LEMMA TabHistory ==
    ASSUME UploadsTypeOK, RowsFit, NEW t \in Tabs, TabStep(t)
    PROVE  \A e \in Drafts : DraftHistory(e)
<1> DEFINE d == tab[t].draft
<1>0. \A e \in Drafts : draft[e].revision \in Nat
  BY DraftFields
<1>1. CASE \/ \E e \in Drafts : Load(t, e)
           \/ ShowFiles(t) \/ Refresh(t) \/ Refused(t) \/ Replay(t)
  <2>1. draft' = draft /\ staged' = staged
    BY <1>1 DEF Load, ShowFiles, Refresh, Refused, Replay
  <2> QED BY <1>0, <2>1, SameDraftHistory
<1>2. CASE \/ \E files \in SUBSET Files : Post(t, files)
           \/ Save(t) \/ Explain(t) \/ Create(t) \/ SaveValues(t)
  <2>1. d \in Drafts
    BY <1>2, TabFields DEF Post, Save, Explain, Create, SaveValues, RowsFit
  <2>2. draft' = draft \/ draft' = Touched(d) \/ draft' = Opened(d)
    <3>1. CASE \E files \in SUBSET Files : Post(t, files)
      BY <2>1, <3>1, PostPage
    <3>2. CASE Save(t) \/ Explain(t) \/ Create(t) \/ SaveValues(t)
      BY <3>2 DEF Save, Explain, Create, SaveValues
    <3> QED BY <1>2, <3>1, <3>2
  <2>3. staged' = staged
    BY <1>2 DEF Post, Save, Explain, Create, SaveValues
  <2> HIDE DEF d
  <2> QED BY <2>1, <2>2, <2>3, TouchedHistory
<1>3. CASE Stage(t) \/ \E files \in SUBSET Files : SendFiles(t, files)
  <2>1. d \in Drafts
    BY <1>3, StagingStep
  <2>2. PICK taken \in SUBSET Files, o \in Outcomes : Staging(d, taken, o)
    BY <1>3, StagingStep
  <2>3. draft' = draft \/ draft' = Touched(d)
    BY <2>2 DEF Staging
  <2>4. ASSUME NEW e \in Drafts, NEW f \in Files, e # d \/ draft' # Touched(d)
        PROVE  staged'[e][f].state = staged[e][f].state
    <3>1. ~(Committed(o) /\ e = d /\ f \in taken)
      BY <2>2, <2>4 DEF Staging
    <3> QED BY <2>2, <3>1 DEF Staging
  <2> HIDE DEF d
  <2> QED BY <2>1, <2>3, <2>4, TouchedHistory
<1>4. ASSUME NEW f \in Files, RemoveStaged(t, f) PROVE \A e \in Drafts : DraftHistory(e)
  <2>1. d \in Drafts /\ GivesUp(d, {f}, "removed") /\ draft' = Touched(d)
    BY <1>4, RemoveStagedAdvances DEF RemoveStaged
  <2>2. \A e \in Drafts, h \in Files : e # d => staged'[e][h].state = staged[e][h].state
    BY <2>1 DEF GivesUp
  <2> HIDE DEF d
  <2> QED BY <2>1, <2>2, TouchedHistory
<1>5. CASE Submit(t)
  <2>1. /\ d \in Drafts /\ draft[d].state = "open"
        /\ \/ GivesUp(d, Saved(d), "consumed") /\ DraftEnds(d, "consumed")
           \/ draft' = draft /\ staged' = staged
    BY <1>5, SubmitAdvances
  <2> HIDE DEF d
  <2> QED BY <1>0, <2>1, EndingHistory, SameDraftHistory
<1>6. CASE Discard(t)
  <2>1. d \in Drafts /\ draft[d].state = "open"
    BY <1>6, TabFields DEF Discard, RowsFit, Usable
  <2>2. GivesUp(d, Saved(d), "removed") /\ DraftEnds(d, "discarded")
    BY <1>6, <2>1, CloseAdvances DEF Discard
  <2> HIDE DEF d
  <2> QED BY <2>1, <2>2, EndingHistory
<1> QED BY <1>1, <1>2, <1>3, <1>4, <1>5, <1>6 DEF TabStep

LEMMA DraftsHaveHistory ==
    ASSUME UploadsTypeOK, RowsFit, [UploadsNext]_uploadVars
    PROVE  \A e \in Drafts : DraftHistory(e)
<1>0. \A e \in Drafts : draft[e].revision \in Nat
  BY DraftFields
<1>1. ASSUME NEW g \in Groups, DiscardGroup(g) PROVE \A e \in Drafts : DraftHistory(e)
  <2> TAKE e \in Drafts
  <2>1. IF draft[e].group = g /\ draft[e].state = "open" THEN draft'[e].state = "discarded"
        ELSE draft'[e] = draft[e] /\ staged'[e] = staged[e]
    BY <1>1, DiscardGroupAdvances
  <2> QED BY <1>0, <2>1, EndedDraftHistory, SameDraftHistory
<1>2. CASE (\E g \in Groups : OthersUpload(g)) \/ Move \/ UNCHANGED uploadVars
  <2>1. draft' = draft /\ staged' = staged
    BY <1>2 DEF OthersUpload, Move, uploadVars
  <2> QED BY <1>0, <2>1, SameDraftHistory
<1>3. ASSUME NEW d \in Drafts, Lapse(d) PROVE \A e \in Drafts : DraftHistory(e)
  <2>1. draft \in [Drafts -> Draft] /\ draft' = [draft EXCEPT ![d].lapsed = TRUE]
        /\ staged' = staged
    BY <1>3 DEF Lapse, UploadsTypeOK
  <2>2. \A e \in Drafts : /\ draft'[e].state = draft[e].state
                          /\ draft'[e].revision = draft[e].revision
                          /\ draft'[e].receipt = draft[e].receipt
    BY <2>1 DEF Draft
  <2> QED BY <1>0, <2>1, <2>2, SameDraftHistory
<1>4. ASSUME NEW d \in Drafts, Expire(d) PROVE \A e \in Drafts : DraftHistory(e)
  <2>1. /\ draft[d].state = "open" /\ Close(d, "expired")
        /\ UNCHANGED <<blobs, kills, lost, group, editable, drafting, worker, tab>>
    BY <1>4 DEF Expire
  <2>2. GivesUp(d, Saved(d), "removed") /\ DraftEnds(d, "expired")
    BY <2>1, CloseAdvances
  <2> QED BY <2>1, <2>2, EndingHistory
<1>5. CASE (\E w \in Cleaners : WorkerStep(w)) \/ (\E k \in Keys : TimePasses(k))
  <2>1. Clears
    BY <1>5, WorkerClears, TimeClears
  <2>2. draft' = draft /\ \A e \in Drafts, f \in Files : staged'[e][f].state = staged[e][f].state
    BY <2>1 DEF Clears
  <2> QED BY <1>0, <2>2, SameDraftHistory
<1> QED BY <1>1, <1>2, <1>3, <1>4, <1>5, TabHistory DEF UploadsNext

\* A page whose revision is the draft's shows the draft's files, and a request without
\* files of its own asks for the revision of its page.
PageIsTrue(t) ==
    LET d == tab[t].draft IN
    tab[t].revision # NoRevision =>
        /\ d \in Drafts /\ draft[d].state # "none"
        /\ draft[d].state = "open" =>
              /\ tab[t].revision <= draft[d].revision
              /\ tab[t].at # "loading" /\ tab[t].revision = draft[d].revision
                 => tab[t].seen = Saved(d)
              /\ tab[t].at \in {"stage", "refresh", "save"} /\ tab[t].posting = {}
                 => tab[t].expected = tab[t].revision
              /\ tab[t].at = "finish" =>
                    /\ tab[t].expected <= draft[d].revision
                    /\ tab[t].posting = {} /\ tab[t].expected = draft[d].revision
                       => tab[t].seen = Saved(d)

AnswerIsTrue(t) ==
    tab[t].told => /\ tab[t].draft \in Drafts /\ draft[tab[t].draft].state = "consumed"
                   /\ draft[tab[t].draft].receipt.by = t

\* The page stays, and so does the request, or it ends, or it goes on with its values.
SamePage(t) ==
    /\ tab'[t].draft = tab[t].draft /\ tab'[t].revision = tab[t].revision
    /\ tab'[t].seen = tab[t].seen
    /\ \/ /\ tab'[t].at = tab[t].at \/ (tab[t].at = "stage" /\ tab'[t].at = "refresh")
          /\ tab'[t].posting = tab[t].posting /\ tab'[t].expected = tab[t].expected
       \/ tab[t].at # "loading" /\ tab'[t].at \in {"page", "explain"}

LEMMA SamePageIsTrue ==
    ASSUME UploadsTypeOK, RowsFit, UploadsTypeOK', \A e \in Drafts : DraftHistory(e),
           NEW t \in Tabs, PageIsTrue(t), SamePage(t)
    PROVE  PageIsTrue(t)'
<1> SUFFICES ASSUME NEW d, d = tab[t].draft, tab[t].revision # NoRevision
             PROVE  PageIsTrue(t)'
  BY DEF SamePage, PageIsTrue
<1>1. d \in Drafts /\ draft[d].state # "none" /\ draft'[d].state # "none" /\ tab'[t].draft = d
  BY DEF PageIsTrue, DraftHistory, SamePage
<1>2. CASE draft'[d].state # "open"
  BY <1>1, <1>2 DEF PageIsTrue
<1>3. CASE draft'[d].state = "open"
  <2>1. /\ draft[d].state = "open" /\ draft[d].revision <= draft'[d].revision
        /\ draft'[d].revision = draft[d].revision => Saved(d)' = Saved(d)
    BY <1>1, <1>3 DEF DraftHistory
  <2>2. draft[d].revision \in Nat /\ draft'[d].revision \in Nat
    <3>1. draft'[d] \in Draft
      BY <1>1 DEF UploadsTypeOK
    <3> QED BY <1>1, <3>1, DraftFields DEF Draft
  <2>3. /\ tab[t].revision \in Nat
        /\ tab[t].expected \in Nat \cup {NoRevision}
    <3>1. TabsFit
      BY DEF RowsFit
    <3> QED BY <3>1, TabFields DEF Revisions
  <2>4. /\ tab[t].revision <= draft[d].revision
        /\ tab[t].at # "loading" /\ tab[t].revision = draft[d].revision => tab[t].seen = Saved(d)
        /\ tab[t].at \in {"stage", "refresh", "save"} /\ tab[t].posting = {}
           => tab[t].expected = tab[t].revision
        /\ tab[t].at = "finish" =>
              /\ tab[t].expected <= draft[d].revision
              /\ tab[t].posting = {} /\ tab[t].expected = draft[d].revision
                 => tab[t].seen = Saved(d)
    BY <2>1 DEF PageIsTrue
  <2>5. /\ tab'[t].revision = tab[t].revision /\ tab'[t].seen = tab[t].seen
        /\ \/ /\ tab'[t].at = tab[t].at \/ (tab[t].at = "stage" /\ tab'[t].at = "refresh")
              /\ tab'[t].posting = tab[t].posting /\ tab'[t].expected = tab[t].expected
           \/ tab[t].at # "loading" /\ tab'[t].at \in {"page", "explain"}
    BY DEF SamePage
  <2> DEFINE now == Saved(d)'
    <2>6. tab'[t].revision <= draft'[d].revision
    BY <2>1, <2>2, <2>3, <2>4, <2>5
  <2>7. tab'[t].at # "loading" /\ tab'[t].revision = draft'[d].revision => tab'[t].seen = now
    <3>1. tab'[t].revision = draft'[d].revision => /\ draft'[d].revision = draft[d].revision
                                                   /\ tab[t].revision = draft[d].revision
      BY <2>1, <2>2, <2>3, <2>4, <2>5
    <3> QED BY <2>1, <2>4, <2>5, <3>1
  <2>8. tab'[t].at \in {"stage", "refresh", "save"} /\ tab'[t].posting = {}
        => tab'[t].expected = tab'[t].revision
    BY <2>4, <2>5
  <2>9. tab'[t].at = "finish" =>
            /\ tab'[t].expected <= draft'[d].revision
            /\ tab'[t].posting = {} /\ tab'[t].expected = draft'[d].revision => tab'[t].seen = now
    <3> SUFFICES ASSUME tab'[t].at = "finish"
                 PROVE  /\ tab'[t].expected <= draft'[d].revision
                        /\ tab'[t].posting = {} /\ tab'[t].expected = draft'[d].revision
                           => tab'[t].seen = now
      OBVIOUS
    <3>1. /\ tab[t].at = "finish" /\ tab'[t].posting = tab[t].posting
          /\ tab'[t].expected = tab[t].expected
      BY <2>5
    <3>2. tab[t].expected <= draft[d].revision
      BY <2>4, <3>1
    <3>3. /\ tab'[t].expected <= draft'[d].revision
          /\ tab'[t].expected = draft'[d].revision => /\ draft'[d].revision = draft[d].revision
                                                      /\ tab[t].expected = draft[d].revision
      BY <2>1, <2>2, <2>3, <3>1, <3>2 DEF NoRevision
    <3> QED BY <2>1, <2>4, <2>5, <3>1, <3>3
  <2> QED BY <1>1, <2>6, <2>7, <2>8, <2>9 DEF PageIsTrue
<1> QED BY <1>2, <1>3

LEMMA SameAnswerIsTrue ==
    ASSUME \A e \in Drafts : DraftHistory(e), NEW t \in Tabs, AnswerIsTrue(t),
           \/ ~tab'[t].told
           \/ tab'[t].told = tab[t].told /\ tab'[t].draft = tab[t].draft
    PROVE  AnswerIsTrue(t)'
BY DEF AnswerIsTrue, DraftHistory

LEMMA TabPages ==
    ASSUME UploadsTypeOK, RowsFit, UploadsTypeOK', \A e \in Drafts : DraftHistory(e),
           NEW t \in Tabs, TabStep(t), PageIsTrue(t), AnswerIsTrue(t)
    PROVE  /\ PageIsTrue(t)' /\ AnswerIsTrue(t)'
           /\ \A u \in Tabs : u # t => tab'[u] = tab[u]
<1> DEFINE Others == \A u \in Tabs : u # t => tab'[u] = tab[u]
<1>0. TabsFit /\ tab[t].draft \in Drafts \cup {NoDraft}
  BY TabFields DEF RowsFit
<1>1. ASSUME NEW d \in Drafts, Load(t, d) PROVE PageIsTrue(t)' /\ AnswerIsTrue(t)' /\ Others
  <2> DEFINE r == IF draft[d].state = "none" THEN NoRevision ELSE draft[d].revision
  <2>1. Page(t, "loading", d, r, {}, 0, tab[t].posting, tab[t].expected, FALSE)
    BY <1>1, LoadPage
  <2>2. draft' = draft /\ draft[d].revision \in Nat
    BY <1>1, DraftFields DEF Load
  <2>3. tab'[t].at = "loading" /\ tab'[t].draft = d /\ tab'[t].revision = r /\ ~tab'[t].told /\ Others
    BY <2>1 DEF Page
  <2>4. AnswerIsTrue(t)'
    BY <2>3 DEF AnswerIsTrue
  <2>5. PageIsTrue(t)'
    <3>1. r # NoRevision => draft[d].state # "none" /\ r = draft[d].revision
      OBVIOUS
    <3> HIDE DEF r
    <3> QED BY <2>2, <2>3, <3>1 DEF PageIsTrue
  <2> QED BY <2>3, <2>4, <2>5
<1>2. CASE ShowFiles(t)
  <2>1. /\ draft' = draft /\ staged' = staged /\ tab[t].at = "loading"
        /\ tab'[t].at = "page" /\ tab'[t].draft = tab[t].draft /\ tab'[t].told = tab[t].told
        /\ tab'[t].revision = tab[t].revision /\ tab'[t].seen = Saved(tab[t].draft) /\ Others
    BY <1>2, ShowPage DEF ShowFiles, Page
  <2>2. AnswerIsTrue(t)'
    BY <2>1, SameAnswerIsTrue
  <2>3. PageIsTrue(t)'
    BY <2>1 DEF PageIsTrue, Saved
  <2> QED BY <2>1, <2>2, <2>3
<1>3. ASSUME NEW files \in SUBSET Files, Post(t, files)
      PROVE  PageIsTrue(t)' /\ AnswerIsTrue(t)' /\ Others
  <2> DEFINE r == IF tab[t].revision = NoRevision THEN draft[tab[t].draft].revision
                  ELSE tab[t].revision
  <2>1. tab[t].draft \in Drafts /\ staged' = staged /\ tab[t].at = "page"
    BY <1>0, <1>3 DEF Post
  <2>2. CASE /\ draft[tab[t].draft].state = "consumed" /\ draft' = draft
             /\ Page(t, "finish", tab[t].draft, tab[t].revision, tab[t].seen, tab[t].version, files,
                     tab[t].expected, FALSE)
    <3>1. /\ tab'[t].draft = tab[t].draft /\ ~tab'[t].told /\ Others
          /\ draft'[tab'[t].draft].state = "consumed"
      BY <2>2 DEF Page
    <3> QED BY <2>1, <3>1 DEF PageIsTrue, AnswerIsTrue
  <2>3. CASE /\ MayOpen(tab[t].draft) /\ draft' = Opened(tab[t].draft)
             /\ draft[tab[t].draft].state = "none" => tab[t].revision = NoRevision
             /\ Page(t, "stage", tab[t].draft, tab[t].revision, tab[t].seen, tab[t].version, files,
                     r, FALSE)
    <3>1. /\ tab'[t].at = "stage" /\ tab'[t].draft = tab[t].draft /\ ~tab'[t].told /\ Others
          /\ tab'[t].revision = tab[t].revision /\ tab'[t].seen = tab[t].seen
          /\ tab'[t].expected = r
      BY <2>3 DEF Page
    <3>2. tab[t].revision # NoRevision => draft' = draft /\ r = tab[t].revision
      BY <2>3 DEF Opened, MayOpen
    <3>3. PageIsTrue(t)'
      <4> HIDE DEF r
      <4> QED BY <2>1, <3>1, <3>2 DEF PageIsTrue, Saved
    <3>4. AnswerIsTrue(t)'
      BY <3>1 DEF AnswerIsTrue
    <3> QED BY <3>1, <3>3, <3>4
  <2> QED BY <1>3, <2>2, <2>3, PostPage
<1>4. CASE Stage(t) \/ \E files \in SUBSET Files : SendFiles(t, files)
  <2>1. PICK step \in {"refresh", "page"} :
          /\ Goto(t, step) /\ (step = "refresh" => tab[t].at = "stage")
          /\ tab[t].at \in {"stage", "page"}
    <3>1. tab[t].at \in {"stage", "page"}
      BY <1>4 DEF Stage, SendFiles
    <3> QED BY <1>4, <3>1, StagingStep
  <2>2. /\ Others /\ tab'[t].at = step /\ tab'[t].draft = tab[t].draft /\ tab'[t].told = tab[t].told
        /\ tab'[t].revision = tab[t].revision /\ tab'[t].seen = tab[t].seen
        /\ step = "refresh" => tab'[t].posting = tab[t].posting /\ tab'[t].expected = tab[t].expected
    BY <2>1, GotoPage DEF Page
  <2>3. SamePage(t)
    BY <2>1, <2>2 DEF SamePage
  <2> QED BY <2>2, <2>3, SamePageIsTrue, SameAnswerIsTrue
<1>5. CASE Refresh(t)
  <2>1. /\ draft' = draft /\ staged' = staged /\ tab[t].at = "refresh" /\ Others
        /\ tab'[t].at = "save" /\ tab'[t].draft = tab[t].draft /\ tab'[t].told = tab[t].told
        /\ tab'[t].revision = tab[t].revision /\ tab'[t].seen = tab[t].seen
        /\ tab'[t].posting = tab[t].posting
        /\ tab[t].posting = {} => tab'[t].expected = tab[t].expected
    BY <1>5, RefreshPage DEF Refresh, Page
  <2>2. PageIsTrue(t)'
    BY <2>1 DEF PageIsTrue, Saved
  <2> QED BY <2>1, <2>2, SameAnswerIsTrue
<1>6. CASE Save(t)
  <2>1. /\ tab[t].at = "save" /\ tab[t].draft \in Drafts /\ draft[tab[t].draft].state = "open"
        /\ AtRevision(t) /\ draft' = Touched(tab[t].draft) /\ staged' = staged
    BY <1>0, <1>6, TabFields DEF Save, Usable
  <2>2. CASE Goto(t, "page")
    <3>1. /\ Others /\ tab'[t].at = "page" /\ tab'[t].draft = tab[t].draft
          /\ tab'[t].told = tab[t].told
          /\ tab'[t].revision = tab[t].revision /\ tab'[t].seen = tab[t].seen
      BY <2>2, GotoPage DEF Page
    <3>2. SamePage(t)
      BY <2>1, <3>1 DEF SamePage
    <3> QED BY <3>1, <3>2, SamePageIsTrue, SameAnswerIsTrue
  <2>3. CASE Page(t, "finish", tab[t].draft, tab[t].revision, tab[t].seen, tab[t].version,
                  tab[t].posting, draft[tab[t].draft].revision + 1, tab[t].told)
    <3>1. /\ Others /\ tab'[t].at = "finish" /\ tab'[t].draft = tab[t].draft
          /\ tab'[t].told = tab[t].told /\ tab'[t].posting = tab[t].posting
          /\ tab'[t].revision = tab[t].revision /\ tab'[t].seen = tab[t].seen
          /\ tab'[t].expected = draft[tab[t].draft].revision + 1
      BY <2>3 DEF Page
    <3>2. AnswerIsTrue(t)'
      BY <3>1, SameAnswerIsTrue
    <3>3. PageIsTrue(t)'
      <4> SUFFICES ASSUME NEW d \in Drafts, d = tab[t].draft, tab[t].revision # NoRevision
                   PROVE  PageIsTrue(t)'
        BY <2>1, <3>1 DEF PageIsTrue
      <4>1. draft'[d].state = "open" /\ draft'[d].revision = draft[d].revision + 1
        BY <2>1, TouchedFacts
      <4>2. draft[d].revision \in Nat /\ tab[t].revision \in Nat
        BY <1>0, DraftFields, TabFields DEF Revisions
      <4>3. /\ tab[t].revision <= draft[d].revision
            /\ tab[t].revision = draft[d].revision => tab[t].seen = Saved(d)
            /\ tab[t].posting = {} => tab[t].expected = tab[t].revision
        BY <2>1 DEF PageIsTrue
      <4>4. tab[t].posting = {} => tab[t].seen = Saved(d)
        BY <2>1, <4>3 DEF AtRevision
      <4>5. Saved(d)' = Saved(d)
        BY <2>1 DEF Saved
      <4>6. /\ tab'[t].revision <= draft'[d].revision /\ tab'[t].revision # draft'[d].revision
            /\ tab'[t].expected = draft'[d].revision /\ draft'[d].revision <= draft'[d].revision
        BY <3>1, <4>1, <4>2, <4>3
      <4> QED BY <3>1, <4>1, <4>4, <4>5, <4>6 DEF PageIsTrue
    <3> QED BY <3>1, <3>2, <3>3
  <2> QED BY <1>6, <2>2, <2>3, SavePage
<1>7. CASE Refused(t) \/ Explain(t)
  <2>1. PICK step \in {"page", "explain"} : Goto(t, step) /\ tab[t].at # "loading"
    BY <1>7 DEF Refused, Explain
  <2>2. /\ Others /\ tab'[t].at = step /\ tab'[t].draft = tab[t].draft /\ tab'[t].told = tab[t].told
        /\ tab'[t].revision = tab[t].revision /\ tab'[t].seen = tab[t].seen
    BY <2>1, GotoPage DEF Page
  <2>3. SamePage(t)
    BY <2>1, <2>2 DEF SamePage
  <2> QED BY <2>2, <2>3, SamePageIsTrue, SameAnswerIsTrue
<1>8. CASE Submit(t) \/ Replay(t)
  <2>1. PICK told \in BOOLEAN : Answer(t, told)
    BY <1>8, SubmitAdvances DEF Replay, Answer
  <2>2. /\ Others /\ tab'[t].at = "page" /\ tab'[t].draft = tab[t].draft /\ tab'[t].told = told
        /\ tab'[t].revision = tab[t].revision /\ tab'[t].seen = tab[t].seen
        /\ tab[t].at = "finish"
    <3>1. tab[t].at = "finish"
      BY <1>8 DEF Submit, Replay
    <3> QED BY <2>1, <3>1, AnswerPage DEF Page
  <2>3. SamePage(t)
    BY <2>2 DEF SamePage
  <2>4. ASSUME told
        PROVE  /\ tab[t].draft \in Drafts /\ draft'[tab[t].draft].state = "consumed"
               /\ draft'[tab[t].draft].receipt.by = t
    <3>1. ReceiptOf(t).by = t
      BY DEF ReceiptOf
    <3>2. CASE Replay(t)
      <4>1. tab[t].draft \in Drafts
        BY <1>0, <3>2, TabFields DEF Replay
      <4> QED BY <3>1, <3>2, <4>1 DEF Replay
    <3>3. CASE Submit(t)
      <4>1. PICK o \in Outcomes :
              /\ Answer(t, o = "commit")
              /\ Committed(o) => /\ DraftEnds(tab[t].draft, "consumed")
                                 /\ draft'[tab[t].draft].receipt = ReceiptOf(t)
        BY <3>3, SubmitAdvances
      <4>2. o = "commit"
        <5>1. (o = "commit") \in BOOLEAN
          OBVIOUS
        <5>2. tab'[t].told = (o = "commit")
          BY <4>1, <5>1, AnswerPage DEF Page
        <5> QED BY <2>2, <2>4, <5>2
      <4>3. tab[t].draft \in Drafts
        BY <3>3, SubmitAdvances
      <4> QED BY <3>1, <4>1, <4>2, <4>3 DEF Committed, DraftEnds
    <3> QED BY <1>8, <3>2, <3>3
  <2>5. AnswerIsTrue(t)'
    BY <2>2, <2>4 DEF AnswerIsTrue
  <2> QED BY <2>2, <2>3, <2>5, SamePageIsTrue
<1>9. CASE \/ \E f \in Files : RemoveStaged(t, f)
           \/ Create(t) \/ SaveValues(t) \/ Discard(t)
  <2>1. tab' = tab
    BY <1>9 DEF RemoveStaged, Create, SaveValues, Discard
  <2>2. SamePage(t) /\ Others
    BY <2>1 DEF SamePage
  <2> QED BY <2>1, <2>2, SamePageIsTrue, SameAnswerIsTrue
<1> QED BY <1>1, <1>2, <1>3, <1>4, <1>5, <1>6, <1>7, <1>8, <1>9 DEF TabStep

LEMMA OtherSteps ==
    ASSUME UploadsTypeOK, RowsFit, [UploadsNext]_uploadVars, ~\E t \in Tabs : TabStep(t)
    PROVE  tab' = tab
<1>1. ASSUME NEW w \in Cleaners, WorkerStep(w) PROVE tab' = tab
  BY <1>1, WorkerClears DEF Clears
<1> QED BY <1>1 DEF UploadsNext, uploadVars, DiscardGroup, OthersUpload, Move, Lapse, Expire,
                    TimePasses

\* The inductive invariant of the requests.
FormsInv ==
    /\ UploadsTypeOK /\ RowsFit
    /\ \A t \in Tabs : PageIsTrue(t) /\ AnswerIsTrue(t)

LEMMA FormsStart == UploadsInit => FormsInv
<1> SUFFICES ASSUME UploadsInit PROVE FormsInv
  OBVIOUS
<1>1. \A t \in Tabs : tab[t].revision = NoRevision /\ ~tab[t].told
  BY DEF UploadsInit
<1> QED BY <1>1, InitFits DEF FormsInv, PageIsTrue, AnswerIsTrue

LEMMA FormsStep == FormsInv /\ [UploadsNext]_uploadVars => FormsInv'
<1> SUFFICES ASSUME FormsInv, [UploadsNext]_uploadVars PROVE FormsInv'
  OBVIOUS
<1>1. /\ UploadsTypeOK /\ RowsFit /\ UploadsTypeOK' /\ RowsFit'
      /\ \A e \in Drafts : DraftHistory(e)
  BY UploadsAdvance, UploadsStutter, DraftsHaveHistory DEF FormsInv
<1>2. ASSUME NEW u \in Tabs PROVE PageIsTrue(u)' /\ AnswerIsTrue(u)'
  <2>0. PageIsTrue(u) /\ AnswerIsTrue(u)
    BY DEF FormsInv
  <2>1. ASSUME tab'[u] = tab[u] PROVE PageIsTrue(u)' /\ AnswerIsTrue(u)'
    <3>1. SamePage(u)
      BY <2>1 DEF SamePage
    <3> QED BY <1>1, <2>0, <2>1, <3>1, SamePageIsTrue, SameAnswerIsTrue
  <2>2. ASSUME NEW t \in Tabs, TabStep(t) PROVE PageIsTrue(u)' /\ AnswerIsTrue(u)'
    <3>1. PageIsTrue(t) /\ AnswerIsTrue(t)
      BY DEF FormsInv
    <3>2. /\ PageIsTrue(t)' /\ AnswerIsTrue(t)'
          /\ \A x \in Tabs : x # t => tab'[x] = tab[x]
      BY <1>1, <2>2, <3>1, TabPages
    <3> QED BY <2>1, <3>2
  <2>3. CASE ~\E t \in Tabs : TabStep(t)
    BY <1>1, <2>1, <2>3, OtherSteps
  <2> QED BY <2>2, <2>3
<1> QED BY <1>1, <1>2 DEF FormsInv

(***************************************************************************)
(* A submission without files of its own takes exactly the files that its  *)
(* page was showing: the page reads its revision under the locks and its   *)
(* files later, but every change of the files moves the revision on, and   *)
(* a submission at another revision is refused.                            *)
(***************************************************************************)
THEOREM FormsSubmitWhatWasShown == UploadsSpec => SubmitsWhatWasShown
<1>1. FormsInv /\ [UploadsNext]_uploadVars =>
        [\A t \in Tabs :
            LET d == tab[t].draft IN
            Submit(t) /\ draft'[d].state = "consumed" /\ tab[t].posting = {}
               /\ tab[t].revision # NoRevision
            => {f \in Files : staged'[d][f].state = "consumed"} = tab[t].seen]_uploadVars
  <2> SUFFICES ASSUME FormsInv, [UploadsNext]_uploadVars, NEW t \in Tabs, NEW d,
                      d = tab[t].draft, Submit(t), draft'[d].state = "consumed",
                      tab[t].posting = {}, tab[t].revision # NoRevision
               PROVE  {f \in Files : staged'[d][f].state = "consumed"} = tab[t].seen
    OBVIOUS
  <2>1. UploadsTypeOK /\ RowsFit /\ PageIsTrue(t)
    BY DEF FormsInv
  <2>2. /\ d \in Drafts /\ draft[d].state = "open" /\ AtRevision(t) /\ tab[t].at = "finish"
        /\ \/ GivesUp(d, Saved(d), "consumed")
           \/ draft' = draft
    BY <2>1, SubmitAdvances DEF Submit
  <2>3. GivesUp(d, Saved(d), "consumed")
    BY <2>2
  <2>4. tab[t].seen = Saved(d)
    BY <2>1, <2>2 DEF PageIsTrue, AtRevision
  <2>5. \A f \in Files : staged[d][f].state # "consumed"
    BY <2>1, <2>2 DEF RowsFit, StagedFit
  <2>6. \A f \in Files : staged'[d][f].state = "consumed" <=> f \in Saved(d)
    BY <2>2, <2>3, <2>5 DEF GivesUp
  <2> QED BY <2>4, <2>6 DEF Saved
<1> QED BY <1>1, FormsStart, FormsStep, PTL DEF UploadsSpec, SubmitsWhatWasShown

(* ------------------------------ retention ------------------------------ *)

\* The versions on offer are the newest, in one piece.
NewestKept(groups, g) ==
    LET v == groups[g].versions
        on == {n \in 1..Len(v) : ~v[n].retired}
    IN  groups[g].state = "live" =>
          /\ Len(v) \in on /\ Cardinality(on) <= Keep
          /\ \A n \in on : n..Len(v) \subseteq on

LEMMA NewestSaysIt == NewestAreKept <=> \A g \in Groups : NewestKept(group, g)
BY DEF NewestAreKept, NewestKept, Live, Latest, Available

LEMMA VersionedKeepsNewest ==
    ASSUME UploadsTypeOK, GroupsFit, NEW g \in Groups, Live(g), Latest(g) < MaxVersions,
           NewestKept(group, g)
    PROVE  NewestKept(Versioned(g), g)
<1> DEFINE old == Latest(g)
           n == old + 1
           all == Available(g) \cup {n}
           out == Excess(all)
           v == Versioned(g)[g].versions
           on == {m \in 1..Len(v) : ~v[m].retired}
<1>1. /\ Len(v) = n /\ \A m \in 1..old : v[m].retired <=> group[g].versions[m].retired \/ m \in out
      /\ v[n].retired <=> n \in out
  BY VersionedFacts
<1>2. /\ old \in Nat /\ n \in Nat /\ Available(g) \subseteq 1..old
      /\ \A m \in Available(g) : m..old \subseteq Available(g)
  BY GroupFields DEF Available, NewestKept, Live, Latest
<1>3. \A m \in 1..old : m \in Available(g) <=> ~group[g].versions[m].retired
  BY <1>2 DEF Available
<1> HIDE DEF v, old
<1>4. on = all \ out
  <2>1. on \subseteq all \ out
    <3> SUFFICES ASSUME NEW m \in on PROVE m \in all \ out
      OBVIOUS
    <3>1. m \in 1..n /\ ~v[m].retired
      BY <1>1
    <3>2. m \in 1..old \/ m = n
      BY <1>2, <3>1
    <3> QED BY <1>1, <1>3, <3>1, <3>2
  <2>2. all \ out \subseteq on
    <3> SUFFICES ASSUME NEW m \in all, m \notin out PROVE m \in on
      OBVIOUS
    <3>1. m \in 1..n
      BY <1>2
    <3>2. ~v[m].retired
      BY <1>1, <1>2, <1>3
    <3> QED BY <1>1, <3>1, <3>2
  <2> QED BY <2>1, <2>2
<1>5. \A m \in all : m \in 1..n /\ {x \in all : x > m} = (m + 1)..n
  <2> TAKE m \in all
  <2>1. m \in 1..n
    BY <1>2
  <2>2. \A x \in (m + 1)..n : x \in all
    BY <1>2
  <2>3. \A x \in all : x > m => x \in (m + 1)..n
    BY <1>2, <2>1
  <2> QED BY <1>2, <2>1, <2>2, <2>3
<1>6. \A m \in all : Cardinality({x \in all : x > m}) = n - m
  <2> TAKE m \in all
  <2>1. m \in 1..n /\ {x \in all : x > m} = (m + 1)..n
    BY <1>5
  <2> DEFINE first == m + 1
  <2>2. first \in Int /\ n \in Int /\ first = m + 1 /\ m <= n /\ m \in Int
    BY <1>2, <2>1
  <2>3. {x \in all : x > m} = first..n
    BY <2>1
  <2> HIDE DEF first, n, all
  <2>4. Cardinality(first..n) = IF first > n THEN 0 ELSE n - first + 1
    BY <2>2, FS_Interval
  <2>5. Cardinality(first..n) = n - m
    BY <2>2, <2>4
  <2> QED BY <2>3, <2>5
<1>7. \A m \in all : m \in out <=> n - m >= Keep
  BY <1>6 DEF Excess
<1>8. n \in on
  <2>1. ~(n - n >= Keep)
    BY <1>2
  <2> QED BY <1>4, <1>7, <2>1
<1>9. Cardinality(on) <= Keep
  <2> DEFINE low == n - Keep + 1
  <2>1. IsFiniteSet(low..n) /\ Cardinality(low..n) = Keep
    <3>1. low \in Int /\ n \in Int /\ ~(low > n) /\ n - low + 1 = Keep
      BY <1>2, UploadsAssumption
    <3> HIDE DEF low
    <3> QED BY <3>1, FS_Interval
  <2>2. on \subseteq low..n
    <3> SUFFICES ASSUME NEW m \in on PROVE m \in low..n
      OBVIOUS
    <3>1. m \in all /\ m \notin out
      BY <1>4
    <3>2. m \in 1..n /\ ~(n - m >= Keep)
      BY <1>5, <1>7, <3>1
    <3>3. n \in Nat /\ Keep \in Nat
      BY <1>2, UploadsAssumption
    <3> HIDE DEF n
    <3> QED BY <3>2, <3>3
  <2> HIDE DEF low, on
  <2>3. Cardinality(on) <= Cardinality(low..n)
    BY <2>1, <2>2, FS_Subset
  <2> QED BY <2>1, <2>3
<1>10. \A m \in on : m..n \subseteq on
  <2> TAKE m \in on
  <2> SUFFICES ASSUME NEW x \in m..n PROVE x \in on
    OBVIOUS
  <2>1. m \in all /\ m \in 1..n /\ ~(n - m >= Keep)
    BY <1>4, <1>5, <1>7
  <2>2. x \in all
    BY <1>2, <2>1
  <2>3. ~(n - x >= Keep)
    BY <1>2, <2>1
  <2> QED BY <1>4, <1>7, <2>2, <2>3
<1> HIDE DEF on, n
<1>11. Len(v) \in on /\ Cardinality(on) <= Keep /\ \A m \in on : m..Len(v) \subseteq on
  BY <1>1, <1>8, <1>9, <1>10
<1> QED BY <1>11 DEF NewestKept, on, v

LEMMA AttachedKeepsNewest ==
    ASSUME UploadsTypeOK, GroupsFit, NEW new \in SUBSET FreeGroups, NEW g \in new
    PROVE  NewestKept(Attached(new), g)
<1> DEFINE v == Attached(new)[g].versions
           on == {m \in 1..Len(v) : ~v[m].retired}
<1>1. Len(v) = 1 /\ ~v[1].retired
  BY AttachedFacts
<1> HIDE DEF v
<1>2. on = {1}
  BY <1>1
<1>3. Cardinality(on) = 1
  BY <1>2, FS_Singleton
<1>4. 1 \in on /\ Cardinality(on) <= Keep /\ \A m \in on : m..1 \subseteq on
  BY <1>2, <1>3
<1> HIDE DEF on
<1> QED BY <1>1, <1>4 DEF NewestKept, on, v

\* What a submission makes of the record's files.
LEMMA EffectsKeepNewest ==
    ASSUME UploadsTypeOK, RowsFit, NEW t \in Tabs, tab[t].draft \in Drafts, Usable(tab[t].draft),
           \A g \in Groups : NewestKept(group, g),
           NEW e \in Effects(t)
    PROVE  \A g \in Groups : NewestKept(e.groups, g)
<1> DEFINE h == draft[tab[t].draft].group
<1>0. GroupsFit
  BY DEF RowsFit
<1>1. CASE h = NoGroup
  <2>1. PICK new \in SUBSET FreeGroups :
            e = [groups |-> Attached(new), keys |-> {KeyOf(<<g, 1>>) : g \in new}]
    BY <1>1 DEF Effects
  <2>2. e.groups = Attached(new)
    BY <2>1
  <2>3. ASSUME NEW g \in Groups PROVE NewestKept(Attached(new), g)
    <3>1. CASE g \in new
      BY <1>0, <3>1, AttachedKeepsNewest
    <3>2. CASE g \notin new
      <4>1. Attached(new)[g] = group[g]
        BY <1>0, <3>2, AttachedFacts
      <4> QED BY <4>1 DEF NewestKept
    <3> QED BY <3>1, <3>2
  <2> QED BY <2>2, <2>3
<1>2. CASE h # NoGroup
  <2>1. /\ e = [groups |-> Versioned(h), keys |-> {KeyOf(<<h, Latest(h) + 1>>)}]
        /\ Latest(h) < MaxVersions
    BY <1>2 DEF Effects
  <2>2. e.groups = Versioned(h)
    BY <2>1
  <2>3. h \in Groups /\ Live(h)
    BY <1>2, DraftFields DEF Usable, InContext
  <2>4. ASSUME NEW g \in Groups PROVE NewestKept(Versioned(h), g)
    <3>1. CASE g = h
      BY <1>0, <2>1, <2>3, <3>1, VersionedKeepsNewest
    <3>2. CASE g # h
      <4>1. Versioned(h)[g] = group[g]
        BY <1>0, <2>1, <2>3, <3>2, VersionedFacts
      <4> QED BY <4>1 DEF NewestKept
    <3> QED BY <3>1, <3>2
  <2> QED BY <2>2, <2>4
<1> QED BY <1>1, <1>2

\* What another user's form makes of them.
LEMMA OthersKeepNewest ==
    ASSUME UploadsTypeOK, RowsFit, NEW g \in Groups, OthersUpload(g),
           \A h \in Groups : NewestKept(group, h)
    PROVE  \A h \in Groups : NewestKept(group', h)
<1> DEFINE groups == IF group[g].state = "none" THEN Attached({g}) ELSE Versioned(g)
<1>0. GroupsFit
  BY DEF RowsFit
<1>1. group' = group \/ group' = groups
  BY DEF OthersUpload
<1>2. Latest(g) + 1 <= MaxVersions /\ group[g].state # "discarded"
  BY DEF OthersUpload
<1>3. ASSUME NEW h \in Groups PROVE NewestKept(groups, h)
  <2>1. CASE group[g].state = "none"
    <3> DEFINE one == {g}
    <3>1. one \in SUBSET FreeGroups
      BY <2>1 DEF FreeGroups
    <3>2. NewestKept(Attached(one), h)
      <4>1. h \in one \/ Attached(one)[h] = group[h]
        <5> HIDE DEF one
        <5> QED BY <1>0, <3>1, AttachedFacts
      <4>2. CASE h \in one
        <5> HIDE DEF one
        <5> QED BY <1>0, <3>1, <4>2, AttachedKeepsNewest
      <4>3. CASE Attached(one)[h] = group[h]
        BY <4>3 DEF NewestKept
      <4> QED BY <4>1, <4>2, <4>3
    <3> QED BY <2>1, <3>2
  <2>2. CASE group[g].state # "none"
    <3>1. Latest(g) < MaxVersions
      BY <1>2, GroupFields
    <3>2. Live(g)
      BY <1>2, <2>2, GroupFields DEF Live, Group
    <3>3. NewestKept(Versioned(g), h)
      <4>1. CASE h = g
        BY <1>0, <3>1, <3>2, <4>1, VersionedKeepsNewest
      <4>2. CASE h # g
        <5>1. Versioned(g)[h] = group[h]
          BY <1>0, <3>1, <4>2, VersionedFacts
        <5> QED BY <5>1 DEF NewestKept
      <4> QED BY <4>1, <4>2
    <3> QED BY <2>2, <3>3
  <2> QED BY <2>1, <2>2
<1> QED BY <1>1, <1>3

LEMMA StepsKeepNewest ==
    ASSUME UploadsTypeOK, RowsFit, [UploadsNext]_uploadVars,
           \A g \in Groups : NewestKept(group, g)
    PROVE  \A g \in Groups : NewestKept(group', g)
<1>1. ASSUME NEW t \in Tabs, TabStep(t) PROVE \A g \in Groups : NewestKept(group', g)
  <2>1. CASE Submit(t)
    <3>1. /\ tab[t].draft \in Drafts
          /\ \/ group' = group
             \/ \E e \in Effects(t) : group' = e.groups
      BY <2>1, SubmitAdvances
    <3>2. Usable(tab[t].draft)
      BY <2>1 DEF Submit
    <3> QED BY <3>1, <3>2, EffectsKeepNewest
  <2>2. CASE ~Submit(t)
    <3>1. group' = group
      BY <1>1, <2>2 DEF TabStep, Load, Post, SendFiles, StageFiles, RemoveStaged, ShowFiles, Stage,
            Refresh, Save, Refused, Explain, Replay, Discard, Create, SaveValues
    <3> QED BY <3>1
  <2> QED BY <2>1, <2>2
<1>2. ASSUME NEW g \in Groups, DiscardGroup(g) PROVE \A h \in Groups : NewestKept(group', h)
  <2>1. group'[g].state = "discarded" /\ \A h \in Groups \ {g} : group'[h] = group[h]
    BY <1>2, DiscardGroupAdvances
  <2> TAKE h \in Groups
  <2>2. CASE h = g
    BY <2>1, <2>2 DEF NewestKept
  <2>3. CASE h # g
    <3>1. group'[h] = group[h]
      BY <2>1, <2>3
    <3> QED BY <3>1 DEF NewestKept
  <2> QED BY <2>2, <2>3
<1>3. ASSUME NEW w \in Cleaners, WorkerStep(w) PROVE group' = group
  BY <1>3, WorkerClears DEF Clears
<1>4. CASE \/ Move \/ UNCHANGED uploadVars
           \/ \E d \in Drafts : Lapse(d) \/ Expire(d)
           \/ \E k \in Keys : TimePasses(k)
  BY <1>4 DEF Move, Lapse, Expire, TimePasses, uploadVars
<1> QED BY <1>1, <1>2, <1>3, <1>4, OthersKeepNewest DEF UploadsNext

(***************************************************************************)
(* A live file keeps its newest versions, and whoever is told that a form  *)
(* went through is the one whose values did.                               *)
(***************************************************************************)
THEOREM SubmissionsStayHeld == UploadsSpec => []SubmissionsHold
<1> DEFINE Inv == FormsInv /\ \A g \in Groups : NewestKept(group, g)
<1>1. UploadsInit => Inv
  <2>1. UploadsInit => \A g \in Groups : NewestKept(group, g)
    BY DEF UploadsInit, NewestKept
  <2> QED BY <2>1, FormsStart
<1>2. Inv /\ [UploadsNext]_uploadVars => Inv'
  BY FormsStep, StepsKeepNewest DEF FormsInv
<1>3. Inv => SubmissionsHold
  BY NewestSaysIt DEF FormsInv, AnswerIsTrue, SubmissionsHold, ToldIsTrue
<1> HIDE DEF Inv
<1> QED BY <1>1, <1>2, <1>3, PTL DEF UploadsSpec

=============================================================================
