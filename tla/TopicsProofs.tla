---------------------------- MODULE TopicsProofs ----------------------------
(***************************************************************************)
(* The topics of the repository's documents, for all sets of tags,         *)
(* documents, models and workers.                                          *)
(*                                                                         *)
(* A document's tags are those of its contributions after every change,    *)
(* and the counters change by what a document gained and lost (Core); a    *)
(* tag form that was opened on a merged tag finds it merged (Desk).  What  *)
(* a worker that publishes found when it looked still holds, because its   *)
(* locks keep everyone from the document and from the model's source       *)
(* (Answers).                                                              *)
(***************************************************************************)
EXTENDS Topics, FiniteSetTheorems, TLAPS

-----------------------------------------------------------------------------
(* Rows *)

Verdict == Verdicts \cup {"nothing"}
Word == [verdict : Verdict, since : SUBSET Tags]
Contribution == [tag : Tags, source : Sources]

Paper == [state : {"absent", "active", "removed", "purged"}, revision : Nat, complete : BOOLEAN,
          run : {"current", "superseded", "orphaned"},
          tags : SUBSET Tags, gifts : SUBSET Contribution, decided : [Tags -> Word]]

Topic == [canonical : Tags \cup {NoTag}, active : BOOLEAN, automatic : BOOLEAN, usage : Nat]

\* A document whose tags are those contributed.
SoundPaper(row) == row \in Paper /\ row.tags = TagsOf(row.gifts)

SoundPapers(papers) ==
    /\ papers = [d \in Docs |-> papers[d]]
    /\ \A d \in Docs : SoundPaper(papers[d])

Core ==
    /\ topic \in [Tags -> Topic] /\ SoundPapers(paper)
    /\ UsageIsExact /\ MergedTagsAreGone

LEMMA RowTypes ==
    ASSUME NEW row, SoundPaper(row)
    PROVE  /\ row.state \in {"absent", "active", "removed", "purged"} /\ row.revision \in Nat
           /\ row.complete \in BOOLEAN /\ row.run \in {"current", "superseded", "orphaned"}
           /\ row.tags \in SUBSET Tags /\ row.gifts \in SUBSET Contribution
           /\ row.decided \in [Tags -> Word]
BY DEF SoundPaper, Paper

\* There is no tag without provenance.
LEMMA NothingToBootstrap ==
    ASSUME NEW row, SoundPaper(row)
    PROVE  Bootstrapped(row) = row.gifts
BY DEF SoundPaper, Bootstrapped

LEMMA PaperSound ==
    ASSUME Core, NEW d \in Docs
    PROVE  SoundPaper(paper[d])
BY DEF Core, SoundPapers

-----------------------------------------------------------------------------
(* Counters *)

\* A set that gains and loses elements.
LEMMA GainedAndLost ==
    ASSUME NEW S, NEW T, IsFiniteSet(S), IsFiniteSet(T)
    PROVE  /\ Cardinality(S) \in Nat /\ Cardinality(T) \in Nat
           /\ Cardinality(T \ S) \in Nat /\ Cardinality(S \ T) \in Nat
           /\ Cardinality(T) = Cardinality(S) + Cardinality(T \ S) - Cardinality(S \ T)
<1>1. /\ IsFiniteSet(S \cap T) /\ IsFiniteSet(S \ T) /\ IsFiniteSet(T \ S)
  <2>1. (S \cap T) \in SUBSET S /\ (S \ T) \in SUBSET S /\ (T \ S) \in SUBSET T
    OBVIOUS
  <2> QED BY <2>1, FS_Subset
<1>2. /\ Cardinality(S) \in Nat /\ Cardinality(T) \in Nat /\ Cardinality(S \cap T) \in Nat
      /\ Cardinality(S \ T) \in Nat /\ Cardinality(T \ S) \in Nat
  BY <1>1, FS_CardinalityType
<1>3. ASSUME NEW A, NEW B, IsFiniteSet(A), IsFiniteSet(B), A \cap B = {}
      PROVE  Cardinality(A \cup B) = Cardinality(A) + Cardinality(B)
  <2>1. Cardinality(A \cup B) = Cardinality(A) + Cardinality(B) - Cardinality(A \cap B)
    BY <1>3, FS_Union
  <2>2. Cardinality(A \cap B) = 0 /\ Cardinality(A) \in Nat /\ Cardinality(B) \in Nat
    BY <1>3, FS_EmptySet, FS_CardinalityType
  <2> QED BY <2>1, <2>2
<1>4. Cardinality(S) = Cardinality(S \cap T) + Cardinality(S \ T)
  <2>1. S = (S \cap T) \cup (S \ T) /\ (S \cap T) \cap (S \ T) = {}
    OBVIOUS
  <2> QED BY <1>1, <1>3, <2>1
<1>5. Cardinality(T) = Cardinality(S \cap T) + Cardinality(T \ S)
  <2>1. T = (S \cap T) \cup (T \ S) /\ (S \cap T) \cap (T \ S) = {}
    OBVIOUS
  <2> QED BY <1>1, <1>3, <2>1
<1> QED BY <1>2, <1>4, <1>5

Carriers(papers, t) == {d \in Docs : t \in papers[d].tags}

\* One document gains a tag or loses it at a time; the counter ends up exact.
LEMMA CountersExact ==
    ASSUME UsageIsExact, NEW rows \in [Tags -> Topic], NEW papers, NEW t \in Tags,
           rows[t].usage = topic[t].usage
    PROVE  /\ Counted(rows, papers)[t].usage = Cardinality(Carriers(papers, t))
           /\ Counted(rows, papers)[t] \in Topic
           /\ Counted(rows, papers)[t].canonical = rows[t].canonical
           /\ Counted(rows, papers)[t].active = rows[t].active
           /\ Counted(rows, papers)[t].automatic = rows[t].automatic
<1> DEFINE S == Carriers(paper, t)
           T == Carriers(papers, t)
           gained == {d \in Docs : t \in papers[d].tags \ paper[d].tags}
           lost == {d \in Docs : t \in paper[d].tags \ papers[d].tags}
           fewer == rows[t].usage + Cardinality(gained) - Cardinality(lost)
<1>1. IsFiniteSet(S) /\ IsFiniteSet(T)
  <2>1. S \in SUBSET Docs /\ T \in SUBSET Docs
    BY DEF Carriers
  <2> QED BY <2>1, FS_Subset, TopicConstants
<1>2. gained = T \ S /\ lost = S \ T
  BY DEF Carriers
<1>3. rows[t].usage = Cardinality(S)
  BY DEF UsageIsExact, Carriers
<1>4. fewer = Cardinality(T) /\ fewer \in Nat
  BY <1>1, <1>2, <1>3, GainedAndLost
<1>5. Counted(rows, papers)[t] = [rows[t] EXCEPT !.usage = IF fewer < 0 THEN 0 ELSE fewer]
  BY DEF Counted
<1>6. rows[t] \in Topic
  OBVIOUS
<1> HIDE DEF fewer
<1>7. Counted(rows, papers)[t] = [rows[t] EXCEPT !.usage = fewer]
  BY <1>4, <1>5
<1> QED BY <1>4, <1>6, <1>7 DEF Topic

\* Whatever is written, the counters follow and no merged tag comes back.
LEMMA CountedKeeps ==
    ASSUME Core, NEW rows \in [Tags -> Topic], \A t \in Tags : rows[t].usage = topic[t].usage,
           SoundPapers(paper'), topic' = Counted(rows, paper'),
           \A d \in Docs : \A t \in paper'[d].tags : rows[t].canonical = NoTag
    PROVE  /\ Core'
           /\ \A t \in Tags : /\ topic'[t].canonical = rows[t].canonical
                              /\ topic'[t].active = rows[t].active
                              /\ topic'[t].automatic = rows[t].automatic
<1>1. \A t \in Tags : /\ topic'[t].usage = Cardinality(Carriers(paper', t)) /\ topic'[t] \in Topic
                      /\ topic'[t].canonical = rows[t].canonical
                      /\ topic'[t].active = rows[t].active
                      /\ topic'[t].automatic = rows[t].automatic
  BY CountersExact DEF Core
<1>2. topic' \in [Tags -> Topic]
  BY <1>1 DEF Counted
<1>3. UsageIsExact'
  BY <1>1 DEF UsageIsExact, Carriers
<1>4. MergedTagsAreGone'
  BY <1>1 DEF MergedTagsAreGone
<1> QED BY <1>1, <1>2, <1>3, <1>4 DEF Core

\* Steps that leave the tags of all documents, and the merged tags, alone.
LEMMA SameTagsKeep ==
    ASSUME Core, SoundPapers(paper'), \A d \in Docs : paper'[d].tags = paper[d].tags,
           topic' \in [Tags -> Topic], \A t \in Tags : topic'[t].usage = topic[t].usage,
           \A t \in Tags : topic'[t].canonical # NoTag => topic[t].canonical # NoTag
    PROVE  Core'
<1>1. \A t \in Tags : Carriers(paper', t) = Carriers(paper, t)
  BY DEF Carriers
<1>2. UsageIsExact'
  BY <1>1 DEF Core, UsageIsExact, Carriers
<1>3. MergedTagsAreGone'
  BY DEF Core, MergedTagsAreGone
<1> QED BY <1>2, <1>3 DEF Core

-----------------------------------------------------------------------------
(* What the operations make of a document's row *)

VerdictsOK(verdicts) ==
    DOMAIN verdicts \subseteq Tags /\ \A t \in DOMAIN verdicts : verdicts[t] \in Verdicts

\* A review adds what it confirms and takes away what it rejects, and nothing else.
LEMMA DecidedRow ==
    ASSUME NEW row, SoundPaper(row), NEW verdicts, VerdictsOK(verdicts),
           NEW new, new = Materialized(Decided(row, verdicts))
    PROVE  /\ SoundPaper(new) /\ new.state = row.state
           /\ \A t \in new.tags : t \in row.tags \/ (t \in DOMAIN verdicts /\ verdicts[t] = "confirm")
           /\ \A g \in new.gifts : g \in row.gifts \/ g.source = "review"
           /\ \A t \in row.tags : t \in new.tags \/ new.decided[t].verdict = "reject"
<1> DEFINE settled == DOMAIN verdicts
           kept == {g \in Bootstrapped(row) : g.tag \notin settled \/ verdicts[g.tag] # "reject"}
           added == {Gift(t, "review") : t \in {u \in settled : verdicts[u] = "confirm"}}
           word == [t \in Tags |-> IF t \in settled
                       THEN [verdict |-> verdicts[t], since |-> {u \in settled : <<t, u>> \in ByKey}]
                       ELSE [verdict |-> row.decided[t].verdict, since |-> row.decided[t].since \cup settled]]
           gifts == kept \cup added
<1>1. /\ row \in Paper /\ row.tags = TagsOf(row.gifts) /\ Bootstrapped(row) = row.gifts
      /\ row.gifts \in SUBSET Contribution /\ row.decided \in [Tags -> Word]
  BY RowTypes, NothingToBootstrap DEF SoundPaper
<1>2. gifts \in SUBSET Contribution
  <2>1. kept \in SUBSET Contribution
    BY <1>1
  <2>2. added \in SUBSET Contribution
    BY DEF VerdictsOK, Gift, Contribution, Sources
  <2> QED BY <2>1, <2>2
<1>3. word \in [Tags -> Word]
  <2>1. ASSUME NEW t \in Tags PROVE word[t] \in Word
    <3>1. CASE t \in settled
      BY <3>1 DEF VerdictsOK, Word, Verdict
    <3>2. CASE t \notin settled
      <4>1. row.decided[t] \in Word
        BY <1>1
      <4> QED BY <3>2, <4>1 DEF VerdictsOK, Word
    <3> QED BY <3>1, <3>2
  <2> QED BY <2>1
<1>4. \A t \in Tags : t \in settled => word[t].verdict = verdicts[t]
  OBVIOUS
<1>5. Decided(row, verdicts) = [row EXCEPT !.decided = word, !.gifts = gifts]
  BY <1>1 DEF Decided, Paper
<1> DEFINE tags == TagsOf(gifts)
<1>6. \A t : t \in tags <=> \E g \in gifts : g.tag = t
  BY DEF TagsOf
<1>7. \A g \in gifts : g \in row.gifts \/ g.source = "review"
  BY <1>1 DEF Gift
<1>8. \A g \in gifts : g.tag \in row.tags \/ (g.tag \in settled /\ verdicts[g.tag] = "confirm")
  <2>1. ASSUME NEW g \in kept PROVE g.tag \in row.tags
    BY <1>1, <2>1 DEF TagsOf
  <2>2. ASSUME NEW g \in added PROVE g.tag \in settled /\ verdicts[g.tag] = "confirm"
    BY <2>2 DEF Gift
  <2> QED BY <2>1, <2>2
<1>9. ASSUME NEW g \in row.gifts PROVE g \in gifts \/ (g.tag \in settled /\ verdicts[g.tag] = "reject")
  <2>1. g \in kept \/ (g.tag \in settled /\ verdicts[g.tag] = "reject")
    BY <1>1
  <2> QED BY <2>1
<1> HIDE DEF word, gifts
<1>10. new = [row EXCEPT !.decided = word, !.gifts = gifts, !.tags = tags]
  <2>1. new = [Decided(row, verdicts) EXCEPT !.tags = TagsOf(Decided(row, verdicts).gifts)]
    BY DEF Materialized
  <2>2. Decided(row, verdicts).gifts = gifts
    BY <1>1, <1>5 DEF Paper
  <2> QED BY <1>1, <1>5, <2>1, <2>2 DEF Paper
<1>11. tags \in SUBSET Tags
  BY <1>2, <1>6 DEF Contribution
<1> HIDE DEF tags
<1>12. /\ new \in Paper /\ new.tags = tags /\ new.gifts = gifts /\ new.decided = word
       /\ new.state = row.state
  BY <1>1, <1>2, <1>3, <1>10, <1>11 DEF Paper
<1>13. SoundPaper(new)
  BY <1>12 DEF SoundPaper, tags
<1>14. \A t \in new.tags : t \in row.tags \/ (t \in DOMAIN verdicts /\ verdicts[t] = "confirm")
  BY <1>6, <1>8, <1>12
<1>15. \A t \in row.tags : t \in new.tags \/ new.decided[t].verdict = "reject"
  <2>1. ASSUME NEW t \in row.tags PROVE t \in new.tags \/ new.decided[t].verdict = "reject"
    <3>1. PICK g \in row.gifts : g.tag = t
      BY <1>1 DEF TagsOf
    <3>2. t \in Tags
      BY <1>1 DEF Paper
    <3> QED BY <1>4, <1>6, <1>9, <1>12, <3>1, <3>2
  <2> QED BY <2>1
<1> QED BY <1>7, <1>12, <1>13, <1>14, <1>15

\* Contributions rewritten as a whole.
Rewritten(row, gifts) == Materialized([row EXCEPT !.gifts = gifts])

LEMMA RewrittenRow ==
    ASSUME NEW row, SoundPaper(row), NEW gifts \in SUBSET Contribution
    PROVE  /\ SoundPaper(Rewritten(row, gifts))
           /\ Rewritten(row, gifts).gifts = gifts /\ Rewritten(row, gifts).decided = row.decided
           /\ Rewritten(row, gifts).state = row.state
           /\ Rewritten(row, gifts).revision = row.revision
           /\ \A t : t \in Rewritten(row, gifts).tags <=> \E g \in gifts : g.tag = t
<1> DEFINE tags == TagsOf(gifts)
           new == Rewritten(row, gifts)
<1>1. row \in Paper /\ row.tags = TagsOf(row.gifts)
  BY DEF SoundPaper
<1>2. tags \in SUBSET Tags
  BY DEF TagsOf, Contribution
<1>3. new = [row EXCEPT !.gifts = gifts, !.tags = tags]
  BY <1>1 DEF Materialized, Paper, Rewritten
<1>4. \A t : t \in tags <=> \E g \in gifts : g.tag = t
  BY DEF TagsOf
<1> HIDE DEF tags, new
<1>5. /\ new \in Paper /\ new.tags = tags /\ new.gifts = gifts /\ new.decided = row.decided
      /\ new.state = row.state /\ new.revision = row.revision
  BY <1>1, <1>2, <1>3 DEF Paper
<1>6. SoundPaper(new)
  BY <1>5 DEF SoundPaper, tags
<1> QED BY <1>4, <1>5, <1>6 DEF new

LEMMA MergedRow ==
    ASSUME merging.source \in Tags, merging.target \in Tags, merging.source # merging.target,
           NEW row, SoundPaper(row), NEW new, new = Merged(row)
    PROVE  /\ SoundPaper(new) /\ new.decided = row.decided
           /\ new.state = row.state /\ new.revision = row.revision
           /\ \A t \in new.tags : (t \in row.tags /\ t # merging.source) \/ t = merging.target
           /\ \A t \in row.tags : t \in new.tags \/ (t = merging.source /\ merging.target \in new.tags)
<1> DEFINE moved(g) == Gift(IF g.tag = merging.source THEN merging.target ELSE g.tag, g.source)
           gifts == {moved(g) : g \in row.gifts}
<1>1. /\ Bootstrapped(row) = row.gifts /\ row.gifts \in SUBSET Contribution
      /\ row.tags = TagsOf(row.gifts)
  BY NothingToBootstrap, RowTypes DEF SoundPaper
<1>2. gifts \in SUBSET Contribution
  BY <1>1 DEF Gift, Contribution
<1>3. new = Rewritten(row, gifts)
  BY <1>1 DEF Merged, Rewritten
<1>4. \A g : moved(g).tag = IF g.tag = merging.source THEN merging.target ELSE g.tag
  BY DEF Gift
<1>5. \A t : t \in row.tags <=> \E g \in row.gifts : g.tag = t
  BY <1>1 DEF TagsOf
<1>6. /\ \A h \in gifts : \E g \in row.gifts : h = moved(g)
      /\ \A g \in row.gifts : moved(g) \in gifts
  OBVIOUS
<1> HIDE DEF moved, gifts
<1>7. /\ SoundPaper(new) /\ new.gifts = gifts /\ new.decided = row.decided
      /\ new.state = row.state /\ new.revision = row.revision
      /\ \A t : t \in new.tags <=> \E g \in gifts : g.tag = t
  BY <1>2, <1>3, RewrittenRow
<1>8. ASSUME NEW t \in new.tags PROVE (t \in row.tags /\ t # merging.source) \/ t = merging.target
  BY <1>4, <1>5, <1>6, <1>7
<1>9. ASSUME NEW t \in row.tags PROVE t \in new.tags \/ (t = merging.source /\ merging.target \in new.tags)
  <2>1. PICK g \in row.gifts : g.tag = t
    BY <1>5
  <2>2. moved(g).tag \in new.tags
    BY <1>6, <1>7
  <2> QED BY <1>4, <2>1, <2>2
<1> QED BY <1>7, <1>8, <1>9

LEMMA RolledBackRow ==
    ASSUME NEW row, SoundPaper(row), NEW m \in Models, NEW new, new = RolledBack(row, m)
    PROVE  /\ SoundPaper(new) /\ new.decided = row.decided
           /\ new.state = row.state /\ new.revision = row.revision
           /\ new.gifts \subseteq row.gifts
           /\ \A g \in row.gifts : g.source \notin Models => g.tag \in new.tags
<1> DEFINE gifts == {g \in row.gifts : g.source # m}
<1>1. Bootstrapped(row) = row.gifts /\ row.gifts \in SUBSET Contribution
  BY NothingToBootstrap, RowTypes
<1>2. gifts \in SUBSET Contribution /\ gifts \subseteq row.gifts
  BY <1>1
<1>3. new = Rewritten(row, gifts)
  BY <1>1 DEF RolledBack, Rewritten
<1>4. \A g \in row.gifts : g.source \notin Models => g \in gifts
  OBVIOUS
<1> HIDE DEF gifts
<1>5. /\ SoundPaper(new) /\ new.gifts = gifts /\ new.decided = row.decided
      /\ new.state = row.state /\ new.revision = row.revision
      /\ \A t : t \in new.tags <=> \E g \in gifts : g.tag = t
  BY <1>2, <1>3, RewrittenRow
<1> QED BY <1>2, <1>4, <1>5

Published(row, given) == Rewritten(row, row.gifts \cup given)

LEMMA PublishedRow ==
    ASSUME NEW row, SoundPaper(row), NEW given \in SUBSET Contribution
    PROVE  LET new == Published(row, given)
           IN  /\ SoundPaper(new) /\ new.decided = row.decided /\ new.gifts = row.gifts \cup given
               /\ new.state = row.state /\ new.revision = row.revision
               /\ row.tags \subseteq new.tags
               /\ \A t \in new.tags : t \in row.tags \/ \E g \in given : g.tag = t
<1> DEFINE gifts == row.gifts \cup given
           new == Published(row, given)
<1>1. /\ row.gifts \in SUBSET Contribution
      /\ \A t : t \in row.tags <=> \E g \in row.gifts : g.tag = t
  BY RowTypes DEF SoundPaper, TagsOf
<1>2. gifts \in SUBSET Contribution
  BY <1>1
<1>3. new = Rewritten(row, gifts)
  BY DEF Published
<1>4. \A g : g \in gifts <=> (g \in row.gifts \/ g \in given)
  OBVIOUS
<1> HIDE DEF gifts, new
<1>5. /\ SoundPaper(new) /\ new.gifts = gifts /\ new.decided = row.decided
      /\ new.state = row.state /\ new.revision = row.revision
      /\ \A t : t \in new.tags <=> \E g \in gifts : g.tag = t
  <2>1. /\ SoundPaper(Rewritten(row, gifts)) /\ Rewritten(row, gifts).gifts = gifts
        /\ Rewritten(row, gifts).decided = row.decided
        /\ Rewritten(row, gifts).state = row.state /\ Rewritten(row, gifts).revision = row.revision
        /\ \A t : t \in Rewritten(row, gifts).tags <=> \E g \in gifts : g.tag = t
    BY <1>2, RewrittenRow
  <2> QED BY <1>3, <2>1
<1>6. /\ row.tags \subseteq new.tags
      /\ \A t \in new.tags : t \in row.tags \/ \E g \in given : g.tag = t
  BY <1>1, <1>4, <1>5
<1>7. new.gifts = row.gifts \cup given
  BY <1>5 DEF gifts
<1> QED BY <1>5, <1>6, <1>7 DEF new

-----------------------------------------------------------------------------
(* What is under way: a merge, a tag form, and the workers' answers *)

\* A merge is of two tags; a form that found its tag merged finds it merged when it saves.
Desk ==
    /\ merging # NoMerge => /\ merging.source \in Tags /\ merging.target \in Tags
                            /\ merging.source # merging.target
    /\ form # NoForm => /\ form.tag \in Tags /\ form.canonical \in Tags \cup {NoTag}
                        /\ form.canonical # NoTag => topic[form.tag].canonical # NoTag

IsTraining(row) ==
    row = [mode |-> row.mode, active |-> row.active, source |-> row.source,
           vocabulary |-> row.vocabulary, input |-> row.input, labels |-> row.labels]

\* A model was trained on a document that is filed; an untrained model is not active.
Trained ==
    /\ model = [m \in Models |-> model[m]]
    /\ \A m \in Models :
        /\ IsTraining(model[m]) /\ (model[m].active => model[m].mode # "none")
        /\ model[m].mode # "none" =>
              model[m].source \in Docs /\ paper[model[m].source].state # "absent"

IsTask(row) ==
    row = [state |-> row.state, attempts |-> row.attempts, owner |-> row.owner,
           live |-> row.live, waits |-> row.waits]

Tasks ==
    /\ task = [k \in TaskKinds |-> task[k]]
    /\ \A k \in TaskKinds : /\ task[k] = [d \in Docs |-> task[k][d]]
                            /\ \A d \in Docs : IsTask(task[k][d])

\* Only a model suggests tags.
Suggestions ==
    /\ suggestion = [d \in Docs |-> suggestion[d]]
    /\ \A d \in Docs : /\ suggestion[d].tags \subseteq Tags
                       /\ suggestion[d].tags # {} => suggestion[d].model \in Models

IsRunner(row) ==
    row = [step |-> row.step, doc |-> row.doc, model |-> row.model, tags |-> row.tags, input |-> row.input]

\* What a worker that publishes found, and holds by its locks.
Publishable(row) ==
    /\ paper[row.doc].state # "absent" /\ suggestion[row.doc].input = Input(row.doc)
    /\ row.model = suggestion[row.doc].model
    /\ row.model \in Models => /\ model[row.model].mode # "none"
                               /\ model[row.model].input = Input(model[row.model].source)
                               /\ model[row.model].labels = paper[model[row.model].source].decided

Clerk(row) ==
    /\ IsRunner(row)
    /\ row.step # "idle" => row.doc \in Docs
    /\ row.step \in {"inferring", "inferred"} =>
          row.tags \subseteq Tags /\ (row.tags # {} => row.model \in Models)
    /\ row.step = "publishing" => Publishable(row)

Clerks ==
    /\ runner = [r \in Runners |-> runner[r]]
    /\ \A r \in Runners : Clerk(runner[r])

Answers == Trained /\ Tasks /\ Suggestions /\ Clerks

Ledger == Core /\ Desk /\ Answers

(* Steps *)

HumanStep ==
    \A d \in Docs : \A t \in GivenByPeople(d) \ paper'[d].tags :
        \/ paper'[d].decided[t].verdict = "reject"
        \/ topic'[t].canonical \in paper'[d].tags
        \/ paper'[d].state = "purged"

OverrideStep ==
    merging' = merging =>
        \A d \in Docs : \A g \in NewlyGiven(d) :
            /\ Offered(g.tag) /\ topic[g.tag].automatic
            /\ LastSaid(d, g.tag) \notin {"reject", "unsure"}

AnswersStep == AppliedToWhatWasRead /\ SuggestedForThisContent

Good == Ledger' /\ HumanStep /\ OverrideStep /\ AnswersStep

\* What is read under locks.
Guarded == UNION {PublishLocks(r) : r \in Publishing}

SameEvidence(d) ==
    /\ paper'[d].state = paper[d].state /\ paper'[d].revision = paper[d].revision
    /\ paper'[d].decided = paper[d].decided /\ suggestion'[d] = suggestion[d]

\* A filed document stays filed, and a guarded one as it was read.
PapersFrame ==
    \A d \in Docs : paper[d].state # "absent" =>
        paper'[d].state # "absent" /\ (d \in Guarded => SameEvidence(d))

SameTraining(m) ==
    /\ model'[m].mode # "none" /\ model'[m].source = model[m].source
    /\ model'[m].input = model[m].input /\ model'[m].labels = model[m].labels

\* A trained model keeps what it was trained on.
ModelsFrame == \A m \in Models : model[m].mode # "none" => SameTraining(m)

LEMMA UnlockedIsNotGuarded ==
    ASSUME NEW d, Unlocked(d)
    PROVE  d \notin Guarded
BY DEF Unlocked, LockedDocs, Guarded

LEMMA PublishersGuard ==
    ASSUME NEW r \in Runners, runner[r].step = "publishing"
    PROVE  /\ runner[r].doc \in Guarded
           /\ runner[r].model \in Models => model[runner[r].model].source \in Guarded
<1>1. r \in Publishing
  BY DEF Publishing
<1>2. /\ runner[r].doc \in PublishLocks(r)
      /\ runner[r].model \in Models => model[runner[r].model].source \in PublishLocks(r)
  BY DEF PublishLocks
<1> QED BY <1>1, <1>2 DEF Guarded

\* The locks keep what a worker found.
LEMMA PublishersKeep ==
    ASSUME Trained, PapersFrame, ModelsFrame, NEW r \in Runners, Clerk(runner[r])
    PROVE  Clerk(runner[r])' \/ runner'[r] # runner[r]
<1> SUFFICES ASSUME runner'[r] = runner[r] PROVE Clerk(runner[r])'
  OBVIOUS
<1> DEFINE row == runner[r]
           d == row.doc
           m == row.model
<1>1. CASE row.step # "publishing"
  BY <1>1 DEF Clerk, IsRunner
<1>2. CASE row.step = "publishing"
  <2>1. Publishable(row) /\ d \in Docs
    BY <1>2 DEF Clerk
  <2>2. SameEvidence(d) /\ paper'[d].state # "absent"
    BY <1>2, <2>1, PublishersGuard DEF PapersFrame, Publishable
  <2>3. ASSUME m \in Models
        PROVE  /\ model'[m].mode # "none"
               /\ model'[m].input =
                    <<paper'[model'[m].source].state, paper'[model'[m].source].revision>>
               /\ model'[m].labels = paper'[model'[m].source].decided
    <3>1. /\ model[m].mode # "none" /\ model[m].input = Input(model[m].source)
          /\ model[m].labels = paper[model[m].source].decided
      BY <2>1, <2>3 DEF Publishable
    <3>2. SameTraining(m) /\ model[m].source \in Docs /\ paper[model[m].source].state # "absent"
      BY <2>3, <3>1 DEF ModelsFrame, Trained
    <3>3. SameEvidence(model[m].source)
      BY <1>2, <2>3, <3>2, PublishersGuard DEF PapersFrame
    <3> QED BY <3>1, <3>2, <3>3 DEF SameTraining, SameEvidence, Input
  <2>4. Publishable(row)'
    <3>1. paper[d].state # "absent" /\ suggestion[d].input = Input(d) /\ m = suggestion[d].model
      BY <2>1 DEF Publishable
    <3>2. paper'[d].state # "absent" /\ suggestion'[d].input = Input(d)' /\ m = suggestion'[d].model
      BY <2>2, <3>1 DEF SameEvidence, Input
    <3> QED BY <2>3, <3>2 DEF Publishable, Input
  <2> QED BY <2>1, <2>4 DEF Clerk, IsRunner
<1> QED BY <1>1, <1>2

LEMMA ModelsInvalidated ==
    ASSUME Trained, PapersFrame, NEW docs, NEW any, model' = Invalidated(docs, any)
    PROVE  Trained' /\ ModelsFrame
<1>1. model' = [m \in Models |-> model'[m]]
  BY DEF Invalidated
<1>2. ASSUME NEW m \in Models
      PROVE  /\ IsTraining(model'[m]) /\ (model'[m].active => model'[m].mode # "none")
             /\ model[m].mode # "none" => SameTraining(m)
             /\ model'[m].mode # "none" => model[m].mode # "none"
  <2>1. IsTraining(model[m]) /\ (model[m].active => model[m].mode # "none")
    BY DEF Trained
  <2>2. CASE model[m].mode # "none" /\ (any \/ model[m].source \in docs)
    <3>1. model'[m] = [model[m] EXCEPT !.mode = "invalid", !.active = FALSE]
      BY <2>2 DEF Invalidated
    <3> QED BY <2>1, <2>2, <3>1 DEF IsTraining, SameTraining
  <2>3. CASE ~(model[m].mode # "none" /\ (any \/ model[m].source \in docs))
    <3>1. model'[m] = model[m]
      BY <2>3 DEF Invalidated
    <3> QED BY <2>1, <3>1 DEF SameTraining
  <2> QED BY <2>2, <2>3
<1>3. ASSUME NEW m \in Models, model'[m].mode # "none"
      PROVE  model'[m].source \in Docs /\ paper'[model'[m].source].state # "absent"
  BY <1>2, <1>3 DEF Trained, SameTraining, PapersFrame
<1> QED BY <1>1, <1>2, <1>3 DEF Trained, ModelsFrame

LEMMA ModelsSame ==
    ASSUME Trained, PapersFrame, model' = model
    PROVE  Trained' /\ ModelsFrame
<1>1. ModelsFrame
  BY DEF ModelsFrame, SameTraining
<1>2. Trained'
  BY DEF Trained, PapersFrame
<1> QED BY <1>1, <1>2

\* Nobody saves an answer in this step.
NoAnswer ==
    /\ suggestion' = [d \in Docs |-> suggestion'[d]]
    /\ \A d \in Docs : suggestion'[d] = suggestion[d] \/ suggestion'[d] = NoSuggestion

LEMMA SuggestionsKept ==
    ASSUME Suggestions, NoAnswer
    PROVE  Suggestions'
BY DEF Suggestions, NoAnswer, NoSuggestion

LEMMA OthersKeepAnswers ==
    ASSUME Answers, PapersFrame, ModelsFrame, Trained', Tasks', runner' = runner, NoAnswer
    PROVE  Answers'
<1>1. Suggestions'
  BY SuggestionsKept DEF Answers
<1>2. Clerks'
  <2>1. ASSUME NEW r \in Runners PROVE Clerk(runner[r])'
    BY PublishersKeep DEF Answers, Clerks
  <2> QED BY <2>1 DEF Answers, Clerks
<1> QED BY <1>1, <1>2 DEF Answers

\* Steps in which no model gives a tag and no worker saves an answer.
LEMMA NoGiftIsFine ==
    ASSUME \A d \in Docs : \A g \in paper'[d].gifts : g \in paper[d].gifts \/ g.source \notin Models,
           NoAnswer
    PROVE  OverrideStep /\ AnswersStep
<1>1. \A d \in Docs : NewlyGiven(d) = {}
  BY DEF NewlyGiven
<1>2. OverrideStep
  BY <1>1 DEF OverrideStep
<1>3. AnswersStep
  BY <1>1 DEF AnswersStep, AppliedToWhatWasRead, SuggestedForThisContent, NoAnswer
<1> QED BY <1>2, <1>3

LEMMA GivenIsCarried ==
    ASSUME NEW d \in Docs, SoundPaper(paper[d]), NEW t \in GivenByPeople(d)
    PROVE  /\ t \in paper[d].tags
           /\ \E g \in paper[d].gifts : g.tag = t /\ g.source \notin Models
<1>1. Bootstrapped(paper[d]) = paper[d].gifts /\ paper[d].tags = TagsOf(paper[d].gifts)
  BY NothingToBootstrap DEF SoundPaper
<1> QED BY <1>1 DEF GivenByPeople, TagsOf

\* Steps that change no document's tags.
LEMMA SameTagsAreFine ==
    ASSUME Core, \A d \in Docs : paper'[d].tags = paper[d].tags
    PROVE  HumanStep
<1>1. ASSUME NEW d \in Docs, NEW t \in GivenByPeople(d) PROVE t \in paper'[d].tags
  BY GivenIsCarried, PaperSound
<1> QED BY <1>1 DEF HumanStep

LEMMA ReviewSources == "legacy" \notin Models /\ "review" \notin Models
BY TopicConstants

\* A change of one document that nobody holds, by people.
LEMMA WriteIsGood ==
    ASSUME Ledger, NEW d \in Docs, Unlocked(d) \/ paper[d].state = "absent",
           NEW new, SoundPaper(new), new.state # "absent",
           paper' = [paper EXCEPT ![d] = new], topic' = Counted(topic, paper'),
           model' = Invalidated({d}, FALSE),
           \A t \in new.tags : t \in paper[d].tags \/ topic[t].canonical = NoTag,
           \A g \in new.gifts : g \in paper[d].gifts \/ g.source \notin Models,
           \A t \in paper[d].tags :
               t \in new.tags \/ new.decided[t].verdict = "reject" \/ new.state = "purged",
           runner' = runner, merging' = merging, form' = form, Tasks', NoAnswer,
           \A e \in Docs : e # d => suggestion'[e] = suggestion[e]
    PROVE  Good
<1>1. Core /\ Desk /\ Answers
  BY DEF Ledger
<1>2. /\ \A e \in Docs : e # d => paper'[e] = paper[e]
      /\ paper'[d] = new /\ SoundPapers(paper')
  <2>1. SoundPapers(paper)
    BY <1>1 DEF Core
  <2> QED BY <2>1 DEF SoundPapers
<1>3. Core' /\ \A t \in Tags : topic'[t].canonical = topic[t].canonical
  <2>1. \A e \in Docs : \A t \in paper'[e].tags : topic[t].canonical = NoTag
    <3>1. \A e \in Docs : \A t \in paper[e].tags : t \in Tags /\ topic[t].canonical = NoTag
      <4>1. ASSUME NEW e \in Docs, NEW t \in paper[e].tags PROVE t \in Tags
        BY <1>1, PaperSound, RowTypes
      <4> QED BY <1>1, <4>1 DEF Core, MergedTagsAreGone
    <3> QED BY <1>2, <3>1
  <2>2. topic \in [Tags -> Topic]
    BY <1>1 DEF Core
  <2> QED BY <1>1, <1>2, <2>1, <2>2, CountedKeeps
<1>4. PapersFrame
  <2>1. ASSUME NEW e \in Docs, paper[e].state # "absent"
        PROVE  paper'[e].state # "absent" /\ (e \in Guarded => SameEvidence(e))
    <3>1. CASE e = d
      BY <1>2, <2>1, <3>1, UnlockedIsNotGuarded
    <3>2. CASE e # d
      BY <1>2, <2>1, <3>2 DEF SameEvidence
    <3> QED BY <3>1, <3>2
  <2> QED BY <2>1 DEF PapersFrame
<1>5. Answers'
  <2>1. Trained' /\ ModelsFrame
    BY <1>1, <1>4, ModelsInvalidated DEF Answers
  <2> QED BY <1>1, <1>4, <2>1, OthersKeepAnswers
<1>6. Desk'
  BY <1>1, <1>3 DEF Desk
<1>7. OverrideStep /\ AnswersStep
  <2>1. \A e \in Docs : \A g \in paper'[e].gifts : g \in paper[e].gifts \/ g.source \notin Models
    BY <1>2
  <2> QED BY <2>1, NoGiftIsFine
<1>8. HumanStep
  <2>1. ASSUME NEW e \in Docs, NEW t \in GivenByPeople(e) \ paper'[e].tags
        PROVE  \/ paper'[e].decided[t].verdict = "reject"
               \/ topic'[t].canonical \in paper'[e].tags
               \/ paper'[e].state = "purged"
    <3>1. t \in paper[e].tags
      BY <1>1, <2>1, GivenIsCarried, PaperSound
    <3> QED BY <1>2, <2>1, <3>1
  <2> QED BY <2>1 DEF HumanStep
<1> QED BY <1>3, <1>5, <1>6, <1>7, <1>8 DEF Good, Ledger

LEMMA PeopleLeaveWork ==
    ASSUME Answers, UNCHANGED peopleVars
    PROVE  /\ Tasks' /\ NoAnswer /\ runner' = runner
           /\ \A e \in Docs : suggestion'[e] = suggestion[e]
<1>1. task' = task /\ suggestion' = suggestion /\ runner' = runner
  BY DEF peopleVars
<1>2. Tasks'
  BY <1>1 DEF Answers, Tasks
<1>3. NoAnswer
  BY <1>1 DEF Answers, Suggestions, NoAnswer
<1> QED BY <1>1, <1>2, <1>3

\* A review, through Write.
LEMMA DecisionIsGood ==
    ASSUME Ledger, NEW d \in Docs, Unlocked(d), paper[d].state # "absent",
           NEW verdicts, VerdictsOK(verdicts),
           \A t \in DOMAIN verdicts : verdicts[t] = "confirm" => (t \in paper[d].tags \/ Offered(t)),
           Write(d, Decided(paper[d], verdicts)), UNCHANGED <<peopleVars, merging, form>>
    PROVE  Good
<1> DEFINE new == Materialized(Decided(paper[d], verdicts))
<1>1. SoundPaper(paper[d])
  BY PaperSound DEF Ledger
<1>2. /\ SoundPaper(new) /\ new.state = paper[d].state
      /\ \A t \in new.tags : t \in paper[d].tags \/ (t \in DOMAIN verdicts /\ verdicts[t] = "confirm")
      /\ \A g \in new.gifts : g \in paper[d].gifts \/ g.source = "review"
      /\ \A t \in paper[d].tags : t \in new.tags \/ new.decided[t].verdict = "reject"
  BY <1>1, DecidedRow
<1>3. /\ paper' = [paper EXCEPT ![d] = new] /\ topic' = Counted(topic, paper')
      /\ model' = Invalidated({d}, FALSE)
  BY DEF Write
<1> HIDE DEF new
<1>4. Tasks' /\ NoAnswer /\ runner' = runner /\ \A e \in Docs : suggestion'[e] = suggestion[e]
  BY PeopleLeaveWork DEF Ledger
<1>5. \A t \in new.tags : t \in paper[d].tags \/ topic[t].canonical = NoTag
  BY <1>2 DEF Offered
<1>6. \A g \in new.gifts : g \in paper[d].gifts \/ g.source \notin Models
  BY <1>2, ReviewSources
<1> QED BY <1>2, <1>3, <1>4, <1>5, <1>6, WriteIsGood

LEMMA ReviewIsGood ==
    ASSUME Ledger, NEW d \in Docs, NEW verdicts, VerdictsOK(verdicts), Review(d, verdicts)
    PROVE  Good
BY DecisionIsGood DEF Review, MayEdit

\* The verdicts of a replacement.
Swap(d, desired) == [t \in paper[d].tags \cup desired |-> IF t \in desired THEN "confirm" ELSE "reject"]

LEMMA SwapOK ==
    ASSUME NEW d, SoundPaper(paper[d]), NEW desired \in SUBSET Tags
    PROVE  /\ VerdictsOK(Swap(d, desired))
           /\ DOMAIN Swap(d, desired) = paper[d].tags \cup desired
           /\ \A t \in DOMAIN Swap(d, desired) : Swap(d, desired)[t] = "confirm" => t \in desired
           /\ Replaced(d, desired) = Decided(paper[d], Swap(d, desired))
<1>1. paper[d].tags \subseteq Tags
  BY RowTypes
<1> QED BY <1>1 DEF Swap, VerdictsOK, Verdicts, Replaced

LEMMA ReplaceTagsIsGood ==
    ASSUME Ledger, NEW d \in Docs, NEW desired \in SUBSET Tags, ReplaceTags(d, desired)
    PROVE  Good
<1>1. SoundPaper(paper[d])
  BY PaperSound DEF Ledger
<1>2. /\ Unlocked(d) /\ paper[d].state # "absent"
      /\ \A t \in desired \ paper[d].tags : Offered(t)
      /\ Write(d, Replaced(d, desired)) /\ UNCHANGED <<peopleVars, merging, form>>
  BY DEF ReplaceTags, MayEdit
<1>3. \A t \in DOMAIN Swap(d, desired) :
          Swap(d, desired)[t] = "confirm" => (t \in paper[d].tags \/ Offered(t))
  BY <1>1, <1>2, SwapOK
<1>4. Write(d, Decided(paper[d], Swap(d, desired))) /\ VerdictsOK(Swap(d, desired))
  BY <1>1, <1>2, SwapOK
<1> QED BY <1>2, <1>3, <1>4, DecisionIsGood

LEMMA DecidedIsPaper ==
    ASSUME NEW row, SoundPaper(row), NEW verdicts, VerdictsOK(verdicts),
           NEW dec, dec = Decided(row, verdicts)
    PROVE  Materialized([dec EXCEPT !.state = "active"]) = [Materialized(dec) EXCEPT !.state = "active"]
<1>1. dec = [row EXCEPT !.decided = dec.decided, !.gifts = dec.gifts]
  BY DEF Decided, SoundPaper, Paper
<1>2. row \in Paper
  BY DEF SoundPaper
<1> DEFINE decided == dec.decided
           gifts == dec.gifts
<1> HIDE DEF decided, gifts
<1>3. dec = [row EXCEPT !.decided = decided, !.gifts = gifts]
  BY <1>1 DEF decided, gifts
<1>4. /\ [dec EXCEPT !.state = "active"].gifts = gifts /\ dec.gifts = gifts
  BY <1>2, <1>3 DEF Paper
<1> DEFINE tags == TagsOf(gifts)
<1> HIDE DEF tags
<1>5. /\ Materialized([dec EXCEPT !.state = "active"]) = [[dec EXCEPT !.state = "active"] EXCEPT !.tags = tags]
      /\ Materialized(dec) = [dec EXCEPT !.tags = tags]
  BY <1>4 DEF Materialized, tags
<1> QED BY <1>2, <1>3, <1>5 DEF Paper

LEMMA FileDocumentIsGood ==
    ASSUME Ledger, NEW d \in Docs, NEW desired \in SUBSET Tags, FileDocument(d, desired)
    PROVE  Good
<1> DEFINE dec == Decided(paper[d], Swap(d, desired))
           filed == Materialized(dec)
           new == [filed EXCEPT !.state = "active"]
<1>1. SoundPaper(paper[d])
  BY PaperSound DEF Ledger
<1>2. /\ paper[d].state = "absent" /\ \A t \in desired : Offered(t)
      /\ Write(d, [Replaced(d, desired) EXCEPT !.state = "active"])
      /\ UNCHANGED <<peopleVars, merging, form>>
  BY DEF FileDocument
<1>3. /\ SoundPaper(filed)
      /\ \A t \in filed.tags : t \in paper[d].tags \/ t \in desired
      /\ \A g \in filed.gifts : g \in paper[d].gifts \/ g.source = "review"
      /\ \A t \in paper[d].tags : t \in filed.tags \/ filed.decided[t].verdict = "reject"
  <2>1. VerdictsOK(Swap(d, desired)) /\ DOMAIN Swap(d, desired) = paper[d].tags \cup desired
    BY <1>1, SwapOK
  <2>2. \A t \in DOMAIN Swap(d, desired) : Swap(d, desired)[t] = "confirm" => t \in desired
    BY <1>1, SwapOK
  <2>3. /\ SoundPaper(filed)
        /\ \A t \in filed.tags :
              t \in paper[d].tags \/ (t \in DOMAIN Swap(d, desired) /\ Swap(d, desired)[t] = "confirm")
        /\ \A g \in filed.gifts : g \in paper[d].gifts \/ g.source = "review"
        /\ \A t \in paper[d].tags : t \in filed.tags \/ filed.decided[t].verdict = "reject"
    BY <1>1, <2>1, DecidedRow
  <2> QED BY <2>2, <2>3
<1>4. new = Materialized([dec EXCEPT !.state = "active"])
  <2>1. VerdictsOK(Swap(d, desired))
    BY <1>1, SwapOK
  <2>2. \A x : x = dec => Materialized([x EXCEPT !.state = "active"]) = [Materialized(x) EXCEPT !.state = "active"]
    BY <1>1, <2>1, DecidedIsPaper
  <2> QED BY <2>2
<1>5. /\ paper' = [paper EXCEPT ![d] = new] /\ topic' = Counted(topic, paper')
      /\ model' = Invalidated({d}, FALSE)
  <2>1. Replaced(d, desired) = dec
    BY <1>1, SwapOK
  <2> QED BY <1>2, <1>4, <2>1 DEF Write
<1> HIDE DEF filed, dec
<1>6. /\ SoundPaper(new) /\ new.tags = filed.tags /\ new.gifts = filed.gifts
      /\ new.decided = filed.decided /\ new.state = "active"
  BY <1>3 DEF SoundPaper, Paper
<1> HIDE DEF new
<1>7. Tasks' /\ NoAnswer /\ runner' = runner /\ \A e \in Docs : suggestion'[e] = suggestion[e]
  BY <1>2, PeopleLeaveWork DEF Ledger
<1>8. \A t \in new.tags : t \in paper[d].tags \/ topic[t].canonical = NoTag
  BY <1>2, <1>3, <1>6 DEF Offered
<1>9. \A g \in new.gifts : g \in paper[d].gifts \/ g.source \notin Models
  BY <1>3, <1>6, ReviewSources
<1>10. \A t \in paper[d].tags : t \in new.tags \/ new.decided[t].verdict = "reject"
  BY <1>3, <1>6
<1> QED BY <1>2, <1>5, <1>6, <1>7, <1>8, <1>9, <1>10, WriteIsGood

LEMMA NoTaskIsTask == IsTask(NoTask)
BY DEF IsTask, NoTask

LEMMA PurgeIsGood ==
    ASSUME Ledger, NEW d \in Docs, PurgePaper(d)
    PROVE  Good
<1> DEFINE new == Erased(paper[d])
<1>1. SoundPaper(paper[d])
  BY PaperSound DEF Ledger
<1>2. /\ SoundPaper(new) /\ new.tags = {} /\ new.gifts = {} /\ new.state = "purged"
  <2>1. Unheard \in [Tags -> Word]
    BY DEF Unheard, Word, Verdict
  <2>2. /\ new \in Paper /\ new.tags = {} /\ new.gifts = {} /\ new.state = "purged"
    BY <1>1, <2>1 DEF SoundPaper, Paper, Erased
  <2>3. TagsOf({}) = {}
    BY DEF TagsOf
  <2> QED BY <2>2, <2>3 DEF SoundPaper
<1>3. /\ paper' = [paper EXCEPT ![d] = new] /\ topic' = Counted(topic, paper')
      /\ model' = Invalidated({d}, FALSE) /\ Unlocked(d)
      /\ task' = [k \in TaskKinds |-> [task[k] EXCEPT ![d] = NoTask]]
      /\ suggestion' = [suggestion EXCEPT ![d] = NoSuggestion]
      /\ UNCHANGED <<runner, merging, form>>
  BY DEF PurgePaper
<1> HIDE DEF new
<1>4. Tasks'
  BY <1>3, NoTaskIsTask DEF Ledger, Answers, Tasks
<1>5. NoAnswer /\ \A e \in Docs : e # d => suggestion'[e] = suggestion[e]
  BY <1>3 DEF Ledger, Answers, Suggestions, NoAnswer
<1> QED BY <1>2, <1>3, <1>4, <1>5, WriteIsGood

-----------------------------------------------------------------------------
(* Steps that change no tags *)

LEMMA QuietIsGood ==
    ASSUME Ledger, SoundPapers(paper'), PapersFrame,
           \A d \in Docs : paper'[d].tags = paper[d].tags /\ paper'[d].gifts = paper[d].gifts,
           topic' \in [Tags -> Topic], \A t \in Tags : topic'[t].usage = topic[t].usage,
           \A t \in Tags : topic'[t].canonical # NoTag => topic[t].canonical # NoTag,
           Desk', Trained', ModelsFrame, Tasks', NoAnswer, runner' = runner
    PROVE  Good
<1>1. Core'
  BY SameTagsKeep DEF Ledger
<1>2. Answers'
  BY OthersKeepAnswers DEF Ledger
<1>3. HumanStep
  BY SameTagsAreFine DEF Ledger
<1>4. OverrideStep /\ AnswersStep
  BY NoGiftIsFine
<1> QED BY <1>1, <1>2, <1>3, <1>4 DEF Good, Ledger

\* Nothing happens to a document.
LEMMA SamePapers ==
    ASSUME Ledger, UNCHANGED <<paper, peopleVars>>
    PROVE  /\ SoundPapers(paper') /\ PapersFrame
           /\ \A d \in Docs : paper'[d].tags = paper[d].tags /\ paper'[d].gifts = paper[d].gifts
           /\ Tasks' /\ NoAnswer /\ runner' = runner
<1>1. paper' = paper /\ Tasks' /\ NoAnswer /\ runner' = runner
      /\ \A e \in Docs : suggestion'[e] = suggestion[e]
  BY PeopleLeaveWork DEF Ledger
<1>2. PapersFrame
  BY <1>1 DEF PapersFrame, SameEvidence
<1>3. SoundPapers(paper')
  BY <1>1 DEF Ledger, Core
<1> QED BY <1>1, <1>2, <1>3

LEMMA SameTopics ==
    ASSUME Ledger, topic' = topic
    PROVE  /\ topic' \in [Tags -> Topic] /\ \A t \in Tags : topic'[t].usage = topic[t].usage
           /\ \A t \in Tags : topic'[t].canonical # NoTag => topic[t].canonical # NoTag
           /\ UNCHANGED <<merging, form>> => Desk'
BY DEF Ledger, Core, Desk

\* A change of a document that nobody holds, or that no worker looks at, beside its tags.
LEMMA TouchIsGood ==
    ASSUME Ledger, NEW d \in Docs, NEW new, SoundPaper(new),
           new.tags = paper[d].tags, new.gifts = paper[d].gifts, new.decided = paper[d].decided,
           paper[d].state # "absent" => new.state # "absent",
           Unlocked(d) \/ (new.state = paper[d].state /\ new.revision = paper[d].revision),
           paper' = [paper EXCEPT ![d] = new],
           model' = model \/ model' = Invalidated({d}, FALSE),
           UNCHANGED <<peopleVars, topic, merging, form>>
    PROVE  Good
<1>1. /\ \A e \in Docs : e # d => paper'[e] = paper[e]
      /\ paper'[d] = new /\ SoundPapers(paper')
  <2>1. SoundPapers(paper)
    BY DEF Ledger, Core
  <2> QED BY <2>1 DEF SoundPapers
<1>2. Tasks' /\ NoAnswer /\ runner' = runner /\ \A e \in Docs : suggestion'[e] = suggestion[e]
  BY PeopleLeaveWork DEF Ledger
<1>3. PapersFrame
  <2>1. ASSUME NEW e \in Docs, paper[e].state # "absent"
        PROVE  paper'[e].state # "absent" /\ (e \in Guarded => SameEvidence(e))
    <3>1. CASE e = d /\ Unlocked(d)
      BY <1>1, <2>1, <3>1, UnlockedIsNotGuarded
    <3>2. CASE e = d /\ ~Unlocked(d)
      BY <1>1, <1>2, <2>1, <3>2 DEF SameEvidence
    <3>3. CASE e # d
      BY <1>1, <1>2, <2>1, <3>3 DEF SameEvidence
    <3> QED BY <3>1, <3>2, <3>3
  <2> QED BY <2>1 DEF PapersFrame
<1>4. Trained' /\ ModelsFrame
  <2>1. Trained
    BY DEF Ledger, Answers
  <2> QED BY <1>3, <2>1, ModelsInvalidated, ModelsSame
<1>5. \A e \in Docs : paper'[e].tags = paper[e].tags /\ paper'[e].gifts = paper[e].gifts
  BY <1>1
<1> QED BY <1>1, <1>2, <1>3, <1>4, <1>5, SameTopics, QuietIsGood

LEMMA EditIsGood ==
    ASSUME Ledger, NEW d \in Docs, Edit(d)
    PROVE  Good
<1>1. SoundPaper(paper[d])
  BY PaperSound DEF Ledger
<1>2. PICK run \in {paper[d].run, "superseded"} :
          paper' = [paper EXCEPT ![d].revision = @ + 1, ![d].run = run]
  BY DEF Edit
<1> DEFINE new == [paper[d] EXCEPT !.revision = @ + 1, !.run = run]
<1>3. /\ SoundPaper(new) /\ new.tags = paper[d].tags /\ new.gifts = paper[d].gifts
      /\ new.decided = paper[d].decided /\ new.state = paper[d].state
  <2>1. /\ run \in {"current", "superseded", "orphaned"} /\ paper[d].revision + 1 \in Nat
        /\ paper[d] \in Paper /\ paper[d].tags = TagsOf(paper[d].gifts)
    BY <1>1, RowTypes DEF SoundPaper
  <2>2. /\ new \in Paper /\ new.tags = paper[d].tags /\ new.gifts = paper[d].gifts
        /\ new.decided = paper[d].decided /\ new.state = paper[d].state
    BY <2>1 DEF Paper
  <2> QED BY <2>1, <2>2 DEF SoundPaper
<1>4. paper' = [paper EXCEPT ![d] = new]
  BY <1>2 DEF Ledger, Core, SoundPapers
<1>5. /\ Unlocked(d) /\ model' = Invalidated({d}, FALSE)
      /\ UNCHANGED <<peopleVars, topic, merging, form>>
  BY DEF Edit, MayEdit
<1> HIDE DEF new
<1> QED BY <1>3, <1>4, <1>5, TouchIsGood

LEMMA LoseActorIsGood ==
    ASSUME Ledger, NEW d \in Docs, LoseActor(d)
    PROVE  Good
<1>1. SoundPaper(paper[d])
  BY PaperSound DEF Ledger
<1> DEFINE new == [paper[d] EXCEPT !.run = "orphaned"]
<1>2. /\ SoundPaper(new) /\ new.tags = paper[d].tags /\ new.gifts = paper[d].gifts
      /\ new.decided = paper[d].decided /\ new.state = paper[d].state
      /\ new.revision = paper[d].revision
  BY <1>1 DEF SoundPaper, Paper
<1>3. paper' = [paper EXCEPT ![d] = new] /\ UNCHANGED <<peopleVars, topic, model, merging, form>>
  BY DEF LoseActor
<1> HIDE DEF new
<1> QED BY <1>2, <1>3, TouchIsGood

LEMMA RemoveOrRestoreIsGood ==
    ASSUME Ledger, NEW d \in Docs, RemoveOrRestore(d)
    PROVE  Good
<1>1. SoundPaper(paper[d])
  BY PaperSound DEF Ledger
<1> DEFINE state == IF paper[d].state = "active" THEN "removed" ELSE "active"
           new == [paper[d] EXCEPT !.state = state]
<1>2. state \in {"active", "removed"}
  OBVIOUS
<1>3. paper' = [paper EXCEPT ![d] = new] /\ Unlocked(d) /\ model' = Invalidated({d}, FALSE)
      /\ UNCHANGED <<peopleVars, topic, merging, form>>
  BY DEF RemoveOrRestore
<1> HIDE DEF state
<1>4. /\ SoundPaper(new) /\ new.tags = paper[d].tags /\ new.gifts = paper[d].gifts
      /\ new.decided = paper[d].decided /\ new.state # "absent"
  BY <1>1, <1>2 DEF SoundPaper, Paper
<1> HIDE DEF new
<1> QED BY <1>3, <1>4, TouchIsGood

LEMMA MergeBeginIsGood ==
    ASSUME Ledger, NEW source \in Tags, NEW target \in Tags, MergeBegin(source, target)
    PROVE  Good
<1>1. /\ UNCHANGED <<peopleVars, topic, paper, model, form>> /\ source # target
      /\ \E docs : merging' = [source |-> source, target |-> target, docs |-> docs]
  BY DEF MergeBegin
<1>2. Desk'
  BY <1>1 DEF Ledger, Desk
<1>3. Trained' /\ ModelsFrame
  BY <1>1, SamePapers, ModelsSame DEF Ledger, Answers
<1> QED BY <1>1, <1>2, <1>3, SamePapers, SameTopics, QuietIsGood

LEMMA OpenFormIsGood ==
    ASSUME Ledger, NEW t \in Tags, OpenForm(t)
    PROVE  Good
<1>1. /\ UNCHANGED <<peopleVars, topic, paper, model, merging>>
      /\ form' = [tag |-> t, canonical |-> topic[t].canonical]
  BY DEF OpenForm
<1>2. Desk'
  <2>1. topic[t].canonical \in Tags \cup {NoTag}
    BY DEF Ledger, Core, Topic
  <2> QED BY <1>1, <2>1 DEF Ledger, Desk
<1>3. Trained' /\ ModelsFrame
  BY <1>1, SamePapers, ModelsSame DEF Ledger, Answers
<1> QED BY <1>1, <1>2, <1>3, SamePapers, SameTopics, QuietIsGood

LEMMA SaveFormIsGood ==
    ASSUME Ledger, NEW active \in BOOLEAN, NEW automatic \in BOOLEAN, SaveForm(active, automatic)
    PROVE  Good
<1> DEFINE t == form.tag
           new == [topic[t] EXCEPT !.canonical = form.canonical, !.active = active, !.automatic = automatic]
<1>1. /\ UNCHANGED <<peopleVars, paper, merging>> /\ form' = NoForm /\ form # NoForm
      /\ topic' = [topic EXCEPT ![t] = new]
      /\ model' = Invalidated({}, VocabularyOf(topic') # Vocabulary)
  BY DEF SaveForm
<1>2. /\ t \in Tags /\ form.canonical \in Tags \cup {NoTag}
      /\ form.canonical # NoTag => topic[t].canonical # NoTag
      /\ topic \in [Tags -> Topic]
  BY <1>1 DEF Ledger, Desk, Core
<1>3. new \in Topic /\ new.usage = topic[t].usage /\ new.canonical = form.canonical
  BY <1>2 DEF Topic
<1> HIDE DEF new
<1>4. /\ topic' \in [Tags -> Topic] /\ \A u \in Tags : topic'[u].usage = topic[u].usage
      /\ \A u \in Tags : topic'[u].canonical # NoTag => topic[u].canonical # NoTag
  BY <1>1, <1>2, <1>3
<1>5. Desk'
  BY <1>1 DEF Ledger, Desk
<1>6. Trained' /\ ModelsFrame
  BY <1>1, SamePapers, ModelsInvalidated DEF Ledger, Answers
<1> QED BY <1>1, <1>4, <1>5, <1>6, SamePapers, QuietIsGood

LEMMA MergeEndIsGood ==
    ASSUME Ledger, MergeEnd
    PROVE  Good
<1> DEFINE s == merging.source
           t == merging.target
           redirected == [topic EXCEPT ![merging.source].canonical = merging.target,
                                       ![merging.source].active = FALSE,
                                       ![merging.source].automatic = FALSE]
<1>1. /\ merging # NoMerge /\ merging' = NoMerge /\ UNCHANGED <<peopleVars, form>>
      /\ s \in Tags /\ t \in Tags /\ s # t
  BY DEF MergeEnd, Ledger, Desk
<1>2. CASE ~Mergeable
  <2>1. UNCHANGED <<topic, paper, model>>
    BY <1>2 DEF MergeEnd
  <2>2. Desk'
    BY <1>1, <2>1 DEF Ledger, Desk
  <2>3. Trained' /\ ModelsFrame
    BY <1>1, <2>1, SamePapers, ModelsSame DEF Ledger, Answers
  <2> QED BY <1>1, <2>1, <2>2, <2>3, SamePapers, SameTopics, QuietIsGood
<1>3. CASE Mergeable
  <2>1. /\ paper' = [d \in Docs |-> IF d \in merging.docs THEN Merged(paper[d]) ELSE paper[d]]
        /\ topic' = Counted(redirected, paper') /\ model' = Invalidated({}, TRUE)
    BY <1>3 DEF MergeEnd
  <2>2. /\ topic \in [Tags -> Topic] /\ topic[t].canonical = NoTag
        /\ \A d \in Docs \ merging.docs : s \notin paper[d].tags
    BY <1>3 DEF Mergeable, Offered, Ledger, Core
  <2>3. /\ redirected \in [Tags -> Topic] /\ redirected[s].canonical = t
        /\ \A u \in Tags : /\ redirected[u].usage = topic[u].usage
                           /\ u # s => redirected[u].canonical = topic[u].canonical
    <3> DEFINE new == [topic[s] EXCEPT !.canonical = t, !.active = FALSE, !.automatic = FALSE]
    <3>1. redirected = [topic EXCEPT ![s] = new]
      BY <1>1, <2>2
    <3>2. new \in Topic /\ new.usage = topic[s].usage /\ new.canonical = t
      BY <1>1, <2>2 DEF Topic
    <3> HIDE DEF new
    <3>3. \A u \in Tags : redirected[u] = IF u = s THEN new ELSE topic[u]
      BY <2>2, <3>1
    <3>4. redirected \in [Tags -> Topic]
      BY <2>2, <3>1, <3>2
    <3> QED BY <1>1, <3>2, <3>3, <3>4
  <2> HIDE DEF redirected
  <2>4. ASSUME NEW d \in Docs
        PROVE  /\ SoundPaper(paper'[d]) /\ paper'[d].decided = paper[d].decided
               /\ paper'[d].state = paper[d].state /\ paper'[d].revision = paper[d].revision
               /\ \A u \in paper'[d].tags : (u \in paper[d].tags /\ u # s) \/ u = t
               /\ \A u \in paper[d].tags : u \in paper'[d].tags \/ (u = s /\ t \in paper'[d].tags)
    <3>1. SoundPaper(paper[d])
      BY PaperSound DEF Ledger
    <3>2. CASE d \in merging.docs
      <4>1. paper'[d] = Merged(paper[d])
        BY <2>1, <3>2
      <4> QED BY <1>1, <3>1, <4>1, MergedRow
    <3>3. CASE d \notin merging.docs
      <4>1. paper'[d] = paper[d] /\ s \notin paper[d].tags
        BY <2>1, <2>2, <3>3
      <4> QED BY <3>1, <4>1
    <3> QED BY <3>2, <3>3
  <2>5. SoundPapers(paper')
    BY <2>1, <2>4 DEF SoundPapers
  <2>6. \A d \in Docs : \A u \in paper'[d].tags : redirected[u].canonical = NoTag
    <3>1. ASSUME NEW d \in Docs, NEW u \in paper'[d].tags PROVE redirected[u].canonical = NoTag
      <4>1. u \in Tags
        BY <2>4, <3>1, RowTypes
      <4>2. u = t \/ (u # s /\ topic[u].canonical = NoTag)
        BY <2>4, <3>1, <4>1 DEF Ledger, Core, MergedTagsAreGone
      <4> QED BY <1>1, <2>2, <2>3, <4>1, <4>2
    <3> QED BY <3>1
  <2>7. Core' /\ \A u \in Tags : topic'[u].canonical = redirected[u].canonical
    BY <2>1, <2>3, <2>5, <2>6, CountedKeeps DEF Ledger
  <2>8. Desk'
    <3>1. \A u \in Tags : topic[u].canonical # NoTag => topic'[u].canonical # NoTag
      BY <1>1, <2>3, <2>7, TopicConstants
    <3> QED BY <1>1, <3>1 DEF Ledger, Desk
  <2>9. /\ Tasks' /\ NoAnswer /\ runner' = runner /\ \A e \in Docs : suggestion'[e] = suggestion[e]
    BY <1>1, PeopleLeaveWork DEF Ledger
  <2>10. PapersFrame
    BY <2>4, <2>9 DEF PapersFrame, SameEvidence
  <2>11. Answers'
    <3>1. Answers
      BY DEF Ledger
    <3>2. Trained' /\ ModelsFrame
      BY <2>1, <2>10, <3>1, ModelsInvalidated DEF Answers
    <3> QED BY <2>9, <2>10, <3>1, <3>2, OthersKeepAnswers
  <2>12. OverrideStep /\ AnswersStep
    <3>1. merging' # merging
      BY <1>1
    <3> QED BY <2>9, <3>1
        DEF OverrideStep, AnswersStep, AppliedToWhatWasRead, SuggestedForThisContent
  <2>13. HumanStep
    <3>1. ASSUME NEW d \in Docs, NEW u \in GivenByPeople(d) \ paper'[d].tags
          PROVE  topic'[u].canonical \in paper'[d].tags
      <4>1. u \in paper[d].tags
        BY <3>1, GivenIsCarried, PaperSound DEF Ledger
      <4>2. u = s /\ t \in paper'[d].tags
        BY <2>4, <3>1, <4>1
      <4> QED BY <1>1, <2>3, <2>7, <4>2
    <3> QED BY <3>1 DEF HumanStep
  <2> QED BY <2>7, <2>8, <2>11, <2>12, <2>13 DEF Good, Ledger
<1> QED BY <1>2, <1>3

LEMMA RollbackIsGood ==
    ASSUME Ledger, NEW m \in Models, RollbackAutoTags(m)
    PROVE  Good
<1> DEFINE theirs == {d \in Docs : \E g \in paper[d].gifts : g.source = m}
<1>1. /\ paper' = [d \in Docs |-> IF d \in theirs THEN RolledBack(paper[d], m) ELSE paper[d]]
      /\ topic' = Counted(topic, paper')
      /\ UNCHANGED <<peopleVars, model, merging, form>>
  BY DEF RollbackAutoTags
<1> HIDE DEF theirs
<1>2. ASSUME NEW d \in Docs
      PROVE  /\ SoundPaper(paper'[d]) /\ paper'[d].decided = paper[d].decided
             /\ paper'[d].state = paper[d].state /\ paper'[d].revision = paper[d].revision
             /\ paper'[d].gifts \subseteq paper[d].gifts
             /\ \A g \in paper[d].gifts : g.source \notin Models => g.tag \in paper'[d].tags
  <2>1. SoundPaper(paper[d])
    BY PaperSound DEF Ledger
  <2>2. CASE d \in theirs
    <3>1. paper'[d] = RolledBack(paper[d], m)
      BY <1>1, <2>2
    <3> QED BY <2>1, <3>1, RolledBackRow
  <2>3. CASE d \notin theirs
    <3>1. paper'[d] = paper[d]
      BY <1>1, <2>3
    <3> QED BY <2>1, <3>1 DEF SoundPaper, TagsOf
  <2> QED BY <2>2, <2>3
<1>3. SoundPapers(paper')
  BY <1>1, <1>2 DEF SoundPapers
<1>4. \A d \in Docs : \A t \in paper'[d].tags : topic[t].canonical = NoTag
  <2>1. ASSUME NEW d \in Docs, NEW t \in paper'[d].tags PROVE topic[t].canonical = NoTag
    <3>1. SoundPaper(paper[d]) /\ SoundPaper(paper'[d]) /\ t \in Tags
      BY <1>2, <2>1, PaperSound, RowTypes DEF Ledger
    <3>2. t \in paper[d].tags
      BY <1>2, <2>1, <3>1 DEF SoundPaper, TagsOf
    <3> QED BY <3>1, <3>2 DEF Ledger, Core, MergedTagsAreGone
  <2> QED BY <2>1
<1>5. Core' /\ \A t \in Tags : topic'[t].canonical = topic[t].canonical
  <2>1. topic \in [Tags -> Topic]
    BY DEF Ledger, Core
  <2> QED BY <1>1, <1>3, <1>4, <2>1, CountedKeeps DEF Ledger
<1>6. Desk'
  BY <1>1, <1>5 DEF Ledger, Desk
<1>7. /\ Tasks' /\ NoAnswer /\ runner' = runner /\ \A e \in Docs : suggestion'[e] = suggestion[e]
  BY <1>1, PeopleLeaveWork DEF Ledger
<1>8. PapersFrame
  BY <1>2, <1>7 DEF PapersFrame, SameEvidence
<1>9. Answers'
  <2>1. Answers
    BY DEF Ledger
  <2>2. Trained' /\ ModelsFrame
    BY <1>1, <1>8, <2>1, ModelsSame DEF Answers
  <2> QED BY <1>7, <1>8, <2>1, <2>2, OthersKeepAnswers
<1>10. OverrideStep /\ AnswersStep
  BY <1>2, <1>7, NoGiftIsFine
<1>11. HumanStep
  <2>1. ASSUME NEW d \in Docs, NEW t \in GivenByPeople(d) PROVE t \in paper'[d].tags
    BY <1>2, <2>1, GivenIsCarried, PaperSound DEF Ledger
  <2> QED BY <2>1 DEF HumanStep
<1> QED BY <1>5, <1>6, <1>9, <1>10, <1>11 DEF Good, Ledger

\* Steps about the models alone.
LEMMA ModelStepIsGood ==
    ASSUME Ledger, UNCHANGED <<peopleVars, topic, paper, merging, form>>,
           model' = [m \in Models |-> model'[m]],
           \A m \in Models : /\ IsTraining(model'[m]) /\ (model'[m].active => model'[m].mode # "none")
                             /\ model[m].mode # "none" => SameTraining(m)
                             /\ (model[m].mode = "none" /\ model'[m].mode # "none") =>
                                   model'[m].source \in Docs /\ paper[model'[m].source].state # "absent"
    PROVE  Good
<1>1. Desk'
  BY SameTopics
<1>2. ModelsFrame
  BY DEF ModelsFrame
<1>3. Trained'
  <2>1. Trained /\ paper' = paper
    BY DEF Ledger, Answers
  <2> QED BY <2>1 DEF Trained, SameTraining
<1> QED BY <1>1, <1>2, <1>3, SamePapers, SameTopics, QuietIsGood

LEMMA TrainIsGood ==
    ASSUME Ledger, NEW m \in Models, NEW d \in Docs, Train(m, d)
    PROVE  Good
<1> DEFINE new == [mode |-> "candidate", active |-> FALSE, source |-> d,
                   vocabulary |-> Vocabulary, input |-> Input(d), labels |-> paper[d].decided]
<1>1. /\ model[m].mode = "none" /\ paper[d].state = "active" /\ model' = [model EXCEPT ![m] = new]
      /\ UNCHANGED <<peopleVars, topic, paper, merging, form>>
  BY DEF Train, MayEdit
<1>2. IsTraining(new) /\ new.mode # "none" /\ ~new.active /\ new.source = d
  BY DEF IsTraining
<1> HIDE DEF new
<1>3. Trained
  BY DEF Ledger, Answers
<1>4. model' = [n \in Models |-> model'[n]]
  BY <1>1, <1>3 DEF Trained
<1>5. ASSUME NEW n \in Models
      PROVE  /\ IsTraining(model'[n]) /\ (model'[n].active => model'[n].mode # "none")
             /\ model[n].mode # "none" => SameTraining(n)
             /\ (model[n].mode = "none" /\ model'[n].mode # "none") =>
                   model'[n].source \in Docs /\ paper[model'[n].source].state # "absent"
  <2>1. CASE n = m
    <3>1. model'[n] = new
      BY <1>1, <1>3, <2>1 DEF Trained
    <3> QED BY <1>1, <1>2, <2>1, <3>1
  <2>2. CASE n # m
    <3>1. model'[n] = model[n] /\ IsTraining(model[n]) /\ (model[n].active => model[n].mode # "none")
      BY <1>1, <1>3, <2>2 DEF Trained
    <3> QED BY <3>1 DEF SameTraining
  <2> QED BY <2>1, <2>2
<1> QED BY <1>1, <1>4, <1>5, ModelStepIsGood

\* A model switched on or off; no mode becomes "none".
LEMMA SwitchedIsGood ==
    ASSUME Ledger, UNCHANGED <<peopleVars, topic, paper, merging, form>>,
           model' = [m \in Models |-> model'[m]],
           \A m \in Models :
               \/ model'[m] = model[m]
               \/ /\ model[m].mode # "none"
                  /\ \E mode \in {"suggestion", "automatic", "retired"}, active \in BOOLEAN :
                        model'[m] = [model[m] EXCEPT !.mode = mode, !.active = active]
    PROVE  Good
<1>1. ASSUME NEW m \in Models
      PROVE  /\ IsTraining(model'[m]) /\ (model'[m].active => model'[m].mode # "none")
             /\ model[m].mode # "none" => SameTraining(m)
             /\ (model[m].mode = "none" /\ model'[m].mode # "none") =>
                   model'[m].source \in Docs /\ paper[model'[m].source].state # "absent"
  <2>1. IsTraining(model[m]) /\ (model[m].active => model[m].mode # "none")
    BY DEF Ledger, Answers, Trained
  <2>2. CASE model'[m] = model[m]
    BY <2>1, <2>2 DEF SameTraining
  <2>3. CASE model'[m] # model[m]
    <3>1. PICK mode \in {"suggestion", "automatic", "retired"}, active \in BOOLEAN :
              model'[m] = [model[m] EXCEPT !.mode = mode, !.active = active]
      BY <2>3
    <3>2. model[m].mode # "none"
      BY <2>3
    <3> QED BY <2>1, <3>1, <3>2 DEF IsTraining, SameTraining
  <2> QED BY <2>2, <2>3
<1> QED BY <1>1, ModelStepIsGood

LEMMA ActivateIsGood ==
    ASSUME Ledger, NEW m \in Models, NEW mode \in {"suggestion", "automatic"}, Activate(m, mode)
    PROVE  Good
<1>1. /\ UNCHANGED <<peopleVars, topic, paper, merging, form>> /\ model[m].mode # "none"
      /\ model' = [n \in Models |-> IF n = m THEN [model[m] EXCEPT !.mode = mode, !.active = TRUE]
                                    ELSE Retired(n)]
  BY DEF Activate, Valid
<1>2. model' = [n \in Models |-> model'[n]]
  BY <1>1
<1>3. ASSUME NEW n \in Models
      PROVE  \/ model'[n] = model[n]
             \/ /\ model[n].mode # "none"
                /\ \E to \in {"suggestion", "automatic", "retired"}, active \in BOOLEAN :
                      model'[n] = [model[n] EXCEPT !.mode = to, !.active = active]
  <2>1. CASE n = m
    <3>1. model'[n] = [model[n] EXCEPT !.mode = mode, !.active = TRUE]
      BY <1>1, <2>1
    <3> QED BY <1>1, <2>1, <3>1
  <2>2. CASE n # m /\ model[n].active
    <3>1. model'[n] = [model[n] EXCEPT !.active = FALSE, !.mode = "retired"]
      BY <1>1, <2>2 DEF Retired
    <3>2. IsTraining(model[n]) /\ model[n].mode # "none"
      BY <2>2 DEF Ledger, Answers, Trained
    <3>3. model'[n] = [model[n] EXCEPT !.mode = "retired", !.active = FALSE]
      BY <3>1, <3>2 DEF IsTraining
    <3> QED BY <3>2, <3>3
  <2>3. CASE n # m /\ ~model[n].active
    BY <1>1, <2>3 DEF Retired
  <2> QED BY <2>1, <2>2, <2>3
<1> QED BY <1>1, <1>2, <1>3, SwitchedIsGood

LEMMA DisableIsGood ==
    ASSUME Ledger, Disable
    PROVE  Good
<1>1. /\ UNCHANGED <<peopleVars, topic, paper, merging, form>>
      /\ model' = [n \in Models |-> Retired(n)]
  BY DEF Disable
<1>2. model' = [n \in Models |-> model'[n]]
  BY <1>1
<1>3. ASSUME NEW n \in Models
      PROVE  \/ model'[n] = model[n]
             \/ /\ model[n].mode # "none"
                /\ \E to \in {"suggestion", "automatic", "retired"}, active \in BOOLEAN :
                      model'[n] = [model[n] EXCEPT !.mode = to, !.active = active]
  <2>1. CASE model[n].active
    <3>1. model'[n] = [model[n] EXCEPT !.active = FALSE, !.mode = "retired"]
      BY <1>1, <2>1 DEF Retired
    <3>2. IsTraining(model[n]) /\ model[n].mode # "none"
      BY <2>1 DEF Ledger, Answers, Trained
    <3>3. model'[n] = [model[n] EXCEPT !.mode = "retired", !.active = FALSE]
      BY <3>1, <3>2 DEF IsTraining
    <3> QED BY <3>2, <3>3
  <2>2. CASE ~model[n].active
    BY <1>1, <2>2 DEF Retired
  <2> QED BY <2>1, <2>2
<1> QED BY <1>1, <1>2, <1>3, SwitchedIsGood

-----------------------------------------------------------------------------
(* The workers *)

LEMMA TasksSet ==
    ASSUME Tasks, NEW k \in TaskKinds, NEW d, NEW row, IsTask(row), SetTask(k, d, row)
    PROVE  Tasks'
<1>1. task' = [task EXCEPT ![k] = [task[k] EXCEPT ![d] = row]]
  BY DEF SetTask
<1>2. task' = [j \in TaskKinds |-> task'[j]]
  BY <1>1 DEF Tasks
<1>3. ASSUME NEW j \in TaskKinds
      PROVE  task'[j] = [e \in Docs |-> task'[j][e]] /\ \A e \in Docs : IsTask(task'[j][e])
  <2>1. CASE j = k
    <3>1. task'[j] = [task[k] EXCEPT ![d] = row]
      BY <1>1, <2>1 DEF Tasks
    <3> QED BY <3>1 DEF Tasks
  <2>2. CASE j # k
    <3>1. task'[j] = task[j]
      BY <1>1, <2>2 DEF Tasks
    <3> QED BY <3>1 DEF Tasks
  <2> QED BY <2>1, <2>2
<1> QED BY <1>2, <1>3 DEF Tasks

LEMMA ChangedTask ==
    ASSUME NEW row, IsTask(row)
    PROVE  /\ \A state : IsTask([row EXCEPT !.state = state]) /\ IsTask(Ended(row, state))
                         /\ Ended(row, state).state = state
           /\ \A r : IsTask(Taken(row, r))
           /\ IsTask([row EXCEPT !.live = FALSE]) /\ IsTask([row EXCEPT !.waits = FALSE])
<1> DEFINE Rows(a, b, c, d, e) ==
           [state : {a}, attempts : {b}, owner : {c}, live : {d}, waits : {e}]
           End(a, b, c, d) == [row EXCEPT !.state = a, !.owner = b, !.live = c, !.waits = d]
           Take(a, b, c, d) == [row EXCEPT !.state = a, !.owner = b, !.live = c, !.attempts = d]
<1>1. row \in Rows(row.state, row.attempts, row.owner, row.live, row.waits)
  BY DEF IsTask
<1>2. ASSUME NEW a, NEW b, NEW c, NEW d, NEW e, NEW new \in Rows(a, b, c, d, e)
      PROVE  IsTask(new) /\ new.state = a
  BY DEF IsTask
<1>3. ASSUME NEW a, NEW b, NEW c, NEW d
      PROVE  /\ End(a, b, c, d) \in Rows(a, row.attempts, b, c, d)
             /\ Take(a, b, c, d) \in Rows(a, d, b, c, row.waits)
             /\ [row EXCEPT !.state = a] \in Rows(a, row.attempts, row.owner, row.live, row.waits)
             /\ [row EXCEPT !.live = a] \in Rows(row.state, row.attempts, row.owner, a, row.waits)
             /\ [row EXCEPT !.waits = a] \in Rows(row.state, row.attempts, row.owner, row.live, a)
  BY <1>1
<1> HIDE DEF Rows, End, Take
<1>4. ASSUME NEW state PROVE IsTask(Ended(row, state)) /\ Ended(row, state).state = state
  <2> DEFINE waits == (state = "retry_wait")
             none == FALSE
  <2>1. Ended(row, state) = End(state, NoRunner, none, waits)
    BY DEF Ended, End
  <2> HIDE DEF waits, none
  <2>2. Ended(row, state) \in Rows(state, row.attempts, NoRunner, none, waits)
    BY <1>3, <2>1
  <2> QED BY <1>2, <2>2
<1>5. ASSUME NEW r PROVE IsTask(Taken(row, r))
  <2> DEFINE more == row.attempts + 1
             yes == TRUE
  <2>1. Taken(row, r) = Take("running", r, yes, more)
    BY DEF Taken, Take
  <2> HIDE DEF more, yes
  <2>2. Taken(row, r) \in Rows("running", more, r, yes, row.waits)
    BY <1>3, <2>1
  <2> QED BY <1>2, <2>2
<1>6. IsTask([row EXCEPT !.live = FALSE]) /\ IsTask([row EXCEPT !.waits = FALSE])
  <2> DEFINE none == FALSE
  <2>1. /\ [row EXCEPT !.live = FALSE] = [row EXCEPT !.live = none]
        /\ [row EXCEPT !.waits = FALSE] = [row EXCEPT !.waits = none]
    OBVIOUS
  <2> HIDE DEF none
  <2>2. /\ [row EXCEPT !.live = none] \in Rows(row.state, row.attempts, row.owner, none, row.waits)
        /\ [row EXCEPT !.waits = none] \in Rows(row.state, row.attempts, row.owner, row.live, none)
    BY <1>3
  <2>3. IsTask([row EXCEPT !.live = none]) /\ IsTask([row EXCEPT !.waits = none])
    BY <1>2, <2>2
  <2> QED BY <2>1, <2>3
<1>7. ASSUME NEW state PROVE IsTask([row EXCEPT !.state = state])
  <2>1. [row EXCEPT !.state = state] \in Rows(state, row.attempts, row.owner, row.live, row.waits)
    BY <1>3
  <2> QED BY <1>2, <2>1
<1> QED BY <1>4, <1>5, <1>6, <1>7

\* A worker that goes on to something else, beside publishing.
LEMMA WorkerMoves ==
    ASSUME Ledger, NEW r \in Runners, NEW row, Do(r, row), Clerk(row)',
           UNCHANGED <<topic, paper, model, merging, form>>, Tasks', Suggestions',
           SuggestedForThisContent, \A d \in Guarded : suggestion'[d] = suggestion[d]
    PROVE  Good
<1>1. Core /\ Desk /\ Answers
  BY DEF Ledger
<1>2. Core'
  BY <1>1 DEF Core, UsageIsExact, MergedTagsAreGone
<1>3. Desk'
  BY <1>1 DEF Desk
<1>4. PapersFrame
  BY DEF PapersFrame, SameEvidence
<1>5. Trained' /\ ModelsFrame
  BY <1>1, <1>4, ModelsSame DEF Answers
<1>6. Clerks'
  <2>1. runner' = [s \in Runners |-> runner'[s]]
    BY <1>1 DEF Do, Answers, Clerks
  <2>2. ASSUME NEW s \in Runners PROVE Clerk(runner[s])'
    <3>1. CASE s = r
      <4>1. runner'[s] = row
        BY <1>1, <3>1 DEF Do, Answers, Clerks
      <4> QED BY <4>1
    <3>2. CASE s # r
      <4>1. runner'[s] = runner[s] /\ Clerk(runner[s])
        BY <1>1, <3>2 DEF Do, Answers, Clerks
      <4> QED BY <1>1, <1>4, <1>5, <4>1, PublishersKeep DEF Answers
    <3> QED BY <3>1, <3>2
  <2> QED BY <2>1, <2>2 DEF Clerks
<1>7. HumanStep
  BY <1>1, SameTagsAreFine
<1>8. OverrideStep /\ AnswersStep
  <2>1. \A d \in Docs : NewlyGiven(d) = {}
    BY DEF NewlyGiven
  <2> QED BY <2>1 DEF OverrideStep, AnswersStep, AppliedToWhatWasRead
<1> QED BY <1>2, <1>3, <1>5, <1>6, <1>7, <1>8 DEF Good, Ledger, Answers

LEMMA TaskStepIsGood ==
    ASSUME Ledger, NEW k \in TaskKinds, NEW d, NEW row, IsTask(row), SetTask(k, d, row),
           UNCHANGED <<topic, paper, model, suggestion, runner, merging, form>>
    PROVE  Good
<1>1. Core /\ Desk /\ Answers
  BY DEF Ledger
<1>2. Tasks'
  BY <1>1, TasksSet DEF Answers
<1>3. NoAnswer
  BY <1>1 DEF Answers, Suggestions, NoAnswer
<1>4. PapersFrame
  BY DEF PapersFrame, SameEvidence
<1>5. Trained' /\ ModelsFrame
  BY <1>1, <1>4, ModelsSame DEF Answers
<1>6. SoundPapers(paper')
  BY <1>1 DEF Core
<1> QED BY <1>2, <1>3, <1>4, <1>5, <1>6, SameTopics, QuietIsGood

LEMMA TaskTypes ==
    ASSUME Ledger, NEW k \in TaskKinds, NEW d \in Docs
    PROVE  IsTask(task[k][d])
BY DEF Ledger, Answers, Tasks

LEMMA TaskKindsAre == "infer" \in TaskKinds /\ "apply" \in TaskKinds
BY DEF TaskKinds

LEMMA RunCompletesIsGood ==
    ASSUME Ledger, NEW d \in Docs, RunCompletes(d)
    PROVE  Good
<1>1. IsTask(NewTask)
  BY NoTaskIsTask, ChangedTask DEF NewTask
<1> QED BY <1>1, TaskKindsAre, TaskStepIsGood DEF RunCompletes

LEMMA InferSettlesIsGood ==
    ASSUME Ledger, NEW d \in Docs, InferSettles(d)
    PROVE  Good
<1>1. IsTask(task["infer"][d])
  BY TaskTypes, TaskKindsAre
<1>2. \A state : IsTask([task["infer"][d] EXCEPT !.state = state])
  BY <1>1, ChangedTask
<1>3. \E state : SetTask("infer", d, [task["infer"][d] EXCEPT !.state = state])
  BY DEF InferSettles
<1>4. UNCHANGED <<topic, paper, model, suggestion, runner, merging, form>>
  BY DEF InferSettles
<1> QED BY <1>2, <1>3, <1>4, TaskKindsAre, TaskStepIsGood

LEMMA TimePassesIsGood ==
    ASSUME Ledger, NEW k \in TaskKinds, NEW d \in Docs, LeaseEnds(k, d) \/ WaitEnds(k, d)
    PROVE  Good
<1>1. /\ IsTask([task[k][d] EXCEPT !.live = FALSE]) /\ IsTask([task[k][d] EXCEPT !.waits = FALSE])
  BY TaskTypes, ChangedTask
<1>2. /\ SetTask(k, d, [task[k][d] EXCEPT !.live = FALSE]) \/ SetTask(k, d, [task[k][d] EXCEPT !.waits = FALSE])
      /\ UNCHANGED <<topic, paper, model, suggestion, runner, merging, form>>
  BY DEF LeaseEnds, WaitEnds
<1> QED BY <1>1, <1>2, TaskStepIsGood

LEMMA RecoverIsGood ==
    ASSUME Ledger, NEW k \in TaskKinds, NEW d \in Docs, Recover(k, d)
    PROVE  Good
<1> DEFINE row == task[k][d]
           refused == k = "infer" /\ ~Eligible(d)
           new == CASE refused -> [row EXCEPT !.state = "blocked"]
                    [] ~refused /\ row.attempts >= MaxAttempts -> [row EXCEPT !.state = "action_required"]
                    [] OTHER -> Ended(row, "pending")
<1>1. SetTask(k, d, new) /\ UNCHANGED <<topic, paper, model, suggestion, runner, merging, form>>
  BY DEF Recover
<1> DEFINE full == row.attempts >= MaxAttempts
<1>2. /\ IsTask([row EXCEPT !.state = "blocked"]) /\ IsTask([row EXCEPT !.state = "action_required"])
      /\ IsTask(Ended(row, "pending"))
  BY TaskTypes, ChangedTask
<1> HIDE DEF refused, row, full
<1>3. IsTask(new)
  <2>1. CASE refused
    BY <1>2, <2>1
  <2>2. CASE ~refused /\ row.attempts >= MaxAttempts
    BY <1>2, <2>2
  <2>3. CASE ~refused /\ ~(row.attempts >= MaxAttempts)
    BY <1>2, <2>3
  <2> QED BY <2>1, <2>2, <2>3
<1> HIDE DEF new
<1> QED BY <1>1, <1>3, TaskStepIsGood

-----------------------------------------------------------------------------
(* What a worker does next *)

LEMMA IdleIsClerk == IsRunner(IdleRunner) /\ IdleRunner.step = "idle"
BY DEF IsRunner, IdleRunner

LEMMA IdleClerk ==
    ASSUME TRUE
    PROVE  Clerk(IdleRunner)'
BY IdleIsClerk DEF Clerk, IdleRunner, IsRunner

LEMMA ClerkOf ==
    ASSUME Ledger, NEW r \in Runners
    PROVE  Clerk(runner[r])
BY DEF Ledger, Answers, Clerks

LEMMA SuggestionsSame ==
    ASSUME Ledger, suggestion' = suggestion
    PROVE  NoAnswer
BY DEF Ledger, Answers, Suggestions, NoAnswer

LEMMA TasksSame ==
    ASSUME Ledger, task' = task
    PROVE  Tasks'
BY DEF Ledger, Answers, Tasks

\* A worker without a publication goes on, and its task with it.
LEMMA PlainMove ==
    ASSUME Ledger, NEW r \in Runners, NEW row, Do(r, row), IsRunner(row), row.step # "publishing",
           row.step # "idle" => row.doc \in Docs,
           row.step \in {"inferring", "inferred"} =>
               (row.tags \subseteq Tags /\ (row.tags # {} => row.model \in Models)),
           UNCHANGED <<topic, paper, model, suggestion, merging, form>>, Tasks'
    PROVE  Good
<1>1. Clerk(row)'
  BY DEF Clerk, IsRunner
<1>2. NoAnswer
  BY SuggestionsSame
<1>3. Suggestions' /\ SuggestedForThisContent
  BY <1>2, SuggestionsKept DEF Ledger, Answers, NoAnswer, SuggestedForThisContent
<1> QED BY <1>1, <1>3, WorkerMoves

\* The ways in which a worker goes on.
Stepped(row, step) == [row EXCEPT !.step = step]
Answered(row, m, tags) == [row EXCEPT !.step = "inferred", !.model = m, !.tags = tags]
Checked(row, step, m) == [row EXCEPT !.step = step, !.model = m]

LEMMA ChangedRunner ==
    ASSUME NEW row, IsRunner(row), NEW step, NEW m, NEW tags
    PROVE  /\ LET new == Stepped(row, step)
              IN  /\ IsRunner(new) /\ new.step = step /\ new.doc = row.doc
                  /\ new.tags = row.tags /\ new.model = row.model
           /\ LET new == Answered(row, m, tags)
              IN  /\ IsRunner(new) /\ new.step = "inferred" /\ new.doc = row.doc
                  /\ new.tags = tags /\ new.model = m
           /\ LET new == Checked(row, step, m)
              IN  /\ IsRunner(new) /\ new.step = step /\ new.doc = row.doc /\ new.model = m
<1> DEFINE Rows(x, d, n, t, i) == [step : {x}, doc : {d}, model : {n}, tags : {t}, input : {i}]
<1>1. row \in Rows(row.step, row.doc, row.model, row.tags, row.input)
  BY DEF IsRunner
<1>2. ASSUME NEW x, NEW d, NEW n, NEW t, NEW i, NEW new \in Rows(x, d, n, t, i)
      PROVE  IsRunner(new) /\ new.step = x /\ new.doc = d /\ new.model = n /\ new.tags = t
  BY DEF IsRunner
<1>3. Stepped(row, step) \in Rows(step, row.doc, row.model, row.tags, row.input)
  BY <1>1 DEF Stepped
<1>4. Answered(row, m, tags) \in Rows("inferred", row.doc, m, tags, row.input)
  BY <1>1 DEF Answered
<1>5. Checked(row, step, m) \in Rows(step, row.doc, m, row.tags, row.input)
  BY <1>1 DEF Checked
<1> HIDE DEF Rows
<1> QED BY <1>2, <1>3, <1>4, <1>5

LEMMA StartIsGood ==
    ASSUME Ledger, NEW k \in TaskKinds, NEW r \in Runners, NEW d \in Docs, NEW begun,
           IsRunner(begun), begun.step \notin {"idle", "publishing"}, begun.doc = d, begun.tags = {},
           Start(k, r, d, begun)
    PROVE  Good
<1> DEFINE row == task[k][d]
<1>1. IsTask([row EXCEPT !.state = "action_required"]) /\ IsTask(Taken(row, r))
  BY TaskTypes, ChangedTask
<1>2. UNCHANGED <<topic, paper, model, suggestion, merging, form>>
  BY DEF Start
<1>3. \/ SetTask(k, d, [row EXCEPT !.state = "action_required"]) /\ runner' = runner
      \/ SetTask(k, d, Taken(row, r)) /\ Do(r, begun)
  <2>1. CASE row.attempts >= MaxAttempts
    BY <2>1 DEF Start
  <2>2. CASE ~(row.attempts >= MaxAttempts)
    BY <2>2 DEF Start
  <2> QED BY <2>1, <2>2
<1> HIDE DEF row
<1>4. CASE SetTask(k, d, [row EXCEPT !.state = "action_required"]) /\ runner' = runner
  BY <1>1, <1>2, <1>4, TaskStepIsGood
<1>5. CASE SetTask(k, d, Taken(row, r)) /\ Do(r, begun)
  <2>1. Tasks'
    BY <1>1, <1>5, TasksSet DEF Ledger, Answers
  <2> QED BY <1>2, <1>5, <2>1, PlainMove
<1> QED BY <1>3, <1>4, <1>5

LEMMA InferStartIsGood ==
    ASSUME Ledger, NEW r \in Runners, NEW d \in Docs, InferStart(r, d)
    PROVE  Good
<1> DEFINE begun == [IdleRunner EXCEPT !.step = "inferring", !.doc = d, !.input = Input(d)]
<1>1. Start("infer", r, d, begun)
  BY DEF InferStart
<1>2. IsRunner(begun) /\ begun.step = "inferring" /\ begun.doc = d /\ begun.tags = {}
  <2>1. IdleRunner \in [step : {"idle"}, doc : {NoDoc}, model : {NoModel}, tags : {{}}, input : {<<>>}]
    BY DEF IdleRunner
  <2>2. begun \in [step : {"inferring"}, doc : {d}, model : {NoModel}, tags : {{}}, input : {Input(d)}]
    BY <2>1
  <2> HIDE DEF begun
  <2> QED BY <2>2 DEF IsRunner
<1> HIDE DEF begun
<1> QED BY <1>1, <1>2, TaskKindsAre, StartIsGood

LEMMA ApplyStartIsGood ==
    ASSUME Ledger, NEW r \in Runners, NEW d \in Docs, ApplyStart(r, d)
    PROVE  Good
<1> DEFINE begun == [IdleRunner EXCEPT !.step = "applying", !.doc = d]
<1>1. Start("apply", r, d, begun)
  BY DEF ApplyStart
<1>2. IsRunner(begun) /\ begun.step = "applying" /\ begun.doc = d /\ begun.tags = {}
  <2>1. IdleRunner \in [step : {"idle"}, doc : {NoDoc}, model : {NoModel}, tags : {{}}, input : {<<>>}]
    BY DEF IdleRunner
  <2>2. begun \in [step : {"applying"}, doc : {d}, model : {NoModel}, tags : {{}}, input : {<<>>}]
    BY <2>1
  <2> HIDE DEF begun
  <2> QED BY <2>2 DEF IsRunner
<1> HIDE DEF begun
<1> QED BY <1>1, <1>2, TaskKindsAre, StartIsGood

LEMMA PredictIsGood ==
    ASSUME Ledger, NEW r \in Runners, Predict(r)
    PROVE  Good
<1> DEFINE row == runner[r]
<1>1. /\ row.step = "inferring" /\ UNCHANGED <<topic, paper, model, task, suggestion, merging, form>>
      /\ \/ \E m \in Models, tags \in SUBSET Tags : Do(r, Answered(row, m, tags))
         \/ Do(r, Stepped(row, "inferred"))
  BY DEF Predict, UsableModels, Answered, Stepped
<1>2. /\ IsRunner(row) /\ row.doc \in Docs /\ row.tags \subseteq Tags
      /\ row.tags # {} => row.model \in Models
  BY <1>1, ClerkOf DEF Clerk
<1>3. Tasks'
  BY <1>1, TasksSame
<1> HIDE DEF row
<1>4. ASSUME NEW m \in Models, NEW tags \in SUBSET Tags, Do(r, Answered(row, m, tags))
      PROVE  Good
  <2> DEFINE new == Answered(row, m, tags)
  <2>1. IsRunner(new) /\ new.step = "inferred" /\ new.doc = row.doc /\ new.tags = tags /\ new.model = m
    BY <1>2, ChangedRunner
  <2>2. Do(r, new)
    BY <1>4
  <2> HIDE DEF new
  <2> QED BY <1>1, <1>2, <1>3, <2>1, <2>2, PlainMove
<1>5. ASSUME Do(r, Stepped(row, "inferred"))
      PROVE  Good
  <2> DEFINE new == Stepped(row, "inferred")
  <2>1. /\ IsRunner(new) /\ new.step = "inferred" /\ new.doc = row.doc /\ new.tags = row.tags
        /\ new.model = row.model
    BY <1>2, ChangedRunner
  <2>2. Do(r, new)
    BY <1>5
  <2> HIDE DEF new
  <2> QED BY <1>1, <1>2, <1>3, <2>1, <2>2, PlainMove
<1> QED BY <1>1, <1>4, <1>5

LEMMA GoesIdle ==
    ASSUME Ledger, NEW r \in Runners, Do(r, IdleRunner),
           UNCHANGED <<topic, paper, model, suggestion, merging, form>>, Tasks'
    PROVE  Good
BY IdleIsClerk, PlainMove

LEMMA RunnerDiesIsGood ==
    ASSUME Ledger, NEW r \in Runners, RunnerDies(r)
    PROVE  Good
BY GoesIdle, TasksSame DEF RunnerDies

LEMMA InferFailsIsGood ==
    ASSUME Ledger, NEW r \in Runners, InferFails(r)
    PROVE  Good
<1> DEFINE d == runner[r].doc
           row == task["infer"][d]
           after == AfterFailure(row)
<1>1. /\ runner[r].step \in {"inferring", "inferred"} /\ Do(r, IdleRunner)
      /\ SetTask("infer", d, Ended(row, after)) \/ task' = task
      /\ UNCHANGED <<topic, paper, model, suggestion, merging, form>>
  BY DEF InferFails
<1>2. d \in Docs
  BY <1>1, ClerkOf DEF Clerk
<1> HIDE DEF after
<1>3. IsTask(Ended(row, after))
  BY <1>2, TaskTypes, TaskKindsAre, ChangedTask
<1>4. Tasks'
  BY <1>1, <1>3, TaskKindsAre, TasksSet, TasksSame DEF Ledger, Answers
<1> QED BY <1>1, <1>4, GoesIdle

LEMMA ApplyFailsIsGood ==
    ASSUME Ledger, NEW r \in Runners, ApplyFails(r)
    PROVE  Good
<1> DEFINE row == runner[r]
           new == Stepped(row, "failed")
<1>1. /\ row.step # "idle" /\ Do(r, new)
      /\ UNCHANGED <<topic, paper, model, task, suggestion, merging, form>>
  BY DEF ApplyFails, Stepped
<1>2. IsRunner(row) /\ row.doc \in Docs
  BY <1>1, ClerkOf DEF Clerk
<1>3. IsRunner(new) /\ new.step = "failed" /\ new.doc = row.doc
  BY <1>2, ChangedRunner
<1>4. Tasks'
  BY <1>1, TasksSame
<1> HIDE DEF new
<1> QED BY <1>1, <1>2, <1>3, <1>4, PlainMove

LEMMA ApplyEndIsGood ==
    ASSUME Ledger, NEW r \in Runners, ApplyEnd(r)
    PROVE  Good
<1> DEFINE d == runner[r].doc
           row == task["apply"][d]
           to == IF runner[r].step = "failed" THEN AfterFailure(row) ELSE runner[r].step
<1>1. /\ runner[r].step # "idle" /\ Do(r, IdleRunner)
      /\ SetTask("apply", d, Ended(row, to)) \/ task' = task
      /\ UNCHANGED <<topic, paper, model, suggestion, merging, form>>
  BY DEF ApplyEnd, SettledStates
<1>2. d \in Docs
  BY <1>1, ClerkOf DEF Clerk
<1> HIDE DEF to
<1>3. IsTask(Ended(row, to))
  BY <1>2, TaskTypes, TaskKindsAre, ChangedTask
<1>4. Tasks'
  BY <1>1, <1>3, TaskKindsAre, TasksSet, TasksSame DEF Ledger, Answers
<1> QED BY <1>1, <1>4, GoesIdle

\* The answer is saved for what the worker read, or not at all.
LEMMA InferSaveIsGood ==
    ASSUME Ledger, NEW r \in Runners, InferSave(r)
    PROVE  Good
<1> DEFINE d == runner[r].doc
           outcome == Outcome(r)
           settled == Ended(task["infer"][d], outcome)
           new == settled.state = "complete" /\ suggestion[d] = NoSuggestion
           answer == [model |-> runner[r].model, tags |-> runner[r].tags, input |-> runner[r].input]
           next == IF new /\ runner[r].tags # {} THEN [task["apply"] EXCEPT ![d] = NewTask] ELSE task["apply"]
<1>1. /\ runner[r].step = "inferred" /\ Unlocked(d) /\ Do(r, IdleRunner)
      /\ UNCHANGED <<topic, paper, model, merging, form>>
  BY DEF InferSave
<1>2. \/ task' = task /\ suggestion' = suggestion
      \/ /\ suggestion' = IF new THEN [suggestion EXCEPT ![d] = answer] ELSE suggestion
         /\ task' = [task EXCEPT !["infer"] = [@ EXCEPT ![d] = settled],
                                 !["apply"] = IF new /\ runner[r].tags # {}
                                              THEN [@ EXCEPT ![d] = NewTask] ELSE @]
  BY DEF InferSave
<1>3. /\ d \in Docs /\ runner[r].tags \subseteq Tags
      /\ runner[r].tags # {} => runner[r].model \in Models
  BY <1>1, ClerkOf DEF Clerk
<1>4. Answers
  BY DEF Ledger
<1>5. IsTask(settled) /\ settled.state = outcome
  BY <1>3, TaskTypes, TaskKindsAre, ChangedTask
<1> HIDE DEF settled
<1>6. Tasks'
  <2>1. CASE task' = task
    BY <2>1, TasksSame
  <2>2. CASE task' = [task EXCEPT !["infer"] = [@ EXCEPT ![d] = settled],
                                  !["apply"] = IF new /\ runner[r].tags # {}
                                               THEN [@ EXCEPT ![d] = NewTask] ELSE @]
    <3>1. task = [k \in TaskKinds |-> task[k]] /\ "infer" \in TaskKinds /\ "apply" \in TaskKinds
      BY <1>4, TaskKindsAre DEF Answers, Tasks
    <3>2. task'["infer"] = [task["infer"] EXCEPT ![d] = settled] /\ task'["apply"] = next
      BY <2>2, <3>1
    <3>3. task' = [k \in TaskKinds |-> task'[k]]
      BY <2>2, <3>1
    <3>4. IsTask(NewTask)
      BY NoTaskIsTask, ChangedTask DEF NewTask
    <3>5. \A k \in TaskKinds : task[k] = [e \in Docs |-> task[k][e]] /\ \A e \in Docs : IsTask(task[k][e])
      BY <1>4 DEF Answers, Tasks
    <3> HIDE DEF new
    <3>6. /\ task'["infer"] = [e \in Docs |-> task'["infer"][e]]
          /\ \A e \in Docs : IsTask(task'["infer"][e])
      BY <1>5, <3>1, <3>2, <3>5
    <3>7. /\ task'["apply"] = [e \in Docs |-> task'["apply"][e]]
          /\ \A e \in Docs : IsTask(task'["apply"][e])
      <4>1. CASE next = task["apply"]
        BY <3>1, <3>2, <3>5, <4>1
      <4>2. CASE next = [task["apply"] EXCEPT ![d] = NewTask]
        BY <3>1, <3>2, <3>4, <3>5, <4>2
      <4> QED BY <4>1, <4>2
    <3> QED BY <3>3, <3>6, <3>7 DEF Tasks, TaskKinds
  <2> QED BY <1>2, <2>1, <2>2
<1>7. CASE suggestion' = suggestion
  BY <1>1, <1>6, <1>7, GoesIdle
<1>8. CASE new /\ suggestion' = [suggestion EXCEPT ![d] = answer]
  <2>1. /\ \A e \in Docs : e # d => suggestion'[e] = suggestion[e]
        /\ suggestion'[d] = answer /\ suggestion' = [e \in Docs |-> suggestion'[e]]
    BY <1>3, <1>4, <1>8 DEF Answers, Suggestions
  <2>2. Suggestions'
    BY <1>3, <1>4, <2>1 DEF Answers, Suggestions
  <2>3. Eligible(d) /\ Input(d) = runner[r].input
    <3>1. outcome = "complete"
      BY <1>5, <1>8
    <3> QED BY <3>1 DEF Outcome
  <2>4. SuggestedForThisContent
    BY <2>1, <2>3 DEF SuggestedForThisContent
  <2>5. \A e \in Guarded : suggestion'[e] = suggestion[e]
    <3>1. ASSUME NEW e \in Guarded PROVE suggestion'[e] = suggestion[e]
      <4>1. e # d
        BY <1>1, <3>1, UnlockedIsNotGuarded
      <4> QED BY <1>4, <1>8, <4>1 DEF Answers, Suggestions
    <3> QED BY <3>1
  <2> QED BY <1>1, <1>6, <2>2, <2>4, <2>5, IdleClerk, WorkerMoves
<1> QED BY <1>2, <1>7, <1>8

\* What the worker finds is what it holds.
LEMMA ApplyCheckIsGood ==
    ASSUME Ledger, NEW r \in Runners, ApplyCheck(r)
    PROVE  Good
<1> DEFINE row == runner[r]
           d == row.doc
           m == suggestion[d].model
<1>0. PICK new : new = Checked(row, Obstacle(d), m)
  OBVIOUS
<1>1. /\ row.step = "applying" /\ Do(r, new)
      /\ UNCHANGED <<topic, paper, model, task, suggestion, merging, form>>
  BY <1>0 DEF ApplyCheck, Checked
<1>2. IsRunner(row) /\ d \in Docs
  BY <1>1, ClerkOf DEF Clerk
<1>3. IsRunner(new) /\ new.step = Obstacle(d) /\ new.doc = d /\ new.model = m
  BY <1>0, <1>2, ChangedRunner
<1>4. Obstacle(d) \in {"blocked", "action_required", "publishing", "complete"}
  BY DEF Obstacle
<1>5. ASSUME Obstacle(d) = "publishing" PROVE Publishable(new)
  <2>1. /\ paper[d].state = "active" /\ suggestion[d].input = Input(d) /\ Valid(m)
    BY <1>5 DEF Obstacle
  <2> QED BY <1>3, <2>1 DEF Publishable, Valid
<1>6. Tasks'
  BY <1>1, TasksSame
<1>7. Clerk(new)'
  <2>1. Obstacle(d) = "publishing" => Publishable(new)'
    BY <1>1, <1>5 DEF Publishable, Input
  <2>2. new.step \notin {"inferring", "inferred"}
    BY <1>3, <1>4
  <2> QED BY <1>2, <1>3, <2>1, <2>2 DEF Clerk, IsRunner
<1>8. NoAnswer
  BY <1>1, SuggestionsSame
<1>9. Suggestions' /\ SuggestedForThisContent
  BY <1>8, SuggestionsKept DEF Ledger, Answers, NoAnswer, SuggestedForThisContent
<1> QED BY <1>1, <1>6, <1>7, <1>9, WorkerMoves

\* What a model gives, at the moment it gives it.
LEMMA ApplyPublishIsGood ==
    ASSUME Ledger, NEW r \in Runners, ApplyPublish(r)
    PROVE  Good
<1> DEFINE d == runner[r].doc
           n == runner[r].model
           given == {Gift(t, n) : t \in Unopposed(d)}
           new == Published(paper[d], given)
<1>1. runner[r].step = "publishing" /\ UNCHANGED <<model, task, suggestion, merging, form>>
  BY DEF ApplyPublish
<1>2. IsRunner(runner[r]) /\ d \in Docs /\ Publishable(runner[r])
  BY <1>1, ClerkOf DEF Clerk
<1>3. SoundPaper(paper[d]) /\ Bootstrapped(paper[d]) = paper[d].gifts
  BY <1>2, PaperSound, NothingToBootstrap DEF Ledger
<1>4. \/ \E step \in {"complete", "failed"} : Do(r, Stepped(runner[r], step)) /\ UNCHANGED <<topic, paper>>
      \/ /\ given # {} /\ paper' = [paper EXCEPT ![d] = new] /\ topic' = Counted(topic, paper')
         /\ Do(r, Stepped(runner[r], "complete"))
  BY <1>3 DEF ApplyPublish, Stepped, Published, Rewritten
<1>5. Tasks'
  BY <1>1, TasksSame
<1>6. ASSUME NEW step \in {"complete", "failed"}, Do(r, Stepped(runner[r], step)), UNCHANGED <<topic, paper>>
      PROVE  Good
  <2>1. /\ IsRunner(Stepped(runner[r], step)) /\ Stepped(runner[r], step).step = step
        /\ Stepped(runner[r], step).doc = d
    BY <1>2, ChangedRunner
  <2> QED BY <1>1, <1>2, <1>5, <1>6, <2>1, PlainMove
<1>7. ASSUME given # {}, paper' = [paper EXCEPT ![d] = new], topic' = Counted(topic, paper'),
             Do(r, Stepped(runner[r], "complete"))
      PROVE  Good
  <2>1. /\ n \in Models /\ n = suggestion[d].model /\ suggestion[d].tags \subseteq Tags
    <3>1. suggestion[d].tags # {}
      BY <1>7 DEF Unopposed
    <3> QED BY <1>2, <3>1 DEF Publishable, Ledger, Answers, Suggestions
  <2>2. given \in SUBSET Contribution
    BY <2>1 DEF Gift, Contribution, Sources, Unopposed
  <2>3. \A g \in given : g.source = n /\ g.tag \in Unopposed(d)
    BY DEF Gift
  <2> HIDE DEF given
  <2>4. /\ SoundPaper(new) /\ new.decided = paper[d].decided /\ new.gifts = paper[d].gifts \cup given
        /\ new.state = paper[d].state /\ new.revision = paper[d].revision
        /\ paper[d].tags \subseteq new.tags
        /\ \A t \in new.tags : t \in paper[d].tags \/ \E g \in given : g.tag = t
    BY <1>3, <2>2, PublishedRow
  <2> HIDE DEF new
  <2>5. /\ \A e \in Docs : e # d => paper'[e] = paper[e]
        /\ paper'[d] = new /\ SoundPapers(paper')
    <3>1. SoundPapers(paper)
      BY DEF Ledger, Core
    <3> QED BY <1>2, <1>7, <2>4, <3>1 DEF SoundPapers
  <2>6. \A e \in Docs : \A t \in paper'[e].tags : topic[t].canonical = NoTag
    <3>1. ASSUME NEW e \in Docs, NEW t \in paper'[e].tags PROVE topic[t].canonical = NoTag
      <4>1. SoundPaper(paper'[e]) /\ t \in Tags
        BY <2>4, <2>5, <3>1, RowTypes, PaperSound DEF Ledger
      <4>2. t \in paper[e].tags \/ t \in Unopposed(d)
        BY <2>3, <2>4, <2>5, <3>1
      <4> QED BY <4>1, <4>2 DEF Unopposed, Offered, Ledger, Core, MergedTagsAreGone
    <3> QED BY <3>1
  <2>7. Core' /\ \A t \in Tags : topic'[t].canonical = topic[t].canonical
    <3>1. topic \in [Tags -> Topic]
      BY DEF Ledger, Core
    <3> QED BY <1>7, <2>5, <2>6, <3>1, CountedKeeps DEF Ledger
  <2>8. Desk'
    BY <1>1, <2>7 DEF Ledger, Desk
  <2>9. PapersFrame
    BY <1>1, <2>4, <2>5 DEF PapersFrame, SameEvidence
  <2>10. Trained' /\ ModelsFrame
    BY <1>1, <2>9, ModelsSame DEF Ledger, Answers
  <2>11. Clerks'
    <3>1. Trained /\ Clerks
      BY DEF Ledger, Answers
    <3>2. runner' = [s \in Runners |-> runner'[s]]
      BY <1>7, <3>1 DEF Do, Clerks
    <3>3. ASSUME NEW s \in Runners PROVE Clerk(runner[s])'
      <4>1. CASE s = r
        <5>1. runner'[s] = Stepped(runner[r], "complete")
          BY <1>7, <3>1, <4>1 DEF Do, Clerks
        <5>2. IsRunner(runner'[s]) /\ runner'[s].step = "complete" /\ runner'[s].doc = d
          BY <1>2, <5>1, ChangedRunner
        <5> QED BY <1>2, <5>2 DEF Clerk, IsRunner
      <4>2. CASE s # r
        <5>1. runner'[s] = runner[s] /\ Clerk(runner[s])
          BY <1>7, <3>1, <4>2 DEF Do, Clerks
        <5> QED BY <2>9, <2>10, <3>1, <5>1, PublishersKeep
      <4> QED BY <4>1, <4>2
    <3> QED BY <3>2, <3>3 DEF Clerks
  <2>12. NoAnswer
    BY <1>1, SuggestionsSame
  <2>13. Suggestions' /\ SuggestedForThisContent
    BY <2>12, SuggestionsKept DEF Ledger, Answers, NoAnswer, SuggestedForThisContent
  <2>14. \A e \in Docs : \A g \in NewlyGiven(e) : e = d /\ g.source = n /\ g.tag \in Unopposed(d)
    BY <2>3, <2>4, <2>5 DEF NewlyGiven
  <2>15. OverrideStep
    BY <2>14 DEF OverrideStep, Unopposed
  <2>16. AnswersStep
    BY <1>2, <2>1, <2>13, <2>14 DEF AnswersStep, AppliedToWhatWasRead, Publishable
  <2>17. HumanStep
    <3>1. ASSUME NEW e \in Docs, NEW t \in GivenByPeople(e) PROVE t \in paper'[e].tags
      <4>1. t \in paper[e].tags
        BY <3>1, GivenIsCarried, PaperSound DEF Ledger
      <4> QED BY <2>4, <2>5, <4>1
    <3> QED BY <3>1 DEF HumanStep
  <2> QED BY <1>5, <2>7, <2>8, <2>10, <2>11, <2>13, <2>15, <2>16, <2>17 DEF Good, Ledger, Answers
<1> QED BY <1>4, <1>6, <1>7

-----------------------------------------------------------------------------
(* The whole *)

LEMMA LedgerInit ==
    ASSUME TopicsInit
    PROVE  Ledger
<1>1. topic = [t \in Tags |-> [canonical |-> NoTag, active |-> TRUE, automatic |-> TRUE, usage |-> 0]]
  BY DEF TopicsInit
<1>2. topic \in [Tags -> Topic] /\ \A t \in Tags : topic[t].usage = 0 /\ topic[t].canonical = NoTag
  BY <1>1 DEF Topic
<1>3. /\ paper = [d \in Docs |-> paper[d]]
      /\ \A d \in Docs : SoundPaper(paper[d]) /\ paper[d].tags = {}
  <2>1. paper \in [Docs -> {[AbsentPaper EXCEPT !.complete = c] : c \in BOOLEAN}]
    BY DEF TopicsInit
  <2>2. ASSUME NEW c \in BOOLEAN
        PROVE  /\ [AbsentPaper EXCEPT !.complete = c] \in Paper
               /\ [AbsentPaper EXCEPT !.complete = c].tags = {}
               /\ [AbsentPaper EXCEPT !.complete = c].gifts = {}
    <3>1. Unheard \in [Tags -> Word]
      BY DEF Unheard, Word, Verdict
    <3> QED BY <3>1 DEF AbsentPaper, Paper
  <2>3. ASSUME NEW d \in Docs PROVE SoundPaper(paper[d]) /\ paper[d].tags = {}
    <3>1. PICK c \in BOOLEAN : paper[d] = [AbsentPaper EXCEPT !.complete = c]
      BY <2>1
    <3>2. paper[d] \in Paper /\ paper[d].tags = {} /\ paper[d].gifts = {}
      BY <2>2, <3>1
    <3> QED BY <3>2 DEF SoundPaper, TagsOf
  <2> QED BY <2>1, <2>3
<1>4. UsageIsExact
  <2>1. \A t \in Tags : {d \in Docs : t \in paper[d].tags} = {}
    BY <1>3
  <2> QED BY <1>2, <2>1, FS_EmptySet DEF UsageIsExact
<1>5. Core
  BY <1>2, <1>3, <1>4 DEF Core, SoundPapers, MergedTagsAreGone
<1>6. Desk
  BY DEF TopicsInit, Desk
<1>7. Trained
  <2>1. model = [m \in Models |-> NoTraining]
    BY DEF TopicsInit
  <2>2. IsTraining(NoTraining) /\ NoTraining.mode = "none" /\ ~NoTraining.active
    BY DEF IsTraining, NoTraining
  <2> QED BY <2>1, <2>2 DEF Trained
<1>8. Tasks
  BY NoTaskIsTask DEF TopicsInit, Tasks
<1>9. Suggestions
  <2>1. suggestion = [d \in Docs |-> NoSuggestion] /\ NoSuggestion.tags = {}
    BY DEF TopicsInit, NoSuggestion
  <2> QED BY <2>1 DEF Suggestions
<1>10. Clerks
  <2>1. runner = [r \in Runners |-> IdleRunner]
    BY DEF TopicsInit
  <2>2. Clerk(IdleRunner)
    BY IdleIsClerk DEF Clerk
  <2> QED BY <2>1, <2>2 DEF Clerks
<1> QED BY <1>5, <1>6, <1>7, <1>8, <1>9, <1>10 DEF Ledger, Answers

LEMMA VerdictsAreOK ==
    ASSUME NEW tags \in SUBSET Tags, NEW verdicts \in [tags -> {"confirm", "reject"}]
    PROVE  VerdictsOK(verdicts)
BY DEF VerdictsOK, Verdicts

LEMMA ReviewingIsGood ==
    ASSUME Ledger, Reviewing
    PROVE  Good
<1>1. ASSUME NEW d \in Docs, NEW tags \in SUBSET Tags,
             \/ ReplaceTags(d, tags) \/ FileDocument(d, tags)
             \/ tags # {} /\ \E verdicts \in [tags -> {"confirm", "reject"}] : Review(d, verdicts)
      PROVE  Good
  <2>1. CASE ReplaceTags(d, tags)
    BY <2>1, ReplaceTagsIsGood
  <2>2. CASE FileDocument(d, tags)
    BY <2>2, FileDocumentIsGood
  <2>3. ASSUME NEW verdicts \in [tags -> {"confirm", "reject"}], Review(d, verdicts) PROVE Good
    BY <2>3, VerdictsAreOK, ReviewIsGood
  <2> QED BY <1>1, <2>1, <2>2, <2>3
<1>2. ASSUME NEW d \in Docs, NEW t \in Tags, Review(d, [u \in {t} |-> "unsure"]) PROVE Good
  <2>1. VerdictsOK([u \in {t} |-> "unsure"])
    BY DEF VerdictsOK, Verdicts
  <2> QED BY <1>2, <2>1, ReviewIsGood
<1> QED BY <1>1, <1>2 DEF Reviewing

LEMMA VocabulariesAreGood ==
    ASSUME Ledger, Vocabularies
    PROVE  Good
BY MergeBeginIsGood, MergeEndIsGood, OpenFormIsGood, SaveFormIsGood DEF Vocabularies

LEMMA PapersAreGood ==
    ASSUME Ledger, Papers
    PROVE  Good
BY EditIsGood, LoseActorIsGood, RemoveOrRestoreIsGood, PurgeIsGood, RunCompletesIsGood DEF Papers

LEMMA ModellingIsGood ==
    ASSUME Ledger, Modelling
    PROVE  Good
BY TrainIsGood, ActivateIsGood, DisableIsGood, RollbackIsGood DEF Modelling

LEMMA RunnersAreGood ==
    ASSUME Ledger, NEW r \in Runners, RunnerStep(r)
    PROVE  Good
BY InferStartIsGood, ApplyStartIsGood, PredictIsGood, InferSaveIsGood, InferFailsIsGood,
   ApplyCheckIsGood, ApplyPublishIsGood, ApplyFailsIsGood, ApplyEndIsGood, RunnerDiesIsGood DEF RunnerStep

LEMMA BackgroundIsGood ==
    ASSUME Ledger, Background
    PROVE  Good
BY RunnersAreGood, InferSettlesIsGood, TimePassesIsGood, RecoverIsGood DEF Background

LEMMA StutterIsGood ==
    ASSUME Ledger, UNCHANGED topicVars
    PROVE  Good
<1>1. UNCHANGED <<topic, paper, model, merging, form, peopleVars>>
  BY DEF topicVars, peopleVars
<1>2. Trained' /\ ModelsFrame
  BY <1>1, SamePapers, ModelsSame DEF Ledger, Answers
<1> QED BY <1>1, <1>2, SamePapers, SameTopics, QuietIsGood

LEMMA LedgerStep == Ledger /\ [TopicsNext]_topicVars => Good
BY ReviewingIsGood, VocabulariesAreGood, PapersAreGood, ModellingIsGood, BackgroundIsGood, StutterIsGood
   DEF TopicsNext

LEMMA LedgerAlways == TopicsSpec => []Ledger
<1>1. Ledger /\ [TopicsNext]_topicVars => Ledger'
  BY LedgerStep DEF Good
<1> QED BY <1>1, LedgerInit, PTL DEF TopicsSpec

\* Contributions, tags and counters say the same after every review, replacement,
\* merge, rollback, publication and purge, for all tags and documents.
THEOREM TagsAlwaysAddUp == TopicsSpec => []TagsAddUp
<1>1. Ledger => TagsAddUp
  BY DEF Ledger, Core, SoundPapers, SoundPaper, TagsAddUp, TagsAreContributed
<1> QED BY <1>1, LedgerAlways, PTL

\* A tag that a person gave leaves a document only by a person's decision, by a
\* merge that puts its target in its place, or with the document.
THEOREM HumanTagsAlwaysStay == TopicsSpec => HumanTagsStay
<1>1. Ledger /\ [TopicsNext]_topicVars => [HumanStep]_topicVars
  BY LedgerStep DEF Good
<1> QED BY <1>1, LedgerAlways, PTL DEF TopicsSpec, HumanTagsStay, HumanStep

\* What a model newly puts on a document is offered and enabled, and nobody's last
\* word on it is against it, at the moment it is written.
THEOREM PeopleAlwaysOverride == TopicsSpec => PeopleOverrideModels
<1>1. Ledger /\ [TopicsNext]_topicVars => [OverrideStep]_topicVars
  BY LedgerStep DEF Good
<1> QED BY <1>1, LedgerAlways, PTL DEF TopicsSpec, PeopleOverrideModels, OverrideStep

\* What a worker brings back belongs to what it went away with: a suggestion to the
\* content that was read, a publication to the content and the training document
\* that were checked, because its locks keep everyone from them in between.
THEOREM AnswersAlwaysFit == TopicsSpec => AnswersFitWhatWasRead
<1>1. Ledger /\ [TopicsNext]_topicVars => [AnswersStep]_topicVars
  BY LedgerStep DEF Good
<1> QED BY <1>1, LedgerAlways, PTL DEF TopicsSpec, AnswersFitWhatWasRead, AnswersStep

=============================================================================
