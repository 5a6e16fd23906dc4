------------------------------- MODULE Topics -------------------------------
(***************************************************************************)
(* The topics of the repository's documents and who gives them: reviews    *)
(* and edits by people, merges of the vocabulary, local models that are    *)
(* trained, activated and invalidated, and the two queues of work behind   *)
(* an extraction: suggesting topics (inference_jobs.py) and applying those *)
(* of an automatic model (tag_application_jobs.py).                        *)
(*                                                                         *)
(* One run of one office and collection per document; one model scope.     *)
(* A review that names an old input or vocabulary is refused and changes   *)
(* nothing, so only reviews of a fresh page are steps.                     *)
(***************************************************************************)
EXTENDS Integers, FiniteSets, SequencesExt

CONSTANTS
    Tags, Docs, Models,
    Runners,                    \* queue workers
    NoTag, NoModel, NoDoc, NoRunner,
    ByKey,                      \* the pairs of tags of which the first has the smaller primary key
    MaxAttempts,                \* 3 in the code
    MaxEdits                 \* bound: edits of one document

ASSUME TopicConstants ==
    /\ IsFiniteSet(Tags) /\ IsFiniteSet(Docs) /\ {"legacy", "review"} \cap Models = {}
    /\ \A t, u \in Tags : <<t, u>> \in ByKey <=> t # u /\ <<u, t>> \notin ByKey
    /\ \A t, u, v \in Tags : <<t, u>> \in ByKey /\ <<u, v>> \in ByKey => <<t, v>> \in ByKey
    /\ NoTag \notin Tags /\ NoModel \notin Models /\ NoDoc \notin Docs /\ NoRunner \notin Runners
    /\ MaxAttempts \in Nat \ {0} /\ MaxEdits \in Nat

VARIABLES
    topic,          \* Tag rows
    paper,          \* Document rows with their tags, contributions and reviews
    model,          \* TagModel rows with the snapshot each was trained on
    task,           \* InferenceIntent and TagApplicationIntent rows
    suggestion,     \* the MetadataSuggestion of each document's run
    runner,         \* what each worker is doing
    merging,        \* the merge that holds its documents
    form            \* the edit of a tag that has loaded its row

topicVars == <<topic, paper, model, task, suggestion, runner, merging, form>>
peopleVars == <<task, suggestion, runner>>

Sources == {"legacy", "review"} \cup Models     \* a Model's contribution is "automatic"
Verdicts == {"confirm", "reject", "unsure"}      \* "add" acts as "confirm"
TaskKinds == {"infer", "apply"}
SettledStates == {"complete", "blocked", "action_required"}

NoSuggestion == [model |-> NoModel, tags |-> {}, input |-> <<>>]
NoTask == [state |-> "none", attempts |-> 0, owner |-> NoRunner, live |-> FALSE, waits |-> FALSE]
Unheard == [t \in Tags |-> [verdict |-> "nothing", since |-> {}]]
NewTask == [NoTask EXCEPT !.state = "pending"]
IdleRunner == [step |-> "idle", doc |-> NoDoc, model |-> NoModel, tags |-> {}, input |-> <<>>]
NoMerge == [source |-> NoTag, target |-> NoTag, docs |-> {}]
NoForm == [tag |-> NoTag, canonical |-> NoTag]

\* input_revision and vocabulary_digest: what a page, a model or a task was about.
Input(d) == <<paper[d].state, paper[d].revision>>
VocabularyOf(rows) == [t \in Tags |-> <<rows[t].active, rows[t].canonical>>]
Vocabulary == VocabularyOf(topic)

Offered(t) == topic[t].active /\ topic[t].canonical = NoTag

\* The tag that stands for t now, through redirects.
Redirect(t) == IF topic[t].canonical = NoTag THEN t ELSE topic[t].canonical
Canonical(t) == FoldLeft(LAMBDA r, i : Redirect(r), t, [i \in 1..Cardinality(Tags) |-> i])

\* The tags people spoke of that t is, or stands for; and the last thing said of them.
SpokenOf(d, t) == {u \in Tags : paper[d].decided[u].verdict # "nothing" /\ Canonical(u) = t}
LastSaid(d, t) ==
    IF SpokenOf(d, t) = {} THEN "nothing"
    ELSE paper[d].decided[CHOOSE u \in SpokenOf(d, t) :
                            paper[d].decided[u].since \cap SpokenOf(d, t) = {}].verdict

-----------------------------------------------------------------------------
(* Locks.  A worker that publishes holds its document and its model's       *)
(* source, a merge its documents; everyone else waits for them.             *)

PublishLocks(r) == {runner[r].doc} \cup {model[m].source : m \in Models \cap {runner[r].model}}
Publishing == {r \in Runners : runner[r].step = "publishing"}
LockedDocs == UNION {PublishLocks(r) : r \in Publishing} \cup merging.docs
Unlocked(d) == d \notin LockedDocs

-----------------------------------------------------------------------------
(* Contributions, the tags they add up to, and the counters. *)

TagsOf(gifts) == {g.tag : g \in gifts}
Gift(t, source) == [tag |-> t, source |-> source]

\* _bootstrap: a tag without provenance becomes a person's.
Bootstrapped(row) == row.gifts \cup {Gift(t, "legacy") : t \in row.tags \ TagsOf(row.gifts)}

\* _decision for every tag of verdicts, in the order of their keys.  Of a tag's reviews
\* the last is kept, with the tags that were reviewed since.
Decided(row, verdicts) ==
    LET settled == DOMAIN verdicts
        kept    == {g \in Bootstrapped(row) : g.tag \notin settled \/ verdicts[g.tag] # "reject"}
    IN  [row EXCEPT !.decided = [t \in Tags |->
                        IF t \in settled
                        THEN [verdict |-> verdicts[t], since |-> {u \in settled : <<t, u>> \in ByKey}]
                        ELSE [verdict |-> row.decided[t].verdict, since |-> row.decided[t].since \cup settled]],
                    !.gifts = kept \cup {Gift(t, "review") : t \in {u \in settled : verdicts[u] = "confirm"}}]

\* Fault: a tag once given stays.
MaterializedNew(row) == [row EXCEPT !.tags = @ \cup TagsOf(row.gifts)]

\* _materialize: the tags are those contributed.
Materialized(row) == [row EXCEPT !.tags = TagsOf(row.gifts)]

\* ... and the counters follow, one document at a time, never below zero.
Counted(rows, papers) ==
    [t \in Tags |-> [rows[t] EXCEPT !.usage =
        LET gained == {d \in Docs : t \in papers[d].tags \ paper[d].tags}
            lost   == {d \in Docs : t \in paper[d].tags \ papers[d].tags}
            fewer  == @ + Cardinality(gained) - Cardinality(lost)
        IN  IF fewer < 0 THEN 0 ELSE fewer]]

\* lifecycle_hooks: the models trained on a document or a vocabulary that changed.
Invalidated(docs, anyVocabulary) ==
    [m \in Models |-> IF model[m].mode # "none" /\ (anyVocabulary \/ model[m].source \in docs)
                      THEN [model[m] EXCEPT !.mode = "invalid", !.active = FALSE]
                      ELSE model[m]]

\* A person's change of one document's tags.
Write(d, row) ==
    /\ paper' = [paper EXCEPT ![d] = Materialized(row)]
    /\ topic' = Counted(topic, paper')
    /\ model' = Invalidated({d}, FALSE)

-----------------------------------------------------------------------------
(* People *)

MayEdit(d) == paper[d].state = "active" /\ Unlocked(d)

\* review_tag, and complete_review of several tags at once.
Review(d, verdicts) ==
    /\ MayEdit(d)
    /\ \A t \in DOMAIN verdicts : Offered(t)
    /\ Write(d, Decided(paper[d], verdicts))
    /\ UNCHANGED <<peopleVars, merging, form>>

\* replace_human_tags: what stays is confirmed, what goes is rejected.
Replaced(d, desired) ==
    Decided(paper[d], [t \in paper[d].tags \cup desired |-> IF t \in desired THEN "confirm" ELSE "reject"])

ReplaceTags(d, desired) ==
    /\ MayEdit(d) /\ paper[d].tags \cup desired # {}
    /\ \A t \in desired \ paper[d].tags : Offered(t)
    /\ Write(d, Replaced(d, desired))
    /\ UNCHANGED <<peopleVars, merging, form>>

\* initialize_filing_tags, by the filing that creates the document.
FileDocument(d, desired) ==
    /\ paper[d].state = "absent"
    /\ \A t \in desired : Offered(t)
    /\ Write(d, [Replaced(d, desired) EXCEPT !.state = "active"])
    /\ UNCHANGED <<peopleVars, merging, form>>

\* merge_tags: the documents that hold either tag are found and locked,
MergeBegin(source, target) ==
    /\ merging = NoMerge /\ source # target
    /\ LET affected == {d \in Docs : {source, target} \cap paper[d].tags # {}}
       IN  /\ \A d \in affected : Unlocked(d)
           /\ merging' = [source |-> source, target |-> target, docs |-> affected]
    /\ UNCHANGED <<peopleVars, topic, paper, model, form>>

\* Fault: the documents found are taken for all of them.
MergeableAsFound == topic[merging.source].active /\ Offered(merging.target)

\* then the tags; a document that got the source meanwhile refuses the merge.
Mergeable ==
    /\ topic[merging.source].active /\ Offered(merging.target)
    /\ \A d \in Docs \ merging.docs : merging.source \notin paper[d].tags

Merged(row) ==
    Materialized([row EXCEPT !.gifts =
        {Gift(IF g.tag = merging.source THEN merging.target ELSE g.tag, g.source) : g \in Bootstrapped(row)}])

MergeEnd ==
    /\ merging # NoMerge
    /\ merging' = NoMerge
    /\ IF Mergeable
       THEN LET redirected == [topic EXCEPT ![merging.source].canonical = merging.target,
                                            ![merging.source].active = FALSE,
                                            ![merging.source].automatic = FALSE]
            IN  /\ paper' = [d \in Docs |-> IF d \in merging.docs THEN Merged(paper[d]) ELSE paper[d]]
                /\ topic' = Counted(redirected, paper')
                /\ model' = Invalidated({}, TRUE)
       ELSE UNCHANGED <<topic, paper, model>>
    /\ UNCHANGED <<peopleVars, form>>

\* save_masterdata_form: the row is loaded, then written whole, except that the
\* counter is read again.
OpenForm(t) ==
    /\ form = NoForm
    /\ form' = [tag |-> t, canonical |-> topic[t].canonical]
    /\ UNCHANGED <<peopleVars, topic, paper, model, merging>>

SaveForm(active, automatic) ==
    /\ form # NoForm
    /\ form' = NoForm
    /\ topic' = [topic EXCEPT ![form.tag] =
                    [@ EXCEPT !.canonical = form.canonical, !.active = active, !.automatic = automatic]]
    /\ model' = Invalidated({}, VocabularyOf(topic') # Vocabulary)
    /\ UNCHANGED <<peopleVars, paper, merging>>

\* Metadata edits; a full retry of the extraction replaces the run as well.
Edit(d) ==
    /\ MayEdit(d) /\ paper[d].revision < MaxEdits
    /\ \E run \in {paper[d].run, "superseded"} :
        paper' = [paper EXCEPT ![d].revision = @ + 1, ![d].run = run]
    /\ model' = Invalidated({d}, FALSE)
    /\ UNCHANGED <<peopleVars, topic, merging, form>>

\* The account that asked for the extraction loses its access.
LoseActor(d) ==
    /\ paper[d].run = "current"
    /\ paper' = [paper EXCEPT ![d].run = "orphaned"]
    /\ UNCHANGED <<peopleVars, topic, model, merging, form>>

RemoveOrRestore(d) ==
    /\ paper[d].state \in {"active", "removed"} /\ Unlocked(d)
    /\ paper' = [paper EXCEPT ![d].state = IF @ = "active" THEN "removed" ELSE "active"]
    /\ model' = Invalidated({d}, FALSE)
    /\ UNCHANGED <<peopleVars, topic, merging, form>>

\* The purge counts the tags down and deletes the row with all that hangs on it.
Erased(row) == [row EXCEPT !.state = "purged", !.tags = {}, !.gifts = {}, !.decided = Unheard]

PurgePaper(d) ==
    /\ paper[d].state = "removed" /\ Unlocked(d)
    /\ paper' = [paper EXCEPT ![d] = Erased(@)]
    /\ topic' = Counted(topic, paper')
    /\ model' = Invalidated({d}, FALSE)
    /\ task' = [k \in TaskKinds |-> [task[k] EXCEPT ![d] = NoTask]]
    /\ suggestion' = [suggestion EXCEPT ![d] = NoSuggestion]
    /\ UNCHANGED <<runner, merging, form>>

-----------------------------------------------------------------------------
(* Models.  Activation, disabling and publishing lock the office.           *)

\* validate_snapshot and the model's own vocabulary.
Valid(m) ==
    LET from == model[m].source
    IN  /\ model[m].mode \notin {"none", "invalid"} /\ model[m].vocabulary = Vocabulary
        /\ model[m].input = Input(from) /\ model[m].labels = paper[from].decided

\* train_candidate validates its snapshot again before it publishes the model.
Train(m, d) ==
    /\ model[m].mode = "none" /\ MayEdit(d)
    /\ model' = [model EXCEPT ![m] = [mode |-> "candidate", active |-> FALSE, source |-> d,
                    vocabulary |-> Vocabulary, input |-> Input(d), labels |-> paper[d].decided]]
    /\ UNCHANGED <<peopleVars, topic, paper, merging, form>>

Retired(m) == IF model[m].active THEN [model[m] EXCEPT !.active = FALSE, !.mode = "retired"] ELSE model[m]

Activate(m, mode) ==
    /\ Valid(m) /\ Publishing = {} /\ Unlocked(model[m].source)
    /\ model' = [n \in Models |-> IF n = m THEN [model[m] EXCEPT !.mode = mode, !.active = TRUE] ELSE Retired(n)]
    /\ UNCHANGED <<peopleVars, topic, paper, merging, form>>

\* rollback_model without a target.
Disable ==
    /\ Publishing = {}
    /\ model' = [m \in Models |-> Retired(m)]
    /\ UNCHANGED <<peopleVars, topic, paper, merging, form>>

\* Fault: so are the tags, whoever else gave them.
RolledBackTags(row, m) ==
    Materialized([row EXCEPT !.gifts =
        {g \in Bootstrapped(row) : Gift(g.tag, m) \notin row.gifts}])

\* rollback_auto_tags: the contributions of one model are taken back.
RolledBack(row, m) ==
    Materialized([row EXCEPT !.gifts = {g \in Bootstrapped(row) : g.source # m}])

RollbackAutoTags(m) ==
    LET theirs == {d \in Docs : \E g \in paper[d].gifts : g.source = m}
    IN  /\ theirs # {} /\ \A d \in theirs : Unlocked(d)
        /\ paper' = [d \in Docs |-> IF d \in theirs THEN RolledBack(paper[d], m) ELSE paper[d]]
        /\ topic' = Counted(topic, paper')
        /\ UNCHANGED <<peopleVars, model, merging, form>>

-----------------------------------------------------------------------------
(* Work: leases, attempts and waits, alike for both kinds.                  *)

Do(r, row) == runner' = [runner EXCEPT ![r] = row]
SetTask(k, d, row) == task' = [task EXCEPT ![k] = [@ EXCEPT ![d] = row]]
Ended(row, state) ==
    [row EXCEPT !.state = state, !.owner = NoRunner, !.live = FALSE, !.waits = (state = "retry_wait")]
AfterFailure(row) == IF row.attempts < MaxAttempts THEN "retry_wait" ELSE "action_required"

Deliverable(row) == row.state \notin SettledStates \cup {"none"} /\ ~row.live /\ ~row.waits
Taken(row, r) ==
    [row EXCEPT !.state = "running", !.owner = r, !.live = TRUE, !.attempts = @ + 1]

\* The queue may deliver a task at any time, twice, or never.
Start(k, r, d, begun) ==
    LET row == task[k][d]
    IN  /\ runner[r].step = "idle" /\ Deliverable(row)
        /\ IF row.attempts >= MaxAttempts
           THEN SetTask(k, d, [row EXCEPT !.state = "action_required"]) /\ UNCHANGED runner
           ELSE SetTask(k, d, Taken(row, r)) /\ Do(r, begun)
        /\ UNCHANGED <<topic, paper, model, suggestion, merging, form>>

LeaseEnds(k, d) ==
    /\ task[k][d].live
    /\ SetTask(k, d, [task[k][d] EXCEPT !.live = FALSE])
    /\ UNCHANGED <<topic, paper, model, suggestion, runner, merging, form>>

WaitEnds(k, d) ==
    /\ task[k][d].waits
    /\ SetTask(k, d, [task[k][d] EXCEPT !.waits = FALSE])
    /\ UNCHANGED <<topic, paper, model, suggestion, runner, merging, form>>

RunnerDies(r) ==
    /\ runner[r].step # "idle"
    /\ Do(r, IdleRunner)
    /\ UNCHANGED <<topic, paper, model, task, suggestion, merging, form>>

\* _eligible: the run is the document's and its account may still read it.
Eligible(d) == paper[d].state = "active" /\ paper[d].run = "current"

-----------------------------------------------------------------------------
(* Suggesting (inference_jobs.py) *)

RunCompletes(d) ==
    /\ task["infer"][d].state = "none" /\ paper[d].state = "active" /\ paper[d].run = "current"
    /\ SetTask("infer", d, NewTask)
    /\ UNCHANGED <<topic, paper, model, suggestion, runner, merging, form>>

InferSettles(d) ==
    /\ Unlocked(d) /\ task["infer"][d].state \notin SettledStates \cup {"none"}
    /\ \/ ~Eligible(d) /\ SetTask("infer", d, [task["infer"][d] EXCEPT !.state = "blocked"])
       \/ /\ Eligible(d) /\ suggestion[d] # NoSuggestion
          /\ SetTask("infer", d, [task["infer"][d] EXCEPT !.state = "complete"])
    /\ UNCHANGED <<topic, paper, model, suggestion, runner, merging, form>>

InferStart(r, d) ==
    /\ Unlocked(d) /\ Eligible(d) /\ suggestion[d] = NoSuggestion
    /\ Start("infer", r, d, [IdleRunner EXCEPT !.step = "inferring", !.doc = d, !.input = Input(d)])

\* predict_tags, with its second look under the document's lock.
UsableModels == {m \in Models : model[m].active /\ Valid(m)}

Predict(r) ==
    LET d == runner[r].doc
    IN  /\ runner[r].step = "inferring" /\ Unlocked(d)
        /\ \/ /\ paper[d].state = "active"
              /\ \E m \in UsableModels : \E tags \in SUBSET {t \in Tags : Offered(t)} :
                    Do(r, [runner[r] EXCEPT !.step = "inferred", !.model = m, !.tags = tags])
           \/ /\ UsableModels = {} \/ paper[d].state # "active"
              /\ Do(r, [runner[r] EXCEPT !.step = "inferred"])
        /\ UNCHANGED <<topic, paper, model, task, suggestion, merging, form>>

\* Fault: the answer is taken for the document as it is now.
OutcomeOfNow(r) ==
    LET d == runner[r].doc
    IN  CASE ~Eligible(d) -> "blocked"
          [] OTHER -> IF runner[r].tags # {} /\ ~model[runner[r].model].active THEN "retry_wait" ELSE "complete"

\* What the worker finds when it comes back with its answer.
Outcome(r) ==
    LET d == runner[r].doc
    IN  CASE ~Eligible(d) -> "blocked"
          [] Eligible(d) /\ Input(d) # runner[r].input -> "retry_wait"
          [] OTHER -> IF runner[r].tags # {} /\ ~model[runner[r].model].active THEN "retry_wait" ELSE "complete"

HoldsLease(k, r) == task[k][runner[r].doc].owner = r /\ task[k][runner[r].doc].live

InferSave(r) ==
    LET d == runner[r].doc
        settled == Ended(task["infer"][d], Outcome(r))
        new == settled.state = "complete" /\ suggestion[d] = NoSuggestion
    IN  /\ runner[r].step = "inferred" /\ Unlocked(d)
        /\ Do(r, IdleRunner)
        /\ IF ~HoldsLease("infer", r) THEN UNCHANGED <<task, suggestion>>
           ELSE /\ suggestion' = IF new
                        THEN [suggestion EXCEPT ![d] =
                                [model |-> runner[r].model, tags |-> runner[r].tags, input |-> runner[r].input]]
                        ELSE suggestion
                /\ task' = [task EXCEPT !["infer"] = [@ EXCEPT ![d] = settled],
                                        !["apply"] = IF new /\ runner[r].tags # {}
                                                     THEN [@ EXCEPT ![d] = NewTask] ELSE @]
        /\ UNCHANGED <<topic, paper, model, merging, form>>

InferFails(r) ==
    LET d == runner[r].doc  row == task["infer"][d]
    IN  /\ runner[r].step \in {"inferring", "inferred"} /\ Unlocked(d)
        /\ Do(r, IdleRunner)
        /\ IF row.owner = r THEN SetTask("infer", d, Ended(row, AfterFailure(row))) ELSE UNCHANGED task
        /\ UNCHANGED <<topic, paper, model, suggestion, merging, form>>

-----------------------------------------------------------------------------
(* Applying (tag_application_jobs.py, automatic_tags.py) *)

ApplyStart(r, d) == Start("apply", r, d, [IdleRunner EXCEPT !.step = "applying", !.doc = d])

\* Fault: the evidence is not compared with the suggestion's.
ObstacleOfNow(d) ==
    LET m == suggestion[d].model
    IN  CASE paper[d].run = "orphaned" \/ paper[d].state # "active" -> "blocked"
          [] paper[d].run = "superseded" /\ paper[d].state = "active" -> "action_required"
          [] OTHER -> IF Valid(m) /\ model[m].active /\ model[m].mode = "automatic" THEN "publishing" ELSE "complete"

\* What apply_tag_decisions finds before it looks at the single tags.
Obstacle(d) ==
    LET m == suggestion[d].model
    IN  CASE paper[d].run = "orphaned" \/ paper[d].state # "active" -> "blocked"
          [] paper[d].run = "superseded" /\ paper[d].state = "active" -> "action_required"
          [] OTHER ->
                IF /\ Input(d) = suggestion[d].input /\ paper[d].complete
                   /\ Valid(m) /\ model[m].active /\ model[m].mode = "automatic"
                THEN "publishing" ELSE "complete"

ApplyCheck(r) ==
    LET d == runner[r].doc  m == suggestion[d].model
    IN  /\ runner[r].step = "applying" /\ suggestion[d] # NoSuggestion
        /\ Obstacle(d) = "publishing" => Publishing = {} /\ Unlocked(d) /\ Unlocked(model[m].source)
        /\ Do(r, [runner[r] EXCEPT !.step = Obstacle(d), !.model = m])
        /\ UNCHANGED <<topic, paper, model, task, suggestion, merging, form>>

\* Fault: a tag's reviews are looked up by its own number only.
UnopposedByNumber(d) ==
    {t \in suggestion[d].tags : Offered(t) /\ topic[t].automatic
        /\ paper[d].decided[t].verdict \notin {"reject", "unsure"}}

\* The tags that nothing speaks against, read under their locks.
Unopposed(d) ==
    {t \in suggestion[d].tags : Offered(t) /\ topic[t].automatic /\ LastSaid(d, t) \notin {"reject", "unsure"}}

ApplyPublish(r) ==
    LET d == runner[r].doc
        given == {Gift(t, runner[r].model) : t \in Unopposed(d)}
        row == [paper[d] EXCEPT !.gifts = Bootstrapped(paper[d]) \cup given]
    IN  /\ runner[r].step = "publishing"
        /\ IF given = {} THEN Do(r, [runner[r] EXCEPT !.step = "complete"]) /\ UNCHANGED <<topic, paper>>
           ELSE IF ~HoldsLease("apply", r) \/ task["apply"][d].state # "running"
                THEN Do(r, [runner[r] EXCEPT !.step = "failed"]) /\ UNCHANGED <<topic, paper>>
                ELSE /\ paper' = [paper EXCEPT ![d] = Materialized(row)]
                     /\ topic' = Counted(topic, paper')
                     /\ Do(r, [runner[r] EXCEPT !.step = "complete"])
        /\ UNCHANGED <<model, task, suggestion, merging, form>>

ApplyFails(r) ==
    /\ runner[r].step \in {"applying", "publishing"}
    /\ Do(r, [runner[r] EXCEPT !.step = "failed"])
    /\ UNCHANGED <<topic, paper, model, task, suggestion, merging, form>>

\* The last update is addressed to the token alone.
ApplyEnd(r) ==
    LET d == runner[r].doc  row == task["apply"][d]
    IN  /\ runner[r].step \in SettledStates \cup {"failed"}
        /\ Do(r, IdleRunner)
        /\ IF row.owner = r
           THEN SetTask("apply", d,
                    Ended(row, IF runner[r].step = "failed" THEN AfterFailure(row) ELSE runner[r].step))
           ELSE UNCHANGED task
        /\ UNCHANGED <<topic, paper, model, suggestion, merging, form>>

-----------------------------------------------------------------------------
(* recover_suggestions and recover_applications *)

\* Fault: running work is never looked at.
StrandedQueued(row) == row.state \in {"pending", "retry_wait"} /\ ~row.live /\ ~row.waits

Stranded(row) == row.state \in {"pending", "retry_wait", "running"} /\ ~row.live /\ ~row.waits

Recover(k, d) ==
    LET row == task[k][d]
        refused == k = "infer" /\ ~Eligible(d)
    IN  /\ Stranded(row) /\ (k = "infer" => Unlocked(d))
        /\ SetTask(k, d, CASE refused -> [row EXCEPT !.state = "blocked"]
                           [] ~refused /\ row.attempts >= MaxAttempts -> [row EXCEPT !.state = "action_required"]
                           [] OTHER -> Ended(row, "pending"))
        /\ UNCHANGED <<topic, paper, model, suggestion, runner, merging, form>>

-----------------------------------------------------------------------------
AbsentPaper == [state |-> "absent", revision |-> 0, complete |-> TRUE, run |-> "current",
                tags |-> {}, gifts |-> {}, decided |-> Unheard]
NoTraining == [mode |-> "none", active |-> FALSE, source |-> NoDoc,
               vocabulary |-> <<>>, input |-> <<>>, labels |-> <<>>]

TopicsInit ==
    /\ topic = [t \in Tags |-> [canonical |-> NoTag, active |-> TRUE, automatic |-> TRUE, usage |-> 0]]
    /\ paper \in [Docs -> {[AbsentPaper EXCEPT !.complete = c] : c \in BOOLEAN}]
    /\ model = [m \in Models |-> NoTraining]
    /\ task = [k \in TaskKinds |-> [d \in Docs |-> NoTask]]
    /\ suggestion = [d \in Docs |-> NoSuggestion]
    /\ runner = [r \in Runners |-> IdleRunner]
    /\ merging = NoMerge /\ form = NoForm

Reviewing ==
    \/ \E d \in Docs, tags \in SUBSET Tags :
        \/ ReplaceTags(d, tags) \/ FileDocument(d, tags)
        \/ tags # {} /\ \E verdicts \in [tags -> {"confirm", "reject"}] : Review(d, verdicts)
    \/ \E d \in Docs, t \in Tags : Review(d, [u \in {t} |-> "unsure"])

Vocabularies ==
    \/ \E source, target \in Tags : MergeBegin(source, target)
    \/ MergeEnd
    \/ \E t \in Tags : OpenForm(t)
    \/ \E active, automatic \in BOOLEAN : SaveForm(active, automatic)

Papers == \E d \in Docs : Edit(d) \/ LoseActor(d) \/ RemoveOrRestore(d) \/ PurgePaper(d) \/ RunCompletes(d)

Modelling ==
    \/ \E m \in Models, d \in Docs : Train(m, d)
    \/ \E m \in Models, mode \in {"suggestion", "automatic"} : Activate(m, mode)
    \/ Disable
    \/ \E m \in Models : RollbackAutoTags(m)

RunnerStep(r) ==
    \/ \E d \in Docs : InferStart(r, d) \/ ApplyStart(r, d)
    \/ Predict(r) \/ InferSave(r) \/ InferFails(r)
    \/ ApplyCheck(r) \/ ApplyPublish(r) \/ ApplyFails(r) \/ ApplyEnd(r)
    \/ RunnerDies(r)

Background ==
    \/ \E r \in Runners : RunnerStep(r)
    \/ \E d \in Docs : InferSettles(d)
    \/ \E k \in TaskKinds, d \in Docs : LeaseEnds(k, d) \/ WaitEnds(k, d) \/ Recover(k, d)

TopicsNext == Reviewing \/ Vocabularies \/ Papers \/ Modelling \/ Background

TopicsSpec == TopicsInit /\ [][TopicsNext]_topicVars

(* The recovery command is run again and again, time passes, and a worker   *)
(* that is not killed gets on.  What waits for an account, a lock or a document  *)
(* that comes and goes is not overlooked for ever.                          *)
TaskFairness(k, d) ==
    /\ WF_topicVars(LeaseEnds(k, d)) /\ WF_topicVars(WaitEnds(k, d))
    /\ SF_topicVars(Recover(k, d))

SuggestFairness(d) ==
    /\ TaskFairness("infer", d)
    /\ SF_topicVars(\E r \in Runners : InferStart(r, d))
    /\ \A r \in Runners : SF_topicVars(InferSave(r) \/ InferFails(r) \/ RunnerDies(r))

-----------------------------------------------------------------------------
(* Properties *)

\* A tag's counter is the number of documents that carry it, through every
\* review, merge, rollback, publication and purge.
UsageIsExact ==
    \A t \in Tags : topic[t].usage = Cardinality({d \in Docs : t \in paper[d].tags})

\* Whatever a person or a model contributed shows on the document, and what
\* nobody contributes any more does not, except on documents nobody touched.
TagsAreContributed ==
    \A d \in Docs : /\ TagsOf(paper[d].gifts) \subseteq paper[d].tags
                    /\ paper[d].gifts # {} => paper[d].tags = TagsOf(paper[d].gifts)

\* A tag that was merged into another stays on no document, also none that
\* got it while the merge was under way.
MergedTagsAreGone ==
    \A t \in Tags : topic[t].canonical # NoTag => \A d \in Docs : t \notin paper[d].tags

\* Contributions, tags and counters say the same.
TagsAddUp == UsageIsExact /\ TagsAreContributed /\ MergedTagsAreGone

\* A tag that a person gave leaves a document only by a person's decision, by a
\* merge that puts its target in its place, or with the document.
GivenByPeople(d) == TagsOf({g \in Bootstrapped(paper[d]) : g.source \notin Models})
HumanTagsStay ==
    [][\A d \in Docs : \A t \in GivenByPeople(d) \ paper'[d].tags :
        \/ paper'[d].decided[t].verdict = "reject"
        \/ topic'[t].canonical \in paper'[d].tags
        \/ paper'[d].state = "purged"]_topicVars

\* What a model newly puts on a document: the tag is offered and enabled, and
\* nobody's last word on it, or on a tag merged into it, is no or unsure.
NewlyGiven(d) == {g \in paper'[d].gifts \ paper[d].gifts : g.source \in Models}
PeopleOverrideModels ==
    [][merging' = merging =>
        \A d \in Docs : \A g \in NewlyGiven(d) :
            /\ Offered(g.tag) /\ topic[g.tag].automatic
            /\ LastSaid(d, g.tag) \notin {"reject", "unsure"}]_topicVars

\* What a model newly puts on a document was suggested for this content, by a model whose training document
\* is still as it was when people reviewed it.
AppliedToWhatWasRead ==
    merging' = merging =>
        \A d \in Docs : \A g \in NewlyGiven(d) :
            /\ suggestion[d].input = Input(d)
            /\ model[g.source].input = Input(model[g.source].source)
            /\ model[g.source].labels = paper[model[g.source].source].decided

\* A suggestion is saved for the content the worker read, and while that run of
\* the extraction is the document's.
SuggestedForThisContent ==
    \A d \in Docs : suggestion[d] = NoSuggestion /\ suggestion'[d] # NoSuggestion =>
        suggestion'[d].input = Input(d) /\ Eligible(d)

\* What a worker brings back belongs to what it went away with.
AnswersFitWhatWasRead == [][AppliedToWhatWasRead /\ SuggestedForThisContent]_topicVars

\* No document carries a model's contribution of a tag that people rejected
\* (docs/superpowers/specs/2026-10-22-document-intelligence-design.md:127).
RejectionSurvives ==
    \A d \in Docs : \A g \in paper[d].gifts : g.source \in Models => LastSaid(d, g.tag) # "reject"

\* Every completed extraction has its topics looked for, or it is said why not:
\* an intent that was recorded settles, whatever workers are killed and however
\* the document changes meanwhile, or its document is purged.
SuggestionsSettle ==
    \A d \in Docs :
        task["infer"][d].state \in {"pending", "running", "retry_wait"}
        ~> task["infer"][d].state \in SettledStates \cup {"none"}
=============================================================================
