------------------------------ MODULE MCTopics ------------------------------
(***************************************************************************)
(* Instances of Topics for TLC, of two documents and two tags.  The first  *)
(* states of each are in the middle of things, so that the histories that  *)
(* follow stay short:                                                      *)
(*   people    d2 carries a tag that is nobody's or a model's, d1 is filed;*)
(*             reviews, replacements, merges, the tag form, a rollback and *)
(*             the purge;                                                  *)
(*   suggest   the run of d1 completes; workers suggest topics while d1 is *)
(*             edited, removed, purged, and the model on d2 changes;       *)
(*   apply     a suggestion for d1 waits to be applied, a person has said  *)
(*             something of a tag merged into the suggested one.           *)
(***************************************************************************)
EXTENDS Topics, TLC

CONSTANTS d1, d2, t1, t2, m1

MCByKey == {<<t1, t2>>}

FreshTag == [canonical |-> NoTag, active |-> TRUE, automatic |-> TRUE, usage |-> 0]
MergedTag == [canonical |-> t1, active |-> FALSE, automatic |-> FALSE, usage |-> 0]
UsedTag == [FreshTag EXCEPT !.usage = 1]
FiledPaper == [AbsentPaper EXCEPT !.state = "active"]

FirstTopics ==
    [people  |-> t1 :> UsedTag @@ t2 :> FreshTag,
     suggest |-> t1 :> FreshTag @@ t2 :> MergedTag,
     apply   |-> t1 :> FreshTag @@ t2 :> MergedTag]

FirstPapers ==
    [people  |-> {d1 :> AbsentPaper @@ d2 :> [FiledPaper EXCEPT !.tags = {t1}, !.gifts = gifts] :
                    gifts \in {{}, {Gift(t1, m1)}}},
     suggest |-> {d1 :> FiledPaper @@ d2 :> FiledPaper},
     apply   |-> {d1 :> p @@ d2 :> FiledPaper :
                    p \in {[FiledPaper EXCEPT !.complete = FALSE], FiledPaper,
                           [FiledPaper EXCEPT !.decided = [@ EXCEPT ![t2].verdict = "unsure"]]}}]

Trained(mode) == [mode |-> mode, active |-> mode = "automatic", source |-> d2,
                  vocabulary |-> Vocabulary, input |-> Input(d2), labels |-> paper[d2].decided]

TopicsStart(kind) ==
    /\ topic = FirstTopics[kind] /\ paper \in FirstPapers[kind]
    /\ model = [m \in Models |-> IF kind = "suggest" THEN NoTraining ELSE Trained("automatic")]
    /\ task = [k \in TaskKinds |-> [d \in Docs |-> IF kind = "apply" /\ k = "apply" /\ d = d1 THEN NewTask ELSE NoTask]]
    /\ suggestion = [d \in Docs |-> IF kind = "apply" /\ d = d1
                        THEN [model |-> m1, tags |-> {t1}, input |-> Input(d1)] ELSE NoSuggestion]
    /\ runner = [r \in Runners |-> IdleRunner]
    /\ merging = NoMerge /\ form = NoForm

PeopleStep ==
    \/ \E tags \in SUBSET Tags : FileDocument(d1, tags) \/ ReplaceTags(d2, tags)
    \/ \E tags \in SUBSET Tags \ {{}} : \E verdicts \in [tags -> {"confirm", "reject"}] : Review(d1, verdicts)
    \/ \E source, target \in Tags : MergeBegin(source, target)
    \/ MergeEnd
    \/ OpenForm(t2) \/ \E active \in BOOLEAN : SaveForm(active, TRUE)
    \/ RemoveOrRestore(d2) \/ PurgePaper(d2)
    \/ RollbackAutoTags(m1)

\* What happens around the work on d1.
Around ==
    \/ Edit(d1) \/ Edit(d2) \/ LoseActor(d1) \/ RemoveOrRestore(d1) \/ PurgePaper(d1)
    \/ Disable \/ Activate(m1, "automatic")

Clock(k) == LeaseEnds(k, d1) \/ WaitEnds(k, d1) \/ Recover(k, d1)

SuggestStep ==
    \/ Around \/ Clock("infer") \/ Train(m1, d2) \/ RunCompletes(d1) \/ InferSettles(d1)
    \/ \E r \in Runners : InferStart(r, d1) \/ Predict(r) \/ InferSave(r) \/ InferFails(r) \/ RunnerDies(r)

ApplyStep ==
    \/ Around \/ Clock("apply") \/ RollbackAutoTags(m1) \/ Activate(m1, "suggestion")
    \/ \E verdict \in {"confirm", "reject"} : Review(d1, t1 :> verdict)
    \/ \E r \in Runners :
        ApplyStart(r, d1) \/ ApplyCheck(r) \/ ApplyPublish(r) \/ ApplyFails(r) \/ ApplyEnd(r) \/ RunnerDies(r)

TopicsStep(kind) ==
    \/ kind = "people" /\ PeopleStep
    \/ kind = "suggest" /\ SuggestStep
    \/ kind = "apply" /\ ApplyStep

PeopleSpec == TopicsStart("people") /\ [][PeopleStep]_topicVars
=============================================================================
