---------------------------- MODULE MCBackground ----------------------------
(***************************************************************************)
(* What the scheduled jobs must get done in the end, for TLC.  A behaviour *)
(* stays in one setting, and only that setting's job is promised to run:   *)
(*   chase     reminders and warnings of late receipts;                    *)
(*   cleanup   objects of staged files;                                    *)
(*   suggest   topics for a document whose extraction completed.           *)
(***************************************************************************)
EXTENDS MCUploads, MCTrackingNotices, MCTopics

BackgroundInit ==
    /\ NoticeInit /\ UploadsInit /\ TopicsStart("suggest")
    /\ setting \in {"chase", "cleanup", "suggest"}

\* Remarks and files neither raise nor answer a notice.
NoRemarks == \A r \in Records : \A i \in DOMAIN timeline[r] : timeline[r][i].event # "WORK"

BackgroundNext ==
    /\ UNCHANGED setting
    /\ \/ setting = "chase" /\ NoticeNext /\ UNCHANGED <<uploadVars, topicVars>> /\ NoRemarks'
       \/ setting = "cleanup" /\ Cleanup /\ UNCHANGED <<vars, noticeVars, topicVars>>
       \/ setting = "suggest" /\ SuggestStep /\ UNCHANGED <<vars, noticeVars, uploadVars>>

allVars == <<vars, noticeVars, uploadVars, topicVars, setting>>
besideChase == <<uploadVars, topicVars, setting>>
besideCleanup == <<vars, noticeVars, topicVars, setting>>
besideSuggest == <<vars, noticeVars, uploadVars, setting>>

(* The promises of ChaseFairness, UploadsFairness and SuggestFairness.  One  *)
(* of each setting are kept together: only one of these actions can ever be  *)
(* enabled in a behaviour, and TLC's work doubles with every promise of      *)
(* strong fairness.                                                          *)
SoonerOrLater ==
    /\ \A w \in Workers :
        /\ WF_<<vars, noticeVars>>(setting = "chase" /\ ChaseStart(w))
        /\ WF_<<vars, noticeVars>>(ChaseEnd(w))
    /\ \A d \in Drafts : WF_uploadVars(Lapse(d)) /\ WF_uploadVars(Expire(d))
    /\ \A k \in Keys : WF_uploadVars(TimePasses(k))
    /\ \A w \in Cleaners : WF_uploadVars(LeaveObject(w) \/ Requeue(w))
    /\ WF_topicVars(LeaseEnds("infer", d1)) /\ WF_topicVars(WaitEnds("infer", d1))

StagedKeys == {k \in Keys : k.row[1] \in Drafts}

AgainAndAgain ==
    /\ SF_allVars(\/ (\E w \in Workers : ChaseLate(w)) /\ UNCHANGED besideChase
                  \/ (\E w \in Cleaners, k \in StagedKeys : Claim(w, k)) /\ UNCHANGED besideCleanup
                  \/ Recover("infer", d1) /\ UNCHANGED besideSuggest)
    /\ SF_allVars(\/ (\E w \in Workers, r \in Records : Late(w, r)) /\ UNCHANGED besideChase
                  \/ RemoveObject(OneWorker) /\ UNCHANGED besideCleanup
                  \/ (\E r \in Runners : InferStart(r, d1)) /\ UNCHANGED besideSuggest)
    /\ SF_allVars(\/ (\E w \in Workers, r \in Records : Nudge(w, r, A)) /\ UNCHANGED besideChase
                  \/ (\E w \in Cleaners \ {OneWorker} : RemoveObject(w)) /\ UNCHANGED besideCleanup
                  \/ /\ \E r \in Runners : InferSave(r) \/ InferFails(r) \/ RunnerDies(r)
                     /\ UNCHANGED besideSuggest)
    /\ SF_<<vars, noticeVars>>(\E w \in Workers, r \in Records : Nudge(w, r, B))
    /\ SF_<<vars, noticeVars>>(\E w \in Workers, r \in Records : Nudge(w, r, C))

BackgroundSpec ==
    BackgroundInit /\ [][BackgroundNext]_allVars /\ SoonerOrLater /\ AgainAndAgain
=============================================================================
