------------------------------ MODULE MCUploads ------------------------------
(***************************************************************************)
(* A small instance of Uploads.  The states of its questions would         *)
(* multiply, so the first state chooses a setting, and they add up:        *)
(*   "forms"        two tabs submit new files through one draft;           *)
(*   "versions"     one tab and other users upload versions of one file;   *)
(*   "maintenance"  one tab stages a file, others upload versions, writers *)
(*                  are killed, and a worker removes what is left;         *)
(* Cleanup, one tab and the maintenance job, is for MCBackground.          *)
(***************************************************************************)
EXTENDS Uploads, TLC

CONSTANTS OneTab, OneFile, OneGroup, OneWorker

VARIABLE setting

mcvars == <<uploadVars, setting>>

MCInit ==
    /\ UploadsInit /\ setting \in {"forms", "versions", "maintenance"}
    /\ setting = "versions" <=> \A d \in Drafts : draft[d].group # NoGroup

DraftStep == \E d \in Drafts : Lapse(d) \/ Expire(d)
Others == \E g \in Groups : DiscardGroup(g) \/ OthersUpload(g)

(* A request brings one file at most, two requests bring the second; a     *)
(* form of one file leaves it in OneGroup, as the groups are alike.        *)
Forms ==
    /\ (\E t \in Tabs : TabStep(t)) \/ DraftStep
    /\ kills' = 0 /\ \A t \in Tabs : Cardinality(tab'[t].posting) <= 1
    /\ (\E g \in Groups : group'[g].state = "live") => group'[OneGroup].state = "live"

Versions == kills' = 0 /\ (TabStep(OneTab) \/ Others \/ Move \/ DraftStep)

(* One file, one group, and a form that is saved again only when no writer *)
(* has been killed.                                                        *)
Small ==
    /\ \A t \in Tabs : tab'[t].posting \subseteq {OneFile}
    /\ \A d \in Drafts : /\ draft'[d].revision <= 3 - kills'
                        /\ \A f \in Files \ {OneFile} : staged'[d][f].state = "none"
    /\ \A g \in Groups \ {OneGroup} : group'[g].state = "none"

Maintenance ==
    /\ \/ TabStep(OneTab) \/ DraftStep \/ OthersUpload(OneGroup)
       \/ WorkerStep(OneWorker) \/ \E k \in Keys : TimePasses(k)
    /\ Small

Cleanup ==
    /\ \/ TabStep(OneTab) \/ DraftStep
       \/ \E w \in Cleaners : WorkerStep(w)
       \/ \E k \in Keys : TimePasses(k)
    /\ Small

MCNext ==
    /\ setting' = setting
    /\ \/ setting = "forms" /\ Forms
       \/ setting = "versions" /\ Versions
       \/ setting = "maintenance" /\ Maintenance

MCSpec == MCInit /\ [][MCNext]_mcvars
=============================================================================
