--------------------------- MODULE MCTrackingLife ---------------------------
(* Two bounded instances in one run: the whole life of one record, and two   *)
(* records of one office series with shorter histories; and beside them the  *)
(* topics of the documents the filed records become, in MCTopics' settings.  *)
EXTENDS Queues, MCTopics

CONSTANTS A, C, ana, cora, sys, nobody, r1, r2

VARIABLE setting

\* Two offices: a user of A, an office administrator of C, who may approve and
\* reopen, and a system administrator who belongs to A but acts for any office.
MCOffices  == {A, C}
MCUsers    == {ana, cora, sys}
MCOfficeOf == ana :> A @@ cora :> C @@ sys :> A
MCRoleOf   == ana :> "USER" @@ cora :> "ADMIN" @@ sys :> "SYSTEM_ADMIN"

Lives == {"filing", "numbers"}
TopicKinds == {"people", "suggest", "apply"}

BatchBound    == [filing |-> 3, numbers |-> 2]
TimelineBound == [filing |-> 9, numbers |-> 4]

InBounds ==
    setting \in Lives => \A r \in Records :
        /\ setting = "filing" /\ record[r].status # "ABSENT" => r = r1
        /\ record[r].batch <= BatchBound[setting]
        /\ Len(timeline[r]) <= TimelineBound[setting]
        /\ setting = "numbers" => Len(timeline[r1]) + Len(timeline[r2]) <= 7

LifeInit ==
    /\ Init /\ setting \in Lives \cup TopicKinds
    /\ TopicsStart(IF setting \in TopicKinds THEN setting ELSE "suggest")

LifeNext ==
    /\ UNCHANGED setting
    /\ \/ setting \in Lives /\ Next /\ UNCHANGED topicVars
       \/ setting \in TopicKinds /\ TopicsStep(setting) /\ UNCHANGED vars
    /\ InBounds'

LifeSpec == LifeInit /\ [][LifeNext]_<<vars, topicVars, setting>>
=============================================================================
