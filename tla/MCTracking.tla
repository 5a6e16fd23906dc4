----------------------------- MODULE MCTracking -----------------------------
(* Instances of Tracking for TLC.  The first state chooses a setting: in    *)
(* "custody" the services run alone, in "notices", for two batches, beside  *)
(* deadlines and the chase job.                                             *)
EXTENDS Queues, TrackingNotices, TLC

CONSTANTS A, B, C, ana, ben, cora, sys, none, nobody, r1, r2

VARIABLE setting

MCOffices == {A, B, C}
MCUsers   == {ana, ben, cora, sys}

\* One account in each office, and a system administrator without an office.
MCOfficeOf == ana :> A @@ ben :> B @@ cora :> C @@ sys :> none

\* Custody: three ordinary users.
MCRoleOfUsers ==
    ana :> "USER" @@ ben :> "USER" @@ cora :> "USER" @@ sys :> "SYSTEM_ADMIN"

MCUserOf(o) == CHOOSE u \in MCUsers : MCOfficeOf[u] = o

\* With MCRoleOfUsers the offices, each with its user, are interchangeable, and
\* so are the workers.
MCSymmetry ==
    {p @@ ana :> MCUserOf(p[A]) @@ ben :> MCUserOf(p[B]) @@ cora :> MCUserOf(p[C]) @@ q
        : p \in Permutations(MCOffices), q \in Permutations(Workers)}

\* Beside the notices the administrator only completes and reopens.
SysOnlyFiles(log) ==
    \A i \in DOMAIN log :
        log[i].actorOffice = none => log[i].event \in {"COMPLETED", "REOPENED"}

MCInit == NoticeInit /\ setting \in {"custody", "notices"}

MCNext ==
    /\ UNCHANGED setting
    /\ \/ setting = "custody" /\ Services /\ UNCHANGED deadline
       \/ /\ setting = "notices" /\ NoticeNext
          /\ \A r \in Records :
                /\ record'[r].batch <= 2 /\ Len(timeline'[r]) <= 5
                /\ SysOnlyFiles(timeline'[r])

MCSpec == MCInit /\ [][MCNext]_<<vars, noticeVars, setting>>
=============================================================================
