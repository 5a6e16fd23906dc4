------------------------- MODULE MCTrackingNotices -------------------------
(* An instance of TrackingNotices for TLC. *)
EXTENDS TrackingNotices, TLC

CONSTANTS A, B, C, ana, ben, cora, none, nobody

\* One account in each of three offices, an administrator so that it may also
\* file and reopen what its office holds.
MCThreeOffices == {A, B, C}
MCThreeUsers == {ana, ben, cora}
MCThreeOfficeOf == ana :> A @@ ben :> B @@ cora :> C
MCThreeRoleOf == [u \in MCThreeUsers |-> "ADMIN"]
=============================================================================
