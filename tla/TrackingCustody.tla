-------------------------- MODULE TrackingCustody --------------------------
(* Tracking implements Custody: the abstract state read off the rows. *)
EXTENDS Tracking

PhaseOf(status) ==
    CASE status = "ABSENT" -> "none"
      [] status = "DRAFT" -> "preparing"
      [] status \in ActiveStatuses -> "moving"
      [] status = "COMPLETED_PENDING_UPLOAD" -> "finished"
      [] status = "COMPLETED" -> "filed"

Addressees(rs) == {s.to : s \in rs}

Phase(r) == PhaseOf(record[r].status)

\* A draft is with the office it originates from.
Sender(r) == IF record[r].batch = 0 THEN record[r].origin ELSE BatchSender(CurrentSteps(r))

Holders(r) == Addressees(Received(CurrentSteps(r)))

Awaited(r) == Addressees(Outstanding(CurrentSteps(r)))

Promise == INSTANCE Custody WITH
    Documents <- Records,
    phase     <- [r \in Records |-> Phase(r)],
    sender    <- [r \in Records |-> Sender(r)],
    holders   <- [r \in Records |-> Holders(r)],
    awaiting  <- [r \in Records |-> Awaited(r)]

\* Every behaviour of the services is one the custody promise allows.
ImplementsCustody == Promise!Spec

=============================================================================
