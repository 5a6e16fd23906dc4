----------------------------- MODULE MCRowLocks -----------------------------
(* The services that lock an account after other rows, for TLC. *)
EXTENDS RowLocks

MCServices == {"share_with_user", "administer", "work", "file"}
=============================================================================
