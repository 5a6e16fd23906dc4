------------------------------ MODULE Custody ------------------------------
(***************************************************************************)
(* What document tracking promises about custody, without users, rows or   *)
(* histories: a document is endorsed by an office that holds it to offices *)
(* that do not, each becomes a holder by its own receipt alone, the work   *)
(* is finished only in somebody's hands, and filing is final.              *)
(***************************************************************************)
EXTENDS FiniteSets

CONSTANTS Documents, Offices, NoOffice

VARIABLES
    phase,      \* where each document is in its life
    sender,     \* the office its current endorsement left from
    holders,    \* offices that confirmed receipt of that endorsement
    awaiting    \* offices that have not yet

custodyVars == <<phase, sender, holders, awaiting>>

Phases == {"none", "preparing", "moving", "finished", "filed"}

Init ==
    /\ phase = [d \in Documents |-> "none"]
    /\ sender = [d \in Documents |-> NoOffice]
    /\ holders = [d \in Documents |-> {}]
    /\ awaiting = [d \in Documents |-> {}]

Move(d, p, q) ==
    /\ phase[d] = p
    /\ phase' = [phase EXCEPT ![d] = q]

Prepare(d, o) ==
    /\ Move(d, "none", "preparing")
    /\ sender' = [sender EXCEPT ![d] = o]
    /\ UNCHANGED <<holders, awaiting>>

\* Before any receipt the document is still with the office that sent it.
Endorse(d, o, dest) ==
    /\ phase[d] \in {"preparing", "moving"}
    /\ IF holders[d] = {} THEN o = sender[d] ELSE o \in holders[d]
    /\ dest # {} /\ o \notin dest
    /\ phase' = [phase EXCEPT ![d] = "moving"]
    /\ sender' = [sender EXCEPT ![d] = o]
    /\ holders' = [holders EXCEPT ![d] = {}]
    /\ awaiting' = [awaiting EXCEPT ![d] = dest]

\* One office confirms a selection of documents at once.
Receive(dd, o) ==
    /\ \A d \in dd : phase[d] = "moving" /\ o \in awaiting[d]
    /\ holders' = [d \in Documents |-> IF d \in dd THEN holders[d] \cup {o} ELSE holders[d]]
    /\ awaiting' = [d \in Documents |-> IF d \in dd THEN awaiting[d] \ {o} ELSE awaiting[d]]
    /\ UNCHANGED <<phase, sender>>

Finish(d) ==
    /\ holders[d] # {}
    /\ Move(d, "moving", "finished")
    /\ UNCHANGED <<sender, holders, awaiting>>

Reopen(d) ==
    /\ Move(d, "finished", "moving")
    /\ UNCHANGED <<sender, holders, awaiting>>

File(d) ==
    /\ Move(d, "finished", "filed")
    /\ UNCHANGED <<sender, holders, awaiting>>

Next ==
    \/ \E d \in Documents :
        \/ \E o \in Offices : Prepare(d, o)
        \/ \E o \in Offices, dest \in SUBSET Offices : Endorse(d, o, dest)
        \/ Finish(d)
        \/ Reopen(d)
        \/ File(d)
    \/ \E dd \in SUBSET Documents, o \in Offices : Receive(dd, o)

Spec == Init /\ [][Next]_custodyVars

=============================================================================
