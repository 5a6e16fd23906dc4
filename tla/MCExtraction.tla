---------------------------- MODULE MCExtraction ----------------------------
(* Instances of Extraction for TLC. *)
EXTENDS Extraction, TLC

\* Files, the pages of each and workers are interchangeable.
MCSymmetry == Permutations(Files) \cup Permutations(Units) \cup Permutations(Workers)

\* Two files at once: one of them may be scanned and sent to the provider, in
\* behaviours without interrupted workers and recovery.
Scanned ==
    {r \in Runs : \E u \in Units : run[r].unit[u].state \notin {"ABSENT", "COMPLETE"}}

FilesInBounds ==
    Scanned # {} =>
        /\ Cardinality(Scanned) = 1 /\ recovery = {}
        /\ \A r \in Runs : run[r].interruptions = 0

FilesNext == Next /\ FilesInBounds'

FilesSpec == Init /\ [][FilesNext]_vars
=============================================================================
