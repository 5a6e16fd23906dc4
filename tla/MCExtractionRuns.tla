-------------------------- MODULE MCExtractionRuns --------------------------
(* Two bounded instances in one run, both of one file: "leases", one        *)
(* generation whose page may need OCR, and "retries", two generations whose *)
(* page needs none.                                                         *)
EXTENDS MCExtraction

VARIABLE setting

InBounds ==
    IF setting = "leases" THEN document.generation <= 1
    ELSE \A r \in Runs, u \in Units : run[r].unit[u].state \in {"ABSENT", "COMPLETE"}

RunsInit == Init /\ setting \in {"leases", "retries"}

RunsNext == UNCHANGED setting /\ Next /\ InBounds'

RunsSpec == RunsInit /\ [][RunsNext]_<<vars, setting>>
=============================================================================
