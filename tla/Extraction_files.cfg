\* Two files read at once, of which one may be scanned.
CONSTANTS
    Files = {f1, f2}
    Units = {p1}
    Workers = {w1, w2}
    NoWorker = none
    MaxGeneration = 1
    MaxInterruptions = 1
    MaxAttempts = 1
    NativeOutcomes = {"COMPLETE", "TO_READ"}
    OcrOutcomes = {"COMPLETE"}
SPECIFICATION FilesSpec
SYMMETRY MCSymmetry
INVARIANTS
    DoneIsComplete
