\* One file: deliveries, leases and OCR retries of one run, and two generations.
CONSTANTS
    Files = {f1}
    Units = {p1}
    Workers = {w1, w2}
    NoWorker = none
    MaxGeneration = 2
    MaxInterruptions = 2
    MaxAttempts = 2
    NativeOutcomes = {"TO_READ", "COMPLETE"}
    OcrOutcomes = {"COMPLETE", "RETRY_WAIT"}
SPECIFICATION RunsSpec
SYMMETRY MCSymmetry
INVARIANTS
    OneCurrentRun
    BusyMeansWork
PROPERTIES
    ReadingMovesForward
    ConsentHonoured
