\* The recovery command beside a delivery.
CONSTANTS
    Files = {f1}
    Units = {p1}
    Workers = {w1}
    NoWorker = none
    MaxGeneration = 1
    MaxInterruptions = 3
    MaxAttempts = 1
    NativeOutcomes = {"COMPLETE"}
    OcrOutcomes = {"COMPLETE"}
SPECIFICATION Spec
SYMMETRY MCSymmetry
PROPERTIES
    LiveLeaseIsKept
