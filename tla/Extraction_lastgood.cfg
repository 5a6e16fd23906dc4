\* A page read by OCR, and retries of its document.
CONSTANTS
    Files = {f1}
    Units = {p1}
    Workers = {w1}
    NoWorker = none
    MaxGeneration = 3
    MaxInterruptions = 1
    MaxAttempts = 1
    NativeOutcomes = {"TO_READ"}
    OcrOutcomes = {"COMPLETE", "FAILED"}
SPECIFICATION Spec
SYMMETRY MCSymmetry
PROPERTIES
    LastGoodTextSurvives
