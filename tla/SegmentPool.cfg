SPECIFICATION FairSpec
CONSTANTS
    r1 = r1
    r2 = r2
    m1 = m1
    m2 = m2
    Recognitions <- MCRecognitions
    Models <- MCModels
    MaxSegments = 3
    NoOne = NoOne
INVARIANTS ModelsExact TextInOrder NothingRunsOn FailureSurfaces
PROPERTY RecognitionEnds
\* Every recognition ends, and then nothing is left to do.
CHECK_DEADLOCK FALSE
