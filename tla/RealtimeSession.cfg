SPECIFICATION Spec
CONSTANTS
    Backends = {"pt", "onnx"}
    Rate = 2
    Sizes <- MCSizes
    VadChunk = 2
    FirstDecode = 2
    Chunk = 3
    MinDecode = 2
    PrePad = 1
    PostPad = 1
    MergeGap = 0
    MinFinal = 2
    MaxFinal = 3
    NoSpeech = NoSpeech
    MaxTotal = 13
INVARIANTS TypeOK InOrder SegmentsOrdered
PROPERTY AudioKept
