SPECIFICATION Spec
CONSTANT Sources <- Sound
INVARIANTS OutputsKept RecordedExist RangesHoldSamples
PROPERTY SavesModel
CHECK_DEADLOCK FALSE
