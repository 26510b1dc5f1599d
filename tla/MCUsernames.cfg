SPECIFICATION Spec
CONSTANTS
    TagKeys <- MCTagKeys
    Words = {"me", "us"}
    Blank = ""
    MaxParts = 5
INVARIANTS
    TypeOK
    SelectsWhatWasComposed
    BaseIsItself
CHECK_DEADLOCK FALSE
