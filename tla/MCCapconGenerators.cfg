SPECIFICATION GeneratorSpec
CONSTANT ArmDelay = 4
INVARIANTS
    GeneratorTypeOK
    PayloadsEndFirst
    CaptureOutlastsAttacks
    ResetsRecur
    NoNameTaken
\* a script ends
CHECK_DEADLOCK FALSE
