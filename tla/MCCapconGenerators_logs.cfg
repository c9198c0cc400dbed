SPECIFICATION GeneratorSpec
CONSTANT ArmDelay = 4
INVARIANT LogsAlwaysTaken
CHECK_DEADLOCK FALSE
