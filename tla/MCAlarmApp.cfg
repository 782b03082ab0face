SPECIFICATION Spec
CONSTANT MaxIntrusions = 4
INVARIANTS TypeOK NothingForgotten PlatformAgrees
PROPERTIES EachAlarmHasCause IntrusionSounds
CHECK_DEADLOCK FALSE
