SPECIFICATION Spec
CONSTANT Compiled = {"wasapi"}
CONSTANT MaxStarts = 2
CHECK_DEADLOCK FALSE
PROPERTY FollowsDefault
