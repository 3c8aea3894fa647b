SPECIFICATION Spec
CONSTANT Compiled = {"pulse","jack","sndio","oss","sun","kai","audiotrack","winmm","wasapi","opensl","audiounit","aaudio"}
CONSTANT MaxStarts = 2
CHECK_DEADLOCK FALSE
 
INVARIANT NothingLeaks
 
 
 
PROPERTY CallsReturn
 
PROPERTY StartedIsServed
