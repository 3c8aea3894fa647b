SPECIFICATION Spec
CONSTANT Compiled = {"pulse", "wasapi", "audiounit", "winmm", "oss", "oss_sndstat", "sun", "alsa", "sndio", "jack"}
CONSTANT MaxChanges = 2
CONSTANT MaxFailures = 1
CHECK_DEADLOCK FALSE
 
PROPERTY TellsRegistered
 
PROPERTY CallsReturn
