\* The code is expected to violate this one.
CONSTANTS
  Signals <- LinuxSignals
  SIGRTMAX = 64
  Refused <- GlibcRefused
  DefaultAction <- LinuxDefault
  Delivered = {15}
  Crashes = {}
  MaxDepth = 2
SPECIFICATION Spec
CHECK_DEADLOCK FALSE
PROPERTIES
  FinishesGracefully
