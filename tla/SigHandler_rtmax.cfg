\* The code is expected to violate this one.
CONSTANTS
  Signals <- LinuxSignals
  SIGRTMAX = 64
  Refused <- GlibcRefused
  DefaultAction <- LinuxDefault
  Delivered <- LinuxDelivered
  Crashes = {11}
  MaxDepth = 2
SPECIFICATION Spec
CHECK_DEADLOCK FALSE
INVARIANTS
  AllPossibleHandled
