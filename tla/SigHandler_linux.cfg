\* Linux with glibc. The program ends when it is killed.
CONSTANTS
  Signals <- LinuxSignals
  SIGRTMAX = 64
  Refused <- GlibcRefused
  DefaultAction <- LinuxDefault
  Delivered <- LinuxDelivered
  Crashes = {11}
  MaxDepth = 2
SPECIFICATION Spec
CHECK_DEADLOCK FALSE
INVARIANTS
  TypeOK
  InstallSucceeds
  SurvivesAfterInstall
  JobControlKept
