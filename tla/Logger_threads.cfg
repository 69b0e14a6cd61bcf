\* Two threads, two calls, two Loggers, a signal.
CONSTANTS
  Threads = {t1, t2}
  Loggers = {global, own}
  log_g = global
  Used <- MCUsed
  MaxCalls = 2
  MaxSignals = 1
SPECIFICATION Spec
CHECK_DEADLOCK FALSE
INVARIANTS
  TypeOK
  TracesBelong
  LateOnlyIfOvertaken
  LastNoticeTells
PROPERTIES
  CallsReturn
