-------------------------- MODULE SigHandler_proof --------------------------
(* What holds of handlers_set_defaults on every platform: whatever signals *)
(* it has, refuses and numbers in its own way.                             *)
EXTENDS SigHandler, SequenceTheorems, TLAPS

(* The loop has set what it has passed, but for the table, and nothing     *)
(* else.                                                                   *)
LoopDone ==
  \A s \in Signals :
    disp[s] = IF s \in 1..(sig - 1) \ Skipped THEN "handler" ELSE "default"

(* No signal with a handler killed the process, whenever it came.          *)
KilledByDefault ==
  state = "killed" =>
    /\ last \in Signals
    /\ disp[last] = "default"
    /\ DefaultAction[last] = "terminate"

(* The exit happens at a refused signal that the table does not name.      *)
ExitedAtRefused ==
  state = "exited" => sig \in (1..(SIGRTMAX - 1) \cap Refused) \ Skipped

IInv == LoopDone /\ KilledByDefault /\ ExitedAtRefused

USE SignalsAssumption, RtMaxAssumption, DefaultAssumption,
    DeliveredAssumption, DepthAssumption

-----------------------------------------------------------------------------
(* Every variable keeps its type.                                          *)
THEOREM TypeCorrect == Spec => []TypeOK
<1>1. Init => TypeOK
  BY DEF Init, TypeOK, Frame
<1>2. TypeOK /\ [Next]_vars => TypeOK'
  <2> SUFFICES ASSUME TypeOK, [Next]_vars PROVE TypeOK'
    OBVIOUS
  <2> USE DEF TypeOK
  <2>1. CASE Install
    BY <2>1 DEF Install, Exit, Undisturbed, Installing
  <2>2. CASE Work
    BY <2>2 DEF Work, Undisturbed, Installing
  <2>3. ASSUME NEW s \in Signals, Receive(s) PROVE TypeOK'
    <3>1. CASE Enter(s)
      <4>1. [sig |-> s, at |-> "entered"] \in Frame
        BY DEF Frame
      <4> QED
        BY <3>1, <4>1, AppendProperties DEF Enter
    <3>2. CASE Default(s)
      BY <3>2 DEF Default
    <3> QED
      BY <2>3, <3>1, <3>2 DEF Receive
  <2>4. CASE Fault
    <3>1. raised \in Signals
      BY <2>4 DEF Fault
    <3> QED
      BY <3>1, <2>3, <2>4 DEF Fault
  <2>5. CASE \E s \in Delivered : Deliver(s)
    BY <2>3, <2>5 DEF Deliver
  <2>6. ASSUME NEW place \in {"logging", "returning"}, frames # <<>>,
               TopGoes(place)
        PROVE  frames' \in Seq(Frame)
    <3>1. Len(frames) \in 1..Len(frames)
      BY <2>6
    <3>2. Top \in Frame
      BY <3>1, ElementOfSeq DEF Top
    <3>3. [sig |-> Top.sig, at |-> place] \in Frame
      BY <3>2 DEF Frame
    <3> QED
      BY <2>6, <3>1, <3>3 DEF TopGoes
  <2>7. CASE PrintSignal \/ PrintReturns
    BY <2>6, <2>7 DEF PrintSignal, PrintReturns, TopGoes
  <2>8. CASE HandlerReturns
    <3>1. SubSeq(frames, 1, Len(frames) - 1) \in Seq(Frame)
      BY <2>8
    <3> QED
      BY <2>8, <3>1 DEF HandlerReturns
  <2>9. CASE UNCHANGED vars
    BY <2>9 DEF vars
  <2> QED
    BY <2>1, <2>2, <2>4, <2>5, <2>7, <2>8, <2>9 DEF Next, Handler
<1> QED
  BY <1>1, <1>2, PTL DEF Spec

(* The inductive invariant.                                                *)
THEOREM LoopInvariant == Spec => []IInv
<1>1. Init => IInv
  BY DEF Init, IInv, LoopDone, KilledByDefault, ExitedAtRefused
<1>2. TypeOK /\ IInv /\ [Next]_vars => IInv'
  <2> SUFFICES ASSUME TypeOK, IInv, [Next]_vars PROVE IInv'
    OBVIOUS
  <2> USE DEF TypeOK, IInv
  <2>1. CASE Install
    <3>1. LoopDone'
      <4> SUFFICES ASSUME NEW s \in Signals
                   PROVE disp'[s] = IF s \in 1..(sig' - 1) \ Skipped
                                      THEN "handler" ELSE "default"
        BY DEF LoopDone
      <4>1. CASE sig \in Refused \ Skipped
        BY <2>1, <4>1 DEF Install, Exit, LoopDone
      <4>2. CASE sig \notin Refused \ Skipped /\ sig \in Skipped
        BY <2>1, <4>2 DEF Install, Exit, LoopDone, Installing
      <4>3. CASE sig \notin Refused \ Skipped /\ sig \notin Skipped
        <5>1. sig' = sig + 1 /\ disp' = [disp EXCEPT ![sig] = "handler"]
          BY <2>1, <4>3 DEF Install, Exit
        <5>2. sig \in Signals
          BY <2>1 DEF Install, Exit, Installing
        <5> QED
          BY <4>3, <5>1, <5>2 DEF LoopDone
      <4> QED
        BY <4>1, <4>2, <4>3
    <3>2. KilledByDefault' /\ ExitedAtRefused'
      BY <2>1 DEF Install, Exit, Installing, Undisturbed, KilledByDefault,
                  ExitedAtRefused
    <3> QED
      BY <3>1, <3>2
  <2>2. ASSUME UNCHANGED <<sig, disp, state, last>> PROVE IInv'
    BY <2>2 DEF LoopDone, KilledByDefault, ExitedAtRefused
  <2>3. ASSUME NEW s \in Signals, Receive(s),
               state \in {"running", "stopped"}
        PROVE  IInv'
    <3>1. CASE disp[s] = "handler"
      BY <2>2, <2>3, <3>1 DEF Receive, Enter
    <3>2. CASE disp[s] # "handler"
      BY <2>3, <3>2 DEF Receive, Default, LoopDone, KilledByDefault,
                        ExitedAtRefused
    <3> QED
      BY <3>1, <3>2
  <2>4. CASE Fault
    BY <2>3, <2>4 DEF Fault, Undisturbed
  <2>5. CASE \E s \in Delivered : Deliver(s)
    BY <2>3, <2>5 DEF Deliver
  <2>6. CASE Handler
    BY <2>6 DEF Handler, PrintSignal, PrintReturns, HandlerReturns, TopGoes,
                LoopDone, KilledByDefault, ExitedAtRefused
  <2>7. CASE Work
    BY <2>2, <2>7 DEF Work
  <2>8. CASE UNCHANGED vars
    BY <2>2, <2>8 DEF vars
  <2> QED
    BY <2>1, <2>4, <2>5, <2>6, <2>7, <2>8 DEF Next
<1> QED
  BY <1>1, <1>2, TypeCorrect, PTL DEF Spec

(* After the loop only the skipped signals that terminate, and those from  *)
(* SIGRTMAX on, kill the program, if no other name in the table means a    *)
(* terminating signal on the platform.                                     *)
THEOREM Survives ==
  ASSUME \A s \in Skipped \cap Signals :
           DefaultAction[s] = "terminate" => s \in Fatal
  PROVE  Spec => []SurvivesAfterInstall
<1>1. TypeOK /\ IInv => SurvivesAfterInstall
  <2> SUFFICES ASSUME TypeOK, IInv, state = "killed", sig = SIGRTMAX
               PROVE  last \in Fatal \/ last >= SIGRTMAX
    BY DEF SurvivesAfterInstall, Installing, TypeOK
  <2>1. /\ last \in Signals
        /\ disp[last] = "default"
        /\ DefaultAction[last] = "terminate"
    BY DEF IInv, KilledByDefault
  <2>2. last \notin 1..(SIGRTMAX - 1) \ Skipped
    BY <2>1 DEF IInv, LoopDone
  <2>3. CASE last \in Skipped
    BY <2>1, <2>3
  <2>4. CASE last \notin 1..(SIGRTMAX - 1)
    BY <2>1, <2>4
  <2> QED
    BY <2>2, <2>3, <2>4
<1> QED
  BY <1>1, LoopInvariant, TypeCorrect, PTL

(* If the platform refuses only signals that the table skips, installing   *)
(* the handlers never ends the program.                                    *)
THEOREM InstallNeverExits ==
  ASSUME Refused \cap 1..(SIGRTMAX - 1) \subseteq Skipped
  PROVE  Spec => []InstallSucceeds
<1>1. IInv => InstallSucceeds
  BY DEF IInv, ExitedAtRefused, InstallSucceeds
<1> QED
  BY <1>1, LoopInvariant, PTL

(* If the table names, by this platform's numbers, every signal whose      *)
(* default is not to terminate, no handler disturbs those.                 *)
THEOREM JobControl ==
  ASSUME \A s \in 1..(SIGRTMAX - 1) :
           DefaultAction[s] # "terminate" => s \in Skipped
  PROVE  Spec => []JobControlKept
<1>1. TypeOK /\ IInv => JobControlKept
  BY DEF TypeOK, IInv, LoopDone, JobControlKept
<1> QED
  BY <1>1, LoopInvariant, TypeCorrect, PTL

(* If the platform has no signal from SIGRTMAX on but such as it refuses   *)
(* or the table skips, the comment of handlers_set_defaults is true: after *)
(* the loop every possible signal has the handler.  On Linux SIGRTMAX is   *)
(* the one exception.                                                      *)
THEOREM AllHandled ==
  ASSUME \A s \in Signals : s < SIGRTMAX \/ s \in Refused \cup Skipped
  PROVE  Spec => []AllPossibleHandled
<1>1. TypeOK /\ IInv => AllPossibleHandled
  <2> SUFFICES ASSUME TypeOK, IInv, sig = SIGRTMAX,
                      NEW s \in Signals \ (Refused \cup Skipped)
               PROVE  disp[s] = "handler"
    BY DEF AllPossibleHandled, Installing, TypeOK
  <2>1. s \in 1..(sig - 1)
    OBVIOUS
  <2> QED
    BY <2>1 DEF IInv, LoopDone
<1> QED
  BY <1>1, LoopInvariant, TypeCorrect, PTL

=============================================================================
