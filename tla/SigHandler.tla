----------------------------- MODULE SigHandler -----------------------------
(***************************************************************************)
(* handlers_set_defaults and the handler it installs                       *)
(* (src/src/wndx/sane/sig_handler.cpp), in a process of one thread that    *)
(* signals may reach at any time: before, during and after the loop that   *)
(* installs the handler, inside the handler, and inside the logger.        *)
(*                                                                         *)
(* The numbers of enum SIG are those of the source on every platform; what *)
(* a number means, and whether sigaction accepts it, is the platform's.    *)
(***************************************************************************)
EXTENDS Integers, Sequences, FiniteSets

CONSTANTS
  Signals,        \* the numbers the platform can deliver
  SIGRTMAX,       \* what its <signal.h> says, or the source's fallback
  Refused,        \* those for which sigaction fails
  DefaultAction,  \* what each does to a process that does not catch it
  Delivered,      \* those that are sent in the instance
  Crashes,        \* those an instruction of the program itself can raise
  MaxDepth        \* bound on the handlers that interrupt each other

Actions == {"terminate", "stop", "continue", "ignore"}

ASSUME SignalsAssumption ==
  Signals \subseteq Nat \ {0} /\ 1..(SIGRTMAX - 1) \subseteq Signals
ASSUME RtMaxAssumption == SIGRTMAX \in Nat \ {0}
ASSUME DefaultAssumption == DefaultAction \in [Signals -> Actions]
ASSUME DeliveredAssumption ==
  Delivered \subseteq Signals /\ Crashes \subseteq Signals
ASSUME DepthAssumption == MaxDepth \in Nat

(* The enumerators that the loop skips.                                    *)
SIG == [WTF32 |-> 32, WTF33 |-> 33, TRAP |-> 5, KILL |-> 9, CONT |-> 18,
        STOP |-> 19, TSTP |-> 20, TTIN |-> 21, TTOU |-> 22, CHLD |-> 17,
        URG |-> 23, WINCH |-> 28]

(* Mutants: the table without one of its lines.                            *)
SkippedButWTF33 == {SIG[n] : n \in DOMAIN SIG \ {"WTF33"}}
SkippedButWINCH == {SIG[n] : n \in DOMAIN SIG \ {"WINCH"}}

Skipped == {SIG[n] : n \in DOMAIN SIG}

VARIABLES
  sig,     \* the counter of the loop
  disp,    \* disposition of each signal
  state,   \* the process
  main,    \* the program outside the handlers
  raised,  \* the signal of the instruction it is at, 0 for none
  frames,  \* the handlers that run, the innermost last
  last     \* the signal that killed the process, 0 for none

vars == <<sig, disp, state, main, raised, frames, last>>

Frame == [sig : Signals, at : {"entered", "logging", "returning"}]

TypeOK ==
  /\ sig \in 1..SIGRTMAX
  /\ disp \in [Signals -> {"default", "handler"}]
  /\ state \in {"running", "stopped", "exited", "killed", "undefined"}
  /\ main \in {"calm", "logging", "faulting"}
  /\ raised \in IF main = "faulting" THEN Crashes ELSE {0}
  /\ frames \in Seq(Frame)
  /\ last \in Signals \cup {0}

Init ==
  /\ sig = 1
  /\ disp = [s \in Signals |-> "default"]
  /\ state = "running"
  /\ main = "calm"
  /\ raised = 0
  /\ frames = <<>>
  /\ last = 0

Installing == sig < SIGRTMAX
Undisturbed == state = "running" /\ frames = <<>>

-----------------------------------------------------------------------------
(* Mutants: sig <= SIGRTMAX; a break where the table says continue.        *)
InstallInclusive ==
  /\ Undisturbed /\ sig <= SIGRTMAX
  /\ disp' = IF sig \in Skipped THEN disp ELSE [disp EXCEPT ![sig] = "handler"]
  /\ sig' = sig + 1
  /\ UNCHANGED <<state, main, raised, frames, last>>

InstallBreaks ==
  /\ Undisturbed /\ Installing
  /\ IF sig \in Skipped
       THEN sig' = SIGRTMAX /\ UNCHANGED disp
       ELSE sig' = sig + 1 /\ disp' = [disp EXCEPT ![sig] = "handler"]
  /\ UNCHANGED <<state, main, raised, frames, last>>

(* wndx::sane::exit (src/src/wndx/sane/pl.cpp): _exit, nothing runs after. *)
Exit == state' = "exited"

(* One iteration of the loop.  A sigaction that fails is printed, and the  *)
(* program exits with EXIT_FAILURE.                                        *)
Install ==
  /\ Undisturbed /\ Installing
  /\ IF sig \in Refused \ Skipped
       THEN Exit /\ UNCHANGED <<sig, disp>>
       ELSE /\ disp' = IF sig \in Skipped THEN disp
                       ELSE [disp EXCEPT ![sig] = "handler"]
            /\ sig' = sig + 1
            /\ UNCHANGED state
  /\ UNCHANGED <<main, raised, frames, last>>

(* The program logs, or runs into an instruction that faults.              *)
Work ==
  /\ Undisturbed /\ ~Installing
  /\ \/ main = "calm" /\ main' = "logging" /\ UNCHANGED raised
     \/ main = "logging" /\ main' = "calm" /\ UNCHANGED raised
     \/ main = "calm" /\ main' = "faulting" /\ raised' \in Crashes
  /\ UNCHANGED <<sig, disp, state, frames, last>>

-----------------------------------------------------------------------------
(* What the kernel does with a signal that has no handler.                 *)
Default(s) ==
  /\ state' = IF DefaultAction[s] = "terminate" THEN "killed"
              ELSE IF DefaultAction[s] = "stop" THEN "stopped"
              ELSE "running"
  /\ last' = IF DefaultAction[s] = "terminate" THEN s ELSE last
  /\ UNCHANGED <<sig, disp, main, raised, frames>>

(* siga.sa_flags and sa_mask are zero: a handler is entered unless it runs *)
(* for this signal already, and other signals may interrupt it.            *)
Enter(s) ==
  /\ Len(frames) < MaxDepth
  /\ \A i \in 1..Len(frames) : frames[i].sig # s
  /\ frames' = Append(frames, [sig |-> s, at |-> "entered"])
  /\ UNCHANGED <<sig, disp, state, main, raised, last>>

Receive(s) == IF disp[s] = "handler" THEN Enter(s) ELSE Default(s)

(* A stopped process sees only the signals that continue or kill it.       *)
Deliver(s) ==
  /\ \/ state = "running"
     \/ state = "stopped" /\ disp[s] = "default"
          /\ (DefaultAction[s] = "continue" \/ s = SIG.KILL)
  /\ Receive(s)

(* A faulting instruction raises its signal, and does so again whenever a  *)
(* handler returns to it.                                                  *)
Fault ==
  /\ Undisturbed
  /\ main = "faulting"
  /\ Receive(raised)

(* handlers: print(sig, ...), which enters the logger unless its urgency   *)
(* level is above NTFY, then return.  The logger allocates and locks; to   *)
(* enter it while an interrupted flow is inside is undefined.              *)
LoggerBusy ==
  \/ main = "logging"
  \/ \E i \in 1..Len(frames) : frames[i].at = "logging"

Top == frames[Len(frames)]
TopGoes(place) ==
  /\ frames' = [frames EXCEPT ![Len(frames)] = [sig |-> Top.sig, at |-> place]]
  /\ UNCHANGED <<sig, disp, main, raised, last>>

PrintSignal ==
  /\ state = "running" /\ frames # <<>>
  /\ Top.at = "entered"
  /\ \/ TopGoes("returning") /\ UNCHANGED state
     \/ /\ TopGoes("logging")
        /\ state' = IF LoggerBusy THEN "undefined" ELSE state

PrintReturns ==
  /\ state = "running" /\ frames # <<>>
  /\ Top.at = "logging"
  /\ TopGoes("returning")
  /\ UNCHANGED state

HandlerReturns ==
  /\ state = "running" /\ frames # <<>>
  /\ Top.at = "returning"
  /\ frames' = SubSeq(frames, 1, Len(frames) - 1)
  /\ UNCHANGED <<sig, disp, state, main, raised, last>>

Handler == PrintSignal \/ PrintReturns \/ HandlerReturns

Next ==
  \/ Install \/ Work \/ Fault \/ Handler
  \/ \E s \in Delivered : Deliver(s)

(* The thread runs on: the loop, a faulting instruction and the handlers.  *)
Spec == Init /\ [][Next]_vars
             /\ WF_vars(Install) /\ WF_vars(Fault) /\ WF_vars(Handler)

-----------------------------------------------------------------------------
(* Properties.                                                             *)

(* The table skips every signal that this platform refuses: installing the *)
(* handlers never ends the program.                                        *)
InstallSucceeds == state # "exited"

(* Once the loop is over, only the signals that were skipped on purpose    *)
(* and SIGRTMAX, which the loop does not reach, kill the program.          *)
Fatal == {SIG.KILL, SIG.TRAP, SIG.WTF32, SIG.WTF33}

SurvivesAfterInstall ==
  state = "killed" /\ ~Installing => last \in Fatal \/ last >= SIGRTMAX

(* Job control, child and window signals are left alone: a handler stands  *)
(* only where the default is to terminate.                                 *)
JobControlKept ==
  \A s \in Signals : disp[s] = "handler" => DefaultAction[s] = "terminate"

-----------------------------------------------------------------------------
(* What the comments say.                                                  *)

(* "set the handler function as the handler for all possible signals".     *)
AllPossibleHandled ==
  state = "running" /\ ~Installing =>
    \A s \in Signals \ (Refused \cup Skipped) : disp[s] = "handler"

(* "finish program gracefully (correctly) upon receiving one of the known  *)
(* signals": a caught signal ends the program.                             *)
FinishesGracefully == frames # <<>> ~> state # "running"

=============================================================================
