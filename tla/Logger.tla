------------------------------- MODULE Logger -------------------------------
(***************************************************************************)
(* Logger (src/include/wndx/sane/log.hpp, src/src/wndx/sane/log.cpp) in a  *)
(* process of several threads, which signal handlers interrupt in the      *)
(* middle of a log call and log themselves (sig_handler.cpp:37-45).        *)
(* m_urgency_level is read and written without synchronisation: a read     *)
(* finds what was stored last.  fmt::print writes one line to stderr under *)
(* the lock of the stream; it allocates, so to enter it from a handler     *)
(* that has interrupted it in the same thread may block for good.          *)
(***************************************************************************)
EXTENDS Integers, Sequences

CONSTANTS
  Threads,
  Loggers, log_g,  \* all Logger objects; the global one
  Used,            \* levels that occur in the instance
  MaxCalls,        \* bound on the calls of the threads
  MaxSignals       \* bound on the calls of handlers

LL == [DBUG |-> 1, INFO |-> 2, STAT |-> 3, NTFY |-> 4,
       WARN |-> 5, ERRO |-> 6, CRIT |-> 7]

ASSUME LevelsAssumption == Used \subseteq 1..7
ASSUME GlobalAssumption == log_g \in Loggers
ASSUME BoundsAssumption == MaxCalls \in Nat /\ MaxSignals \in Nat

VARIABLES
  level,    \* m_urgency_level of each Logger
  frames,   \* the log calls in each thread, the innermost last
  err,      \* what has been written to stderr
  calls, signals,
  store,    \* history: how the level of log_g was stored last
  thrown,   \* calls that an error of stderr has ended
  aborted   \* std::terminate

vars == <<level, frames, err, calls, signals, store, thrown, aborted>>

(* told: the level a set_urgency announces, 0 in other calls; about: the   *)
(* Logger it was called on.  noexcept: called from a noexcept function  *)
(* or a handler.  overtaken: the level rose above the message after it had *)
(* passed the gate.                                                        *)
Call == [id : Nat, of : Loggers, ll : 1..7, told : 0..7, about : Loggers,
         at : {"gate", "message", "messaging", "trace", "tracing", "blocked"},
         noexcept : BOOLEAN, overtaken : BOOLEAN]
Line == [id : Nat, by : Threads, what : {"message", "trace"}, ll : 1..7,
         told : 0..7, about : Loggers]

(* announced: by a set_urgency while no other of log_g was at work; raced: *)
(* by one that met another; assigned: by an operator=, which has no        *)
(* notice.                                                                 *)
Stores == {"announced", "raced", "assigned"}

TypeOK ==
  /\ level \in [Loggers -> 1..7]
  /\ frames \in [Threads -> Seq(Call)]
  /\ err \in Seq(Line)
  /\ calls \in 0..MaxCalls /\ signals \in 0..MaxSignals
  /\ store \in Stores /\ aborted \in BOOLEAN
  /\ thrown \in SUBSET (1..(MaxCalls + MaxSignals))

(* Mutant: m_urgency_level without its initialiser.                        *)
Uninitialised == {0}

(* The level depends on NDEBUG.                                            *)
DefaultLevel == {LL.DBUG, LL.NTFY}

Init ==
  /\ \E ll \in DefaultLevel : level = [l \in Loggers |-> ll]
  /\ frames = [t \in Threads |-> <<>>]
  /\ err = <<>> /\ calls = 0 /\ signals = 0
  /\ store = "announced"
  /\ thrown = {} /\ aborted = FALSE

-----------------------------------------------------------------------------
Top(t) == frames[t][Len(frames[t])]
Below(t) == SubSeq(frames[t], 1, Len(frames[t]) - 1)
Busy(t) == frames[t] # <<>> /\ ~aborted
Goes(t, place) == [frames EXCEPT ![t][Len(frames[t])].at = place]
Returns(t) == [frames EXCEPT ![t] = Below(t)]

NewCall(l, ll, told, about, noexcept) ==
  [id |-> calls + signals + 1, of |-> l, ll |-> ll, told |-> told,
   about |-> about, at |-> "gate",
   noexcept |-> noexcept, overtaken |-> FALSE]

Calls(t) ==
  /\ frames[t] = <<>> /\ ~aborted
  /\ calls < MaxCalls /\ calls' = calls + 1

Log(t, l, ll) ==
  /\ Calls(t)
  /\ frames' = [frames EXCEPT ![t] = <<NewCall(l, ll, 0, l, FALSE)>>]
  /\ UNCHANGED <<level, err, signals, store, thrown, aborted>>

errnum(t) ==
  /\ Calls(t)
  /\ frames' = [frames EXCEPT ![t] = <<NewCall(log_g, LL.CRIT, 0, log_g, TRUE)>>]
  /\ UNCHANGED <<level, err, signals, store, thrown, aborted>>

(* Mutant: the notice passes the gate before the level is stored.          *)
SetUrgencyLater(t, l, ll) ==
  /\ Calls(t)
  /\ level' = [level EXCEPT ![l] = ll]
  /\ frames' = IF level[log_g] > LL.NTFY THEN frames
               ELSE [frames EXCEPT ![t] =
                 <<[NewCall(log_g, LL.NTFY, ll, l, TRUE) EXCEPT !.at = "message"]>>]
  /\ UNCHANGED <<err, signals, store, thrown, aborted>>

(* The level is stored, then announced: by log_g, whichever Logger it is.  *)
Announcing(t) == \E k \in 1..Len(frames[t]) :
                   frames[t][k].told # 0 /\ frames[t][k].about = log_g
Overtake(call, l, ll) ==
  [call EXCEPT !.overtaken =
     @ \/ (call.at # "gate" /\ call.of = l /\ call.ll < ll)]

SetUrgency(t, l, ll) ==
  /\ Calls(t)
  /\ level' = [level EXCEPT ![l] = ll]
  /\ frames' = [u \in Threads |->
                  IF u = t THEN <<NewCall(log_g, LL.NTFY, ll, l, TRUE)>>
                  ELSE [k \in 1..Len(frames[u]) |->
                          Overtake(frames[u][k], l, ll)]]
  /\ store' = IF l # log_g THEN store
              ELSE IF \E u \in Threads : Announcing(u) THEN "raced"
              ELSE "announced"
  /\ UNCHANGED <<err, signals, thrown, aborted>>

(* operator= of l from src, or a Logger made in the storage of l as a copy *)
(* of src: memberwise, so the level goes along, without a notice.  A       *)
(* temporary Logger{path} is a src whose level nobody has set; the path    *)
(* and the client id are left out.                                         *)
Assign(t, l, src) ==
  /\ frames[t] = <<>> /\ ~aborted
  /\ level[src] # level[l]
  /\ level' = [level EXCEPT ![l] = level[src]]
  /\ frames' = [u \in Threads |->
                  [k \in 1..Len(frames[u]) |->
                     Overtake(frames[u][k], l, level[src])]]
  /\ store' = IF l = log_g THEN "assigned" ELSE store
  /\ UNCHANGED <<err, calls, signals, thrown, aborted>>

(* A handler interrupts a log call and prints (sig::print).                *)
Signal(t, ll) ==
  /\ Busy(t)
  /\ signals < MaxSignals /\ signals' = signals + 1
  /\ frames' = [frames EXCEPT ![t] = Append(@, NewCall(log_g, ll, 0, log_g, TRUE))]
  /\ UNCHANGED <<level, err, calls, store, thrown, aborted>>

-----------------------------------------------------------------------------
(* Mutants: a message one below the level passes; it is held back until    *)
(* the level lets it pass.                                                 *)
GateLow(t) ==
  /\ Busy(t) /\ Top(t).at = "gate"
  /\ frames' = IF level[Top(t).of] > Top(t).ll + 1
                 THEN Returns(t) ELSE Goes(t, "message")
  /\ UNCHANGED <<level, err, calls, signals, store, thrown, aborted>>

GateWaits(t) ==
  /\ Busy(t) /\ Top(t).at = "gate" /\ level[Top(t).of] <= Top(t).ll
  /\ frames' = Goes(t, "message")
  /\ UNCHANGED <<level, err, calls, signals, store, thrown, aborted>>

Gate(t) ==
  /\ Busy(t) /\ Top(t).at = "gate"
  /\ frames' = IF level[Top(t).of] > Top(t).ll
                 THEN Returns(t) ELSE Goes(t, "message")
  /\ UNCHANGED <<level, err, calls, signals, store, thrown, aborted>>

(* fmt::print begins as soon as no other thread is in it.                  *)
Printing(call) == call.at \in {"messaging", "tracing"}
Inside(t, stack) == \E k \in 1..Len(stack) : Printing(stack[k])

Enter(t) ==
  /\ Busy(t) /\ Top(t).at \in {"message", "trace"}
  /\ \A u \in Threads \ {t} : ~Inside(u, frames[u])
  /\ \/ frames' = Goes(t, IF Top(t).at = "message" THEN "messaging"
                                                    ELSE "tracing")
     \/ Inside(t, Below(t)) /\ frames' = Goes(t, "blocked")
  /\ UNCHANGED <<level, err, calls, signals, store, thrown, aborted>>

(* Mutant: every message has its trace.                                    *)
TracesAll(call) == call.at = "messaging"

(* trace_to_the_file prints nothing below LL::WARN.                        *)
Traces(call) == call.at = "messaging" /\ call.ll >= LL.WARN

Leave(t) ==
  /\ Busy(t) /\ Printing(Top(t))
  /\ err' = Append(err,
       [id |-> Top(t).id, by |-> t, ll |-> Top(t).ll, told |-> Top(t).told,
        about |-> Top(t).about,
        what |-> IF Top(t).at = "messaging" THEN "message" ELSE "trace"])
  /\ frames' = IF Traces(Top(t)) THEN Goes(t, "trace") ELSE Returns(t)
  /\ UNCHANGED <<level, calls, signals, store, thrown, aborted>>

(* stderr fails: fmt::print throws out of log.                             *)
Throw(t) ==
  /\ Busy(t) /\ Printing(Top(t))
  /\ thrown' = thrown \cup {Top(t).id}
  /\ frames' = Returns(t)
  /\ aborted' = Top(t).noexcept
  /\ UNCHANGED <<level, err, calls, signals, store>>

Proceed(t) == Gate(t) \/ Enter(t) \/ Leave(t)

Next ==
  \E t \in Threads :
    \/ Proceed(t) \/ Throw(t) \/ errnum(t)
    \/ \E ll \in Used : Signal(t, ll)
    \/ \E ll \in Used, l \in Loggers : Log(t, l, ll) \/ SetUrgency(t, l, ll)
    \/ \E l, src \in Loggers : Assign(t, l, src)

(* The threads are scheduled; a waiter gets the lock in the end, because   *)
(* the calls are bounded.                                                  *)
Spec == Init /\ [][Next]_vars /\ \A t \in Threads : WF_vars(Proceed(t))

-----------------------------------------------------------------------------
(* A trace stands behind the message it belongs to; the lines between them *)
(* are other threads' or of handlers that interrupted this call, never of  *)
(* an older call of the thread.  A message has a trace if it is a warning  *)
(* or worse, unless its call is at work or stderr failed.                  *)
Between(j, k) ==
  /\ err[j].what = "message" /\ err[j].id = err[k].id
  /\ \A m \in (j + 1)..(k - 1) : err[m].by = err[k].by => err[m].id > err[k].id
AtWork(id) ==
  \E t \in Threads : \E n \in 1..Len(frames[t]) : frames[t][n].id = id

TracesBelong ==
  \A k \in 1..Len(err) :
    IF err[k].what = "trace"
      THEN err[k].ll >= LL.WARN /\ \E j \in 1..(k - 1) : Between(j, k)
      ELSE \/ err[k].ll < LL.WARN \/ AtWork(err[k].id) \/ err[k].id \in thrown
           \/ \E j \in (k + 1)..Len(err) : Between(k, j)

(* A message below the level in force is only written by a call that had   *)
(* passed the gate when the level was raised.                              *)
LateOnlyIfOvertaken ==
  \A t \in Threads : \A k \in 1..Len(frames[t]) :
    LET call == frames[t][k]
    IN  call.at # "gate" /\ call.ll < level[call.of] => call.overtaken

(* Who reads stderr when no call is at work knows the level of log_g from  *)
(* the last notice, which was written: unless the level hides the notice,  *)
(* two set_urgency met, an assignment (log_g = Logger{path}) has changed   *)
(* the level since, or the notice is that of another Logger (which reads   *)
(* the same).                                                              *)
Notices == {k \in 1..Len(err) : err[k].what = "message" /\ err[k].told # 0}
LastNoticeTells ==
  (\A t \in Threads : frames[t] = <<>>) /\ ~aborted =>
    \A k \in Notices :
      (\A j \in Notices : j <= k) =>
        \/ err[k].told = level[log_g] \/ err[k].about # log_g
        \/ level[log_g] > LL.NTFY \/ store # "announced"

(* Every call returns, unless a handler blocked in the logger that it had  *)
(* interrupted, or the process was terminated.                             *)
Wedged == \/ aborted
          \/ \E t \in Threads : \E k \in 1..Len(frames[t]) :
               frames[t][k].at = "blocked"

CallsReturn ==
  \A t \in Threads : frames[t] # <<>> ~> (frames[t] = <<>> \/ Wedged)

=============================================================================
