---------------------------- MODULE Logger_proof ----------------------------
(***************************************************************************)
(* Proofs about Logger, for any number of threads, Loggers, calls and      *)
(* handlers on top of each other.                                          *)
(***************************************************************************)
EXTENDS Logger, SequenceTheorems, TLAPS

(* The invariant.  A call has its number from a counter; a handler is      *)
(* younger than what it interrupts; a call that has not written its        *)
(* message has no line; one that is at its trace has written its message,  *)
(* and since then its thread has written for younger calls only.           *)
IdsUsed ==
  \A t \in Threads : \A k \in 1..Len(frames[t]) :
    frames[t][k].id \in 1..(calls + signals)

Younger ==
  \A t \in Threads : \A j, k \in 1..Len(frames[t]) :
    j < k => frames[t][j].id < frames[t][k].id

Distinct ==
  \A t, u \in Threads : t # u =>
    \A j \in 1..Len(frames[t]), k \in 1..Len(frames[u]) :
      frames[t][j].id # frames[u][k].id

LinesUsed == \A m \in 1..Len(err) : err[m].id \in 1..(calls + signals)

Unspoken(call) == \A m \in 1..Len(err) : err[m].id # call.id
Spoken(t, call) ==
  /\ call.ll >= LL.WARN
  /\ \E j \in 1..Len(err) :
       /\ err[j].what = "message" /\ err[j].id = call.id
       /\ \A m \in (j + 1)..Len(err) : err[m].by = t => err[m].id > call.id

Said ==
  \A t \in Threads : \A k \in 1..Len(frames[t]) :
    /\ frames[t][k].at \in {"gate", "message", "messaging"} =>
         Unspoken(frames[t][k])
    /\ frames[t][k].at \in {"trace", "tracing"} => Spoken(t, frames[t][k])

OneMessage ==
  \A m, n \in 1..Len(err) :
    err[m].what = "message" /\ err[n].what = "message" /\ err[m].id = err[n].id
      => m = n

Calling == TypeOK /\ IdsUsed /\ Younger /\ Distinct
Writing == LinesUsed /\ Said /\ OneMessage /\ TracesBelong
IInv == Calling /\ LateOnlyIfOvertaken /\ Writing

-----------------------------------------------------------------------------
(* How the stacks of calls change.                                         *)
Places == {"gate", "message", "messaging", "trace", "tracing", "blocked"}

LEMMA Elements ==
  ASSUME TypeOK
  PROVE  /\ \A u \in Threads : frames[u] \in Seq(Call) /\ Len(frames[u]) \in Nat
         /\ \A u \in Threads : \A k \in 1..Len(frames[u]) : frames[u][k] \in Call
         /\ err \in Seq(Line) /\ Len(err) \in Nat
         /\ \A m \in 1..Len(err) : err[m] \in Line
         /\ calls \in Nat /\ signals \in Nat
  BY BoundsAssumption, ElementOfSeq DEF TypeOK

LEMMA TopIsLast ==
  ASSUME TypeOK, NEW t \in Threads, Busy(t)
  PROVE  /\ Len(frames[t]) \in Nat /\ Len(frames[t]) >= 1
         /\ Len(frames[t]) \in 1..Len(frames[t])
         /\ Top(t) = frames[t][Len(frames[t])] /\ Top(t) \in Call
<1>1. frames[t] \in Seq(Call) /\ frames[t] # <<>>
  BY DEF TypeOK, Busy
<1>2. Len(frames[t]) \in Nat /\ Len(frames[t]) >= 1
  BY <1>1, EmptySeq
<1>. QED  BY <1>1, <1>2, ElementOfSeq DEF Top

(* A call is at another place.                                             *)
LEMMA Moved ==
  ASSUME TypeOK, NEW t \in Threads, Busy(t), NEW place \in Places,
         frames' = Goes(t, place)
  PROVE  /\ frames' \in [Threads -> Seq(Call)]
         /\ \A u \in Threads : Len(frames'[u]) = Len(frames[u])
         /\ \A u \in Threads : \A k \in 1..Len(frames[u]) :
              frames'[u][k] = IF u = t /\ k = Len(frames[t])
                                THEN [Top(t) EXCEPT !.at = place]
                                ELSE frames[u][k]
<1>. DEFINE n == Len(frames[t])
            new == [Top(t) EXCEPT !.at = place]
            stack == [frames[t] EXCEPT ![n] = new]
<1>1. n \in 1..n /\ Top(t) = frames[t][n] /\ Top(t) \in Call
  BY TopIsLast
<1>2. frames' = [frames EXCEPT ![t] = stack]
  BY DEF Goes, Top
<1>3. new \in Call
  BY <1>1 DEF Call, Places
<1>4. /\ stack \in Seq(Call) /\ Len(stack) = n
      /\ \A k \in 1..n : stack[k] = IF k = n THEN new ELSE frames[t][k]
  BY <1>1, <1>3, ExceptSeq DEF TypeOK
<1>5. frames \in [Threads -> Seq(Call)]
  BY DEF TypeOK
<1>6. \A u \in Threads : frames'[u] = IF u = t THEN stack ELSE frames[u]
  BY <1>2, <1>5
<1>7. frames' \in [Threads -> Seq(Call)]
  BY <1>2, <1>4, <1>5
<1>. HIDE DEF stack, new
<1>8. \A u \in Threads : Len(frames'[u]) = Len(frames[u])
  BY <1>4, <1>6
<1>9. \A u \in Threads : \A k \in 1..Len(frames[u]) :
        frames'[u][k] = IF u = t /\ k = n THEN new ELSE frames[u][k]
  BY <1>4, <1>6
<1>. QED  BY <1>7, <1>8, <1>9 DEF new

(* A call is over.                                                         *)
LEMMA Popped ==
  ASSUME TypeOK, NEW t \in Threads, Busy(t), frames' = Returns(t)
  PROVE  /\ frames' \in [Threads -> Seq(Call)]
         /\ \A u \in Threads :
              Len(frames'[u]) = IF u = t THEN Len(frames[u]) - 1
                                         ELSE Len(frames[u])
         /\ \A u \in Threads : \A k \in 1..Len(frames'[u]) :
              k \in 1..Len(frames[u]) /\ frames'[u][k] = frames[u][k]
<1>. DEFINE n == Len(frames[t])  stack == Below(t)
<1>1. n \in Nat /\ n >= 1 /\ frames[t] \in Seq(Call)
  BY TopIsLast DEF TypeOK
<1>2. \A k \in 1..(n - 1) : frames[t][k] \in Call
  BY <1>1, ElementOfSeq
<1>3. /\ stack \in Seq(Call) /\ Len(stack) = n - 1
      /\ \A k \in 1..(n - 1) : stack[k] = frames[t][k]
  BY <1>1, <1>2, SubSeqProperties DEF Below
<1>4. frames \in [Threads -> Seq(Call)]
  BY DEF TypeOK
<1>5. \A u \in Threads : frames'[u] = IF u = t THEN stack ELSE frames[u]
  BY <1>4 DEF Returns
<1>6. frames' \in [Threads -> Seq(Call)]
  BY <1>3, <1>4 DEF Returns
<1>. HIDE DEF stack
<1>7. \A u \in Threads :
        Len(frames'[u]) = IF u = t THEN Len(frames[u]) - 1 ELSE Len(frames[u])
  BY <1>3, <1>5
<1>8. \A u \in Threads : \A k \in 1..Len(frames'[u]) :
        k \in 1..Len(frames[u]) /\ frames'[u][k] = frames[u][k]
  BY <1>1, <1>3, <1>5
<1>. QED  BY <1>6, <1>7, <1>8

(* What a step that starts a call leaves of the others: all that the       *)
(* invariant speaks of.                                                    *)
Alike(a, b) == a.id = b.id /\ a.ll = b.ll /\ a.at = b.at

Started(t) ==
  /\ frames' \in [Threads -> Seq(Call)]
  /\ calls' + signals' = calls + signals + 1
  /\ calls' \in 0..MaxCalls /\ signals' \in 0..MaxSignals
  /\ \A u \in Threads :
       Len(frames'[u]) = Len(frames[u]) + (IF u = t THEN 1 ELSE 0)
  /\ \A u \in Threads : \A k \in 1..Len(frames[u]) :
       Alike(frames'[u][k], frames[u][k])
  /\ LET call == frames'[t][Len(frames[t]) + 1]
     IN  call.id = calls + signals + 1 /\ call.at = "gate"

LEMMA NewCallType ==
  ASSUME TypeOK, NEW l \in Loggers, NEW ll \in 1..7, NEW told \in 0..7,
         NEW about \in Loggers, NEW noexcept \in BOOLEAN
  PROVE  NewCall(l, ll, told, about, noexcept) \in Call
  BY Elements DEF NewCall, Call

LEMMA Pushed ==
  ASSUME TypeOK, NEW t \in Threads, NEW call \in Call,
         frames' = [frames EXCEPT ![t] = Append(@, call)]
  PROVE  /\ frames' \in [Threads -> Seq(Call)]
         /\ \A u \in Threads :
              Len(frames'[u]) = Len(frames[u]) + (IF u = t THEN 1 ELSE 0)
         /\ \A u \in Threads : \A k \in 1..Len(frames[u]) :
              frames'[u][k] = frames[u][k]
         /\ frames'[t][Len(frames[t]) + 1] = call
<1>. DEFINE n == Len(frames[t])  stack == Append(frames[t], call)
<1>1. frames \in [Threads -> Seq(Call)] /\ frames[t] \in Seq(Call) /\ n \in Nat
  BY DEF TypeOK
<1>2. /\ stack \in Seq(Call) /\ Len(stack) = n + 1
      /\ \A k \in 1..n : stack[k] = frames[t][k]
      /\ stack[n + 1] = call
  BY <1>1
<1>3. \A u \in Threads : frames'[u] = IF u = t THEN stack ELSE frames[u]
  BY <1>1
<1>4. frames' \in [Threads -> Seq(Call)]
  BY <1>1, <1>2
<1>5. \A u \in Threads : Len(frames[u]) \in Nat
  BY <1>1
<1>. HIDE DEF stack
<1>6. \A u \in Threads :
        Len(frames'[u]) = Len(frames[u]) + (IF u = t THEN 1 ELSE 0)
  <2>. SUFFICES ASSUME NEW u \in Threads
                PROVE Len(frames'[u]) = Len(frames[u]) + (IF u = t THEN 1 ELSE 0)
    OBVIOUS
  <2>1. CASE u = t
    BY <1>2, <1>3, <2>1
  <2>2. CASE u # t
    <3>1. frames'[u] = frames[u]
      BY <1>3, <2>2
    <3>. QED  BY <1>5, <2>2, <3>1
  <2>. QED  BY <2>1, <2>2
<1>7. \A u \in Threads : \A k \in 1..Len(frames[u]) :
        frames'[u][k] = frames[u][k]
  BY <1>2, <1>3
<1>. QED  BY <1>2, <1>3, <1>4, <1>6, <1>7

(* Log, errnum and Signal start a call and leave the others as they are.   *)
PlainStart(t) ==
  \/ \E ll \in Used : Signal(t, ll) \/ \E l \in Loggers : Log(t, l, ll)
  \/ errnum(t)

LEMMA PlainStarts ==
  ASSUME TypeOK, NEW t \in Threads, PlainStart(t)
  PROVE  /\ Started(t) /\ UNCHANGED <<level, err, store, thrown, aborted>>
         /\ \A u \in Threads : \A k \in 1..Len(frames[u]) :
              frames'[u][k] = frames[u][k]
         /\ frames'[t][Len(frames[t]) + 1].told = 0
         /\ ~frames'[t][Len(frames[t]) + 1].overtaken
<1>. DEFINE Makes(call) ==
       /\ call \in Call /\ call.id = calls + signals + 1 /\ call.at = "gate"
       /\ call.told = 0 /\ ~call.overtaken
       /\ frames' = [frames EXCEPT ![t] = Append(@, call)]
<1>. USE LevelsAssumption, GlobalAssumption
<1>1. /\ calls' + signals' = calls + signals + 1
      /\ calls' \in 0..MaxCalls /\ signals' \in 0..MaxSignals
      /\ UNCHANGED <<level, err, store, thrown, aborted>>
  <2>1. calls \in 0..MaxCalls /\ signals \in 0..MaxSignals
        /\ MaxCalls \in Nat /\ MaxSignals \in Nat
    BY BoundsAssumption DEF TypeOK
  <2>2. ASSUME NEW ll \in Used, Signal(t, ll)  PROVE <1>1
    BY <2>1, <2>2 DEF Signal
  <2>3. ASSUME NEW ll \in Used, NEW l \in Loggers, Log(t, l, ll)  PROVE <1>1
    BY <2>1, <2>3 DEF Log, Calls
  <2>4. ASSUME errnum(t)  PROVE <1>1
    BY <2>1, <2>4 DEF errnum, Calls
  <2>. QED  BY <2>2, <2>3, <2>4 DEF PlainStart
<1>2. \E call : Makes(call)
  <2>1. ASSUME NEW l \in Loggers, NEW ll \in 1..7, NEW noexcept \in BOOLEAN
        PROVE  LET c == NewCall(l, ll, 0, l, noexcept)
               IN  /\ c \in Call /\ c.id = calls + signals + 1 /\ c.at = "gate"
                   /\ c.told = 0 /\ ~c.overtaken
    <3>1. NewCall(l, ll, 0, l, noexcept) \in Call
      BY NewCallType
    <3>. QED  BY <3>1 DEF NewCall
  <2>2. ASSUME NEW c \in Call, frames[t] = <<>>,
               frames' = [frames EXCEPT ![t] = <<c>>]
        PROVE  frames' = [frames EXCEPT ![t] = Append(@, c)]
    <3>1. Append(frames[t], c) = <<c>>
      BY <2>2
    <3>. QED  BY <2>2, <3>1
  <2>3. ASSUME NEW ll \in Used, Signal(t, ll)  PROVE \E call : Makes(call)
    <3>1. Makes(NewCall(log_g, ll, 0, log_g, TRUE))
      BY <2>1, <2>3 DEF Signal
    <3>. QED  BY <3>1
  <2>4. ASSUME NEW ll \in Used, NEW l \in Loggers, Log(t, l, ll)
        PROVE  \E call : Makes(call)
    <3>1. Makes(NewCall(l, ll, 0, l, FALSE))
      BY <2>1, <2>2, <2>4 DEF Log, Calls
    <3>. QED  BY <3>1
  <2>5. ASSUME errnum(t)  PROVE \E call : Makes(call)
    <3>1. LL.CRIT \in 1..7
      BY DEF LL
    <3>2. Makes(NewCall(log_g, LL.CRIT, 0, log_g, TRUE))
      BY <2>1, <2>2, <2>5, <3>1 DEF errnum, Calls
    <3>. QED  BY <3>2
  <2>. QED  BY <2>3, <2>4, <2>5 DEF PlainStart
<1>3. PICK call : Makes(call)
  BY <1>2
<1>4. /\ frames' \in [Threads -> Seq(Call)]
      /\ \A u \in Threads :
           Len(frames'[u]) = Len(frames[u]) + (IF u = t THEN 1 ELSE 0)
      /\ \A u \in Threads : \A k \in 1..Len(frames[u]) :
           frames'[u][k] = frames[u][k]
      /\ frames'[t][Len(frames[t]) + 1] = call
  BY <1>3, Pushed
<1>. QED  BY <1>1, <1>3, <1>4 DEF Started, Alike

(* What a raised level leaves of a call, and that it marks the late ones.   *)
LEMMA OvertakeKeeps ==
  ASSUME NEW c \in Call, NEW l \in Loggers, NEW ll \in 1..7
  PROVE  LET d == Overtake(c, l, ll)
         IN  /\ d \in Call /\ Alike(d, c)
             /\ d.told = c.told /\ d.about = c.about
             /\ d.of = c.of /\ d.noexcept = c.noexcept
             /\ d.overtaken = (c.overtaken \/ (c.at # "gate" /\ c.of = l
                                                          /\ c.ll < ll))
<1>. DEFINE late == c.at # "gate" /\ c.of = l /\ c.ll < ll
<1>1. \A b \in BOOLEAN : LET d == [c EXCEPT !.overtaken = b]
                        IN  /\ d \in Call /\ Alike(d, c)
                            /\ d.told = c.told /\ d.about = c.about
                            /\ d.of = c.of /\ d.noexcept = c.noexcept
                            /\ d.overtaken = b
  BY DEF Call, Alike
<1>2. (c.overtaken \/ late) \in BOOLEAN
  OBVIOUS
<1>3. Overtake(c, l, ll) = [c EXCEPT !.overtaken = c.overtaken \/ late]
  BY Zenon DEF Overtake
<1>4. PICK b \in BOOLEAN : b = (c.overtaken \/ late)
  BY Zenon, <1>2
<1>5. Overtake(c, l, ll) = [c EXCEPT !.overtaken = b]
  BY Zenon, <1>3, <1>4
<1>6. LET d == [c EXCEPT !.overtaken = b]
      IN  /\ d \in Call /\ Alike(d, c)
          /\ d.told = c.told /\ d.about = c.about
          /\ d.of = c.of /\ d.noexcept = c.noexcept
          /\ d.overtaken = b
  BY <1>1
<1>. QED  BY Zenon, <1>4, <1>5, <1>6

LEMMA OvertakeMarks ==
  ASSUME TypeOK, LateOnlyIfOvertaken,
         NEW l \in Loggers, NEW ll \in 1..7, level' = [level EXCEPT ![l] = ll],
         NEW u \in Threads, NEW k \in 1..Len(frames[u]),
         NEW d, d = Overtake(frames[u][k], l, ll),
         d.at # "gate", d.ll < level'[d.of]
  PROVE  d.overtaken
<1>. DEFINE c == frames[u][k]  late == c.at # "gate" /\ c.of = l /\ c.ll < ll
<1>1. c \in Call
  BY Elements
<1>2. c.at # "gate" /\ c.ll < level[c.of] => c.overtaken
  BY DEF LateOnlyIfOvertaken
<1>. HIDE DEF c
<1>3. /\ d.at = c.at /\ d.ll = c.ll /\ d.of = c.of
      /\ d.overtaken = (c.overtaken \/ late)
  BY <1>1, OvertakeKeeps DEF Alike, c
<1>4. c.at # "gate" /\ c.ll < level'[c.of]
  BY <1>3
<1>5. c.overtaken \/ late
  <2>0. level \in [Loggers -> 1..7] /\ c.of \in Loggers
    BY <1>1 DEF TypeOK, Call
  <2>1. CASE c.of = l
    BY <1>4, <2>0, <2>1
  <2>2. CASE c.of # l
    BY <1>2, <1>4, <2>0, <2>2
  <2>. QED  BY <2>1, <2>2
<1>. QED  BY Zenon, <1>3, <1>5

LEMMA OvertakeStacks ==
  ASSUME TypeOK, NEW l \in Loggers, NEW ll \in 1..7, NEW u \in Threads
  PROVE  LET stack == [k \in 1..Len(frames[u]) |-> Overtake(frames[u][k], l, ll)]
         IN  stack \in Seq(Call) /\ Len(stack) = Len(frames[u])
<1>. DEFINE n == Len(frames[u])
            stack == [k \in 1..n |-> Overtake(frames[u][k], l, ll)]
<1>1. n \in Nat /\ \A k \in 1..n : Overtake(frames[u][k], l, ll) \in Call
  BY Elements, OvertakeKeeps
<1>2. stack \in [1..n -> Call]
  BY <1>1
<1>3. \A m \in Nat : \A s \in [1..m -> Call] : s \in Seq(Call) /\ Len(s) = m
  <2>. SUFFICES ASSUME NEW m \in Nat, NEW s \in [1..m -> Call]
                PROVE  s \in Seq(Call) /\ Len(s) = m
    OBVIOUS
  <2>1. s \in Seq(Call)
    BY SeqDef
  <2>2. DOMAIN s = 1..m /\ DOMAIN s = 1..Len(s) /\ Len(s) \in Nat
    BY <2>1, LenProperties
  <2>. QED  BY <2>1, <2>2
<1>. HIDE DEF stack, n
<1>4. stack \in Seq(Call) /\ Len(stack) = n
  BY <1>1, <1>2, <1>3
<1>. QED  BY <1>4 DEF stack, n

LEMMA UrgencyStarts ==
  ASSUME TypeOK, NEW t \in Threads, NEW l \in Loggers, NEW ll \in Used,
         SetUrgency(t, l, ll)
  PROVE  /\ Started(t) /\ UNCHANGED <<err, thrown, aborted>>
         /\ \A u \in Threads \ {t} : \A k \in 1..Len(frames[u]) :
              frames'[u][k] = Overtake(frames[u][k], l, ll)
         /\ frames'[t][Len(frames[t]) + 1] =
              NewCall(log_g, LL.NTFY, ll, l, TRUE)
<1>. DEFINE call == NewCall(log_g, LL.NTFY, ll, l, TRUE)
            stack(u) == [k \in 1..Len(frames[u]) |-> Overtake(frames[u][k], l, ll)]
<1>1. call \in Call /\ call.id = calls + signals + 1 /\ call.at = "gate"
  <2>1. LL.NTFY \in 1..7 /\ ll \in 0..7
    BY LevelsAssumption DEF LL
  <2>. QED  BY <2>1, NewCallType, GlobalAssumption DEF NewCall
<1>2. \A u \in Threads : /\ Len(frames[u]) \in Nat
                         /\ \A k \in 1..Len(frames[u]) : frames[u][k] \in Call
  BY Elements
<1>3. \A c \in Call : Alike(Overtake(c, l, ll), c)
  BY OvertakeKeeps, LevelsAssumption
<1>4. \A u \in Threads : stack(u) \in Seq(Call) /\ Len(stack(u)) = Len(frames[u])
  BY OvertakeStacks, LevelsAssumption
<1>5. /\ frames' = [u \in Threads |-> IF u = t THEN <<call>> ELSE stack(u)]
      /\ frames[t] = <<>> /\ Len(frames[t]) = 0
  <2>1. frames' = [u \in Threads |-> IF u = t THEN <<call>> ELSE stack(u)]
    BY Zenon DEF SetUrgency
  <2>2. frames[t] = <<>>
    BY DEF SetUrgency, Calls
  <2>3. Len(frames[t]) = 0
    BY <2>2
  <2>. QED  BY Zenon, <2>1, <2>2, <2>3
<1>. HIDE DEF call
<1>6. <<call>> \in Seq(Call) /\ Len(<<call>>) = 1 /\ <<call>>[1] = call
  BY <1>1
<1>7. frames' \in [Threads -> Seq(Call)]
  <2>1. \A u \in Threads : (IF u = t THEN <<call>> ELSE stack(u)) \in Seq(Call)
    BY <1>4, <1>6
  <2>. HIDE DEF stack
  <2>. QED  BY <1>5, <2>1
<1>8. \A u \in Threads :
        Len(frames'[u]) = Len(frames[u]) + (IF u = t THEN 1 ELSE 0)
  <2>. SUFFICES ASSUME NEW u \in Threads
                PROVE Len(frames'[u]) = Len(frames[u]) + (IF u = t THEN 1 ELSE 0)
    OBVIOUS
  <2>1. CASE u = t
    BY <1>5, <1>6, <2>1
  <2>2. CASE u # t
    <3>1. frames'[u] = stack(u)
      BY <1>5, <2>2
    <3>. HIDE DEF stack
    <3>. QED  BY <1>2, <1>4, <2>2, <3>1
  <2>. QED  BY <2>1, <2>2
<1>9. \A u \in Threads \ {t} : \A k \in 1..Len(frames[u]) :
        frames'[u][k] = Overtake(frames[u][k], l, ll)
  BY <1>2, <1>5
<1>10. \A u \in Threads : \A k \in 1..Len(frames[u]) :
         Alike(frames'[u][k], frames[u][k])
  <2>. SUFFICES ASSUME NEW u \in Threads, NEW k \in 1..Len(frames[u])
                PROVE Alike(frames'[u][k], frames[u][k])
    OBVIOUS
  <2>1. u # t
    BY <1>5
  <2>. QED  BY <1>2, <1>3, <1>9, <2>1
<1>11. frames'[t][Len(frames[t]) + 1] = call
  BY <1>5, <1>6
<1>12. /\ calls' + signals' = calls + signals + 1
       /\ calls' \in 0..MaxCalls /\ signals' \in 0..MaxSignals
       /\ UNCHANGED <<err, thrown, aborted>>
  BY BoundsAssumption DEF TypeOK, SetUrgency, Calls
<1>. QED  BY <1>1, <1>7, <1>8, <1>9, <1>10, <1>11, <1>12 DEF Started, call

LEMMA StartedFacts ==
  ASSUME TypeOK, NEW t \in Threads, Started(t)
  PROVE  /\ \A u \in Threads : Len(frames[u]) \in Nat
         /\ \A u \in Threads : u # t => Len(frames'[u]) = Len(frames[u])
         /\ Len(frames'[t]) = Len(frames[t]) + 1
         /\ \A u \in Threads : \A k \in 1..Len(frames'[u]) :
              k \in 1..Len(frames[u]) \/ (u = t /\ k = Len(frames[t]) + 1)
         /\ \A u \in Threads : \A k \in 1..Len(frames[u]) :
              k \in 1..Len(frames'[u])
         /\ \A i \in 1..(calls + signals) : i \in 1..(calls' + signals')
         /\ calls + signals + 1 \in 1..(calls' + signals')
         /\ calls + signals + 1 \notin 1..(calls + signals)
<1>1. \A u \in Threads : Len(frames[u]) \in Nat
  BY Elements
<1>2. /\ \A u \in Threads :
           Len(frames'[u]) = Len(frames[u]) + (IF u = t THEN 1 ELSE 0)
      /\ calls' + signals' = calls + signals + 1
  BY Zenon DEF Started
<1>3. ASSUME NEW u \in Threads, u # t  PROVE Len(frames'[u]) = Len(frames[u])
  <2>1. Len(frames'[u]) = Len(frames[u]) + (IF u = t THEN 1 ELSE 0)
    BY <1>2
  <2>2. (IF u = t THEN 1 ELSE 0) = 0
    BY <1>3
  <2>3. Len(frames[u]) + 0 = Len(frames[u])
    BY <1>1
  <2>. QED  BY Zenon, <2>1, <2>2, <2>3
<1>4. Len(frames'[t]) = Len(frames[t]) + 1
  BY <1>2
<1>5. ASSUME NEW u \in Threads, NEW k \in 1..Len(frames'[u])
      PROVE  k \in 1..Len(frames[u]) \/ (u = t /\ k = Len(frames[t]) + 1)
  BY <1>1, <1>3, <1>4
<1>6. ASSUME NEW u \in Threads, NEW k \in 1..Len(frames[u])
      PROVE  k \in 1..Len(frames'[u])
  BY <1>1, <1>3, <1>4
<1>7. calls \in Nat /\ signals \in Nat
  BY Elements
<1>8. \A i \in 1..(calls + signals) : i \in 1..(calls + signals + 1)
  BY <1>7
<1>9. /\ calls + signals + 1 \in 1..(calls + signals + 1)
      /\ calls + signals + 1 \notin 1..(calls + signals)
  BY <1>7
<1>. QED  BY <1>1, <1>2, <1>3, <1>4, <1>5, <1>6, <1>8, <1>9

LEMMA StartCalling ==
  ASSUME Calling, NEW t \in Threads, Started(t)
  PROVE  IdsUsed' /\ Younger' /\ Distinct'
<1>. DEFINE n(u) == Len(frames[u])
<1>1. /\ \A u \in Threads : n(u) \in Nat
      /\ \A u \in Threads : u # t => Len(frames'[u]) = n(u)
      /\ Len(frames'[t]) = n(t) + 1
      /\ \A u \in Threads : \A k \in 1..Len(frames'[u]) :
           k \in 1..n(u) \/ (u = t /\ k = n(t) + 1)
      /\ \A i \in 1..(calls + signals) : i \in 1..(calls' + signals')
      /\ calls + signals + 1 \in 1..(calls' + signals')
  BY StartedFacts DEF Calling
<1>2. calls \in Nat /\ signals \in Nat
  BY Elements DEF Calling
<1>4. \A u \in Threads : \A k \in 1..n(u) :
        frames'[u][k].id = frames[u][k].id /\ frames[u][k].id \in 1..(calls + signals)
  BY DEF Started, Alike, Calling, IdsUsed
<1>5. frames'[t][n(t) + 1].id = calls + signals + 1
  BY DEF Started
<1>6. \A u \in Threads : \A k \in 1..Len(frames'[u]) :
        k \in 1..n(u) \/ (u = t /\ k = n(t) + 1)
  BY <1>1
<1>. HIDE DEF n
<1>7. IdsUsed'
  <2>. SUFFICES ASSUME NEW u \in Threads, NEW k \in 1..Len(frames'[u])
                PROVE  frames'[u][k].id \in 1..(calls' + signals')
    BY DEF IdsUsed
  <2>1. CASE k \in 1..n(u)
    BY <1>1, <1>4, <2>1
  <2>2. CASE u = t /\ k = n(t) + 1
    BY <1>1, <1>5, <2>2
  <2>. QED  BY <1>6, <2>1, <2>2
<1>8. Younger'
  <2>. SUFFICES ASSUME NEW u \in Threads, NEW j \in 1..Len(frames'[u]),
                       NEW k \in 1..Len(frames'[u]), j < k
                PROVE  frames'[u][j].id < frames'[u][k].id
    BY DEF Younger
  <2>1. CASE k \in 1..n(u)
    <3>1. j \in 1..n(u)
      BY <1>1, <1>5, <1>6, <2>1
    <3>2. frames[u][j].id < frames[u][k].id
      BY <2>1, <3>1 DEF Calling, Younger, n
    <3>. QED  BY <1>4, <2>1, <3>1, <3>2
  <2>2. CASE u = t /\ k = n(t) + 1
    <3>1. j \in 1..n(t)
      BY <1>1, <1>5, <2>2
    <3>. QED  BY <1>2, <1>4, <1>5, <2>2, <3>1
  <2>. QED  BY <1>6, <2>1, <2>2
<1>9. Distinct'
  <2>. SUFFICES ASSUME NEW u \in Threads, NEW v \in Threads, u # v,
                       NEW j \in 1..Len(frames'[u]), NEW k \in 1..Len(frames'[v])
                PROVE  frames'[u][j].id # frames'[v][k].id
    BY DEF Distinct
  <2>1. CASE j \in 1..n(u) /\ k \in 1..n(v)
    <3>1. frames[u][j].id # frames[v][k].id
      BY <2>1 DEF Calling, Distinct, n
    <3>. QED  BY <1>4, <2>1, <3>1
  <2>2. CASE u = t /\ j = n(t) + 1
    <3>1. k \in 1..n(v)
      BY <1>6, <2>2
    <3>. QED  BY <1>2, <1>4, <1>5, <2>2, <3>1
  <2>3. CASE v = t /\ k = n(t) + 1
    <3>1. j \in 1..n(u)
      BY <1>6, <2>3
    <3>. QED  BY <1>2, <1>4, <1>5, <2>3, <3>1
  <2>. QED  BY <1>6, <2>1, <2>2, <2>3
<1>. QED  BY <1>7, <1>8, <1>9

LEMMA StartWriting ==
  ASSUME Calling, Writing, NEW t \in Threads, Started(t),
         UNCHANGED <<err, thrown>>
  PROVE  Writing'
<1>1. /\ \A u \in Threads : \A k \in 1..Len(frames'[u]) :
           k \in 1..Len(frames[u]) \/ (u = t /\ k = Len(frames[t]) + 1)
      /\ \A u \in Threads : \A k \in 1..Len(frames[u]) : k \in 1..Len(frames'[u])
      /\ \A i \in 1..(calls + signals) : i \in 1..(calls' + signals')
      /\ calls + signals + 1 \notin 1..(calls + signals)
  BY StartedFacts DEF Calling
<1>2. err' = err /\ thrown' = thrown
  OBVIOUS
<1>3. \A u \in Threads : \A k \in 1..Len(frames'[u]) :
        \/ k \in 1..Len(frames[u]) /\ Alike(frames'[u][k], frames[u][k])
        \/ /\ frames'[u][k].id = calls + signals + 1
           /\ frames'[u][k].at = "gate"
  BY <1>1 DEF Started
<1>4. LinesUsed'
  BY <1>1, <1>2 DEF Writing, LinesUsed
<1>5. OneMessage'
  BY DEF Writing, OneMessage
<1>6. Said'
  <2>. SUFFICES ASSUME NEW u \in Threads, NEW k \in 1..Len(frames'[u])
                PROVE  /\ frames'[u][k].at \in {"gate", "message", "messaging"} =>
                            Unspoken(frames[u][k])'
                       /\ frames'[u][k].at \in {"trace", "tracing"} =>
                            Spoken(u, frames[u][k])'
    BY DEF Said
  <2>1. CASE k \in 1..Len(frames[u]) /\ Alike(frames'[u][k], frames[u][k])
    <3>1. /\ frames[u][k].at \in {"gate", "message", "messaging"} =>
                Unspoken(frames[u][k])
          /\ frames[u][k].at \in {"trace", "tracing"} => Spoken(u, frames[u][k])
      BY <2>1 DEF Writing, Said
    <3>2. Unspoken(frames[u][k]) => Unspoken(frames[u][k])'
      BY <1>2, <2>1 DEF Unspoken, Alike
    <3>3. Spoken(u, frames[u][k]) => Spoken(u, frames[u][k])'
      BY <1>2, <2>1 DEF Spoken, Alike
    <3>. QED  BY <2>1, <3>1, <3>2, <3>3 DEF Alike
  <2>2. CASE frames'[u][k].id = calls + signals + 1 /\ frames'[u][k].at = "gate"
    <3>1. Unspoken(frames[u][k])'
      BY <1>1, <1>2, <2>2 DEF Writing, LinesUsed, Unspoken
    <3>. QED  BY <2>2, <3>1
  <2>. QED  BY <1>3, <2>1, <2>2
<1>7. \A id : AtWork(id) => AtWork(id)'
  <2>. SUFFICES ASSUME NEW id, NEW u \in Threads, NEW k \in 1..Len(frames[u]),
                       frames[u][k].id = id
                PROVE  \E m \in 1..Len(frames'[u]) : frames'[u][m].id = id
    BY DEF AtWork
  <2>1. k \in 1..Len(frames'[u])
    BY <1>1
  <2>2. frames'[u][k].id = id
    BY DEF Started, Alike
  <2>. QED  BY <2>1, <2>2
<1>8. TracesBelong'
  BY <1>7 DEF Writing, TracesBelong, Between
<1>. QED  BY <1>4, <1>5, <1>6, <1>8 DEF Writing

-----------------------------------------------------------------------------
(* What a step of a call leaves: the others as they are, and its own name, *)
(* level and Logger.                                                       *)
Kept(t) ==
  /\ frames' \in [Threads -> Seq(Call)]
  /\ \A u \in Threads : \A k \in 1..Len(frames'[u]) :
       /\ k \in 1..Len(frames[u])
       /\ frames'[u][k].id = frames[u][k].id
       /\ frames'[u][k].ll = frames[u][k].ll
       /\ frames'[u][k].of = frames[u][k].of
       /\ frames'[u][k].overtaken = frames[u][k].overtaken
       /\ ~(u = t /\ k = Len(frames[t])) => frames'[u][k] = frames[u][k]

LEMMA MovedKeeps ==
  ASSUME TypeOK, NEW t \in Threads, Busy(t), NEW place \in Places,
         frames' = Goes(t, place)
  PROVE  /\ Kept(t) /\ \A id : AtWork(id) => AtWork(id)'
         /\ \A k \in 1..Len(frames'[t]) :
              k = Len(frames[t]) => frames'[t][k].at = place
<1>1. Top(t) \in Call /\ Top(t) = frames[t][Len(frames[t])]
  BY TopIsLast
<1>2. [Top(t) EXCEPT !.at = place].at = place
  BY <1>1 DEF Call
<1>3. LET c == [Top(t) EXCEPT !.at = place]
      IN  c.id = Top(t).id /\ c.ll = Top(t).ll /\ c.of = Top(t).of
          /\ c.overtaken = Top(t).overtaken
  BY <1>1 DEF Call
<1>4. /\ frames' \in [Threads -> Seq(Call)]
      /\ \A u \in Threads : Len(frames'[u]) = Len(frames[u])
      /\ \A u \in Threads : \A k \in 1..Len(frames[u]) :
           frames'[u][k] = IF u = t /\ k = Len(frames[t])
                             THEN [Top(t) EXCEPT !.at = place]
                             ELSE frames[u][k]
  BY Moved
<1>5. Kept(t)
  BY <1>1, <1>3, <1>4 DEF Kept
<1>6. \A id : AtWork(id) => AtWork(id)'
  <2>. SUFFICES ASSUME NEW id, NEW u \in Threads, NEW k \in 1..Len(frames[u]),
                       frames[u][k].id = id
                PROVE \E v \in Threads : \E m \in 1..Len(frames'[v]) :
                        frames'[v][m].id = id
    BY DEF AtWork
  <2>. QED  BY <1>1, <1>3, <1>4
<1>7. \A k \in 1..Len(frames'[t]) : k = Len(frames[t]) => frames'[t][k].at = place
  BY <1>2, <1>4
<1>. QED  BY <1>5, <1>6, <1>7

LEMMA PoppedKeeps ==
  ASSUME TypeOK, NEW t \in Threads, Busy(t), frames' = Returns(t)
  PROVE  /\ Kept(t)
         /\ \A id : AtWork(id) => AtWork(id)' \/ id = Top(t).id
         /\ \A k \in 1..Len(frames'[t]) : k # Len(frames[t])
<1>1. /\ frames' \in [Threads -> Seq(Call)]
      /\ \A u \in Threads :
           Len(frames'[u]) = IF u = t THEN Len(frames[u]) - 1 ELSE Len(frames[u])
      /\ \A u \in Threads : \A k \in 1..Len(frames'[u]) :
           k \in 1..Len(frames[u]) /\ frames'[u][k] = frames[u][k]
  BY Popped
<1>2. Len(frames[t]) \in Nat /\ Top(t) = frames[t][Len(frames[t])]
  BY TopIsLast
<1>3. Kept(t)
  BY <1>1 DEF Kept
<1>5. \A id : AtWork(id) => AtWork(id)' \/ id = Top(t).id
  <2>. SUFFICES ASSUME NEW id, NEW u \in Threads, NEW k \in 1..Len(frames[u]),
                       frames[u][k].id = id, id # Top(t).id
                PROVE \E v \in Threads : \E m \in 1..Len(frames'[v]) :
                        frames'[v][m].id = id
    BY DEF AtWork
  <2>1. k \in 1..Len(frames'[u])
    BY <1>1, <1>2
  <2>. QED  BY <1>1, <2>1
<1>6. \A k \in 1..Len(frames'[t]) : k # Len(frames[t])
  BY <1>1, <1>2
<1>. QED  BY <1>3, <1>5, <1>6

LEMMA KeptCalling ==
  ASSUME Calling, NEW t \in Threads, Kept(t), UNCHANGED <<calls, signals>>
  PROVE  IdsUsed' /\ Younger' /\ Distinct'
<1>1. IdsUsed'
  BY DEF Calling, IdsUsed, Kept
<1>2. Younger'
  BY DEF Calling, Younger, Kept
<1>3. Distinct'
  BY DEF Calling, Distinct, Kept
<1>. QED  BY <1>1, <1>2, <1>3

(* A step that writes nothing.                                             *)
LEMMA QuietWriting ==
  ASSUME Calling, Writing, NEW t \in Threads, Kept(t),
         err' = err, calls' = calls, signals' = signals,
         thrown \subseteq thrown',
         \A k \in 1..Len(frames'[t]) : k = Len(frames[t]) =>
           /\ frames'[t][k].at \in {"gate", "message", "messaging"} =>
                Unspoken(frames[t][k])
           /\ frames'[t][k].at \in {"trace", "tracing"} => Spoken(t, frames[t][k]),
         \A id : AtWork(id) => \/ AtWork(id)' \/ id \in thrown'
                              \/ \A m \in 1..Len(err) : err[m].id # id
  PROVE  Writing'
<1>1. LinesUsed' /\ OneMessage'
  BY DEF Writing, LinesUsed, OneMessage
<1>2. Said'
  <2>. SUFFICES ASSUME NEW u \in Threads, NEW k \in 1..Len(frames'[u])
                PROVE  /\ frames'[u][k].at \in {"gate", "message", "messaging"} =>
                            Unspoken(frames[u][k])'
                       /\ frames'[u][k].at \in {"trace", "tracing"} =>
                            Spoken(u, frames[u][k])'
    BY DEF Said
  <2>1. /\ k \in 1..Len(frames[u])
        /\ frames'[u][k].id = frames[u][k].id /\ frames'[u][k].ll = frames[u][k].ll
        /\ ~(u = t /\ k = Len(frames[t])) => frames'[u][k] = frames[u][k]
    BY DEF Kept
  <2>2. /\ frames'[u][k].at \in {"gate", "message", "messaging"} =>
              Unspoken(frames[u][k])
        /\ frames'[u][k].at \in {"trace", "tracing"} => Spoken(u, frames[u][k])
    <3>1. CASE u = t /\ k = Len(frames[t])
      BY <3>1
    <3>2. CASE ~(u = t /\ k = Len(frames[t]))
      <4>1. frames'[u][k] = frames[u][k]
        BY <2>1, <3>2
      <4>. QED  BY <2>1, <4>1 DEF Writing, Said
    <3>. QED  BY <3>1, <3>2
  <2>3. Unspoken(frames[u][k]) => Unspoken(frames[u][k])'
    BY <2>1 DEF Unspoken
  <2>4. Spoken(u, frames[u][k]) => Spoken(u, frames[u][k])'
    BY <2>1 DEF Spoken
  <2>. QED  BY <2>2, <2>3, <2>4
<1>3. TracesBelong'
  <2>. SUFFICES ASSUME NEW k \in 1..Len(err)
                PROVE IF err[k].what = "trace"
                        THEN err[k].ll >= LL.WARN /\ \E j \in 1..(k - 1) : Between(j, k)
                        ELSE \/ err[k].ll < LL.WARN \/ AtWork(err[k].id)'
                             \/ err[k].id \in thrown'
                             \/ \E j \in (k + 1)..Len(err) : Between(k, j)
    BY DEF TracesBelong, Between
  <2>. QED  BY DEF Writing, TracesBelong
<1>. QED  BY <1>1, <1>2, <1>3 DEF Writing

(* The top call is the youngest of its thread, and the only one with its   *)
(* number.                                                                 *)
LEMMA TopIsYoungest ==
  ASSUME Calling, NEW t \in Threads, Busy(t)
  PROVE  /\ \A k \in 1..Len(frames[t]) :
              k # Len(frames[t]) => frames[t][k].id < Top(t).id
         /\ \A u \in Threads \ {t} : \A k \in 1..Len(frames[u]) :
              frames[u][k].id # Top(t).id
<1>1. Len(frames[t]) \in Nat /\ Len(frames[t]) \in 1..Len(frames[t])
      /\ Top(t) = frames[t][Len(frames[t])]
  BY TopIsLast DEF Calling
<1>2. \A k \in 1..Len(frames[t]) :
        k # Len(frames[t]) => frames[t][k].id < frames[t][Len(frames[t])].id
  BY <1>1 DEF Calling, Younger
<1>3. \A u \in Threads \ {t} : \A k \in 1..Len(frames[u]) :
        frames[u][k].id # frames[t][Len(frames[t])].id
  BY <1>1 DEF Calling, Distinct
<1>. QED  BY <1>1, <1>2, <1>3

(* Leave writes the line of the top call.                                  *)
LEMMA LeaveWriting ==
  ASSUME Calling, Writing, NEW t \in Threads, Leave(t)
  PROVE  Writing'
<1>. DEFINE top == Top(t)  n == Len(err)  N == Len(frames[t])
            line == [id |-> top.id, by |-> t, ll |-> top.ll, told |-> top.told,
                     about |-> top.about,
                     what |-> IF top.at = "messaging" THEN "message" ELSE "trace"]
<1>0. TypeOK /\ Busy(t)
  BY DEF Leave, Calling
<1>1. /\ N \in Nat /\ N \in 1..N /\ top = frames[t][N] /\ top \in Call
  BY <1>0, TopIsLast
<1>2. line \in Line /\ line.id = top.id /\ line.by = t /\ line.ll = top.ll
      /\ line.what = IF top.at = "messaging" THEN "message" ELSE "trace"
  BY <1>1 DEF Call, Line
<1>3. err' = Append(err, line) /\ top.at \in {"messaging", "tracing"}
      /\ calls' = calls /\ signals' = signals /\ thrown' = thrown
  BY DEF Leave, Printing
<1>4. err \in Seq(Line) /\ n \in Nat
  BY <1>0, Elements
<1>. HIDE DEF line
<1>5. Len(err') = n + 1 /\ (\A m \in 1..n : err'[m] = err[m]) /\ err'[n + 1] = line
  BY <1>2, <1>3, <1>4
<1>6. \A m \in 1..Len(err') : m \in 1..n \/ m = n + 1
  BY <1>4, <1>5
<1>7. \A m \in 1..n : m \in 1..Len(err')
  BY <1>4, <1>5
<1>8. n + 1 \in 1..Len(err')
  BY <1>4, <1>5
<1>9. frames' = Goes(t, "trace") \/ frames' = Returns(t)
  BY DEF Leave
<1>10. Kept(t) /\ \A id : AtWork(id) => AtWork(id)' \/ id = top.id
  BY <1>0, <1>9, MovedKeeps, PoppedKeeps DEF Places
<1>11. Traces(top) => /\ \A id : AtWork(id) => AtWork(id)'
                      /\ top.ll >= LL.WARN /\ top.at = "messaging"
  <2>1. Traces(top) => frames' = Goes(t, "trace")
    BY DEF Leave
  <2>. QED  BY <1>0, <2>1, MovedKeeps DEF Traces, Places
<1>12. \A k \in 1..Len(frames'[t]) : k = N =>
         frames'[t][k].at = "trace" /\ Traces(top)
  <2>1. CASE Traces(top)
    <3>1. frames' = Goes(t, "trace")
      BY <2>1 DEF Leave
    <3>. QED  BY <1>0, <2>1, <3>1, MovedKeeps DEF Places
  <2>2. CASE ~Traces(top)
    <3>1. frames' = Returns(t)
      BY <2>2 DEF Leave
    <3>. QED  BY <1>0, <3>1, PoppedKeeps
  <2>. QED  BY <2>1, <2>2
<1>13. /\ top.at = "messaging" => Unspoken(top)
       /\ top.at = "tracing" => Spoken(t, top)
  BY <1>1 DEF Writing, Said
<1>14. AtWork(top.id)
  BY <1>1 DEF AtWork
<1>. HIDE DEF top, n, N
<1>15. LinesUsed'
  <2>1. top.id \in 1..(calls + signals)
    BY <1>1 DEF Calling, IdsUsed, N
  <2>. SUFFICES ASSUME NEW m \in 1..Len(err')  PROVE err'[m].id \in 1..(calls + signals)
    BY <1>3 DEF LinesUsed
  <2>2. CASE m \in 1..n
    BY <1>5, <2>2 DEF Writing, LinesUsed, n
  <2>3. CASE m = n + 1
    BY <1>2, <1>5, <2>1, <2>3
  <2>. QED  BY <1>6, <2>2, <2>3
<1>16. OneMessage'
  <2>. SUFFICES ASSUME NEW i \in 1..Len(err'), NEW j \in 1..Len(err'),
                       err'[i].what = "message", err'[j].what = "message",
                       err'[i].id = err'[j].id, i # j
                PROVE  FALSE
    BY DEF OneMessage
  <2>1. CASE i \in 1..n /\ j \in 1..n
    BY <1>5, <2>1 DEF Writing, OneMessage, n
  <2>2. ASSUME NEW k \in 1..n, err'[k].id = top.id, line.what = "message"
        PROVE  FALSE
    <3>1. Unspoken(top)
      BY <1>2, <1>13, <2>2
    <3>. QED  BY <1>5, <2>2, <3>1 DEF Unspoken, n
  <2>3. CASE i = n + 1
    <3>1. j \in 1..n
      BY <1>6, <2>3
    <3>. QED  BY <1>2, <1>5, <2>2, <2>3, <3>1
  <2>4. CASE j = n + 1
    <3>1. i \in 1..n
      BY <1>6, <2>4
    <3>. QED  BY <1>2, <1>5, <2>2, <2>4, <3>1
  <2>. QED  BY <1>6, <2>1, <2>3, <2>4
<1>17. Said'
  <2>. SUFFICES ASSUME NEW u \in Threads, NEW k \in 1..Len(frames'[u])
                PROVE  /\ frames'[u][k].at \in {"gate", "message", "messaging"} =>
                            Unspoken(frames[u][k])'
                       /\ frames'[u][k].at \in {"trace", "tracing"} =>
                            Spoken(u, frames[u][k])'
    BY DEF Said
  <2>1. k \in 1..Len(frames[u]) /\ frames'[u][k].id = frames[u][k].id
        /\ frames'[u][k].ll = frames[u][k].ll
    BY <1>10 DEF Kept
  <2>2. CASE u = t /\ k = N
    <3>1. frames'[u][k].at = "trace" /\ Traces(top) /\ frames[u][k] = top
      BY <1>1, <1>12, <2>2
    <3>2. line.what = "message" /\ line.id = top.id /\ top.ll >= LL.WARN
      BY <1>2, <1>11, <3>1
    <3>3. \A m \in (n + 1 + 1)..Len(err') : FALSE
      BY <1>4, <1>5
    <3>4. Spoken(u, frames[u][k])'
      BY <1>5, <1>8, <2>1, <3>1, <3>2, <3>3 DEF Spoken
    <3>. QED  BY <3>1, <3>4
  <2>3. CASE ~(u = t /\ k = N)
    <3>1. frames'[u][k] = frames[u][k]
      BY <1>10, <2>3 DEF Kept, N
    <3>2. frames[u][k].id # top.id /\ (u = t => frames[u][k].id < top.id)
      <4>1. frames[u][k].id \in Nat /\ top.id \in Nat
        BY <1>0, <1>1, <2>1, Elements DEF Call
      <4>. QED  BY <1>0, <2>1, <2>3, <4>1, TopIsYoungest DEF top, N
    <3>3. Unspoken(frames[u][k]) => Unspoken(frames[u][k])'
      BY <1>2, <1>5, <1>6, <3>1, <3>2 DEF Unspoken, n
    <3>4. ASSUME Spoken(u, frames[u][k])  PROVE Spoken(u, frames[u][k])'
      <4>1. PICK j \in 1..n :
              /\ err[j].what = "message" /\ err[j].id = frames[u][k].id
              /\ \A m \in (j + 1)..n : err[m].by = u => err[m].id > frames[u][k].id
        BY <3>4 DEF Spoken, n
      <4>2. j \in 1..Len(err') /\ err'[j] = err[j]
        BY <1>5, <1>7
      <4>3. ASSUME NEW m \in (j + 1)..Len(err'), err'[m].by = u
            PROVE  err'[m].id > frames[u][k].id
        <5>1. CASE m = n + 1
          <6>1. frames[u][k].id \in Nat /\ top.id \in Nat
            BY <1>0, <1>1, <2>1, Elements DEF Call
          <6>. QED  BY <1>2, <1>5, <3>2, <4>3, <5>1, <6>1
        <5>2. CASE m # n + 1
          <6>1. m \in (j + 1)..n /\ m \in 1..n
            BY <1>4, <1>5, <5>2
          <6>. QED  BY <1>5, <4>1, <4>3, <6>1
        <5>. QED  BY <5>1, <5>2
      <4>4. frames'[u][k].ll >= LL.WARN
        BY <3>1, <3>4 DEF Spoken
      <4>. QED  BY <3>1, <4>1, <4>2, <4>3, <4>4 DEF Spoken
    <3>. QED  BY <2>1, <3>1, <3>3, <3>4 DEF Writing, Said
  <2>. QED  BY <2>2, <2>3
<1>18. TracesBelong'
  <2>1. ASSUME NEW j \in 1..n, NEW k \in 1..n, Between(j, k)  PROVE Between(j, k)'
    <3>1. \A m \in (j + 1)..(k - 1) : m \in 1..n
      BY <1>4
    <3>. QED  BY <1>5, <2>1, <3>1 DEF Between
  <2>. SUFFICES ASSUME NEW k \in 1..Len(err')
                PROVE IF err'[k].what = "trace"
                        THEN /\ err'[k].ll >= LL.WARN
                             /\ \E j \in 1..(k - 1) : Between(j, k)'
                        ELSE \/ err'[k].ll < LL.WARN \/ AtWork(err[k].id)'
                             \/ err'[k].id \in thrown'
                             \/ \E j \in (k + 1)..Len(err') : Between(k, j)'
    BY DEF TracesBelong
  <2>2. ASSUME Spoken(t, top), NEW i \in 1..n, err[i].what = "message",
               err[i].id = top.id, line.what = "trace", NEW l, l = n + 1
        PROVE  Between(i, l)'
    <3>1. PICK j \in 1..n :
            /\ err[j].what = "message" /\ err[j].id = top.id
            /\ \A m \in (j + 1)..n : err[m].by = t => err[m].id > top.id
      BY <2>2 DEF Spoken, n
    <3>2. i = j
      BY <2>2, <3>1 DEF Writing, OneMessage, n
    <3>3. l - 1 = n /\ \A m \in (j + 1)..n : m \in 1..n
      BY <1>4, <2>2
    <3>4. \A m \in (j + 1)..n : err'[m].by = line.by => err'[m].id > line.id
      BY <1>2, <1>5, <3>1, <3>3
    <3>5. err'[i] = err[i] /\ err'[l] = line
      BY <1>5, <2>2
    <3>. QED  BY <1>2, <2>2, <3>1, <3>2, <3>3, <3>4, <3>5 DEF Between
  <2>3. CASE k = n + 1
    <3>1. CASE line.what = "trace"
      <4>1. Spoken(t, top)
        BY <1>2, <1>3, <1>13, <3>1
      <4>2. PICK i \in 1..n : err[i].what = "message" /\ err[i].id = top.id
        BY <4>1 DEF Spoken, n
      <4>3. Between(i, k)'
        BY <2>2, <2>3, <3>1, <4>1, <4>2
      <4>4. i \in 1..(k - 1) /\ top.ll >= LL.WARN
        BY <1>4, <2>3, <4>1 DEF Spoken
      <4>. QED  BY <1>2, <1>5, <2>3, <3>1, <4>3, <4>4
    <3>2. CASE line.what # "trace"
      <4>1. top.at = "messaging" /\ top.ll \in 1..7
        BY <1>1, <1>2, <1>3, <3>2 DEF Call
      <4>2. CASE Traces(top)
        <5>1. \E u \in Threads : \E m \in 1..Len(frames'[u]) :
                frames'[u][m].id = top.id
          BY <1>11, <1>14, <4>2 DEF AtWork
        <5>2. err'[k].id = top.id
          BY <1>2, <1>5, <2>3
        <5>3. AtWork(err[k].id)'
          BY <5>1, <5>2 DEF AtWork
        <5>. QED  BY <1>2, <1>5, <2>3, <3>2, <5>3
      <4>3. CASE ~Traces(top)
        <5>1. top.ll < LL.WARN
          BY <4>1, <4>3 DEF Traces, LL
        <5>. QED  BY <1>2, <1>5, <2>3, <3>2, <5>1
      <4>. QED  BY <4>2, <4>3
    <3>. QED  BY <3>1, <3>2
  <2>4. CASE k \in 1..n
    <3>1. IF err[k].what = "trace"
            THEN err[k].ll >= LL.WARN /\ \E j \in 1..(k - 1) : Between(j, k)
            ELSE \/ err[k].ll < LL.WARN \/ AtWork(err[k].id) \/ err[k].id \in thrown
                 \/ \E j \in (k + 1)..n : Between(k, j)
      BY <2>4 DEF Writing, TracesBelong, n
    <3>2. err'[k] = err[k]
      BY <1>5, <2>4
    <3>3. CASE err[k].what = "trace"
      <4>1. PICK j \in 1..(k - 1) : Between(j, k)
        BY <3>1, <3>3
      <4>2. j \in 1..n
        BY <1>4, <2>4
      <4>. QED  BY <2>1, <2>4, <3>1, <3>2, <3>3, <4>1, <4>2
    <3>4. CASE err[k].what # "trace"
      <4>1. CASE err[k].ll < LL.WARN
        BY <3>2, <3>4, <4>1
      <4>2. CASE err[k].id \in thrown
        BY <1>3, <3>2, <3>4, <4>2
      <4>3. CASE \E j \in (k + 1)..n : Between(k, j)
        <5>1. PICK j \in (k + 1)..n : Between(k, j)
          BY <4>3
        <5>2. j \in 1..n /\ j \in (k + 1)..Len(err')
          BY <1>4, <1>5, <2>4
        <5>3. Between(k, j)'
          BY <2>1, <2>4, <5>1, <5>2
        <5>. QED  BY <3>2, <3>4, <5>2, <5>3
      <4>4. CASE AtWork(err[k].id)
        <5>1. CASE AtWork(err[k].id) /\ err[k].id # top.id
          <6>1. \E u \in Threads : \E m \in 1..Len(frames'[u]) :
                  frames'[u][m].id = err[k].id
            BY <1>10, <5>1 DEF AtWork
          <6>2. AtWork(err[k].id)'
            BY <3>2, <6>1 DEF AtWork
          <6>. QED  BY <3>4, <3>2, <6>2
        <5>2. CASE err[k].id = top.id
          <6>1. top.at = "tracing" /\ line.what = "trace"
            BY <1>2, <1>3, <1>13, <2>4, <5>2 DEF Unspoken, n
          <6>2. err[k].what = "message"
            <7>1. err[k] \in Line
              BY <1>4, <2>4, ElementOfSeq DEF n
            <7>. QED  BY <3>4, <7>1 DEF Line
          <6>3. PICK m : m = n + 1
            OBVIOUS
          <6>4. Between(k, m)'
            BY <1>13, <2>2, <2>4, <5>2, <6>1, <6>2, <6>3
          <6>5. m \in (k + 1)..Len(err')
            BY <1>4, <1>5, <2>4, <6>3
          <6>. QED  BY <3>2, <3>4, <6>4, <6>5
        <5>. QED  BY <4>4, <5>1, <5>2
      <4>. QED  BY <3>1, <3>4, <4>1, <4>2, <4>3, <4>4
    <3>. QED  BY <3>3, <3>4
  <2>. QED  BY <1>6, <2>3, <2>4
<1>. QED  BY <1>15, <1>16, <1>17, <1>18 DEF Writing

-----------------------------------------------------------------------------
(* Each step keeps the invariant.                                          *)
LEMMA StartHolds ==
  ASSUME IInv, NEW t \in Threads, PlainStart(t)
  PROVE  IInv'
<1>1. /\ Started(t) /\ level' = level /\ err' = err /\ store' = store
      /\ thrown' = thrown /\ aborted' = aborted
      /\ \A u \in Threads : \A k \in 1..Len(frames[u]) :
           frames'[u][k] = frames[u][k]
  BY PlainStarts DEF IInv, Calling
<1>2. TypeOK'
  BY <1>1 DEF IInv, Calling, TypeOK, Started
<1>3. (IdsUsed /\ Younger /\ Distinct /\ Writing)'
  BY <1>1, StartCalling, StartWriting DEF IInv
<1>4. LateOnlyIfOvertaken'
  <2>. SUFFICES ASSUME NEW u \in Threads, NEW k \in 1..Len(frames'[u]),
                       frames'[u][k].at # "gate",
                       frames'[u][k].ll < level[frames'[u][k].of]
                PROVE  frames'[u][k].overtaken
    BY <1>1 DEF LateOnlyIfOvertaken
  <2>1. k \in 1..Len(frames[u])
    BY <1>1, StartedFacts DEF IInv, Calling, Started
  <2>. QED  BY <1>1, <2>1 DEF IInv, LateOnlyIfOvertaken
<1>. QED  BY <1>2, <1>3, <1>4 DEF IInv, Calling

LEMMA UrgencyHolds ==
  ASSUME IInv, NEW t \in Threads, NEW l \in Loggers, NEW ll \in Used,
         SetUrgency(t, l, ll)
  PROVE  IInv'
<1>1. /\ Started(t) /\ err' = err /\ thrown' = thrown /\ aborted' = aborted
      /\ \A u \in Threads \ {t} : \A k \in 1..Len(frames[u]) :
           frames'[u][k] = Overtake(frames[u][k], l, ll)
  BY UrgencyStarts DEF IInv, Calling
<1>2. level \in [Loggers -> 1..7] /\ level' = [level EXCEPT ![l] = ll] /\ ll \in 1..7
  BY LevelsAssumption DEF IInv, Calling, TypeOK, SetUrgency
<1>3. store' \in Stores
  BY DEF SetUrgency, Stores, IInv, Calling, TypeOK
<1>4. TypeOK'
  <2>1. level' \in [Loggers -> 1..7]
    BY <1>2
  <2>2. /\ err' \in Seq(Line) /\ aborted' \in BOOLEAN
        /\ thrown' \in SUBSET (1..(MaxCalls + MaxSignals))
    BY <1>1 DEF IInv, Calling, TypeOK
  <2>. QED  BY <1>1, <1>3, <2>1, <2>2 DEF TypeOK, Started
<1>5. (IdsUsed /\ Younger /\ Distinct /\ Writing)'
  BY <1>1, StartCalling, StartWriting DEF IInv
<1>6. frames[t] = <<>> /\ Len(frames[t]) = 0
  <2>1. frames[t] = <<>>
    BY DEF SetUrgency, Calls
  <2>. QED  BY <2>1
<1>7. LateOnlyIfOvertaken'
  <2>. SUFFICES ASSUME NEW u \in Threads, NEW k \in 1..Len(frames'[u]),
                       frames'[u][k].at # "gate",
                       frames'[u][k].ll < level'[frames'[u][k].of]
                PROVE  frames'[u][k].overtaken
    BY DEF LateOnlyIfOvertaken
  <2>1. k \in 1..Len(frames[u]) /\ u # t
    <3>1. k \in 1..Len(frames[u]) \/ (u = t /\ k = Len(frames[t]) + 1)
      BY <1>1, StartedFacts DEF IInv, Calling
    <3>2. frames'[t][Len(frames[t]) + 1].at = "gate"
      BY <1>1 DEF Started
    <3>3. k \in 1..Len(frames[u])
      BY <3>1, <3>2
    <3>. QED  BY <1>6, <3>3
  <2>2. frames'[u][k] = Overtake(frames[u][k], l, ll)
    BY <1>1, <2>1
  <2>. QED  BY <1>2, <2>1, <2>2, OvertakeMarks DEF IInv, Calling
<1>. QED  BY <1>4, <1>5, <1>7 DEF IInv, Calling

(* An assignment starts no call: it marks those that it overtakes.         *)
LEMMA AssignMarks ==
  ASSUME TypeOK, NEW t \in Threads, NEW l \in Loggers, NEW src \in Loggers,
         Assign(t, l, src)
  PROVE  /\ level \in [Loggers -> 1..7] /\ level[src] \in 1..7
         /\ level' = [level EXCEPT ![l] = level[src]]
         /\ frames' \in [Threads -> Seq(Call)]
         /\ \A u \in Threads : Len(frames'[u]) = Len(frames[u])
         /\ \A u \in Threads : \A k \in 1..Len(frames[u]) :
              /\ frames'[u][k] = Overtake(frames[u][k], l, level[src])
              /\ Alike(frames'[u][k], frames[u][k])
              /\ frames'[u][k].told = frames[u][k].told
              /\ frames'[u][k].about = frames[u][k].about
              /\ frames'[u][k].of = frames[u][k].of
              /\ frames'[u][k].noexcept = frames[u][k].noexcept
<1>. DEFINE ll == level[src]
            stack(u) == [k \in 1..Len(frames[u]) |-> Overtake(frames[u][k], l, ll)]
<1>1. /\ level \in [Loggers -> 1..7] /\ ll \in 1..7
      /\ level' = [level EXCEPT ![l] = ll]
  BY DEF TypeOK, Assign
<1>2. frames' = [u \in Threads |-> stack(u)]
  BY DEF Assign
<1>. HIDE DEF ll
<1>3. \A u \in Threads : stack(u) \in Seq(Call) /\ Len(stack(u)) = Len(frames[u])
  BY <1>1, OvertakeStacks
<1>4. \A u \in Threads : \A k \in 1..Len(frames[u]) :
        frames'[u][k] = Overtake(frames[u][k], l, ll)
  BY <1>2
<1>5. \A u \in Threads : frames'[u] \in Seq(Call) /\ Len(frames'[u]) = Len(frames[u])
  BY Zenon, <1>2, <1>3
<1>6. frames' \in [Threads -> Seq(Call)]
  <2>1. DOMAIN frames' = Threads /\ frames' = [u \in Threads |-> frames'[u]]
    BY Zenon, <1>2
  <2>. QED  BY Zenon, <1>5, <2>1
<1>7. \A u \in Threads : \A k \in 1..Len(frames[u]) :
        LET c == frames[u][k]
            d == frames'[u][k]
        IN  /\ Alike(d, c) /\ d.told = c.told /\ d.about = c.about
            /\ d.of = c.of /\ d.noexcept = c.noexcept
  <2>. SUFFICES ASSUME NEW u \in Threads, NEW k \in 1..Len(frames[u])
                PROVE  LET c == frames[u][k]
                           d == frames'[u][k]
                       IN  /\ Alike(d, c) /\ d.told = c.told /\ d.about = c.about
                           /\ d.of = c.of /\ d.noexcept = c.noexcept
    OBVIOUS
  <2>1. frames[u][k] \in Call /\ frames'[u][k] = Overtake(frames[u][k], l, ll)
    BY <1>4, Elements
  <2>. DEFINE c == frames[u][k]  d == Overtake(c, l, ll)
  <2>2. /\ Alike(d, c) /\ d.told = c.told /\ d.about = c.about
        /\ d.of = c.of /\ d.noexcept = c.noexcept
    BY Zenon, <1>1, <2>1, OvertakeKeeps
  <2>. HIDE DEF d
  <2>. QED  BY Zenon, <2>1, <2>2 DEF d
<1>. QED  BY <1>1, <1>4, <1>5, <1>6, <1>7 DEF ll

LEMMA AssignHolds ==
  ASSUME IInv, NEW t \in Threads, NEW l \in Loggers, NEW src \in Loggers,
         Assign(t, l, src)
  PROVE  IInv'
<1>1. /\ level \in [Loggers -> 1..7] /\ level[src] \in 1..7
      /\ level' = [level EXCEPT ![l] = level[src]]
      /\ frames' \in [Threads -> Seq(Call)]
      /\ \A u \in Threads : Len(frames'[u]) = Len(frames[u])
      /\ \A u \in Threads : \A k \in 1..Len(frames[u]) :
           /\ frames'[u][k] = Overtake(frames[u][k], l, level[src])
           /\ Alike(frames'[u][k], frames[u][k])
  BY AssignMarks DEF IInv, Calling
<1>2. /\ err' = err /\ calls' = calls /\ signals' = signals
      /\ thrown' = thrown /\ aborted' = aborted
  BY DEF Assign
<1>3. TypeOK'
  <2>1. level' \in [Loggers -> 1..7]
    BY <1>1
  <2>2. store' \in Stores
    BY DEF Assign, Stores, IInv, Calling, TypeOK
  <2>. QED  BY <1>1, <1>2, <2>1, <2>2 DEF IInv, Calling, TypeOK
<1>4. (IdsUsed /\ Younger /\ Distinct)'
  <2>1. IdsUsed'
    BY <1>1, <1>2 DEF IInv, Calling, IdsUsed, Alike
  <2>2. Younger'
    BY <1>1 DEF IInv, Calling, Younger, Alike
  <2>3. Distinct'
    BY <1>1 DEF IInv, Calling, Distinct, Alike
  <2>. QED  BY <2>1, <2>2, <2>3
<1>5. LateOnlyIfOvertaken'
  <2>. SUFFICES ASSUME NEW u \in Threads, NEW k \in 1..Len(frames'[u]),
                       frames'[u][k].at # "gate",
                       frames'[u][k].ll < level'[frames'[u][k].of]
                PROVE  frames'[u][k].overtaken
    BY DEF LateOnlyIfOvertaken
  <2>1. /\ k \in 1..Len(frames[u])
        /\ frames'[u][k] = Overtake(frames[u][k], l, level[src])
    BY <1>1
  <2>. QED  BY <1>1, <2>1, OvertakeMarks DEF IInv, Calling
<1>6. LinesUsed' /\ OneMessage'
  BY <1>2 DEF IInv, Writing, LinesUsed, OneMessage
<1>7. Said'
  <2>. SUFFICES ASSUME NEW u \in Threads, NEW k \in 1..Len(frames'[u])
                PROVE  /\ frames'[u][k].at \in {"gate", "message", "messaging"} =>
                            Unspoken(frames[u][k])'
                       /\ frames'[u][k].at \in {"trace", "tracing"} =>
                            Spoken(u, frames[u][k])'
    BY DEF Said
  <2>1. k \in 1..Len(frames[u]) /\ Alike(frames'[u][k], frames[u][k])
    BY <1>1
  <2>2. /\ frames[u][k].at \in {"gate", "message", "messaging"} =>
              Unspoken(frames[u][k])
        /\ frames[u][k].at \in {"trace", "tracing"} => Spoken(u, frames[u][k])
    BY <2>1 DEF IInv, Writing, Said
  <2>3. Unspoken(frames[u][k]) => Unspoken(frames[u][k])'
    BY <1>2, <2>1 DEF Unspoken, Alike
  <2>4. Spoken(u, frames[u][k]) => Spoken(u, frames[u][k])'
    BY <1>2, <2>1 DEF Spoken, Alike
  <2>. QED  BY <2>1, <2>2, <2>3, <2>4 DEF Alike
<1>8. \A id : AtWork(id) => AtWork(id)'
  BY <1>1 DEF AtWork, Alike
<1>9. TracesBelong'
  BY <1>2, <1>8 DEF IInv, Writing, TracesBelong, Between
<1>. QED  BY <1>3, <1>4, <1>5, <1>6, <1>7, <1>9 DEF IInv, Calling, Writing

(* A step of a call that leaves the levels, and lets no message through    *)
(* the gate that is below the level in force.                              *)
LEMMA KeptHolds ==
  ASSUME IInv, NEW t \in Threads, Kept(t), Writing',
         level' = level, calls' = calls, signals' = signals, store' = store,
         aborted' \in BOOLEAN, err' \in Seq(Line),
         thrown' \in SUBSET (1..(MaxCalls + MaxSignals)),
         \A k \in 1..Len(frames'[t]) : k = Len(frames[t]) =>
           frames[t][k].at # "gate" \/ level[frames[t][k].of] <= frames[t][k].ll
  PROVE  IInv'
<1>1. TypeOK'
  BY DEF IInv, Calling, TypeOK, Kept
<1>2. (IdsUsed /\ Younger /\ Distinct)'
  BY KeptCalling DEF IInv
<1>3. LateOnlyIfOvertaken'
  <2>. SUFFICES ASSUME NEW u \in Threads, NEW k \in 1..Len(frames'[u]),
                       frames'[u][k].at # "gate",
                       frames'[u][k].ll < level[frames'[u][k].of]
                PROVE  frames'[u][k].overtaken
    BY DEF LateOnlyIfOvertaken
  <2>1. /\ k \in 1..Len(frames[u])
        /\ frames'[u][k].ll = frames[u][k].ll
        /\ frames'[u][k].of = frames[u][k].of
        /\ frames'[u][k].overtaken = frames[u][k].overtaken
        /\ ~(u = t /\ k = Len(frames[t])) => frames'[u][k] = frames[u][k]
    BY DEF Kept
  <2>2. frames[u][k] \in Call
    BY <2>1, Elements DEF IInv, Calling
  <2>3. frames[u][k].ll \in Int /\ level[frames[u][k].of] \in Int
    <3>1. level \in [Loggers -> 1..7]
      BY DEF IInv, Calling, TypeOK
    <3>2. frames[u][k].ll \in 1..7 /\ frames[u][k].of \in Loggers
      BY <2>2 DEF Call
    <3>3. level[frames[u][k].of] \in 1..7
      BY <3>1, <3>2
    <3>. QED  BY <3>2, <3>3
  <2>4. frames[u][k].at # "gate" /\ frames[u][k].ll < level[frames[u][k].of]
    BY <2>1, <2>3
  <2>5. frames[u][k].overtaken
    BY <2>1, <2>4 DEF IInv, LateOnlyIfOvertaken
  <2>. QED  BY Zenon, <2>1, <2>5
<1>. QED  BY <1>1, <1>2, <1>3 DEF IInv, Calling

LEMMA GateHolds ==
  ASSUME IInv, NEW t \in Threads, Gate(t)
  PROVE  IInv'
<1>1. /\ Busy(t) /\ Top(t).at = "gate" /\ TypeOK /\ Calling /\ Writing
      /\ level' = level /\ err' = err /\ calls' = calls /\ signals' = signals
      /\ store' = store /\ thrown' = thrown /\ aborted' = aborted
  BY DEF Gate, IInv, Calling
<1>2. /\ Top(t) \in Call /\ Top(t) = frames[t][Len(frames[t])]
      /\ Len(frames[t]) \in 1..Len(frames[t])
  BY <1>1, TopIsLast
<1>3. Unspoken(Top(t))
  BY <1>1, <1>2 DEF Writing, Said
<1>4. CASE level[Top(t).of] > Top(t).ll
  <2>1. frames' = Returns(t)
    BY <1>4 DEF Gate
  <2>2. /\ Kept(t) /\ \A id : AtWork(id) => AtWork(id)' \/ id = Top(t).id
        /\ \A k \in 1..Len(frames'[t]) : k # Len(frames[t])
    BY <1>1, <2>1, PoppedKeeps
  <2>3. \A id : AtWork(id) => AtWork(id)' \/ \A m \in 1..Len(err) : err[m].id # id
    BY <1>3, <2>2 DEF Unspoken
  <2>4. Writing'
    BY <1>1, <2>2, <2>3, QuietWriting
  <2>. QED  BY <1>1, <2>2, <2>4, KeptHolds DEF TypeOK
<1>5. CASE ~(level[Top(t).of] > Top(t).ll)
  <2>1. frames' = Goes(t, "message")
    BY <1>5 DEF Gate
  <2>2. /\ Kept(t) /\ \A id : AtWork(id) => AtWork(id)'
        /\ \A k \in 1..Len(frames'[t]) :
             k = Len(frames[t]) => frames'[t][k].at = "message"
    BY <1>1, <2>1, MovedKeeps DEF Places
  <2>3. Writing'
    BY <1>1, <1>2, <1>3, <2>2, QuietWriting
  <2>4. level[Top(t).of] <= Top(t).ll
    <3>1. level \in [Loggers -> 1..7] /\ Top(t).ll \in 1..7 /\ Top(t).of \in Loggers
      BY <1>1, <1>2 DEF TypeOK, Call
    <3>2. level[Top(t).of] \in 1..7
      BY <3>1
    <3>. QED  BY <1>5, <3>1, <3>2
  <2>. QED  BY <1>1, <1>2, <2>2, <2>3, <2>4, KeptHolds DEF TypeOK
<1>. QED  BY <1>4, <1>5

LEMMA EnterHolds ==
  ASSUME IInv, NEW t \in Threads, Enter(t)
  PROVE  IInv'
<1>1. /\ Busy(t) /\ Top(t).at \in {"message", "trace"}
      /\ TypeOK /\ Calling /\ Writing
      /\ level' = level /\ err' = err /\ calls' = calls /\ signals' = signals
      /\ store' = store /\ thrown' = thrown /\ aborted' = aborted
  BY DEF Enter, IInv, Calling
<1>2. Top(t) = frames[t][Len(frames[t])] /\ Len(frames[t]) \in 1..Len(frames[t])
  BY <1>1, TopIsLast
<1>3. /\ Top(t).at = "message" => Unspoken(Top(t))
      /\ Top(t).at = "trace" => Spoken(t, Top(t))
  BY <1>2 DEF IInv, Writing, Said
<1>4. PICK place \in {"messaging", "tracing", "blocked"} :
        /\ frames' = Goes(t, place)
        /\ place = "messaging" => Top(t).at = "message"
        /\ place = "tracing" => Top(t).at = "trace"
  BY <1>1 DEF Enter
<1>5. /\ Kept(t) /\ \A id : AtWork(id) => AtWork(id)'
      /\ \A k \in 1..Len(frames'[t]) :
           k = Len(frames[t]) => frames'[t][k].at = place
  BY <1>1, <1>4, MovedKeeps DEF Places
<1>6. Writing'
  BY <1>1, <1>2, <1>3, <1>4, <1>5, QuietWriting
<1>. QED  BY <1>1, <1>2, <1>5, <1>6, KeptHolds DEF TypeOK

LEMMA LeaveHolds ==
  ASSUME IInv, NEW t \in Threads, Leave(t)
  PROVE  IInv'
<1>1. /\ Busy(t) /\ Top(t).at \in {"messaging", "tracing"}
      /\ TypeOK /\ Calling /\ Writing
      /\ level' = level /\ calls' = calls /\ signals' = signals
      /\ store' = store /\ thrown' = thrown /\ aborted' = aborted
  BY DEF Leave, IInv, Calling, Printing
<1>2. Top(t) = frames[t][Len(frames[t])] /\ Top(t) \in Call
  BY <1>1, TopIsLast
<1>3. Writing'
  BY <1>1, LeaveWriting
<1>4. Kept(t)
  <2>1. frames' = Goes(t, "trace") \/ frames' = Returns(t)
    BY DEF Leave
  <2>. QED  BY <1>1, <2>1, MovedKeeps, PoppedKeeps DEF Places
<1>5. err' \in Seq(Line)
  <2>. DEFINE line == [id |-> Top(t).id, by |-> t, ll |-> Top(t).ll,
                       told |-> Top(t).told, about |-> Top(t).about,
                       what |-> IF Top(t).at = "messaging" THEN "message"
                                                           ELSE "trace"]
  <2>1. line \in Line
    BY <1>2 DEF Call, Line
  <2>2. err' = Append(err, line) /\ err \in Seq(Line)
    BY <1>1 DEF Leave, TypeOK
  <2>. HIDE DEF line
  <2>. QED  BY <2>1, <2>2
<1>. QED  BY <1>1, <1>2, <1>3, <1>4, <1>5, KeptHolds DEF TypeOK

LEMMA ThrowHolds ==
  ASSUME IInv, NEW t \in Threads, Throw(t)
  PROVE  IInv'
<1>1. /\ Busy(t) /\ Top(t).at \in {"messaging", "tracing"}
      /\ TypeOK /\ Calling /\ Writing /\ frames' = Returns(t)
      /\ level' = level /\ err' = err /\ calls' = calls /\ signals' = signals
      /\ store' = store /\ thrown' = thrown \cup {Top(t).id}
      /\ aborted' = Top(t).noexcept
  BY DEF Throw, IInv, Calling, Printing
<1>2. /\ Top(t) = frames[t][Len(frames[t])] /\ Top(t) \in Call
      /\ Len(frames[t]) \in 1..Len(frames[t])
  BY <1>1, TopIsLast
<1>3. /\ Kept(t) /\ \A id : AtWork(id) => AtWork(id)' \/ id = Top(t).id
      /\ \A k \in 1..Len(frames'[t]) : k # Len(frames[t])
  BY <1>1, PoppedKeeps
<1>4. Top(t).id \in 1..(MaxCalls + MaxSignals)
  <2>1. Top(t).id \in 1..(calls + signals)
    BY <1>1, <1>2 DEF Calling, IdsUsed
  <2>2. calls \in 0..MaxCalls /\ signals \in 0..MaxSignals
    BY <1>1 DEF TypeOK
  <2>. QED  BY <2>1, <2>2, BoundsAssumption
<1>5. Writing'
  BY <1>1, <1>3, QuietWriting
<1>6. aborted' \in BOOLEAN
  BY <1>1, <1>2 DEF Call
<1>. QED  BY <1>1, <1>3, <1>4, <1>5, <1>6, KeptHolds DEF TypeOK

LEMMA InitHolds == Init => IInv
<1>. SUFFICES ASSUME Init  PROVE IInv
  OBVIOUS
<1>1. /\ frames \in [Threads -> Seq(Call)] /\ err \in Seq(Line) /\ Len(err) = 0
      /\ \A t \in Threads : Len(frames[t]) = 0
  BY DEF Init
<1>2. TypeOK
  <2>1. level \in [Loggers -> 1..7]
    BY DEF Init, DefaultLevel, LL
  <2>2. calls \in 0..MaxCalls /\ signals \in 0..MaxSignals
    BY BoundsAssumption DEF Init
  <2>3. store \in Stores /\ aborted \in BOOLEAN
        /\ thrown \in SUBSET (1..(MaxCalls + MaxSignals))
    BY DEF Init, Stores
  <2>. QED  BY <1>1, <2>1, <2>2, <2>3 DEF TypeOK
<1>3. \A t \in Threads : \A k \in 1..Len(frames[t]) : FALSE
  BY <1>1
<1>4. \A m \in 1..Len(err) : FALSE
  BY <1>1
<1>5. IdsUsed /\ Younger /\ Distinct /\ Said /\ LateOnlyIfOvertaken
  BY <1>3 DEF IdsUsed, Younger, Distinct, Said, LateOnlyIfOvertaken
<1>6. LinesUsed /\ OneMessage /\ TracesBelong
  BY <1>4 DEF LinesUsed, OneMessage, TracesBelong
<1>. QED  BY <1>2, <1>5, <1>6 DEF IInv, Calling, Writing

LEMMA StepHolds == IInv /\ [Next]_vars => IInv'
<1>. SUFFICES ASSUME IInv, [Next]_vars  PROVE IInv'
  OBVIOUS
<1>1. ASSUME NEW t \in Threads, PlainStart(t)  PROVE IInv'
  BY <1>1, StartHolds
<1>2. ASSUME NEW t \in Threads, NEW l \in Loggers, NEW ll \in Used,
             SetUrgency(t, l, ll)
      PROVE  IInv'
  BY <1>2, UrgencyHolds
<1>3. ASSUME NEW t \in Threads, Gate(t)  PROVE IInv'
  BY <1>3, GateHolds
<1>4. ASSUME NEW t \in Threads, Enter(t)  PROVE IInv'
  BY <1>4, EnterHolds
<1>5. ASSUME NEW t \in Threads, Leave(t)  PROVE IInv'
  BY <1>5, LeaveHolds
<1>6. ASSUME NEW t \in Threads, Throw(t)  PROVE IInv'
  BY <1>6, ThrowHolds
<1>7. ASSUME NEW t \in Threads, NEW l \in Loggers, NEW src \in Loggers,
             Assign(t, l, src)
      PROVE  IInv'
  BY <1>7, AssignHolds
<1>8. CASE UNCHANGED vars
  BY <1>8 DEF vars, IInv, Calling, Writing, TypeOK, IdsUsed, Younger, Distinct,
              LateOnlyIfOvertaken, LinesUsed, Said, Unspoken, Spoken,
              OneMessage, TracesBelong, Between, AtWork
<1>. QED  BY <1>1, <1>2, <1>3, <1>4, <1>5, <1>6, <1>7, <1>8
          DEF Next, Proceed, PlainStart

(* The invariant holds in every state of the logger.                       *)
THEOREM Invariant == Spec => []IInv
<1>1. Init => IInv
  BY InitHolds
<1>2. IInv /\ [Next]_vars => IInv'
  BY StepHolds
<1>. QED  BY <1>1, <1>2, PTL DEF Spec

(* The calls, the lines and the levels are always of their types.          *)
THEOREM TypeCorrect == Spec => []TypeOK
<1>1. IInv => TypeOK
  BY DEF IInv, Calling
<1>. QED  BY <1>1, Invariant, PTL

(* However threads and handlers overlap, a trace stands behind its message *)
(* and only younger calls of its thread have written between them.         *)
THEOREM TracesBehind == Spec => []TracesBelong
<1>1. IInv => TracesBelong
  BY DEF IInv, Writing
<1>. QED  BY <1>1, Invariant, PTL

(* A message below the level in force is on its way out only if the level  *)
(* was raised after it had been let through.                               *)
THEOREM NoLateLines == Spec => []LateOnlyIfOvertaken
<1>1. IInv => LateOnlyIfOvertaken
  BY DEF IInv
<1>. QED  BY <1>1, Invariant, PTL

-----------------------------------------------------------------------------
(* What the last notice tells.  The notice of a stored level is on its way *)
(* through the gate while other calls store and write: unless the last     *)
(* store met another notice of log_g or was an assignment, every notice on *)
(* its way carries the level in force, and once none is left the last one  *)
(* written does, or the level lets no notice pass.                         *)
Own(call) == call.told # 0 /\ call.about = log_g
OwnNotices == {k \in Notices : err[k].about = log_g}

NoticeCalls ==
  \A t \in Threads : \A k \in 1..Len(frames[t]) :
    frames[t][k].told # 0 =>
      /\ frames[t][k].of = log_g /\ frames[t][k].ll = LL.NTFY
      /\ frames[t][k].noexcept
      /\ frames[t][k].at \notin {"trace", "tracing"}

OnTheWay ==
  \A t \in Threads : \A k \in 1..Len(frames[t]) :
    Own(frames[t][k]) => frames[t][k].told = level[log_g]

Told ==
  \A k \in OwnNotices :
    (\A j \in OwnNotices : j <= k) => err[k].told = level[log_g]

Pending == \E t \in Threads : Announcing(t)

Tells ==
  store = "announced" /\ ~aborted =>
    OnTheWay /\ (Pending \/ level[log_g] > LL.NTFY \/ Told)

NoticeInv == NoticeCalls /\ Tells

(* A step that leaves a call on the stack changes its place only.          *)
Carried(t, place) ==
  \A u \in Threads :
    /\ Len(frames'[u]) = Len(frames[u])
    /\ \A k \in 1..Len(frames[u]) :
         /\ frames'[u][k].told = frames[u][k].told
         /\ frames'[u][k].about = frames[u][k].about
         /\ frames'[u][k].of = frames[u][k].of
         /\ frames'[u][k].ll = frames[u][k].ll
         /\ frames'[u][k].noexcept = frames[u][k].noexcept
         /\ frames'[u][k].at = IF u = t /\ k = Len(frames[t])
                                 THEN place ELSE frames[u][k].at

LEMMA MovedCarries ==
  ASSUME TypeOK, NEW t \in Threads, Busy(t), NEW place \in Places,
         frames' = Goes(t, place)
  PROVE  Carried(t, place)
<1>. DEFINE new == [Top(t) EXCEPT !.at = place]
<1>1. Top(t) \in Call /\ Top(t) = frames[t][Len(frames[t])]
  BY TopIsLast
<1>2. /\ new.told = Top(t).told /\ new.about = Top(t).about
      /\ new.of = Top(t).of /\ new.ll = Top(t).ll
      /\ new.noexcept = Top(t).noexcept /\ new.at = place
  BY <1>1 DEF Call
<1>. HIDE DEF new
<1>3. \A u \in Threads :
        /\ Len(frames'[u]) = Len(frames[u])
        /\ \A k \in 1..Len(frames[u]) :
             frames'[u][k] = IF u = t /\ k = Len(frames[t])
                               THEN new ELSE frames[u][k]
  BY Moved DEF new
<1>. QED  BY <1>1, <1>2, <1>3 DEF Carried

(* A call that moves on, and a line that is no notice of log_g, leave what *)
(* the notices say.                                                        *)
LEMMA CarriedTells ==
  ASSUME TypeOK, NoticeInv, NEW t \in Threads, Busy(t), NEW place \in Places,
         Carried(t, place),
         place \in {"trace", "tracing"} => Top(t).told = 0,
         UNCHANGED <<level, store, aborted>>, OwnNotices' = OwnNotices,
         \A k \in OwnNotices : err'[k] = err[k]
  PROVE  NoticeInv'
<1>1. /\ Len(frames[t]) \in 1..Len(frames[t])
      /\ Top(t) = frames[t][Len(frames[t])]
  BY TopIsLast
<1>2. NoticeCalls'
  <2>. SUFFICES ASSUME NEW u \in Threads, NEW k \in 1..Len(frames'[u]),
                       frames'[u][k].told # 0
                PROVE  /\ frames'[u][k].of = log_g
                       /\ frames'[u][k].ll = LL.NTFY
                       /\ frames'[u][k].noexcept
                       /\ frames'[u][k].at \notin {"trace", "tracing"}
    BY DEF NoticeCalls
  <2>1. k \in 1..Len(frames[u]) /\ frames[u][k].told # 0
    BY DEF Carried
  <2>2. /\ frames[u][k].of = log_g /\ frames[u][k].ll = LL.NTFY
        /\ frames[u][k].noexcept
        /\ frames[u][k].at \notin {"trace", "tracing"}
    BY <2>1 DEF NoticeInv, NoticeCalls
  <2>3. frames'[u][k].at \notin {"trace", "tracing"}
    BY <1>1, <2>1, <2>2 DEF Carried
  <2>. QED  BY <2>1, <2>2, <2>3 DEF Carried
<1>3. OnTheWay => OnTheWay'
  BY DEF OnTheWay, Own, Carried
<1>4. Pending => Pending'
  BY DEF Pending, Announcing, Carried
<1>5. Told => Told'
  BY DEF Told
<1>. QED  BY <1>2, <1>3, <1>4, <1>5 DEF NoticeInv, Tells

LEMMA SilentNotices ==
  ASSUME err' = err
  PROVE  OwnNotices' = OwnNotices /\ \A k \in OwnNotices : err'[k] = err[k]
BY DEF OwnNotices, Notices

(* A line is a notice of log_g or leaves those that there are.             *)
LEMMA LineNotices ==
  ASSUME TypeOK, NEW line \in Line, err' = Append(err, line)
  PROVE  /\ \A k \in 1..Len(err) : err'[k] = err[k]
         /\ err'[Len(err) + 1] = line
         /\ \A k \in OwnNotices : k \in 1..Len(err) /\ k < Len(err) + 1
         /\ OwnNotices' =
              IF line.what = "message" /\ Own(line)
                THEN OwnNotices \cup {Len(err) + 1} ELSE OwnNotices
<1>1. err \in Seq(Line) /\ Len(err) \in Nat
  BY DEF TypeOK
<1>2. /\ Len(err') = Len(err) + 1 /\ err'[Len(err) + 1] = line
      /\ \A k \in 1..Len(err) : err'[k] = err[k]
  BY <1>1
<1>3. \A k \in OwnNotices : k \in 1..Len(err) /\ k < Len(err) + 1
  BY <1>1 DEF OwnNotices, Notices
<1>4. ASSUME NEW k
      PROVE  k \in OwnNotices' <=>
               \/ k \in OwnNotices
               \/ k = Len(err) + 1 /\ line.what = "message" /\ Own(line)
  <2>1. k \in 1..Len(err') <=> k \in 1..Len(err) \/ k = Len(err) + 1
    BY <1>1, <1>2
  <2>2. Len(err) + 1 \notin 1..Len(err)
    BY <1>1
  <2>. QED  BY <1>2, <2>1, <2>2 DEF OwnNotices, Notices, Own
<1>5. OwnNotices' =
        IF line.what = "message" /\ Own(line)
          THEN OwnNotices \cup {Len(err) + 1} ELSE OwnNotices
  BY <1>4
<1>. QED  BY <1>2, <1>3, <1>5

(* When a call returns that is no notice, the others are still on their    *)
(* way.                                                                    *)
LEMMA PoppedNotices ==
  ASSUME TypeOK, NoticeInv, NEW t \in Threads, Busy(t), frames' = Returns(t),
         level' = level
  PROVE  /\ NoticeCalls' /\ (OnTheWay => OnTheWay')
         /\ Pending => Pending' \/ Own(Top(t))
<1>1. /\ \A u \in Threads :
           Len(frames'[u]) = IF u = t THEN Len(frames[u]) - 1 ELSE Len(frames[u])
      /\ \A u \in Threads : \A k \in 1..Len(frames'[u]) :
           k \in 1..Len(frames[u]) /\ frames'[u][k] = frames[u][k]
  BY Popped
<1>2. Len(frames[t]) \in Nat /\ Top(t) = frames[t][Len(frames[t])]
  BY TopIsLast
<1>3. NoticeCalls'
  BY <1>1 DEF NoticeInv, NoticeCalls
<1>4. OnTheWay => OnTheWay'
  BY <1>1 DEF OnTheWay
<1>5. ASSUME NEW u \in Threads, NEW k \in 1..Len(frames[u]),
             Own(frames[u][k]), ~Own(Top(t))
      PROVE  Pending'
  <2>1. k \in 1..Len(frames'[u])
    BY <1>1, <1>2, <1>5
  <2>2. Own(frames'[u][k])
    BY <1>1, <1>5, <2>1
  <2>. QED  BY <2>1, <2>2 DEF Pending, Announcing, Own
<1>6. Pending => Pending' \/ Own(Top(t))
  BY <1>5 DEF Pending, Announcing, Own
<1>. QED  BY <1>3, <1>4, <1>6

LEMMA GateTells ==
  ASSUME IInv, NoticeInv, NEW t \in Threads, Gate(t)
  PROVE  NoticeInv'
<1>1. /\ TypeOK /\ Busy(t)
      /\ err' = err /\ level' = level /\ store' = store /\ aborted' = aborted
  BY DEF IInv, Calling, Gate
<1>2. OwnNotices' = OwnNotices /\ \A k \in OwnNotices : err'[k] = err[k]
  BY <1>1, SilentNotices
<1>3. CASE level[Top(t).of] > Top(t).ll
  <2>1. frames' = Returns(t)
    BY <1>3 DEF Gate
  <2>2. /\ NoticeCalls' /\ (OnTheWay => OnTheWay')
        /\ Pending => Pending' \/ Own(Top(t))
    BY <1>1, <2>1, PoppedNotices
  <2>3. Own(Top(t)) => level[log_g] > LL.NTFY
    <3>1. Top(t).told # 0 => Top(t).of = log_g /\ Top(t).ll = LL.NTFY
      BY <1>1, TopIsLast DEF NoticeInv, NoticeCalls
    <3>. QED  BY <1>3, <3>1 DEF Own
  <2>4. Told => Told'
    BY <1>1, <1>2 DEF Told
  <2>. QED  BY <1>1, <2>2, <2>3, <2>4 DEF NoticeInv, Tells
<1>4. CASE ~(level[Top(t).of] > Top(t).ll)
  <2>1. frames' = Goes(t, "message")
    BY <1>4 DEF Gate
  <2>2. Carried(t, "message")
    BY <1>1, <2>1, MovedCarries DEF Places
  <2>. QED  BY <1>1, <1>2, <2>2, CarriedTells DEF Places
<1>. QED  BY <1>3, <1>4

LEMMA EnterTells ==
  ASSUME IInv, NoticeInv, NEW t \in Threads, Enter(t)
  PROVE  NoticeInv'
<1>1. /\ TypeOK /\ Busy(t) /\ err' = err
      /\ level' = level /\ store' = store /\ aborted' = aborted
  BY DEF IInv, Calling, Enter
<1>2. OwnNotices' = OwnNotices /\ \A k \in OwnNotices : err'[k] = err[k]
  BY <1>1, SilentNotices
<1>3. PICK place \in {"messaging", "tracing", "blocked"} :
        /\ frames' = Goes(t, place)
        /\ place = "tracing" => Top(t).at = "trace"
  BY DEF Enter
<1>4. place = "tracing" => Top(t).told = 0
  BY <1>1, <1>3, TopIsLast DEF NoticeInv, NoticeCalls
<1>5. Carried(t, place)
  BY <1>1, <1>3, MovedCarries DEF Places
<1>. QED  BY <1>1, <1>2, <1>4, <1>5, CarriedTells DEF Places

LEMMA LeaveTells ==
  ASSUME IInv, NoticeInv, NEW t \in Threads, Leave(t)
  PROVE  NoticeInv'
<1>. DEFINE line == [id |-> Top(t).id, by |-> t, ll |-> Top(t).ll,
                     told |-> Top(t).told, about |-> Top(t).about,
                     what |-> IF Top(t).at = "messaging" THEN "message"
                                                         ELSE "trace"]
<1>1. /\ TypeOK /\ Busy(t) /\ Top(t).at \in {"messaging", "tracing"}
      /\ level' = level /\ store' = store /\ aborted' = aborted
      /\ err' = Append(err, line)
  BY DEF IInv, Calling, Leave, Printing
<1>2. Top(t) \in Call /\ Top(t) = frames[t][Len(frames[t])]
      /\ Len(frames[t]) \in 1..Len(frames[t])
  BY <1>1, TopIsLast
<1>3. Top(t).told # 0 => Top(t).ll = LL.NTFY /\ Top(t).at = "messaging"
  BY <1>1, <1>2 DEF NoticeInv, NoticeCalls
<1>4. line \in Line
  BY <1>2 DEF Call, Line
<1>5. /\ line.told = Top(t).told /\ line.about = Top(t).about
      /\ Own(line) <=> Own(Top(t))
      /\ Own(line) => line.what = "message"
  BY <1>3 DEF Own
<1>. HIDE DEF line
<1>6. /\ \A k \in 1..Len(err) : err'[k] = err[k]
      /\ err'[Len(err) + 1] = line
      /\ \A k \in OwnNotices : k \in 1..Len(err) /\ k < Len(err) + 1
      /\ OwnNotices' =
           IF line.what = "message" /\ Own(line)
             THEN OwnNotices \cup {Len(err) + 1} ELSE OwnNotices
  BY <1>1, <1>4, LineNotices
<1>7. CASE Traces(Top(t))
  <2>1. frames' = Goes(t, "trace")
    BY <1>7 DEF Leave
  <2>2. Top(t).told = 0
    BY <1>3, <1>7 DEF Traces, LL
  <2>3. OwnNotices' = OwnNotices /\ \A k \in OwnNotices : err'[k] = err[k]
    BY <1>5, <1>6, <2>2 DEF Own
  <2>4. Carried(t, "trace")
    BY <1>1, <2>1, MovedCarries DEF Places
  <2>. QED  BY <1>1, <2>2, <2>3, <2>4, CarriedTells DEF Places
<1>8. CASE ~Traces(Top(t))
  <2>1. frames' = Returns(t)
    BY <1>8 DEF Leave
  <2>2. /\ NoticeCalls' /\ (OnTheWay => OnTheWay')
        /\ Pending => Pending' \/ Own(Top(t))
    BY <1>1, <2>1, PoppedNotices
  <2>3. CASE Own(Top(t))
    <3>1. OwnNotices' = OwnNotices \cup {Len(err) + 1}
      BY <1>5, <1>6, <2>3
    <3>2. OnTheWay => Top(t).told = level[log_g]
      BY <1>2, <2>3 DEF OnTheWay
    <3>3. ASSUME NEW k \in OwnNotices', \A j \in OwnNotices' : j <= k
          PROVE  k = Len(err) + 1
      <4>1. Len(err) \in Nat
        BY <1>1 DEF TypeOK
      <4>. QED  BY <1>6, <3>1, <3>3, <4>1
    <3>4. OnTheWay => Told'
      BY <1>1, <1>5, <1>6, <3>2, <3>3 DEF Told
    <3>. QED  BY <1>1, <2>2, <3>4 DEF NoticeInv, Tells
  <2>4. CASE ~Own(Top(t))
    <3>1. OwnNotices' = OwnNotices /\ \A k \in OwnNotices : err'[k] = err[k]
      BY <1>5, <1>6, <2>4
    <3>2. Told => Told'
      BY <1>1, <3>1 DEF Told
    <3>. QED  BY <1>1, <2>2, <2>4, <3>2 DEF NoticeInv, Tells
  <2>. QED  BY <2>3, <2>4
<1>. QED  BY <1>7, <1>8

(* A notice that stderr refuses ends the program: set_urgency is noexcept. *)
LEMMA ThrowTells ==
  ASSUME IInv, NoticeInv, NEW t \in Threads, Throw(t)
  PROVE  NoticeInv'
<1>1. /\ TypeOK /\ Busy(t) /\ frames' = Returns(t) /\ ~aborted
      /\ err' = err /\ level' = level /\ store' = store
      /\ aborted' = Top(t).noexcept
  BY DEF IInv, Calling, Throw, Busy
<1>2. OwnNotices' = OwnNotices /\ \A k \in OwnNotices : err'[k] = err[k]
  BY <1>1, SilentNotices
<1>3. /\ NoticeCalls' /\ (OnTheWay => OnTheWay')
      /\ Pending => Pending' \/ Own(Top(t))
  BY <1>1, PoppedNotices
<1>4. Own(Top(t)) => aborted'
  BY <1>1, TopIsLast DEF NoticeInv, NoticeCalls, Own
<1>5. Told => Told'
  BY <1>1, <1>2 DEF Told
<1>. QED  BY <1>1, <1>3, <1>4, <1>5 DEF NoticeInv, Tells

(* A new call is no notice, or it is that of the level just stored.        *)
LEMMA StartTells ==
  ASSUME IInv, NoticeInv, NEW t \in Threads, PlainStart(t)
  PROVE  NoticeInv'
<1>1. /\ TypeOK /\ Started(t) /\ UNCHANGED <<level, err, store, thrown, aborted>>
      /\ \A u \in Threads : \A k \in 1..Len(frames[u]) :
           frames'[u][k] = frames[u][k]
      /\ frames'[t][Len(frames[t]) + 1].told = 0
  BY PlainStarts DEF IInv, Calling
<1>2. /\ \A u \in Threads : \A k \in 1..Len(frames'[u]) :
           k \in 1..Len(frames[u]) \/ (u = t /\ k = Len(frames[t]) + 1)
      /\ \A u \in Threads : \A k \in 1..Len(frames[u]) : k \in 1..Len(frames'[u])
  BY <1>1, StartedFacts
<1>3. NoticeCalls'
  BY <1>1, <1>2 DEF NoticeInv, NoticeCalls
<1>4. OnTheWay => OnTheWay'
  BY <1>1, <1>2 DEF OnTheWay, Own
<1>5. Pending => Pending'
  BY <1>1, <1>2 DEF Pending, Announcing
<1>6. OwnNotices' = OwnNotices /\ \A k \in OwnNotices : err'[k] = err[k]
  BY <1>1, SilentNotices
<1>7. Told => Told'
  BY <1>1, <1>6 DEF Told
<1>. QED  BY <1>1, <1>3, <1>4, <1>5, <1>7 DEF NoticeInv, Tells

LEMMA UrgencyTells ==
  ASSUME IInv, NoticeInv, NEW t \in Threads, NEW l \in Loggers, NEW ll \in Used,
         SetUrgency(t, l, ll)
  PROVE  NoticeInv'
<1>. DEFINE n == Len(frames[t]) + 1
<1>1. /\ TypeOK /\ Started(t) /\ UNCHANGED <<err, thrown, aborted>>
      /\ \A u \in Threads \ {t} : \A k \in 1..Len(frames[u]) :
           frames'[u][k] = Overtake(frames[u][k], l, ll)
      /\ frames'[t][n] = NewCall(log_g, LL.NTFY, ll, l, TRUE)
  BY UrgencyStarts DEF IInv, Calling
<1>2. /\ level' = [level EXCEPT ![l] = ll] /\ level \in [Loggers -> 1..7]
      /\ store' = IF l # log_g THEN store
                  ELSE IF Pending THEN "raced" ELSE "announced"
      /\ Len(frames[t]) = 0
  <2>1. frames[t] = <<>>
    BY DEF SetUrgency, Calls
  <2>. QED  BY <1>1, <2>1 DEF SetUrgency, TypeOK, Pending
<1>3. \A u \in Threads : \A k \in 1..Len(frames'[u]) :
        \/ u # t /\ k \in 1..Len(frames[u])
        \/ u = t /\ k = n
  BY <1>1, <1>2, StartedFacts
<1>4. n \in 1..Len(frames'[t])
  BY <1>1, <1>2, StartedFacts
<1>5. /\ frames'[t][n].told = ll /\ frames'[t][n].about = l
      /\ frames'[t][n].of = log_g /\ frames'[t][n].ll = LL.NTFY
      /\ frames'[t][n].noexcept = TRUE /\ frames'[t][n].at = "gate"
      /\ ll # 0
  BY <1>1, LevelsAssumption DEF NewCall
<1>6. \A u \in Threads \ {t} : \A k \in 1..Len(frames[u]) :
        /\ frames'[u][k].told = frames[u][k].told
        /\ frames'[u][k].about = frames[u][k].about
        /\ frames'[u][k].of = frames[u][k].of
        /\ frames'[u][k].ll = frames[u][k].ll
        /\ frames'[u][k].noexcept = frames[u][k].noexcept
        /\ frames'[u][k].at = frames[u][k].at
  <2>. SUFFICES ASSUME NEW u \in Threads \ {t}, NEW k \in 1..Len(frames[u])
                PROVE  LET c == frames[u][k]
                           d == frames'[u][k]
                       IN  /\ d.told = c.told /\ d.about = c.about
                           /\ d.of = c.of /\ d.ll = c.ll
                           /\ d.noexcept = c.noexcept /\ d.at = c.at
    OBVIOUS
  <2>1. frames[u][k] \in Call /\ frames'[u][k] = Overtake(frames[u][k], l, ll)
    BY <1>1, Elements
  <2>2. ll \in 1..7
    BY LevelsAssumption
  <2>. DEFINE c == frames[u][k]  d == Overtake(c, l, ll)
  <2>3. /\ Alike(d, c) /\ d.told = c.told /\ d.about = c.about
        /\ d.of = c.of /\ d.noexcept = c.noexcept
    BY Zenon, <2>1, <2>2, OvertakeKeeps
  <2>. HIDE DEF c, d
  <2>4. d.ll = c.ll /\ d.at = c.at
    BY <2>3 DEF Alike
  <2>. QED  BY Zenon, <2>1, <2>3, <2>4 DEF c, d
<1>. HIDE DEF n
<1>7. NoticeCalls'
  <2>. SUFFICES ASSUME NEW u \in Threads, NEW k \in 1..Len(frames'[u]),
                       frames'[u][k].told # 0
                PROVE  /\ frames'[u][k].of = log_g
                       /\ frames'[u][k].ll = LL.NTFY
                       /\ frames'[u][k].noexcept
                       /\ frames'[u][k].at \notin {"trace", "tracing"}
    BY DEF NoticeCalls
  <2>1. CASE u # t /\ k \in 1..Len(frames[u])
    <3>1. frames[u][k].told # 0
      BY <1>6, <2>1
    <3>2. /\ frames[u][k].of = log_g /\ frames[u][k].ll = LL.NTFY
          /\ frames[u][k].noexcept
          /\ frames[u][k].at \notin {"trace", "tracing"}
      BY <2>1, <3>1 DEF NoticeInv, NoticeCalls
    <3>. QED  BY <1>6, <2>1, <3>2
  <2>2. CASE u = t /\ k = n
    BY <1>5, <2>2
  <2>. QED  BY <1>3, <2>1, <2>2
<1>8. OwnNotices' = OwnNotices /\ \A k \in OwnNotices : err'[k] = err[k]
  BY <1>1, SilentNotices
<1>9. CASE l = log_g
  <2>1. level'[log_g] = ll
    BY <1>2, <1>9
  <2>2. ASSUME ~Pending  PROVE OnTheWay'
    <3>. SUFFICES ASSUME NEW u \in Threads, NEW k \in 1..Len(frames'[u]),
                         Own(frames'[u][k])
                  PROVE  frames'[u][k].told = level'[log_g]
      BY DEF OnTheWay, Own
    <3>1. ~(u # t /\ k \in 1..Len(frames[u]))
      BY <1>6, <2>2 DEF Pending, Announcing, Own
    <3>. QED  BY <1>3, <1>5, <2>1, <3>1
  <2>3. Pending'
    BY <1>4, <1>5, <1>9 DEF Pending, Announcing
  <2>. QED  BY <1>2, <1>7, <1>9, <2>2, <2>3 DEF NoticeInv, Tells
<1>10. CASE l # log_g
  <2>1. level'[log_g] = level[log_g] /\ store' = store
    BY <1>2, <1>10, GlobalAssumption
  <2>2. ASSUME OnTheWay  PROVE OnTheWay'
    <3>. SUFFICES ASSUME NEW u \in Threads, NEW k \in 1..Len(frames'[u]),
                         Own(frames'[u][k])
                  PROVE  frames'[u][k].told = level'[log_g]
      BY DEF OnTheWay, Own
    <3>1. u # t /\ k \in 1..Len(frames[u])
      BY <1>3, <1>5, <1>10 DEF Own
    <3>. QED  BY <1>6, <2>1, <2>2, <3>1 DEF OnTheWay, Own
  <2>3. ASSUME Pending  PROVE Pending'
    <3>1. PICK u \in Threads : \E k \in 1..Len(frames[u]) : Own(frames[u][k])
      BY <2>3 DEF Pending, Announcing, Own
    <3>2. u # t
      BY <1>2, <3>1
    <3>3. \E k \in 1..Len(frames'[u]) : Own(frames'[u][k])
      BY <1>1, <1>6, <3>1, <3>2, StartedFacts DEF Own
    <3>. QED  BY <3>3 DEF Pending, Announcing, Own
  <2>4. Told => Told'
    BY <1>8, <2>1 DEF Told
  <2>. QED  BY <1>1, <1>7, <2>1, <2>2, <2>3, <2>4 DEF NoticeInv, Tells
<1>. QED  BY <1>9, <1>10

(* An assignment to log_g tells nothing: what the notices say is stale     *)
(* until the next set_urgency.                                             *)
LEMMA AssignTells ==
  ASSUME IInv, NoticeInv, NEW t \in Threads, NEW l \in Loggers,
         NEW src \in Loggers, Assign(t, l, src)
  PROVE  NoticeInv'
<1>1. /\ TypeOK /\ err' = err /\ aborted' = aborted
      /\ store' = IF l = log_g THEN "assigned" ELSE store
  BY DEF IInv, Calling, Assign
<1>2. /\ level \in [Loggers -> 1..7]
      /\ level' = [level EXCEPT ![l] = level[src]]
      /\ \A u \in Threads : Len(frames'[u]) = Len(frames[u])
      /\ \A u \in Threads : \A k \in 1..Len(frames[u]) :
           /\ Alike(frames'[u][k], frames[u][k])
           /\ frames'[u][k].told = frames[u][k].told
           /\ frames'[u][k].about = frames[u][k].about
           /\ frames'[u][k].of = frames[u][k].of
           /\ frames'[u][k].noexcept = frames[u][k].noexcept
  BY <1>1, AssignMarks
<1>3. NoticeCalls'
  BY <1>2 DEF NoticeInv, NoticeCalls, Alike
<1>4. CASE l = log_g
  BY <1>1, <1>3, <1>4 DEF NoticeInv, Tells
<1>5. CASE l # log_g
  <2>1. level'[log_g] = level[log_g] /\ store' = store
    BY <1>1, <1>2, <1>5, GlobalAssumption
  <2>2. OnTheWay => OnTheWay'
    BY <1>2, <2>1 DEF OnTheWay, Own
  <2>3. Pending => Pending'
    BY <1>2 DEF Pending, Announcing
  <2>4. OwnNotices' = OwnNotices /\ \A k \in OwnNotices : err'[k] = err[k]
    BY <1>1, SilentNotices
  <2>5. Told => Told'
    BY <2>1, <2>4 DEF Told
  <2>. QED  BY <1>1, <1>3, <2>1, <2>2, <2>3, <2>5 DEF NoticeInv, Tells
<1>. QED  BY <1>4, <1>5

(* What the notices say is kept by every step, assignments included, which *)
(* only suspend it.                                                        *)
THEOREM NoticeInvariant == Spec => []NoticeInv
<1>1. Init => NoticeInv
  <2>. SUFFICES ASSUME Init  PROVE NoticeInv
    OBVIOUS
  <2>1. \A t \in Threads : \A k \in 1..Len(frames[t]) : FALSE
    BY DEF Init
  <2>2. \A k \in OwnNotices : FALSE
    BY DEF Init, OwnNotices, Notices
  <2>. QED  BY <2>1, <2>2 DEF NoticeInv, NoticeCalls, Tells, OnTheWay, Told
<1>2. IInv /\ NoticeInv /\ [Next]_vars => NoticeInv'
  <2>. SUFFICES ASSUME IInv, NoticeInv, [Next]_vars  PROVE NoticeInv'
    OBVIOUS
  <2>1. ASSUME NEW t \in Threads, PlainStart(t)  PROVE NoticeInv'
    BY <2>1, StartTells
  <2>2. ASSUME NEW t \in Threads, NEW l \in Loggers, NEW ll \in Used,
               SetUrgency(t, l, ll)
        PROVE  NoticeInv'
    BY <2>2, UrgencyTells
  <2>3. ASSUME NEW t \in Threads, Proceed(t) \/ Throw(t)  PROVE NoticeInv'
    BY <2>3, GateTells, EnterTells, LeaveTells, ThrowTells DEF Proceed
  <2>4. ASSUME NEW t \in Threads, NEW l \in Loggers, NEW src \in Loggers,
               Assign(t, l, src)
        PROVE  NoticeInv'
    BY <2>4, AssignTells
  <2>5. CASE UNCHANGED vars
    BY <2>5 DEF vars, NoticeInv, NoticeCalls, Tells, OnTheWay, Told, Pending,
                Announcing, OwnNotices, Notices
  <2>. QED  BY <2>1, <2>2, <2>3, <2>4, <2>5 DEF Next, PlainStart
<1>. QED  BY <1>1, <1>2, Invariant, PTL DEF Spec

(* However many threads store levels and log, who reads stderr when no     *)
(* call is at work learns the level of log_g from the last notice, but for *)
(* the cases that LastNoticeTells names: an assignment since is one, and   *)
(* the next set_urgency that meets no other ends it.                       *)
THEOREM NoticeTold == Spec => []LastNoticeTells
<1>1. TypeOK /\ NoticeInv => LastNoticeTells
  <2>. SUFFICES ASSUME TypeOK, NoticeInv, \A t \in Threads : frames[t] = <<>>,
                       ~aborted, NEW k \in Notices, \A j \in Notices : j <= k,
                       err[k].about = log_g, ~(level[log_g] > LL.NTFY),
                       store = "announced"
                PROVE  err[k].told = level[log_g]
    BY DEF LastNoticeTells
  <2>1. ~Pending
    BY DEF Pending, Announcing
  <2>2. Told
    BY <2>1 DEF NoticeInv, Tells
  <2>3. k \in OwnNotices /\ \A j \in OwnNotices : j <= k
    BY DEF OwnNotices
  <2>. QED  BY <2>2, <2>3 DEF Told
<1>. QED  BY <1>1, TypeCorrect, NoticeInvariant, PTL

-----------------------------------------------------------------------------
(* A program of one thread, its signal handlers included: the exceptions   *)
(* that the properties make for other threads do not occur; an assignment  *)
(* still does.                                                             *)
Alone ==
  /\ store # "raced"
  /\ \A t \in Threads : \A k \in 1..Len(frames[t]) : ~frames[t][k].overtaken

OnTime ==
  /\ \A t \in Threads : \A k \in 1..Len(frames[t]) :
       frames[t][k].at # "gate" => level[frames[t][k].of] <= frames[t][k].ll
  /\ (\A t \in Threads : frames[t] = <<>>) /\ ~aborted =>
       \A k \in Notices :
         (\A j \in Notices : j <= k) /\ err[k].about = log_g =>
           \/ err[k].told = level[log_g] \/ level[log_g] > LL.NTFY
           \/ store = "assigned"

LEMMA AloneHolds ==
  ASSUME \A t, u \in Threads : t = u, IInv, Alone, Next
  PROVE  Alone'
<1>. USE DEF Alone
<1>1. TypeOK
  BY DEF IInv, Calling
<1>2. ASSUME NEW t \in Threads, PlainStart(t)  PROVE Alone'
  <2>1. /\ Started(t) /\ UNCHANGED <<level, err, store, thrown, aborted>>
        /\ \A u \in Threads : \A k \in 1..Len(frames[u]) :
             frames'[u][k] = frames[u][k]
        /\ ~frames'[t][Len(frames[t]) + 1].overtaken
    BY <1>1, <1>2, PlainStarts
  <2>2. \A u \in Threads : \A k \in 1..Len(frames'[u]) :
          k \in 1..Len(frames[u]) \/ (u = t /\ k = Len(frames[t]) + 1)
    BY <1>1, <2>1, StartedFacts
  <2>. QED  BY <2>1, <2>2
<1>3. ASSUME NEW t \in Threads, NEW l \in Loggers, NEW ll \in Used,
             SetUrgency(t, l, ll)
      PROVE  Alone'
  <2>1. /\ Started(t)
        /\ frames'[t][Len(frames[t]) + 1] = NewCall(log_g, LL.NTFY, ll, l, TRUE)
    BY <1>1, <1>3, UrgencyStarts
  <2>2. frames[t] = <<>> /\ Len(frames[t]) = 0
    <3>1. frames[t] = <<>>
      BY <1>3 DEF SetUrgency, Calls
    <3>. QED  BY <3>1
  <2>3. \A u \in Threads : \A k \in 1..Len(frames'[u]) :
          u = t /\ k = Len(frames[t]) + 1
    BY <1>1, <2>1, <2>2, StartedFacts
  <2>4. ~frames'[t][Len(frames[t]) + 1].overtaken
    BY <2>1 DEF NewCall
  <2>5. store' # "raced"
    <3>1. \A u \in Threads : ~Announcing(u)
      BY <2>2 DEF Announcing
    <3>. QED  BY <1>3, <3>1 DEF SetUrgency
  <2>. QED  BY <2>3, <2>4, <2>5
<1>4. ASSUME NEW t \in Threads, Proceed(t) \/ Throw(t)  PROVE Alone'
  <2>1. store' = store /\ Busy(t)
    BY <1>4 DEF Proceed, Gate, Enter, Leave, Throw
  <2>2. \/ frames' = Returns(t)
        \/ \E place \in Places : frames' = Goes(t, place)
    BY <1>4 DEF Proceed, Gate, Enter, Leave, Throw, Places
  <2>3. Kept(t)
    BY <1>1, <2>1, <2>2, MovedKeeps, PoppedKeeps
  <2>. QED  BY <2>1, <2>3 DEF Kept
<1>5. ASSUME NEW t \in Threads, NEW l \in Loggers, NEW src \in Loggers,
             Assign(t, l, src)
      PROVE  Alone'
  <2>1. \A u \in Threads : Len(frames'[u]) = Len(frames[u])
    BY <1>1, <1>5, AssignMarks
  <2>2. \A u \in Threads : Len(frames[u]) = 0
    <3>1. frames[t] = <<>>
      BY <1>5 DEF Assign
    <3>. QED  BY <3>1
  <2>3. store' # "raced"
    BY <1>5 DEF Assign
  <2>. QED  BY <2>1, <2>2, <2>3
<1>. QED  BY <1>2, <1>3, <1>4, <1>5 DEF Next, PlainStart

(* In a program of one thread every message that is written is at or above *)
(* the level in force, and the last notice of log_g is true unless the     *)
(* level hides notices or an assignment has changed it since the last      *)
(* set_urgency, whatever handlers interrupt the calls.                     *)
THEOREM OneThread ==
  ASSUME \A t, u \in Threads : t = u
  PROVE  Spec => []OnTime
<1>1. Init => Alone
  BY DEF Init, Alone
<1>2. IInv /\ Alone /\ [Next]_vars => Alone'
  <2>1. (UNCHANGED vars) /\ Alone => Alone'
    BY DEF vars, Alone
  <2>. QED  BY <2>1, AloneHolds
<1>3. TypeOK /\ LateOnlyIfOvertaken /\ LastNoticeTells /\ Alone => OnTime
  <2>. SUFFICES ASSUME TypeOK, LateOnlyIfOvertaken, LastNoticeTells, Alone
                PROVE  OnTime
    OBVIOUS
  <2>1. ASSUME NEW t \in Threads, NEW k \in 1..Len(frames[t]),
               frames[t][k].at # "gate"
        PROVE  level[frames[t][k].of] <= frames[t][k].ll
    <3>1. frames[t][k] \in Call
      BY Elements
    <3>2. frames[t][k].ll \in 1..7 /\ level[frames[t][k].of] \in 1..7
      BY <3>1 DEF TypeOK, Call
    <3>3. ~(frames[t][k].ll < level[frames[t][k].of])
      BY <2>1 DEF LateOnlyIfOvertaken, Alone
    <3>. QED  BY <3>2, <3>3
  <2>. QED  BY <2>1 DEF OnTime, LastNoticeTells, Alone, TypeOK, Stores
<1>. QED  BY <1>1, <1>2, <1>3, Invariant, TypeCorrect, NoLateLines, NoticeTold,
             PTL DEF Spec

=============================================================================
