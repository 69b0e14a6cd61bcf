---------------------------- MODULE Mkdir_proof ----------------------------
(***************************************************************************)
(* Proofs about Mkdir for any set of calls and of faults: the inductive    *)
(* invariant, the properties of run Mkdir_calls, and that Mkdir            *)
(* implements MkdirPromise.                                                *)
(***************************************************************************)
EXTENDS Mkdir, TLAPS

(* Only a call that got past create has made anything, and what it made is *)
(* there until it takes it away itself.                                    *)
NobodyElseMade ==
  \A c \in Calls : maker = c =>
    /\ kind = "dir"
    /\ \/ pc[c] \in {"permissions", "remove"}
       \/ pc[c] = "done" /\ rc[c] \in {"SUCCESS", "FILE_RM_DIR_PERMS_ERRO"}

SuccessSetPerms ==
  \A c \in Calls :
    pc[c] = "done" /\ rc[c] = "SUCCESS" /\ maker = c => perms = "requested"

UsedIsDirectory == content = "used" => kind = "dir"

IInv ==
  /\ TypeOK
  /\ UsedIsDirectory
  /\ RollbackHitsOwn
  /\ NobodyElseMade
  /\ SuccessSetPerms

USE NobodyAssumption

-----------------------------------------------------------------------------
(* Every variable keeps its type.                                          *)
THEOREM TypeCorrect == Spec => []TypeOK
<1>1. Init => TypeOK
  BY DEF Init, TypeOK, NewEntry, entry, Places, Codes
<1>2. TypeOK /\ [Next]_vars => TypeOK'
  <2> SUFFICES ASSUME TypeOK, [Next]_vars PROVE TypeOK'
    OBVIOUS
  <2> USE DEF TypeOK, NewEntry, entry, Places, Codes, Goto, Return
  <2>1. ASSUME NEW c \in Calls, Step(c) PROVE TypeOK'
    BY <2>1 DEF Step, IsDirectory, Exists, Create, SetPermissions, Remove,
                Canonical
  <2>2. ASSUME NEW c \in Calls, UseDirectory(c) PROVE TypeOK'
    BY <2>2 DEF UseDirectory
  <2>3. CASE World
    BY <2>3 DEF World
  <2>4. CASE UNCHANGED vars
    BY <2>4 DEF vars
  <2> QED
    BY <2>1, <2>2, <2>3, <2>4 DEF Next
<1> QED
  BY <1>1, <1>2, PTL DEF Spec

-----------------------------------------------------------------------------
(* The inductive invariant: the directory of a call stays its own while    *)
(* the call works on it, because only its maker ever removes it.           *)
THEOREM Ownership == Spec => []IInv
<1>1. Init => IInv
  BY DEF Init, IInv, TypeOK, NewEntry, entry, Places, Codes, RollbackHitsOwn,
         NobodyElseMade, SuccessSetPerms, UsedIsDirectory
<1>2. IInv /\ TypeOK' /\ [Next]_vars => IInv'
  <2> SUFFICES ASSUME IInv, TypeOK', [Next]_vars PROVE IInv'
    OBVIOUS
  <2> USE DEF IInv, TypeOK, NewEntry, entry, Goto, Return, RollbackHitsOwn,
              NobodyElseMade, SuccessSetPerms, UsedIsDirectory
  <2>1. ASSUME NEW c \in Calls, IsDirectory(c) \/ Exists(c) \/ Canonical(c)
        PROVE IInv'
    BY <2>1 DEF IsDirectory, Exists, Canonical
  <2>2. ASSUME NEW c \in Calls, Create(c) PROVE IInv'
    BY <2>2 DEF Create
  <2>3. ASSUME NEW c \in Calls, SetPermissions(c) PROVE IInv'
    BY <2>3 DEF SetPermissions
  <2>4. ASSUME NEW c \in Calls, Remove(c) PROVE IInv'
    BY <2>4 DEF Remove, Removable
  <2>5. ASSUME NEW c \in Calls, UseDirectory(c) PROVE IInv'
    BY <2>5 DEF UseDirectory
  <2>6. CASE World
    BY <2>6 DEF World
  <2>7. CASE UNCHANGED vars
    BY <2>7 DEF vars
  <2> QED
    BY <2>1, <2>2, <2>3, <2>4, <2>5, <2>6, <2>7 DEF Next, Step
<1> QED
  BY <1>1, <1>2, TypeCorrect, PTL DEF Spec

(* A rollback only ever removes the directory its own call made.           *)
THEOREM RollbackOwn == Spec => []RollbackHitsOwn
  BY Ownership, PTL DEF IInv

(* A directory with the wrong permissions is in work or reported.          *)
THEOREM PermsReported == Spec => []WrongPermsReported
<1>1. IInv => WrongPermsReported
  BY DEF IInv, TypeOK, NobodyElseMade, SuccessSetPerms, WrongPermsReported
<1> QED
  BY <1>1, Ownership, PTL

(* No call removes or replaces a directory that somebody uses.             *)
THEOREM UsedIsKept == Spec => UsedStays
<1>1. IInv /\ [Next]_vars =>
        [content = "used" => UNCHANGED <<kind, maker, content>>]_vars
  BY DEF IInv, TypeOK, UsedIsDirectory, Next, Step, IsDirectory, Exists,
         Create, SetPermissions, Remove, Removable, Canonical, UseDirectory,
         World, Goto, Return, NewEntry, entry, vars
<1> QED
  BY <1>1, Ownership, PTL DEF Spec, UsedStays

-----------------------------------------------------------------------------
(* Every call returns: the part of CallsReturn that needs no fairness.     *)

(* How many file system calls are left at most.                            *)
Left == [is_directory |-> 5, exists |-> 4, create |-> 3, permissions |-> 2,
         canonical |-> 1, remove |-> 1, done |-> 0]

(* No race and no failure makes a call start again or wait: whatever the   *)
(* others do, each of its steps brings it closer to its return, so that it *)
(* makes at most five of them.                                             *)
Advances ==
  [][\A c \in Calls :
       \/ pc'[c] = pc[c] /\ rc'[c] = rc[c]
       \/ Left[pc'[c]] < Left[pc[c]]]_vars

THEOREM CallsAdvance == Spec => Advances
<1>1. TypeOK /\ [Next]_vars =>
        [\A c \in Calls : \/ pc'[c] = pc[c] /\ rc'[c] = rc[c]
                          \/ Left[pc'[c]] < Left[pc[c]]]_vars
  <2> SUFFICES ASSUME TypeOK, Next, NEW c \in Calls
               PROVE  \/ pc'[c] = pc[c] /\ rc'[c] = rc[c]
                      \/ Left[pc'[c]] < Left[pc[c]]
    OBVIOUS
  <2>1. ASSUME NEW d \in Calls, Step(d)
        PROVE  \/ pc'[c] = pc[c] /\ rc'[c] = rc[c]
               \/ Left[pc'[c]] < Left[pc[c]]
    BY <2>1 DEF TypeOK, Left, Step, IsDirectory, Exists, Create,
                SetPermissions, Remove, Canonical, Goto, Return
  <2>2. CASE World \/ \E d \in Calls : UseDirectory(d)
    BY <2>2 DEF World, UseDirectory
  <2> QED
    BY <2>1, <2>2 DEF Next
<1> QED
  BY <1>1, TypeCorrect, PTL DEF Spec, Advances

-----------------------------------------------------------------------------
(* Where the answers need no excuse.                                       *)

(* What a call has found out about the path stays true if no other makes   *)
(* directories there.                                                      *)
StillNoDirectory ==
  \A c \in Calls : pc[c] \in {"exists", "create", "canonical"} => kind # "dir"

(* A single call for a path, whatever files come and go there, reports an  *)
(* error of create_directory only if there is no directory, as the tests   *)
(* say: it is the race of two that run Mkdir_race shows.                   *)
THEOREM AloneCreateErrorTrue ==
  ASSUME \A c, d \in Calls : c = d, "status" \notin Faults
  PROVE  Spec => CreateErrorMeansNoDirectory
<1>1. Init => StillNoDirectory
  BY DEF Init, StillNoDirectory
<1>2. IInv /\ StillNoDirectory /\ [Next]_vars => StillNoDirectory'
  <2> SUFFICES ASSUME TypeOK, StillNoDirectory, [Next]_vars
               PROVE  StillNoDirectory'
    BY DEF IInv
  <2> USE DEF TypeOK, StillNoDirectory, NewEntry, entry, Goto, Return
  <2>1. ASSUME NEW c \in Calls, Step(c) \/ UseDirectory(c)
        PROVE  StillNoDirectory'
    BY <2>1 DEF Step, IsDirectory, Exists, Create, SetPermissions, Remove,
                Canonical, UseDirectory
  <2>2. CASE World
    BY <2>2 DEF World
  <2>3. CASE UNCHANGED vars
    BY <2>3 DEF vars
  <2> QED
    BY <2>1, <2>2, <2>3 DEF Next
<1>3. IInv /\ StillNoDirectory /\ [Next]_vars =>
        [\A c \in Calls : rc[c] = "NONE" /\ rc'[c] = "FILE_MKDIR_GENERIC_ERRO"
           => kind # "dir"]_vars
  BY DEF IInv, TypeOK, StillNoDirectory, Next, Step, IsDirectory, Exists,
         Create, SetPermissions, Remove, Canonical, UseDirectory, World, Goto,
         Return, NewEntry, entry, vars
<1> QED
  BY <1>1, <1>2, <1>3, Ownership, PTL DEF Spec, CreateErrorMeansNoDirectory

(* A directory that was there before is found by every call: mkdir of it   *)
(* answers SUCCESS however many ask, and leaves it alone.                  *)
AllFound ==
  /\ kind = "dir" /\ maker = Nobody
  /\ \A c \in Calls : \/ pc[c] = "is_directory"
                      \/ pc[c] = "done" /\ rc[c] = "SUCCESS"

THEOREM ExistingFound ==
  ASSUME "status" \notin Faults
  PROVE  Spec /\ kind = "dir" => []AllFound
<1>1. Init /\ kind = "dir" => AllFound
  BY DEF Init, AllFound
<1>2. TypeOK /\ AllFound /\ [Next]_vars => AllFound'
  BY DEF TypeOK, AllFound, Next, Step, IsDirectory, Exists, Create,
         SetPermissions, Remove, Canonical, UseDirectory, World, Goto, Return,
         NewEntry, entry, vars
<1> QED
  BY <1>1, <1>2, TypeCorrect, PTL DEF Spec

-----------------------------------------------------------------------------
(* Mkdir implements MkdirPromise.                                          *)
THEOREM Refinement == Spec => KeepsPromise
<1>1. Init => Promise!Init
  BY DEF Init, Promise!Init, NewEntry, entry, Verdict
<1>2. IInv /\ TypeOK' /\ [Next]_vars => [Promise!Next]_(Promise!vars)
  <2> SUFFICES ASSUME IInv, TypeOK', [Next]_vars
               PROVE  [Promise!Next]_(Promise!vars)
    OBVIOUS
  <2> DEFINE verdict == [c \in Calls |-> Verdict(c)]
  <2>1. ASSUME NEW c \in Calls, NEW place \in Places, Goto(c, place),
               pc[c] # "done", place # "done"
        PROVE  verdict' = verdict
    BY <2>1 DEF Goto, IInv, TypeOK, Verdict
  <2>2. ASSUME NEW c \in Calls, NEW code \in Codes, Return(c, code),
               pc[c] # "done"
        PROVE  /\ verdict[c] = "pending"
               /\ verdict' = [verdict EXCEPT ![c] =
                    IF code = "SUCCESS" THEN "success"
                    ELSE IF code = "FILE_RM_DIR_PERMS_ERRO" THEN "left"
                    ELSE "failure"]
    BY <2>2 DEF Return, IInv, TypeOK, Verdict
  <2>3. (UNCHANGED <<pc, rc>>) => verdict' = verdict
    BY DEF Verdict
  <2>4. (UNCHANGED <<kind, maker>>) /\ verdict' = verdict
          => UNCHANGED Promise!vars
    BY DEF Promise!vars
  <2> HIDE DEF verdict
  <2> USE DEF Places, Codes, entry
  <2>5. ASSUME NEW c \in Calls, IsDirectory(c)
        PROVE  [Promise!Next]_(Promise!vars)
    <3>1. CASE kind = "dir" /\ Return(c, "SUCCESS")
      <4>1. Promise!Succeed(c)
        BY <2>2, <2>5, <3>1 DEF IsDirectory, Promise!Succeed, Promise!Answer,
                                verdict
      <4> QED
        BY <4>1 DEF Promise!Next
    <3>2. CASE Goto(c, "exists")
      BY <2>1, <2>4, <2>5, <3>2 DEF IsDirectory
    <3> QED
      BY <2>5, <3>1, <3>2 DEF IsDirectory
  <2>6. ASSUME NEW c \in Calls, Exists(c)
        PROVE  [Promise!Next]_(Promise!vars)
    BY <2>1, <2>4, <2>6 DEF Exists
  <2>7. ASSUME NEW c \in Calls, Canonical(c)
        PROVE  [Promise!Next]_(Promise!vars)
    <3>1. maker # c
      BY <2>7 DEF IInv, NobodyElseMade, Canonical
    <3>2. Promise!Refuse(c)
      BY <2>2, <2>7, <3>1 DEF Canonical, Promise!Refuse, Promise!Answer,
                              verdict
    <3> QED
      BY <3>2 DEF Promise!Next
  <2>8. ASSUME NEW c \in Calls, Create(c)
        PROVE  [Promise!Next]_(Promise!vars)
    <3>1. CASE kind = "none" /\ NewEntry("dir", c) /\ Goto(c, "permissions")
      <4>1. verdict' = verdict /\ verdict[c] = "pending"
        BY <2>1, <2>8, <3>1 DEF Create, verdict, Verdict
      <4>2. Promise!Make(c)
        BY <3>1, <4>1 DEF Promise!Make, NewEntry, verdict
      <4> QED
        BY <4>2 DEF Promise!Next
    <3>2. CASE Return(c, "FILE_MKDIR_GENERIC_ERRO") /\ UNCHANGED entry
      <4>1. maker # c
        BY <2>8 DEF IInv, NobodyElseMade, Create
      <4>2. Promise!Refuse(c)
        BY <2>2, <2>8, <3>2, <4>1 DEF Create, Promise!Refuse, Promise!Answer,
                                      verdict
      <4> QED
        BY <4>2 DEF Promise!Next
    <3> QED
      BY <2>8, <3>1, <3>2 DEF Create
  <2>9. ASSUME NEW c \in Calls, SetPermissions(c)
        PROVE  [Promise!Next]_(Promise!vars)
    <3>1. CASE Return(c, "SUCCESS") /\ UNCHANGED <<kind, maker>>
      <4>1. kind = "dir"
        BY <2>9 DEF IInv, RollbackHitsOwn, SetPermissions
      <4>2. Promise!Succeed(c)
        BY <2>2, <2>9, <3>1, <4>1 DEF SetPermissions, Promise!Succeed,
                                      Promise!Answer, verdict
      <4> QED
        BY <4>2 DEF Promise!Next
    <3>2. CASE Goto(c, "remove") /\ UNCHANGED entry
      BY <2>1, <2>4, <2>9, <3>2 DEF SetPermissions
    <3> QED
      BY <2>9, <3>1, <3>2 DEF SetPermissions
  <2>10. ASSUME NEW c \in Calls, Remove(c)
         PROVE  [Promise!Next]_(Promise!vars)
    <3>1. maker = c
      BY <2>10 DEF IInv, RollbackHitsOwn, Remove
    <3>2. CASE /\ NewEntry("none", Nobody)
               /\ Return(c, "FILE_RM_DIR_EMPTY_SUCCESS")
      <4>1. Promise!Undo(c)
        BY <2>2, <2>10, <3>1, <3>2 DEF Remove, NewEntry, Promise!Undo,
                                       Promise!Answer, verdict
      <4> QED
        BY <4>1 DEF Promise!Next
    <3>3. CASE Return(c, "FILE_RM_DIR_PERMS_ERRO") /\ UNCHANGED entry
      <4>1. Promise!AdmitLeft(c)
        BY <2>2, <2>10, <3>1, <3>3 DEF Remove, Promise!AdmitLeft,
                                       Promise!Answer, verdict
      <4> QED
        BY <4>1 DEF Promise!Next
    <3> QED
      BY <2>10, <3>2, <3>3 DEF Remove
  <2>11. ASSUME NEW c \in Calls, UseDirectory(c)
         PROVE  [Promise!Next]_(Promise!vars)
    BY <2>3, <2>4, <2>11 DEF UseDirectory
  <2>12. CASE World
    <3>1. Promise!World
      BY <2>3, <2>12 DEF IInv, TypeOK, NobodyElseMade, World, NewEntry,
                         Promise!World, verdict
    <3> QED
      BY <3>1 DEF Promise!Next
  <2>13. CASE UNCHANGED vars
    BY <2>3, <2>4, <2>13 DEF vars
  <2> QED
    BY <2>5, <2>6, <2>7, <2>8, <2>9, <2>10, <2>11, <2>12, <2>13 DEF Next, Step
<1> QED
  BY <1>1, <1>2, TypeCorrect, Ownership, PTL DEF Spec, KeepsPromise

=============================================================================
