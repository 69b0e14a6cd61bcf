--------------------------- MODULE FileHeap_proof ---------------------------
(***************************************************************************)
(* Proofs about FileHeap for any set of objects and of blocks: the         *)
(* properties of run FileHeap_ownership hold of every behaviour of Spec.      *)
(***************************************************************************)
EXTENDS FileHeap, TLAPS

(* No two objects hold one block, and no object holds a deleted one,       *)
(* unless a constructor has copied its pointer.                            *)
SoleOwnerUnlessAliased ==
  \A o, p \in Objs :
    o # p /\ ptr[o] # Null /\ ptr[o] = ptr[p] => ptr[o] \in aliased

DanglingOnlyAliased ==
  \A o \in Objs :
    ptr[o] # Null /\ heap[ptr[o]] = "deleted" => ptr[o] \in aliased

(* new[] never returns a block that is held.                               *)
HeldNotFresh == \A o \in Objs : ptr[o] # Null => heap[ptr[o]] # "fresh"

(* Storage without an object holds no block: a constructor loses nothing.  *)
RawHoldsNothing == \A o \in Objs : life[o] = "raw" => ptr[o] = Null

DestroyedHasFailed ==
  \A o \in Objs : life[o] = "destroyed" => o \in failed

IInv ==
  /\ TypeOK
  /\ SoleOwnerUnlessAliased
  /\ DanglingOnlyAliased
  /\ HeldNotFresh
  /\ RawHoldsNothing
  /\ DestroyedHasFailed
  /\ FreedOnceUnlessAliased
  /\ LeakOnlyOverwritten
  /\ WholeUnlessAllocFailed
  /\ NullOnlyIfTold
  /\ AllocVerdict

-----------------------------------------------------------------------------
USE NullAssumption

(* Every variable keeps its type.                                          *)
THEOREM TypeCorrect == Spec => []TypeOK
<1>1. Init => TypeOK
  BY DEF Init, TypeOK, NoFault, Fault, Lives, BlockStates, Verdicts,
         FaultKinds, Members
<1>2. TypeOK /\ [Next]_vars => TypeOK'
  <2> SUFFICES ASSUME TypeOK, [Next]_vars PROVE TypeOK'
    OBVIOUS
  <2> USE DEF TypeOK, NoFault, Fault, Lives, BlockStates, Verdicts,
              FaultKinds, Members, Entered, Unused, HandlerCodes
  <2>1. ASSUME NEW o \in Objs, Construct(o) PROVE TypeOK'
    BY <2>1 DEF Construct
  <2>2. ASSUME NEW o \in Objs, NEW p \in Objs, CopyConstruct(o, p)
        PROVE TypeOK'
    BY <2>2 DEF CopyConstruct, Copied
  <2>3. ASSUME NEW o \in Objs, ScopeEnd(o) PROVE TypeOK'
    BY <2>3 DEF ScopeEnd, Destructor, CleanHeap
  <2>4. ASSUME NEW o \in Objs, NEW m \in Members, AllocBad(o, m)
        PROVE TypeOK'
    BY <2>4 DEF AllocBad, DestroySelf, Destructor, CleanHeap
  <2>5. ASSUME NEW o \in Objs, NEW b \in Blocks, AllocOk(o, b)
        PROVE TypeOK'
    BY <2>5 DEF AllocOk, Overwrite
  <2>6. ASSUME NEW o \in Objs, NEW b \in Blocks, NEW m \in Members,
               AllocThrows(o, b, m)
        PROVE TypeOK'
    BY <2>6 DEF AllocThrows, Overwrite, DestroySelf, Destructor, CleanHeap
  <2>7. ASSUME NEW o \in Objs, NEW b \in Blocks, AllocAndReadOk(o, b)
        PROVE TypeOK'
    BY <2>7 DEF AllocAndReadOk, Overwrite
  <2>8. ASSUME NEW o \in Objs, NEW p \in Objs,
               \/ Read(o) \/ Write(o) \/ PrintBlock(o) \/ UsePath(o)
               \/ Terminate(o) \/ Compare(o, p) \/ Memcmp(o, p)
        PROVE TypeOK'
    BY <2>8 DEF Read, Write, PrintBlock, UsePath, Terminate, Compare, Memcmp,
                Dereference, OnlyFault
  <2>9. CASE UNCHANGED vars
    BY <2>9 DEF vars
  <2> QED
    BY <2>1, <2>2, <2>3, <2>4, <2>5, <2>6, <2>7, <2>8, <2>9
       DEF Next, Step, Alloc, AllocAndRead, AllocAndReadFails
<1> QED
  BY <1>1, <1>2, PTL DEF Spec


-----------------------------------------------------------------------------
(* A constructor: storage that holds nothing becomes an object that holds  *)
(* nothing, or the block of its source, which is then aliased.             *)
LEMMA ConstructorsKeepIInv ==
  ASSUME IInv, TypeOK', NEW o \in Objs, NEW p \in Objs,
         Construct(o) \/ CopyConstruct(o, p)
  PROVE  IInv'
<1> USE DEF IInv, TypeOK, Unused, Entered, Running, NoFault, Fault,
            SoleOwnerUnlessAliased, DanglingOnlyAliased, HeldNotFresh,
            RawHoldsNothing, DestroyedHasFailed, HandlerCodes
<1>1. CASE Construct(o)
  <2> USE <1>1 DEF Construct
  <2>1. SoleOwnerUnlessAliased' /\ DanglingOnlyAliased' /\ HeldNotFresh'
        /\ RawHoldsNothing' /\ DestroyedHasFailed'
    OBVIOUS
  <2>2. LeakOnlyOverwritten'
    BY DEF LeakOnlyOverwritten, Owned
  <2>3. FreedOnceUnlessAliased' /\ WholeUnlessAllocFailed'
        /\ NullOnlyIfTold'
    BY DEF FreedOnceUnlessAliased, WholeUnlessAllocFailed,
           NullOnlyIfTold
  <2>4. AllocVerdict'
    BY DEF AllocVerdict, Usable
  <2> QED
    BY <2>1, <2>2, <2>3, <2>4
<1>2. CASE CopyConstruct(o, p)
  <2> USE <1>2 DEF CopyConstruct, Copied
  <2>1. SoleOwnerUnlessAliased' /\ DanglingOnlyAliased' /\ HeldNotFresh'
        /\ RawHoldsNothing' /\ DestroyedHasFailed'
    OBVIOUS
  <2>2. LeakOnlyOverwritten'
    BY DEF LeakOnlyOverwritten, Owned
  <2>3. FreedOnceUnlessAliased' /\ WholeUnlessAllocFailed'
        /\ NullOnlyIfTold'
    BY DEF FreedOnceUnlessAliased, WholeUnlessAllocFailed,
           NullOnlyIfTold
  <2>4. AllocVerdict'
    BY DEF AllocVerdict, Usable
  <2> QED
    BY <2>1, <2>2, <2>3, <2>4
<1> QED
  BY <1>1, <1>2

-----------------------------------------------------------------------------
(* The destructor, at the end of a scope or called by the handler of a     *)
(* failed new[]: the only allocated block that loses an owner is deleted,  *)
(* and the pointer to it is null afterwards.                               *)
LEMMA DestructorsKeepIInv ==
  ASSUME IInv, TypeOK', NEW o \in Objs, NEW m \in Members,
         ScopeEnd(o) \/ AllocBad(o, m)
  PROVE  IInv'
<1> USE DEF IInv, TypeOK, Entered, Running, NoFault, Fault, Destructor,
            CleanHeap, ScopeEnd, AllocBad, DestroySelf, HandlerCodes
<1>1. SoleOwnerUnlessAliased'
  BY DEF SoleOwnerUnlessAliased
<1>2. DanglingOnlyAliased' /\ HeldNotFresh'
  BY DEF DanglingOnlyAliased, HeldNotFresh, SoleOwnerUnlessAliased
<1>3. RawHoldsNothing' /\ DestroyedHasFailed'
  BY DEF RawHoldsNothing, DestroyedHasFailed
<1>4. LeakOnlyOverwritten'
  BY DEF LeakOnlyOverwritten, Owned
<1>5. FreedOnceUnlessAliased' /\ WholeUnlessAllocFailed'
      /\ NullOnlyIfTold'
  BY DEF FreedOnceUnlessAliased, WholeUnlessAllocFailed,
         NullOnlyIfTold, DanglingOnlyAliased, DestroyedHasFailed
<1>6. AllocVerdict'
  BY DEF AllocVerdict, Usable, SoleOwnerUnlessAliased, HeldNotFresh
<1> QED
  BY <1>1, <1>2, <1>3, <1>4, <1>5, <1>6

(* A new block goes to one object, and the block that object held before   *)
(* is recorded as overwritten.                                             *)
LEMMA AllocationsKeepIInv ==
  ASSUME IInv, TypeOK', NEW o \in Objs, NEW b \in Blocks, NEW m \in Members,
         AllocOk(o, b) \/ AllocAndReadOk(o, b) \/ AllocThrows(o, b, m)
  PROVE  IInv'
<1>1. CASE AllocOk(o, b) \/ AllocAndReadOk(o, b)
  <2> USE <1>1 DEF IInv, TypeOK, Entered, Running, NoFault, Fault, AllocOk,
                   AllocAndReadOk, Overwrite, HandlerCodes
  <2>1. SoleOwnerUnlessAliased' /\ DanglingOnlyAliased' /\ HeldNotFresh'
    BY DEF SoleOwnerUnlessAliased, DanglingOnlyAliased, HeldNotFresh
  <2>2. RawHoldsNothing' /\ DestroyedHasFailed'
    BY DEF RawHoldsNothing, DestroyedHasFailed
  <2>3. LeakOnlyOverwritten'
    BY DEF LeakOnlyOverwritten, Owned
  <2>4. FreedOnceUnlessAliased' /\ WholeUnlessAllocFailed'
        /\ NullOnlyIfTold'
    BY DEF FreedOnceUnlessAliased, WholeUnlessAllocFailed,
           NullOnlyIfTold, DestroyedHasFailed
  <2>5. AllocVerdict'
    BY DEF AllocVerdict, Usable, Lives
  <2> QED
    BY <2>1, <2>2, <2>3, <2>4, <2>5
<1>2. CASE AllocThrows(o, b, m)
  <2> USE <1>2 DEF IInv, TypeOK, Entered, Running, NoFault, Fault, AllocThrows,
                   DestroySelf, Destructor, CleanHeap, Overwrite, HandlerCodes
  <2>1. SoleOwnerUnlessAliased' /\ DanglingOnlyAliased' /\ HeldNotFresh'
    BY DEF SoleOwnerUnlessAliased, DanglingOnlyAliased, HeldNotFresh
  <2>2. RawHoldsNothing' /\ DestroyedHasFailed'
    BY DEF RawHoldsNothing, DestroyedHasFailed
  <2>3. LeakOnlyOverwritten'
    BY DEF LeakOnlyOverwritten, Owned
  <2>4. FreedOnceUnlessAliased' /\ WholeUnlessAllocFailed'
        /\ NullOnlyIfTold'
    BY DEF FreedOnceUnlessAliased, WholeUnlessAllocFailed,
           NullOnlyIfTold, DestroyedHasFailed
  <2>5. AllocVerdict'
    BY DEF AllocVerdict, Usable, HeldNotFresh
  <2> QED
    BY <2>1, <2>2, <2>3, <2>4, <2>5
<1> QED
  BY <1>1, <1>2

(* The members that only use the block change nothing but fault.           *)
LEMMA UsesKeepIInv ==
  ASSUME IInv, TypeOK', NEW o \in Objs, NEW p \in Objs,
         \/ Read(o) \/ Write(o) \/ PrintBlock(o) \/ UsePath(o)
         \/ Terminate(o) \/ Compare(o, p) \/ Memcmp(o, p)
  PROVE  IInv'
<1> USE DEF IInv, TypeOK, Entered, Running, NoFault, Fault, OnlyFault
<1>1. OnlyFault
  BY DEF Read, Write, PrintBlock, UsePath, Terminate, Compare, Memcmp
<1>2. /\ SoleOwnerUnlessAliased' /\ DanglingOnlyAliased' /\ HeldNotFresh'
      /\ RawHoldsNothing' /\ DestroyedHasFailed' /\ LeakOnlyOverwritten'
      /\ AllocVerdict'
  BY <1>1 DEF SoleOwnerUnlessAliased, DanglingOnlyAliased, HeldNotFresh,
              RawHoldsNothing, DestroyedHasFailed, LeakOnlyOverwritten, Owned,
              AllocVerdict, Usable
<1>3. FreedOnceUnlessAliased' /\ WholeUnlessAllocFailed'
      /\ NullOnlyIfTold'
  BY <1>1 DEF FreedOnceUnlessAliased, WholeUnlessAllocFailed,
              NullOnlyIfTold, AllocVerdict, Usable, Verdicts, HandlerCodes,
              DanglingOnlyAliased, DestroyedHasFailed, Read, Write, PrintBlock, UsePath, Terminate,
              Compare, Memcmp, Dereference
<1> QED
  BY <1>2, <1>3

-----------------------------------------------------------------------------
(* The inductive invariant.                                                *)
THEOREM Ownership == Spec => []IInv
<1>1. Init => IInv
  BY DEF Init, IInv, TypeOK, SoleOwnerUnlessAliased, DanglingOnlyAliased,
         HeldNotFresh, RawHoldsNothing, DestroyedHasFailed,
         FreedOnceUnlessAliased, LeakOnlyOverwritten, WholeUnlessAllocFailed,
         NullOnlyIfTold, AllocVerdict, Usable, NoFault, Fault, Lives,
         BlockStates, Verdicts, FaultKinds, Members, HandlerCodes
<1>2. IInv /\ TypeOK' /\ [Next]_vars => IInv'
  <2> SUFFICES ASSUME IInv, TypeOK', [Next]_vars PROVE IInv'
    OBVIOUS
  <2>1. ASSUME NEW o \in Objs, Step(o) PROVE IInv'
    <3>1. "alloc" \in Members /\ "alloc_and_read" \in Members
          /\ "dtor" \in Members
      BY DEF Members
    <3> QED
      BY <2>1, <3>1, ConstructorsKeepIInv, DestructorsKeepIInv,
         AllocationsKeepIInv, UsesKeepIInv
         DEF Step, Alloc, AllocAndRead, AllocAndReadFails
  <2>2. CASE UNCHANGED vars
    BY <2>2 DEF vars, IInv, TypeOK, SoleOwnerUnlessAliased,
         DanglingOnlyAliased, HeldNotFresh, RawHoldsNothing,
         DestroyedHasFailed, FreedOnceUnlessAliased, LeakOnlyOverwritten,
         Owned, WholeUnlessAllocFailed, NullOnlyIfTold,
         AllocVerdict, Usable
  <2> QED
    BY <2>1, <2>2 DEF Next
<1> QED
  BY <1>1, <1>2, TypeCorrect, PTL DEF Spec

(* The block of a File is deleted once and never used afterwards, for any  *)
(* number of objects and any order of calls, unless a constructor copied   *)
(* the pointer.                                                            *)
THEOREM FreedOnce == Spec => []FreedOnceUnlessAliased
  BY Ownership, PTL DEF IInv

(* Only alloc on an object that holds a block leaks.                       *)
THEOREM LeakFree == Spec => []LeakOnlyOverwritten
  BY Ownership, PTL DEF IInv

(* Only an object that reported a failed allocation has a path that is     *)
(* destroyed twice or used after its destruction.                          *)
THEOREM Whole == Spec => []WholeUnlessAllocFailed
  BY Ownership, PTL DEF IInv

(* A null block is met only by a client that never called alloc or was     *)
(* told that it failed.                                                    *)
THEOREM NullTold == Spec => []NullOnlyIfTold
  BY Ownership, PTL DEF IInv

(* The return codes of alloc and alloc_and_read, with the null test for    *)
(* CRIT_EX_UNHANDLED, tell what is held and whether the object is whole.   *)
THEOREM VerdictHonest == Spec => []AllocVerdict
  BY Ownership, PTL DEF IInv

=============================================================================
