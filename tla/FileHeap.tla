------------------------------ MODULE FileHeap ------------------------------
(***************************************************************************)
(* Lifetime of file::File objects and ownership of their m_block           *)
(* (src/src/wndx/sane/file.cpp, src/include/wndx/sane/file.hpp).           *)
(*                                                                         *)
(* A File owns its heap block through a raw pointer.  The module keeps     *)
(* what decides whether that ownership is sound: the lifetime of each      *)
(* object, its pointer, and the state of every block ever allocated (a     *)
(* block is the identity of one new[], an address reused by malloc is a    *)
(* new block).  Bytes, sizes, paths and the disk are in FileTransfer.      *)
(* Clients may call the public members of an object in any order.  The     *)
(* first undefined behaviour, and std::terminate, end the run: "fault"     *)
(* says what it was, where, and in which member.                           *)
(***************************************************************************)
EXTENDS Naturals, FiniteSets

CONSTANTS
  Objs,    \* storage for File objects: each holds one File after another
  Blocks,  \* the blocks that new[] can return, each once
  Null     \* the null pointer

ASSUME NullAssumption == Null \notin Objs \cup Blocks

VARIABLES
  life,        \* "raw" storage, a "live" object, or one whose destructor was
               \* called explicitly inside alloc while its scope goes on
  ptr,         \* m_block
  heap,        \* state of each block
  rc,          \* verdict of the last alloc or alloc_and_read of the object
  fault,       \* the event that ended the run
  aliased,     \* history: blocks whose pointer a constructor has copied
  overwritten, \* history: blocks whose pointer alloc has overwritten
  failed       \* history: objects in which a handler has called ~File()

vars == <<life, ptr, heap, rc, fault, aliased, overwritten, failed>>

Lives == {"raw", "live", "destroyed"}
BlockStates == {"fresh", "allocated", "deleted"}
Verdicts == {"NONE", "SUCCESS", "MEMORY_BAD_ALLOC", "CRIT_EX_UNHANDLED",
             "READ_ERRO"}
FaultKinds == {"none", "terminated", "double_delete", "use_after_delete",
               "null_access", "path_destroyed_twice", "path_used_destroyed"}
Members == {"none", "ctor", "alloc", "alloc_and_read", "read", "write",
            "print", "path", "compare", "memcmp", "dtor"}

Fault(kind, at, member) == [kind |-> kind, at |-> at, member |-> member]
NoFault == Fault("none", Null, "none")
Running == fault = NoFault

(* What the handlers of alloc and alloc_and_read return after they have    *)
(* called File::~File().  read returns the second one too, from a handler  *)
(* of its own that leaves the object whole.                                *)
HandlerCodes == {"MEMORY_BAD_ALLOC", "CRIT_EX_UNHANDLED"}

TypeOK ==
  /\ life \in [Objs -> Lives]
  /\ ptr \in [Objs -> Blocks \cup {Null}]
  /\ heap \in [Blocks -> BlockStates]
  /\ rc \in [Objs -> Verdicts]
  /\ fault \in [kind: FaultKinds, at: Objs \cup Blocks \cup {Null},
                member: Members]
  /\ aliased \subseteq Blocks
  /\ overwritten \subseteq Blocks
  /\ failed \subseteq Objs

Init ==
  /\ life = [o \in Objs |-> "raw"]
  /\ ptr = [o \in Objs |-> Null]
  /\ heap = [b \in Blocks |-> "fresh"]
  /\ rc = [o \in Objs |-> "NONE"]
  /\ fault = NoFault
  /\ aliased = {}
  /\ overwritten = {}
  /\ failed = {}

-----------------------------------------------------------------------------
(* The guards of every member: the run goes on, and storage holds no File  *)
(* yet, or one whose scope has not ended.                                  *)
Unused(o) == Running /\ life[o] = "raw"
Entered(o) == Running /\ life[o] # "raw"

(* Mutant: m_block without an initializer holds no pointer at all.         *)
ConstructIndeterminate(o) ==
  /\ Unused(o)
  /\ life' = [life EXCEPT ![o] = "live"]
  /\ ptr' = [ptr EXCEPT ![o] = o]
  /\ UNCHANGED <<heap, rc, fault, aliased, overwritten, failed>>

(* Both constructors: m_block starts as nullptr.                           *)
Construct(o) ==
  /\ Unused(o)
  /\ life' = [life EXCEPT ![o] = "live"]
  /\ rc' = [rc EXCEPT ![o] = "NONE"]
  /\ failed' = failed \ {o}
  /\ UNCHANGED <<ptr, heap, fault, aliased, overwritten>>

(* The defaulted copy and move constructors: memberwise, so the pointer is *)
(* copied and the source, moved from or not, keeps it.                     *)
Copied(p) == IF p = Null THEN aliased ELSE aliased \cup {p}

CopyConstruct(dst, src) ==
  /\ Unused(dst) /\ Entered(src)
  /\ IF life[src] = "destroyed"
       THEN /\ fault' = Fault("path_used_destroyed", src, "ctor")
            /\ UNCHANGED <<life, ptr, rc, aliased, failed>>
       ELSE /\ life' = [life EXCEPT ![dst] = "live"]
            /\ ptr' = [ptr EXCEPT ![dst] = ptr[src]]
            /\ rc' = [rc EXCEPT ![dst] = "NONE"]
            /\ aliased' = Copied(ptr[src])
            /\ failed' = failed \ {dst}
            /\ UNCHANGED fault
  /\ UNCHANGED <<heap, overwritten>>

-----------------------------------------------------------------------------
(* Mutants: clean_heap without the assignment; without the delete[].       *)
CleanHeapKeepsPointer(o, p, h) ==
  /\ heap' = IF p = Null THEN h ELSE [h EXCEPT ![p] = "deleted"]
  /\ UNCHANGED ptr

CleanHeapOnlyNulls(o, p, h) ==
  /\ heap' = h
  /\ ptr' = [ptr EXCEPT ![o] = Null]

(* clean_heap: delete[] m_block, then m_block = nullptr.                   *)
CleanHeap(o, p, h) ==
  /\ heap' = IF p = Null THEN h ELSE [h EXCEPT ![p] = "deleted"]
  /\ ptr' = [ptr EXCEPT ![o] = Null]

(* The destructor of an object whose m_block is p when the heap is h, run  *)
(* by the end of the scope or by an explicit call: clean_heap, then the    *)
(* members, of which only m_fpath has something to destroy.                *)
Destructor(o, p, h, member) ==
  /\ CleanHeap(o, p, h)
  /\ fault' = IF p # Null /\ h[p] = "deleted"
                THEN Fault("double_delete", p, member)
              ELSE IF life[o] = "destroyed"
                THEN Fault("path_destroyed_twice", o, member)
              ELSE fault

ScopeEnd(o) ==
  /\ Entered(o)
  /\ Destructor(o, ptr[o], heap, "dtor")
  /\ life' = [life EXCEPT ![o] = "raw"]
  /\ UNCHANGED <<rc, aliased, overwritten, failed>>

-----------------------------------------------------------------------------
(* m_block = new char[]: the pointer held before is not looked at.         *)
Overwrite(o) == IF ptr[o] = Null THEN overwritten
                                 ELSE overwritten \cup {ptr[o]}

AllocOk(o, b) ==
  /\ Entered(o)
  /\ heap[b] = "fresh"
  /\ heap' = [heap EXCEPT ![b] = "allocated"]
  /\ ptr' = [ptr EXCEPT ![o] = b]
  /\ rc' = [rc EXCEPT ![o] = "SUCCESS"]
  /\ overwritten' = Overwrite(o)
  /\ UNCHANGED <<life, fault, aliased, failed>>

(* An exception handler of alloc or alloc_and_read: File::~File() on an    *)
(* object whose m_block is p when the heap is h, then the return code.     *)
DestroySelf(o, p, h, verdict, member) ==
  /\ Destructor(o, p, h, member)
  /\ life' = [life EXCEPT ![o] = "destroyed"]
  /\ rc' = [rc EXCEPT ![o] = verdict]
  /\ failed' = IF verdict \in HandlerCodes THEN failed \cup {o} ELSE failed
  /\ UNCHANGED aliased

(* Mutant: the handler has no return, so alloc goes on to its last line.   *)
AllocBadFallsThrough(o, member) ==
  /\ Entered(o)
  /\ DestroySelf(o, ptr[o], heap, "SUCCESS", member)
  /\ UNCHANGED overwritten

(* new[] throws std::bad_alloc: m_block still is the old pointer.          *)
AllocBad(o, member) ==
  /\ Entered(o)
  /\ DestroySelf(o, ptr[o], heap, "MEMORY_BAD_ALLOC", member)
  /\ UNCHANGED overwritten

(* new[] succeeds and the WNDX_LOG after it throws, in alloc or, once the  *)
(* read is over, in alloc_and_read.                                        *)
AllocThrows(o, b, member) ==
  /\ Entered(o)
  /\ heap[b] = "fresh"
  /\ overwritten' = Overwrite(o)
  /\ \E verdict \in HandlerCodes :
       DestroySelf(o, b, [heap EXCEPT ![b] = "allocated"], verdict, member)

Alloc(o) ==
  \/ \E b \in Blocks : AllocOk(o, b) \/ AllocThrows(o, b, "alloc")
  \/ AllocBad(o, "alloc")

(* Mutant: a failed read destroys the object too.                          *)
AllocAndReadDestroys(o, b) ==
  /\ Entered(o)
  /\ heap[b] = "fresh"
  /\ overwritten' = Overwrite(o)
  /\ DestroySelf(o, b, [heap EXCEPT ![b] = "allocated"], "READ_ERRO",
                 "alloc_and_read")

(* alloc, then read through m_fpath into the new block.  A failed alloc    *)
(* returns at once, a failed read keeps the block; so does one whose last  *)
(* WNDX_LOG throws, which read catches itself, and alloc_and_read passes   *)
(* its CRIT_EX_UNHANDLED on.                                               *)
AllocAndReadOk(o, b) ==
  /\ Entered(o)
  /\ heap[b] = "fresh"
  /\ heap' = [heap EXCEPT ![b] = "allocated"]
  /\ ptr' = [ptr EXCEPT ![o] = b]
  /\ overwritten' = Overwrite(o)
  /\ IF life[o] = "destroyed"
       THEN /\ fault' = Fault("path_used_destroyed", o, "alloc_and_read")
            /\ rc' = [rc EXCEPT ![o] = "SUCCESS"]
       ELSE /\ \E verdict \in {"SUCCESS", "READ_ERRO", "CRIT_EX_UNHANDLED"} :
                 rc' = [rc EXCEPT ![o] = verdict]
            /\ UNCHANGED fault
  /\ UNCHANGED <<life, aliased, failed>>

AllocAndReadFails(o) == AllocBad(o, "alloc_and_read")

AllocAndRead(o) ==
  \/ \E b \in Blocks : \/ AllocAndReadOk(o, b)
                       \/ AllocThrows(o, b, "alloc_and_read")
  \/ AllocAndReadFails(o)

-----------------------------------------------------------------------------
(* What happens when a member dereferences the block at p on behalf of o.  *)
Dereference(o, p, member) ==
  fault' = IF p = Null THEN Fault("null_access", o, member)
           ELSE IF heap[p] = "deleted"
             THEN Fault("use_after_delete", p, member)
           ELSE fault

OnlyFault ==
  UNCHANGED <<life, ptr, heap, rc, aliased, overwritten, failed>>

(* read: no check of m_block; is_r and the open may fail before it is      *)
(* used, and both use m_fpath.                                             *)
Read(o) ==
  /\ Entered(o)
  /\ \/ /\ life[o] = "destroyed"
        /\ fault' = Fault("path_used_destroyed", o, "read")
     \/ /\ life[o] = "live"
        /\ Dereference(o, ptr[o], "read")
     \/ /\ life[o] = "live"
        /\ UNCHANGED fault
  /\ OnlyFault

(* write, copy_to and move_to check m_block for null, then use m_fpath,    *)
(* then the block.                                                         *)
Write(o) ==
  /\ Entered(o)
  /\ ptr[o] # Null
  /\ IF life[o] = "destroyed"
       THEN fault' = Fault("path_used_destroyed", o, "write")
       ELSE Dereference(o, ptr[o], "write")
  /\ OnlyFault

PrintBlock(o) ==
  /\ Entered(o)
  /\ ptr[o] # Null
  /\ Dereference(o, ptr[o], "print")
  /\ OnlyFault

(* path(), to_finfo, the formatter, and the first line of move_to, which   *)
(* copies m_fpath before copy_to looks at m_block.                         *)
UsePath(o) ==
  /\ Entered(o)
  /\ life[o] = "destroyed"
  /\ fault' = Fault("path_used_destroyed", o, "path")
  /\ OnlyFault

(* operator== and the operators built on it: compares two blocks only if   *)
(* both are there (and the sizes agree, which FileOrder models).           *)
Compare(o, p) ==
  /\ Entered(o) /\ Entered(p)
  /\ ptr[o] # Null /\ ptr[p] # Null
  /\ \/ Dereference(o, ptr[o], "compare")
     \/ Dereference(p, ptr[p], "compare")
  /\ OnlyFault

(* The member memcmp, called with the other object's memory().             *)
Memcmp(o, p) ==
  /\ Entered(o) /\ Entered(p)
  /\ \/ Dereference(o, ptr[o], "memcmp")
     \/ Dereference(p, ptr[p], "memcmp")
  /\ OnlyFault

(* A WNDX_LOG that throws outside a try block or in a handler: the members *)
(* are noexcept, so std::terminate.                                        *)
Terminate(o) ==
  /\ Entered(o)
  /\ fault' = Fault("terminated", o, "none")
  /\ OnlyFault

Step(o) ==
  \/ Construct(o)
  \/ ScopeEnd(o)
  \/ Alloc(o)
  \/ AllocAndRead(o)
  \/ Read(o)
  \/ Write(o)
  \/ PrintBlock(o)
  \/ UsePath(o)
  \/ Terminate(o)
  \/ \E p \in Objs : CopyConstruct(o, p) \/ Compare(o, p) \/ Memcmp(o, p)

Next == \E o \in Objs : Step(o)

(* Automatic storage: a scope that was entered is left, whatever the other *)
(* objects do.  Nothing else is promised by a client.                      *)
Fairness == \A o \in Objs : WF_vars(ScopeEnd(o))

Spec == Init /\ [][Next]_vars /\ Fairness

-----------------------------------------------------------------------------
(* Properties.                                                             *)

(* A block is deleted twice, or used after its deletion, only if one of    *)
(* the defaulted constructors had copied its pointer into another File:    *)
(* without copies every member, in every order and through every exception *)
(* handler, leaves m_block null or valid.                                  *)
FreedOnceUnlessAliased ==
  fault.kind \in {"double_delete", "use_after_delete"} => fault.at \in aliased

(* A block nobody can delete any more was lost in one way only: alloc was  *)
(* called on an object that still held it.  Destructors, retries and the   *)
(* exception handlers of alloc and alloc_and_read lose nothing.            *)
Owned(b) == \E o \in Objs : ptr[o] = b

LeakOnlyOverwritten ==
  \A b \in Blocks : heap[b] = "allocated" /\ ~Owned(b) => b \in overwritten

(* m_fpath is destroyed twice, or used after its destruction, only in an   *)
(* object in which a handler of alloc or alloc_and_read has run, which its *)
(* code told the client; a failed read or write leaves the object whole,   *)
(* also if read fails by its own exception.                                *)
WholeUnlessAllocFailed ==
  fault.kind \in {"path_destroyed_twice", "path_used_destroyed"}
    => fault.at \in failed

(* A client meets a null block only in an object that it never gave one,   *)
(* or in one whose last alloc or alloc_and_read answered with the code of  *)
(* a handler and destroyed the object: who calls read, write or memcmp     *)
(* after SUCCESS or after a failed read finds a block.                     *)
NullOnlyIfTold ==
  fault.kind = "null_access" =>
    \/ rc[fault.at] = "NONE"
    \/ rc[fault.at] \in HandlerCodes /\ life[fault.at] = "destroyed"

(* What an object holds after alloc or alloc_and_read: after SUCCESS, or   *)
(* when only the read failed, a block it may use (unless an alias of it    *)
(* was destroyed); after MEMORY_BAD_ALLOC it is destroyed and holds        *)
(* nothing.  CRIT_EX_UNHANDLED is ambiguous (read caught a throw and the   *)
(* object is whole, or a handler destroyed it); whether memory() is null   *)
(* tells the two apart.                                                    *)
Usable(o) ==
  ptr[o] # Null /\ (heap[ptr[o]] = "allocated" \/ ptr[o] \in aliased)

AllocVerdict ==
  \A o \in Objs : life[o] # "raw" =>
    /\ rc[o] \in {"SUCCESS", "READ_ERRO"} => Usable(o)
    /\ rc[o] = "MEMORY_BAD_ALLOC" => ptr[o] = Null /\ life[o] = "destroyed"
    /\ rc[o] = "CRIT_EX_UNHANDLED" =>
         IF ptr[o] = Null THEN life[o] = "destroyed"
                          ELSE life[o] = "live" /\ Usable(o)

(* As scopes end, every block is deleted in the end, if no alloc overwrote *)
(* its pointer and nothing ended the run before.                           *)
EventuallyDeleted ==
  \A b \in Blocks :
    heap[b] = "allocated"
      ~> (heap[b] = "deleted" \/ b \in overwritten \/ ~Running)

(* What the comments of the class promise without a condition.             *)

(* delete[] is called once on a block: "proper using of the raw pointers". *)
NoDoubleDelete == fault.kind # "double_delete"

=============================================================================
