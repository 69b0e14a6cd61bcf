---------------------- MODULE FileTransferAlone_proof ----------------------
(***************************************************************************)
(* Proofs about FileTransfer for one object on a disk where opens and      *)
(* writes work, made with the size of its file: the case of a program that *)
(* has its files to itself.  SuccessMeansInSync and KeepsAPlace name what  *)
(* may separate block and file; here it is proved which of that is left.   *)
(* What keeps the rest away is that the file at the object's path has the  *)
(* length of its block whenever no write is at work, whatever sequence of  *)
(* members led there.                                                      *)
(***************************************************************************)
EXTENDS FileTransfer_proof

Alone ==
  /\ \A f, g \in Files : f = g
  /\ ~AnySize /\ Faults \cap {"open", "io"} = {}

(* The file at the path is as long as the block, or being written.         *)
Measured(f) ==
  /\ obj[f].pc \notin {"open_w", "flush"} /\ IsFile(obj[f].path) =>
       Len(data[dir[obj[f].path]]) = obj[f].size
  /\ obj[f].pc = "flush" =>
       dir[obj[f].path] = obj[f].fd /\ Len(data[obj[f].fd]) = obj[f].at
  /\ obj[f].pc = "read" =>
       dir[obj[f].path] = obj[f].fd /\ obj[f].at = Len(data[obj[f].fd])

(* The reasons that are left for block and file to differ, and what each   *)
(* says of the last call.                                                  *)
Excusable(f) ==
  /\ hist[f] \subseteq {"open", "remove", "self", "edited"}
  /\ "self" \in hist[f] =>
       /\ obj[f].pc \in Writing \cup {"idle"}
       /\ obj[f].op = "move_to" /\ obj[f].old = obj[f].path
  /\ "open" \in hist[f] =>
       /\ obj[f].pc \in {"close", "remove", "idle"}
       /\ dir[obj[f].path] = Special \/ "self" \in hist[f]
  /\ f \in carry => "edited" \notin hist[f]

AloneInv ==
  /\ overrun = {}
  /\ \A f \in Files : Measured(f) /\ Excusable(f)

(* One object on a disk where opens and writes work, made with the size of *)
(* its file: a SUCCESS of read, write, copy_to or move_to is true until    *)
(* the client edits the block, except of a write to a directory and of a   *)
(* move onto the path itself.                                              *)
TrueWhenAlone ==
  \A f \in Files :
    /\ obj[f].pc = "idle" /\ obj[f].op \in Transfers /\ obj[f].rc = "SUCCESS"
    /\ "edited" \notin hist[f]
    => \/ At(obj[f].path) = obj[f].block
       \/ dir[obj[f].path] = Special
       \/ obj[f].op = "move_to" /\ obj[f].old = obj[f].path

(* A file that copy_to or move_to of such an object started from is lost   *)
(* only by a move to a directory.                                          *)
LostOnlyToDirectory ==
  \A f \in carry :
    dir[obj[f].path] # Special =>
      obj[f].block \in {At(obj[f].old), At(obj[f].path)}

(* No read of such an object leaves the block, also after a failed remove, *)
(* an exception or a move onto the path itself.                            *)
NoOverrunAlone == overrun = {}

USE NothingAssumption

-----------------------------------------------------------------------------
(* What the steps share.                                                   *)

LEMMA AloneObject ==
  ASSUME IInv, AloneInv, NEW f \in Files
  PROVE  /\ TypeOK /\ obj[f] \in Objects /\ Measured(f) /\ Excusable(f)
         /\ Control(f) /\ Source(f)
<1>1. TypeOK /\ Sound(f) /\ Measured(f) /\ Excusable(f)
  BY DEF IInv, AloneInv
<1>2. obj[f] \in Objects
  BY <1>1, ObjectType
<1> QED
  BY <1>1, <1>2 DEF Sound

(* A step that leaves the disk, the path and the size alone, and reaches a *)
(* place between system calls that do not open a file.                     *)
LEMMA StaysMeasured ==
  ASSUME NEW f \in Files, Measured(f),
         obj[f].pc \notin {"open_w", "flush"}, UNCHANGED disk,
         obj'[f].path = obj[f].path, obj'[f].size = obj[f].size,
         obj'[f].pc \notin {"flush", "read"}
  PROVE  Measured(f)'
BY DEF Measured, IsFile, disk

LEMMA NowhereMeasured ==
  ASSUME NEW f \in Files, obj'[f].path = NoFile,
         obj'[f].pc \in {"raw", "dead"}
  PROVE  Measured(f)'
BY DEF Measured, IsFile

LEMMA NoExcuse ==
  ASSUME NEW f \in Files, hist'[f] = {}
  PROVE  Excusable(f)'
BY DEF Excusable

LEMMA DeadFields ==
  ASSUME NEW op, NEW code
  PROVE  /\ Dead(op, code).pc = "dead" /\ Dead(op, code).path = NoFile
BY DEF Dead, Raw

-----------------------------------------------------------------------------
(* The steps of a client.                                                  *)

LEMMA AloneConstruct ==
  ASSUME Alone, IInv, AloneInv, NEW f \in Files, NEW p \in Paths,
         NEW n \in Sizes, Construct(f, p, n)
  PROVE  overrun' = {} /\ Measured(f)' /\ Excusable(f)'
<1>1. /\ obj'[f] = [Raw EXCEPT !.pc = "idle", !.path = p, !.size = n]
      /\ obj[f].pc = "raw"
      /\ IsFile(p) => n = Len(data[dir[p]])
      /\ UNCHANGED <<disk, hist, carry>> /\ overrun' = {}
  BY AloneObject DEF Construct, Runs, Become, Alone, TypeOK
<1>2. /\ obj'[f].pc = "idle" /\ obj'[f].path = p /\ obj'[f].size = n
  BY <1>1 DEF Raw
<1>3. Measured(f)'
  BY <1>1, <1>2 DEF Measured, IsFile, disk
<1>4. /\ hist'[f] = hist[f] /\ carry' = carry
      /\ hist[f] \cap {"self", "open"} = {}
  BY <1>1, AloneObject DEF Excusable, Writing
<1>5. Excusable(f)'
  BY <1>4, AloneObject DEF Excusable
<1> QED
  BY <1>1, <1>3, <1>5

LEMMA AloneScopeEnd ==
  ASSUME Alone, IInv, AloneInv, NEW f \in Files, ScopeEnd(f)
  PROVE  overrun' = {} /\ Measured(f)' /\ Excusable(f)'
<1>1. obj'[f] = Raw /\ hist'[f] = {} /\ overrun' = {}
  BY AloneObject DEF ScopeEnd, Runs, Become, TypeOK, AloneInv
<1> QED
  BY <1>1, NowhereMeasured, NoExcuse DEF Raw

LEMMA AloneAllocated ==
  ASSUME Alone, IInv, AloneInv, NEW f \in Files, NEW op, NEW place, Idle(f),
         place \in {"idle", "is_r"}, Allocated(f, op, place), Fresh(f),
         UNCHANGED <<disk, overrun>>
  PROVE  overrun' = {} /\ Measured(f)' /\ Excusable(f)'
<1>1. /\ hist'[f] = {} /\ overrun' = {} /\ obj[f].pc = "idle"
      /\ UNCHANGED disk
  BY AloneObject, FreshFrame DEF AloneInv, Idle, Runs
<1>2. \/ /\ obj'[f].pc = place
         /\ obj'[f].path = obj[f].path /\ obj'[f].size = obj[f].size
      \/ obj'[f].pc = "dead" /\ obj'[f].path = NoFile
  <2>1. CASE Become(f, [obj[f] EXCEPT !.pc = place, !.op = op,
                          !.rc = "SUCCESS", !.block = Zeros(obj[f].size),
                          !.old = NoFile])
    BY <2>1, AloneObject DEF Become, TypeOK, Objects
  <2>2. CASE \E code : Become(f, Dead(op, code))
    BY <2>2, AloneObject, DeadFields DEF Become, TypeOK
  <2> QED
    BY <2>1, <2>2 DEF Allocated
<1>3. Measured(f)'
  BY <1>1, <1>2, AloneObject, StaysMeasured, NowhereMeasured
<1> QED
  BY <1>1, <1>3, NoExcuse

LEMMA AloneFill ==
  ASSUME Alone, IInv, AloneInv, NEW f \in Files, Fill(f)
  PROVE  overrun' = {} /\ Measured(f)' /\ Excusable(f)'
<1>1. /\ obj[f].pc = "idle" /\ UNCHANGED <<disk, overrun>> /\ overrun = {}
      /\ hist'[f] = hist[f] \cup {"edited"} /\ f \notin carry'
  BY AloneObject DEF Fill, Idle, Runs, Excused, TypeOK
<1>2. /\ obj'[f].pc = "idle" /\ obj'[f].path = obj[f].path
      /\ obj'[f].size = obj[f].size /\ obj'[f].op = obj[f].op
      /\ obj'[f].old = obj[f].old
  BY <1>1, AloneObject DEF Fill, Become, TypeOK, Objects
<1>3. Measured(f)'
  BY <1>1, <1>2, AloneObject, StaysMeasured
<1>4. Excusable(f)'
  BY <1>1, <1>2, AloneObject DEF Excusable, disk
<1> QED
  BY <1>1, <1>3, <1>4

LEMMA AloneStartRead ==
  ASSUME Alone, IInv, AloneInv, NEW f \in Files, StartRead(f)
  PROVE  overrun' = {} /\ Measured(f)' /\ Excusable(f)'
<1>1. Idle(f) /\ Fresh(f) /\ UNCHANGED <<disk, overrun>>
  BY DEF StartRead
<1>2. CASE Allocated(f, "alloc_and_read", "is_r")
  BY <1>1, <1>2, AloneAllocated
<1>3. CASE Become(f, [obj[f] EXCEPT !.pc = "is_r", !.op = "read",
                                    !.old = NoFile])
  <2>1. /\ obj'[f].pc = "is_r" /\ obj'[f].path = obj[f].path
        /\ obj'[f].size = obj[f].size
    BY <1>3, AloneObject DEF Become, TypeOK, Objects
  <2>2. hist'[f] = {} /\ overrun' = {} /\ obj[f].pc = "idle"
    BY <1>1, AloneObject, FreshFrame DEF AloneInv, Idle, Runs
  <2> QED
    BY <1>1, <2>1, <2>2, AloneObject, StaysMeasured, NoExcuse DEF Idle, Runs
<1> QED
  BY <1>2, <1>3 DEF StartRead

LEMMA AloneStartWrite ==
  ASSUME Alone, IInv, AloneInv, NEW f \in Files,
         NEW op \in {"write", "copy_to", "move_to"}, NEW dst \in Paths,
         StartWrite(f, op, dst)
  PROVE  overrun' = {} /\ Measured(f)' /\ Excusable(f)'
<1>1. /\ obj[f].pc = "idle" /\ UNCHANGED <<disk, overrun>> /\ overrun' = {}
  BY DEF StartWrite, Idle, Runs, AloneInv
<1>2. CASE /\ Become(f, [Return(f, "MEMORY_BLOCK_EMPTY") EXCEPT !.op = op])
           /\ Fresh(f)
  <2>1. /\ obj'[f].pc = "idle" /\ obj'[f].path = obj[f].path
        /\ obj'[f].size = obj[f].size
    BY <1>2, AloneObject DEF Become, Return, TypeOK, Objects
  <2>2. hist'[f] = {}
    BY <1>2, AloneObject, FreshFrame
  <2> QED
    BY <1>1, <2>1, <2>2, AloneObject, StaysMeasured, NoExcuse
<1>3. CASE /\ Become(f, [obj[f] EXCEPT !.pc = "open_w", !.op = op,
                                       !.old = obj[f].path, !.path = dst])
           /\ hist' = [hist EXCEPT ![f] =
                IF op = "move_to" /\ dst = obj[f].path THEN {"self"} ELSE {}]
  <2>1. /\ obj'[f].pc = "open_w" /\ obj'[f].path = dst /\ obj'[f].op = op
        /\ obj'[f].old = obj[f].path
    BY <1>3, AloneObject DEF Become, TypeOK, Objects
  <2>2. Measured(f)'
    BY <2>1 DEF Measured
  <2>3. hist'[f] = IF op = "move_to" /\ dst = obj[f].path THEN {"self"}
                                                           ELSE {}
    BY <1>3, AloneObject DEF TypeOK
  <2>4. Excusable(f)'
    BY <2>1, <2>3 DEF Excusable, Writing
  <2> QED
    BY <1>1, <2>2, <2>4
<1> QED
  BY <1>2, <1>3 DEF StartWrite

-----------------------------------------------------------------------------
(* The steps of a read.                                                    *)

(* A read that ends leaves the object as it was or destroyed.              *)
LEMMA AloneEndError ==
  ASSUME Alone, IInv, AloneInv, NEW f \in Files, NEW code \in Codes,
         Runs(f, "is_r") \/ Runs(f, "open_r"),
         EndRead(f, Return(f, code)), UNCHANGED <<disk, history, overrun>>
  PROVE  overrun' = {} /\ Measured(f)' /\ Excusable(f)'
<1>1. /\ obj[f].pc \in {"is_r", "open_r"} /\ overrun' = {}
      /\ hist' = hist /\ carry' = carry
  BY DEF Runs, AloneInv, history
<1>2. \/ /\ obj'[f].pc = "idle"
         /\ obj'[f].path = obj[f].path /\ obj'[f].size = obj[f].size
      \/ obj'[f].pc = "dead" /\ obj'[f].path = NoFile
  <2>1. CASE Become(f, Return(f, code))
    BY <2>1, AloneObject DEF Become, Return, TypeOK, Objects
  <2>2. CASE Become(f, Dead("alloc_and_read", "CRIT_EX_UNHANDLED"))
    BY <2>2, AloneObject, DeadFields DEF Become, TypeOK
  <2> QED
    BY <2>1, <2>2 DEF EndRead
<1>3. Measured(f)'
  BY <1>1, <1>2, AloneObject, StaysMeasured, NowhereMeasured
<1>4. Excusable(f)'
  BY <1>1, AloneObject DEF Excusable, Writing
<1> QED
  BY <1>1, <1>3, <1>4

LEMMA AloneIsR ==
  ASSUME Alone, IInv, AloneInv, NEW f \in Files, IsR(f)
  PROVE  overrun' = {} /\ Measured(f)' /\ Excusable(f)'
<1>1. Runs(f, "is_r") /\ UNCHANGED <<disk, history, overrun>>
  BY DEF IsR
<1>2. CASE \E code \in Codes : EndRead(f, Return(f, code))
  BY <1>1, <1>2, AloneEndError
<1>3. CASE Become(f, [obj[f] EXCEPT !.pc = "open_r"])
  <2>1. /\ obj'[f].pc = "open_r" /\ obj'[f].path = obj[f].path
        /\ obj'[f].size = obj[f].size
    BY <1>3, AloneObject DEF Become, TypeOK, Objects
  <2>2. /\ obj[f].pc = "is_r" /\ overrun' = {}
        /\ hist' = hist /\ carry' = carry
    BY <1>1 DEF Runs, AloneInv, history
  <2>3. Measured(f)'
    BY <1>1, <2>1, <2>2, AloneObject, StaysMeasured
  <2>4. Excusable(f)'
    BY <2>2, AloneObject DEF Excusable, Writing
  <2> QED
    BY <2>2, <2>3, <2>4
<1> QED
  BY <1>2, <1>3 DEF IsR, Codes

LEMMA AloneOpenR ==
  ASSUME Alone, IInv, AloneInv, NEW f \in Files, OpenR(f)
  PROVE  overrun' = {} /\ Measured(f)' /\ Excusable(f)'
<1>1. Runs(f, "open_r") /\ UNCHANGED <<disk, history, overrun>>
  BY DEF OpenR
<1>2. CASE EndRead(f, Return(f, "FS_CTOR_ERRO"))
  BY <1>1, <1>2, AloneEndError DEF Codes
<1>3. CASE /\ IsFile(obj[f].path)
           /\ Become(f, [obj[f] EXCEPT !.pc = "read",
                                       !.fd = dir[obj[f].path],
                                       !.at = Len(data[dir[obj[f].path]])])
  <2>1. /\ obj'[f].pc = "read" /\ obj'[f].path = obj[f].path
        /\ obj'[f].size = obj[f].size /\ obj'[f].fd = dir[obj[f].path]
        /\ obj'[f].at = Len(data[dir[obj[f].path]])
    BY <1>3, AloneObject DEF Become, TypeOK, Objects
  <2>2. /\ obj[f].pc = "open_r" /\ overrun' = {}
        /\ hist' = hist /\ carry' = carry
    BY <1>1 DEF Runs, AloneInv, history
  <2>3. Measured(f)'
    BY <1>1, <2>1, <2>2, AloneObject DEF Measured, IsFile, disk
  <2>4. Excusable(f)'
    BY <2>2, AloneObject DEF Excusable, Writing
  <2> QED
    BY <2>2, <2>3, <2>4
<1> QED
  BY <1>2, <1>3 DEF OpenR

(* A read finds exactly as many bytes as the block has.                    *)
LEMMA AloneReadBlock ==
  ASSUME Alone, IInv, AloneInv, NEW f \in Files, ReadBlock(f)
  PROVE  overrun' = {} /\ Measured(f)' /\ Excusable(f)'
<1> DEFINE file == data[obj[f].fd]
           all == Smaller(obj[f].at, Len(file))
           size == obj[f].size
<1>1. /\ obj[f].pc = "read" /\ UNCHANGED <<dir, carry, unfit>>
      /\ data' = Collected(dir, obj', data)
  BY DEF ReadBlock, Runs
<1>2. PICK n \in 0..all, code \in {"SUCCESS", "CRIT_EX_UNHANDLED"} :
        /\ n < all => "io" \in Faults
        /\ \E b : EndRead(f, [Return(f, code) EXCEPT !.fd = NoFile,
                                                     !.block = b])
        /\ overrun' = IF n > size THEN {f} ELSE {}
        /\ hist' = [hist EXCEPT ![f] =
             @ \cup (IF n < all THEN {"io"} ELSE {})
               \cup (IF n # size THEN {"misfit"} ELSE {})]
  BY DEF ReadBlock
<1>3. /\ dir[obj[f].path] = obj[f].fd /\ obj[f].path \in Paths
      /\ obj[f].fd \in Inodes /\ obj[f].at = Len(file)
  BY <1>1, AloneObject, ObjectType DEF Measured, Control
<1>4. Len(file) = size /\ size \in Nat
  BY <1>1, <1>3, AloneObject DEF Measured, IsFile, Objects
<1>5. n = size
  <2>1. all = size
    BY <1>3, <1>4 DEF Smaller
  <2> QED
    BY <1>2, <1>4, <2>1 DEF Alone
<1>6. overrun' = {} /\ hist'[f] = hist[f]
  <2>1. ~(n > size) /\ ~(n < all)
    BY <1>3, <1>4, <1>5 DEF Smaller
  <2> QED
    BY <1>2, <1>5, <2>1, AloneObject DEF TypeOK
<1>7. \/ /\ obj'[f].pc = "idle"
         /\ obj'[f].path = obj[f].path /\ obj'[f].size = size
      \/ obj'[f].pc = "dead" /\ obj'[f].path = NoFile
  <2>1. PICK b : EndRead(f, [Return(f, code) EXCEPT !.fd = NoFile,
                                                    !.block = b])
    BY <1>2
  <2>2. CASE Become(f, [Return(f, code) EXCEPT !.fd = NoFile,
                                               !.block = b])
    BY <2>2, AloneObject DEF Become, Return, TypeOK, Objects
  <2>3. CASE Become(f, Dead("alloc_and_read", "CRIT_EX_UNHANDLED"))
    BY <2>3, AloneObject, DeadFields DEF Become, TypeOK
  <2> QED
    BY <2>1, <2>2, <2>3 DEF EndRead
<1>8. data'[obj[f].fd] = file
  BY <1>1, <1>3, CollectedKeeps DEF Used
<1>9. Measured(f)'
  BY <1>1, <1>3, <1>4, <1>7, <1>8 DEF Measured, IsFile
<1>10. Excusable(f)'
  BY <1>1, <1>6, AloneObject DEF Excusable, Writing
<1> QED
  BY <1>6, <1>9, <1>10

-----------------------------------------------------------------------------
(* The steps of a write.                                                   *)

LEMMA AloneOpenW ==
  ASSUME Alone, IInv, AloneInv, NEW f \in Files, OpenW(f)
  PROVE  overrun' = {} /\ Measured(f)' /\ Excusable(f)'
<1>1. /\ obj[f].pc = "open_w" /\ obj[f].pc \in Writing
      /\ overrun' = {} /\ carry' = carry
  BY DEF OpenW, Runs, Writing, AloneInv
<1>2. obj[f].path \in Paths
  BY <1>1, AloneObject DEF Control
<1>3. CASE /\ dir[obj[f].path] = Special
           /\ Become(f, [obj[f] EXCEPT !.pc = "close"])
           /\ Excused(f, "open") /\ UNCHANGED disk
  <2>1. /\ obj'[f].pc = "close" /\ obj'[f].path = obj[f].path
        /\ obj'[f].op = obj[f].op /\ obj'[f].old = obj[f].old
        /\ hist'[f] = hist[f] \cup {"open"}
    BY <1>3, AloneObject DEF Become, Excused, TypeOK, Objects
  <2>2. Measured(f)'
    BY <1>3, <2>1 DEF Measured, IsFile, disk
  <2>3. Excusable(f)'
    BY <1>1, <1>3, <2>1, AloneObject DEF Excusable, Writing, disk
  <2> QED
    BY <1>1, <2>2, <2>3
<1>4. ASSUME NEW i \in Inodes,
             dir' = [dir EXCEPT ![obj[f].path] = i],
             data' = [data EXCEPT ![i] = <<>>],
             Become(f, [obj[f] EXCEPT !.pc = "flush", !.fd = i, !.at = 0]),
             Touched(f, {obj[f].path}, i)
      PROVE  overrun' = {} /\ Measured(f)' /\ Excusable(f)'
  <2>1. /\ obj'[f].pc = "flush" /\ obj'[f].path = obj[f].path
        /\ obj'[f].op = obj[f].op /\ obj'[f].old = obj[f].old
        /\ obj'[f].fd = i /\ obj'[f].at = 0
    BY <1>4, AloneObject DEF Become, TypeOK, Objects
  <2>2. dir'[obj[f].path] = i /\ Len(data'[i]) = 0
    BY <1>2, <1>4, AloneObject DEF TypeOK
  <2>3. hist'[f] = hist[f]
    BY <1>4, AloneObject, TouchedFrame
  <2>4. Measured(f)'
    BY <2>1, <2>2 DEF Measured
  <2>5. Excusable(f)'
    BY <1>1, <2>1, <2>3, AloneObject DEF Excusable, Writing
  <2> QED
    BY <1>1, <2>4, <2>5
<1> QED
  BY <1>3, <1>4 DEF OpenW, Alone, Truncated

LEMMA AloneFlush ==
  ASSUME Alone, IInv, AloneInv, NEW f \in Files, Flush(f)
  PROVE  overrun' = {} /\ Measured(f)' /\ Excusable(f)'
<1> DEFINE at == obj[f].at
           size == obj[f].size
           block == obj[f].block
           i == obj[f].fd
<1>1. /\ obj[f].pc = "flush" /\ obj[f].pc \in Writing
      /\ overrun' = {} /\ dir' = dir /\ carry' = carry
  BY DEF Flush, Runs, Writing, AloneInv
<1>2. /\ dir[obj[f].path] = i /\ Len(data[i]) = at
      /\ at \in Nat /\ size \in Nat /\ i \in Inodes
      /\ data[i] \in Seq(Bytes) /\ block \in Seq(Bytes) /\ Len(block) = size
  <2>1. dir[obj[f].path] = i /\ Len(data[i]) = at
    BY <1>1, AloneObject DEF Measured
  <2>2. at \in Nat /\ size \in Nat /\ i \in Inodes
    BY <1>1, AloneObject, ObjectType DEF Control
  <2>3. block \in Seq(Bytes) /\ Len(block) = size
    BY <1>1, AloneObject, ObjectType DEF Control
  <2> QED
    BY <2>1, <2>2, <2>3, AloneObject DEF TypeOK
<1>3. CASE /\ at = size /\ Become(f, [obj[f] EXCEPT !.pc = "close"])
           /\ UNCHANGED <<data, hist>>
  <2>1. /\ obj'[f].pc = "close" /\ obj'[f].path = obj[f].path
        /\ obj'[f].size = size
        /\ obj'[f].op = obj[f].op /\ obj'[f].old = obj[f].old
    BY <1>3, AloneObject DEF Become, TypeOK, Objects
  <2>2. Measured(f)'
    BY <1>1, <1>2, <1>3, <2>1 DEF Measured
  <2>3. Excusable(f)'
    BY <1>1, <1>3, <2>1, AloneObject DEF Excusable, Writing
  <2> QED
    BY <1>1, <2>2, <2>3
<1>4. ASSUME NEW n \in 1..(size - at),
             data' = [data EXCEPT ![i] =
               Overlay(@, at, SubSeq(block, at + 1, at + n))],
             Become(f, [obj[f] EXCEPT !.at = at + n]), Touched(f, {}, i)
      PROVE  overrun' = {} /\ Measured(f)' /\ Excusable(f)'
  <2>1. /\ obj'[f].pc = "flush" /\ obj'[f].path = obj[f].path
        /\ obj'[f].fd = i /\ obj'[f].at = at + n
        /\ obj'[f].op = obj[f].op /\ obj'[f].old = obj[f].old
    BY <1>1, <1>4, AloneObject DEF Become, TypeOK, Objects
  <2>2. Len(data'[i]) = at + n
    <3> DEFINE piece == SubSeq(block, at + 1, at + n)
    <3>1. /\ n \in Nat /\ at \in Nat /\ at + n <= Len(block)
          /\ block \in Seq(Bytes)
      BY <1>2
    <3>2. piece \in Seq(Bytes) /\ Len(piece) = n
      BY <3>1, PieceLen
    <3>3. data'[i] = Overlay(data[i], at, piece)
      BY <1>2, <1>4, AloneObject DEF TypeOK
    <3> HIDE DEF piece
    <3>4. Len(Overlay(data[i], at, piece)) =
            IF at + Len(piece) > Len(data[i]) THEN at + Len(piece)
                                              ELSE Len(data[i])
      BY <1>2, <3>2, OverlayLen
    <3> QED
      BY <1>2, <3>1, <3>2, <3>3, <3>4
  <2>3. hist'[f] = hist[f]
    BY <1>4, AloneObject, TouchedFrame
  <2>4. Measured(f)'
    BY <1>1, <1>2, <2>1, <2>2 DEF Measured
  <2>5. Excusable(f)'
    BY <1>1, <2>1, <2>3, AloneObject DEF Excusable, Writing
  <2> QED
    BY <1>1, <2>4, <2>5
<1> QED
  BY <1>3, <1>4 DEF Flush, LoopEnd, Alone

LEMMA AloneClose ==
  ASSUME Alone, IInv, AloneInv, NEW f \in Files, Close(f)
  PROVE  overrun' = {} /\ Measured(f)' /\ Excusable(f)'
<1>1. /\ obj[f].pc = "close" /\ obj[f].pc \in Writing /\ overrun' = {}
      /\ dir' = dir /\ hist' = hist /\ carry' = carry
      /\ data' = Collected(dir, obj', data)
  BY DEF Close, Runs, Writing, AloneInv, history
<1>2. PICK code :
        Become(f, [Return(f, code) EXCEPT
                     !.fd = NoFile, !.pc = AfterWrite(obj[f].op, code)])
  BY DEF Close
<1>3. /\ obj'[f].pc \in {"remove", "idle"}
      /\ obj'[f].path = obj[f].path /\ obj'[f].size = obj[f].size
      /\ obj'[f].op = obj[f].op /\ obj'[f].old = obj[f].old
  <2>1. AfterWrite(obj[f].op, code) \in {"remove", "idle"}
    BY DEF AfterWrite
  <2> QED
    BY <1>2, <2>1, AloneObject DEF Become, Return, TypeOK, Objects
<1>4. IsFile(obj[f].path) =>
        data'[dir[obj[f].path]] = data[dir[obj[f].path]]
  BY <1>1, CollectedKeeps DEF Used, IsFile
<1>5. Measured(f)'
  BY <1>1, <1>3, <1>4, AloneObject DEF Measured, IsFile
<1>6. Excusable(f)'
  BY <1>1, <1>3, AloneObject DEF Excusable, Writing
<1> QED
  BY <1>1, <1>5, <1>6

LEMMA AloneRemove ==
  ASSUME Alone, IInv, AloneInv, NEW f \in Files, Remove(f)
  PROVE  overrun' = {} /\ Measured(f)' /\ Excusable(f)'
<1> DEFINE p == obj[f].old
<1>1. /\ obj[f].pc = "remove" /\ obj[f].pc \in Writing
      /\ overrun' = {} /\ carry' = carry
  BY DEF Remove, Runs, Writing, AloneInv
<1>2. /\ obj'[f].pc = "idle" /\ obj'[f].path = obj[f].path
      /\ obj'[f].size = obj[f].size
      /\ obj'[f].op = obj[f].op /\ obj'[f].old = p
  BY AloneObject DEF Remove, Become, TypeOK, Objects
<1>3. /\ obj[f].path \in Paths /\ p \in Paths
      /\ obj[f].op = "move_to"
      /\ obj[f].path = p => "self" \in hist[f]
  BY <1>1, AloneObject DEF Control
<1>4. CASE /\ dir' = [dir EXCEPT ![p] = NoFile]
           /\ data' = Collected(dir', obj', data)
           /\ Touched(f, {p}, dir[p])
  <2>1. dir'[p] = NoFile /\ \A q \in Paths \ {p} : dir'[q] = dir[q]
    BY <1>3, <1>4, AloneObject DEF TypeOK
  <2>2. hist'[f] = hist[f]
    BY <1>4, AloneObject, TouchedFrame
  <2>3. dir'[obj[f].path] \in Inodes =>
          /\ obj[f].path # p
          /\ data'[dir[obj[f].path]] = data[dir[obj[f].path]]
    <3> SUFFICES ASSUME dir'[obj[f].path] \in Inodes
                 PROVE  /\ obj[f].path # p
                        /\ data'[dir[obj[f].path]] = data[dir[obj[f].path]]
      OBVIOUS
    <3>1. obj[f].path # p
      BY <2>1
    <3>2. dir[obj[f].path] \in Inodes \cap Used(dir', obj')
      BY <1>3, <2>1, <3>1 DEF Used
    <3>3. \A i \in Inodes \cap Used(dir', obj') : data'[i] = data[i]
      BY <1>4, CollectedKeeps
    <3> QED
      BY <3>1, <3>2, <3>3
  <2>4. Measured(f)'
    BY <1>1, <1>2, <1>3, <2>1, <2>3, AloneObject DEF Measured, IsFile
  <2>5. Excusable(f)'
    BY <1>1, <1>2, <1>3, <2>1, <2>2, AloneObject DEF Excusable, Writing
  <2> QED
    BY <1>1, <2>4, <2>5
<1>5. CASE UNCHANGED disk /\ (hist' = hist \/ Excused(f, "remove"))
  <2>1. hist'[f] \in {hist[f], hist[f] \cup {"remove"}}
    BY <1>5, AloneObject DEF Excused, TypeOK
  <2>2. Measured(f)'
    BY <1>1, <1>2, <1>5, AloneObject, StaysMeasured
  <2>3. Excusable(f)'
    BY <1>1, <1>2, <1>5, <2>1, AloneObject DEF Excusable, Writing, disk
  <2> QED
    BY <1>1, <2>2, <2>3
<1> QED
  BY <1>4, <1>5 DEF Remove, disk

-----------------------------------------------------------------------------
(* The invariant and what it means.                                        *)

(* A lone object on a healthy disk has no io, touched or misfit to excuse  *)
(* it, and its file has the length of its block: copy_to, move_to, read    *)
(* and write keep m_block_size and the file's length equal.                *)
THEOREM AloneInvariant ==
  ASSUME Alone
  PROVE  Spec => []AloneInv
<1>1. Init => AloneInv
  <2> SUFFICES ASSUME Init, NEW f \in Files PROVE Measured(f) /\ Excusable(f)
    BY DEF AloneInv, Init
  <2>1. obj[f] = Raw /\ hist[f] = {}
    BY DEF Init
  <2> QED
    BY <2>1 DEF Raw, Measured, Excusable, IsFile
<1>2. IInv /\ AloneInv /\ [Next]_vars => AloneInv'
  <2>1. CASE UNCHANGED vars
    <3>1. /\ dir' = dir /\ data' = data /\ obj' = obj /\ hist' = hist
          /\ carry' = carry /\ overrun' = overrun
      BY <2>1 DEF vars
    <3> QED
      BY <3>1 DEF AloneInv, Measured, Excusable, IsFile
  <2>2. ASSUME IInv, AloneInv, NEW f \in Files, Step(f)
        PROVE  overrun' = {} /\ Measured(f)' /\ Excusable(f)'
    <3>1. CASE \E p \in Paths, n \in Sizes : Construct(f, p, n)
      BY <2>2, <3>1, AloneConstruct
    <3>2. CASE \/ \E p \in Paths : CopyTo(f, p) \/ MoveTo(f, p)
               \/ Write(f)
      <4>1. Write(f) => obj[f].path \in Paths
        BY <2>2, IdleObject DEF Write, StartWrite
      <4> QED
        BY <2>2, <3>2, <4>1, AloneStartWrite DEF CopyTo, MoveTo, Write
    <3>3. CASE ScopeEnd(f) \/ Alloc(f) \/ Fill(f)
      BY <2>2, <3>3, AloneScopeEnd, AloneAllocated, AloneFill DEF Alloc
    <3>4. CASE StartRead(f) \/ IsR(f) \/ OpenR(f) \/ ReadBlock(f)
      BY <2>2, <3>4, AloneStartRead, AloneIsR, AloneOpenR, AloneReadBlock
    <3>5. CASE OpenW(f) \/ Flush(f) \/ Close(f) \/ Remove(f)
      BY <2>2, <3>5, AloneOpenW, AloneFlush, AloneClose, AloneRemove
    <3> QED
      BY <2>2, <3>1, <3>2, <3>3, <3>4, <3>5 DEF Step
  <2>3. CASE IInv /\ AloneInv /\ Next
    <3>1. PICK f \in Files : Step(f)
      BY <2>3 DEF Next
    <3>2. \A g \in Files : g = f
      BY DEF Alone
    <3> QED
      BY <2>2, <2>3, <3>1, <3>2 DEF AloneInv
  <2> QED
    BY <2>1, <2>3
<1> QED
  BY <1>1, <1>2, Invariant, PTL DEF Spec

LEMMA SuccessKnown ==
  ASSUME IInv, AloneInv, KeepsAPlace
  PROVE  TrueWhenAlone /\ LostOnlyToDirectory
<1>1. TrueWhenAlone
  <2> SUFFICES ASSUME NEW f \in Files,
                      obj[f].pc = "idle", obj[f].op \in Transfers,
                      obj[f].rc = "SUCCESS", "edited" \notin hist[f],
                      dir[obj[f].path] # Special,
                      ~(obj[f].op = "move_to" /\ obj[f].old = obj[f].path)
               PROVE  At(obj[f].path) = obj[f].block
    BY DEF TrueWhenAlone
  <2>1. Clean(f)
    BY AloneObject DEF Excusable, Clean
  <2> QED
    BY <2>1 DEF IInv, Sound, InStep
<1>2. LostOnlyToDirectory
  <2> SUFFICES ASSUME NEW f \in carry, dir[obj[f].path] # Special
               PROVE  obj[f].block \in {At(obj[f].old), At(obj[f].path)}
    BY DEF LostOnlyToDirectory
  <2>1. f \in Files /\ obj[f].old # obj[f].path
    BY AloneObject DEF IInv, TypeOK, Source
  <2>2. Clean(f)
    BY <2>1, AloneObject DEF Excusable, Clean
  <2> QED
    BY <2>2 DEF KeepsAPlace
<1> QED
  BY <1>1, <1>2

(* For one object on a healthy disk a SUCCESS is true, but for writes to a *)
(* directory, moves onto the path itself and later edits.                  *)
THEOREM SuccessAlone ==
  ASSUME Alone
  PROVE  Spec => []TrueWhenAlone
BY Invariant, AloneInvariant, PlaceKept, SuccessKnown, PTL

(* For one object on a healthy disk a move loses a loaded file only to a   *)
(* directory: the one way left to lose bytes.                              *)
THEOREM LostAlone ==
  ASSUME Alone
  PROVE  Spec => []LostOnlyToDirectory
BY Invariant, AloneInvariant, PlaceKept, SuccessKnown, PTL

(* For one object on a healthy disk no read leaves the block.              *)
THEOREM InBoundsAlone ==
  ASSUME Alone
  PROVE  Spec => []NoOverrunAlone
<1>1. AloneInv => NoOverrunAlone
  BY DEF AloneInv, NoOverrunAlone
<1> QED
  BY <1>1, AloneInvariant, PTL

=============================================================================
