---------------------------- MODULE FileTransfer ----------------------------
(***************************************************************************)
(* What the members of file::File do to the disk and to the memory block:  *)
(* alloc, alloc_and_read, read, write, copy_to and move_to of              *)
(* src/src/wndx/sane/file.cpp, cut at the system calls, so that objects of *)
(* different threads or processes interleave and a process may die in      *)
(* between.  Every object belongs to one thread.  Contents are short       *)
(* sequences of bytes; ownership of the block is in FileHeap.              *)
(*                                                                         *)
(* An open file is an inode: it outlives its directory entry.  The calls   *)
(* into the system fail when the disk says so and, for the kinds in        *)
(* Faults, at any time.                                                    *)
(***************************************************************************)
EXTENDS FileOrder

CONSTANTS
  Files,    \* File objects
  Paths,    \* the paths in play, in directories that exist
  Inodes,   \* regular files, linked or open
  Bytes,    \* values of a byte; 0 is what new[]{} and a hole read as
  MaxLen,   \* bound on m_block_size and on the length of a file
  Calls,    \* what the clients do with an object between its two ends
  AnySize,  \* may a client construct with a size that is not the file's?
  Faults,   \* failures the system may inject
  NoFile,   \* nothing at a path, no open file, no path
  Special   \* a directory at a path

ASSUME FaultsAssumption ==
  Faults \subseteq {"bad_alloc", "status", "open", "io", "remove", "log"}
ASSUME CallsAssumption ==
  Calls \subseteq {"alloc", "fill", "alloc_and_read", "read", "write",
                   "copy_to", "move_to"}
ASSUME BytesAssumption == 0 \in Bytes
ASSUME MaxLenAssumption == MaxLen \in Nat
ASSUME AnySizeAssumption == AnySize \in BOOLEAN
ASSUME NothingAssumption ==
  /\ NoFile \notin Inodes \cup Paths \cup Seq(Bytes) \cup {Special, Null}
  /\ Special \notin Inodes
  /\ Null \notin Seq(Bytes)

VARIABLES
  dir,     \* what each path names
  data,    \* contents of each inode
  obj,     \* the objects and, while a call runs, where it is
  hist,    \* history: why block and file of an object may differ
  carry,   \* history: objects whose copy or move began with a complete source
  unfit,   \* history: objects whose path may hold more than their block does
  overrun  \* objects whose read went past the end of the block

disk == <<dir, data>>
history == <<hist, carry, unfit>>
vars == <<dir, data, obj, hist, carry, unfit, overrun>>

Sizes == 0..MaxLen
Contents == UNION {[1..n -> Bytes] : n \in Sizes}

(* Mutant: new char[n] without the braces that zero it.                    *)
Indeterminate(n) == [k \in 1..n |-> Null]

Zeros(n) == [k \in 1..n |-> 0]

Transfers == {"alloc_and_read", "read", "write", "copy_to", "move_to"}
Ops == Transfers \cup {"ctor", "alloc"}
Codes == {"NONE", "SUCCESS", "MEMORY_BAD_ALLOC", "MEMORY_BLOCK_EMPTY",
          "FILE_STATUS_GENERIC_ERRO", "FILE_SPECIAL", "FS_CTOR_ERRO",
          "CRIT_EX_UNHANDLED"}

(* raw: no object; idle: between calls; dead: destroyed by a failed alloc; *)
(* the others name the next system call of the running member.             *)
Writing == {"open_w", "flush", "close", "remove"}
Reading == {"is_r", "open_r", "read"}
Places == {"raw", "idle", "dead"} \cup Reading \cup Writing

(* Why memory and disk may differ although the last call said SUCCESS.     *)
Excuses == {"open", "io", "remove", "misfit", "touched", "edited", "self"}

Objects ==
  [pc: Places, op: Ops, rc: Codes,
   path: Paths \cup {NoFile}, old: Paths \cup {NoFile},
   size: Nat, block: Seq(Bytes) \cup {Null}, fd: Inodes \cup {NoFile}, at: Nat]

TypeOK ==
  /\ dir \in [Paths -> Inodes \cup {NoFile, Special}]
  /\ data \in [Inodes -> Seq(Bytes)]
  /\ obj \in [Files -> Objects]
  /\ hist \in [Files -> SUBSET Excuses]
  /\ carry \subseteq Files /\ unfit \subseteq Files /\ overrun \subseteq Files

Raw == [pc |-> "raw", op |-> "ctor", rc |-> "NONE", path |-> NoFile,
        old |-> NoFile, size |-> 0, block |-> Null, fd |-> NoFile, at |-> 0]

(* Any disk without hard links.                                            *)
Init ==
  /\ dir \in [Paths -> Inodes \cup {NoFile, Special}]
  /\ \A p, q \in Paths : p # q /\ dir[p] = dir[q] => dir[p] \notin Inodes
  /\ data \in [Inodes -> Contents]
  /\ \A i \in Inodes : data[i] # <<>> => \E p \in Paths : dir[p] = i
  /\ obj = [f \in Files |-> Raw]
  /\ hist = [f \in Files |-> {}]
  /\ carry = {} /\ unfit = {} /\ overrun = {}

-----------------------------------------------------------------------------
(* The disk.                                                               *)

IsFile(p) == p \in Paths /\ dir[p] \in Inodes

(* What a reader would find at p.                                          *)
At(p) == IF IsFile(p) THEN data[dir[p]] ELSE NoFile

(* bytes written over d from offset off on; a hole reads as zeros.         *)
Overlay(d, off, bytes) ==
  LET end == off + Len(bytes)
  IN  [k \in 1..(IF end > Len(d) THEN end ELSE Len(d)) |->
         IF k > off /\ k <= end THEN bytes[k - off]
         ELSE IF k <= Len(d) THEN d[k] ELSE 0]

(* An inode is in use while a path or an open file refers to it; the data  *)
(* of the others is gone.                                                  *)
Used(d, o) == {d[p] : p \in Paths} \cup {o[f].fd : f \in Files}
Collected(d, o, dt) ==
  [i \in Inodes |-> IF i \in Used(d, o) THEN dt[i] ELSE <<>>]

(* The other objects that care when one of the entries ps, or the contents *)
(* of the file i, change.                                                  *)
Concerned(f, ps, i) ==
  {g \in Files \ {f} :
     \/ obj[g].fd = i
     \/ {obj[g].path, obj[g].old} \cap ps # {}
     \/ \E q \in Paths : q \in {obj[g].path, obj[g].old} /\ dir[q] = i}

Touched(f, ps, i) ==
  hist' = [g \in Files |-> IF g \in Concerned(f, ps, i)
                             THEN hist[g] \cup {"touched"} ELSE hist[g]]

Excused(f, e) == hist' = [hist EXCEPT ![f] = @ \cup {e}]

(* A call that loads or replaces the block has no excuse yet.              *)
Fresh(f) ==
  /\ hist' = [hist EXCEPT ![f] = {}]
  /\ carry' = carry \ {f}
  /\ UNCHANGED unfit

Runs(f, place) == overrun = {} /\ obj[f].pc = place
Idle(f) == Runs(f, "idle")
Become(f, o) == obj' = [obj EXCEPT ![f] = o]

Return(f, code) == [obj[f] EXCEPT !.pc = "idle", !.rc = code, !.at = 0]

(* What the handlers of alloc and alloc_and_read leave: File::~File() has  *)
(* run, and the client is told why.                                        *)
Dead(op, code) == [Raw EXCEPT !.pc = "dead", !.op = op, !.rc = code]

(* How the read that leaves the object as o ends: alloc_and_read logs once *)
(* more, whatever read returned, and destroys the object if that throws.   *)
EndRead(f, o) ==
  \/ Become(f, o)
  \/ /\ obj[f].op = "alloc_and_read" /\ "log" \in Faults
     /\ Become(f, Dead("alloc_and_read", "CRIT_EX_UNHANDLED"))

-----------------------------------------------------------------------------
(* Both constructors: the size is fs::file_size of an existing file, as in *)
(* the tests, or what a caller or a received Finfo says.                   *)
Construct(f, p, n) ==
  /\ Runs(f, "raw")
  /\ AnySize \/ (IsFile(p) => n = Len(data[dir[p]]))
  /\ Become(f, [Raw EXCEPT !.pc = "idle", !.path = p, !.size = n])
  /\ unfit' = IF IsFile(p) /\ Len(data[dir[p]]) > n THEN unfit \cup {f}
                                                    ELSE unfit
  /\ UNCHANGED <<disk, hist, carry, overrun>>

ScopeEnd(f) ==
  /\ Runs(f, "idle") \/ Runs(f, "dead")
  /\ Become(f, Raw)
  /\ hist' = [hist EXCEPT ![f] = {}]
  /\ carry' = carry \ {f} /\ unfit' = unfit \ {f}
  /\ UNCHANGED <<disk, overrun>>

(* alloc: a block of zeros, or a destroyed object.                         *)
Allocated(f, op, place) ==
  \/ Become(f, [obj[f] EXCEPT !.pc = place, !.op = op, !.rc = "SUCCESS",
                              !.block = Zeros(obj[f].size), !.old = NoFile])
  \/ "bad_alloc" \in Faults /\ Become(f, Dead(op, "MEMORY_BAD_ALLOC"))
  \/ "log" \in Faults /\ Become(f, Dead(op, "CRIT_EX_UNHANDLED"))

Alloc(f) ==
  /\ Idle(f) /\ "alloc" \in Calls
  /\ Allocated(f, "alloc", "idle")
  /\ Fresh(f)
  /\ UNCHANGED <<disk, overrun>>

(* The client stores what it received through memory().                    *)
Fill(f) ==
  /\ Idle(f) /\ "fill" \in Calls
  /\ obj[f].block # Null
  /\ \E c \in [1..obj[f].size -> Bytes] :
       Become(f, [obj[f] EXCEPT !.block = c])
  /\ Excused(f, "edited")
  /\ carry' = carry \ {f}
  /\ UNCHANGED <<disk, unfit, overrun>>

-----------------------------------------------------------------------------
(* read and alloc_and_read.                                                *)
StartRead(f) ==
  /\ Idle(f)
  /\ \/ /\ "alloc_and_read" \in Calls
        /\ Allocated(f, "alloc_and_read", "is_r")
     \/ /\ "read" \in Calls
        /\ obj[f].block # Null
        /\ Become(f, [obj[f] EXCEPT !.pc = "is_r", !.op = "read",
                                    !.old = NoFile])
  /\ Fresh(f)
  /\ UNCHANGED <<disk, overrun>>

IsR(f) ==
  /\ Runs(f, "is_r")
  /\ \/ /\ dir[obj[f].path] = NoFile \/ "status" \in Faults
        /\ EndRead(f, Return(f, "FILE_STATUS_GENERIC_ERRO"))
     \/ /\ dir[obj[f].path] = Special
        /\ EndRead(f, Return(f, "FILE_SPECIAL"))
     \/ /\ IsFile(obj[f].path)
        /\ Become(f, [obj[f] EXCEPT !.pc = "open_r"])
  /\ UNCHANGED <<disk, history, overrun>>

(* The stream is opened at its end (ios::ate): tellg is the length now.    *)
OpenR(f) ==
  /\ Runs(f, "open_r")
  /\ \/ /\ ~IsFile(obj[f].path) \/ "open" \in Faults
        /\ EndRead(f, Return(f, "FS_CTOR_ERRO"))
     \/ /\ IsFile(obj[f].path)
        /\ Become(f, [obj[f] EXCEPT !.pc = "read", !.fd = dir[obj[f].path],
                                    !.at = Len(data[dir[obj[f].path]])])
  /\ UNCHANGED <<disk, history, overrun>>

(* ifs.read(m_block, size): as many bytes as the file had at the open and  *)
(* still has, whatever m_block_size is.  The stream state is not looked at *)
(* afterwards.  The only error that can be reported is a throw of the log  *)
(* that follows: the block is loaded all the same.                         *)
Smaller(m, n) == IF m < n THEN m ELSE n

ReadBlock(f) ==
  LET file == data[obj[f].fd]
      all  == Smaller(obj[f].at, Len(file))
      size == obj[f].size
  IN
  /\ Runs(f, "read")
  /\ \E n \in 0..all, code \in {"SUCCESS", "CRIT_EX_UNHANDLED"} :
       /\ n < all => "io" \in Faults
       /\ code # "SUCCESS" => "log" \in Faults
       /\ EndRead(f, [Return(f, code) EXCEPT
                        !.fd = NoFile,
                        !.block = IF n > size THEN obj[f].block
                                  ELSE Overlay(obj[f].block, 0,
                                               SubSeq(file, 1, n))])
       /\ overrun' = IF n > size THEN {f} ELSE {}
       /\ hist' = [hist EXCEPT ![f] =
            @ \cup (IF n < all THEN {"io"} ELSE {})
              \cup (IF n # size THEN {"misfit"} ELSE {})]
  /\ data' = Collected(dir, obj', data)
  /\ UNCHANGED <<dir, carry, unfit>>

-----------------------------------------------------------------------------
(* write, copy_to and move_to.                                             *)
StartWrite(f, op, dst) ==
  /\ Idle(f) /\ op \in Calls
  /\ \/ /\ obj[f].block = Null
        /\ Become(f, [Return(f, "MEMORY_BLOCK_EMPTY") EXCEPT !.op = op])
        /\ Fresh(f)
     \/ /\ obj[f].block # Null
        /\ Become(f, [obj[f] EXCEPT !.pc = "open_w", !.op = op,
                                    !.old = obj[f].path, !.path = dst])
        /\ hist' = [hist EXCEPT ![f] =
             IF op = "move_to" /\ dst = obj[f].path THEN {"self"} ELSE {}]
        /\ carry' = IF dst # obj[f].path /\ At(obj[f].path) = obj[f].block
                      THEN carry \cup {f} ELSE carry \ {f}
        /\ unfit' = IF dst = obj[f].path THEN unfit ELSE unfit \cup {f}
  /\ UNCHANGED <<disk, overrun>>

Write(f) == StartWrite(f, "write", obj[f].path)
CopyTo(f, dst) == StartWrite(f, "copy_to", dst)
MoveTo(f, dst) == StartWrite(f, "move_to", dst)

(* What an open for writing leaves of the contents.  Mutant: opened for    *)
(* reading and writing, so not truncated.                                  *)
NotTruncated(contents) == contents

Truncated(contents) == <<>>

(* ofs(m_fpath, out | binary): creates or truncates, and nobody looks      *)
(* whether it did.                                                         *)
OpenW(f) ==
  LET p == obj[f].path IN
  /\ Runs(f, "open_w")
  /\ \/ /\ dir[p] = Special \/ "open" \in Faults
        /\ Become(f, [obj[f] EXCEPT !.pc = "close"])
        /\ Excused(f, "open")
        /\ UNCHANGED <<disk, unfit>>
     \/ \E i \in Inodes :
          /\ \/ dir[p] = i
             \/ dir[p] = NoFile /\ i \notin Used(dir, obj)
          /\ dir' = [dir EXCEPT ![p] = i]
          /\ data' = [data EXCEPT ![i] = Truncated(@)]
          /\ Become(f, [obj[f] EXCEPT !.pc = "flush", !.fd = i, !.at = 0])
          /\ Touched(f, {p}, i)
          /\ unfit' = (unfit \cup Concerned(f, {p}, i)) \ {f}
  /\ UNCHANGED <<carry, overrun>>

(* How far the loop of write goes.  Mutant: it stops before the last byte. *)
OneLess(size) == IF size = 0 THEN 0 ELSE size - 1

LoopEnd(size) == size

(* The bytes reach the file when the stream's buffer is full and when it   *)
(* is destroyed, in some number of pieces; after a failed write(2) the     *)
(* rest is dropped, and nobody looks.                                      *)
Flush(f) ==
  LET at == obj[f].at
      end == LoopEnd(obj[f].size)
  IN
  /\ Runs(f, "flush")
  /\ \/ /\ at = end
        /\ Become(f, [obj[f] EXCEPT !.pc = "close"])
        /\ UNCHANGED <<data, hist, unfit>>
     \/ /\ at < end /\ "io" \in Faults
        /\ Become(f, [obj[f] EXCEPT !.pc = "close"])
        /\ Excused(f, "io")
        /\ UNCHANGED <<data, unfit>>
     \/ \E n \in 1..(end - at) :
          /\ data' = [data EXCEPT ![obj[f].fd] =
               Overlay(@, at, SubSeq(obj[f].block, at + 1, at + n))]
          /\ Become(f, [obj[f] EXCEPT !.at = at + n])
          /\ Touched(f, {}, obj[f].fd)
          /\ unfit' = unfit \cup Concerned(f, {}, obj[f].fd)
  /\ UNCHANGED <<dir, carry, overrun>>

(* Where a call goes after write has returned.  Mutants: move_to removes   *)
(* whatever copy_to returned; it never removes.                            *)
RemoveAnyway(op, code) == IF op = "move_to" THEN "remove" ELSE "idle"
NeverRemove(op, code) == "idle"

AfterWrite(op, code) ==
  IF op = "move_to" /\ code = "SUCCESS" THEN "remove" ELSE "idle"

(* The stream is destroyed and write returns; a throw of its last WNDX_LOG *)
(* is the only error it can report.  move_to goes on to the old path.      *)
Close(f) ==
  /\ Runs(f, "close")
  /\ \E code \in {"SUCCESS", "CRIT_EX_UNHANDLED"} :
       /\ code # "SUCCESS" => "log" \in Faults
       /\ Become(f, [Return(f, code) EXCEPT
                       !.fd = NoFile, !.pc = AfterWrite(obj[f].op, code)])
  /\ data' = Collected(dir, obj', data)
  /\ UNCHANGED <<dir, history, overrun>>

(* fs::remove(old_fpath): whatever the path names now; an empty directory  *)
(* goes too.  A failure is logged and move_to still returns SUCCESS.       *)
Remove(f) ==
  LET p == obj[f].old IN
  /\ Runs(f, "remove")
  /\ Become(f, [obj[f] EXCEPT !.pc = "idle"])
  /\ \/ /\ dir[p] # NoFile
        /\ dir' = [dir EXCEPT ![p] = NoFile]
        /\ data' = Collected(dir', obj', data)
        /\ Touched(f, {p}, dir[p])
        /\ unfit' = unfit \cup Concerned(f, {p}, dir[p])
     \/ /\ dir[p] = NoFile
        /\ UNCHANGED <<disk, hist, unfit>>
     \/ /\ dir[p] = Special \/ "remove" \in Faults
        /\ Excused(f, "remove")
        /\ UNCHANGED <<disk, unfit>>
  /\ UNCHANGED <<carry, overrun>>

Step(f) ==
  \/ \E p \in Paths : \/ \E n \in Sizes : Construct(f, p, n)
                      \/ CopyTo(f, p)
                      \/ MoveTo(f, p)
  \/ Write(f)
  \/ ScopeEnd(f) \/ Alloc(f) \/ Fill(f)
  \/ StartRead(f) \/ IsR(f) \/ OpenR(f) \/ ReadBlock(f)
  \/ OpenW(f) \/ Flush(f) \/ Close(f) \/ Remove(f)

Next == \E f \in Files : Step(f)

Spec == Init /\ [][Next]_vars

-----------------------------------------------------------------------------
(* Properties.  All hold between any two system calls, so also on the disk *)
(* that a process which dies there leaves behind.                          *)

(* Nothing but a failed remove may separate block and file.                *)
Clean(f) == hist[f] \subseteq {"remove"}

(* After a read, write, copy_to or move_to that returned SUCCESS, block    *)
(* and file hold the same bytes until the client edits the block or        *)
(* another object changes the path or the file; the exceptions are the     *)
(* failures of the system that the code does not report, a size that is    *)
(* not the file's, and a move onto the path itself.                        *)
SuccessMeansInSync ==
  \A f \in Files :
    /\ obj[f].pc = "idle" /\ obj[f].op \in Transfers /\ obj[f].rc = "SUCCESS"
    /\ Clean(f)
    => At(obj[f].path) = obj[f].block

(* What an object had loaded from its path when copy_to or move_to began   *)
(* is complete at the old path or at the new one at every moment, during   *)
(* the call and after it, unless a write failed unseen or another object   *)
(* interfered.                                                             *)
KeepsAPlace ==
  \A f \in carry : Clean(f) =>
    obj[f].block \in {At(obj[f].old), At(obj[f].path)}

(* The source itself is safe from every failure until the remove: during   *)
(* the copy, after a call that reported an error, and after any copy_to.   *)
SourceKeptUntilRemove ==
  \A f \in carry :
    /\ "touched" \notin hist[f]
    /\ obj[f].op = "copy_to" \/ obj[f].pc # "idle" \/ obj[f].rc # "SUCCESS"
    => At(obj[f].old) = obj[f].block

(* A move_to that nothing disturbed leaves nothing at the old path.        *)
MoveRemovesSource ==
  \A f \in Files :
    /\ obj[f].pc = "idle" /\ obj[f].op = "move_to" /\ obj[f].rc = "SUCCESS"
    /\ hist[f] = {}
    => dir[obj[f].old] = NoFile

(* read goes past the end of the block only if the file did not fit when   *)
(* the object was made, another object changed it since, or the object     *)
(* failed to open the path it now claims: its own writes never outgrow its *)
(* block.                                                                  *)
OverrunOnlyIfUnfit == overrun \subseteq unfit

(* The comparison operators speak of the files: once two objects are in    *)
(* step with theirs, == holds iff the files have the same bytes, and < and *)
(* > iff one is shorter.                                                   *)
LoadedFrom(f) ==
  /\ obj[f].pc = "idle" /\ obj[f].op \in Transfers /\ obj[f].rc = "SUCCESS"
  /\ Clean(f)

ComparedAsFiles ==
  \A f, g \in {h \in Files : LoadedFrom(h)} :
    LET mine == At(obj[f].path)
        other == At(obj[g].path)
    IN  /\ Eq(obj[f], obj[g]) <=> mine = other
        /\ Lt(obj[f], obj[g]) <=> Len(mine) < Len(other)
        /\ Gt(obj[f], obj[g]) <=> Len(mine) > Len(other)

(* Of <, > and == exactly one holds, unless two objects of one size hold   *)
(* different bytes or one has no block: then none does, nor <= nor >=, and *)
(* an object without a block is not even equal to itself.                  *)
OneAnswer ==
  \A f, g \in Files :
    LET a == obj[f]
        b == obj[g]
        unordered ==
          /\ a.size = b.size
          /\ a.block = Null \/ b.block = Null \/ a.block # b.block
    IN  /\ ~(Lt(a, b) /\ Gt(a, b))
        /\ Eq(a, b) => ~Lt(a, b) /\ ~Gt(a, b)
        /\ unordered <=> ~Le(a, b) /\ ~Ge(a, b)

(* Seen as the sides, old and new, that hold the whole file, every         *)
(* behaviour is one that TransferPromise allows.                           *)
Kept(f) == f \in carry /\ Clean(f)
Phase(f) ==
  IF ~Kept(f) THEN "void"
  ELSE IF obj[f].pc # "idle" THEN "busy"
  ELSE IF obj[f].rc # "SUCCESS" THEN "failed"
  ELSE obj[f].op
Sides(f) ==
  (IF Kept(f) /\ At(obj[f].old) = obj[f].block THEN {"old"} ELSE {})
    \cup (IF Kept(f) /\ At(obj[f].path) = obj[f].block THEN {"new"} ELSE {})

Promise == INSTANCE TransferPromise WITH
  phase <- [f \in Files |-> Phase(f)],
  sides <- [f \in Files |-> Sides(f)]

KeepsPromise == Promise!Init /\ [][Promise!Next]_(Promise!vars)

-----------------------------------------------------------------------------
(* What a comment of the class says of move_to.                            *)

(* "move file to the destination": the bytes of a file that has any are at *)
(* one of the two paths.                                                   *)
MoveNeverLoses ==
  \A f \in carry :
    "touched" \notin hist[f] /\ obj[f].size > 0 =>
      obj[f].block \in {At(obj[f].old), At(obj[f].path)}

=============================================================================
