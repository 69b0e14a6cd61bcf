------------------------- MODULE FileTransfer_proof -------------------------
(***************************************************************************)
(* Proofs about FileTransfer for any sets of objects, paths, inodes, bytes *)
(* and faults: the inductive invariant, the safety properties of its runs, *)
(* and that FileTransfer implements TransferPromise.                       *)
(***************************************************************************)
EXTENDS FileTransfer, FileOrder_proof, SequenceTheorems, TLAPS

(* The entries never share an inode, and an open file is found, if at all, *)
(* at the path it was opened by.                                           *)
NoLinks ==
  \A p, q \in Paths : p # q /\ dir[p] = dir[q] => dir[p] \notin Inodes

OpenAtPath ==
  \A f \in Files, p \in Paths :
    obj[f].fd # NoFile /\ dir[p] = obj[f].fd => p = obj[f].path

(* What the place of a call says about the rest of the object.             *)
Control(f) ==
  /\ obj[f].block # Null => Len(obj[f].block) = obj[f].size
  /\ obj[f].pc \in {"raw", "dead"} =>
       obj[f].path = NoFile /\ obj[f].old = NoFile /\ f \notin carry
  /\ obj[f].pc \notin {"raw", "dead"} => obj[f].path \in Paths
  /\ obj[f].fd # NoFile => obj[f].pc \in {"read", "flush", "close"}
  /\ obj[f].pc \in {"read", "flush"} => obj[f].fd # NoFile
  /\ obj[f].pc \in Reading =>
       /\ obj[f].op \in {"read", "alloc_and_read"}
       /\ obj[f].block # Null /\ f \notin carry
  /\ obj[f].pc \in Writing =>
       /\ obj[f].op \in {"write", "copy_to", "move_to"}
       /\ obj[f].block # Null /\ obj[f].old \in Paths
       /\ obj[f].op = "move_to" /\ obj[f].old = obj[f].path =>
            "self" \in hist[f]
  /\ obj[f].pc = "flush" => obj[f].at <= obj[f].size
  /\ obj[f].pc = "remove" => obj[f].op = "move_to" /\ obj[f].rc = "SUCCESS"

(* An object that carries a file has it from another path than its own,    *)
(* and it is there until the remove.                                       *)
Source(f) ==
  f \in carry =>
    /\ obj[f].op \in {"copy_to", "move_to"} /\ obj[f].block # Null
    /\ obj[f].old \in Paths /\ obj[f].old # obj[f].path
    /\ "touched" \notin hist[f]
         /\ (obj[f].op = "copy_to" \/ obj[f].pc # "idle"
               \/ obj[f].rc # "SUCCESS")
       => At(obj[f].old) = obj[f].block

(* How far block and file agree while a call runs that nothing disturbed,  *)
(* and after it.                                                           *)
InStep(f) ==
  Clean(f) =>
    /\ obj[f].pc = "flush" =>
         /\ dir[obj[f].path] = obj[f].fd
         /\ data[obj[f].fd] = SubSeq(obj[f].block, 1, obj[f].at)
    /\ obj[f].pc = "read" =>
         /\ dir[obj[f].path] = obj[f].fd
         /\ obj[f].at = Len(data[obj[f].fd])
    /\ \/ obj[f].pc \in {"close", "remove"}
       \/ /\ obj[f].pc = "idle" /\ obj[f].op \in Transfers
          /\ obj[f].rc = "SUCCESS"
       => At(obj[f].path) = obj[f].block

(* The old entry of an undisturbed move is gone.                           *)
Gone(f) ==
  /\ obj[f].pc = "idle" /\ obj[f].op = "move_to" /\ obj[f].rc = "SUCCESS"
  /\ hist[f] = {}
  => obj[f].old \in Paths /\ dir[obj[f].old] = NoFile

(* The file of an object that is not unfit is no longer than its block,    *)
(* and the one it has open is that file.                                   *)
Fits(f) ==
  f \notin unfit =>
    /\ IsFile(obj[f].path) => Len(data[dir[obj[f].path]]) <= obj[f].size
    /\ obj[f].fd # NoFile => dir[obj[f].path] = obj[f].fd

Sound(f) == Control(f) /\ Source(f) /\ InStep(f) /\ Gone(f) /\ Fits(f)

IInv ==
  /\ TypeOK /\ NoLinks /\ OpenAtPath
  /\ \A f \in Files : Sound(f)
  /\ OverrunOnlyIfUnfit

USE BytesAssumption, MaxLenAssumption, NothingAssumption

-----------------------------------------------------------------------------
(* Operators.                                                              *)

(* A write at an offset makes a file of the length that reaches.           *)
LEMMA OverlayLen ==
  ASSUME NEW d \in Seq(Bytes), NEW off \in Nat, NEW b \in Seq(Bytes)
  PROVE  /\ Overlay(d, off, b) \in Seq(Bytes)
         /\ Len(Overlay(d, off, b)) =
              IF off + Len(b) > Len(d) THEN off + Len(b) ELSE Len(d)
<1> DEFINE end == off + Len(b)
           len == IF end > Len(d) THEN end ELSE Len(d)
           e(k) == IF k > off /\ k <= end THEN b[k - off]
                   ELSE IF k <= Len(d) THEN d[k] ELSE 0
<1>1. len \in Nat /\ Len(d) \in Nat /\ Len(b) \in Nat
  OBVIOUS
<1>2. \A k \in 1..len : e(k) \in Bytes
  OBVIOUS
<1>3. Overlay(d, off, b) = [k \in 1..len |-> e(k)]
  BY DEF Overlay
<1> HIDE DEF e, len
<1>4. [k \in 1..len |-> e(k)] \in Seq(Bytes)
  BY <1>1, <1>2, IsASeq
<1>5. Len([k \in 1..len |-> e(k)]) = len
  BY <1>1, <1>4
<1> QED
  BY <1>3, <1>4, <1>5 DEF len

(* A read of as many bytes as the block has replaces it.                   *)
LEMMA OverlayWhole ==
  ASSUME NEW d \in Seq(Bytes), NEW b \in Seq(Bytes), Len(b) = Len(d)
  PROVE  Overlay(d, 0, b) = b
<1>1. Overlay(d, 0, b) \in Seq(Bytes) /\ Len(Overlay(d, 0, b)) = Len(b)
  BY OverlayLen
<1>2. \A k \in 1..Len(b) : Overlay(d, 0, b)[k] = b[k]
  BY DEF Overlay
<1> QED
  BY <1>1, <1>2, SeqEqual

LEMMA PieceLen ==
  ASSUME NEW b \in Seq(Bytes), NEW at \in Nat, NEW n \in Nat,
         at + n <= Len(b)
  PROVE  /\ SubSeq(b, at + 1, at + n) \in Seq(Bytes)
         /\ Len(SubSeq(b, at + 1, at + n)) = n
         /\ \A k \in 1..n : SubSeq(b, at + 1, at + n)[k] = b[at + k]
BY SubSeqProperties

(* A file that holds the first at bytes holds n more after the next write. *)
LEMMA OverlayNext ==
  ASSUME NEW b \in Seq(Bytes), NEW at \in Nat, NEW n \in Nat,
         at + n <= Len(b)
  PROVE  Overlay(SubSeq(b, 1, at), at, SubSeq(b, at + 1, at + n))
           = SubSeq(b, 1, at + n)
<1> DEFINE head == SubSeq(b, 1, at)
           piece == SubSeq(b, at + 1, at + n)
           whole == SubSeq(b, 1, at + n)
<1>1. /\ head \in Seq(Bytes) /\ Len(head) = at
      /\ \A k \in 1..at : head[k] = b[k]
  BY SubSeqProperties
<1>2. /\ piece \in Seq(Bytes) /\ Len(piece) = n
      /\ \A k \in 1..n : piece[k] = b[at + k]
  BY PieceLen
<1>3. /\ whole \in Seq(Bytes) /\ Len(whole) = at + n
      /\ \A k \in 1..(at + n) : whole[k] = b[k]
  BY SubSeqProperties
<1> HIDE DEF head, piece, whole
<1>4. /\ Overlay(head, at, piece) \in Seq(Bytes)
      /\ Len(Overlay(head, at, piece)) = at + n
  BY <1>1, <1>2, OverlayLen
<1>5. Overlay(head, at, piece)
        = [k \in 1..(at + n) |->
             IF k > at THEN piece[k - at] ELSE head[k]]
  BY <1>1, <1>2 DEF Overlay
<1>6. \A k \in 1..(at + n) : Overlay(head, at, piece)[k] = whole[k]
  <2> SUFFICES ASSUME NEW k \in 1..(at + n)
               PROVE  Overlay(head, at, piece)[k] = whole[k]
    OBVIOUS
  <2>1. CASE k > at
    <3>1. k - at \in 1..n /\ at + (k - at) = k
      BY <2>1
    <3>2. piece[k - at] = b[k]
      BY <1>2, <3>1
    <3> QED
      BY <1>3, <1>5, <2>1, <3>2
  <2>2. CASE k <= at
    BY <1>1, <1>3, <1>5, <2>2
  <2> QED
    BY <2>1, <2>2
<1> QED
  BY <1>3, <1>4, <1>6, SeqEqual DEF head, piece, whole

LEMMA CollectedKeeps ==
  ASSUME NEW d, NEW o, NEW dt, NEW i \in Inodes, i \in Used(d, o)
  PROVE  Collected(d, o, dt)[i] = dt[i]
BY DEF Collected

-----------------------------------------------------------------------------
(* One step changes one object.  What becomes of the others depends on     *)
(* whether it changed their files.                                         *)

Undisturbed(g) ==
  /\ obj'[g] = obj[g] /\ hist'[g] = hist[g]
  /\ g \in carry' <=> g \in carry
  /\ g \in unfit' <=> g \in unfit
  /\ \A p \in Paths \cap {obj[g].path, obj[g].old} :
       /\ dir'[p] = dir[p]
       /\ dir[p] \in Inodes => data'[dir[p]] = data[dir[p]]
  /\ obj[g].fd \in Inodes => data'[obj[g].fd] = data[obj[g].fd]

Disturbed(g) ==
  /\ obj'[g] = obj[g] /\ hist'[g] = hist[g] \cup {"touched"}
  /\ g \in carry' <=> g \in carry
  /\ g \in unfit'

Frame(f) == \A g \in Files \ {f} : Undisturbed(g) \/ Disturbed(g)

LEMMA ObjectType ==
  ASSUME TypeOK, NEW f \in Files
  PROVE  /\ obj[f] \in Objects /\ hist[f] \in SUBSET Excuses
         /\ obj[f].path # NoFile => obj[f].path \in Paths
         /\ obj[f].old # NoFile => obj[f].old \in Paths
         /\ obj[f].fd # NoFile => obj[f].fd \in Inodes
         /\ obj[f].block # Null => obj[f].block \in Seq(Bytes)
         /\ obj[f].size \in Nat /\ obj[f].at \in Nat
BY DEF TypeOK, Objects

LEMMA UndisturbedSound ==
  ASSUME TypeOK, NEW g \in Files, Sound(g), Undisturbed(g)
  PROVE  Sound(g)'
<1>1. At(obj[g].path)' = At(obj[g].path) /\ At(obj[g].old)' = At(obj[g].old)
  BY ObjectType DEF Undisturbed, At, IsFile
<1>2. Clean(g)' <=> Clean(g)
  BY DEF Undisturbed, Clean
<1>3. Control(g)'
  BY DEF Undisturbed, Sound, Control
<1>4. Source(g)'
  BY <1>1 DEF Undisturbed, Sound, Source
<1>5. InStep(g)'
  <2>1. obj[g].pc \in {"flush", "read"} =>
          /\ obj[g].path \in Paths /\ obj[g].fd \in Inodes
          /\ dir'[obj[g].path] = dir[obj[g].path]
          /\ data'[obj[g].fd] = data[obj[g].fd]
    BY ObjectType DEF Undisturbed, Sound, Control
  <2> QED
    BY <1>1, <1>2, <2>1 DEF Undisturbed, Sound, InStep
<1>6. Gone(g)'
  BY DEF Undisturbed, Sound, Gone
<1>7. Fits(g)'
  BY ObjectType DEF Undisturbed, Sound, Fits, IsFile, Control
<1> QED
  BY <1>3, <1>4, <1>5, <1>6, <1>7 DEF Sound

LEMMA DisturbedUnclean ==
  ASSUME NEW g \in Files, Disturbed(g)
  PROVE  ~Clean(g)'
BY DEF Disturbed, Clean

LEMMA DisturbedSound ==
  ASSUME NEW g \in Files, Sound(g), Disturbed(g)
  PROVE  Sound(g)'
<1>1. ~Clean(g)'
  BY DisturbedUnclean
<1>2. Control(g)'
  BY DEF Disturbed, Sound, Control
<1>3. Source(g)' /\ InStep(g)' /\ Gone(g)' /\ Fits(g)'
  BY <1>1 DEF Disturbed, Sound, Source, InStep, Gone, Fits
<1> QED
  BY <1>2, <1>3 DEF Sound

LEMMA TypeStep ==
  ASSUME TypeOK, NEW f \in Files, NEW o \in Objects, Become(f, o),
         UNCHANGED disk, hist' \in [Files -> SUBSET Excuses],
         carry' \subseteq Files, unfit' \subseteq Files,
         overrun' \subseteq Files
  PROVE  TypeOK'
BY DEF TypeOK, Become, disk

(* A step that leaves the disk alone.                                      *)
LEMMA QuietStep ==
  ASSUME IInv, NEW f \in Files, NEW o \in Objects, Become(f, o),
         UNCHANGED disk, TypeOK', overrun' = {},
         \A g \in Files \ {f} : /\ hist'[g] = hist[g]
                                /\ g \in carry' <=> g \in carry
                                /\ g \in unfit' <=> g \in unfit,
         \/ o.fd \in {NoFile, dir[o.path]}
         \/ o.fd = obj[f].fd /\ o.path = obj[f].path,
         o.fd # NoFile => o.path \in Paths,
         Sound(f)'
  PROVE  IInv' /\ Frame(f)
<1>1. /\ obj'[f] = o
      /\ \A g \in Files \ {f} : obj'[g] = obj[g]
  BY DEF Become, IInv, TypeOK
<1>2. NoLinks'
  BY DEF IInv, NoLinks, disk
<1>3. OpenAtPath'
  <2> SUFFICES ASSUME NEW g \in Files, NEW p \in Paths,
                      obj'[g].fd # NoFile, dir[p] = obj'[g].fd
               PROVE  p = obj'[g].path
    BY DEF OpenAtPath, disk
  <2>1. CASE obj'[g] = obj[g]
    BY <2>1 DEF IInv, OpenAtPath
  <2>2. CASE g = f /\ o.fd = dir[o.path]
    <3>1. o.path \in Paths /\ o.fd \in Inodes /\ dir[p] = dir[o.path]
      BY <1>1, <2>2 DEF Objects
    <3> QED
      BY <1>1, <2>2, <3>1 DEF IInv, NoLinks
  <2>3. CASE g = f /\ o.fd = obj[f].fd /\ o.path = obj[f].path
    BY <1>1, <2>3 DEF IInv, OpenAtPath
  <2> QED
    BY <1>1, <2>1, <2>2, <2>3
<1>4. \A g \in Files \ {f} : Undisturbed(g)
  BY <1>1 DEF Undisturbed, disk
<1>5. \A g \in Files : Sound(g)'
  BY <1>4, UndisturbedSound DEF IInv
<1>6. OverrunOnlyIfUnfit'
  BY DEF OverrunOnlyIfUnfit
<1> QED
  BY <1>2, <1>3, <1>4, <1>5, <1>6 DEF IInv, Frame

-----------------------------------------------------------------------------
(* The steps of a client.                                                  *)

LEMMA RawTyped == Raw \in Objects
BY DEF Raw, Objects, Places, Ops, Codes

LEMMA ConstructStep ==
  ASSUME IInv, NEW f \in Files, NEW p \in Paths, NEW n \in Sizes,
         Construct(f, p, n)
  PROVE  IInv' /\ Frame(f)
<1> DEFINE o == [Raw EXCEPT !.pc = "idle", !.path = p, !.size = n]
<1>0. n \in Nat
  BY DEF Sizes
<1>1. /\ o \in Objects
      /\ o.pc = "idle" /\ o.op = "ctor" /\ o.path = p /\ o.old = NoFile
      /\ o.size = n /\ o.block = Null /\ o.fd = NoFile
  <2>1. o \in Objects
    BY <1>0 DEF Raw, Objects, Places, Ops, Codes
  <2> QED
    BY <2>1 DEF Raw
<1>2. /\ Become(f, o) /\ UNCHANGED disk /\ UNCHANGED <<hist, carry>>
      /\ overrun' = {} /\ obj[f].pc = "raw"
      /\ unfit' = IF IsFile(p) /\ Len(data[dir[p]]) > n THEN unfit \cup {f}
                                                        ELSE unfit
  BY DEF Construct, Runs
<1> HIDE DEF o
<1>3. TypeOK'
  BY <1>1, <1>2 DEF IInv, TypeOK, Become, disk
<1>4. obj'[f] = o
  BY <1>2 DEF Become, IInv, TypeOK
<1>5. f \notin carry
  BY <1>2 DEF IInv, Sound, Control
<1>6. Sound(f)'
  <2>1. Control(f)'
    BY <1>1, <1>4 DEF Control, Reading, Writing
  <2>2. Source(f)' /\ InStep(f)' /\ Gone(f)'
    BY <1>1, <1>2, <1>4, <1>5 DEF Source, InStep, Gone, Transfers
  <2>3. Fits(f)'
    <3>1. Len(data[dir[p]]) \in Nat \/ ~IsFile(p)
      BY DEF IInv, TypeOK, IsFile
    <3> QED
      BY <1>1, <1>2, <1>4, <3>1 DEF Fits, IsFile, disk, Sizes
  <2> QED
    BY <2>1, <2>2, <2>3 DEF Sound
<1> QED
  BY <1>1, <1>2, <1>3, <1>6, QuietStep

LEMMA ScopeEndStep ==
  ASSUME IInv, NEW f \in Files, ScopeEnd(f)
  PROVE  IInv' /\ Frame(f)
<1>1. /\ Become(f, Raw) /\ UNCHANGED disk /\ overrun' = {}
      /\ hist' = [hist EXCEPT ![f] = {}]
      /\ carry' = carry \ {f} /\ unfit' = unfit \ {f}
  BY DEF ScopeEnd, Runs
<1>2. TypeOK'
  BY <1>1, RawTyped DEF IInv, TypeOK, Become, disk
<1>3. obj'[f] = Raw /\ f \notin carry'
  BY <1>1 DEF Become, IInv, TypeOK
<1>4. Sound(f)'
  <2>1. Control(f)'
    BY <1>3 DEF Control, Raw, Reading, Writing
  <2>2. Source(f)' /\ InStep(f)' /\ Gone(f)' /\ Fits(f)'
    BY <1>3 DEF Source, InStep, Gone, Fits, Raw, IsFile
  <2> QED
    BY <2>1, <2>2 DEF Sound
<1>5. \A g \in Files \ {f} : hist'[g] = hist[g]
  BY <1>1 DEF IInv, TypeOK
<1> QED
  BY <1>1, <1>2, <1>4, <1>5, RawTyped, QuietStep DEF Raw

(* An object that alloc or alloc_and_read destroyed is sound again.        *)
LEMMA DeadSound ==
  ASSUME NEW f \in Files, NEW op \in Ops, NEW code \in Codes,
         obj'[f] = Dead(op, code), f \notin carry'
  PROVE  Dead(op, code) \in Objects /\ Sound(f)'
<1>1. /\ Dead(op, code) \in Objects
      /\ Dead(op, code).pc = "dead" /\ Dead(op, code).path = NoFile
      /\ Dead(op, code).old = NoFile /\ Dead(op, code).block = Null
      /\ Dead(op, code).fd = NoFile
  <2>1. Dead(op, code) \in Objects
    BY DEF Dead, Raw, Objects, Places
  <2> QED
    BY <2>1 DEF Dead, Raw
<1>2. Control(f)'
  BY <1>1 DEF Control, Reading, Writing
<1>3. Source(f)' /\ InStep(f)' /\ Gone(f)' /\ Fits(f)'
  BY <1>1 DEF Source, InStep, Gone, Fits, IsFile
<1> QED
  BY <1>1, <1>2, <1>3 DEF Sound

LEMMA FreshFrame ==
  ASSUME TypeOK, NEW f \in Files, Fresh(f)
  PROVE  /\ hist' \in [Files -> SUBSET Excuses] /\ carry' \subseteq Files
         /\ unfit' = unfit /\ f \notin carry' /\ hist'[f] = {}
         /\ \A g \in Files \ {f} : /\ hist'[g] = hist[g]
                                   /\ g \in carry' <=> g \in carry
                                   /\ g \in unfit' <=> g \in unfit
BY DEF Fresh, TypeOK

LEMMA ZerosLen ==
  ASSUME NEW n \in Nat
  PROVE  Zeros(n) \in Seq(Bytes) /\ Len(Zeros(n)) = n /\ Zeros(n) # Null
<1>1. Zeros(n) = [k \in 1..n |-> 0]
  BY DEF Zeros
<1>2. Zeros(n) \in Seq(Bytes)
  BY <1>1, IsASeq
<1> QED
  BY <1>1, <1>2

(* What is true of an object between calls.                                *)
LEMMA IdleObject ==
  ASSUME IInv, NEW f \in Files, Idle(f)
  PROVE  /\ obj[f] \in Objects /\ obj[f].pc = "idle" /\ obj[f].fd = NoFile
         /\ obj[f].path \in Paths /\ overrun = {}
         /\ obj[f].block # Null =>
              obj[f].block \in Seq(Bytes) /\ Len(obj[f].block) = obj[f].size
BY ObjectType DEF Idle, Runs, IInv, Sound, Control

LEMMA AllocatedStep ==
  ASSUME IInv, NEW f \in Files, NEW op, NEW place, Idle(f),
         <<op, place>> \in {<<"alloc", "idle">>, <<"alloc_and_read", "is_r">>},
         Allocated(f, op, place), Fresh(f), UNCHANGED <<disk, overrun>>
  PROVE  IInv' /\ Frame(f)
<1>1. TypeOK /\ op \in Ops
  BY DEF IInv, Ops, Transfers
<1>2. CASE Become(f, Dead(op, "MEMORY_BAD_ALLOC"))
           \/ Become(f, Dead(op, "CRIT_EX_UNHANDLED"))
  <2>1. PICK code \in Codes : Become(f, Dead(op, code))
    BY <1>2 DEF Codes
  <2>2. obj'[f] = Dead(op, code)
    BY <1>1, <2>1 DEF Become, TypeOK
  <2>3. Dead(op, code) \in Objects /\ Sound(f)'
    BY <1>1, <2>2, DeadSound, FreshFrame
  <2>4. TypeOK'
    BY <1>1, <2>1, <2>3, FreshFrame DEF TypeOK, Become, disk
  <2>5. Dead(op, code).fd = NoFile
    BY DEF Dead, Raw
  <2> QED
    BY <1>1, <2>1, <2>3, <2>4, <2>5, IdleObject, FreshFrame, QuietStep
<1>3. CASE Become(f, [obj[f] EXCEPT !.pc = place, !.op = op, !.rc = "SUCCESS",
                                    !.block = Zeros(obj[f].size),
                                    !.old = NoFile])
  <2> DEFINE o == [obj[f] EXCEPT !.pc = place, !.op = op, !.rc = "SUCCESS",
                                 !.block = Zeros(obj[f].size), !.old = NoFile]
  <2>1. /\ Zeros(obj[f].size) \in Seq(Bytes) /\ obj[f].size \in Nat
        /\ Len(Zeros(obj[f].size)) = obj[f].size /\ Zeros(obj[f].size) # Null
    BY <1>1, ObjectType, ZerosLen
  <2>2. o \in Objects
    BY <1>1, <2>1, IdleObject DEF Objects, Places, Reading, Codes
  <2>3. /\ o.pc = place /\ o.op = op /\ o.rc = "SUCCESS" /\ o.old = NoFile
        /\ o.block = Zeros(obj[f].size) /\ o.size = obj[f].size
        /\ o.path = obj[f].path /\ o.fd = NoFile
    BY IdleObject DEF Objects
  <2>4. Become(f, o)
    BY <1>3
  <2> HIDE DEF o
  <2>5. obj'[f] = o
    BY <1>1, <2>4 DEF Become, TypeOK
  <2>6. TypeOK'
    BY <1>1, <2>2, <2>4, FreshFrame DEF TypeOK, Become, disk
  <2>7. Sound(f)'
    <3>1. Control(f)'
      BY <1>1, <2>1, <2>3, <2>5, FreshFrame, IdleObject
      DEF Control, Reading, Writing
    <3>2. Source(f)' /\ InStep(f)' /\ Gone(f)'
      BY <1>1, <2>3, <2>5, FreshFrame DEF Source, InStep, Gone, Transfers
    <3>3. Fits(f)'
      BY <1>1, <2>3, <2>5, FreshFrame DEF IInv, Sound, Fits, IsFile, disk
    <3> QED
      BY <3>1, <3>2, <3>3 DEF Sound
  <2> QED
    BY <1>1, <2>2, <2>3, <2>4, <2>6, <2>7, IdleObject, FreshFrame, QuietStep
<1> QED
  BY <1>2, <1>3 DEF Allocated

LEMMA AllocStep ==
  ASSUME IInv, NEW f \in Files, Alloc(f)
  PROVE  IInv' /\ Frame(f)
BY AllocatedStep DEF Alloc

LEMMA FillStep ==
  ASSUME IInv, NEW f \in Files, Fill(f)
  PROVE  IInv' /\ Frame(f)
<1> USE DEF Fill
<1>1. TypeOK
  BY DEF IInv
<1>2. PICK c \in [1..obj[f].size -> Bytes] :
        Become(f, [obj[f] EXCEPT !.block = c])
  OBVIOUS
<1> DEFINE o == [obj[f] EXCEPT !.block = c]
<1>3. obj[f].size \in Nat
  BY <1>1, ObjectType
<1>4. c \in Seq(Bytes) /\ Len(c) = obj[f].size /\ c # Null
  BY <1>3
<1>5. o \in Objects
  BY <1>4, IdleObject DEF Objects
<1>6. /\ o.pc = "idle" /\ o.block = c /\ o.fd = NoFile
      /\ o.size = obj[f].size /\ o.path = obj[f].path
  BY IdleObject DEF Objects
<1>7. Become(f, o)
  BY <1>2
<1> HIDE DEF o
<1>8. obj'[f] = o
  BY <1>1, <1>7 DEF Become, TypeOK
<1>9. /\ hist' \in [Files -> SUBSET Excuses] /\ "edited" \in hist'[f]
      /\ \A g \in Files \ {f} : hist'[g] = hist[g]
  BY <1>1 DEF Excused, TypeOK, Excuses
<1>10. TypeOK'
  BY <1>1, <1>5, <1>7, <1>9, IdleObject DEF TypeOK, Become, disk
<1>11. Sound(f)'
  <2>1. Control(f)'
    BY <1>4, <1>6, <1>8, IdleObject DEF Control, Reading, Writing
  <2>2. Source(f)' /\ InStep(f)' /\ Gone(f)'
    BY <1>9 DEF Source, InStep, Gone, Clean
  <2>3. Fits(f)'
    BY <1>6, <1>8 DEF IInv, Sound, Fits, IsFile, disk
  <2> QED
    BY <2>1, <2>2, <2>3 DEF Sound
<1> QED
  BY <1>5, <1>6, <1>7, <1>9, <1>10, <1>11, IdleObject, QuietStep

LEMMA StartReadStep ==
  ASSUME IInv, NEW f \in Files, StartRead(f)
  PROVE  IInv' /\ Frame(f)
<1>1. TypeOK
  BY DEF IInv
<1>2. Idle(f) /\ Fresh(f) /\ UNCHANGED <<disk, overrun>>
  BY DEF StartRead
<1>3. CASE Allocated(f, "alloc_and_read", "is_r")
  BY <1>2, <1>3, AllocatedStep
<1>4. CASE /\ obj[f].block # Null
           /\ Become(f, [obj[f] EXCEPT !.pc = "is_r", !.op = "read",
                                       !.old = NoFile])
  <2> DEFINE o == [obj[f] EXCEPT !.pc = "is_r", !.op = "read", !.old = NoFile]
  <2>1. o \in Objects
    BY <1>2, IdleObject DEF Objects, Places, Reading, Ops, Transfers
  <2>2. /\ o.pc = "is_r" /\ o.op = "read" /\ o.old = NoFile /\ o.fd = NoFile
        /\ o.block = obj[f].block /\ o.size = obj[f].size
        /\ o.path = obj[f].path
    BY <1>2, IdleObject DEF Objects
  <2>3. Become(f, o)
    BY <1>4
  <2> HIDE DEF o
  <2>4. obj'[f] = o
    BY <1>1, <2>3 DEF Become, TypeOK
  <2>5. TypeOK'
    BY <1>1, <1>2, <2>1, <2>3, FreshFrame DEF TypeOK, Become, disk
  <2>6. Sound(f)'
    <3>1. Control(f)'
      BY <1>1, <1>2, <1>4, <2>2, <2>4, FreshFrame, IdleObject
      DEF Control, Reading, Writing
    <3>2. Source(f)' /\ InStep(f)' /\ Gone(f)'
      BY <1>1, <1>2, <2>2, <2>4, FreshFrame DEF Source, InStep, Gone
    <3>3. Fits(f)'
      BY <1>1, <1>2, <2>2, <2>4, FreshFrame
      DEF IInv, Sound, Fits, IsFile, disk
    <3> QED
      BY <3>1, <3>2, <3>3 DEF Sound
  <2> QED
    BY <1>1, <1>2, <2>1, <2>2, <2>3, <2>5, <2>6, IdleObject, FreshFrame,
       QuietStep
<1> QED
  BY <1>3, <1>4 DEF StartRead

-----------------------------------------------------------------------------
(* The steps of a read.                                                    *)

LEMMA ReadingObject ==
  ASSUME IInv, NEW f \in Files, obj[f].pc \in Reading
  PROVE  /\ obj[f] \in Objects /\ obj[f].op \in {"read", "alloc_and_read"}
         /\ obj[f].block \in Seq(Bytes) /\ Len(obj[f].block) = obj[f].size
         /\ obj[f].path \in Paths /\ f \notin carry
         /\ obj[f].pc # "read" => obj[f].fd = NoFile
BY ObjectType DEF IInv, Sound, Control, Reading

LEMMA EndErrorStep ==
  ASSUME IInv, NEW f \in Files,
         NEW code \in Codes \ {"SUCCESS"},
         Runs(f, "is_r") \/ Runs(f, "open_r"),
         EndRead(f, Return(f, code)), UNCHANGED <<disk, history, overrun>>
  PROVE  IInv' /\ Frame(f)
<1>1. /\ TypeOK /\ obj[f].pc \in Reading \ {"read"} /\ overrun = {}
      /\ hist' = hist /\ carry' = carry /\ unfit' = unfit
  BY DEF IInv, Runs, Reading, history
<1>2. CASE Become(f, Return(f, code))
  <2> DEFINE o == Return(f, code)
  <2>1. o \in Objects
    BY <1>1, ReadingObject DEF Return, Objects, Places
  <2>2. /\ o.pc = "idle" /\ o.rc = code /\ o.fd = NoFile /\ o.op = obj[f].op
        /\ o.block = obj[f].block /\ o.size = obj[f].size
        /\ o.path = obj[f].path
    BY <1>1, ReadingObject DEF Return, Objects
  <2>3. Become(f, o)
    BY <1>2
  <2> HIDE DEF o
  <2>4. obj'[f] = o
    BY <1>1, <2>3 DEF Become, TypeOK
  <2>5. TypeOK'
    BY <1>1, <2>1, <2>3 DEF TypeOK, Become, disk
  <2>6. Sound(f)'
    <3>1. Control(f)'
      BY <1>1, <2>2, <2>4, ReadingObject DEF Control, Reading, Writing
    <3>2. Source(f)' /\ InStep(f)' /\ Gone(f)'
      BY <1>1, <2>2, <2>4, ReadingObject DEF Source, InStep, Gone
    <3>3. Fits(f)'
      BY <1>1, <2>2, <2>4 DEF IInv, Sound, Fits, IsFile, disk
    <3> QED
      BY <3>1, <3>2, <3>3 DEF Sound
  <2> QED
    BY <1>1, <2>1, <2>2, <2>3, <2>5, <2>6, QuietStep
<1>3. CASE Become(f, Dead("alloc_and_read", "CRIT_EX_UNHANDLED"))
  <2> DEFINE o == Dead("alloc_and_read", "CRIT_EX_UNHANDLED")
  <2>1. obj'[f] = o
    BY <1>1, <1>3 DEF Become, TypeOK
  <2>2. o \in Objects /\ Sound(f)'
    BY <1>1, <2>1, DeadSound, ReadingObject DEF Ops, Transfers, Codes
  <2>3. TypeOK'
    BY <1>1, <1>3, <2>2 DEF TypeOK, Become, disk
  <2>4. o.fd = NoFile
    BY DEF Dead, Raw
  <2> QED
    BY <1>1, <1>3, <2>2, <2>3, <2>4, QuietStep
<1> QED
  BY <1>2, <1>3 DEF EndRead

LEMMA IsRStep ==
  ASSUME IInv, NEW f \in Files, IsR(f)
  PROVE  IInv' /\ Frame(f)
<1>1. /\ TypeOK /\ obj[f].pc = "is_r" /\ overrun = {} /\ Runs(f, "is_r")
      /\ UNCHANGED <<disk, history, overrun>>
      /\ hist' = hist /\ carry' = carry /\ unfit' = unfit
  BY DEF IInv, IsR, Runs, history
<1>2. CASE \E code \in Codes \ {"SUCCESS"} : EndRead(f, Return(f, code))
  BY <1>1, <1>2, EndErrorStep
<1>3. CASE Become(f, [obj[f] EXCEPT !.pc = "open_r"])
  <2> DEFINE o == [obj[f] EXCEPT !.pc = "open_r"]
  <2>1. o \in Objects
    BY <1>1, ReadingObject DEF Objects, Places, Reading
  <2>2. /\ o.pc = "open_r" /\ o.fd = NoFile /\ o.op = obj[f].op
        /\ o.block = obj[f].block /\ o.size = obj[f].size
        /\ o.path = obj[f].path
    BY <1>1, ReadingObject DEF Objects, Reading
  <2>3. Become(f, o)
    BY <1>3
  <2> HIDE DEF o
  <2>4. obj'[f] = o
    BY <1>1, <2>3 DEF Become, TypeOK
  <2>5. TypeOK'
    BY <1>1, <2>1, <2>3 DEF TypeOK, Become, disk
  <2>6. Sound(f)'
    <3>1. Control(f)'
      BY <1>1, <2>2, <2>4, ReadingObject DEF Control, Reading, Writing
    <3>2. Source(f)' /\ InStep(f)' /\ Gone(f)'
      BY <1>1, <2>2, <2>4, ReadingObject DEF Source, InStep, Gone, Reading
    <3>3. Fits(f)'
      BY <1>1, <2>2, <2>4 DEF IInv, Sound, Fits, IsFile, disk
    <3> QED
      BY <3>1, <3>2, <3>3 DEF Sound
  <2> QED
    BY <1>1, <2>1, <2>2, <2>3, <2>5, <2>6, QuietStep
<1> QED
  BY <1>2, <1>3 DEF IsR, Codes

LEMMA OpenRStep ==
  ASSUME IInv, NEW f \in Files, OpenR(f)
  PROVE  IInv' /\ Frame(f)
<1>1. /\ TypeOK /\ obj[f].pc = "open_r" /\ overrun = {} /\ Runs(f, "open_r")
      /\ UNCHANGED <<disk, history, overrun>>
      /\ hist' = hist /\ carry' = carry /\ unfit' = unfit
  BY DEF IInv, OpenR, Runs, history
<1>2. CASE EndRead(f, Return(f, "FS_CTOR_ERRO"))
  BY <1>1, <1>2, EndErrorStep DEF Codes
<1>3. CASE /\ IsFile(obj[f].path)
           /\ Become(f, [obj[f] EXCEPT !.pc = "read",
                                       !.fd = dir[obj[f].path],
                                       !.at = Len(data[dir[obj[f].path]])])
  <2> DEFINE o == [obj[f] EXCEPT !.pc = "read", !.fd = dir[obj[f].path],
                                 !.at = Len(data[dir[obj[f].path]])]
  <2>1. /\ dir[obj[f].path] \in Inodes /\ dir[obj[f].path] # NoFile
        /\ Len(data[dir[obj[f].path]]) \in Nat
    BY <1>1, <1>3 DEF IsFile, TypeOK
  <2>2. o \in Objects
    BY <1>1, <2>1, ReadingObject DEF Objects, Places, Reading
  <2>3. /\ o.pc = "read" /\ o.fd = dir[obj[f].path] /\ o.op = obj[f].op
        /\ o.block = obj[f].block /\ o.size = obj[f].size
        /\ o.path = obj[f].path /\ o.at = Len(data[dir[obj[f].path]])
    BY <1>1, ReadingObject DEF Objects, Reading
  <2>4. Become(f, o)
    BY <1>3
  <2> HIDE DEF o
  <2>5. obj'[f] = o
    BY <1>1, <2>4 DEF Become, TypeOK
  <2>6. TypeOK'
    BY <1>1, <2>2, <2>4 DEF TypeOK, Become, disk
  <2>7. Sound(f)'
    <3>1. Control(f)'
      BY <1>1, <2>1, <2>3, <2>5, ReadingObject DEF Control, Reading, Writing
    <3>2. Source(f)' /\ Gone(f)'
      BY <1>1, <2>3, <2>5, ReadingObject DEF Source, Gone, Reading
    <3>3. InStep(f)'
      BY <1>1, <2>3, <2>5 DEF InStep, disk
    <3>4. Fits(f)'
      BY <1>1, <2>3, <2>5 DEF IInv, Sound, Fits, IsFile, disk
    <3> QED
      BY <3>1, <3>2, <3>3, <3>4 DEF Sound
  <2>8. obj[f].path \in Paths
    BY <1>3 DEF IsFile
  <2> QED
    BY <1>1, <2>2, <2>3, <2>4, <2>6, <2>7, <2>8, QuietStep
<1> QED
  BY <1>2, <1>3 DEF OpenR

(* A step that closes a file: only what nobody can reach is lost.          *)
LEMMA ClosedDisk ==
  ASSUME TypeOK, NEW f \in Files, NEW o \in Objects, Become(f, o),
         UNCHANGED dir, data' = Collected(dir, obj', data)
  PROVE  /\ data' \in [Inodes -> Seq(Bytes)]
         /\ obj' \in [Files -> Objects] /\ obj'[f] = o
         /\ \A g \in Files \ {f} : obj'[g] = obj[g]
         /\ \A p \in Paths : dir[p] \in Inodes =>
              data'[dir[p]] = data[dir[p]]
         /\ \A g \in Files \ {f} : obj[g].fd \in Inodes =>
              data'[obj[g].fd] = data[obj[g].fd]
<1>1. data' \in [Inodes -> Seq(Bytes)]
  BY DEF Collected, TypeOK
<1>2. /\ obj' \in [Files -> Objects] /\ obj'[f] = o
      /\ \A g \in Files \ {f} : obj'[g] = obj[g]
  BY DEF Become, TypeOK
<1>3. \A p \in Paths : dir[p] \in Inodes => data'[dir[p]] = data[dir[p]]
  BY CollectedKeeps DEF Used
<1>4. \A g \in Files \ {f} : obj[g].fd \in Inodes =>
        data'[obj[g].fd] = data[obj[g].fd]
  BY <1>2, CollectedKeeps DEF Used
<1> QED
  BY <1>1, <1>2, <1>3, <1>4

LEMMA CloseFileStep ==
  ASSUME IInv, NEW f \in Files, NEW o \in Objects, Become(f, o),
         o.fd = NoFile, UNCHANGED <<dir, carry, unfit>>,
         data' = Collected(dir, obj', data), TypeOK',
         \A g \in Files \ {f} : hist'[g] = hist[g],
         OverrunOnlyIfUnfit', Sound(f)'
  PROVE  IInv' /\ Frame(f)
<1>1. TypeOK
  BY DEF IInv
<1>2. NoLinks' /\ OpenAtPath'
  BY <1>1, ClosedDisk DEF IInv, NoLinks, OpenAtPath
<1>3. \A g \in Files \ {f} : Undisturbed(g)
  BY <1>1, ClosedDisk DEF Undisturbed
<1> QED
  BY <1>1, <1>2, <1>3, UndisturbedSound DEF IInv, Frame

LEMMA ReadBlockStep ==
  ASSUME IInv, NEW f \in Files, ReadBlock(f)
  PROVE  IInv' /\ Frame(f)
<1> DEFINE file == data[obj[f].fd]
           all == Smaller(obj[f].at, Len(file))
           size == obj[f].size
           block(n) == IF n > size THEN obj[f].block
                       ELSE Overlay(obj[f].block, 0, SubSeq(file, 1, n))
           o(n, code) == [Return(f, code) EXCEPT !.fd = NoFile,
                                                 !.block = block(n)]
           reasons(n) == (IF n < all THEN {"io"} ELSE {})
                           \cup (IF n # size THEN {"misfit"} ELSE {})
<1>1. /\ TypeOK /\ obj[f].pc = "read"
      /\ UNCHANGED <<dir, carry, unfit>>
      /\ data' = Collected(dir, obj', data)
  BY DEF IInv, ReadBlock, Runs
<1>2. PICK n \in 0..all, code \in {"SUCCESS", "CRIT_EX_UNHANDLED"} :
        /\ EndRead(f, o(n, code))
        /\ overrun' = IF n > size THEN {f} ELSE {}
        /\ hist' = [hist EXCEPT ![f] =
             @ \cup (IF n < all THEN {"io"} ELSE {})
               \cup (IF n # size THEN {"misfit"} ELSE {})]
  BY DEF ReadBlock
<1>3. /\ obj[f].fd \in Inodes /\ obj[f].fd # NoFile /\ file \in Seq(Bytes)
      /\ Len(file) \in Nat /\ size \in Nat /\ obj[f].at \in Nat
  BY <1>1, ObjectType DEF IInv, Sound, Control, TypeOK
<1>4. n \in Nat /\ n <= Len(file) /\ all <= obj[f].at
  BY <1>3 DEF Smaller
<1>5. /\ obj[f] \in Objects /\ obj[f].op \in {"read", "alloc_and_read"}
      /\ obj[f].block \in Seq(Bytes) /\ Len(obj[f].block) = size
      /\ obj[f].path \in Paths /\ f \notin carry
  BY <1>1, ReadingObject DEF Reading
<1>6. /\ SubSeq(file, 1, n) \in Seq(Bytes) /\ Len(SubSeq(file, 1, n)) = n
      /\ n = Len(file) => SubSeq(file, 1, n) = file
  BY <1>3, <1>4
<1>7. block(n) \in Seq(Bytes) /\ Len(block(n)) = size /\ block(n) # Null
  <2>1. CASE n > size
    BY <1>5, <2>1
  <2>2. CASE n <= size
    <3> DEFINE b == SubSeq(file, 1, n)
    <3>1. /\ Overlay(obj[f].block, 0, b) \in Seq(Bytes)
          /\ Len(Overlay(obj[f].block, 0, b)) =
               IF 0 + Len(b) > Len(obj[f].block) THEN 0 + Len(b)
                                                 ELSE Len(obj[f].block)
      BY <1>5, <1>6, OverlayLen
    <3> HIDE DEF b
    <3>2. Len(b) = n /\ ~(n > size)
      BY <1>3, <1>4, <1>6, <2>2 DEF b
    <3>3. block(n) = Overlay(obj[f].block, 0, b)
      BY <3>2 DEF b
    <3> QED
      BY <1>3, <1>4, <1>5, <3>1, <3>2, <3>3
  <2> QED
    BY <1>3, <1>4, <2>1, <2>2
<1>8. /\ hist' \in [Files -> SUBSET Excuses]
      /\ \A g \in Files \ {f} : hist'[g] = hist[g]
      /\ hist'[f] = hist[f] \cup reasons(n)
  BY <1>1, <1>2 DEF TypeOK, Excuses
<1>9. OverrunOnlyIfUnfit' /\ overrun' \subseteq Files
  <2>1. n > size => f \in unfit
    BY <1>3, <1>4, <1>5 DEF IInv, Sound, Fits, IsFile
  <2> QED
    BY <1>1, <1>2, <2>1 DEF OverrunOnlyIfUnfit
<1>10. CASE Become(f, Dead("alloc_and_read", "CRIT_EX_UNHANDLED"))
  <2> DEFINE d == Dead("alloc_and_read", "CRIT_EX_UNHANDLED")
  <2>1. obj'[f] = d
    BY <1>1, <1>10 DEF Become, TypeOK
  <2>2. d \in Objects /\ Sound(f)'
    BY <1>1, <1>5, <2>1, DeadSound DEF Ops, Transfers, Codes
  <2>3. TypeOK'
    BY <1>1, <1>8, <1>9, <1>10, <2>2, ClosedDisk DEF TypeOK
  <2>4. d.fd = NoFile
    BY DEF Dead, Raw
  <2> QED
    BY <1>1, <1>8, <1>9, <1>10, <2>2, <2>3, <2>4, CloseFileStep
<1>11. CASE Become(f, o(n, code))
  <2> DEFINE s == o(n, code)
  <2>1. s \in Objects
    <3>1. Return(f, code) \in Objects
      BY <1>5 DEF Return, Objects, Places, Codes
    <3> QED
      BY <1>7, <3>1 DEF Objects
  <2>2. /\ s.pc = "idle" /\ s.rc = code /\ s.fd = NoFile
        /\ s.op = obj[f].op /\ s.block = block(n) /\ s.size = size
        /\ s.path = obj[f].path
    BY <1>5 DEF Return, Objects
  <2>3. Become(f, s)
    BY <1>11
  <2> HIDE DEF s
  <2>4. TypeOK'
    BY <1>1, <1>8, <1>9, <2>1, <2>3, ClosedDisk DEF TypeOK
  <2>5. obj'[f] = s
    BY <1>1, <2>1, <2>3, ClosedDisk
  <2>6. dir[obj[f].path] \in Inodes =>
          data'[dir[obj[f].path]] = data[dir[obj[f].path]]
    BY <1>1, <1>5, <2>1, <2>3, ClosedDisk
  <2>7. InStep(f)'
    <3> SUFFICES ASSUME hist'[f] \subseteq {"remove"}
                 PROVE  At(obj[f].path)' = s.block
      BY <2>2, <2>5 DEF InStep, Clean
    <3>1. Clean(f) /\ reasons(n) \subseteq {"remove"}
      BY <1>8 DEF Clean
    <3>5. ~(n < all) /\ n = size
      BY <3>1
    <3>2. dir[obj[f].path] = obj[f].fd /\ obj[f].at = Len(file)
      BY <1>1, <3>1 DEF IInv, Sound, InStep
    <3>3. n = Len(file)
      BY <1>3, <3>2, <3>5 DEF Smaller
    <3>4. block(n) = file
      <4>1. ~(n > size) /\ SubSeq(file, 1, n) = file /\ Len(file) = size
        BY <1>3, <1>6, <3>3, <3>5
      <4>2. Overlay(obj[f].block, 0, file) = file
        BY <1>3, <1>5, <4>1, OverlayWhole
      <4> QED
        BY <4>1, <4>2
    <3> QED
      BY <1>1, <1>3, <1>5, <2>2, <2>5, <2>6, <3>2, <3>4 DEF At, IsFile
  <2>8. Control(f)'
    BY <1>1, <1>5, <1>7, <2>2, <2>5 DEF Control, Reading, Writing
  <2>9. Source(f)' /\ Gone(f)'
    BY <1>1, <1>5, <2>2, <2>5 DEF Source, Gone
  <2>10. Fits(f)'
    BY <1>1, <1>5, <2>2, <2>5, <2>6 DEF IInv, Sound, Fits, IsFile
  <2> QED
    BY <1>1, <1>8, <1>9, <2>1, <2>2, <2>3, <2>4, <2>7, <2>8, <2>9, <2>10,
       CloseFileStep DEF Sound
<1> QED
  BY <1>2, <1>10, <1>11 DEF EndRead

-----------------------------------------------------------------------------
(* The steps of a write.                                                   *)

LEMMA StartWriteStep ==
  ASSUME IInv, NEW f \in Files, NEW op \in {"write", "copy_to", "move_to"},
         NEW dst \in Paths, op = "write" => dst = obj[f].path,
         StartWrite(f, op, dst)
  PROVE  IInv' /\ Frame(f)
<1>1. /\ TypeOK /\ Idle(f) /\ UNCHANGED <<disk, overrun>>
      /\ op \in Ops
  BY DEF IInv, StartWrite, Ops, Transfers
<1>2. CASE /\ Become(f, [Return(f, "MEMORY_BLOCK_EMPTY") EXCEPT !.op = op])
           /\ Fresh(f)
  <2> DEFINE o == [Return(f, "MEMORY_BLOCK_EMPTY") EXCEPT !.op = op]
  <2>1. o \in Objects
    <3>1. Return(f, "MEMORY_BLOCK_EMPTY") \in Objects
      BY <1>1, IdleObject DEF Return, Objects, Places, Codes
    <3> QED
      BY <1>1, <3>1 DEF Objects
  <2>2. /\ o.pc = "idle" /\ o.rc = "MEMORY_BLOCK_EMPTY" /\ o.fd = NoFile
        /\ o.block = obj[f].block /\ o.size = obj[f].size
        /\ o.path = obj[f].path
    BY <1>1, IdleObject DEF Return, Objects
  <2>3. Become(f, o)
    BY <1>2
  <2> HIDE DEF o
  <2>4. obj'[f] = o
    BY <1>1, <2>3 DEF Become, TypeOK
  <2>5. TypeOK'
    BY <1>1, <1>2, <2>1, <2>3, FreshFrame, IdleObject, TypeStep DEF TypeOK
  <2>6. Sound(f)'
    <3>1. Control(f)'
      BY <1>1, <1>2, <2>2, <2>4, FreshFrame, IdleObject
      DEF Control, Reading, Writing
    <3>2. Source(f)' /\ InStep(f)' /\ Gone(f)'
      BY <1>1, <1>2, <2>2, <2>4, FreshFrame DEF Source, InStep, Gone
    <3>3. Fits(f)'
      BY <1>1, <1>2, <2>2, <2>4, FreshFrame
      DEF IInv, Sound, Fits, IsFile, disk
    <3> QED
      BY <3>1, <3>2, <3>3 DEF Sound
  <2> QED
    BY <1>1, <1>2, <2>1, <2>2, <2>3, <2>5, <2>6, IdleObject, FreshFrame,
       QuietStep
<1>3. CASE /\ obj[f].block # Null
           /\ Become(f, [obj[f] EXCEPT !.pc = "open_w", !.op = op,
                                       !.old = obj[f].path, !.path = dst])
           /\ hist' = [hist EXCEPT ![f] =
                IF op = "move_to" /\ dst = obj[f].path THEN {"self"} ELSE {}]
           /\ carry' = IF dst # obj[f].path /\ At(obj[f].path) = obj[f].block
                         THEN carry \cup {f} ELSE carry \ {f}
           /\ unfit' = IF dst = obj[f].path THEN unfit ELSE unfit \cup {f}
  <2> DEFINE o == [obj[f] EXCEPT !.pc = "open_w", !.op = op,
                                 !.old = obj[f].path, !.path = dst]
  <2>1. o \in Objects
    <3>1. "open_w" \in Places /\ obj[f].path \in Paths /\ obj[f] \in Objects
      BY <1>1, IdleObject DEF Places, Writing
    <3> QED
      BY <1>1, <3>1 DEF Objects
  <2>2. /\ o.pc = "open_w" /\ o.op = op /\ o.fd = NoFile
        /\ o.block = obj[f].block /\ o.size = obj[f].size
        /\ o.path = dst /\ o.old = obj[f].path
    BY <1>1, IdleObject DEF Objects
  <2>3. Become(f, o)
    BY <1>3
  <2> HIDE DEF o
  <2>4. obj'[f] = o
    BY <1>1, <2>3 DEF Become, TypeOK
  <2>5. /\ hist' \in [Files -> SUBSET Excuses] /\ carry' \subseteq Files
        /\ unfit' \subseteq Files
        /\ op = "move_to" /\ dst = obj[f].path => "self" \in hist'[f]
        /\ \A g \in Files \ {f} : /\ hist'[g] = hist[g]
                                  /\ g \in carry' <=> g \in carry
                                  /\ g \in unfit' <=> g \in unfit
    <3>1. /\ carry' \subseteq Files /\ unfit' \subseteq Files
          /\ \A g \in Files \ {f} : /\ g \in carry' <=> g \in carry
                                    /\ g \in unfit' <=> g \in unfit
      BY <1>1, <1>3 DEF TypeOK
    <3>2. /\ hist' \in [Files -> SUBSET Excuses]
          /\ op = "move_to" /\ dst = obj[f].path => "self" \in hist'[f]
          /\ \A g \in Files \ {f} : hist'[g] = hist[g]
      BY <1>1, <1>3 DEF TypeOK, Excuses
    <3> QED
      BY <3>1, <3>2
  <2>6. TypeOK'
    BY <1>1, <2>1, <2>3, <2>5 DEF TypeOK, Become, disk
  <2>7. Sound(f)'
    <3>1. Control(f)'
      BY <1>1, <1>3, <2>2, <2>4, <2>5, IdleObject
      DEF Control, Reading, Writing
    <3>2. Source(f)'
      <4>1. f \in carry' =>
              dst # obj[f].path /\ At(obj[f].path) = obj[f].block
        BY <1>3
      <4> QED
        BY <1>1, <1>3, <2>2, <2>4, <4>1, IdleObject
        DEF Source, At, IsFile, disk
    <3>3. InStep(f)' /\ Gone(f)'
      BY <2>2, <2>4 DEF InStep, Gone
    <3>4. Fits(f)'
      BY <1>1, <1>3, <2>2, <2>4, IdleObject DEF IInv, Sound, Fits, IsFile, disk
    <3> QED
      BY <3>1, <3>2, <3>3, <3>4 DEF Sound
  <2> QED
    BY <1>1, <2>1, <2>2, <2>3, <2>5, <2>6, <2>7, IdleObject, QuietStep
<1> QED
  BY <1>2, <1>3 DEF StartWrite

LEMMA WritingObject ==
  ASSUME IInv, NEW f \in Files, obj[f].pc \in Writing
  PROVE  /\ TypeOK /\ obj[f] \in Objects
         /\ obj[f].op \in {"write", "copy_to", "move_to"}
         /\ obj[f].block \in Seq(Bytes) /\ obj[f].block # Null
         /\ Len(obj[f].block) = obj[f].size
         /\ obj[f].path \in Paths /\ obj[f].old \in Paths
         /\ obj[f].pc \in {"open_w", "remove"} => obj[f].fd = NoFile
         /\ obj[f].fd = NoFile \/ obj[f].fd \in Inodes
         /\ f \in carry => obj[f].old # obj[f].path
BY ObjectType DEF IInv, Sound, Control, Source, Writing

LEMMA TouchedFrame ==
  ASSUME TypeOK, NEW f \in Files, NEW ps, NEW i, Touched(f, ps, i)
  PROVE  /\ hist' \in [Files -> SUBSET Excuses] /\ hist'[f] = hist[f]
         /\ \A g \in Concerned(f, ps, i) : hist'[g] = hist[g] \cup {"touched"}
         /\ \A g \in Files \ Concerned(f, ps, i) : hist'[g] = hist[g]
BY DEF Touched, Concerned, TypeOK, Excuses

(* A step that changes the entries ps and the contents of i either         *)
(* concerns another object or leaves its files alone.                      *)
LEMMA OthersFrame ==
  ASSUME IInv, NEW f \in Files, NEW ps, NEW i, Touched(f, ps, i),
         \A g \in Files \ {f} : obj'[g] = obj[g], carry' = carry,
         \A g \in Files \ {f} : g \in unfit' <=>
           g \in unfit \/ g \in Concerned(f, ps, i),
         \A q \in Paths \ ps :
           /\ dir'[q] = dir[q]
           /\ dir[q] \in Inodes \ {i} => data'[dir[q]] = data[dir[q]],
         \A g \in Files \ {f} :
           obj[g].fd \in Inodes \ {i} => data'[obj[g].fd] = data[obj[g].fd]
  PROVE  Frame(f) /\ \A g \in Files \ {f} : Sound(g)'
<1> SUFFICES ASSUME NEW g \in Files \ {f}
             PROVE  /\ Undisturbed(g) \/ Disturbed(g)
                    /\ Sound(g)'
  BY DEF Frame
<1>1. TypeOK /\ Sound(g)
  BY DEF IInv
<1>2. CASE g \in Concerned(f, ps, i)
  BY <1>1, <1>2, TouchedFrame, DisturbedSound DEF Disturbed
<1>3. CASE g \notin Concerned(f, ps, i)
  <2>1. /\ \A q \in Paths \cap {obj[g].path, obj[g].old} :
             q \notin ps /\ dir[q] # i
        /\ obj[g].fd # i
    BY <1>3 DEF Concerned
  <2> QED
    BY <1>1, <1>3, <2>1, TouchedFrame, UndisturbedSound DEF Undisturbed
<1> QED
  BY <1>2, <1>3

LEMMA OpenWStep ==
  ASSUME IInv, NEW f \in Files, OpenW(f)
  PROVE  IInv' /\ Frame(f)
<1> DEFINE p == obj[f].path
<1>1. /\ obj[f].pc = "open_w" /\ overrun = {} /\ obj[f].pc \in Writing
      /\ UNCHANGED <<carry, overrun>>
  BY DEF OpenW, Runs, Writing
<1>2. /\ TypeOK /\ obj[f].fd = NoFile
  BY <1>1, WritingObject
<1>3. CASE /\ Become(f, [obj[f] EXCEPT !.pc = "close"])
           /\ Excused(f, "open")
           /\ UNCHANGED <<disk, unfit>>
  <2> DEFINE o == [obj[f] EXCEPT !.pc = "close"]
  <2>1. o \in Objects
    BY <1>1, WritingObject DEF Objects, Places, Writing
  <2>2. /\ o.pc = "close" /\ o.fd = NoFile /\ o.op = obj[f].op
        /\ o.block = obj[f].block /\ o.size = obj[f].size
        /\ o.path = obj[f].path /\ o.old = obj[f].old
    BY <1>1, <1>2, WritingObject DEF Objects
  <2>3. Become(f, o)
    BY <1>3
  <2> HIDE DEF o
  <2>4. obj'[f] = o
    BY <1>2, <2>3 DEF Become, TypeOK
  <2>5. /\ hist' \in [Files -> SUBSET Excuses]
        /\ hist'[f] = hist[f] \cup {"open"}
        /\ \A g \in Files \ {f} : hist'[g] = hist[g]
    BY <1>2, <1>3 DEF Excused, TypeOK, Excuses
  <2>6. TypeOK'
    BY <1>1, <1>2, <1>3, <2>1, <2>3, <2>5, TypeStep DEF TypeOK
  <2>7. Sound(f)'
    <3>1. Control(f)'
      BY <1>1, <1>3, <2>2, <2>4, <2>5, WritingObject
      DEF IInv, Sound, Control, Reading, Writing
    <3>2. Source(f)'
      BY <1>1, <1>3, <2>2, <2>4, <2>5
      DEF IInv, Sound, Source, At, IsFile, disk
    <3>3. InStep(f)' /\ Gone(f)'
      <4>1. ~Clean(f)'
        BY <2>5 DEF Clean
      <4> QED
        BY <2>2, <2>4, <4>1 DEF InStep, Gone
    <3>4. Fits(f)'
      BY <1>1, <1>3, <2>2, <2>4 DEF IInv, Sound, Fits, IsFile, disk
    <3> QED
      BY <3>1, <3>2, <3>3, <3>4 DEF Sound
  <2> QED
    BY <1>1, <1>3, <2>1, <2>2, <2>3, <2>5, <2>6, <2>7, QuietStep
<1>4. ASSUME NEW i \in Inodes,
             dir[p] = i \/ (dir[p] = NoFile /\ i \notin Used(dir, obj)),
             dir' = [dir EXCEPT ![p] = i],
             data' = [data EXCEPT ![i] = Truncated(@)],
             Become(f, [obj[f] EXCEPT !.pc = "flush", !.fd = i, !.at = 0]),
             Touched(f, {p}, i),
             unfit' = (unfit \cup Concerned(f, {p}, i)) \ {f}
      PROVE  IInv' /\ Frame(f)
  <2> DEFINE o == [obj[f] EXCEPT !.pc = "flush", !.fd = i, !.at = 0]
  <2>1. o \in Objects
    BY <1>1, WritingObject DEF Objects, Places, Writing
  <2>2. /\ o.pc = "flush" /\ o.fd = i /\ o.at = 0 /\ o.op = obj[f].op
        /\ o.block = obj[f].block /\ o.size = obj[f].size
        /\ o.path = p /\ o.old = obj[f].old /\ i # NoFile
    BY <1>1, WritingObject DEF Objects
  <2>3. Become(f, o)
    BY <1>4
  <2> HIDE DEF o
  <2>4. obj'[f] = o /\ \A g \in Files \ {f} : obj'[g] = obj[g]
    BY <1>2, <2>3 DEF Become, TypeOK
  <2>5. p \in Paths
    BY <1>1, WritingObject
  <2>6. /\ dir'[p] = i /\ data'[i] = <<>>
        /\ \A q \in Paths \ {p} : dir'[q] = dir[q] /\ dir[q] # i
        /\ \A j \in Inodes \ {i} : data'[j] = data[j]
        /\ data' \in [Inodes -> Seq(Bytes)]
        /\ dir' \in [Paths -> Inodes \cup {NoFile, Special}]
    <3>1. \A q \in Paths \ {p} : dir[q] # i
      BY <1>4, <2>5 DEF IInv, NoLinks, Used
    <3> QED
      BY <1>2, <1>4, <2>5, <3>1 DEF TypeOK, Truncated
  <2>7. \A g \in Files \ {f} : obj[g].fd = i => obj[g].path = p
    BY <1>4, <2>2, <2>5 DEF IInv, OpenAtPath, Used
  <2>8. TypeOK'
    <3>1. hist' \in [Files -> SUBSET Excuses]
      BY <1>2, <1>4, TouchedFrame
    <3>2. unfit' \subseteq Files /\ carry' \subseteq Files
      BY <1>1, <1>2, <1>4 DEF TypeOK, Concerned
    <3> QED
      BY <1>1, <1>2, <2>1, <2>3, <2>6, <3>1, <3>2 DEF TypeOK, Become
  <2>9. NoLinks' /\ OpenAtPath'
    <3>1. NoLinks'
      BY <2>6 DEF IInv, NoLinks
    <3>2. OpenAtPath'
      BY <2>2, <2>4, <2>6, <2>7 DEF IInv, OpenAtPath
    <3> QED
      BY <3>1, <3>2
  <2>10. Frame(f) /\ \A g \in Files \ {f} : Sound(g)'
    BY <1>1, <1>4, <2>4, <2>6, OthersFrame
  <2>11. hist'[f] = hist[f] /\ f \notin unfit'
    BY <1>2, <1>4, TouchedFrame
  <2>12. Sound(f)'
    <3>1. Control(f)'
      BY <1>1, <2>2, <2>4, <2>11, WritingObject, ObjectType
      DEF IInv, Sound, Control, Reading, Writing, Objects
    <3>2. Source(f)'
      BY <1>1, <2>2, <2>4, <2>6, <2>11
      DEF IInv, Sound, Source, At, IsFile
    <3>3. InStep(f)' /\ Gone(f)'
      <4>1. SubSeq(obj[f].block, 1, 0) = <<>>
        BY <1>1, WritingObject
      <4> QED
        BY <2>2, <2>4, <2>6, <4>1 DEF InStep, Gone
    <3>4. Fits(f)'
      BY <1>2, <2>2, <2>4, <2>6, ObjectType DEF Fits, IsFile
    <3> QED
      BY <3>1, <3>2, <3>3, <3>4 DEF Sound
  <2> QED
    BY <1>1, <2>8, <2>9, <2>10, <2>12 DEF IInv, OverrunOnlyIfUnfit
<1> QED
  BY <1>3, <1>4 DEF OpenW

(* The two ways a loop of write ends; only the first leaves a whole file.  *)
LEMMA FlushEndStep ==
  ASSUME IInv, NEW f \in Files, Runs(f, "flush"),
         Become(f, [obj[f] EXCEPT !.pc = "close"]),
         UNCHANGED <<disk, carry, unfit, overrun>>,
         \/ obj[f].at = obj[f].size /\ hist' = hist
         \/ Excused(f, "io")
  PROVE  IInv' /\ Frame(f)
<1> DEFINE o == [obj[f] EXCEPT !.pc = "close"]
<1>1. obj[f].pc = "flush" /\ obj[f].pc \in Writing /\ overrun = {} /\ TypeOK
  BY DEF Runs, Writing, IInv
<1>2. o \in Objects
  BY <1>1, WritingObject DEF Objects, Places, Writing
<1>3. /\ o.pc = "close" /\ o.fd = obj[f].fd /\ o.op = obj[f].op
      /\ o.block = obj[f].block /\ o.size = obj[f].size
      /\ o.path = obj[f].path /\ o.old = obj[f].old
  BY <1>1, WritingObject DEF Objects
<1>4. Become(f, o)
  OBVIOUS
<1> HIDE DEF o
<1>5. obj'[f] = o
  BY <1>1, <1>4 DEF Become, TypeOK
<1>6. /\ hist' \in [Files -> SUBSET Excuses]
      /\ \A g \in Files \ {f} : hist'[g] = hist[g]
      /\ \/ obj[f].at = obj[f].size /\ hist'[f] = hist[f]
         \/ hist'[f] = hist[f] \cup {"io"}
  BY <1>1 DEF Excused, TypeOK, Excuses
<1>7. TypeOK'
  BY <1>1, <1>2, <1>4, <1>6, TypeStep DEF TypeOK
<1>8. Sound(f)'
  <2>1. Control(f)'
    BY <1>1, <1>3, <1>5, <1>6, WritingObject
    DEF IInv, Sound, Control, Reading, Writing
  <2>2. Source(f)'
    BY <1>1, <1>3, <1>5, <1>6 DEF IInv, Sound, Source, At, IsFile, disk
  <2>3. InStep(f)'
    <3> SUFFICES ASSUME Clean(f)' PROVE At(obj[f].path)' = obj[f].block
      BY <1>3, <1>5 DEF InStep
    <3>1. Clean(f) /\ obj[f].at = obj[f].size
      BY <1>6 DEF Clean
    <3>2. /\ dir[obj[f].path] = obj[f].fd /\ obj[f].fd \in Inodes
          /\ data[obj[f].fd] = SubSeq(obj[f].block, 1, obj[f].at)
      BY <1>1, <3>1, WritingObject DEF IInv, Sound, InStep, Control
    <3>3. SubSeq(obj[f].block, 1, obj[f].size) = obj[f].block
      BY <1>1, WritingObject
    <3> QED
      BY <1>1, <1>3, <1>5, <3>1, <3>2, <3>3, WritingObject
      DEF At, IsFile, disk
  <2>4. Gone(f)'
    BY <1>3, <1>5 DEF Gone
  <2>5. Fits(f)'
    BY <1>1, <1>3, <1>5 DEF IInv, Sound, Fits, IsFile, disk
  <2> QED
    BY <2>1, <2>2, <2>3, <2>4, <2>5 DEF Sound
<1> QED
  BY <1>1, <1>2, <1>3, <1>4, <1>6, <1>7, <1>8, WritingObject, QuietStep

LEMMA FlushPieceStep ==
  ASSUME IInv, NEW f \in Files, Runs(f, "flush"), NEW n \in Nat \ {0},
         obj[f].at + n <= obj[f].size,
         data' = [data EXCEPT ![obj[f].fd] =
           Overlay(@, obj[f].at,
                   SubSeq(obj[f].block, obj[f].at + 1, obj[f].at + n))],
         Become(f, [obj[f] EXCEPT !.at = obj[f].at + n]),
         Touched(f, {}, obj[f].fd),
         unfit' = unfit \cup Concerned(f, {}, obj[f].fd),
         UNCHANGED <<dir, carry, overrun>>
  PROVE  IInv' /\ Frame(f)
<1> DEFINE at == obj[f].at
           i == obj[f].fd
           block == obj[f].block
           piece == SubSeq(block, at + 1, at + n)
           o == [obj[f] EXCEPT !.at = obj[f].at + n]
<1>1. obj[f].pc = "flush" /\ obj[f].pc \in Writing /\ overrun = {} /\ TypeOK
  BY DEF Runs, Writing, IInv
<1>2. /\ i \in Inodes /\ i # NoFile /\ at \in Nat /\ block \in Seq(Bytes)
      /\ Len(block) = obj[f].size /\ obj[f].path \in Paths
      /\ data[i] \in Seq(Bytes) /\ obj[f].size \in Nat
  <2>1. i \in Inodes /\ i # NoFile
    BY <1>1, ObjectType DEF IInv, Sound, Control
  <2> QED
    BY <1>1, <2>1, WritingObject, ObjectType DEF TypeOK
<1>3. piece \in Seq(Bytes) /\ Len(piece) = n
  BY <1>2, PieceLen
<1>4. /\ Overlay(data[i], at, piece) \in Seq(Bytes)
      /\ Len(Overlay(data[i], at, piece)) =
           IF at + Len(piece) > Len(data[i]) THEN at + Len(piece)
                                             ELSE Len(data[i])
  BY <1>2, <1>3, OverlayLen
<1>5. /\ data' \in [Inodes -> Seq(Bytes)]
      /\ data'[i] = Overlay(data[i], at, piece)
      /\ \A j \in Inodes \ {i} : data'[j] = data[j]
  BY <1>1, <1>2, <1>4 DEF TypeOK
<1>6. o \in Objects
  <2>1. obj[f].at + n \in Nat
    BY <1>2
  <2> QED
    BY <1>1, <2>1, WritingObject DEF Objects
<1>7. /\ o.pc = "flush" /\ o.fd = i /\ o.at = at + n /\ o.op = obj[f].op
      /\ o.block = block /\ o.size = obj[f].size
      /\ o.path = obj[f].path /\ o.old = obj[f].old
  BY <1>1, WritingObject DEF Objects
<1>8. Become(f, o)
  OBVIOUS
<1> HIDE DEF o, piece
<1>9. obj'[f] = o /\ \A g \in Files \ {f} : obj'[g] = obj[g]
  BY <1>1, <1>8 DEF Become, TypeOK
<1>10. /\ hist' \in [Files -> SUBSET Excuses] /\ hist'[f] = hist[f]
       /\ unfit' \subseteq Files
       /\ f \in unfit' <=> f \in unfit
  BY <1>1, TouchedFrame DEF TypeOK, Concerned
<1>11. TypeOK'
  <2>1. obj' \in [Files -> Objects]
    BY <1>1, <1>6, <1>8 DEF TypeOK, Become
  <2> QED
    BY <1>1, <1>5, <1>10, <2>1 DEF TypeOK
<1>12. NoLinks' /\ OpenAtPath'
  BY <1>7, <1>9 DEF IInv, NoLinks, OpenAtPath
<1>13. Frame(f) /\ \A g \in Files \ {f} : Sound(g)'
  <2>1. \A g \in Files \ {f} : g \in unfit' <=>
          g \in unfit \/ g \in Concerned(f, {}, i)
    OBVIOUS
  <2>2. \A q \in Paths \ {} :
           /\ dir'[q] = dir[q]
           /\ dir[q] \in Inodes \ {i} => data'[dir[q]] = data[dir[q]]
    BY <1>5
  <2> QED
    BY <1>5, <1>9, <2>1, <2>2, OthersFrame
<1>14. Sound(f)'
  <2>1. Control(f)'
    BY <1>1, <1>2, <1>7, <1>9, <1>10, WritingObject
    DEF IInv, Sound, Control, Reading, Writing
  <2>2. Source(f)'
    <3>1. f \in carry => dir[obj[f].old] # i
      BY <1>1, <1>2, WritingObject DEF IInv, OpenAtPath
    <3> QED
      BY <1>1, <1>5, <1>7, <1>9, <1>10, <3>1
      DEF IInv, Sound, Source, At, IsFile
  <2>3. InStep(f)'
    <3> SUFFICES ASSUME Clean(f)'
                 PROVE  /\ dir[obj[f].path] = i
                        /\ data'[i] = SubSeq(block, 1, at + n)
      BY <1>7, <1>9 DEF InStep
    <3>1. /\ dir[obj[f].path] = i
          /\ data[i] = SubSeq(block, 1, at)
      BY <1>1, <1>10 DEF IInv, Sound, InStep, Clean
    <3>2. Overlay(SubSeq(block, 1, at), at, SubSeq(block, at + 1, at + n))
            = SubSeq(block, 1, at + n)
      BY <1>2, OverlayNext
    <3> QED
      BY <1>5, <3>1, <3>2 DEF piece
  <2>4. Gone(f)'
    BY <1>7, <1>9 DEF Gone
  <2>5. Fits(f)'
    <3> SUFFICES ASSUME f \notin unfit
                 PROVE  dir[obj[f].path] = i /\ Len(data'[i]) <= obj[f].size
      BY <1>7, <1>9, <1>10 DEF Fits, IsFile
    <3>1. dir[obj[f].path] = i /\ Len(data[i]) <= obj[f].size
      BY <1>2 DEF IInv, Sound, Fits, IsFile
    <3> QED
      BY <1>2, <1>3, <1>4, <1>5, <3>1
  <2> QED
    BY <2>1, <2>2, <2>3, <2>4, <2>5 DEF Sound
<1> QED
  BY <1>1, <1>11, <1>12, <1>13, <1>14 DEF IInv, OverrunOnlyIfUnfit

LEMMA FlushStep ==
  ASSUME IInv, NEW f \in Files, Flush(f)
  PROVE  IInv' /\ Frame(f)
<1>1. Runs(f, "flush") /\ UNCHANGED <<dir, carry, overrun>>
  BY DEF Flush
<1>2. CASE /\ obj[f].at = obj[f].size
           /\ Become(f, [obj[f] EXCEPT !.pc = "close"])
           /\ UNCHANGED <<data, hist, unfit>>
  BY <1>1, <1>2, FlushEndStep DEF disk
<1>3. CASE /\ Become(f, [obj[f] EXCEPT !.pc = "close"])
           /\ Excused(f, "io")
           /\ UNCHANGED <<data, unfit>>
  BY <1>1, <1>3, FlushEndStep DEF disk
<1>4. ASSUME NEW n \in 1..(obj[f].size - obj[f].at),
             data' = [data EXCEPT ![obj[f].fd] =
               Overlay(@, obj[f].at,
                       SubSeq(obj[f].block, obj[f].at + 1, obj[f].at + n))],
             Become(f, [obj[f] EXCEPT !.at = obj[f].at + n]),
             Touched(f, {}, obj[f].fd),
             unfit' = unfit \cup Concerned(f, {}, obj[f].fd)
      PROVE  IInv' /\ Frame(f)
  <2>1. n \in Nat \ {0} /\ obj[f].at + n <= obj[f].size
    BY ObjectType DEF IInv
  <2> QED
    BY <1>1, <1>4, <2>1, FlushPieceStep
<1> QED
  BY <1>2, <1>3, <1>4 DEF Flush, LoopEnd

LEMMA CloseStep ==
  ASSUME IInv, NEW f \in Files, Close(f)
  PROVE  IInv' /\ Frame(f)
<1>1. /\ obj[f].pc = "close" /\ obj[f].pc \in Writing /\ overrun = {} /\ TypeOK
      /\ dir' = dir /\ hist' = hist /\ carry' = carry /\ unfit' = unfit
      /\ overrun' = overrun /\ data' = Collected(dir, obj', data)
  BY DEF Close, Runs, Writing, IInv, history
<1>2. PICK code \in {"SUCCESS", "CRIT_EX_UNHANDLED"} :
        Become(f, [Return(f, code) EXCEPT
                     !.fd = NoFile, !.pc = AfterWrite(obj[f].op, code)])
  BY DEF Close
<1> DEFINE o == [Return(f, code) EXCEPT
                   !.fd = NoFile, !.pc = AfterWrite(obj[f].op, code)]
<1>3. /\ AfterWrite(obj[f].op, code) \in {"remove", "idle"}
      /\ AfterWrite(obj[f].op, code) = "remove" <=>
           obj[f].op = "move_to" /\ code = "SUCCESS"
  BY DEF AfterWrite
<1>4. Return(f, code) \in Objects
  <2>1. "idle" \in Places /\ code \in Codes
    BY DEF Places, Codes
  <2> QED
    BY <1>1, <2>1, WritingObject DEF Return, Objects
<1>5. o \in Objects
  <2>1. AfterWrite(obj[f].op, code) \in Places
    BY <1>3 DEF Places, Writing
  <2> QED
    BY <1>4, <2>1 DEF Objects
<1>6. /\ o.pc = AfterWrite(obj[f].op, code) /\ o.rc = code
      /\ o.fd = NoFile /\ o.op = obj[f].op /\ o.block = obj[f].block
      /\ o.size = obj[f].size /\ o.path = obj[f].path /\ o.old = obj[f].old
  BY <1>1, WritingObject DEF Return, Objects
<1>7. Become(f, o)
  BY <1>2
<1> HIDE DEF o
<1>8. /\ data' \in [Inodes -> Seq(Bytes)]
      /\ obj' \in [Files -> Objects] /\ obj'[f] = o
      /\ \A p \in Paths : dir[p] \in Inodes => data'[dir[p]] = data[dir[p]]
  BY <1>1, <1>5, <1>7, ClosedDisk
<1>9. TypeOK'
  BY <1>1, <1>8 DEF TypeOK
<1>10. Sound(f)'
  <2>1. Control(f)'
    BY <1>1, <1>3, <1>6, <1>8, WritingObject
    DEF IInv, Sound, Control, Reading, Writing
  <2>2. Source(f)'
    BY <1>1, <1>6, <1>8 DEF IInv, Sound, Source, At, IsFile
  <2>3. InStep(f)'
    <3>1. Clean(f)' => At(obj[f].path) = obj[f].block
      BY <1>1 DEF IInv, Sound, InStep, Clean
    <3> QED
      BY <1>1, <1>3, <1>6, <1>8, <3>1, WritingObject DEF InStep, At, IsFile
  <2>4. Gone(f)'
    BY <1>3, <1>6, <1>8 DEF Gone
  <2>5. Fits(f)'
    BY <1>1, <1>6, <1>8, WritingObject DEF IInv, Sound, Fits, IsFile
  <2> QED
    BY <2>1, <2>2, <2>3, <2>4, <2>5 DEF Sound
<1>11. OverrunOnlyIfUnfit'
  BY <1>1 DEF OverrunOnlyIfUnfit
<1> QED
  BY <1>1, <1>5, <1>6, <1>7, <1>9, <1>10, <1>11, CloseFileStep

LEMMA RemoveStep ==
  ASSUME IInv, NEW f \in Files, Remove(f)
  PROVE  IInv' /\ Frame(f)
<1> DEFINE p == obj[f].old
           o == [obj[f] EXCEPT !.pc = "idle"]
<1>1. /\ obj[f].pc = "remove" /\ obj[f].pc \in Writing /\ overrun = {}
      /\ TypeOK /\ Become(f, o) /\ carry' = carry /\ overrun' = overrun
  BY DEF Remove, Runs, Writing, IInv
<1>2. o \in Objects
  BY <1>1, WritingObject DEF Objects, Places
<1>3. /\ o.pc = "idle" /\ o.fd = NoFile /\ obj[f].fd = NoFile
      /\ o.op = "move_to" /\ o.rc = "SUCCESS" /\ obj[f].op = "move_to"
      /\ o.block = obj[f].block /\ o.size = obj[f].size
      /\ o.path = obj[f].path /\ o.old = p
      /\ p \in Paths /\ obj[f].path \in Paths
      /\ obj[f].path = p => "self" \in hist[f]
  BY <1>1, WritingObject DEF Objects, IInv, Sound, Control
<1> HIDE DEF o
<1>4. /\ obj' \in [Files -> Objects] /\ obj'[f] = o
      /\ \A g \in Files \ {f} : obj'[g] = obj[g]
  BY <1>1, <1>2 DEF Become, TypeOK
<1>5. Clean(f) => At(obj[f].path) = obj[f].block
  BY <1>1 DEF IInv, Sound, InStep
<1>6. OverrunOnlyIfUnfit'
  BY <1>1 DEF OverrunOnlyIfUnfit
<1>7. Control(f)'
  BY <1>1, <1>3, <1>4, WritingObject DEF IInv, Sound, Control, Reading, Writing
<1>8. CASE /\ dir[p] # NoFile
           /\ dir' = [dir EXCEPT ![p] = NoFile]
           /\ data' = Collected(dir', obj', data)
           /\ Touched(f, {p}, dir[p])
           /\ unfit' = unfit \cup Concerned(f, {p}, dir[p])
  <2>1. /\ dir'[p] = NoFile /\ \A q \in Paths \ {p} : dir'[q] = dir[q]
        /\ dir' \in [Paths -> Inodes \cup {NoFile, Special}]
    BY <1>1, <1>3, <1>8 DEF TypeOK
  <2>2. /\ data' \in [Inodes -> Seq(Bytes)]
        /\ \A q \in Paths \ {p} : dir[q] \in Inodes =>
             data'[dir[q]] = data[dir[q]]
        /\ \A g \in Files \ {f} : obj[g].fd \in Inodes =>
             data'[obj[g].fd] = data[obj[g].fd]
    <3>1. data' \in [Inodes -> Seq(Bytes)]
      BY <1>1, <1>8 DEF TypeOK, Collected
    <3>2. \A i \in Used(dir', obj') \cap Inodes : data'[i] = data[i]
      BY <1>8, CollectedKeeps
    <3>3. \A q \in Paths \ {p} : dir[q] \in Used(dir', obj')
      BY <2>1 DEF Used
    <3>4. \A g \in Files \ {f} : obj[g].fd \in Used(dir', obj')
      BY <1>4 DEF Used
    <3> QED
      BY <3>1, <3>2, <3>3, <3>4
  <2>3. /\ hist' \in [Files -> SUBSET Excuses] /\ hist'[f] = hist[f]
        /\ unfit' \subseteq Files
        /\ f \in unfit' <=> f \in unfit
    BY <1>1, <1>8, TouchedFrame DEF TypeOK, Concerned
  <2>4. TypeOK'
    BY <1>1, <1>4, <2>1, <2>2, <2>3 DEF TypeOK
  <2>5. NoLinks'
    BY <2>1, NothingAssumption DEF IInv, NoLinks
  <2>6. OpenAtPath'
    BY <1>3, <1>4, <2>1 DEF IInv, OpenAtPath
  <2>7. Frame(f) /\ \A g \in Files \ {f} : Sound(g)'
    <3>1. \A g \in Files \ {f} : g \in unfit' <=>
            g \in unfit \/ g \in Concerned(f, {p}, dir[p])
      BY <1>8
    <3> QED
      BY <1>1, <1>4, <1>8, <2>1, <2>2, <3>1, OthersFrame
  <2>8. Source(f)'
    BY <1>1, <1>3, <1>4 DEF IInv, Sound, Source
  <2>9. InStep(f)'
    <3> SUFFICES ASSUME Clean(f)' PROVE At(obj[f].path)' = obj[f].block
      BY <1>3, <1>4 DEF InStep
    <3>1. Clean(f) /\ obj[f].path # p
      BY <1>3, <2>3 DEF Clean
    <3> QED
      BY <1>1, <1>3, <1>4, <1>5, <2>1, <2>2, <3>1, WritingObject
      DEF At, IsFile
  <2>10. Gone(f)' /\ Fits(f)'
    BY <1>3, <1>4, <2>1, <2>2, <2>3, NothingAssumption
    DEF Gone, IInv, Sound, Fits, IsFile
  <2> QED
    BY <1>6, <1>7, <2>4, <2>5, <2>6, <2>7, <2>8, <2>9, <2>10 DEF IInv, Sound
<1>9. CASE UNCHANGED <<disk, unfit>> /\
           \/ dir[p] = NoFile /\ hist' = hist
           \/ Excused(f, "remove")
  <2>1. /\ hist' \in [Files -> SUBSET Excuses]
        /\ \A g \in Files \ {f} : hist'[g] = hist[g]
        /\ \/ dir[p] = NoFile /\ hist'[f] = hist[f]
           \/ hist'[f] = hist[f] \cup {"remove"}
    BY <1>1, <1>9 DEF Excused, TypeOK, Excuses
  <2>2. TypeOK'
    BY <1>1, <1>2, <1>9, <2>1, TypeStep DEF TypeOK
  <2>3. Source(f)'
    BY <1>1, <1>3, <1>4 DEF IInv, Sound, Source
  <2>4. InStep(f)'
    <3>1. Clean(f)' => Clean(f)
      BY <2>1 DEF Clean
    <3> QED
      BY <1>3, <1>4, <1>5, <1>9, <3>1 DEF InStep, At, IsFile, disk
  <2>5. Gone(f)' /\ Fits(f)'
    BY <1>3, <1>4, <1>9, <2>1 DEF Gone, IInv, Sound, Fits, IsFile, disk
  <2> QED
    BY <1>1, <1>2, <1>3, <1>7, <1>9, <2>1, <2>2, <2>3, <2>4, <2>5, QuietStep
    DEF Sound
<1> QED
  BY <1>8, <1>9 DEF Remove, disk

-----------------------------------------------------------------------------
(* The invariant.                                                          *)

LEMMA InitInv == Init => IInv
<1> SUFFICES ASSUME Init PROVE IInv
  OBVIOUS
<1>1. TypeOK
  <2>1. Contents \subseteq Seq(Bytes)
    BY DEF Contents, Sizes
  <2>2. data \in [Inodes -> Seq(Bytes)]
    BY <2>1 DEF Init
  <2> QED
    BY <2>2, RawTyped DEF Init, TypeOK
<1>2. \A f \in Files : obj[f] = Raw /\ f \notin carry
  BY DEF Init
<1>3. NoLinks /\ OpenAtPath
  BY <1>2 DEF Init, NoLinks, OpenAtPath, Raw
<1>4. ASSUME NEW f \in Files PROVE Sound(f)
  <2>1. Control(f)
    BY <1>2 DEF Control, Raw, Reading, Writing
  <2> QED
    BY <1>2, <2>1 DEF Sound, Source, InStep, Gone, Fits, IsFile, Raw
<1> QED
  BY <1>1, <1>3, <1>4 DEF IInv, OverrunOnlyIfUnfit, Init

LEMMA StepInv ==
  ASSUME IInv, NEW f \in Files, Step(f)
  PROVE  IInv' /\ Frame(f)
<1>1. CASE \E p \in Paths, n \in Sizes : Construct(f, p, n)
  BY <1>1, ConstructStep
<1>2. CASE \E p \in Paths : CopyTo(f, p) \/ MoveTo(f, p)
  BY <1>2, StartWriteStep DEF CopyTo, MoveTo
<1>3. CASE Write(f)
  <2>1. obj[f].path \in Paths
    BY <1>3, IdleObject DEF Write, StartWrite
  <2> QED
    BY <1>3, <2>1, StartWriteStep DEF Write
<1>4. CASE ScopeEnd(f) \/ Alloc(f) \/ Fill(f)
  BY <1>4, ScopeEndStep, AllocStep, FillStep
<1>5. CASE StartRead(f) \/ IsR(f) \/ OpenR(f) \/ ReadBlock(f)
  BY <1>5, StartReadStep, IsRStep, OpenRStep, ReadBlockStep
<1>6. CASE OpenW(f) \/ Flush(f) \/ Close(f) \/ Remove(f)
  BY <1>6, OpenWStep, FlushStep, CloseStep, RemoveStep
<1> QED
  BY <1>1, <1>2, <1>3, <1>4, <1>5, <1>6 DEF Step

LEMMA StutterInv ==
  ASSUME IInv, UNCHANGED vars
  PROVE  IInv'
<1>1. \A f \in Files : Undisturbed(f)
  BY DEF Undisturbed, vars
<1>2. \A f \in Files : Sound(f)'
  BY <1>1, UndisturbedSound DEF IInv
<1>3. TypeOK' /\ NoLinks' /\ OpenAtPath' /\ OverrunOnlyIfUnfit'
  BY DEF IInv, TypeOK, NoLinks, OpenAtPath, OverrunOnlyIfUnfit, vars
<1> QED
  BY <1>2, <1>3 DEF IInv

THEOREM Invariant == Spec => []IInv
<1>1. IInv /\ [Next]_vars => IInv'
  BY StepInv, StutterInv DEF Next
<1> QED
  BY <1>1, InitInv, PTL DEF Spec

(* Every variable keeps its type, whatever the size of a file and of a     *)
(* block.                                                                  *)
THEOREM TypeCorrect == Spec => []TypeOK
<1>1. IInv => TypeOK
  BY DEF IInv
<1> QED
  BY <1>1, Invariant, PTL

(* SUCCESS of read, write, copy_to and move_to means that block and file   *)
(* agree, but for the named failures of the system.                        *)
THEOREM InSync == Spec => []SuccessMeansInSync
<1>1. IInv => SuccessMeansInSync
  BY DEF IInv, Sound, InStep, SuccessMeansInSync
<1> QED
  BY <1>1, Invariant, PTL

(* The source of copy_to and move_to outlives every failure before the     *)
(* remove.                                                                 *)
THEOREM SourceKept == Spec => []SourceKeptUntilRemove
<1>1. IInv => SourceKeptUntilRemove
  BY DEF IInv, TypeOK, Sound, Source, SourceKeptUntilRemove
<1> QED
  BY <1>1, Invariant, PTL

(* A loaded file is whole at one of the two paths of its copy or move at   *)
(* every moment.                                                           *)
THEOREM PlaceKept == Spec => []KeepsAPlace
<1>1. IInv => KeepsAPlace
  <2> SUFFICES ASSUME IInv, NEW f \in carry, Clean(f)
               PROVE  obj[f].block \in {At(obj[f].old), At(obj[f].path)}
    BY DEF KeepsAPlace
  <2>1. f \in Files /\ "touched" \notin hist[f]
    BY DEF IInv, TypeOK, Clean
  <2>2. CASE /\ obj[f].pc = "idle" /\ obj[f].rc = "SUCCESS"
             /\ obj[f].op # "copy_to"
    <3>1. obj[f].op \in Transfers
      BY <2>1 DEF IInv, Sound, Source, Transfers
    <3> QED
      BY <2>1, <2>2, <3>1 DEF IInv, Sound, InStep
  <2>3. CASE ~ (/\ obj[f].pc = "idle" /\ obj[f].rc = "SUCCESS"
                /\ obj[f].op # "copy_to")
    BY <2>1, <2>3 DEF IInv, Sound, Source
  <2> QED
    BY <2>2, <2>3
<1> QED
  BY <1>1, Invariant, PTL

(* An undisturbed move_to leaves nothing at the old path.                  *)
THEOREM MoveRemoves == Spec => []MoveRemovesSource
<1>1. IInv => MoveRemovesSource
  BY DEF IInv, Sound, Gone, MoveRemovesSource
<1> QED
  BY <1>1, Invariant, PTL

(* A read leaves the block only on a file that did not fit from the start, *)
(* that somebody else changed, or that the object does not really have.    *)
THEOREM FitMeansNoOverrun == Spec => []OverrunOnlyIfUnfit
<1>1. IInv => OverrunOnlyIfUnfit
  BY DEF IInv
<1> QED
  BY <1>1, Invariant, PTL

LEMMA WholeObject ==
  ASSUME IInv, NEW f \in Files
  PROVE  Whole(obj[f], Bytes)
BY ObjectType DEF IInv, Sound, Control, Whole

(* For objects in step with their files == is equality of the files, < and *)
(* > are order by their lengths.                                           *)
THEOREM Comparison == Spec => []ComparedAsFiles
<1>1. IInv => ComparedAsFiles
  <2> SUFFICES ASSUME IInv, NEW f \in Files, NEW g \in Files,
                      LoadedFrom(f), LoadedFrom(g)
               PROVE  LET mine == At(obj[f].path)
                          other == At(obj[g].path)
                      IN  /\ Eq(obj[f], obj[g]) <=> mine = other
                          /\ Lt(obj[f], obj[g]) <=> Len(mine) < Len(other)
                          /\ Gt(obj[f], obj[g]) <=> Len(mine) > Len(other)
    BY DEF ComparedAsFiles
  <2>1. At(obj[f].path) = obj[f].block /\ At(obj[g].path) = obj[g].block
    BY DEF IInv, Sound, InStep, LoadedFrom
  <2>2. obj[f].block # Null /\ obj[g].block # Null
    BY <2>1 DEF At, IsFile, IInv, TypeOK
  <2>3. Whole(obj[f], Bytes) /\ Whole(obj[g], Bytes)
    BY WholeObject
  <2>4. Eq(obj[f], obj[g]) <=> obj[f].block = obj[g].block
    BY <2>2, <2>3, EqMeansSame
  <2>5. /\ Len(obj[f].block) = obj[f].size /\ obj[f].size \in Nat
        /\ Len(obj[g].block) = obj[g].size /\ obj[g].size \in Nat
    BY <2>2, <2>3 DEF Whole
  <2> QED
    BY <2>1, <2>4, <2>5 DEF Lt, Gt, NotEq
<1> QED
  BY <1>1, Invariant, PTL

(* The three answers exclude each other, and what has none of them.        *)
THEOREM Answers == Spec => []OneAnswer
<1>1. IInv => OneAnswer
  <2> SUFFICES ASSUME IInv, NEW f \in Files, NEW g \in Files
               PROVE  LET a == obj[f]
                          b == obj[g]
                          unordered ==
                            /\ a.size = b.size
                            /\ \/ a.block = Null \/ b.block = Null
                               \/ a.block # b.block
                      IN  /\ ~(Lt(a, b) /\ Gt(a, b))
                          /\ Eq(a, b) => ~Lt(a, b) /\ ~Gt(a, b)
                          /\ unordered <=> ~Le(a, b) /\ ~Ge(a, b)
    BY DEF OneAnswer
  <2>1. obj[f].size \in Nat /\ obj[g].size \in Nat
    BY ObjectType DEF IInv
  <2>2. Eq(obj[f], obj[g]) <=>
          obj[f].block # Null /\ obj[f].block = obj[g].block
    BY WholeObject, EqMeansSame
  <2>3. Eq(obj[f], obj[g]) => obj[f].size = obj[g].size
    BY DEF Eq, NotEq
  <2>4. /\ Lt(obj[f], obj[g]) <=> obj[f].size < obj[g].size
        /\ Gt(obj[f], obj[g]) <=> obj[f].size > obj[g].size
    BY <2>1 DEF Lt, Gt, NotEq
  <2> QED
    BY <2>1, <2>2, <2>3, <2>4 DEF Le, Ge
<1> QED
  BY <1>1, Invariant, PTL

-----------------------------------------------------------------------------
(* FileTransfer implements TransferPromise: what each step is there.       *)

Stays(f) == Phase(f)' = Phase(f) /\ Sides(f)' = Sides(f)
Voids(f) == Phase(f)' = "void" /\ Sides(f)' = {}
Begins(f) ==
  Phase(f) # "busy" /\ Phase(f)' = "busy" /\ "old" \in Sides(f)'
Works(f) ==
  /\ Phase(f) = "busy" /\ Phase(f)' = "busy"
  /\ "old" \in Sides(f) /\ "old" \in Sides(f)'
Fails(f) ==
  /\ Phase(f) = "busy" /\ Phase(f)' = "failed"
  /\ "old" \in Sides(f) /\ Sides(f)' = Sides(f)
Copies(f) ==
  /\ Phase(f) = "busy" /\ Phase(f)' = "copy_to"
  /\ Sides(f) = {"old", "new"} /\ Sides(f)' = Sides(f)
Moves(f) ==
  /\ Phase(f) = "busy" /\ Phase(f)' = "move_to"
  /\ Sides(f) = {"old", "new"}
  /\ Sides(f)' = {"new"} \/ Sides(f)' = Sides(f)

Promised(f) ==
  \/ Stays(f) \/ Voids(f) \/ Begins(f) \/ Works(f)
  \/ Fails(f) \/ Copies(f) \/ Moves(f)

(* An object that carries nothing has no promise to keep.                  *)
LEMMA NotKept ==
  ASSUME NEW f, f \notin carry' \/ ~Clean(f)'
  PROVE  Promised(f)
BY DEF Promised, Voids, Phase, Sides, Kept

LEMMA OthersPromised ==
  ASSUME TypeOK, NEW g \in Files, Undisturbed(g) \/ Disturbed(g)
  PROVE  Promised(g)
<1>1. CASE Disturbed(g)
  BY <1>1, DisturbedUnclean, NotKept
<1>2. CASE Undisturbed(g)
  <2>1. At(obj[g].path)' = At(obj[g].path) /\ At(obj[g].old)' = At(obj[g].old)
    BY <1>2, ObjectType DEF Undisturbed, At, IsFile
  <2>2. Kept(g)' <=> Kept(g)
    BY <1>2 DEF Undisturbed, Kept, Clean
  <2>3. Stays(g)
    BY <1>2, <2>1, <2>2 DEF Undisturbed, Stays, Phase, Sides
  <2> QED
    BY <2>3 DEF Promised
<1> QED
  BY <1>1, <1>2

(* While a call runs the old side is there, and both are after the write;  *)
(* likewise in the next state.                                             *)
LEMMA BusySides ==
  ASSUME NEW f \in Files, Sound(f), Kept(f), obj[f].pc # "idle"
  PROVE  /\ Phase(f) = "busy" /\ "old" \in Sides(f)
         /\ obj[f].pc \in {"close", "remove"} => Sides(f) = {"old", "new"}
BY DEF Sound, Source, InStep, Kept, Clean, Phase, Sides

LEMMA BusyNext ==
  ASSUME NEW f \in Files, Sound(f)', Kept(f)', obj'[f].pc # "idle"
  PROVE  Phase(f)' = "busy" /\ "old" \in Sides(f)'
BY DEF Sound, Source, Kept, Clean, Phase, Sides

LEMMA StillBusy ==
  ASSUME NEW f \in Files, Sound(f), Sound(f)', Kept(f), Kept(f)',
         obj[f].pc # "idle", obj'[f].pc # "idle"
  PROVE  Promised(f)
BY BusySides, BusyNext DEF Promised, Works

LEMMA WritePromised ==
  ASSUME IInv, IInv', NEW f \in Files,
         NEW op \in {"write", "copy_to", "move_to"}, NEW dst \in Paths,
         StartWrite(f, op, dst)
  PROVE  Promised(f)
<1>1. obj[f] \in Objects /\ obj[f].pc = "idle" /\ Sound(f)' /\ TypeOK
  BY IdleObject DEF StartWrite, IInv
<1>2. CASE Fresh(f)
  BY <1>1, <1>2, FreshFrame, NotKept
<1>3. CASE Become(f, [obj[f] EXCEPT !.pc = "open_w", !.op = op,
                                    !.old = obj[f].path, !.path = dst])
  <2>1. obj'[f].pc = "open_w"
    BY <1>1, <1>3 DEF Become, TypeOK, Objects
  <2>2. Phase(f) # "busy"
    BY <1>1 DEF Phase, Objects, Ops, Transfers
  <2>3. CASE Kept(f)'
    <3>1. Phase(f)' = "busy" /\ "old" \in Sides(f)'
      BY <1>1, <2>1, <2>3, BusyNext
    <3> QED
      BY <2>2, <3>1 DEF Promised, Begins
  <2>4. CASE ~Kept(f)'
    BY <2>4, NotKept DEF Kept
  <2> QED
    BY <2>3, <2>4
<1> QED
  BY <1>2, <1>3 DEF StartWrite

LEMMA ClosePromised ==
  ASSUME IInv, IInv', NEW f \in Files, Close(f), Kept(f)'
  PROVE  Promised(f)
<1>1. /\ obj[f].pc = "close" /\ TypeOK /\ dir' = dir
      /\ hist' = hist /\ carry' = carry /\ data' = Collected(dir, obj', data)
  BY DEF Close, Runs, IInv, history
<1>2. Kept(f) /\ Sound(f) /\ Sound(f)' /\ obj[f] \in Objects
  BY <1>1, ObjectType DEF Kept, Clean, IInv
<1>3. PICK code \in {"SUCCESS", "CRIT_EX_UNHANDLED"} :
        Become(f, [Return(f, code) EXCEPT
                     !.fd = NoFile, !.pc = AfterWrite(obj[f].op, code)])
  BY DEF Close
<1>4. /\ obj'[f].pc = AfterWrite(obj[f].op, code) /\ obj'[f].rc = code
      /\ obj'[f].op = obj[f].op /\ obj'[f].block = obj[f].block
      /\ obj'[f].path = obj[f].path /\ obj'[f].old = obj[f].old
  BY <1>1, <1>2, <1>3 DEF Become, Return, TypeOK, Objects
<1>5. obj[f].op \in {"copy_to", "move_to"}
  BY <1>2 DEF Kept, Sound, Source
<1>6. Phase(f) = "busy" /\ Sides(f) = {"old", "new"}
  BY <1>1, <1>2, BusySides
<1>7. /\ At(obj[f].old)' = At(obj[f].old)
      /\ At(obj[f].path)' = At(obj[f].path)
  <2>1. \A p \in Paths : dir[p] \in Inodes => data'[dir[p]] = data[dir[p]]
    BY <1>1, CollectedKeeps DEF Used
  <2> QED
    BY <1>1, <1>4, <2>1 DEF At, IsFile
<1>8. Sides(f)' = Sides(f)
  BY <1>2, <1>4, <1>7 DEF Sides
<1>9. CASE code = "SUCCESS" /\ obj[f].op = "move_to"
  BY <1>1, <1>2, <1>4, <1>9, StillBusy DEF AfterWrite
<1>10. CASE code = "SUCCESS" /\ obj[f].op = "copy_to"
  <2>1. Phase(f)' = "copy_to"
    BY <1>4, <1>10 DEF Phase, AfterWrite
  <2> QED
    BY <1>6, <1>8, <2>1 DEF Promised, Copies
<1>11. CASE code = "CRIT_EX_UNHANDLED"
  <2>1. Phase(f)' = "failed"
    BY <1>4, <1>11 DEF Phase, AfterWrite
  <2> QED
    BY <1>6, <1>8, <2>1 DEF Promised, Fails
<1> QED
  BY <1>5, <1>9, <1>10, <1>11

LEMMA RemovePromised ==
  ASSUME IInv, IInv', NEW f \in Files, Remove(f), Kept(f)'
  PROVE  Promised(f)
<1>1. /\ obj[f].pc = "remove" /\ TypeOK /\ Sound(f) /\ Sound(f)'
      /\ carry' = carry /\ obj[f] \in Objects
  BY ObjectType DEF Remove, Runs, IInv
<1>2. hist[f] \subseteq hist'[f]
  <2>1. Excused(f, "remove") => hist[f] \subseteq hist'[f]
    BY <1>1 DEF Excused, TypeOK
  <2> QED
    BY <1>1, <2>1, TouchedFrame DEF Remove
<1>3. Kept(f)
  BY <1>1, <1>2 DEF Kept, Clean
<1>4. obj'[f].pc = "idle" /\ obj'[f].op = "move_to" /\ obj'[f].rc = "SUCCESS"
  BY <1>1 DEF Remove, Become, Sound, Control, TypeOK, Objects
<1>5. Phase(f) = "busy" /\ Sides(f) = {"old", "new"}
  BY <1>1, <1>3, BusySides
<1>6. Phase(f)' = "move_to"
  BY <1>4 DEF Phase
<1>7. "new" \in Sides(f)'
  BY <1>1, <1>4 DEF Sides, Sound, InStep, Kept, Transfers
<1>8. Sides(f)' \subseteq {"old", "new"}
  BY DEF Sides
<1> QED
  BY <1>5, <1>6, <1>7, <1>8 DEF Promised, Moves

LEMMA OwnPromised ==
  ASSUME IInv, IInv', NEW f \in Files, Step(f)
  PROVE  Promised(f)
<1> SUFFICES ASSUME Kept(f)' PROVE Promised(f)
  BY NotKept DEF Kept
<1>1. TypeOK /\ Sound(f) /\ Sound(f)' /\ f \in carry'
  BY DEF IInv, Kept
<1>2. CASE \E p \in Paths, n \in Sizes : Construct(f, p, n)
  BY <1>1, <1>2 DEF Construct, Runs, Sound, Control
<1>3. CASE \E p \in Paths : CopyTo(f, p) \/ MoveTo(f, p)
  BY <1>3, WritePromised DEF CopyTo, MoveTo
<1>4. CASE Write(f)
  <2>1. obj[f].path \in Paths
    BY <1>4, IdleObject DEF Write, StartWrite
  <2> QED
    BY <1>4, <2>1, WritePromised DEF Write
<1>5. CASE ScopeEnd(f) \/ Alloc(f) \/ Fill(f) \/ StartRead(f)
  BY <1>1, <1>5, FreshFrame DEF ScopeEnd, Alloc, Fill, StartRead
<1>6. CASE IsR(f) \/ OpenR(f) \/ ReadBlock(f)
  BY <1>1, <1>6 DEF IsR, OpenR, ReadBlock, Runs, Reading, Sound, Control,
                    history
<1>7. CASE OpenW(f)
  <2>1. obj[f].pc = "open_w" /\ carry' = carry /\ obj[f] \in Objects
    BY <1>1, <1>7, ObjectType DEF OpenW, Runs
  <2>2. obj'[f].pc # "idle"
    <3>1. CASE Become(f, [obj[f] EXCEPT !.pc = "close"])
      BY <1>1, <2>1, <3>1 DEF Become, TypeOK, Objects
    <3>2. ASSUME NEW i,
                 Become(f, [obj[f] EXCEPT !.pc = "flush", !.fd = i, !.at = 0])
          PROVE  obj'[f].pc # "idle"
      BY <1>1, <2>1, <3>2 DEF Become, TypeOK, Objects
    <3> QED
      BY <1>7, <3>1, <3>2 DEF OpenW
  <2>3. hist[f] \subseteq hist'[f]
    <3>1. Excused(f, "open") => hist[f] \subseteq hist'[f]
      BY <1>1 DEF Excused, TypeOK
    <3> QED
      BY <1>1, <1>7, <3>1, TouchedFrame DEF OpenW
  <2> QED
    BY <1>1, <2>1, <2>2, <2>3, StillBusy DEF Kept, Clean
<1>8. CASE Flush(f)
  <2>1. obj[f].pc = "flush" /\ carry' = carry /\ obj[f] \in Objects
    BY <1>1, <1>8, ObjectType DEF Flush, Runs
  <2>2. obj'[f].pc # "idle"
    <3>1. CASE Become(f, [obj[f] EXCEPT !.pc = "close"])
      BY <1>1, <2>1, <3>1 DEF Become, TypeOK, Objects
    <3>2. ASSUME NEW n, Become(f, [obj[f] EXCEPT !.at = n])
          PROVE  obj'[f].pc # "idle"
      BY <1>1, <2>1, <3>2 DEF Become, TypeOK, Objects
    <3> QED
      BY <1>8, <3>1, <3>2 DEF Flush
  <2>3. hist[f] \subseteq hist'[f]
    <3>1. Excused(f, "io") => hist[f] \subseteq hist'[f]
      BY <1>1 DEF Excused, TypeOK
    <3> QED
      BY <1>1, <1>8, <3>1, TouchedFrame DEF Flush
  <2> QED
    BY <1>1, <2>1, <2>2, <2>3, StillBusy DEF Kept, Clean
<1>9. CASE Close(f) \/ Remove(f)
  BY <1>9, ClosePromised, RemovePromised
<1> QED
  BY <1>2, <1>3, <1>4, <1>5, <1>6, <1>7, <1>8, <1>9 DEF Step

(* FileTransfer implements the abstract specification of a copy and a      *)
(* move.                                                                   *)
THEOREM Refinement == Spec => KeepsPromise
<1> DEFINE phase == [f \in Files |-> Phase(f)]
           sides == [f \in Files |-> Sides(f)]
<1>1. Init => Promise!Init
  BY DEF Init, Promise!Init, Phase, Sides, Kept
<1>2. IInv /\ IInv' /\ [Next]_vars => [Promise!Next]_(Promise!vars)
  <2> SUFFICES ASSUME IInv, IInv', [Next]_vars PROVE Promise!Next
    OBVIOUS
  <2>1. TypeOK /\ \A f \in Files : Sound(f)
    BY DEF IInv
  <2>2. ASSUME NEW f \in Files PROVE Promised(f)
    <3>1. CASE UNCHANGED vars
      <4>1. Undisturbed(f)
        BY <3>1 DEF Undisturbed, vars
      <4> QED
        BY <2>1, <4>1, OthersPromised
    <3>2. ASSUME NEW g \in Files, Step(g) PROVE Promised(f)
      <4>1. CASE f = g
        BY <3>2, <4>1, OwnPromised
      <4>2. CASE f # g
        BY <2>1, <3>2, <4>2, StepInv, OthersPromised DEF Frame
      <4> QED
        BY <4>1, <4>2
    <3> QED
      BY <3>1, <3>2 DEF Next
  <2>3. \A f \in Files : /\ phase[f] = Phase(f) /\ phase'[f] = Phase(f)'
                         /\ sides[f] = Sides(f) /\ sides'[f] = Sides(f)'
    OBVIOUS
  <2> QED
    BY <2>2, <2>3
    DEF Promise!Next, Promise!Becomes, Promise!Begin, Promise!Work,
        Promise!Fail, Promise!Copied, Promise!Moved, Promised, Stays, Voids,
        Begins, Works, Fails, Copies, Moves
<1> QED
  BY <1>1, <1>2, Invariant, PTL DEF Spec, KeepsPromise

=============================================================================
