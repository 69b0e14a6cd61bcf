------------------------------- MODULE Finfo -------------------------------
(***************************************************************************)
(* How the name of a file travels: File::to_finfo copies it into the array *)
(* of a Finfo, character by character; another File is constructed from    *)
(* that Finfo and a directory, which mkdir has trimmed and made; and the   *)
(* new File may be described again.  Of the File only m_fpath matters      *)
(* here: m_block_size is copied both ways as it is.                        *)
(***************************************************************************)
EXTENDS Path

CONSTANTS
  Letters,        \* characters of file names
  Nul,            \* the terminator
  fname_max_len,  \* bytes of m_fname
  Default,        \* what m_fname is initialised with, before its padding
  MaxTyped        \* bound on the paths that callers type

ASSUME LettersAssumption == Sep \notin Letters /\ Nul \notin Letters \cup {Sep}
ASSUME ArrayAssumption ==
  /\ fname_max_len \in Nat
  /\ Default \in Seq(Letters) /\ Len(Default) < fname_max_len

VARIABLES
  path,    \* m_fpath of the File
  finfo,   \* m_fname of the Finfo
  name,    \* the local fname of to_finfo, and what was last sent
  i,       \* the loop variable of to_finfo
  pc,      \* new, fill: in the loop; info: described; file: constructed
  dpath,   \* the directory the last File was constructed in
  beyond   \* to_finfo has written behind the array

vars == <<path, finfo, name, i, pc, dpath, beyond>>

Chars == Letters \cup {Sep}
Typed == UNION {[1..n -> Chars] : n \in 0..MaxTyped}
Slots == 1..fname_max_len

TypeOK ==
  /\ path \in Seq(Chars) /\ dpath \in Seq(Chars)
  /\ name \in Seq(Letters)
  /\ finfo \in [Slots -> Letters \cup {Nul}]
  /\ i \in Nat /\ beyond \in BOOLEAN
  /\ pc \in {"new", "fill", "info", "file"}

Initialised ==
  [k \in Slots |-> IF k <= Len(Default) THEN Default[k] ELSE Nul]

Init ==
  /\ path \in Typed
  /\ finfo = Initialised /\ name = <<>> /\ i = 0
  /\ pc = "new" /\ dpath = <<>> /\ beyond = FALSE

(* What a C string function reads in the array.                            *)
c_str(a) ==
  SubSeq(a, 1, (CHOOSE k \in Slots : a[k] = Nul
                                     /\ \A j \in 1..(k - 1) : a[j] # Nul) - 1)

(* finfo.m_fname[k] = c, where nothing checks k.  Mutants: one slot late;  *)
(* the terminator is forgotten.                                            *)
StoreLate(k, c) ==
  IF k + 1 < fname_max_len
    THEN finfo' = [finfo EXCEPT ![k + 2] = c] /\ UNCHANGED beyond
    ELSE beyond' = TRUE /\ UNCHANGED finfo
StoreLetter(k, c) ==
  IF k < fname_max_len
    THEN /\ finfo' = IF c = Nul THEN finfo ELSE [finfo EXCEPT ![k + 1] = c]
         /\ UNCHANGED beyond
    ELSE beyond' = TRUE /\ UNCHANGED finfo

Store(k, c) ==
  IF k < fname_max_len
    THEN finfo' = [finfo EXCEPT ![k + 1] = c] /\ UNCHANGED beyond
    ELSE beyond' = TRUE /\ UNCHANGED finfo

(* Mutant: the whole path is sent.                                         *)
WholePath == path

FileName == filename(path)

(* After a write behind the array anything may follow: the model stops.    *)
to_finfo ==
  /\ pc \in {"new", "file"}
  /\ pc' = "fill" /\ i' = 0
  /\ name' = FileName /\ finfo' = Initialised
  /\ UNCHANGED <<path, dpath, beyond>>

Fill ==
  /\ pc = "fill" /\ i < Len(name) /\ ~beyond
  /\ Store(i, name[i + 1])
  /\ i' = i + 1
  /\ UNCHANGED <<path, name, pc, dpath>>

Terminate ==
  /\ pc = "fill" /\ i = Len(name) /\ ~beyond
  /\ Store(i, Nul)
  /\ pc' = "info"
  /\ UNCHANGED <<path, name, i, dpath>>

Construct(d) ==
  /\ pc = "info" /\ ~beyond
  /\ path' = Join(d, c_str(finfo)) /\ dpath' = d
  /\ pc' = "file"
  /\ UNCHANGED <<finfo, name, i, beyond>>

Next ==
  \/ to_finfo \/ Fill \/ Terminate
  \/ \E d \in Typed : Construct(d)

Spec == Init /\ [][Next]_vars

-----------------------------------------------------------------------------
(* The File that is constructed has the name that was sent, over any       *)
(* number of hops, whatever the array held behind it.                      *)
NameArrives == pc = "file" => filename(path) = name

(* The array is left only by a name that, with its terminator, does not    *)
(* fit; what has been described without that is complete.                  *)
BeyondOnlyIfTooLong ==
  /\ beyond => Len(name) >= fname_max_len
  /\ pc = "info" /\ ~beyond => Len(name) < fname_max_len

(* mkdir (file.cpp:44-45) makes what the user typed: the path without its  *)
(* trailing separators, which ends in the name of the directory, and the   *)
(* parent it takes is the one above; only a bare name has an empty parent, *)
(* for which create_directory fails and mkdir advises to type ./ before    *)
(* it.  If nothing was typed, or only separators, trim adds one: then the  *)
(* root is meant, even by the empty path.                                  *)
MadeWhereTyped ==
  LET npath  == trim(dpath)
      parent == parent_path(npath)
  IN  IF NoName(dpath) THEN npath = Append(dpath, Sep)
      ELSE /\ npath = SubSeq(dpath, 1, LastChar(dpath))
           /\ filename(npath) # <<>>
           /\ Len(parent) < Len(npath)
           /\ parent = <<>> <=> filename(npath) = npath

(* The File is constructed in the directory that mkdir makes, however many *)
(* separators the user typed.                                              *)
ReceivedIntoMade ==
  pc = "file" /\ ~NoName(dpath) => parent_path(path) = trim(dpath)

=============================================================================
