-------------------------------- MODULE Path --------------------------------
(***************************************************************************)
(* sane::path::trim and sanitize, src/src/wndx/sane/path.cpp, and the      *)
(* operations of std::filesystem::path that the library uses, as they are  *)
(* on a POSIX system: a path is a sequence of characters.                  *)
(***************************************************************************)
EXTENDS Naturals, Sequences

CONSTANT Sep   \* fs::path::preferred_separator

(* Only separators, or nothing at all.                                     *)
NoName(p) == \A k \in 1..Len(p) : p[k] = Sep

(* Where the last separator is, 0 if there is none; where the trailing     *)
(* separators begin.                                                       *)
LastSep(p) ==
  CHOOSE k \in 0..Len(p) :
    /\ k > 0 => p[k] = Sep
    /\ \A j \in (k + 1)..Len(p) : p[j] # Sep
LastChar(p) ==
  CHOOSE k \in 0..Len(p) :
    /\ k > 0 => p[k] # Sep
    /\ \A j \in (k + 1)..Len(p) : p[j] = Sep

filename(p) == SubSeq(p, LastSep(p) + 1, Len(p))

(* Up to the last component and without the separators before it; a root   *)
(* is its own parent.                                                      *)
parent_path(p) ==
  LET head == SubSeq(p, 1, LastSep(p))
  IN  IF NoName(p) THEN p
      ELSE IF head # <<>> /\ NoName(head) THEN <<Sep>>
      ELSE SubSeq(head, 1, LastChar(head))

(* Mutant of Join: the name is appended as it is, operator+=.              *)
Concat(p, n) == p \o n

(* operator/                                                               *)
Join(p, n) ==
  IF n # <<>> /\ n[1] = Sep THEN n
  ELSE IF p = <<>> \/ p[Len(p)] = Sep THEN p \o n
  ELSE p \o <<Sep>> \o n

(* Mutant: without the separator that keeps a last component from being    *)
(* taken off.                                                              *)
trimLast(p) == parent_path(p)

trim(p) == parent_path(Append(p, Sep))
sanitize(p) == trim(p)

=============================================================================
