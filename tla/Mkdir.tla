------------------------------- MODULE Mkdir -------------------------------
(***************************************************************************)
(* file::mkdir (src/src/wndx/sane/file.cpp), cut at its file system calls: *)
(* is_directory, exists, create_directory, permissions, remove, canonical. *)
(* Any number of calls for one path run at the same time, as the test      *)
(* processes do for /tmp/wndx; each call runs once.  The path is named by  *)
(* its directory entry; the parent directory either lets create_directory  *)
(* work or makes it fail, one of the Faults.                               *)
(***************************************************************************)
EXTENDS Naturals

CONSTANTS
  Calls,   \* calls of mkdir for one path, by any thread or process
  Nobody,  \* the maker of what no call has made
  Faults   \* file system calls that may fail for reasons of their own

FaultKinds == {"status", "create", "permissions", "remove", "canonical"}

ASSUME FaultsAssumption == Faults \subseteq FaultKinds
ASSUME NobodyAssumption == Nobody \notin Calls

VARIABLES
  kind,    \* what is at the path
  maker,   \* the call that made it
  perms,   \* whether permissions() has been done on it
  content, \* whether somebody has put files into it
  pc,      \* the next file system call of each call
  rc       \* return code

entry == <<kind, maker, perms, content>>
vars == <<kind, maker, perms, content, pc, rc>>

Places == {"is_directory", "exists", "create", "permissions", "remove",
           "canonical", "done"}
Codes == {"NONE", "SUCCESS", "FILE_MKDIR_GENERIC_ERRO",
          "FILE_PATH_CANONICAL_ERRO", "FILE_PATH_UNEXPECTED_ERRO",
          "FILE_RM_DIR_EMPTY_SUCCESS", "FILE_RM_DIR_PERMS_ERRO"}

TypeOK ==
  /\ kind \in {"none", "dir", "file"}
  /\ maker \in Calls \cup {Nobody}
  /\ perms \in {"default", "requested"}
  /\ content \in {"empty", "used"}
  /\ pc \in [Calls -> Places]
  /\ rc \in [Calls -> Codes]

Init ==
  /\ kind \in {"none", "dir", "file"}
  /\ maker = Nobody
  /\ perms = "default"
  /\ content = "empty"
  /\ pc = [c \in Calls |-> "is_directory"]
  /\ rc = [c \in Calls |-> "NONE"]

(* The path now names something new, or nothing.                           *)
NewEntry(k, m) ==
  /\ kind' = k
  /\ maker' = m
  /\ perms' = "default"
  /\ content' = "empty"

Goto(c, place) ==
  /\ pc' = [pc EXCEPT ![c] = place]
  /\ UNCHANGED rc

Return(c, code) ==
  /\ pc' = [pc EXCEPT ![c] = "done"]
  /\ rc' = [rc EXCEPT ![c] = code]

(* A directory is used as it is, permissions unchecked.  A status that     *)
(* cannot be read counts as "not a directory", and as "does not exist".    *)
IsDirectory(c) ==
  /\ pc[c] = "is_directory"
  /\ \/ kind = "dir" /\ Return(c, "SUCCESS")
     \/ (kind # "dir" \/ "status" \in Faults) /\ Goto(c, "exists")
  /\ UNCHANGED entry

Exists(c) ==
  /\ pc[c] = "exists"
  /\ \/ kind # "none" /\ Goto(c, "canonical")
     \/ (kind = "none" \/ "status" \in Faults) /\ Goto(c, "create")
  /\ UNCHANGED entry

(* Mutants: a directory that is already there counts as created; whoever   *)
(* loses the race starts again.                                            *)
CreateRetries(c) ==
  /\ pc[c] = "create"
  /\ \/ /\ kind = "none"
        /\ NewEntry("dir", c)
        /\ Goto(c, "permissions")
     \/ /\ kind # "none"
        /\ Goto(c, "is_directory")
        /\ UNCHANGED entry

CreateOrAdopt(c) ==
  /\ pc[c] = "create"
  /\ \/ /\ kind = "none"
        /\ NewEntry("dir", c)
        /\ Goto(c, "permissions")
     \/ /\ kind = "dir"
        /\ Goto(c, "permissions")
        /\ UNCHANGED entry
     \/ /\ kind = "file" \/ "create" \in Faults
        /\ Return(c, "FILE_MKDIR_GENERIC_ERRO")
        /\ UNCHANGED entry

(* create_directory says false, with no error, of an existing directory.   *)
Create(c) ==
  /\ pc[c] = "create"
  /\ \/ /\ kind = "none"
        /\ NewEntry("dir", c)
        /\ Goto(c, "permissions")
     \/ /\ kind # "none" \/ "create" \in Faults
        /\ Return(c, "FILE_MKDIR_GENERIC_ERRO")
        /\ UNCHANGED entry

SetPermissions(c) ==
  /\ pc[c] = "permissions"
  /\ \/ /\ kind # "none"
        /\ perms' = "requested"
        /\ Return(c, "SUCCESS")
        /\ UNCHANGED <<kind, maker, content>>
     \/ /\ kind = "none" \/ "permissions" \in Faults
        /\ Goto(c, "remove")
        /\ UNCHANGED entry

(* fs::remove takes whatever is at the path, unless it is a directory in   *)
(* use; "nothing there" is reported like a failure.                        *)
Removable == kind = "file" \/ (kind = "dir" /\ content = "empty")

(* Mutants: fs::remove_all; a failure of the rollback that is not told     *)
(* apart.                                                                  *)
RemoveAll(c) ==
  /\ pc[c] = "remove"
  /\ NewEntry("none", Nobody)
  /\ Return(c, "FILE_RM_DIR_EMPTY_SUCCESS")

RemoveGeneric(c) ==
  /\ pc[c] = "remove"
  /\ \/ /\ Removable
        /\ NewEntry("none", Nobody)
        /\ Return(c, "FILE_RM_DIR_EMPTY_SUCCESS")
     \/ /\ ~Removable \/ "remove" \in Faults
        /\ Return(c, "FAILURE")
        /\ UNCHANGED entry

Remove(c) ==
  /\ pc[c] = "remove"
  /\ \/ /\ Removable
        /\ NewEntry("none", Nobody)
        /\ Return(c, "FILE_RM_DIR_EMPTY_SUCCESS")
     \/ /\ ~Removable \/ "remove" \in Faults
        /\ Return(c, "FILE_RM_DIR_PERMS_ERRO")
        /\ UNCHANGED entry

(* The path exists and is, as far as this call knows, not a directory.     *)
Canonical(c) ==
  /\ pc[c] = "canonical"
  /\ \/ /\ kind = "none" \/ "canonical" \in Faults
        /\ Return(c, "FILE_PATH_CANONICAL_ERRO")
     \/ /\ kind # "none"
        /\ Return(c, "FILE_PATH_UNEXPECTED_ERRO")
  /\ UNCHANGED entry

(* A caller that was told SUCCESS puts a file into the directory.          *)
UseDirectory(c) ==
  /\ pc[c] = "done" /\ rc[c] = "SUCCESS"
  /\ kind = "dir" /\ content = "empty"
  /\ content' = "used"
  /\ UNCHANGED <<kind, maker, perms, pc, rc>>

(* Somebody else makes or deletes a file at the path.                      *)
World ==
  /\ \/ kind = "none" /\ NewEntry("file", Nobody)
     \/ kind = "file" /\ NewEntry("none", Nobody)
  /\ UNCHANGED <<pc, rc>>

Step(c) ==
  \/ IsDirectory(c) \/ Exists(c) \/ Create(c) \/ SetPermissions(c)
  \/ Remove(c) \/ Canonical(c)

Next == World \/ \E c \in Calls : Step(c) \/ UseDirectory(c)

(* A call does not stop between its file system calls.                     *)
Spec == Init /\ [][Next]_vars /\ \A c \in Calls : WF_vars(Step(c))

-----------------------------------------------------------------------------
(* Properties.                                                             *)

(* Every behaviour, with any failures and interleavings, is one that       *)
(* MkdirPromise allows.                                                    *)
Verdict(c) ==
  IF pc[c] # "done" THEN "pending"
  ELSE IF rc[c] = "SUCCESS" THEN "success"
  ELSE IF rc[c] = "FILE_RM_DIR_PERMS_ERRO" THEN "left"
  ELSE "failure"

Promise == INSTANCE MkdirPromise WITH
  place   <- kind,
  verdict <- [c \in Calls |-> Verdict(c)]

KeepsPromise == Promise!Init /\ [][Promise!Next]_(Promise!vars)

(* While a call still has to set permissions, or to roll back, the path is *)
(* the directory it made: the rollback, which names the path and not the   *)
(* directory, never hits another caller's.                                 *)
RollbackHitsOwn ==
  \A c \in Calls : pc[c] \in {"permissions", "remove"} =>
    kind = "dir" /\ maker = c

(* A directory without the requested permissions is being worked on by the *)
(* call that made it, or that call has reported FILE_RM_DIR_PERMS_ERRO.    *)
WrongPermsReported ==
  maker \in Calls /\ perms = "default" =>
    \/ pc[maker] \in {"permissions", "remove"}
    \/ rc[maker] = "FILE_RM_DIR_PERMS_ERRO"

(* A directory that somebody uses is never removed or replaced.            *)
UsedStays == [][content = "used" => UNCHANGED <<kind, maker, content>>]_vars

(* Every call returns.                                                     *)
CallsReturn == \A c \in Calls : <>(pc[c] = "done")

-----------------------------------------------------------------------------
(* What the tests say of mkdir.                                            *)

(* An error of create_directory means that there is no directory to use.   *)
CreateErrorMeansNoDirectory ==
  [][\A c \in Calls : rc[c] = "NONE" /\ rc'[c] = "FILE_MKDIR_GENERIC_ERRO"
       => kind # "dir"]_vars

=============================================================================
