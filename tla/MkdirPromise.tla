---------------------------- MODULE MkdirPromise ----------------------------
(***************************************************************************)
(* What file::mkdir promises its callers, whatever else happens at the     *)
(* path: SUCCESS is said while a directory is there; a call that reports   *)
(* an error has changed nothing, or undone what it did, or says that it    *)
(* could not undo it; and no call removes what it has not made.            *)
(***************************************************************************)
EXTENDS Naturals

CONSTANTS
  Calls,   \* calls of mkdir for one path, by any thread or process
  Nobody   \* the maker of what no call has made

VARIABLES
  place,   \* what is at the path
  maker,   \* the call that made the directory
  verdict  \* what each call has told its caller

vars == <<place, maker, verdict>>

Init ==
  /\ place \in {"none", "dir", "file"}
  /\ maker = Nobody
  /\ verdict = [c \in Calls |-> "pending"]

Answer(c, v) ==
  /\ verdict[c] = "pending"
  /\ verdict' = [verdict EXCEPT ![c] = v]

Make(c) ==
  /\ verdict[c] = "pending"
  /\ place = "none"
  /\ place' = "dir"
  /\ maker' = c
  /\ UNCHANGED verdict

Succeed(c) ==
  /\ place = "dir"
  /\ Answer(c, "success")
  /\ UNCHANGED <<place, maker>>

Refuse(c) ==
  /\ maker # c
  /\ Answer(c, "failure")
  /\ UNCHANGED <<place, maker>>

Undo(c) ==
  /\ maker = c
  /\ place' = "none"
  /\ maker' = Nobody
  /\ Answer(c, "failure")

AdmitLeft(c) ==
  /\ maker = c
  /\ Answer(c, "left")
  /\ UNCHANGED <<place, maker>>

(* Files come and go without mkdir.                                        *)
World ==
  /\ place' \in {"none", "file"}
  /\ place # "dir"
  /\ UNCHANGED <<maker, verdict>>

Next ==
  \/ World
  \/ \E c \in Calls :
       Make(c) \/ Succeed(c) \/ Refuse(c) \/ Undo(c) \/ AdmitLeft(c)

Spec == Init /\ [][Next]_vars

=============================================================================
