--------------------------- MODULE TransferPromise ---------------------------
(***************************************************************************)
(* What copy_to and move_to promise about a file that is loaded: a         *)
(* complete copy stays at the old side until the new side has one; the     *)
(* answer SUCCESS of a copy means both, that of a move the new one, and an *)
(* error that the old one is still there.  The promise is void when the    *)
(* system failed unseen or somebody else changed a side, and then until    *)
(* the next call.                                                          *)
(***************************************************************************)
CONSTANT Files

VARIABLES
  phase,  \* where the call of an object is, or how its last one ended
  sides   \* which sides hold the whole file

vars == <<phase, sides>>

Init ==
  /\ phase = [f \in Files |-> "void"]
  /\ sides = [f \in Files |-> {}]

Becomes(f, ph, sd) == phase'[f] = ph /\ sides'[f] = sd

Begin(f) ==
  /\ phase[f] # "busy"
  /\ phase'[f] = "busy" /\ "old" \in sides'[f]

(* The new side comes, goes and comes again while it is written.           *)
Work(f) ==
  /\ phase[f] = "busy"
  /\ phase'[f] = "busy" /\ "old" \in sides[f] \cap sides'[f]

Fail(f) ==
  /\ phase[f] = "busy" /\ "old" \in sides[f]
  /\ Becomes(f, "failed", sides[f])

Copied(f) ==
  /\ phase[f] = "busy" /\ sides[f] = {"old", "new"}
  /\ Becomes(f, "copy_to", sides[f])

(* The old side goes last, or stays because it cannot be removed.          *)
Moved(f) ==
  /\ phase[f] = "busy" /\ sides[f] = {"old", "new"}
  /\ Becomes(f, "move_to", {"new"}) \/ Becomes(f, "move_to", sides[f])

Next ==
  \A f \in Files :
    \/ Becomes(f, phase[f], sides[f])
    \/ Becomes(f, "void", {})
    \/ Begin(f) \/ Work(f) \/ Fail(f) \/ Copied(f) \/ Moved(f)

Spec == Init /\ [][Next]_vars

=============================================================================
