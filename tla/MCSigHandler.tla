---------------------------- MODULE MCSigHandler ----------------------------
(* SigHandler on Linux: the tables of signal(7), which the source cites.   *)
EXTENDS SigHandler

Table(stop, cont, ign, sigs) ==
  [s \in sigs |-> IF s \in stop THEN "stop" ELSE IF s \in cont THEN "continue"
                  ELSE IF s \in ign THEN "ignore" ELSE "terminate"]

(* Linux: the numbers of enum SIG are its own.  glibc keeps 32 and 33 for  *)
(* itself.                                                                 *)
LinuxSignals == 1..64
LinuxDefault == Table({19, 20, 21, 22}, {18}, {17, 23, 28}, LinuxSignals)
GlibcRefused == {9, 19, 32, 33}

(* HUP TRAP KILL SEGV TERM CHLD CONT STOP TSTP, and the ends of the       *)
(* real-time range.                                                        *)
LinuxDelivered == {1, 5, 9, 11, 15, 17, 18, 19, 20, 34, 63, 64}

=============================================================================
