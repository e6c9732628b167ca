----------------------------- MODULE AtomicFile -----------------------------
(***************************************************************************)
(* What WriteFileAtomic() (src/app/win32/file.cc) promises of a file that   *)
(* is replaced: a reader finds one complete version of it at every moment,  *)
(* and after a power loss the version found is the last one that was        *)
(* hardened or the one that was just put in its place.                      *)
(***************************************************************************)
CONSTANT Versions  \* the complete versions of the file

VARIABLES
  value,  \* the version a reader finds
  stable  \* the version a power loss leaves behind

Init == value \in Versions /\ stable = value

Replace == value' \in Versions /\ stable' = stable

Harden == value' = value /\ stable' = value

\* The user writes the file with a program of their own.
Rewrite == value' \in Versions /\ stable' = value'

PowerLoss == value' \in {value, stable} /\ stable' = value'

Next == Replace \/ Harden \/ Rewrite \/ PowerLoss

Spec == Init /\ [][Next]_<<value, stable>>

=============================================================================
