---------------------------- MODULE FileTransfer ----------------------------
(***************************************************************************)
(* What a transfer promises to its user: the pieces it reports as          *)
(* complete only grow, a piece is reported only when the file on disk      *)
(* holds its right content, and that content stays until the transfer is   *)
(* removed.  Connections, requests, disk tasks and hashes are all below    *)
(* this level; Download implements it (Download!Contract).                 *)
(***************************************************************************)
CONSTANT Pieces

VARIABLES
  have,     \* the pieces reported as complete
  intact,   \* the pieces whose content on disk is right
  removed   \* the user has removed the transfer

vars == <<have, intact, removed>>

Init == have = {} /\ intact = {} /\ removed = FALSE

\* Bytes arrive and are written, anywhere but in a complete piece.
Fetch ==
  /\ ~removed
  /\ intact' \in SUBSET Pieces
  /\ have \subseteq intact'
  /\ UNCHANGED <<have, removed>>

\* A piece is verified.
Complete(p) ==
  /\ p \in intact \ have
  /\ have' = have \union {p}
  /\ UNCHANGED <<intact, removed>>

Remove ==
  /\ ~removed
  /\ removed' = TRUE
  /\ UNCHANGED <<have, intact>>

\* The file of a removed transfer may be deleted.
Dispose ==
  /\ removed
  /\ intact' \in SUBSET Pieces
  /\ UNCHANGED <<have, removed>>

Next == Fetch \/ (\E p \in Pieces : Complete(p)) \/ Remove \/ Dispose

Spec == Init /\ [][Next]_vars

=============================================================================
