---------------------------- MODULE MCDownload -----------------------------
(***************************************************************************)
(* Instances of Download for TLC: a file of two pieces, the first of two   *)
(* blocks and the last of one, and two peers.                              *)
(***************************************************************************)
EXTENDS Download, TLC

CONSTANTS p1, p2

TwoPeers == {p1, p2}
OnePeer  == {p1}

\* One peer has the whole file, the other only the first piece.
MCAvailable(peers) == [p \in peers |-> IF p = p1 THEN {0, 1} ELSE {0}]

AvailableFromTwo == MCAvailable(TwoPeers)
AvailableFromOne == MCAvailable(OnePeer)

NoFaults == [f \in Faults |-> 0]

\* Everything that can go wrong or be asked, once each ...
FaultLimits == [f \in Faults |-> 1]

\* ... and at most two of them in one behaviour, saving aside.
FewFaults == Cardinality({f \in Faults \ {"save"} : spent[f] # 0}) <= 2

\* Peers come and go, one block arrives damaged, the user pauses and resumes.
SteadyLimits == [NoFaults EXCEPT !["bad"] = 1, !["drop"] = 1, !["pause"] = 1]
-----------------------------------------------------------------------------
(* One piece of two blocks from one peer, for the runs that must fail.     *)

AvailableOnePiece == [p \in OnePeer |-> {0}]

\* Save, end of the process, no other fault.
RestartLimits == [NoFaults EXCEPT !["save"] = 1, !["restart"] = 1]

\* Save, end of the process, save again.
TwoSavesLimits == [NoFaults EXCEPT !["save"] = 2, !["restart"] = 1]

\* One failed write and one damaged block.
DiskLimits == [NoFaults EXCEPT !["bad"] = 1, !["io"] = 1]

=============================================================================
