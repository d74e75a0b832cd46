------------------------------- MODULE MCPeers -------------------------------
(* Instances of Peers for TLC.                                              *)
EXTENDS Peers

Budget(restored, adds, accepts, pauses, reads) ==
  [restored |-> restored, adds |-> adds, accepts |-> accepts, pauses |-> pauses,
   reads |-> reads]
MCConns == 1..3
MCEndpoints == 1..4

\* Peers that are inserted and erased while others are dialed, accepted and
\* paused; and one peer that sends frames, in reads of any size.
MCBudgets ==
  {Budget(<<2>>, 0, 0, 1, 4)} \cup
  UNION {{Budget(r, 1, 1, 0, 0), Budget(r, 1, 0, 1, 0), Budget(r, 0, 2, 0, 0)} :
            r \in {<<2, 3>>, <<1, 2, 3>>}}

\* A body, a body with data of a file behind it, and a header alone
MCBegin == <<0, 3, 8, 10>>
MCService == <<1, 1, 0>>
=============================================================================
