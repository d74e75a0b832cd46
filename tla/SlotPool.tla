------------------------------ MODULE SlotPool ------------------------------
(***************************************************************************)
(* What an upload queue promises: a slot is given only while fewer clients *)
(* upload than the rate allows at the moment, with one more for a client   *)
(* that was passed over for its low identifier; a client is never in both  *)
(* lists; a free slot goes to a client that waits as long as one waits;    *)
(* clients move one at a time.                                             *)
(* UploadQueue implements it (UploadQueue!Pool).                           *)
(***************************************************************************)
EXTENDS Integers, FiniteSets

CONSTANTS
  Clients,
  LowIDs      \* those that cannot be connected to

VARIABLES
  waiting,    \* the clients that wait for a slot
  uploading,  \* the clients that have one
  slots       \* how many clients may upload at a time

vars == <<waiting, uploading, slots>>

Init == waiting = {} /\ uploading = {} /\ slots \in Nat

Free == Cardinality(uploading) < slots

\* A client asks for a slot and has to wait.
Enqueue(c) ==
  /\ c \notin waiting \union uploading
  /\ waiting' = waiting \union {c}
  /\ UNCHANGED uploading

\* A client asks for a slot and gets it: nobody waits.
StartAtOnce(c) ==
  /\ waiting = {}
  /\ Free
  /\ uploading' = uploading \union {c}
  /\ UNCHANGED waiting

\* A client that waits gets a slot.
Start(c) ==
  /\ c \in waiting
  /\ Free \/ (c \in LowIDs /\ Cardinality(uploading) = slots)
  /\ waiting' = waiting \ {c}
  /\ uploading' = uploading \union {c}

\* A client has had its turn.
Requeue(c) ==
  /\ c \in uploading
  /\ uploading' = uploading \ {c}
  /\ waiting' = waiting \union {c}

\* A client goes away, or loses its slot.
Leave(c) ==
  /\ waiting' = waiting \ {c}
  /\ uploading' = uploading \ {c}

\* The rate allows another number of slots; nobody loses one at once.
Resize ==
  /\ slots' \in Nat
  /\ UNCHANGED <<waiting, uploading>>

Next ==
  \/ \E c \in Clients :
       /\ Enqueue(c) \/ StartAtOnce(c) \/ Start(c) \/ Requeue(c) \/ Leave(c)
       /\ UNCHANGED slots
  \/ Resize

Spec == Init /\ [][Next]_vars

=============================================================================
