------------------------------ MODULE Servers ------------------------------
(***************************************************************************)
(* The server connections of a session: server_connection.go,              *)
(* server_connection_policy.go and their part of session.go, as functions  *)
(* of the record v of the fields that Session.mu guards. Client composes   *)
(* them with the goroutines that call them.                                *)
(*                                                                         *)
(* A connection names the identity its server gives it: clientID, tcpFlags *)
(* and auxPort of the session are those of connection v.identity, or zero. *)
(* What the session then asks of the server (sources, offered files) is    *)
(* left out, and so is the ping: ServerPingTimeout is zero and nobody sets *)
(* it.                                                                     *)
(***************************************************************************)
EXTENDS Integers, FiniteSets, Functions

CONSTANTS
  Servers,       \* the identifiers of servers
  Conns,         \* ServerConnection objects; one is reused when nobody has it
  NoConn,        \* a nil pointer
  MaxReconnects  \* maxReconnects of a policy (5)

ASSUME ServersAssumption ==
  Conns \subseteq Nat /\ NoConn \notin Conns /\ MaxReconnects \in Nat \ {0}

\* socket: being dialed, "open", or "closed" (disconnecting); lost: the close
\* code is not NoError; shaken: handshakeCompleted.
ConnRecord == [server : Servers, socket : {"dialing", "open", "closed"},
               lost : BOOLEAN, shaken : BOOLEAN]

\* A missing policy and a new one behave alike: no candidate, all attempts
\* used. due: nextConnectTime has come, will come, or is -1.
Policy == [known : BOOLEAN, iteration : 0..MaxReconnects, due : {"now", "later", "never"}]
NewPolicy == [known |-> FALSE, iteration |-> MaxReconnects, due |-> "never"]

\* losses counts what the policy was told of since the program last asked for
\* the server; the code has no such field, a property refers to it.
NewServers ==
  [conn |-> << >>, entry |-> [s \in Servers |-> NoConn], primary |-> NoConn,
   identity |-> NoConn, configured |-> {}, policy |-> [s \in Servers |-> NewPolicy],
   losses |-> [s \in Servers |-> 0]]

ServersTyped(v) ==
  /\ v.conn \in [DOMAIN v.conn -> ConnRecord] /\ DOMAIN v.conn \subseteq Conns
  /\ v.entry \in [Servers -> DOMAIN v.conn \cup {NoConn}]
  /\ {v.primary, v.identity} \subseteq DOMAIN v.conn \cup {NoConn}
  /\ v.configured \subseteq Servers
  /\ v.policy \in [Servers -> Policy]
  /\ v.losses \in [Servers -> 0..MaxReconnects]

Disconnecting(v, c) == v.conn[c].socket = "closed"
Shaken(v, c) == v.conn[c].shaken
Entries(v) == Range(v.entry) \ {NoConn}
Active(v) == (Entries(v) \cup {v.primary}) \ {NoConn}

\* The connections that somebody still has: the others are garbage.
Kept(v, held) ==
  [v EXCEPT !.conn = Restrict(@, DOMAIN @ \cap (Active(v) \cup {v.identity} \cup held))]

Close(v, c, lost) ==
  IF Disconnecting(v, c) THEN v
  ELSE [v EXCEPT !.conn[c].socket = "closed", !.conn[c].lost = lost]

\* The end of a dial. A connection closed meanwhile stays closed.
Dialed(v, c, ok) ==
  IF Disconnecting(v, c) THEN v
  ELSE IF ok THEN [v EXCEPT !.conn[c].socket = "open"] ELSE Close(v, c, TRUE)
----------------------------------------------------------------------------
\* The policy of one server

SetConnectCandidate(v, s) ==
  [v EXCEPT !.policy[s] = [known |-> TRUE, iteration |-> 0, due |-> "now"],
            !.losses[s] = 0]

\* The first failure without a candidate is retried at once, the others after
\* iteration times five seconds, while there are iterations below the limit.
FailedWithin(v, s, limit) ==
  LET n == IF v.policy[s].known THEN v.policy[s].iteration + 1 ELSE 0
  IN [v EXCEPT !.policy[s] =
                 [known |-> TRUE, iteration |-> IF n > MaxReconnects THEN MaxReconnects ELSE n,
                  due |-> IF n >= limit THEN "never" ELSE IF n = 0 THEN "now" ELSE "later"],
               !.losses[s] = IF @ < MaxReconnects THEN @ + 1 ELSE @]

\* Mutants: HasIterations is off by one, either way.
FailedEarly(v, s) == FailedWithin(v, s, MaxReconnects - 1)
FailedLate(v, s) == FailedWithin(v, s, MaxReconnects + 1)

SetServerConnectionFailed(v, s) == FailedWithin(v, s, MaxReconnects)
----------------------------------------------------------------------------
\* The primary server and the identity

\* promotePrimaryServer of a connection
Promote(v, c) ==
  IF v.primary = NoConn \/ Disconnecting(v, v.primary) \/ ~Shaken(v, v.primary)
  THEN [v EXCEPT !.primary = c] ELSE v

\* promotePrimaryServer(nil): any entry may be found first
PromoteAny(v) ==
  LET candidates == {c \in Entries(v) : ~Disconnecting(v, c)}
  IN IF v.primary # NoConn /\ ~Disconnecting(v, v.primary) THEN {v}
     ELSE {[v EXCEPT !.primary = c] : c \in IF candidates = {} THEN {NoConn} ELSE candidates}

\* Mutant: the identity is left when the primary server is gone.
RefreshNot(v) == {v}

\* refreshPrimaryServerIdentity
Refresh(v) ==
  LET candidates == {c \in Entries(v) : Shaken(v, c)}
  IN IF v.primary # NoConn /\ Shaken(v, v.primary) THEN {[v EXCEPT !.identity = v.primary]}
     ELSE IF candidates = {} THEN {[v EXCEPT !.identity = NoConn]}
     ELSE {[v EXCEPT !.primary = c, !.identity = c] : c \in candidates}

\* OnDisconnect: whichever connection the entry of the server has, it goes.
OnServerConnectionClosed(v, c) ==
  LET s == v.conn[c].server
      gone == [v EXCEPT !.conn[c].shaken = FALSE, !.entry[s] = NoConn,
                        !.primary = IF @ = c THEN NoConn ELSE @]
      told == IF v.conn[c].lost THEN SetServerConnectionFailed(gone, s) ELSE gone
  IN UNION {Refresh(w) : w \in PromoteAny(told)}

\* OnServerIDChange of the connection, outside Session.mu, and of the session
HandshakeCompleted(v, c) == [v EXCEPT !.conn[c].shaken = TRUE]
OnServerIDChange(v, c) ==
  LET w == [v EXCEPT !.primary = IF @ = NoConn \/ ~Shaken(v, @) THEN c ELSE @]
  IN IF w.primary = c \/ w.identity = NoConn THEN [w EXCEPT !.identity = c] ELSE w

\* A new connection for s, whose dial begins.
Free(v) == Conns \ DOMAIN v.conn
Fresh(v) == CHOOSE c \in Free(v) : \A d \in Free(v) : c <= d
Create(v, s) ==
  LET c == Fresh(v)
      new == [server |-> s, socket |-> "dialing", lost |-> FALSE, shaken |-> FALSE]
  IN Promote([v EXCEPT !.conn = [d \in DOMAIN @ \cup {c} |-> IF d = c THEN new ELSE @[d]],
                       !.entry[s] = c], c)

\* ConnectTo, the part under Session.mu, up to the new connection. moved: the
\* name of the server has another address than before.
Wanted(v, s) == SetConnectCandidate([v EXCEPT !.configured = @ \cup {s}], s)
Reused(v, s, moved) == v.entry[s] # NoConn /\ ~moved /\ ~Disconnecting(v, v.entry[s])
Replaced(v, s) == IF v.entry[s] = NoConn THEN v ELSE Close(v, v.entry[s], FALSE)

\* DisconnectFrom
DisconnectAll(v) ==
  LET closed == [c \in DOMAIN v.conn |->
                   IF c \in Entries(v) THEN Close(v, c, FALSE).conn[c] ELSE v.conn[c]]
  IN [NewServers EXCEPT !.conn = closed]
============================================================================
