----------------------------- MODULE Listeners -----------------------------
(***************************************************************************)
(* What a client tells its subscribers: client_listener.go and             *)
(* client_progress_listener.go, for one subscriber, as functions of the    *)
(* record v. An event is sent to a channel with a buffer, or dropped when  *)
(* the buffer is full; Client has the goroutines that send.                *)
(*                                                                         *)
(* Of a transfer an event has its state and its bytes: here, one of three  *)
(* states, or "absent".                                                    *)
(***************************************************************************)
EXTENDS Integers, Sequences, FiniteSets, Functions

CONSTANTS
  Transfers,  \* hashes of transfers
  Buffer      \* the buffer of a channel

ASSUME ListenersAssumption == Buffer \in Nat \ {0}

States == {"paused", "running", "finished"}
Snapshots == [Transfers -> States \cup {"absent"}]
NoTransfers == [t \in Transfers |-> "absent"]
Events == UNION {[T -> States \cup {"absent"}] : T \in SUBSET Transfers}

\* A subscriber: of ClientStatusEvents or TransferProgressEvents; built: the
\* snapshot that is to be its first event; knows: what it was told so far.
\* missed: the transfers of which the last event was dropped, or which the
\* first event showed in another state than lastProgress. The code has no such
\* field; a property refers to it.
NoSub == [at |-> "none", kind |-> "status", built |-> NoTransfers, queue |-> << >>,
          knows |-> NoTransfers, missed |-> {}]

\* last: lastProgress
NewListeners == [last |-> NoTransfers, sub |-> NoSub]

ListenersTyped(v) ==
  /\ v.last \in Snapshots
  /\ v.sub.at \in {"none", "registered", "built", "subscribed", "cancelled"}
  /\ v.sub.kind \in {"status", "progress"} /\ {v.sub.built, v.sub.knows} \subseteq Snapshots
  /\ Len(v.sub.queue) <= Buffer /\ Range(v.sub.queue) \subseteq Events
  /\ v.sub.missed \subseteq Transfers

Registered(sub) == sub.at \in {"registered", "built", "subscribed"}

\* select with a default
Send(sub, event) ==
  IF ~Registered(sub) THEN sub
  ELSE IF Len(sub.queue) < Buffer
       THEN [sub EXCEPT !.queue = Append(@, event), !.missed = @ \ DOMAIN event]
       ELSE [sub EXCEPT !.missed = @ \cup DOMAIN event]

emitStatusUpdate(v, current) ==
  IF v.sub.kind = "status" THEN [v EXCEPT !.sub = Send(@, current)] ELSE v

\* What is reported: transfers that are new or have changed, or all of them, and
\* those that are gone. As a mutant of Changes, the first part leaves the second
\* out.
PresentChanges(v, current, force) ==
  {t \in Transfers : current[t] # "absent" /\ (force \/ current[t] # v.last[t])}
Changes(v, current, force) ==
  PresentChanges(v, current, force)
    \cup {t \in Transfers : current[t] = "absent" /\ v.last[t] # "absent"}

\* The part under progressMu; nothing is sent when nothing has changed.
emitTransferProgressUpdate(v, current, force) ==
  LET changes == Changes(v, current, force)
  IN [v EXCEPT !.last = current,
               !.sub = IF changes = {} \/ @.kind # "progress" THEN @
                       ELSE Send(@, Restrict(current, changes))]

\* Subscribe: the channel is registered, then a snapshot is built, then it is
\* sent, each by itself.
Subscribe(v, kind) == [v EXCEPT !.sub = [NoSub EXCEPT !.at = "registered", !.kind = kind]]
Build(v, current) == [v EXCEPT !.sub.at = "built", !.sub.built = current]
emitCurrentTo(v) ==
  LET sub == v.sub
      first == IF sub.kind = "status" THEN sub.built
               ELSE Restrict(sub.built, {t \in Transfers : sub.built[t] # "absent"})
      room == Len(sub.queue) < Buffer
  IN [v EXCEPT !.sub = [sub EXCEPT
        !.at = "subscribed", !.built = NoTransfers,
        !.queue = IF room THEN Append(@, first) ELSE @,
        !.missed = IF room THEN {t \in Transfers : sub.built[t] # v.last[t]}
                   ELSE @ \cup (DOMAIN first \ UNION {DOMAIN e : e \in Range(sub.queue)})]]

\* The cancel function; what is left in the channel is of no interest.
Cancel(v) == [v EXCEPT !.sub = [NoSub EXCEPT !.at = "cancelled"]]
Receive(v) ==
  LET event == Head(v.sub.queue)
      told == [t \in Transfers |-> IF t \in DOMAIN event THEN event[t] ELSE v.sub.knows[t]]
  IN [v EXCEPT !.sub.queue = Tail(@), !.sub.knows = told]
=============================================================================
