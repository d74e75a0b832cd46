------------------------------- MODULE Search -------------------------------
(***************************************************************************)
(* The active search: searchTask of search.go and what session.go does     *)
(* with it, as functions of the task q. Its results are left out: nothing  *)
(* in the control of a search depends on them.                             *)
(***************************************************************************)
CONSTANT NoSearch   \* activeSearch is nil

\* owed: SearchKeywords took the search and has not called back; the code has
\* no such field, it is a promise of the tracker (SearchesAnswered of Kad).
SearchRecord ==
  [state : {"running", "finished", "failed"}, serverBusy : BOOLEAN, dhtBusy : BOOLEAN,
   deadline : {"none", "set", "passed"}, owed : BOOLEAN]

newSearchTask == [state |-> "running", serverBusy |-> FALSE, dhtBusy |-> FALSE,
                  deadline |-> "none", owed |-> FALSE]

Running(q) == q # NoSearch /\ q.state = "running"

finishLocked(q) ==
  IF q.state = "running" /\ ~q.serverBusy /\ ~q.dhtBusy
  THEN [q EXCEPT !.state = "finished"] ELSE q

\* sendSearchRequest, once it has sent to some server
Sent(q) == [q EXCEPT !.serverBusy = TRUE, !.deadline = "set"]

\* Mutant: the time-out of the servers is not set.
SentForEver(q) == [q EXCEPT !.serverBusy = TRUE]

ServersAsked(q) == Sent(q)

\* startDHTSearch: busy first, the tracker is asked after that.
DHTAsked(q) == [q EXCEPT !.dhtBusy = TRUE]
Accepted(q) == [q EXCEPT !.owed = TRUE]
finishDHT(q) == finishLocked([q EXCEPT !.dhtBusy = FALSE, !.owed = FALSE])

\* OnServerSearchResult: there is now a later deadline, by the time-out if
\* more results were announced and asked for, else by two seconds.
OnServerSearchResult(q) == IF Running(q) THEN [q EXCEPT !.deadline = "set"] ELSE q

onTick(q) ==
  IF ~Running(q) THEN q
  ELSE finishLocked([q EXCEPT !.serverBusy = @ /\ q.deadline # "passed"])

fail(q) == [q EXCEPT !.serverBusy = FALSE, !.dhtBusy = FALSE, !.state = "failed"]
=============================================================================
