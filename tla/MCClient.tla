------------------------------ MODULE MCClient ------------------------------
(* An instance of Client for TLC. What a search shows is checked on a few   *)
(* results, the intervals of the source requests on the edges of time.      *)
EXTENDS Client, SearchResults, SourceTimers

MCConns == 1..9

NoBudget ==
  [start |-> 1, connect |-> 0, search |-> 0, answer |-> 0, store |-> 1, change |-> 0,
   fault |-> 0, stop |-> 0, autosaves |-> 0, watch |-> 0, transfer |-> 0,
   subscribe |-> 0, wait |-> 0, upnp |-> 0]

\* Servers that come, go and move; a search with a server; a stop in a dial;
\* saves that meet; a subscriber while transfers come and go; one who waits;
\* ports that are mapped.
MCBudgets ==
  {[NoBudget EXCEPT !.connect = 3],
   [NoBudget EXCEPT !.connect = 1, !.search = 2, !.answer = 1],
   [NoBudget EXCEPT !.connect = 2, !.stop = 1],
   [NoBudget EXCEPT !.connect = 1, !.stop = 1, !.autosaves = 1],
   [NoBudget EXCEPT !.change = 2, !.fault = 1, !.stop = 1, !.autosaves = 1],
   [NoBudget EXCEPT !.watch = 1, !.transfer = 2, !.subscribe = 1, !.store = 0],
   [NoBudget EXCEPT !.watch = 1, !.transfer = 1, !.wait = 1, !.stop = 1, !.fault = 1],
   [NoBudget EXCEPT !.upnp = 1, !.stop = 1]}

Entry(hash, sources, complete, name) ==
  [Hash |-> hash,
   tags |-> [Sources |-> sources, CompleteSources |-> complete, FileName |-> name]]
SomeEntries == {Entry(h, n, c, 1) : h \in 1..3, n \in 0..1, c \in 0..1}
NoFilter == [MinSize |-> 0, MaxSize |-> 0, MinSources |-> 0, MinCompleteSources |-> 0]
TwoSources == [NoFilter EXCEPT !.MinSources = 2]

\* A snapshot has every result once, one with most sources first, and is any of
\* several lists just when two results tie.
ASSUME SnapshotsAreSorted ==
  \A e1, e2, e3 \in SomeEntries :
    (e1.Hash = 1 /\ e2.Hash = 2 /\ e3.Hash = 3) =>
      LET results == [h \in 1..3 |-> makeSearchResultFromServer(<<e1, e2, e3>>[h])]
          lists   == SnapshotLists(results)
      IN /\ \A s \in lists : \A k \in 1..3 : s[1].count["Sources"] >= s[k].count["Sources"]
         /\ Cardinality(lists) = 1 <=>
              Cardinality({<<e.tags["Sources"], e.tags["CompleteSources"]>> : e \in {e1, e2, e3}}) = 3

\* A file that two senders report below the filter is not shown, though their
\* counts together would pass.
ASSUME FiltersAreForEntries ==
  LET one == makeSearchResultFromServer(Entry(1, 1, 0, 1))
      two == makeSearchResultFromKAD(Entry(1, 2, 0, 2))
      shown == Deliver(Deliver(<< >>, one, TwoSources), two, TwoSources)
  IN shown[1].Source = {"kad"} /\ shown[1].detail["FileName"] = 2

\* The requests of six ticks, half a second apart, with one connection and no
\* candidate, and how many of them go to the DHT
ASSUME ManyRequests ==
  LET Time(k)  == 100000 + 500 * k
      After  == FoldLeft(LAMBDA t, k : Append(t, SecondTick(t[k], Time(k), 1, 0, TRUE, TRUE)),
                         <<NewTimers>>, [k \in 1..6 |-> k])
  IN /\ \A k \in 1..6 : AsksServers(After[k], Time(k), 1, 0)
     /\ {k \in 1..6 : AsksDHT(After[k], Time(k), 1, 0)} = {1, 3, 5}
=============================================================================
