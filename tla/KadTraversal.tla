--------------------------- MODULE KadTraversal ----------------------------
(***************************************************************************)
(* The iterative lookups of the DHT and the requests they wait for:        *)
(* kad_traversal.go, kad_rpc.go and the part of kad_node.go that starts    *)
(* them. Every operator maps a tracker to a tracker. A tracker is a table  *)
(* (KadTable) with the further fields                                      *)
(*   up        the socket is open                                          *)
(*   routers, storage   the router nodes and the storage point             *)
(*   tx        kadRPCManager.transactions, oldest first                    *)
(*   running   the traversals, by kind and target                          *)
(*   index     the source, keyword and notes indexes                       *)
(*   answers   how often each listener was called                          *)
(* A traversal has obs, its observers in the order they were made, and     *)
(* order, the observers of its list `results`, the closest first. want is  *)
(* numTargetNodes, branch branchFactor, out invokeCount, accum what was    *)
(* found, who the listener (0 for none).                                   *)
(***************************************************************************)
EXTENDS KadTable

CONSTANTS
  Unwritable,   \* addresses the socket refuses to send to
  NoAddr,       \* the nil address, no storage point
  Branching,    \* searchBranching: 5
  MaxResults,   \* kadTraversalMaxResults: 100
  Closest,      \* contacts a search starts from: 50
  Drawn,        \* identifiers that RandomHash may give to an entry without one
  NoTarget,     \* the nil target of a transaction
  Nobody        \* the nil observer of a greeting

ASSUME TraversalAssumption ==
  /\ Branching \in Nat \ {0} /\ MaxResults \in Nat \ {0} /\ Closest \in Nat
  /\ Drawn \subseteq Ids /\ Drawn # {}
  /\ NoAddr \notin Addrs

Direct == {"search-sources", "search-keywords"}
Kinds == {"bootstrap", "find-sources", "find-keywords", "refresh",
          "firewalled"} \cup Direct

ASSUME NobodyAssumption == Nobody \notin Kinds \X Ids

\* The answer a request of each kind waits for, and whether it names a target
Answer == [k \in Kinds |-> CASE k = "bootstrap" -> "bootstrapRes"
                             [] k = "firewalled" -> "firewalledRes"
                             [] k \in Direct -> "searchRes"
                             [] OTHER -> "res"]
AnswerTarget(key) ==
  IF key[1] \in {"bootstrap", "firewalled"} THEN NoTarget ELSE key[2]

\* newObserver
Observer(a, id, noID) ==
  [to |-> a, id |-> id, noID |-> noID, queried |-> FALSE, short |-> FALSE,
   failed |-> FALSE, alive |-> FALSE, done |-> FALSE, got |-> FALSE,
   entries |-> {}]

\* newKadTraversal
NewTraversal(who) ==
  [obs |-> << >>, order |-> << >>, want |-> 2 * BucketSize, branch |-> 0,
   out |-> 0, accum |-> {}, who |-> who]

\* addNode: at the end of the list, which sets the number of nodes wanted
AddCandidate(t, a, id) ==
  [t EXCEPT !.obs = Append(@, Observer(a, id, FALSE)),
            !.order = Append(@, Len(t.obs) + 1),
            !.want = Len(t.order) + 1]

\* addEntry: at its place by distance, unless the entry there has the same
\* identifier. An entry without an identifier is given one at random, here
\* one that the traversal does not have yet, if there is any.
AddEntry(t, target, a, id) ==
  LET new == {d \in Drawn : \A i \in DOMAIN t.obs : t.obs[i].id # d}
      drawn == CHOOSE d \in Drawn : new # {} => d \in new
      o == IF id = NoId THEN Observer(a, drawn, TRUE) ELSE Observer(a, id, FALSE)
      ahead == Cardinality({i \in DOMAIN t.order :
                              Closer(t.obs[t.order[i]].id, o.id, target)})
      grown == InsertAt(t.order, ahead + 1, Len(t.obs) + 1)
  IN IF /\ ahead < Len(t.order)
        /\ t.obs[t.order[ahead + 1]].id = o.id
     THEN t
     ELSE [t EXCEPT !.obs = Append(@, o),
                    !.order = SubSeq(grown, 1, IF Len(grown) > MaxResults
                                               THEN MaxResults ELSE Len(grown))]

\* addEntry for each of a list of addresses without identifier
AddUnknown(t, target, as) ==
  After(t, LAMBDA u, a : AddEntry(u, target, a, NoId), as)
Routers(w) == SetToSeq(w.routers)

\* addRequests: queries, in the order of the list, observers that were not
\* queried, while fewer than `want` have answered and fewer than `branch`
\* requests are out. A request that cannot be sent marks its observer Failed.
Visit(w, t, acc, i) ==
  LET o == t.obs[i]
      left == IF o.alive THEN acc.left - 1 ELSE acc.left
  IN IF acc.left = 0 \/ acc.out >= t.branch THEN acc
     ELSE IF o.queried THEN [acc EXCEPT !.left = left]
     ELSE IF w.up /\ o.to \notin Unwritable
     THEN [acc EXCEPT !.left = left, !.out = @ + 1, !.sent = Append(@, i)]
     ELSE [acc EXCEPT !.left = left, !.lost = @ \cup {i}]
Request(key, t, i) ==
  [to |-> t.obs[i].to, op |-> Answer[key[1]], target |-> AnswerTarget(key),
   multi |-> key[1] \in Direct, short |-> FALSE, key |-> key, obs |-> i]

AddRequests(w, key) ==
  LET t == w.running[key]
      end == After([left |-> t.want, out |-> t.out, sent |-> << >>, lost |-> {}],
                   LAMBDA acc, i : Visit(w, t, acc, i), t.order)
      Marked(i) == [t.obs[i] EXCEPT
                      !.queried = @ \/ i \in ToSet(end.sent) \cup end.lost,
                      !.failed = @ \/ i \in end.lost]
  IN [w EXCEPT !.running[key].obs = [i \in DOMAIN t.obs |-> Marked(i)],
               !.running[key].out = end.out,
               !.tx = @ \o [i \in DOMAIN end.sent |-> Request(key, t, end.sent[i])]]

\* start, up to its first requests: refused while a traversal of this kind
\* and target runs.
Launch(w, key, t) ==
  LET sized == [t EXCEPT !.branch = Branching,
                         !.want = CASE key[1] = "refresh" -> 1
                                    [] key[1] \in Direct -> Len(t.order)
                                    [] OTHER -> @]
      full == IF t.order = << >> THEN AddUnknown(sized, key[2], Routers(w))
              ELSE sized
  IN AddRequests([w EXCEPT !.running = Put(@, key, full)], key)

Forget(w, key) ==
  [w EXCEPT !.running = [k \in DOMAIN @ \ {key} |-> @[k]]]

\* Mutant: a listener is not told of an empty result.
FinishSearchQuietly(w, key) ==
  LET t == w.running[key]
  IN IF t.accum = {} THEN Forget(w, key)
     ELSE [Forget(w, key) EXCEPT !.answers[t.who] = @ + 1]

\* done of a direct search: what was found goes to the index and to the
\* listener.
FinishSearch(w, key) ==
  LET t == w.running[key]
      what == IF key[1] = "search-sources" THEN "sources" ELSE "keywords"
  IN [Forget(w, key) EXCEPT !.index[what] = @ \cup ({key[2]} \X t.accum),
                            !.answers[t.who] = @ + 1]

\* done of a find: the contacts that did not fail are asked for the entries.
\* The result of start is ignored.
StartDirect(w, key) ==
  LET t == w.running[key]
      next == <<IF key[1] = "find-sources" THEN "search-sources"
                ELSE "search-keywords", key[2]>>
      first == IF w.storage = NoAddr THEN NewTraversal(t.who)
               ELSE AddCandidate(NewTraversal(t.who), w.storage, key[2])
      direct == After(first,
                      LAMBDA u, i : IF t.obs[i].failed THEN u
                                    ELSE AddCandidate(u, t.obs[i].to, t.obs[i].id),
                      t.order)
      started == Launch(Forget(w, key), next, direct)
  IN IF next \in DOMAIN w.running THEN Forget(w, key)
     ELSE IF started.running[next].out = 0 THEN FinishSearch(started, next) ELSE started

\* maybeSendHelloLocked, called without the lock
SendHello(w, a) ==
  LET n == w.at[a]
  IN IF w.nodes[n].hello THEN w
     ELSE [w EXCEPT !.nodes[n].hello = TRUE,
                    !.tx = Append(@, [to |-> a, op |-> "helloRes",
                                      target |-> NoTarget, multi |-> FALSE,
                                      short |-> FALSE, key |-> Nobody, obs |-> 0])]

\* done of a bootstrap: the entries that were not queried become contacts,
\* with the identifier they have, drawn or not.
Greet(w, o) == SendHello(AddOrUpdate(w, o.id, o.to), o.to)
AddUnqueried(w, t) ==
  After(w, LAMBDA v, i : IF t.obs[i].queried THEN v ELSE Greet(v, t.obs[i]), t.order)

Done(w, key) ==
  CASE key[1] \in Direct -> FinishSearch(w, key)
    [] key[1] \in {"find-sources", "find-keywords"} -> StartDirect(w, key)
    [] key[1] = "bootstrap" -> AddUnqueried(Forget(w, key), w.running[key])
    [] OTHER -> Forget(w, key)

\* With nothing out the traversal is done.
Settle(w, key) == IF w.running[key].out = 0 THEN Done(w, key) ELSE w

Start(w, key, t) ==
  IF key \in DOMAIN w.running THEN w
  ELSE Settle(Launch(w, key, t), key)

\* addRequests, then done if nothing is out
GoOn(w, key) == Settle(AddRequests(w, key), key)

\* Mutant: the request is still counted.
EndedCounted(t, i) ==
  [t EXCEPT !.branch = IF t.obs[i].short /\ @ > 1 THEN @ - 1 ELSE @,
            !.obs[i].done = TRUE]

\* What finished and failed share: a slow observer gives its place back, and
\* one request less is out.
Ended(t, i) ==
  [t EXCEPT !.branch = IF t.obs[i].short /\ @ > 1 THEN @ - 1 ELSE @,
            !.out = IF @ > 0 THEN @ - 1 ELSE @,
            !.obs[i].done = TRUE]

\* kadObserver.done and finished
Finished(w, key, i) ==
  LET t == [Ended(w.running[key], i) EXCEPT
              !.obs[i].alive = TRUE,
              !.accum = @ \cup w.running[key].obs[i].entries]
  IN IF w.running[key].obs[i].done THEN w
     ELSE GoOn([w EXCEPT !.running[key] = t], key)

\* writeFailedObserver
ReportFailed(w, key, o) ==
  IF key[1] \in {"find-sources", "search-sources"} \/ o.noID
     \/ o.to \notin DOMAIN w.at THEN w
  ELSE NodeFailed(w, w.at[o.to])

\* kadObserver.timeout: a direct search that got some answer is finished by
\* the time-out, any other observer fails.
TimedOut(w, key, i) ==
  LET o == w.running[key].obs[i]
      t == [Ended(w.running[key], i) EXCEPT !.obs[i].failed = TRUE]
  IN IF o.done THEN w
     ELSE IF key[1] \in Direct /\ o.got THEN Finished(w, key, i)
     ELSE GoOn(ReportFailed([w EXCEPT !.running[key] = t], key, o), key)

\* kadObserver.shortTimeout
ShortTimedOut(w, key, i) ==
  IF w.running[key].obs[i].short THEN w
  ELSE [w EXCEPT !.running[key].obs[i].short = TRUE,
                 !.running[key].branch = @ + 1]

\* kadRPCManager.Incoming: the first transaction an answer fits, 0 if none
Match(w, from, op, target) ==
  SelectInSeq(w.tx, LAMBDA x : /\ x.to = from /\ x.op = op
                               /\ x.target \in {NoTarget, target})
Taken(w, j) ==
  IF j = 0 \/ w.tx[j].multi THEN w ELSE [w EXCEPT !.tx = RemoveAt(@, j)]
----------------------------------------------------------------------------
\* The searches of kad_node.go, each from the closest live contacts

FromClosest(w, key, who) ==
  After(NewTraversal(who),
        LAMBDA t, n : AddCandidate(t, w.nodes[n].addr, w.nodes[n].id),
        FindClosest(w, key[2], Closest))

\* searchSources, searchKeywords, refresh, firewalled
Lookup(w, key, who) == Start(w, key, FromClosest(w, key, who))

\* bootstrap: every known address, and the routers again
Bootstrap(w) ==
  LET key == <<"bootstrap", Self>>
      met == SetToSeq(DOMAIN w.at)
      known == [i \in DOMAIN met |-> w.nodes[w.at[met[i]]].addr]
  IN Start(w, key, AddUnknown(NewTraversal(0), Self, known \o Routers(w)))
----------------------------------------------------------------------------
\* Mutant: the observer of an expired transaction is not told.
ExpireSilently(w, e, s) == [w EXCEPT !.tx = SubSeq(@, e + 1, Len(@))]

\* kadRPCManager.Tick: the oldest e transactions expire, the oldest s have
\* been waiting for the short time-out.
Slow(w, x) == IF x.key = Nobody \/ x.short THEN w ELSE ShortTimedOut(w, x.key, x.obs)
Kept(w, e, s) ==
  [w EXCEPT !.tx = [j \in 1..(Len(w.tx) - e) |->
                      [w.tx[j + e] EXCEPT !.short = @ \/ j + e <= s]]]
Over(w, x) ==
  IF x.key # Nobody THEN TimedOut(w, x.key, x.obs)
  ELSE IF x.to \notin DOMAIN w.at THEN w
  ELSE NodeFailed([w EXCEPT !.nodes[w.at[x.to]] = Failed(@)], w.at[x.to])
Expire(w, e, s) ==
  After(Kept(After(w, Slow, SubSeq(w.tx, 1, s)), e, s), Over, SubSeq(w.tx, 1, e))
============================================================================
