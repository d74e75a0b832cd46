---------------------------- MODULE SearchResults ----------------------------
(***************************************************************************)
(* What a search shows: the answers of servers and of Kad, filtered and    *)
(* merged by file (search.go), as functions of the map results of the      *)
(* task. Texts are numbers, of which 0 is the empty one; their order is    *)
(* that of the texts. Sizes and counts are those that fit their types.     *)
(***************************************************************************)
EXTENDS Integers, FiniteSets

Counts  == {"Sources", "CompleteSources"}
Details == {"FileName", "FileSize", "MediaBitrate", "MediaLength", "MediaCodec",
            "Extension", "FileType"}
Senders == {"server", "kad"}

ResultOf(Hashes) ==
  [Hash : Hashes, Source : SUBSET Senders, count : [Counts -> Nat], detail : [Details -> Nat]]

\* A filter that is 0 is off.
Filters == [MinSize : Nat, MaxSize : Nat, MinSources : Nat, MinCompleteSources : Nat]

\* An entry has a value for some tags; those of the size are its two halves.
UIntTag(entry, tag) == IF tag \in DOMAIN entry.tags THEN entry.tags[tag] ELSE 0

FileSize(entry) ==
  UIntTag(entry, "FileSize")
    + (IF "FileSizeHi" \in DOMAIN entry.tags
       THEN 65536 * (65536 * entry.tags["FileSizeHi"]) ELSE 0)

MakeResult(entry, sender) ==
  [Hash   |-> entry.Hash,
   Source |-> {sender},
   count  |-> [c \in Counts |-> UIntTag(entry, c)],
   detail |-> [d \in Details |-> IF d = "FileSize" THEN FileSize(entry) ELSE UIntTag(entry, d)]]

makeSearchResultFromServer(entry) == MakeResult(entry, "server")
makeSearchResultFromKAD(entry)    == MakeResult(entry, "kad")

\* An unknown size passes, an unknown count is 0.
matchesSearchFilters(r, params) ==
  /\ ~ (/\ params.MinSize > 0 /\ r.detail["FileSize"] > 0
        /\ r.detail["FileSize"] < params.MinSize)
  /\ ~ (params.MaxSize > 0 /\ r.detail["FileSize"] > params.MaxSize)
  /\ ~ (params.MinSources > 0 /\ r.count["Sources"] < params.MinSources)
  /\ ~ (/\ params.MinCompleteSources > 0
        /\ r.count["CompleteSources"] < params.MinCompleteSources)

\* The larger count, the first detail that is known, every sender.
Merged(existing, r) ==
  [Hash   |-> existing.Hash,
   Source |-> existing.Source \cup r.Source,
   count  |-> [c \in Counts |-> IF r.count[c] > existing.count[c]
                                THEN r.count[c] ELSE existing.count[c]],
   detail |-> [d \in Details |-> IF existing.detail[d] = 0
                                 THEN r.detail[d] ELSE existing.detail[d]]]

mergeResult(results, r) ==
  [h \in DOMAIN results \cup {r.Hash} |->
     IF h # r.Hash THEN results[h]
     ELSE IF h \in DOMAIN results THEN Merged(results[h], r) ELSE r]

\* One entry of an answer, as both handlers take it
Deliver(results, r, params) ==
  IF matchesSearchFilters(r, params) THEN mergeResult(results, r) ELSE results

\* The order of a snapshot
ComesBefore(a, b) ==
  IF a.count["Sources"] # b.count["Sources"]
  THEN a.count["Sources"] > b.count["Sources"]
  ELSE IF a.count["CompleteSources"] # b.count["CompleteSources"]
  THEN a.count["CompleteSources"] > b.count["CompleteSources"]
  ELSE IF a.detail["FileSize"] # b.detail["FileSize"]
  THEN a.detail["FileSize"] > b.detail["FileSize"]
  ELSE a.detail["FileName"] < b.detail["FileName"]

\* The lists a snapshot may be: a map is read in any order, and the sort keeps
\* no order between results of which neither comes before the other.
SnapshotLists(results) ==
  LET all == {results[h] : h \in DOMAIN results}
  IN {s \in [1..Cardinality(all) -> all] :
        /\ {s[k] : k \in DOMAIN s} = all
        /\ \A j, k \in DOMAIN s : j < k => ~ComesBefore(s[k], s[j])}
=============================================================================
