----------------------------- MODULE LinkStore ------------------------------
(***************************************************************************)
(* The link graph store: inmem/graph.go, and cdb/graph.go, which promises  *)
(* the same of one SQL statement per call.  A method that writes maps the  *)
(* old store to the new one under the write lock, so each is an operator.  *)
(* UpsertLink finds links by URL and never deletes one: a URL stands for   *)
(* the link and its ID, and a partition is a set of URLs.                  *)
(***************************************************************************)
EXTENDS Integers

CONSTANT Urls

ASSUME UrlsAssumption == Urls # {}

(* retrieved[u] is the link's RetrievedAt, updated[p] the UpdatedAt of the *)
(* edge p = <<src, dst>>.  Zero is the zero time.Time.                     *)
Absent == -1
NoLinks == [u \in Urls |-> Absent]
NoEdges == [p \in Urls \X Urls |-> Absent]

Known(retrieved) == {u \in Urls : retrieved[u] # Absent}
Edges(updated)   == {p \in Urls \X Urls : updated[p] # Absent}
Out(updated, u)  == {v \in Urls : updated[<<u, v>>] # Absent}

(* Variant with a bug: the timestamp of an existing link is overwritten.   *)
UpsertOverwrite(retrieved, u, t) == [retrieved EXCEPT ![u] = t]

(* UpsertLink inserts, or keeps the most recent timestamp.                 *)
UpsertLink(retrieved, u, t) == [retrieved EXCEPT ![u] = IF @ > t THEN @ ELSE t]

(* UpsertEdge fails with ErrUnknownEdgeLinks unless it knows both ends.    *)
UnknownEdgeLinks(retrieved, u, v) == ~({u, v} \subseteq Known(retrieved))

UpsertEdge(updated, u, v, now) == [updated EXCEPT ![<<u, v>>] = now]

(* Variant with a bug: edges updated at the very time are removed, too.    *)
RemoveStaleOrEqual(updated, u, t) ==
  [p \in Urls \X Urls |-> IF p[1] = u /\ updated[p] <= t THEN Absent ELSE updated[p]]

RemoveStaleEdges(updated, u, t) ==
  [p \in Urls \X Urls |-> IF p[1] = u /\ updated[p] < t THEN Absent ELSE updated[p]]

(* The iterators hold what matched when they were made.                    *)
LinksBefore(retrieved, part, t) ==
  {u \in Known(retrieved) \cap part : retrieved[u] < t}

EdgesBefore(updated, part, t) ==
  {p \in Edges(updated) : p[1] \in part /\ updated[p] < t}

=============================================================================
