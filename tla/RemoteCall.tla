----------------------------- MODULE RemoteCall ------------------------------
(***************************************************************************)
(* One call to graphapi or indexapi, with the handler at one end and the   *)
(* caller at the other.  Links and Edges of graphapi and Search of         *)
(* indexapi stream from the store's iterator to a client iterator in the   *)
(* hands of the ranker's loadLinks and loadEdges, of the crawler's link    *)
(* source, or of a page of the front-end.  The other methods write: one    *)
(* request, one operation of the store, one reply.                         *)
(*                                                                         *)
(* gRPC delivers the frames of a stream in order, so frames are counted:   *)
(* sent - recv of them are under way, and the trailer comes after them.    *)
(***************************************************************************)
EXTENDS Integers

CONSTANTS
  MaxItems,   \* bound: what the query may match
  Window,     \* frames that fit between the two ends (flow control)
  PageSize    \* the front-end's ResultsPerPage

ASSUME MaxItemsAssumption == MaxItems \in Nat
ASSUME WindowAssumption   == Window \in Nat \ {0}
ASSUME PageSizeAssumption == PageSize \in Nat \ {0}

(* Of an object that is written only this counts: which of its fields are  *)
(* set, and whether by the caller or by the store.                         *)
Fields == {"ID", "URL", "RetrievedAt", "Src", "Dst", "UpdatedAt",
           "LinkID", "Title", "Content", "IndexedAt", "PageRank"}
Objects == [Fields -> {"zero", "caller", "store"}]

SetBy(who, fields, obj) ==
  [f \in Fields |-> IF f \in fields THEN who[f] ELSE obj[f]]
Zero      == [f \in Fields |-> "zero"]
ByCaller  == [f \in Fields |-> "caller"]
ByStore   == [f \in Fields |-> "store"]

(* What the client's request carries, and what it takes from the reply.    *)
ClientUpsertLink == [sends |-> {"ID", "URL", "RetrievedAt"},
                     takes |-> {"ID", "URL", "RetrievedAt"}]
ClientUpsertEdge == [sends |-> {"ID", "Src", "Dst"}, takes |-> {"ID", "UpdatedAt"}]
ClientRemoveStaleEdges == [sends |-> {"Src", "UpdatedAt"}, takes |-> {}]
ClientIndex == [sends |-> {"LinkID", "URL", "Title", "Content"}, takes |-> {"IndexedAt"}]
ClientUpdateScore == [sends |-> {"LinkID", "PageRank"}, takes |-> {}]

Client == [UpsertLink |-> ClientUpsertLink, UpsertEdge |-> ClientUpsertEdge,
           RemoveStaleEdges |-> ClientRemoveStaleEdges,
           Index |-> ClientIndex, UpdateScore |-> ClientUpdateScore]

(* What the handler of a stream sends of an item of its store, and what    *)
(* the client iterator takes of it.                                        *)
SendsLink == {"ID", "URL", "RetrievedAt"}
SendsEdge == {"ID", "Src", "Dst", "UpdatedAt"}
SendsDocument == {"LinkID", "URL", "Title", "Content", "IndexedAt"}
TakesLink == {"ID", "URL", "RetrievedAt"}
TakesEdge == {"ID", "Src", "Dst", "UpdatedAt"}
TakesDocument == {"LinkID", "URL", "Title", "Content", "IndexedAt"}

(* The readers: what travels to them, and what they use of it.             *)
LoadLinks  == [travels |-> SendsLink \cap TakesLink, uses |-> {"ID"}]
LoadEdges  == [travels |-> SendsEdge \cap TakesEdge, uses |-> {"Src", "Dst"}]
LinkSource == [travels |-> SendsLink \cap TakesLink, uses |-> {"ID", "URL", "RetrievedAt"}]
ResultPage == [travels |-> SendsDocument \cap TakesDocument,
               uses    |-> {"URL", "Title", "Content"}]

Reader == [loadLinks |-> LoadLinks, loadEdges |-> LoadEdges,
           crawler |-> LinkSource, page |-> ResultPage]

(* What the server passes on to its store, and what it then copies from    *)
(* there to the reply, which is the request otherwise.                     *)
ServerUpsertLink == [passes  |-> {"ID", "URL", "RetrievedAt"},
                     returns |-> {"ID", "URL", "RetrievedAt"}]
ServerUpsertEdge == [passes  |-> {"ID", "Src", "Dst"},
                     returns |-> {"ID", "Src", "Dst", "UpdatedAt"}]
ServerRemoveStaleEdges == [passes |-> {"Src", "UpdatedAt"}, returns |-> {}]
ServerIndex == [passes  |-> {"LinkID", "URL", "Title", "Content"},
                returns |-> {"IndexedAt"}]
ServerUpdateScore == [passes |-> {"LinkID", "PageRank"}, returns |-> {}]

Server == [UpsertLink |-> ServerUpsertLink, UpsertEdge |-> ServerUpsertEdge,
           RemoveStaleEdges |-> ServerRemoveStaleEdges,
           Index |-> ServerIndex, UpdateScore |-> ServerUpdateScore]

(* What a store sets in the object it is given: cdb scans what its         *)
(* statement returns, bleve's Index takes the time, Elasticsearch's not.   *)
StoreUpsertLink(store) == IF store = "cdb" THEN {"ID", "RetrievedAt"} ELSE {"ID"}
StoreUpsertEdge(store) == {"ID", "UpdatedAt"}
StoreIndex(store)      == IF store = "bleve" THEN {"IndexedAt"} ELSE {}

Sets(store, method) ==
  CASE method = "UpsertLink" -> StoreUpsertLink(store)
    [] method = "UpsertEdge" -> StoreUpsertEdge(store)
    [] method = "Index"      -> StoreIndex(store)
    [] OTHER                 -> {}

(* Who calls what, on which store; a writer with which fields set.         *)
Graphs  == {"inmem", "cdb"}
Indexes == {"bleve", "es"}
CallsOf(stores, reader, given) == [store : stores, reader : {reader}, given : given]

GraphUpdaterCalls ==
  CallsOf(Graphs, "UpsertLink", {{"ID", "URL", "RetrievedAt"}, {"URL"}})
    \cup CallsOf(Graphs, "UpsertEdge", {{"Src", "Dst"}})
    \cup CallsOf(Graphs, "RemoveStaleEdges", {{"Src", "UpdatedAt"}})
TextIndexerCalls ==
  CallsOf(Indexes, "Index", {{"LinkID", "URL", "Title", "Content", "IndexedAt"}})
RankCalls == CallsOf(Indexes, "UpdateScore", {{"LinkID", "PageRank"}})

Streams == CallsOf(Graphs, "loadLinks", {{}}) \cup CallsOf(Graphs, "loadEdges", {{}})
             \cup CallsOf(Graphs, "crawler", {{}}) \cup CallsOf(Indexes, "page", {{}})
Calls   == Streams \cup GraphUpdaterCalls \cup TextIndexerCalls \cup RankCalls

VARIABLES
  call,       \* the call, which no step changes
  total,      \* what its query matches: one reply for a writer
  srv,        \* the handler
  iter,       \* the store's iterator: "none", "open" or "closed"
  pos,        \* items it has produced
  itErr,      \* its lastErr is set
  cut,        \* history: its rows ended early and nobody noticed
  gone,       \* the handler's stream is dead
  row,        \* the object the store was given, as it left it
  sent,       \* frames sent
  trailer,    \* the status the handler returned, "none" before
  up,         \* the connection
  cli,        \* the reader
  recv,       \* frames received
  lastErr,    \* lastErr of the client iterator
  cancelled,  \* its context
  parentDone, \* the context of the reader's program
  object,     \* what the writer holds
  result      \* how the caller ended

srvVars == <<srv, iter, pos, itErr, cut, row, sent, trailer>>
cliVars == <<cli, recv, lastErr, cancelled, parentDone, object, result>>
vars    == <<call, total, srvVars, gone, up, cliVars>>

Search == call.reader = "page"
Method == call.reader
Writes == Method \in DOMAIN Client

(* Search sends the number of matches first.                               *)
Head == IF Search THEN 1 ELSE 0
Items(frames) == IF frames < Head THEN 0 ELSE frames - Head

(* What the writer starts from, and what the store makes of an object.     *)
Given       == SetBy(ByCaller, call.given, Zero)
Stored(obj) == SetBy(ByStore, Sets(call.store, Method), obj)

TypeOK ==
  /\ call \in Calls /\ total \in 0..MaxItems \cup {1}
  /\ srv \in {"idle", "open", "count", "next", "send", "check", "reply",
             "done", "crashed"}
  /\ iter \in {"none", "open", "closed"}
  /\ pos \in 0..total
  /\ itErr \in BOOLEAN /\ cut \in BOOLEAN /\ gone \in BOOLEAN /\ up \in BOOLEAN
  /\ sent \in 0..total + Head /\ recv \in 0..sent /\ sent - recv <= Window
  /\ trailer \in {"none", "ok", "error"}
  /\ cli \in {"call", "reply", "count", "next", "use", "check", "close", "end"}
  /\ object \in Objects /\ row \in Objects
  /\ lastErr \in BOOLEAN /\ cancelled \in BOOLEAN /\ parentDone \in BOOLEAN
  /\ result \in {"none", "ok", "error"}

Init ==
  /\ call \in Calls
  /\ total \in IF Writes THEN {1} ELSE 0..MaxItems
  /\ object = Given /\ row = Zero
  /\ srv = "idle" /\ iter = "none" /\ pos = 0 /\ itErr = FALSE /\ cut = FALSE
  /\ gone = FALSE /\ sent = 0 /\ trailer = "none" /\ up = TRUE
  /\ cli = "call" /\ recv = 0 /\ lastErr = FALSE
  /\ cancelled = FALSE /\ parentDone = FALSE /\ result = "none"

-----------------------------------------------------------------------------
(* What goes wrong around the call.                                        *)

ConnectionBreaks ==
  /\ up /\ up' = FALSE
  /\ UNCHANGED <<call, total, srvVars, gone, cliVars>>

Dies == /\ srv' = "crashed" /\ up' = FALSE /\ gone' = TRUE
        /\ iter' = IF iter = "open" THEN "closed" ELSE iter

ServerCrashes ==
  /\ srv # "crashed" /\ Dies
  /\ UNCHANGED <<call, total, pos, itErr, cut, row, sent, trailer, cliVars>>

(* The reader's program is told to stop.                                   *)
ContextEnds ==
  /\ ~parentDone
  /\ parentDone' = TRUE /\ cancelled' = TRUE
  /\ UNCHANGED <<call, total, srvVars, gone, up, cli, recv, lastErr, object, result>>

(* The handler's context ends once the server knows that the client has    *)
(* cancelled, or is not there any more.                                    *)
ServerTold ==
  /\ cancelled \/ ~up
  /\ ~gone /\ gone' = TRUE
  /\ UNCHANGED <<call, total, srvVars, up, cliVars>>

-----------------------------------------------------------------------------
(* The handler.                                                            *)
Return(status) ==
  /\ srv' = "done"
  /\ trailer' = IF gone THEN trailer ELSE status

(* The store is asked, and refuses or cannot be reached.  The in-memory    *)
(* graph refuses only edges between links it does not know.                *)
QueryFails == ~Writes /\ call.store # "inmem"
WriteFails == Writes /\ (call.store = "inmem" => Method = "UpsertEdge")

OpenFails ==
  /\ srv = "open" /\ (QueryFails \/ WriteFails)
  /\ Return("error")
  /\ UNCHANGED <<call, total, iter, pos, itErr, cut, row, sent, gone, up, cliVars>>

OpenIterator ==
  /\ srv = "open" /\ ~Writes
  /\ iter' = "open"
  /\ srv' = IF Search THEN "count" ELSE "next"
  /\ UNCHANGED <<call, total, pos, itErr, cut, row, sent, trailer, gone, up, cliVars>>

(* A writer's object reaches the store as the request and the handler pass *)
(* it on.  A store behind a network may answer no although it has done it. *)
Request     == SetBy(object, Client[Method].sends, Zero)
Execute ==
  /\ srv = "open" /\ Writes
  /\ row' = Stored(SetBy(Request, Server[Method].passes, Zero))
  /\ pos' = 1
  /\ \/ srv' = "reply" /\ UNCHANGED trailer
     \/ call.store \in {"cdb", "es"} /\ Return("error")
  /\ UNCHANGED <<call, total, iter, itErr, cut, sent, gone, up, cliVars>>

(* The handler returns and the server sends reply and status together.     *)
SendReply ==
  /\ srv = "reply"
  /\ Return("ok")
  /\ sent' = IF gone THEN sent ELSE 1
  /\ UNCHANGED <<call, total, iter, pos, itErr, cut, row, gone, up, cliVars>>

(* Send blocks on the window.                                              *)
SendFrame ==
  /\ srv \in {"count", "send"}
  /\ ~gone /\ sent - recv < Window
  /\ sent' = sent + 1
  /\ srv' = "next"
  /\ UNCHANGED <<call, total, iter, pos, itErr, cut, row, trailer, gone, up, cliVars>>

SendFails ==
  /\ srv \in {"count", "send"} /\ gone
  /\ iter' = "closed" /\ Return("error")
  /\ UNCHANGED <<call, total, pos, itErr, cut, row, sent, gone, up, cliVars>>

(* Variant with a bug: Next is true once more after the last item.         *)
NextItemTooMany ==
  /\ srv = "next" /\ pos <= total
  /\ pos' = pos + 1 /\ srv' = "send"
  /\ UNCHANGED <<call, total, iter, itErr, cut, row, sent, trailer, gone, up, cliVars>>

(* Next of the store's iterator.                                           *)
NextItem ==
  /\ srv = "next" /\ pos < total
  /\ pos' = pos + 1 /\ srv' = "send"
  /\ UNCHANGED <<call, total, iter, itErr, cut, row, sent, trailer, gone, up, cliVars>>

NoMoreItems ==
  /\ srv = "next" /\ pos = total
  /\ srv' = "check"
  /\ UNCHANGED <<call, total, iter, pos, itErr, cut, row, sent, trailer, gone, up, cliVars>>

(* A row does not scan, or a batch or document cannot be fetched.          *)
NextFails ==
  /\ srv = "next" /\ pos < total /\ call.store # "inmem"
  /\ itErr' = TRUE /\ srv' = "check"
  /\ UNCHANGED <<call, total, iter, pos, cut, row, sent, trailer, gone, up, cliVars>>

(* The database goes away: rows.Next is false, and rows.Err is not asked.  *)
RowsCut ==
  /\ srv = "next" /\ pos < total /\ call.store = "cdb"
  /\ cut' = TRUE /\ srv' = "check"
  /\ UNCHANGED <<call, total, iter, pos, itErr, row, sent, trailer, gone, up, cliVars>>

(* Variant with a bug: the iterator is not asked for its error.            *)
AlwaysFinished ==
  /\ srv = "check"
  /\ iter' = "closed" /\ Return("ok")
  /\ UNCHANGED <<call, total, pos, itErr, cut, row, sent, gone, up, cliVars>>

Finished ==
  /\ srv = "check" /\ ~itErr
  /\ iter' = "closed" /\ Return("ok")
  /\ UNCHANGED <<call, total, pos, itErr, cut, row, sent, gone, up, cliVars>>

(* The iterator failed.  A failed runSearch has left Close of the          *)
(* Elasticsearch iterator no result to read, and it panics.                *)
ClosePanics == call.store = "es"

HandlerFails ==
  /\ srv = "check" /\ itErr
  /\ IF ClosePanics THEN Dies /\ UNCHANGED trailer
     ELSE iter' = "closed" /\ Return("error") /\ UNCHANGED <<gone, up>>
  /\ UNCHANGED <<call, total, pos, itErr, cut, row, sent, cliVars>>

Handler == \/ OpenFails \/ Execute \/ SendReply
           \/ OpenIterator \/ SendFrame \/ SendFails
           \/ NextItem \/ NoMoreItems \/ NextFails \/ RowsCut
           \/ Finished \/ HandlerFails

-----------------------------------------------------------------------------
(* The client.                                                             *)
Call ==
  /\ cli = "call"
  /\ IF up /\ ~cancelled
     THEN /\ srv' = "open"
          /\ cli' = CASE Writes -> "reply" [] Search -> "count" [] OTHER -> "next"
          /\ UNCHANGED <<cancelled, result>>
     ELSE /\ cli' = "end" /\ result' = "error" /\ cancelled' = TRUE
          /\ UNCHANGED srv
  /\ UNCHANGED <<call, total, iter, pos, itErr, cut, row, sent, trailer, gone, up, recv,
                 lastErr, parentDone, object>>

FrameArrives == recv < sent
StreamEnds   == recv = sent /\ trailer = "ok"
StreamFails  == (recv = sent /\ trailer = "error") \/ cancelled \/ ~up

(* The reply of a writer.                                                  *)
Reply == SetBy(row, Server[Method].returns, Request)

ReceiveReply ==
  /\ cli = "reply" /\ FrameArrives
  /\ recv' = 1
  /\ object' = SetBy(Reply, Client[Method].takes, object)
  /\ cli' = "end" /\ result' = "ok" /\ cancelled' = TRUE
  /\ UNCHANGED <<call, total, srvVars, gone, up, lastErr, parentDone>>

ReplyFails ==
  /\ cli = "reply" /\ StreamFails
  /\ cli' = "end" /\ result' = "error" /\ cancelled' = TRUE
  /\ UNCHANGED <<call, total, srvVars, gone, up, recv, lastErr, parentDone, object>>

ReceiveCount ==
  /\ cli = "count" /\ FrameArrives
  /\ recv' = recv + 1 /\ cli' = "next"
  /\ UNCHANGED <<call, total, srvVars, gone, up, lastErr, cancelled, parentDone, object, result>>

CountFails ==
  /\ cli = "count" /\ (StreamEnds \/ StreamFails)
  /\ cli' = "end" /\ result' = "error" /\ cancelled' = TRUE
  /\ UNCHANGED <<call, total, srvVars, gone, up, recv, lastErr, parentDone, object>>

(* Next of the client iterator.                                            *)
ReceiveItem ==
  /\ cli = "next" /\ FrameArrives
  /\ recv' = recv + 1 /\ cli' = "use"
  /\ UNCHANGED <<call, total, srvVars, gone, up, lastErr, cancelled, parentDone, object, result>>

(* Variant with a bug: io.EOF is kept like any other error.                *)
ReceiveEndAsError ==
  /\ cli = "next" /\ (StreamEnds \/ StreamFails)
  /\ lastErr' = TRUE
  /\ cli' = "check" /\ cancelled' = TRUE
  /\ UNCHANGED <<call, total, srvVars, gone, up, recv, parentDone, object, result>>

(* io.EOF is the end, any other error is kept.                             *)
ReceiveEnd ==
  /\ cli = "next"
  /\ \/ StreamEnds /\ UNCHANGED lastErr
     \/ StreamFails /\ lastErr' = TRUE
  /\ cli' = "check" /\ cancelled' = TRUE
  /\ UNCHANGED <<call, total, srvVars, gone, up, recv, parentDone, object, result>>

(* The reader takes the item.  The page asks for one more than it shows;   *)
(* the crawler's source worker stops when it may.                          *)
PageFull == Search /\ Items(recv) > PageSize

UseItem ==
  /\ cli = "use"
  /\ \/ cli' = IF PageFull THEN "check" ELSE "next"
     \/ call.reader = "crawler" /\ parentDone /\ cli' = "check"
  /\ UNCHANGED <<call, total, srvVars, gone, up, recv, lastErr, cancelled, parentDone, object, result>>

CheckError ==
  /\ cli = "check"
  /\ result' = IF lastErr THEN "error" ELSE "ok"
  /\ cli' = IF lastErr /\ call.reader = "crawler" THEN "end" ELSE "close"
  /\ UNCHANGED <<call, total, srvVars, gone, up, recv, lastErr, cancelled, parentDone, object>>

(* Another part of the crawl fails: crawlGraph returns without Close.      *)
CrawlFails ==
  /\ call.reader = "crawler" /\ cli \in {"use", "check"}
  /\ cli' = "end" /\ result' = "error"
  /\ UNCHANGED <<call, total, srvVars, gone, up, recv, lastErr, cancelled, parentDone, object>>

(* Variant with a bug: the call is not cancelled.                          *)
CloseOnly ==
  /\ cli = "close" /\ cli' = "end"
  /\ UNCHANGED <<call, total, srvVars, gone, up, recv, lastErr, cancelled, parentDone, object, result>>

CloseIterator ==
  /\ cli = "close" /\ cli' = "end"
  /\ cancelled' = TRUE
  /\ UNCHANGED <<call, total, srvVars, gone, up, recv, lastErr, parentDone, object, result>>

Caller == \/ Call \/ ReceiveReply \/ ReplyFails
          \/ ReceiveCount \/ CountFails \/ ReceiveItem
          \/ ReceiveEnd \/ UseItem \/ CheckError \/ CloseIterator

(* A crawler whose pass failed ends its service and with it its program.   *)
ServiceEnds ==
  /\ call.reader = "crawler" /\ cli = "end" /\ result = "error"
  /\ ContextEnds

-----------------------------------------------------------------------------
Next == \/ ConnectionBreaks \/ ServerCrashes \/ ContextEnds \/ ServerTold
        \/ Handler \/ Caller \/ CrawlFails

Spec == Init /\ [][Next]_vars

(* The handler and the caller go on, the server learns of a caller that is *)
(* gone, and a service that failed ends its program (main.go 134-137).     *)
Fairness == /\ WF_vars(Handler) /\ WF_vars(Caller)
            /\ WF_vars(ServerTold) /\ WF_vars(ServiceEnds)
FairSpec == Spec /\ Fairness

-----------------------------------------------------------------------------
(* Properties.                                                             *)

(* A reader that ends without an error has everything the query matched,   *)
(* a full page, or was told to stop.  The exception is a lost database     *)
(* connection, which looks like the end of the rows (cdb/link.go 17-20;    *)
(* client.go 141-166, service.go 191-229).                                 *)
AllRead ==
  \/ Items(recv) = total
  \/ PageFull
  \/ call.reader = "crawler" /\ parentDone
  \/ cut

(* A writer that ends without an error has done what the same call on the  *)
(* store itself would do, to the store and to the writer's object.  The    *)
(* exception is the time of a document in Elasticsearch: it is not sent,   *)
(* and the store does not take it (indexapi/client.go 31-36).              *)
AsOnTheStore ==
  \A f \in Fields \ (IF call.store = "es" THEN {"IndexedAt"} ELSE {}) :
    object[f] = Stored(Given)[f] /\ row[f] = Stored(Given)[f]

(* No error means all of it, and all that a reader uses of an item.        *)
OkMeansComplete ==
  cli = "end" /\ result = "ok" =>
    AllRead /\ IF Writes THEN AsOnTheStore
                         ELSE Reader[Method].uses \subseteq Reader[Method].travels

(* A caller fails only when something failed: none takes the end of a      *)
(* stream, or its own cancellation on the way out, for an error.           *)
FailsOnlyDisturbed ==
  result = "error" =>
    \/ ~up \/ parentDone \/ itErr
    \/ trailer = "error" /\ iter = "none"
    \/ call.reader = "crawler" /\ ~lastErr

(* Every call comes to its end on both sides: the caller ends, the handler *)
(* returns and the store's iterator is released, wherever each of them was *)
(* when the other left; nothing blocks on a full window that nobody reads  *)
(* (server.go 85-111, client.go 141-148, 174-178).                         *)
CallEnds ==
  <>[](cli = "end" /\ srv \in {"idle", "done", "crashed"} /\ iter # "open")

=============================================================================
