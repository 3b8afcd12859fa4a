--------------------------- MODULE RemoteCallProofs ---------------------------
(***************************************************************************)
(* Proofs that a call that ends without an error is complete, and that it  *)
(* fails only when something failed, for result sets, windows and pages of *)
(* any size.                                                               *)
(***************************************************************************)
EXTENDS RemoteCall, TLAPS

(* What a writer's object is on the way back: as the store left it, and as *)
(* the writer takes it over.                                               *)
Sent     == SetBy(Given, Client[Method].sends, Zero)
Written  == Stored(SetBy(Sent, Server[Method].passes, Zero))
Received == SetBy(SetBy(Written, Server[Method].returns, Sent),
                  Client[Method].takes, Given)

(* The frames sent follow the iterator, item by item.                      *)
HandlerInv ==
  /\ Writes => total = 1
  /\ srv = "crashed" => ~up
  /\ srv \in {"idle", "open", "count"} => pos = 0 /\ sent = 0
  /\ srv \in {"idle", "open"} => iter = "none"
  /\ srv = "count" => Search
  /\ srv = "next"  => sent = pos + Head
  /\ srv = "send"  => sent = pos - 1 + Head /\ pos \in 1..total
  /\ srv = "check" => sent = pos + Head /\ (itErr \/ cut \/ pos = total)
  /\ srv \in {"count", "next", "send", "check"} => ~Writes
  /\ srv = "reply" => Writes /\ sent = 0 /\ row = Written /\ iter = "none"

(* What a status says of the frames before it.                             *)
StatusInv ==
  /\ trailer # "none" => srv \in {"done", "crashed"}
  /\ trailer = "ok" => sent >= Head /\ (sent = total + Head \/ cut)
  /\ trailer = "error" => itErr \/ iter = "none"
  /\ Writes /\ sent = 1 => row = Written /\ srv \in {"done", "crashed"}

Disturbed == ~up \/ parentDone \/ itErr \/ (trailer = "error" /\ iter = "none")

(* What the caller has received, and why it stopped.                       *)
CallerInv ==
  /\ cli \in {"call", "count", "reply"} => recv = 0
  /\ recv = 0 => object = Given
  /\ cli = "call" => srv \in {"idle", "crashed"}
  /\ cli = "reply" => Writes
  /\ cli = "count" => Search
  /\ cli \in {"count", "next", "use", "check", "close"} => ~Writes
  /\ cli \in {"next", "use", "check", "close"} => recv >= Head
  /\ result # "none" => cli \in {"close", "end"}
  /\ cancelled /\ cli \notin {"check", "close", "end"} => parentDone
  /\ lastErr => cli \in {"check", "close", "end"} /\ Disturbed

EndInv ==
  /\ cli = "check" /\ ~lastErr => AllRead
  /\ result = "ok" => AllRead
  /\ result = "ok" /\ Writes => object = Received /\ row = Written /\ sent = 1

IInv == TypeOK /\ HandlerInv /\ StatusInv /\ CallerInv /\ EndInv /\ FailsOnlyDisturbed
-----------------------------------------------------------------------------
(* Objects.                                                                *)

(* Setting fields of an object leaves an object (SetBy).                   *)
LEMMA SetByType ==
  ASSUME NEW who \in Objects, NEW obj \in Objects, NEW fields
  PROVE  SetBy(who, fields, obj) \in Objects
  BY DEF SetBy, Objects

(* What a field of the result is.                                          *)
LEMMA SetByField ==
  ASSUME NEW who, NEW obj, NEW fields, NEW f \in Fields
  PROVE  SetBy(who, fields, obj)[f] = IF f \in fields THEN who[f] ELSE obj[f]
  BY DEF SetBy

(* The objects of a call are objects.                                      *)
LEMMA ObjectTypes ==
  /\ Given \in Objects /\ Zero \in Objects /\ Written \in Objects
  /\ Received \in Objects /\ Sent \in Objects
  /\ \A obj \in Objects : Stored(obj) \in Objects
<1>1. Zero \in Objects /\ ByCaller \in Objects /\ ByStore \in Objects
  BY DEF Zero, ByCaller, ByStore, Objects
<1>2. Given \in Objects
  BY <1>1, SetByType DEF Given
<1>3. \A obj \in Objects : Stored(obj) \in Objects
  BY <1>1, SetByType DEF Stored
<1>4. Sent \in Objects
  BY <1>1, <1>2, SetByType DEF Sent
<1>5. Written \in Objects
  BY <1>1, <1>3, <1>4, SetByType DEF Written
<1>6. Received \in Objects
  BY <1>2, <1>4, <1>5, SetByType DEF Received
<1> QED
  BY <1>1, <1>2, <1>3, <1>4, <1>5, <1>6

(* The tables of client, server and store fit together: for every call a   *)
(* writer makes, the object and the row end as on the store itself.        *)
LEMMA TablesAgree ==
  ASSUME call \in Calls, Writes
  PROVE  \A f \in Fields \ (IF call.store = "es" THEN {"IndexedAt"} ELSE {}) :
           Received[f] = Stored(Given)[f] /\ Written[f] = Stored(Given)[f]
<1> SUFFICES ASSUME NEW f \in Fields \ (IF call.store = "es" THEN {"IndexedAt"} ELSE {})
             PROVE  Received[f] = Stored(Given)[f] /\ Written[f] = Stored(Given)[f]
  OBVIOUS
<1> DEFINE sends == Client[Method].sends
           takes == Client[Method].takes
           passes == Server[Method].passes
           returns == Server[Method].returns
           set == Sets(call.store, Method)
<1>1. Given[f] = IF f \in call.given THEN "caller" ELSE "zero"
  BY SetByField DEF Given, ByCaller, Zero
<1>2. Stored(Given)[f] = IF f \in set THEN "store" ELSE Given[f]
  BY SetByField DEF Stored, ByStore
<1>3. Sent[f] = IF f \in sends THEN Given[f] ELSE "zero"
  BY SetByField DEF Sent, Zero
<1>4. Written[f] = IF f \in set THEN "store" ELSE IF f \in passes THEN Sent[f] ELSE "zero"
  BY SetByField DEF Stored, Written, ByStore, Zero
<1>5. Received[f] = IF f \in takes
                    THEN IF f \in returns THEN Written[f] ELSE Sent[f]
                    ELSE Given[f]
  BY SetByField DEF Received
<1>6. Method \in DOMAIN Client
  BY DEF Writes
<1>7. DOMAIN Client = {"UpsertLink", "UpsertEdge", "RemoveStaleEdges", "Index", "UpdateScore"}
  BY DEF Client
<1> HIDE DEF sends, takes, passes, returns, set
<1>8. CASE Method = "UpsertLink"
  <2>1. /\ sends = {"ID", "URL", "RetrievedAt"} /\ takes = sends
        /\ passes = sends /\ returns = sends
    BY <1>8 DEF sends, takes, passes, returns, Client, ClientUpsertLink, Server,
       ServerUpsertLink
  <2>2. set \subseteq sends
    BY <1>8, <2>1 DEF set, Sets, StoreUpsertLink
  <2>3. call.given \subseteq sends
    BY <1>8, <2>1 DEF Method, Calls, CallsOf, Streams, GraphUpdaterCalls,
       TextIndexerCalls, RankCalls
  <2> QED
    BY <1>1, <1>2, <1>3, <1>4, <1>5, <2>1, <2>2, <2>3
<1>9. CASE Method = "UpsertEdge"
  <2>1. /\ sends = {"ID", "Src", "Dst"} /\ takes = {"ID", "UpdatedAt"}
        /\ passes = sends /\ returns = {"ID", "Src", "Dst", "UpdatedAt"}
    BY <1>9 DEF sends, takes, passes, returns, Client, ClientUpsertEdge, Server,
       ServerUpsertEdge
  <2>2. set = {"ID", "UpdatedAt"}
    BY <1>9 DEF set, Sets, StoreUpsertEdge
  <2>3. call.given = {"Src", "Dst"}
    BY <1>9 DEF Method, Calls, CallsOf, Streams, GraphUpdaterCalls, TextIndexerCalls,
       RankCalls
  <2> QED
    BY <1>1, <1>2, <1>3, <1>4, <1>5, <2>1, <2>2, <2>3
<1>10. CASE Method = "RemoveStaleEdges"
  <2>1. /\ sends = {"Src", "UpdatedAt"} /\ takes = {} /\ passes = sends
    BY <1>10 DEF sends, takes, passes, Client, ClientRemoveStaleEdges, Server,
       ServerRemoveStaleEdges
  <2>2. set = {}
    BY <1>10 DEF set, Sets
  <2>3. call.given = {"Src", "UpdatedAt"}
    BY <1>10 DEF Method, Calls, CallsOf, Streams, GraphUpdaterCalls, TextIndexerCalls,
       RankCalls
  <2> QED
    BY <1>1, <1>2, <1>3, <1>4, <1>5, <2>1, <2>2, <2>3
<1>11. CASE Method = "Index"
  <2>1. /\ sends = {"LinkID", "URL", "Title", "Content"} /\ takes = {"IndexedAt"}
        /\ passes = sends /\ returns = {"IndexedAt"}
    BY <1>11 DEF sends, takes, passes, returns, Client, ClientIndex, Server, ServerIndex
  <2>2. set = IF call.store = "bleve" THEN {"IndexedAt"} ELSE {}
    BY <1>11 DEF set, Sets, StoreIndex
  <2>3. /\ call.given = {"LinkID", "URL", "Title", "Content", "IndexedAt"}
        /\ call.store = "bleve" \/ call.store = "es"
    BY <1>11 DEF Method, Calls, CallsOf, Streams, GraphUpdaterCalls, TextIndexerCalls,
       RankCalls,
                 Indexes
  <2> QED
    BY <1>1, <1>2, <1>3, <1>4, <1>5, <2>1, <2>2, <2>3
<1>12. CASE Method = "UpdateScore"
  <2>1. /\ sends = {"LinkID", "PageRank"} /\ takes = {} /\ passes = sends
    BY <1>12 DEF sends, takes, passes, Client, ClientUpdateScore, Server, ServerUpdateScore
  <2>2. set = {}
    BY <1>12 DEF set, Sets
  <2>3. call.given = {"LinkID", "PageRank"}
    BY <1>12 DEF Method, Calls, CallsOf, Streams, GraphUpdaterCalls, TextIndexerCalls,
       RankCalls
  <2> QED
    BY <1>1, <1>2, <1>3, <1>4, <1>5, <2>1, <2>2, <2>3
<1> QED
  BY <1>6, <1>7, <1>8, <1>9, <1>10, <1>11, <1>12

(* What a reader uses of an item travels to it.                            *)
LEMMA ReadersServed ==
  ASSUME call \in Calls, ~Writes
  PROVE  Reader[Method].uses \subseteq Reader[Method].travels
<1>1. Method \in {"loadLinks", "loadEdges", "crawler", "page"}
  BY DEF Method, Writes, Client, Calls, CallsOf, Streams, GraphUpdaterCalls,
     TextIndexerCalls,
         RankCalls
<1>2. CASE Method = "loadLinks"
  BY <1>2 DEF Reader, LoadLinks, SendsLink, TakesLink
<1>3. CASE Method = "loadEdges"
  BY <1>3 DEF Reader, LoadEdges, SendsEdge, TakesEdge
<1>4. CASE Method = "crawler"
  BY <1>4 DEF Reader, LinkSource, SendsLink, TakesLink
<1>5. CASE Method = "page"
  BY <1>5 DEF Reader, ResultPage, SendsDocument, TakesDocument
<1> QED
  BY <1>1, <1>2, <1>3, <1>4, <1>5

(* A writer does not search: a reply is its only frame.                    *)
LEMMA HeadOf == /\ Head \in {0, 1}
                /\ Search => Head = 1
                /\ ~Search => Head = 0
                /\ Writes => Head = 0
  BY DEF Head, Search, Writes, Method, Client

-----------------------------------------------------------------------------
(* Every step leaves the call alone, and what is defined by it.            *)
LEMMA CallStays ==
  ASSUME [Next]_vars
  PROVE  /\ call' = call /\ total' = total
         /\ Head' = Head /\ Given' = Given /\ Written' = Written /\ Received' = Received
         /\ Writes' <=> Writes
         /\ Search' <=> Search
<1>1. call' = call /\ total' = total
  BY DEF Next, Handler, Caller, vars, ConnectionBreaks, ServerCrashes, ContextEnds,
     ServerTold, OpenFails, Execute, SendReply, OpenIterator, SendFrame, SendFails,
     NextItem, NoMoreItems, NextFails, RowsCut, Finished, HandlerFails, Call,
     ReceiveReply, ReplyFails, ReceiveCount, CountFails, ReceiveItem, ReceiveEnd, UseItem,
     CheckError, CloseIterator, CrawlFails
<1> QED
  BY <1>1 DEF Head, Search, Writes, Method, Given, Written, Received, Sent, Stored

(* The steps of the two ends leave each other's state alone.               *)
LEMMA OwnState ==
  /\ Handler => UNCHANGED cliVars
  /\ Caller => UNCHANGED <<iter, pos, itErr, cut, row, sent, trailer, gone, up>>
  /\ Caller /\ ~Call => UNCHANGED srv
  BY DEF Handler, Caller, cliVars, srvVars, Return, Dies, OpenFails, Execute, SendReply,
     OpenIterator, SendFrame, SendFails, NextItem, NoMoreItems, NextFails, RowsCut,
     Finished, HandlerFails, Call, ReceiveReply, ReplyFails, ReceiveCount, CountFails,
     ReceiveItem, ReceiveEnd, UseItem, CheckError, CloseIterator

(* The store is given what the writer sent, not what it holds meanwhile.   *)
LEMMA Stores ==
  ASSUME IInv, Execute
  PROVE  row' = Written /\ object = Given
<1>1. object = Given
  BY DEF IInv, TypeOK, HandlerInv, CallerInv, Execute
<1> QED
  BY <1>1 DEF Execute, Request, Written, Sent

(* The writer takes what the store returned, on its reply.                  *)
LEMMA Takes ==
  ASSUME IInv, ReceiveReply
  PROVE  object' = Received /\ row' = Written /\ sent' = 1 /\ recv' = 1
<1>1. object = Given /\ Writes /\ sent = 1
  BY HeadOf DEF IInv, TypeOK, HandlerInv, CallerInv, ReceiveReply, FrameArrives
<1>2. row = Written
  BY <1>1 DEF IInv, StatusInv
<1> QED
  BY <1>1, <1>2 DEF ReceiveReply, Reply, Request, Received, Sent, srvVars

(* The variables keep their types.                                         *)
LEMMA TypeStep ==
  ASSUME IInv, [Next]_vars
  PROVE  TypeOK'
<1> USE MaxItemsAssumption, WindowAssumption
<1>1. CASE ConnectionBreaks
  <2>1. up' \in BOOLEAN
    BY <1>1 DEF IInv, TypeOK, ConnectionBreaks
  <2> QED
    BY <2>1, <1>1, CallStays, HeadOf DEF IInv, TypeOK, srvVars, cliVars, ConnectionBreaks
<1>2. CASE ServerCrashes
  <2>1. up' \in BOOLEAN
    BY <1>2 DEF IInv, TypeOK, ServerCrashes, Dies
  <2> QED
    BY <2>1, <1>2, CallStays, HeadOf DEF IInv, TypeOK, srvVars, cliVars, ServerCrashes, Dies
<1>3. CASE ContextEnds
  BY <1>3, CallStays, HeadOf DEF IInv, TypeOK, srvVars, cliVars, ContextEnds
<1>4. CASE ServerTold
  BY <1>4, CallStays, HeadOf DEF IInv, TypeOK, srvVars, cliVars, ServerTold
<1>5. CASE OpenFails
  BY <1>5, CallStays, HeadOf DEF IInv, TypeOK, HandlerInv, CallerInv, srvVars, cliVars,
     OpenFails, Return
<1>6. CASE Execute
  BY <1>6, CallStays, HeadOf, ObjectTypes, Stores DEF IInv, TypeOK, HandlerInv, CallerInv,
     srvVars, cliVars, Execute, Return
<1>7. CASE SendReply
  BY <1>7, CallStays, HeadOf DEF IInv, TypeOK, HandlerInv, CallerInv, srvVars, cliVars,
     SendReply, Return
<1>8. CASE OpenIterator
  BY <1>8, CallStays, HeadOf DEF IInv, TypeOK, HandlerInv, CallerInv, srvVars, cliVars,
     OpenIterator, Return
<1>9. CASE SendFrame
  BY <1>9, CallStays, HeadOf DEF IInv, TypeOK, HandlerInv, CallerInv, srvVars, cliVars,
     SendFrame, Return
<1>10. CASE SendFails
  BY <1>10, CallStays, HeadOf DEF IInv, TypeOK, HandlerInv, CallerInv, srvVars, cliVars,
     SendFails, Return
<1>11. CASE NextItem
  BY <1>11, CallStays, HeadOf DEF IInv, TypeOK, HandlerInv, CallerInv, srvVars, cliVars,
     NextItem, Return
<1>12. CASE NoMoreItems
  BY <1>12, CallStays, HeadOf DEF IInv, TypeOK, HandlerInv, CallerInv, srvVars, cliVars,
     NoMoreItems, Return
<1>13. CASE NextFails
  BY <1>13, CallStays, HeadOf DEF IInv, TypeOK, HandlerInv, CallerInv, srvVars, cliVars,
     NextFails, Return
<1>14. CASE RowsCut
  BY <1>14, CallStays, HeadOf DEF IInv, TypeOK, HandlerInv, CallerInv, srvVars, cliVars,
     RowsCut, Return
<1>15. CASE Finished
  BY <1>15, CallStays, HeadOf DEF IInv, TypeOK, HandlerInv, CallerInv, srvVars, cliVars,
     Finished, Return
<1>16. CASE HandlerFails
  <2>1. gone' \in BOOLEAN /\ up' \in BOOLEAN
    BY <1>16 DEF IInv, TypeOK, HandlerFails, Return, Dies
  <2>2. /\ srv' \in {"done", "crashed"} /\ iter' \in {"none", "open", "closed"}
        /\ trailer' \in {"none", "ok", "error"}
    BY <1>16 DEF IInv, TypeOK, HandlerFails, Return, Dies
  <2>3. UNCHANGED <<call, total, pos, itErr, cut, row, sent, cliVars>>
    BY <1>16 DEF HandlerFails
  <2> QED
    BY <2>1, <2>2, <2>3, CallStays DEF IInv, TypeOK, cliVars
<1>17. CASE Call
  <2>1. /\ srv' \in {srv, "open"} /\ cancelled' \in {cancelled, TRUE}
        /\ cli' \in {"reply", "count", "next", "end"} /\ result' \in {result, "error"}
    BY <1>17 DEF Call
  <2>2. UNCHANGED <<call, total, iter, pos, itErr, cut, row, sent, trailer, gone, up, recv,
                    lastErr, parentDone, object>>
    BY <1>17 DEF Call
  <2>3. call' \in Calls /\ UNCHANGED <<total, pos, sent, recv, Head>>
    BY <2>2, CallStays DEF IInv, TypeOK
  <2>4. /\ srv' \in {"idle", "open", "count", "next", "send", "check", "reply",
                    "done", "crashed"}
        /\ cancelled' \in BOOLEAN /\ result' \in {"none", "ok", "error"}
    BY <2>1 DEF IInv, TypeOK
  <2> QED
    BY <2>1, <2>2, <2>3, <2>4 DEF IInv, TypeOK
<1>18. CASE ReceiveReply
  BY <1>18, CallStays, HeadOf, ObjectTypes, Takes DEF IInv, TypeOK, HandlerInv, CallerInv,
     srvVars, cliVars, ReceiveReply
<1>19. CASE ReplyFails
  BY <1>19, CallStays, HeadOf DEF IInv, TypeOK, srvVars, cliVars, ReplyFails
<1>20. CASE ReceiveCount
  BY <1>20, CallStays, HeadOf DEF IInv, TypeOK, srvVars, cliVars, ReceiveCount, FrameArrives
<1>21. CASE CountFails
  BY <1>21, CallStays, HeadOf DEF IInv, TypeOK, srvVars, cliVars, CountFails
<1>22. CASE ReceiveItem
  BY <1>22, CallStays, HeadOf DEF IInv, TypeOK, srvVars, cliVars, ReceiveItem, FrameArrives
<1>23. CASE ReceiveEnd
  <2>1. lastErr' \in BOOLEAN
    BY <1>23 DEF IInv, TypeOK, ReceiveEnd
  <2> QED
    BY <2>1, <1>23, CallStays, HeadOf DEF IInv, TypeOK, srvVars, cliVars, ReceiveEnd
<1>24. CASE UseItem
  BY <1>24, CallStays, HeadOf DEF IInv, TypeOK, srvVars, cliVars, UseItem
<1>25. CASE CheckError
  BY <1>25, CallStays, HeadOf DEF IInv, TypeOK, srvVars, cliVars, CheckError
<1>26. CASE CloseIterator
  BY <1>26, CallStays, HeadOf DEF IInv, TypeOK, srvVars, cliVars, CloseIterator
<1>27. CASE CrawlFails
  BY <1>27, CallStays, HeadOf DEF IInv, TypeOK, srvVars, cliVars, CrawlFails
<1>28. CASE UNCHANGED vars
  BY <1>28, CallStays, HeadOf DEF IInv, TypeOK, srvVars, cliVars, vars, cliVars, srvVars
<1> QED
  BY <1>1, <1>2, <1>3, <1>4, <1>5, <1>6, <1>7, <1>8, <1>9, <1>10, <1>11, <1>12, <1>13,
     <1>14, <1>15, <1>16, <1>17, <1>18, <1>19, <1>20, <1>21, <1>22, <1>23, <1>24, <1>25,
     <1>26, <1>27, <1>28 DEF Next, Handler, Caller, vars

(* The frames keep following the iterator.                                 *)
LEMMA HandlerStep ==
  ASSUME IInv, [Next]_vars
  PROVE  HandlerInv'
<1> USE MaxItemsAssumption, WindowAssumption
<1>1. CASE ConnectionBreaks
  BY <1>1, CallStays, HeadOf DEF IInv, TypeOK, HandlerInv, StatusInv, CallerInv, srvVars,
     cliVars, ConnectionBreaks
<1>2. CASE ServerCrashes
  BY <1>2, CallStays, HeadOf DEF IInv, TypeOK, HandlerInv, StatusInv, CallerInv, srvVars,
     cliVars, ServerCrashes, Dies
<1>3. CASE ContextEnds
  BY <1>3, CallStays, HeadOf DEF IInv, TypeOK, HandlerInv, StatusInv, CallerInv, srvVars,
     cliVars, ContextEnds
<1>4. CASE ServerTold
  BY <1>4, CallStays, HeadOf DEF IInv, TypeOK, HandlerInv, StatusInv, CallerInv, srvVars,
     cliVars, ServerTold
<1>5. CASE OpenFails
  BY <1>5, CallStays, HeadOf DEF IInv, TypeOK, HandlerInv, StatusInv, CallerInv, srvVars,
     cliVars, OpenFails, Return
<1>6. CASE Execute
  BY <1>6, CallStays, HeadOf, Stores DEF IInv, TypeOK, HandlerInv, StatusInv, CallerInv,
     srvVars, cliVars, Execute, Return
<1>7. CASE SendReply
  BY <1>7, CallStays, HeadOf DEF IInv, TypeOK, HandlerInv, StatusInv, CallerInv, srvVars,
     cliVars, SendReply, Return
<1>8. CASE OpenIterator
  BY <1>8, CallStays, HeadOf DEF IInv, TypeOK, HandlerInv, StatusInv, CallerInv, srvVars,
     cliVars, OpenIterator, Return
<1>9. CASE SendFrame
  BY <1>9, CallStays, HeadOf DEF IInv, TypeOK, HandlerInv, StatusInv, CallerInv, srvVars,
     cliVars, SendFrame, Return
<1>10. CASE SendFails
  BY <1>10, CallStays, HeadOf DEF IInv, TypeOK, HandlerInv, StatusInv, CallerInv, srvVars,
     cliVars, SendFails, Return
<1>11. CASE NextItem
  BY <1>11, CallStays, HeadOf DEF IInv, TypeOK, HandlerInv, StatusInv, CallerInv, srvVars,
     cliVars, NextItem, Return
<1>12. CASE NoMoreItems
  BY <1>12, CallStays, HeadOf DEF IInv, TypeOK, HandlerInv, StatusInv, CallerInv, srvVars,
     cliVars, NoMoreItems, Return
<1>13. CASE NextFails
  BY <1>13, CallStays, HeadOf DEF IInv, TypeOK, HandlerInv, StatusInv, CallerInv, srvVars,
     cliVars, NextFails, Return
<1>14. CASE RowsCut
  BY <1>14, CallStays, HeadOf DEF IInv, TypeOK, HandlerInv, StatusInv, CallerInv, srvVars,
     cliVars, RowsCut, Return
<1>15. CASE Finished
  BY <1>15, CallStays, HeadOf DEF IInv, TypeOK, HandlerInv, StatusInv, CallerInv, srvVars,
     cliVars, Finished, Return
<1>16. CASE HandlerFails
  BY <1>16, CallStays, HeadOf DEF IInv, TypeOK, HandlerInv, StatusInv, CallerInv, srvVars,
     cliVars, HandlerFails, Return, Dies
<1>17. CASE Call
  BY <1>17, CallStays, HeadOf DEF IInv, TypeOK, HandlerInv, StatusInv, CallerInv, srvVars,
     cliVars, Call
<1>18. CASE (Caller /\ ~Call) \/ CrawlFails
  BY <1>18, CallStays, HeadOf, OwnState DEF IInv, TypeOK, HandlerInv, StatusInv,
     CallerInv, srvVars, cliVars, CrawlFails
<1>19. CASE UNCHANGED vars
  BY <1>19, CallStays, HeadOf DEF IInv, TypeOK, HandlerInv, StatusInv, CallerInv, srvVars,
     cliVars, vars, cliVars, srvVars
<1> QED
  BY <1>1, <1>2, <1>3, <1>4, <1>5, <1>6, <1>7, <1>8, <1>9, <1>10, <1>11, <1>12, <1>13,
     <1>14, <1>15, <1>16, <1>17, <1>18, <1>19 DEF Next, Handler, Caller, vars

(* A status comes last, and means what it says.                            *)
LEMMA StatusStep ==
  ASSUME IInv, [Next]_vars
  PROVE  StatusInv'
<1> USE MaxItemsAssumption, WindowAssumption
<1>1. CASE ConnectionBreaks
  BY <1>1, CallStays, HeadOf DEF IInv, TypeOK, HandlerInv, StatusInv, CallerInv, srvVars,
     cliVars, ConnectionBreaks
<1>2. CASE ServerCrashes
  BY <1>2, CallStays, HeadOf DEF IInv, TypeOK, HandlerInv, StatusInv, CallerInv, srvVars,
     cliVars, ServerCrashes, Dies
<1>3. CASE ContextEnds
  BY <1>3, CallStays, HeadOf DEF IInv, TypeOK, HandlerInv, StatusInv, CallerInv, srvVars,
     cliVars, ContextEnds
<1>4. CASE ServerTold
  BY <1>4, CallStays, HeadOf DEF IInv, TypeOK, HandlerInv, StatusInv, CallerInv, srvVars,
     cliVars, ServerTold
<1>5. CASE OpenFails
  BY <1>5, CallStays, HeadOf DEF IInv, TypeOK, HandlerInv, StatusInv, CallerInv, srvVars,
     cliVars, OpenFails, Return
<1>6. CASE Execute
  BY <1>6, CallStays, HeadOf DEF IInv, TypeOK, HandlerInv, StatusInv, CallerInv, srvVars,
     cliVars, Execute, Return
<1>7. CASE SendReply
  BY <1>7, CallStays, HeadOf DEF IInv, TypeOK, HandlerInv, StatusInv, CallerInv, srvVars,
     cliVars, SendReply, Return
<1>8. CASE OpenIterator
  BY <1>8, CallStays, HeadOf DEF IInv, TypeOK, HandlerInv, StatusInv, CallerInv, srvVars,
     cliVars, OpenIterator, Return
<1>9. CASE SendFrame
  BY <1>9, CallStays, HeadOf DEF IInv, TypeOK, HandlerInv, StatusInv, CallerInv, srvVars,
     cliVars, SendFrame, Return
<1>10. CASE SendFails
  BY <1>10, CallStays, HeadOf DEF IInv, TypeOK, HandlerInv, StatusInv, CallerInv, srvVars,
     cliVars, SendFails, Return
<1>11. CASE NextItem
  BY <1>11, CallStays, HeadOf DEF IInv, TypeOK, HandlerInv, StatusInv, CallerInv, srvVars,
     cliVars, NextItem, Return
<1>12. CASE NoMoreItems
  BY <1>12, CallStays, HeadOf DEF IInv, TypeOK, HandlerInv, StatusInv, CallerInv, srvVars,
     cliVars, NoMoreItems, Return
<1>13. CASE NextFails
  BY <1>13, CallStays, HeadOf DEF IInv, TypeOK, HandlerInv, StatusInv, CallerInv, srvVars,
     cliVars, NextFails, Return
<1>14. CASE RowsCut
  BY <1>14, CallStays, HeadOf DEF IInv, TypeOK, HandlerInv, StatusInv, CallerInv, srvVars,
     cliVars, RowsCut, Return
<1>15. CASE Finished
  BY <1>15, CallStays, HeadOf DEF IInv, TypeOK, HandlerInv, StatusInv, CallerInv, srvVars,
     cliVars, Finished, Return
<1>16. CASE HandlerFails
  BY <1>16, CallStays, HeadOf DEF IInv, TypeOK, HandlerInv, StatusInv, CallerInv, srvVars,
     cliVars, HandlerFails, Return, Dies
<1>17. CASE Call
  BY <1>17, CallStays, HeadOf DEF IInv, TypeOK, HandlerInv, StatusInv, CallerInv, srvVars,
     cliVars, Call
<1>18. CASE (Caller /\ ~Call) \/ CrawlFails
  BY <1>18, CallStays, HeadOf, OwnState DEF IInv, TypeOK, HandlerInv, StatusInv,
     CallerInv, srvVars, cliVars, CrawlFails
<1>19. CASE UNCHANGED vars
  BY <1>19, CallStays, HeadOf DEF IInv, TypeOK, HandlerInv, StatusInv, CallerInv, srvVars,
     cliVars, vars, cliVars, srvVars
<1> QED
  BY <1>1, <1>2, <1>3, <1>4, <1>5, <1>6, <1>7, <1>8, <1>9, <1>10, <1>11, <1>12, <1>13,
     <1>14, <1>15, <1>16, <1>17, <1>18, <1>19 DEF Next, Handler, Caller, vars

(* The caller stops for a reason.                                          *)
LEMMA CallerStep ==
  ASSUME IInv, [Next]_vars
  PROVE  CallerInv'
<1> USE MaxItemsAssumption, WindowAssumption
<1>1. CASE ConnectionBreaks
  BY <1>1, CallStays, HeadOf DEF IInv, TypeOK, HandlerInv, StatusInv, CallerInv,
     Disturbed, StreamEnds, StreamFails, FrameArrives, cliVars, srvVars, ConnectionBreaks
<1>2. CASE ServerCrashes
  BY <1>2, CallStays, HeadOf DEF IInv, TypeOK, HandlerInv, StatusInv, CallerInv,
     Disturbed, StreamEnds, StreamFails, FrameArrives, cliVars, srvVars, ServerCrashes,
     Dies
<1>3. CASE ContextEnds
  BY <1>3, CallStays, HeadOf DEF IInv, TypeOK, HandlerInv, StatusInv, CallerInv,
     Disturbed, StreamEnds, StreamFails, FrameArrives, cliVars, srvVars, ContextEnds
<1>4. CASE ServerTold
  BY <1>4, CallStays, HeadOf DEF IInv, TypeOK, HandlerInv, StatusInv, CallerInv,
     Disturbed, StreamEnds, StreamFails, FrameArrives, cliVars, srvVars, ServerTold
<1>5. CASE OpenFails
  BY <1>5, CallStays, HeadOf DEF IInv, TypeOK, HandlerInv, StatusInv, CallerInv,
     Disturbed, StreamEnds, StreamFails, FrameArrives, cliVars, srvVars, OpenFails, Return
<1>6. CASE Execute
  BY <1>6, CallStays, HeadOf DEF IInv, TypeOK, HandlerInv, StatusInv, CallerInv,
     Disturbed, StreamEnds, StreamFails, FrameArrives, cliVars, srvVars, Execute, Return
<1>7. CASE SendReply
  BY <1>7, CallStays, HeadOf DEF IInv, TypeOK, HandlerInv, StatusInv, CallerInv,
     Disturbed, StreamEnds, StreamFails, FrameArrives, cliVars, srvVars, SendReply, Return
<1>8. CASE OpenIterator
  BY <1>8, CallStays, HeadOf DEF IInv, TypeOK, HandlerInv, StatusInv, CallerInv,
     Disturbed, StreamEnds, StreamFails, FrameArrives, cliVars, srvVars, OpenIterator,
     Return
<1>9. CASE SendFrame
  BY <1>9, CallStays, HeadOf DEF IInv, TypeOK, HandlerInv, StatusInv, CallerInv,
     Disturbed, StreamEnds, StreamFails, FrameArrives, cliVars, srvVars, SendFrame, Return
<1>10. CASE SendFails
  BY <1>10, CallStays, HeadOf DEF IInv, TypeOK, HandlerInv, StatusInv, CallerInv,
     Disturbed, StreamEnds, StreamFails, FrameArrives, cliVars, srvVars, SendFails, Return
<1>11. CASE NextItem
  BY <1>11, CallStays, HeadOf DEF IInv, TypeOK, HandlerInv, StatusInv, CallerInv,
     Disturbed, StreamEnds, StreamFails, FrameArrives, cliVars, srvVars, NextItem, Return
<1>12. CASE NoMoreItems
  BY <1>12, CallStays, HeadOf DEF IInv, TypeOK, HandlerInv, StatusInv, CallerInv,
     Disturbed, StreamEnds, StreamFails, FrameArrives, cliVars, srvVars, NoMoreItems,
     Return
<1>13. CASE NextFails
  BY <1>13, CallStays, HeadOf DEF IInv, TypeOK, HandlerInv, StatusInv, CallerInv,
     Disturbed, StreamEnds, StreamFails, FrameArrives, cliVars, srvVars, NextFails, Return
<1>14. CASE RowsCut
  BY <1>14, CallStays, HeadOf DEF IInv, TypeOK, HandlerInv, StatusInv, CallerInv,
     Disturbed, StreamEnds, StreamFails, FrameArrives, cliVars, srvVars, RowsCut, Return
<1>15. CASE Finished
  BY <1>15, CallStays, HeadOf DEF IInv, TypeOK, HandlerInv, StatusInv, CallerInv,
     Disturbed, StreamEnds, StreamFails, FrameArrives, cliVars, srvVars, Finished, Return
<1>16. CASE HandlerFails
  BY <1>16, CallStays, HeadOf DEF IInv, TypeOK, HandlerInv, StatusInv, CallerInv,
     Disturbed, StreamEnds, StreamFails, FrameArrives, cliVars, srvVars, HandlerFails,
     Return, Dies
<1>17. CASE Call
  BY <1>17, CallStays, HeadOf DEF IInv, TypeOK, HandlerInv, StatusInv, CallerInv,
     Disturbed, StreamEnds, StreamFails, FrameArrives, cliVars, srvVars, Call
<1>18. CASE ReceiveReply
  BY <1>18, CallStays, HeadOf DEF IInv, TypeOK, HandlerInv, StatusInv, CallerInv,
     Disturbed, StreamEnds, StreamFails, FrameArrives, cliVars, srvVars, ReceiveReply
<1>19. CASE ReplyFails
  BY <1>19, CallStays, HeadOf DEF IInv, TypeOK, HandlerInv, StatusInv, CallerInv,
     Disturbed, StreamEnds, StreamFails, FrameArrives, cliVars, srvVars, ReplyFails
<1>20. CASE ReceiveCount
  BY <1>20, CallStays, HeadOf DEF IInv, TypeOK, HandlerInv, StatusInv, CallerInv,
     Disturbed, StreamEnds, StreamFails, FrameArrives, cliVars, srvVars, ReceiveCount
<1>21. CASE CountFails
  BY <1>21, CallStays, HeadOf DEF IInv, TypeOK, HandlerInv, StatusInv, CallerInv,
     Disturbed, StreamEnds, StreamFails, FrameArrives, cliVars, srvVars, CountFails
<1>22. CASE ReceiveItem
  BY <1>22, CallStays, HeadOf DEF IInv, TypeOK, HandlerInv, StatusInv, CallerInv,
     Disturbed, StreamEnds, StreamFails, FrameArrives, cliVars, srvVars, ReceiveItem
<1>23. CASE ReceiveEnd
  BY <1>23, CallStays, HeadOf DEF IInv, TypeOK, HandlerInv, StatusInv, CallerInv,
     Disturbed, StreamEnds, StreamFails, FrameArrives, cliVars, srvVars, ReceiveEnd
<1>24. CASE UseItem
  BY <1>24, CallStays, HeadOf DEF IInv, TypeOK, HandlerInv, StatusInv, CallerInv,
     Disturbed, StreamEnds, StreamFails, FrameArrives, cliVars, srvVars, UseItem
<1>25. CASE CheckError
  BY <1>25, CallStays, HeadOf DEF IInv, TypeOK, HandlerInv, StatusInv, CallerInv,
     Disturbed, StreamEnds, StreamFails, FrameArrives, cliVars, srvVars, CheckError
<1>26. CASE CloseIterator
  BY <1>26, CallStays, HeadOf DEF IInv, TypeOK, HandlerInv, StatusInv, CallerInv,
     Disturbed, StreamEnds, StreamFails, FrameArrives, cliVars, srvVars, CloseIterator
<1>27. CASE CrawlFails
  BY <1>27, CallStays, HeadOf DEF IInv, TypeOK, HandlerInv, StatusInv, CallerInv,
     Disturbed, StreamEnds, StreamFails, FrameArrives, cliVars, srvVars, CrawlFails
<1>28. CASE UNCHANGED vars
  BY <1>28, CallStays, HeadOf DEF IInv, TypeOK, HandlerInv, StatusInv, CallerInv,
     Disturbed, StreamEnds, StreamFails, FrameArrives, cliVars, srvVars, vars, cliVars,
     srvVars
<1> QED
  BY <1>1, <1>2, <1>3, <1>4, <1>5, <1>6, <1>7, <1>8, <1>9, <1>10, <1>11, <1>12, <1>13,
     <1>14, <1>15, <1>16, <1>17, <1>18, <1>19, <1>20, <1>21, <1>22, <1>23, <1>24, <1>25,
     <1>26, <1>27, <1>28 DEF Next, Handler, Caller, vars

(* A caller that ends well has everything.                                 *)
LEMMA EndStep ==
  ASSUME IInv, [Next]_vars
  PROVE  EndInv'
<1> USE MaxItemsAssumption, WindowAssumption
<1>1. CASE ConnectionBreaks
  BY <1>1, CallStays, HeadOf DEF IInv, TypeOK, HandlerInv, StatusInv, CallerInv, EndInv,
     AllRead, PageFull, Items, StreamEnds, StreamFails, FrameArrives, cliVars, srvVars,
     ConnectionBreaks
<1>2. CASE ServerCrashes
  BY <1>2, CallStays, HeadOf DEF IInv, TypeOK, HandlerInv, StatusInv, CallerInv, EndInv,
     AllRead, PageFull, Items, StreamEnds, StreamFails, FrameArrives, cliVars, srvVars,
     ServerCrashes, Dies
<1>3. CASE ContextEnds
  BY <1>3, CallStays, HeadOf DEF IInv, TypeOK, HandlerInv, StatusInv, CallerInv, EndInv,
     AllRead, PageFull, Items, StreamEnds, StreamFails, FrameArrives, cliVars, srvVars,
     ContextEnds
<1>4. CASE ServerTold
  BY <1>4, CallStays, HeadOf DEF IInv, TypeOK, HandlerInv, StatusInv, CallerInv, EndInv,
     AllRead, PageFull, Items, StreamEnds, StreamFails, FrameArrives, cliVars, srvVars,
     ServerTold
<1>5. CASE OpenFails
  BY <1>5, CallStays, HeadOf DEF IInv, TypeOK, HandlerInv, StatusInv, CallerInv, EndInv,
     AllRead, PageFull, Items, StreamEnds, StreamFails, FrameArrives, cliVars, srvVars,
     OpenFails, Return
<1>6. CASE Execute
  BY <1>6, CallStays, HeadOf DEF IInv, TypeOK, HandlerInv, StatusInv, CallerInv, EndInv,
     AllRead, PageFull, Items, StreamEnds, StreamFails, FrameArrives, cliVars, srvVars,
     Execute, Return
<1>7. CASE SendReply
  BY <1>7, CallStays, HeadOf DEF IInv, TypeOK, HandlerInv, StatusInv, CallerInv, EndInv,
     AllRead, PageFull, Items, StreamEnds, StreamFails, FrameArrives, cliVars, srvVars,
     SendReply, Return
<1>8. CASE OpenIterator
  BY <1>8, CallStays, HeadOf DEF IInv, TypeOK, HandlerInv, StatusInv, CallerInv, EndInv,
     AllRead, PageFull, Items, StreamEnds, StreamFails, FrameArrives, cliVars, srvVars,
     OpenIterator, Return
<1>9. CASE SendFrame
  BY <1>9, CallStays, HeadOf DEF IInv, TypeOK, HandlerInv, StatusInv, CallerInv, EndInv,
     AllRead, PageFull, Items, StreamEnds, StreamFails, FrameArrives, cliVars, srvVars,
     SendFrame, Return
<1>10. CASE SendFails
  BY <1>10, CallStays, HeadOf DEF IInv, TypeOK, HandlerInv, StatusInv, CallerInv, EndInv,
     AllRead, PageFull, Items, StreamEnds, StreamFails, FrameArrives, cliVars, srvVars,
     SendFails, Return
<1>11. CASE NextItem
  BY <1>11, CallStays, HeadOf DEF IInv, TypeOK, HandlerInv, StatusInv, CallerInv, EndInv,
     AllRead, PageFull, Items, StreamEnds, StreamFails, FrameArrives, cliVars, srvVars,
     NextItem, Return
<1>12. CASE NoMoreItems
  BY <1>12, CallStays, HeadOf DEF IInv, TypeOK, HandlerInv, StatusInv, CallerInv, EndInv,
     AllRead, PageFull, Items, StreamEnds, StreamFails, FrameArrives, cliVars, srvVars,
     NoMoreItems, Return
<1>13. CASE NextFails
  BY <1>13, CallStays, HeadOf DEF IInv, TypeOK, HandlerInv, StatusInv, CallerInv, EndInv,
     AllRead, PageFull, Items, StreamEnds, StreamFails, FrameArrives, cliVars, srvVars,
     NextFails, Return
<1>14. CASE RowsCut
  BY <1>14, CallStays, HeadOf DEF IInv, TypeOK, HandlerInv, StatusInv, CallerInv, EndInv,
     AllRead, PageFull, Items, StreamEnds, StreamFails, FrameArrives, cliVars, srvVars,
     RowsCut, Return
<1>15. CASE Finished
  BY <1>15, CallStays, HeadOf DEF IInv, TypeOK, HandlerInv, StatusInv, CallerInv, EndInv,
     AllRead, PageFull, Items, StreamEnds, StreamFails, FrameArrives, cliVars, srvVars,
     Finished, Return
<1>16. CASE HandlerFails
  BY <1>16, CallStays, HeadOf DEF IInv, TypeOK, HandlerInv, StatusInv, CallerInv, EndInv,
     AllRead, PageFull, Items, StreamEnds, StreamFails, FrameArrives, cliVars, srvVars,
     HandlerFails, Return, Dies
<1>17. CASE Call
  BY <1>17, CallStays, HeadOf DEF IInv, TypeOK, HandlerInv, StatusInv, CallerInv, EndInv,
     AllRead, PageFull, Items, StreamEnds, StreamFails, FrameArrives, cliVars, srvVars,
     Call
<1>18. CASE ReceiveReply
  BY <1>18, CallStays, HeadOf, Takes DEF IInv, TypeOK, HandlerInv, StatusInv, CallerInv,
     EndInv, AllRead, PageFull, Items, StreamEnds, StreamFails, FrameArrives, cliVars,
     srvVars, ReceiveReply
<1>19. CASE ReplyFails
  BY <1>19, CallStays, HeadOf DEF IInv, TypeOK, HandlerInv, StatusInv, CallerInv, EndInv,
     AllRead, PageFull, Items, StreamEnds, StreamFails, FrameArrives, cliVars, srvVars,
     ReplyFails
<1>20. CASE ReceiveCount
  BY <1>20, CallStays, HeadOf DEF IInv, TypeOK, HandlerInv, StatusInv, CallerInv, EndInv,
     AllRead, PageFull, Items, StreamEnds, StreamFails, FrameArrives, cliVars, srvVars,
     ReceiveCount
<1>21. CASE CountFails
  BY <1>21, CallStays, HeadOf DEF IInv, TypeOK, HandlerInv, StatusInv, CallerInv, EndInv,
     AllRead, PageFull, Items, StreamEnds, StreamFails, FrameArrives, cliVars, srvVars,
     CountFails
<1>22. CASE ReceiveItem
  BY <1>22, CallStays, HeadOf DEF IInv, TypeOK, HandlerInv, StatusInv, CallerInv, EndInv,
     AllRead, PageFull, Items, StreamEnds, StreamFails, FrameArrives, cliVars, srvVars,
     ReceiveItem
<1>23. CASE ReceiveEnd
  BY <1>23, CallStays, HeadOf DEF IInv, TypeOK, HandlerInv, StatusInv, CallerInv, EndInv,
     AllRead, PageFull, Items, StreamEnds, StreamFails, FrameArrives, cliVars, srvVars,
     ReceiveEnd
<1>24. CASE UseItem
  BY <1>24, CallStays, HeadOf DEF IInv, TypeOK, HandlerInv, StatusInv, CallerInv, EndInv,
     AllRead, PageFull, Items, StreamEnds, StreamFails, FrameArrives, cliVars, srvVars,
     UseItem
<1>25. CASE CheckError
  BY <1>25, CallStays, HeadOf DEF IInv, TypeOK, HandlerInv, StatusInv, CallerInv, EndInv,
     AllRead, PageFull, Items, StreamEnds, StreamFails, FrameArrives, cliVars, srvVars,
     CheckError
<1>26. CASE CloseIterator
  BY <1>26, CallStays, HeadOf DEF IInv, TypeOK, HandlerInv, StatusInv, CallerInv, EndInv,
     AllRead, PageFull, Items, StreamEnds, StreamFails, FrameArrives, cliVars, srvVars,
     CloseIterator
<1>27. CASE CrawlFails
  BY <1>27, CallStays, HeadOf DEF IInv, TypeOK, HandlerInv, StatusInv, CallerInv, EndInv,
     AllRead, PageFull, Items, StreamEnds, StreamFails, FrameArrives, cliVars, srvVars,
     CrawlFails
<1>28. CASE UNCHANGED vars
  BY <1>28, CallStays, HeadOf DEF IInv, TypeOK, HandlerInv, StatusInv, CallerInv, EndInv,
     AllRead, PageFull, Items, StreamEnds, StreamFails, FrameArrives, cliVars, srvVars,
     vars, cliVars, srvVars
<1> QED
  BY <1>1, <1>2, <1>3, <1>4, <1>5, <1>6, <1>7, <1>8, <1>9, <1>10, <1>11, <1>12, <1>13,
     <1>14, <1>15, <1>16, <1>17, <1>18, <1>19, <1>20, <1>21, <1>22, <1>23, <1>24, <1>25,
     <1>26, <1>27, <1>28 DEF Next, Handler, Caller, vars

(* A caller that fails was disturbed.                                      *)
LEMMA FailStep ==
  ASSUME IInv, [Next]_vars
  PROVE  FailsOnlyDisturbed'
<1> USE MaxItemsAssumption, WindowAssumption
<1>1. CASE ConnectionBreaks
  BY <1>1, CallStays, HeadOf DEF IInv, TypeOK, HandlerInv, StatusInv, CallerInv,
     Disturbed, FailsOnlyDisturbed, StreamEnds, StreamFails, FrameArrives, cliVars,
     srvVars, ConnectionBreaks
<1>2. CASE ServerCrashes
  BY <1>2, CallStays, HeadOf DEF IInv, TypeOK, HandlerInv, StatusInv, CallerInv,
     Disturbed, FailsOnlyDisturbed, StreamEnds, StreamFails, FrameArrives, cliVars,
     srvVars, ServerCrashes, Dies
<1>3. CASE ContextEnds
  BY <1>3, CallStays, HeadOf DEF IInv, TypeOK, HandlerInv, StatusInv, CallerInv,
     Disturbed, FailsOnlyDisturbed, StreamEnds, StreamFails, FrameArrives, cliVars,
     srvVars, ContextEnds
<1>4. CASE ServerTold
  BY <1>4, CallStays, HeadOf DEF IInv, TypeOK, HandlerInv, StatusInv, CallerInv,
     Disturbed, FailsOnlyDisturbed, StreamEnds, StreamFails, FrameArrives, cliVars,
     srvVars, ServerTold
<1>5. CASE OpenFails
  BY <1>5, CallStays, HeadOf DEF IInv, TypeOK, HandlerInv, StatusInv, CallerInv,
     Disturbed, FailsOnlyDisturbed, StreamEnds, StreamFails, FrameArrives, cliVars,
     srvVars, OpenFails, Return
<1>6. CASE Execute
  BY <1>6, CallStays, HeadOf DEF IInv, TypeOK, HandlerInv, StatusInv, CallerInv,
     Disturbed, FailsOnlyDisturbed, StreamEnds, StreamFails, FrameArrives, cliVars,
     srvVars, Execute, Return
<1>7. CASE SendReply
  BY <1>7, CallStays, HeadOf DEF IInv, TypeOK, HandlerInv, StatusInv, CallerInv,
     Disturbed, FailsOnlyDisturbed, StreamEnds, StreamFails, FrameArrives, cliVars,
     srvVars, SendReply, Return
<1>8. CASE OpenIterator
  BY <1>8, CallStays, HeadOf DEF IInv, TypeOK, HandlerInv, StatusInv, CallerInv,
     Disturbed, FailsOnlyDisturbed, StreamEnds, StreamFails, FrameArrives, cliVars,
     srvVars, OpenIterator, Return
<1>9. CASE SendFrame
  BY <1>9, CallStays, HeadOf DEF IInv, TypeOK, HandlerInv, StatusInv, CallerInv,
     Disturbed, FailsOnlyDisturbed, StreamEnds, StreamFails, FrameArrives, cliVars,
     srvVars, SendFrame, Return
<1>10. CASE SendFails
  BY <1>10, CallStays, HeadOf DEF IInv, TypeOK, HandlerInv, StatusInv, CallerInv,
     Disturbed, FailsOnlyDisturbed, StreamEnds, StreamFails, FrameArrives, cliVars,
     srvVars, SendFails, Return
<1>11. CASE NextItem
  BY <1>11, CallStays, HeadOf DEF IInv, TypeOK, HandlerInv, StatusInv, CallerInv,
     Disturbed, FailsOnlyDisturbed, StreamEnds, StreamFails, FrameArrives, cliVars,
     srvVars, NextItem, Return
<1>12. CASE NoMoreItems
  BY <1>12, CallStays, HeadOf DEF IInv, TypeOK, HandlerInv, StatusInv, CallerInv,
     Disturbed, FailsOnlyDisturbed, StreamEnds, StreamFails, FrameArrives, cliVars,
     srvVars, NoMoreItems, Return
<1>13. CASE NextFails
  BY <1>13, CallStays, HeadOf DEF IInv, TypeOK, HandlerInv, StatusInv, CallerInv,
     Disturbed, FailsOnlyDisturbed, StreamEnds, StreamFails, FrameArrives, cliVars,
     srvVars, NextFails, Return
<1>14. CASE RowsCut
  BY <1>14, CallStays, HeadOf DEF IInv, TypeOK, HandlerInv, StatusInv, CallerInv,
     Disturbed, FailsOnlyDisturbed, StreamEnds, StreamFails, FrameArrives, cliVars,
     srvVars, RowsCut, Return
<1>15. CASE Finished
  BY <1>15, CallStays, HeadOf DEF IInv, TypeOK, HandlerInv, StatusInv, CallerInv,
     Disturbed, FailsOnlyDisturbed, StreamEnds, StreamFails, FrameArrives, cliVars,
     srvVars, Finished, Return
<1>16. CASE HandlerFails
  BY <1>16, CallStays, HeadOf DEF IInv, TypeOK, HandlerInv, StatusInv, CallerInv,
     Disturbed, FailsOnlyDisturbed, StreamEnds, StreamFails, FrameArrives, cliVars,
     srvVars, HandlerFails, Return, Dies
<1>17. CASE Call
  BY <1>17, CallStays, HeadOf DEF IInv, TypeOK, HandlerInv, StatusInv, CallerInv,
     Disturbed, FailsOnlyDisturbed, StreamEnds, StreamFails, FrameArrives, cliVars,
     srvVars, Call
<1>18. CASE ReceiveReply
  BY <1>18, CallStays, HeadOf DEF IInv, TypeOK, HandlerInv, StatusInv, CallerInv,
     Disturbed, FailsOnlyDisturbed, StreamEnds, StreamFails, FrameArrives, cliVars,
     srvVars, ReceiveReply
<1>19. CASE ReplyFails
  BY <1>19, CallStays, HeadOf DEF IInv, TypeOK, HandlerInv, StatusInv, CallerInv,
     Disturbed, FailsOnlyDisturbed, StreamEnds, StreamFails, FrameArrives, cliVars,
     srvVars, ReplyFails
<1>20. CASE ReceiveCount
  BY <1>20, CallStays, HeadOf DEF IInv, TypeOK, HandlerInv, StatusInv, CallerInv,
     Disturbed, FailsOnlyDisturbed, StreamEnds, StreamFails, FrameArrives, cliVars,
     srvVars, ReceiveCount
<1>21. CASE CountFails
  BY <1>21, CallStays, HeadOf DEF IInv, TypeOK, HandlerInv, StatusInv, CallerInv,
     Disturbed, FailsOnlyDisturbed, StreamEnds, StreamFails, FrameArrives, cliVars,
     srvVars, CountFails
<1>22. CASE ReceiveItem
  BY <1>22, CallStays, HeadOf DEF IInv, TypeOK, HandlerInv, StatusInv, CallerInv,
     Disturbed, FailsOnlyDisturbed, StreamEnds, StreamFails, FrameArrives, cliVars,
     srvVars, ReceiveItem
<1>23. CASE ReceiveEnd
  BY <1>23, CallStays, HeadOf DEF IInv, TypeOK, HandlerInv, StatusInv, CallerInv,
     Disturbed, FailsOnlyDisturbed, StreamEnds, StreamFails, FrameArrives, cliVars,
     srvVars, ReceiveEnd
<1>24. CASE UseItem
  BY <1>24, CallStays, HeadOf DEF IInv, TypeOK, HandlerInv, StatusInv, CallerInv,
     Disturbed, FailsOnlyDisturbed, StreamEnds, StreamFails, FrameArrives, cliVars,
     srvVars, UseItem
<1>25. CASE CheckError
  BY <1>25, CallStays, HeadOf DEF IInv, TypeOK, HandlerInv, StatusInv, CallerInv,
     Disturbed, FailsOnlyDisturbed, StreamEnds, StreamFails, FrameArrives, cliVars,
     srvVars, CheckError
<1>26. CASE CloseIterator
  BY <1>26, CallStays, HeadOf DEF IInv, TypeOK, HandlerInv, StatusInv, CallerInv,
     Disturbed, FailsOnlyDisturbed, StreamEnds, StreamFails, FrameArrives, cliVars,
     srvVars, CloseIterator
<1>27. CASE CrawlFails
  BY <1>27, CallStays, HeadOf DEF IInv, TypeOK, HandlerInv, StatusInv, CallerInv,
     Disturbed, FailsOnlyDisturbed, StreamEnds, StreamFails, FrameArrives, cliVars,
     srvVars, CrawlFails
<1>28. CASE UNCHANGED vars
  BY <1>28, CallStays, HeadOf DEF IInv, TypeOK, HandlerInv, StatusInv, CallerInv,
     Disturbed, FailsOnlyDisturbed, StreamEnds, StreamFails, FrameArrives, cliVars,
     srvVars, vars, cliVars, srvVars
<1> QED
  BY <1>1, <1>2, <1>3, <1>4, <1>5, <1>6, <1>7, <1>8, <1>9, <1>10, <1>11, <1>12, <1>13,
     <1>14, <1>15, <1>16, <1>17, <1>18, <1>19, <1>20, <1>21, <1>22, <1>23, <1>24, <1>25,
     <1>26, <1>27, <1>28 DEF Next, Handler, Caller, vars

-----------------------------------------------------------------------------
(* Theorems.                                                               *)

LEMMA InitInv == Init => IInv
<1> SUFFICES ASSUME Init PROVE IInv
  OBVIOUS
<1>1. Writes => total = 1
  BY DEF Init
<1>2. total \in 0..MaxItems \cup {1} /\ total >= 0
  BY MaxItemsAssumption DEF Init
<1>3. TypeOK
  <2>1. object \in Objects /\ row \in Objects
    BY ObjectTypes DEF Init
  <2>2. /\ itErr \in BOOLEAN /\ cut \in BOOLEAN /\ gone \in BOOLEAN /\ up \in BOOLEAN
        /\ lastErr \in BOOLEAN /\ cancelled \in BOOLEAN /\ parentDone \in BOOLEAN
    BY DEF Init
  <2> QED
    BY <1>2, <2>1, <2>2, HeadOf, WindowAssumption DEF Init, TypeOK
<1>4. HandlerInv /\ StatusInv
  BY <1>1, HeadOf DEF Init, HandlerInv, StatusInv
<1>5. CallerInv /\ EndInv /\ FailsOnlyDisturbed
  BY DEF Init, CallerInv, EndInv, FailsOnlyDisturbed
<1> QED
  BY <1>3, <1>4, <1>5 DEF IInv

(* The invariant is inductive.                                             *)
THEOREM Invariance == Spec => []IInv
<1>1. IInv /\ [Next]_vars => IInv'
  BY TypeStep, HandlerStep, StatusStep, CallerStep, EndStep, FailStep DEF IInv
<1> QED
  BY <1>1, InitInv, PTL DEF Spec

(* Both ends keep their types: the iterator never goes past its items, and *)
(* no more frames are under way than the window holds (server.go 85-111,   *)
(* client.go 141-166).                                                     *)
THEOREM TypeCorrect == Spec => []TypeOK
<1>1. IInv => TypeOK
  BY DEF IInv
<1> QED
  BY <1>1, Invariance, PTL

(* A call that ends without an error is complete, whatever was lost, broke *)
(* or was cancelled on the way, for queries, windows and pages of any size *)
(* (graphapi/client.go 141-166, server.go 85-111).                         *)
THEOREM Completeness == Spec => []OkMeansComplete
<1>1. IInv => OkMeansComplete
  <2> SUFFICES ASSUME IInv, cli = "end", result = "ok"
               PROVE  AllRead /\ IF Writes THEN AsOnTheStore
                                 ELSE Reader[Method].uses \subseteq Reader[Method].travels
    BY DEF OkMeansComplete
  <2>1. call \in Calls /\ AllRead
    BY DEF IInv, TypeOK, EndInv
  <2>2. CASE Writes
    <3>1. object = Received /\ row = Written
      BY <2>2 DEF IInv, EndInv
    <3> QED
      BY <2>1, <2>2, <3>1, TablesAgree DEF AsOnTheStore
  <2>3. CASE ~Writes
    BY <2>1, <2>3, ReadersServed
  <2> QED
    BY <2>2, <2>3
<1> QED
  BY <1>1, Invariance, PTL

(* A caller fails only when the connection, the store, the handler or the  *)
(* caller's own program did: neither the end of a stream nor the           *)
(* cancellation on the way out is taken for an error (client.go 141-166).  *)
THEOREM FailureHasCause == Spec => []FailsOnlyDisturbed
<1>1. IInv => FailsOnlyDisturbed
  BY DEF IInv
<1> QED
  BY <1>1, Invariance, PTL
===============================================================================
