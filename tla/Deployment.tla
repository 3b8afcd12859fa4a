----------------------------- MODULE Deployment -----------------------------
(***************************************************************************)
(* Instances of one of the programs under cmd/: the main goroutine, the    *)
(* services it runs, the servers on its listeners and its signal watcher,  *)
(* from start to exit, with crashes and restarts.  Instances are numbered  *)
(* as the pods of a stateful set are, and learn how many they are from     *)
(* DNS, which may lag or fail.                                             *)
(***************************************************************************)
EXTENDS PartitionRange, FiniteSets

CONSTANTS
  Ordinals,    \* numbers at the end of the host names
  Deployments, \* what may be deployed: a program, its instances, their settings
  Records      \* numbers of SRV records a lookup may return

(* The programs: the services a program runs, what it needs to start, and  *)
(* the listeners it opens, one before the services or in their place, the  *)
(* other after them.                                                       *)
Crawler  == [services |-> {"crawler"},  needs |-> {"detector", "APIs"},
             first |-> {}, last |-> {"pprof"}]
Pagerank == [services |-> {"pagerank"}, needs |-> {"detector", "APIs"},
             first |-> {}, last |-> {"pprof"}]
Frontend == [services |-> {"frontend"}, needs |-> {"APIs"},
             first |-> {}, last |-> {"pprof"}]
Graph    == [services |-> {}, needs |-> {"graph"},
             first |-> {"grpc"}, last |-> {"pprof"}]
Index    == [services |-> {}, needs |-> {"index"},
             first |-> {"grpc"}, last |-> {"pprof"}]
Monolith == [services |-> {"frontend", "crawler", "pagerank"},
             needs |-> {"graph", "index", "detector"}, first |-> {}, last |-> {}]

Programs == [crawler |-> Crawler, pagerank |-> Pagerank, frontend |-> Frontend,
             graph |-> Graph, index |-> Index, monolith |-> Monolith]

(* What the flags set.  The rest of a configuration is provided by main,   *)
(* or has a default.                                                       *)
Number   == {"negative", "zero", "positive"}
Settings == [workers : Number, interval : Number, threshold : Number,
             listenAddr : {"given", "empty"}]

ASSUME OrdinalsAssumption == Ordinals \subseteq Nat /\ Records \subseteq Nat
ASSUME DeploymentsAssumption ==
  Deployments \subseteq
    [kind : DOMAIN Programs, instances : SUBSET Ordinals, settings : Settings]

VARIABLES
  deployed,    \* the deployment, fixed
  main,        \* the goroutine of runMain; "returned": the group's Run has
  svc,         \* each service's goroutine
  cancelled,   \* the context the services run with
  errCh,       \* Group.Run: services whose error is in the channel
  watcher,     \* the signal watcher: "watch", then what it left for
  signalled,   \* a signal was delivered to this process
  serving,     \* servers whose Serve has not returned
  listening,   \* open listeners
  pass,        \* the IDs a crawl pass asks for, and the partitions it counted
  erred,       \* history: services that returned an error
  report       \* what Group.Run returned

lifeVars == <<main, watcher, signalled, serving, listening>>
svcVars  == <<svc, cancelled, errCh, pass, erred>>
vars     == <<deployed, lifeVars, svcVars, report>>

kind        == deployed.kind
Instances   == deployed.instances
AllServices == {"crawler", "pagerank", "frontend"}
Services    == Programs[kind].services
Needs       == Programs[kind].needs
Listeners   == Programs[kind].first \cup Programs[kind].last

(* What NewService of each service asks of them.                           *)
CrawlerValidates(cfg)  == cfg.workers = "positive" /\ cfg.interval # "zero" /\ cfg.threshold # "zero"
PagerankValidates(cfg) == cfg.workers = "positive" /\ cfg.interval # "zero"
FrontendValidates(cfg) == cfg.listenAddr # "empty"
Validates(s) ==
  CASE s = "crawler"  -> CrawlerValidates(deployed.settings)
    [] s = "pagerank" -> PagerankValidates(deployed.settings)
    [] s = "frontend" -> FrontendValidates(deployed.settings)

(* The monolith runs its services as a service.Group.                      *)
IsGroup == kind = "monolith"

NoPass == [from |-> 0, to |-> 0, of |-> 0]

Init ==
  /\ deployed \in Deployments
  /\ main = [i \in Ordinals |-> "exited"]
  /\ svc = [i \in Ordinals |-> [s \in AllServices |-> "done"]]
  /\ cancelled = [i \in Ordinals |-> FALSE]
  /\ errCh = [i \in Ordinals |-> {}]
  /\ watcher = [i \in Ordinals |-> "none"]
  /\ signalled = [i \in Ordinals |-> FALSE]
  /\ serving = [i \in Ordinals |-> {}]
  /\ listening = [i \in Ordinals |-> {}]
  /\ pass = [i \in Ordinals |-> NoPass]
  /\ erred = [i \in Ordinals |-> {}]
  /\ report = [i \in Ordinals |-> {}]

TypeOK ==
  /\ main \in [Ordinals -> {"exited", "setup", "listen", "running", "returned"}]
  /\ svc \in [Ordinals -> [AllServices -> {"select", "pass", "failed", "sent", "done"}]]
  /\ cancelled \in [Ordinals -> BOOLEAN]
  /\ errCh \in [Ordinals -> SUBSET AllServices]
  /\ watcher \in [Ordinals -> {"none", "watch", "signal", "context"}]
  /\ signalled \in [Ordinals -> BOOLEAN]
  /\ serving \in [Ordinals -> SUBSET Listeners] /\ listening \in [Ordinals -> SUBSET Listeners]
  /\ \A i \in Ordinals : listening[i] \subseteq serving[i]
  /\ pass \in [Ordinals -> [from : Nat, to : Nat, of : Nat]]
  /\ erred \in [Ordinals -> SUBSET Services]
  /\ report \in [Ordinals -> SUBSET Services]

-----------------------------------------------------------------------------
(* The process.                                                            *)

(* A new process.                                                          *)
Start(i) ==
  /\ main[i] = "exited"
  /\ main' = [main EXCEPT ![i] = "setup"]
  /\ cancelled' = [cancelled EXCEPT ![i] = FALSE]
  /\ signalled' = [signalled EXCEPT ![i] = FALSE]
  /\ errCh' = [errCh EXCEPT ![i] = {}]
  /\ erred' = [erred EXCEPT ![i] = {}]
  /\ report' = [report EXCEPT ![i] = {}]
  /\ UNCHANGED <<deployed, svc, watcher, serving, listening, pass>>

BadConfig     == \E s \in Services : ~Validates(s)
DialFails     == "APIs" \in Needs
GraphFails    == "graph" \in Needs
IndexFails    == "index" \in Needs
UnknownMode   == "detector" \in Needs
PortTaken(ls) == ls # {}

(* What it needs is there: the partition detection mode is known, the APIs *)
(* are dialled within five seconds each, the store's URI names one that    *)
(* opens; NewService finds nothing wrong.  The services go first.          *)
StartServices(i) ==
  /\ main[i] = "setup" /\ ~BadConfig
  /\ main' = [main EXCEPT ![i] = "listen"]
  /\ svc' = [svc EXCEPT ![i] =
       [s \in AllServices |-> IF s \in Services THEN "select" ELSE "done"]]
  /\ serving' = [serving EXCEPT ![i] = Programs[kind].first]
  /\ listening' = [listening EXCEPT ![i] = Programs[kind].first]
  /\ UNCHANGED <<deployed, watcher, signalled, cancelled, errCh, pass, erred, report>>

(* The pprof server and the watcher follow: the services run already.      *)
Listen(i) ==
  /\ main[i] = "listen"
  /\ main' = [main EXCEPT ![i] = "running"]
  /\ watcher' = [watcher EXCEPT ![i] = "watch"]
  /\ serving' = [serving EXCEPT ![i] = @ \cup Programs[kind].last]
  /\ listening' = [listening EXCEPT ![i] = @ \cup Programs[kind].last]
  /\ UNCHANGED <<deployed, svcVars, signalled, report>>

(* Nothing survives the process.                                           *)
Gone(i) ==
  /\ main' = [main EXCEPT ![i] = "exited"]
  /\ svc' = [svc EXCEPT ![i] = [s \in AllServices |-> "done"]]
  /\ watcher' = [watcher EXCEPT ![i] = "none"]
  /\ serving' = [serving EXCEPT ![i] = {}]
  /\ listening' = [listening EXCEPT ![i] = {}]
  /\ pass' = [pass EXCEPT ![i] = NoPass]

(* runMain returns an error, and takes with it what it has started.        *)
StartFails(i) ==
  /\ \/ main[i] = "setup" /\ (BadConfig \/ DialFails \/ GraphFails \/ IndexFails
                                 \/ UnknownMode \/ PortTaken(Programs[kind].first))
     \/ main[i] = "listen" /\ PortTaken(Programs[kind].last)
  /\ Gone(i)
  /\ UNCHANGED <<deployed, cancelled, errCh, signalled, erred, report>>

(* It is killed: the signals it does not watch for, or a crash.            *)
Crash(i) ==
  /\ main[i] # "exited" /\ Gone(i)
  /\ UNCHANGED <<deployed, cancelled, errCh, signalled, erred, report>>

Signal(i) ==
  /\ main[i] = "running" /\ ~signalled[i]
  /\ signalled' = [signalled EXCEPT ![i] = TRUE]
  /\ UNCHANGED <<deployed, main, svcVars, watcher, serving, listening, report>>

(* Variant with a bug: the listeners stay open.                            *)
WatcherSignalledOnly(i) ==
  /\ watcher[i] = "watch" /\ signalled[i]
  /\ watcher' = [watcher EXCEPT ![i] = "signal"]
  /\ cancelled' = [cancelled EXCEPT ![i] = TRUE]
  /\ UNCHANGED <<deployed, main, svc, errCh, signalled, serving, listening, pass, erred, report>>

WatcherSignalled(i) ==
  /\ watcher[i] = "watch" /\ signalled[i]
  /\ watcher' = [watcher EXCEPT ![i] = "signal"]
  /\ listening' = [listening EXCEPT ![i] = {}]
  /\ cancelled' = [cancelled EXCEPT ![i] = TRUE]
  /\ UNCHANGED <<deployed, main, svc, errCh, signalled, serving, pass, erred, report>>

(* The context ended: the watcher leaves the listeners alone, and nobody   *)
(* waits for a signal any more.                                            *)
WatcherDone(i) ==
  /\ watcher[i] = "watch" /\ cancelled[i]
  /\ watcher' = [watcher EXCEPT ![i] = "context"]
  /\ UNCHANGED <<deployed, main, svcVars, signalled, serving, listening, report>>

(* Variant with a bug: a server gives up although its listener is open.    *)
ServeGivesUp(i) ==
  /\ \E l \in serving[i] : serving' = [serving EXCEPT ![i] = @ \ {l}]
  /\ UNCHANGED <<deployed, main, svcVars, watcher, signalled, listening, report>>

ServeReturns(i) ==
  /\ \E l \in serving[i] \ listening[i] : serving' = [serving EXCEPT ![i] = @ \ {l}]
  /\ UNCHANGED <<deployed, main, svcVars, watcher, signalled, listening, report>>

Returned(i) == \A s \in Services : svc[i][s] = "done"

(* The wait group of a microservice.                                       *)
MainReturns(i) ==
  /\ main[i] = "running" /\ ~IsGroup
  /\ Returned(i) /\ serving[i] = {}
  /\ Gone(i)
  /\ UNCHANGED <<deployed, cancelled, errCh, signalled, erred, report>>

(* Variant with a bug: the group does not wait for its services.           *)
GroupReturnsEarly(i) ==
  /\ main[i] = "running" /\ IsGroup
  /\ cancelled[i]
  /\ main' = [main EXCEPT ![i] = "returned"]
  /\ report' = [report EXCEPT ![i] = errCh[i]]
  /\ UNCHANGED <<deployed, svcVars, watcher, signalled, serving, listening>>

(* Group.Run: the context, the services, then the errors in the channel;   *)
(* it returns nil when there are none.                                     *)
GroupReturns(i) ==
  /\ main[i] = "running" /\ IsGroup
  /\ cancelled[i] /\ Returned(i)
  /\ main' = [main EXCEPT ![i] = "returned"]
  /\ report' = [report EXCEPT ![i] = errCh[i]]
  /\ UNCHANGED <<deployed, svcVars, watcher, signalled, serving, listening>>

(* The monolith logs what the group returned, and ends.                    *)
MonolithReturns(i) ==
  /\ main[i] = "returned" /\ Gone(i)
  /\ UNCHANGED <<deployed, cancelled, errCh, signalled, erred, report>>

-----------------------------------------------------------------------------
(* A service.                                                              *)
Goto(i, s, pc) == svc' = [svc EXCEPT ![i][s] = pc]

Fails(i, s) == /\ Goto(i, s, "failed")
               /\ erred' = [erred EXCEPT ![i] = @ \cup {s}]
               /\ pass' = IF s = "crawler" THEN [pass EXCEPT ![i] = NoPass] ELSE pass

(* select: the context.                                                    *)
SeesContext(i, s) ==
  /\ svc[i][s] = "select" /\ cancelled[i] /\ Goto(i, s, "done")
  /\ UNCHANGED <<deployed, lifeVars, cancelled, errCh, pass, erred, report>>

(* What a detector answers: the ordinal and the number of SRV records.     *)
PartitionInfo(i) == {<<i, n>> : n \in Records}

(* select: the clock of the crawler.  A failed lookup defers the pass,     *)
(* which is no step here; another error of the detector ends the service.  *)
CrawlTick(i) ==
  /\ svc[i]["crawler"] = "select"
  /\ \/ Fails(i, "crawler")
     \/ \E info \in PartitionInfo(i) :
          LET p == info[1]
              n == info[2] IN
          IF NewFullRangeFails(n) \/ PartitionExtentsFails(n, p) THEN Fails(i, "crawler")
          ELSE /\ Goto(i, "crawler", "pass")
               /\ pass' = [pass EXCEPT ![i] =
                    [from |-> PartitionExtents(n, p)[1], to |-> PartitionExtents(n, p)[2],
                     of |-> n]]
               /\ UNCHANGED erred
  /\ UNCHANGED <<deployed, lifeVars, cancelled, errCh, report>>

(* The clock of the ranker, which only goes on in the first partition.     *)
RankTick(i) ==
  /\ svc[i]["pagerank"] = "select"
  /\ \/ Fails(i, "pagerank")
     \/ \E info \in PartitionInfo(i) :
          /\ IF info[1] # 0 THEN Goto(i, "pagerank", "done") ELSE Goto(i, "pagerank", "pass")
          /\ UNCHANGED <<erred, pass>>
  /\ UNCHANGED <<deployed, lifeVars, cancelled, errCh, report>>

(* The front-end's server fails.                                           *)
ServerFails(i) ==
  /\ svc[i]["frontend"] = "select" /\ Fails(i, "frontend")
  /\ UNCHANGED <<deployed, lifeVars, cancelled, errCh, report>>

PassEnds(i, s) ==
  /\ svc[i][s] = "pass"
  /\ \/ /\ Goto(i, s, "select")
        /\ pass' = IF s = "crawler" THEN [pass EXCEPT ![i] = NoPass] ELSE pass
        /\ UNCHANGED erred
     \/ Fails(i, s)
  /\ UNCHANGED <<deployed, lifeVars, cancelled, errCh, report>>

(* The goroutine around Run: the group's sends the error first.            *)
SendError(i, s) ==
  /\ svc[i][s] = "failed" /\ Goto(i, s, "sent")
  /\ errCh' = IF IsGroup THEN [errCh EXCEPT ![i] = @ \cup {s}] ELSE errCh
  /\ UNCHANGED <<deployed, lifeVars, cancelled, pass, erred, report>>

CancelOthers(i, s) ==
  /\ svc[i][s] = "sent" /\ Goto(i, s, "done")
  /\ cancelled' = [cancelled EXCEPT ![i] = TRUE]
  /\ UNCHANGED <<deployed, lifeVars, errCh, pass, erred, report>>

-----------------------------------------------------------------------------
Process(i) ==
  \/ StartServices(i) \/ Listen(i) \/ StartFails(i)
  \/ WatcherSignalled(i) \/ WatcherDone(i)
  \/ ServeReturns(i) \/ MainReturns(i) \/ GroupReturns(i) \/ MonolithReturns(i)
  \/ \E s \in Services : SendError(i, s) \/ CancelOthers(i, s)
SomePassEnds(i)    == \E s \in Services : PassEnds(i, s)
SomeSeesContext(i) == \E s \in Services : SeesContext(i, s)

Next == \E i \in Instances :
          \/ Start(i) \/ Crash(i) \/ Signal(i)
          \/ Process(i) \/ SomePassEnds(i) \/ SomeSeesContext(i)
          \/ CrawlTick(i) \/ RankTick(i) \/ ServerFails(i)

Spec == Init /\ [][Next]_vars

(* Goroutines that can run do: each takes the steps of Process once in the *)
(* life of the process, so one condition does for all.  Passes end.  A     *)
(* select whose context case stays ready takes it in the end, though its   *)
(* clock may tick too.                                                     *)
Fairness ==
  \A i \in Ordinals : /\ WF_vars(Process(i)) /\ WF_vars(SomePassEnds(i))
                       /\ SF_vars(SomeSeesContext(i))
FairSpec == Spec /\ Fairness

-----------------------------------------------------------------------------
(* Properties.                                                             *)

(* Crawl passes that counted the same number of partitions have no link in *)
(* common, and when each of that number of instances is in a pass, every   *)
(* link but one of the last ID belongs to one of them, whatever lookups    *)
(* and restarts came before (range.go 39-52, crawler/service.go 157-171).  *)
InPass(n) == {i \in Instances : svc[i]["crawler"] = "pass" /\ pass[i].of = n}
Share(i)  == {id \in IDs : pass[i].from <= id /\ id < pass[i].to}
CrawlsPartition ==
  \A n \in Records :
    /\ \A i \in InPass(n), j \in InPass(n) : i # j => Share(i) \cap Share(j) = {}
    /\ n > 0 /\ Cardinality(InPass(n)) = n => UNION {Share(i) : i \in InPass(n)} = IDs \ {MaxUUID}

(* A signal ends the process, and so does a failed service of the          *)
(* monolith.  In a microservice whose service failed by itself the watcher *)
(* may be gone with the listeners open: then nothing ends it (main.go      *)
(* "Keep running until we receive a signal", service.go 43-62).            *)
ProcessEnds ==
  \A i \in Ordinals :
    signalled[i] \/ (IsGroup /\ erred[i] # {})
      ~> main[i] = "exited" \/ (~IsGroup /\ erred[i] # {})

(* Once Group.Run has returned, with errors or nil, every service has, and *)
(* the report is the errors of exactly those that failed, none lost in the *)
(* channel: it is nil only if no service failed (service.go 36-62).        *)
GroupReports ==
  \A i \in Ordinals : main[i] = "returned" => Returned(i) /\ report[i] = erred[i]
=============================================================================
