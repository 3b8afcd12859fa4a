-------------------------- MODULE DeploymentProofs --------------------------
(***************************************************************************)
(* Proofs about any deployment: any number of instances, of IDs and of     *)
(* records a lookup may return.                                            *)
(***************************************************************************)
EXTENDS Deployment, TLAPS, FiniteSetTheorems

-----------------------------------------------------------------------------
(* Arithmetic of partitions.                                               *)

(* Products grow with their first factor.                                  *)
LEMMA MulMono ==
  ASSUME NEW p \in Nat, NEW a \in Nat, NEW b \in Nat, a <= b
  PROVE  p * a <= p * b
<1>1. PICK d \in Nat : b = a + d
  <2>1. b - a \in Nat /\ b = a + (b - a)
    OBVIOUS
  <2> QED
    BY <2>1
<1>2. p * b = p * a + p * d /\ p * d \in Nat
  BY <1>1
<1> QED
  BY <1>2

(* What the division of big.Int rounds off (range.go 46).                  *)
LEMMA DivBounds ==
  ASSUME NEW p \in Nat \ {0}, NEW x \in Nat
  PROVE  x \div p \in Nat /\ p * (x \div p) <= x /\ x < p * ((x \div p) + 1)
  OBVIOUS

(* The size of a partition, when the range can be split.                   *)
Size(n) == PartSize(0, MaxUUID, n)

(* It is positive, and as many partitions fit in the range.                *)
LEMMA SizeFacts ==
  ASSUME NEW n \in Nat, ~NewFullRangeFails(n)
  PROVE  MaxUUID \in Nat /\ n > 0 /\ Size(n) \in Nat /\ Size(n) * n <= MaxUUID + 1
<1>1. MaxUUID \in Int /\ n > 0 /\ MaxUUID > 0
  BY SizeAssumption DEF NewFullRangeFails, NewRangeFails, MaxUUID
<1>2. Size(n) = (MaxUUID + 1) \div n
  BY <1>1 DEF Size, PartSize
<1>3. MaxUUID + 1 \in Nat /\ n \in Nat \ {0}
  BY <1>1
<1> HIDE DEF Size
<1>4. Size(n) \in Nat /\ n * Size(n) <= MaxUUID + 1
  BY <1>2, <1>3, DivBounds
<1> QED
  BY <1>1, <1>4

(* Where partition i begins and ends.                                      *)
LEMMA Extents ==
  ASSUME NEW n \in Nat, ~NewFullRangeFails(n), NEW i \in 0..(n - 1)
  PROVE  /\ PartitionExtents(n, i)[1] = Size(n) * i
         /\ PartitionExtents(n, i)[2] = IF i = n - 1 THEN MaxUUID ELSE Size(n) * (i + 1)
<1>1. MaxUUID \in Nat /\ n > 0 /\ Size(n) \in Nat
  BY SizeFacts
<1>2. RangeSplits(0, MaxUUID, n) = [k \in 1..n |-> IF k = n THEN MaxUUID ELSE Size(n) * k]
  BY DEF RangeSplits, Size
<1> HIDE DEF Size
<1>3. CASE i = 0
  BY <1>1, <1>2, <1>3 DEF PartitionExtents
<1>4. CASE i # 0
  BY <1>1, <1>2, <1>4 DEF PartitionExtents
<1> QED
  BY <1>3, <1>4

(* A partition ends before a later one begins.                             *)
LEMMA Apart ==
  ASSUME NEW n \in Nat, ~NewFullRangeFails(n),
         NEW i \in 0..(n - 1), NEW j \in 0..(n - 1), i < j
  PROVE  PartitionExtents(n, i)[2] <= PartitionExtents(n, j)[1]
<1>1. i # n - 1 /\ i + 1 \in Nat /\ j \in Nat /\ i + 1 <= j /\ Size(n) \in Nat
  BY SizeFacts
<1> QED
  BY <1>1, Extents, MulMono

(* Every ID but the last is in one of them.                                *)
LEMMA Covered ==
  ASSUME NEW n \in Nat, ~NewFullRangeFails(n), NEW x \in Nat, x < MaxUUID
  PROVE  \E i \in 0..(n - 1) :
           PartitionExtents(n, i)[1] <= x /\ x < PartitionExtents(n, i)[2]
<1> DEFINE p == Size(n)
<1>1. MaxUUID \in Nat /\ n \in Nat \ {0} /\ p \in Nat
  BY SizeFacts
<1> HIDE DEF p
<1>2. CASE p * (n - 1) <= x
  <2>1. n - 1 \in 0..(n - 1)
    BY <1>1
  <2> QED
    BY <1>1, <1>2, <2>1, Extents DEF p
<1>3. CASE x < p * (n - 1)
  <2>1. p # 0
    BY <1>1, <1>3
  <2> DEFINE k == x \div p
  <2>2. k \in Nat /\ p * k <= x /\ x < p * (k + 1)
    BY <1>1, <2>1, DivBounds
  <2> HIDE DEF k
  <2>3. k < n - 1
    <3> SUFFICES ASSUME k >= n - 1 PROVE FALSE
      BY <1>1, <2>2
    <3>1. p * (n - 1) <= p * k
      BY <1>1, <2>2, MulMono
    <3> QED
      BY <1>1, <1>3, <2>2, <3>1
  <2>4. k \in 0..(n - 1) /\ k # n - 1
    BY <1>1, <2>2, <2>3
  <2> QED
    BY <2>2, <2>4, Extents DEF p
<1>4. p * (n - 1) \in Int
  BY <1>1
<1> QED
  BY <1>2, <1>3, <1>4

(* Bounds are IDs.                                                         *)
LEMMA ExtentsInRange ==
  ASSUME NEW n \in Nat, ~NewFullRangeFails(n), NEW i \in 0..(n - 1)
  PROVE  PartitionExtents(n, i)[1] \in IDs /\ PartitionExtents(n, i)[2] \in IDs
<1>1. /\ MaxUUID \in Nat /\ n \in Nat \ {0} /\ Size(n) \in Nat
      /\ Size(n) * n <= MaxUUID + 1 /\ IDs = 0..MaxUUID
  BY SizeFacts DEF IDs, MaxUUID
<1>2. ASSUME NEW k \in 0..(n - 1)
      PROVE  Size(n) * k \in 0..MaxUUID
  <2>1. Size(n) * k <= Size(n) * (n - 1) /\ Size(n) * k \in Nat /\ Size(n) * (n - 1) \in Nat
    BY <1>1, <1>2, MulMono
  <2>2. Size(n) * n = Size(n) * (n - 1) + Size(n)
    BY <1>1
  <2>3. CASE Size(n) = 0
    BY <1>1, <2>1, <2>3
  <2>4. CASE Size(n) # 0
    BY <1>1, <2>1, <2>2, <2>4
  <2> QED
    BY <2>3, <2>4
<1>3. i # n - 1 => i + 1 \in 0..(n - 1)
  BY <1>1
<1> QED
  BY <1>1, <1>2, <1>3, Extents

-----------------------------------------------------------------------------
(* The invariant.                                                          *)

(* A service the program does not have never runs, and none runs outside   *)
(* of a process that has started them.                                     *)
SvcInv ==
  \A i \in Ordinals :
    /\ \A s \in AllServices \ Services : svc[i][s] = "done"
    /\ main[i] \in {"exited", "setup"} => \A s \in AllServices : svc[i][s] = "done"

(* In a process with a group, a service that returned an error still has   *)
(* it or has put it into the channel.                                      *)
ErrInv ==
  IsGroup => \A i \in Ordinals : main[i] # "exited" =>
    erred[i] = errCh[i] \cup {s \in AllServices : svc[i][s] = "failed"}

(* A crawl pass asks for its partition of those it counted.                *)
PassInv ==
  \A i \in Ordinals : svc[i]["crawler"] = "pass" =>
    LET n == pass[i].of IN
    /\ n \in Records /\ ~NewFullRangeFails(n) /\ i < n
    /\ pass[i].from = PartitionExtents(n, i)[1]
    /\ pass[i].to = PartitionExtents(n, i)[2]

IInv ==
  /\ TypeOK /\ deployed \in Deployments
  /\ SvcInv /\ ErrInv /\ PassInv
  /\ GroupReports

-----------------------------------------------------------------------------
(* The deployment.                                                         *)

(* What the assumptions say of the chosen deployment.                      *)
LEMMA Deployed ==
  ASSUME deployed \in Deployments
  PROVE  Instances \subseteq Ordinals /\ Services \subseteq AllServices
<1>1. kind \in DOMAIN Programs /\ Instances \subseteq Ordinals
  BY DeploymentsAssumption DEF kind, Instances
<1>2. Programs[kind].services \subseteq AllServices
  BY <1>1 DEF Programs, Crawler, Pagerank, Frontend, Graph, Index, Monolith, AllServices
<1> QED
  BY <1>1, <1>2 DEF Services

(* No step changes it, nor what follows from it.                           *)
LEMMA SameDeployment ==
  ASSUME [Next]_vars
  PROVE  UNCHANGED <<deployed, kind, IsGroup, Instances, Services, Listeners>>
<1>1. deployed' = deployed
  BY DEF Next, Process, SomePassEnds, SomeSeesContext, Start, Crash, Signal,
     StartServices, Listen, StartFails, WatcherSignalled, WatcherDone, ServeReturns,
     MainReturns, GroupReturns, MonolithReturns, SendError, CancelOthers, PassEnds, SeesContext,
     CrawlTick, RankTick, ServerFails, vars
<1> QED
  BY <1>1 DEF kind, IsGroup, Instances, Services, Listeners

(* The actions, one by one.                                                *)
LEMMA Steps ==
  ASSUME [Next]_vars
  PROVE  \/ UNCHANGED vars
         \/ \E i \in Instances : Start(i)
         \/ \E i \in Instances : Crash(i)
         \/ \E i \in Instances : Signal(i)
         \/ \E i \in Instances : StartServices(i)
         \/ \E i \in Instances : Listen(i)
         \/ \E i \in Instances : StartFails(i)
         \/ \E i \in Instances : WatcherSignalled(i)
         \/ \E i \in Instances : WatcherDone(i)
         \/ \E i \in Instances : ServeReturns(i)
         \/ \E i \in Instances : MainReturns(i)
         \/ \E i \in Instances : GroupReturns(i)
         \/ \E i \in Instances : MonolithReturns(i)
         \/ \E i \in Instances, s \in Services : SendError(i, s)
         \/ \E i \in Instances, s \in Services : CancelOthers(i, s)
         \/ \E i \in Instances, s \in Services : PassEnds(i, s)
         \/ \E i \in Instances, s \in Services : SeesContext(i, s)
         \/ \E i \in Instances : CrawlTick(i)
         \/ \E i \in Instances : RankTick(i)
         \/ \E i \in Instances : ServerFails(i)
  BY DEF Next, Process, SomePassEnds, SomeSeesContext

(* Services run only in a process that has them.                           *)
LEMMA SvcStep ==
  ASSUME IInv, [Next]_vars
  PROVE  SvcInv'
<1>a. /\ Instances \subseteq Ordinals /\ Services \subseteq AllServices
      /\ svc \in [Ordinals -> [AllServices -> {"select", "pass", "failed", "sent", "done"}]]
      /\ \A i \in Ordinals :
           svc[i] \in [AllServices -> {"select", "pass", "failed", "sent", "done"}]
  BY Deployed DEF IInv, TypeOK
<1>b. UNCHANGED <<deployed, kind, IsGroup, Instances, Services, Listeners>>
  BY SameDeployment
<1>1. CASE UNCHANGED <<svc, main>>
  BY <1>1, <1>a, <1>b DEF IInv, SvcInv
<1>2. CASE \E i \in Instances : Start(i)
  BY <1>2, <1>a, <1>b DEF IInv, SvcInv, Start, lifeVars, svcVars
<1>3. CASE \E i \in Instances : Crash(i)
  BY <1>3, <1>a, <1>b DEF IInv, SvcInv, Crash, Gone, lifeVars, svcVars
<1>4. CASE \E i \in Instances : StartServices(i)
  <2> PICK i \in Instances : StartServices(i)
    BY <1>4
  <2>1. i \in Ordinals /\ main' = [main EXCEPT ![i] = "listen"]
    BY <1>a DEF StartServices
  <2>2. \A s \in AllServices \ Services : svc'[i][s] = "done"
    BY <1>a DEF StartServices
  <2>3. \A j \in Ordinals : j # i => svc'[j] = svc[j]
    BY <1>a DEF StartServices
  <2>4. \A j \in Ordinals : main'[j] = IF j = i THEN "listen" ELSE main[j]
    BY <2>1 DEF IInv, TypeOK
  <2> QED
    BY <1>b, <2>2, <2>3, <2>4 DEF IInv, SvcInv
<1>5. CASE \E i \in Instances : Listen(i)
  BY <1>5, <1>a, <1>b DEF IInv, SvcInv, Listen, lifeVars, svcVars
<1>6. CASE \E i \in Instances : StartFails(i)
  BY <1>6, <1>a, <1>b DEF IInv, SvcInv, StartFails, Gone, lifeVars, svcVars
<1>7. CASE \E i \in Instances : MainReturns(i)
  BY <1>7, <1>a, <1>b DEF IInv, SvcInv, MainReturns, Gone, lifeVars, svcVars
<1>8. CASE \E i \in Instances : GroupReturns(i)
  BY <1>8, <1>a, <1>b DEF IInv, SvcInv, GroupReturns, Gone, lifeVars, svcVars
<1>9. CASE \E i \in Instances, s \in Services : SendError(i, s)
  BY <1>9, <1>a, <1>b DEF IInv, SvcInv, SendError, Goto, lifeVars, svcVars
<1>10. CASE \E i \in Instances, s \in Services : CancelOthers(i, s)
  BY <1>10, <1>a, <1>b DEF IInv, SvcInv, CancelOthers, Goto, lifeVars, svcVars
<1>11. CASE \E i \in Instances, s \in Services : PassEnds(i, s)
  BY <1>11, <1>a, <1>b DEF IInv, SvcInv, PassEnds, Goto, Fails, lifeVars, svcVars
<1>12. CASE \E i \in Instances, s \in Services : SeesContext(i, s)
  BY <1>12, <1>a, <1>b DEF IInv, SvcInv, SeesContext, Goto, lifeVars, svcVars
<1>13. CASE \E i \in Instances : CrawlTick(i)
  BY <1>13, <1>a, <1>b DEF IInv, SvcInv, CrawlTick, Goto, Fails, PartitionInfo,
     lifeVars, svcVars
<1>14. CASE \E i \in Instances : RankTick(i)
  BY <1>14, <1>a, <1>b DEF IInv, SvcInv, RankTick, Goto, Fails, PartitionInfo,
     lifeVars, svcVars
<1>15. CASE \E i \in Instances : ServerFails(i)
  BY <1>15, <1>a, <1>b DEF IInv, SvcInv, ServerFails, Goto, Fails, lifeVars, svcVars
<1>16. CASE \E i \in Instances : MonolithReturns(i)
  BY <1>16, <1>a, <1>b DEF IInv, SvcInv, MonolithReturns, Gone, lifeVars, svcVars
<1>17. \/ UNCHANGED <<svc, main>>
       \/ \E i \in Instances : Start(i)
       \/ \E i \in Instances : Crash(i)
       \/ \E i \in Instances : StartServices(i)
       \/ \E i \in Instances : Listen(i)
       \/ \E i \in Instances : StartFails(i)
       \/ \E i \in Instances : MainReturns(i)
       \/ \E i \in Instances : GroupReturns(i)
       \/ \E i \in Instances : MonolithReturns(i)
       \/ \E i \in Instances, s \in Services : SendError(i, s)
       \/ \E i \in Instances, s \in Services : CancelOthers(i, s)
       \/ \E i \in Instances, s \in Services : PassEnds(i, s)
       \/ \E i \in Instances, s \in Services : SeesContext(i, s)
       \/ \E i \in Instances : CrawlTick(i)
       \/ \E i \in Instances : RankTick(i)
       \/ \E i \in Instances : ServerFails(i)
  BY Steps DEF Signal, WatcherSignalled, WatcherDone, ServeReturns, vars, lifeVars,
     svcVars
<1> QED
  BY <1>1, <1>2, <1>3, <1>4, <1>5, <1>6, <1>7, <1>8, <1>9, <1>10, <1>11, <1>12,
     <1>13, <1>14, <1>15, <1>16, <1>17

(* No error gets lost on its way to the channel.                           *)
LEMMA ErrStep ==
  ASSUME IInv, [Next]_vars
  PROVE  ErrInv'
<1>a. /\ Instances \subseteq Ordinals /\ Services \subseteq AllServices
      /\ svc \in [Ordinals -> [AllServices -> {"select", "pass", "failed", "sent", "done"}]]
      /\ \A i \in Ordinals :
           svc[i] \in [AllServices -> {"select", "pass", "failed", "sent", "done"}]
  BY Deployed DEF IInv, TypeOK
<1>b. UNCHANGED <<deployed, kind, IsGroup, Instances, Services, Listeners>>
  BY SameDeployment
<1>t. /\ main \in [Ordinals -> {"exited", "setup", "listen", "running", "returned"}]
      /\ erred \in [Ordinals -> SUBSET Services] /\ errCh \in [Ordinals -> SUBSET AllServices]
  BY DEF IInv, TypeOK
<1>1. CASE UNCHANGED <<svc, main, errCh, erred>>
  BY <1>1, <1>a, <1>b, <1>t DEF IInv, SvcInv, ErrInv, AllServices
<1>2. CASE \E i \in Instances : Start(i)
  BY <1>2, <1>a, <1>b, <1>t DEF IInv, SvcInv, ErrInv, AllServices, Start, lifeVars,
     svcVars
<1>3. CASE \E i \in Instances : Crash(i)
  BY <1>3, <1>a, <1>b, <1>t DEF IInv, SvcInv, ErrInv, AllServices, Crash, Gone,
     lifeVars, svcVars
<1>4. CASE \E i \in Instances : StartServices(i)
  BY <1>4, <1>a, <1>b, <1>t DEF IInv, SvcInv, ErrInv, AllServices, StartServices,
     lifeVars, svcVars
<1>5. CASE \E i \in Instances : Listen(i)
  BY <1>5, <1>a, <1>b, <1>t DEF IInv, SvcInv, ErrInv, AllServices, Listen, lifeVars,
     svcVars
<1>6. CASE \E i \in Instances : StartFails(i)
  BY <1>6, <1>a, <1>b, <1>t DEF IInv, SvcInv, ErrInv, AllServices, StartFails, Gone,
     lifeVars, svcVars
<1>7. CASE \E i \in Instances : MainReturns(i)
  BY <1>7, <1>a, <1>b, <1>t DEF IInv, SvcInv, ErrInv, AllServices, MainReturns,
     Gone, lifeVars, svcVars
<1>8. CASE \E i \in Instances : GroupReturns(i)
  BY <1>8, <1>a, <1>b, <1>t DEF IInv, SvcInv, ErrInv, AllServices, GroupReturns,
     Gone, lifeVars, svcVars
<1>9. CASE \E i \in Instances, s \in Services : SendError(i, s)
  BY <1>9, <1>a, <1>b, <1>t DEF IInv, SvcInv, ErrInv, AllServices, SendError, Goto,
     lifeVars, svcVars
<1>10. CASE \E i \in Instances, s \in Services : CancelOthers(i, s)
  BY <1>10, <1>a, <1>b, <1>t DEF IInv, SvcInv, ErrInv, AllServices, CancelOthers,
     Goto, lifeVars, svcVars
<1>11. CASE \E i \in Instances, s \in Services : PassEnds(i, s)
  BY <1>11, <1>a, <1>b, <1>t DEF IInv, SvcInv, ErrInv, AllServices, PassEnds, Goto,
     Fails, lifeVars, svcVars
<1>12. CASE \E i \in Instances, s \in Services : SeesContext(i, s)
  BY <1>12, <1>a, <1>b, <1>t DEF IInv, SvcInv, ErrInv, AllServices, SeesContext,
     Goto, lifeVars, svcVars
<1>13. CASE \E i \in Instances : CrawlTick(i)
  BY <1>13, <1>a, <1>b, <1>t DEF IInv, SvcInv, ErrInv, AllServices, CrawlTick, Goto,
     Fails, PartitionInfo, lifeVars, svcVars
<1>14. CASE \E i \in Instances : RankTick(i)
  BY <1>14, <1>a, <1>b, <1>t DEF IInv, SvcInv, ErrInv, AllServices, RankTick, Goto,
     Fails, PartitionInfo, lifeVars, svcVars
<1>15. CASE \E i \in Instances : ServerFails(i)
  BY <1>15, <1>a, <1>b, <1>t DEF IInv, SvcInv, ErrInv, AllServices, ServerFails,
     Goto, Fails, lifeVars, svcVars
<1>16. CASE \E i \in Instances : MonolithReturns(i)
  BY <1>16, <1>a, <1>b, <1>t DEF IInv, SvcInv, ErrInv, AllServices, MonolithReturns,
     Gone, lifeVars, svcVars
<1>17. \/ UNCHANGED <<svc, main, errCh, erred>>
       \/ \E i \in Instances : Start(i)
       \/ \E i \in Instances : Crash(i)
       \/ \E i \in Instances : StartServices(i)
       \/ \E i \in Instances : Listen(i)
       \/ \E i \in Instances : StartFails(i)
       \/ \E i \in Instances : MainReturns(i)
       \/ \E i \in Instances : GroupReturns(i)
       \/ \E i \in Instances : MonolithReturns(i)
       \/ \E i \in Instances, s \in Services : SendError(i, s)
       \/ \E i \in Instances, s \in Services : CancelOthers(i, s)
       \/ \E i \in Instances, s \in Services : PassEnds(i, s)
       \/ \E i \in Instances, s \in Services : SeesContext(i, s)
       \/ \E i \in Instances : CrawlTick(i)
       \/ \E i \in Instances : RankTick(i)
       \/ \E i \in Instances : ServerFails(i)
  BY Steps DEF Signal, WatcherSignalled, WatcherDone, ServeReturns, vars, lifeVars,
     svcVars
<1> QED
  BY <1>1, <1>2, <1>3, <1>4, <1>5, <1>6, <1>7, <1>8, <1>9, <1>10, <1>11, <1>12,
     <1>13, <1>14, <1>15, <1>16, <1>17

(* Every pass asks for its own partition.                                  *)
LEMMA PassStep ==
  ASSUME IInv, [Next]_vars
  PROVE  PassInv'
<1>a. /\ Instances \subseteq Ordinals /\ Services \subseteq AllServices
      /\ svc \in [Ordinals -> [AllServices -> {"select", "pass", "failed", "sent", "done"}]]
      /\ \A i \in Ordinals :
           svc[i] \in [AllServices -> {"select", "pass", "failed", "sent", "done"}]
  BY Deployed DEF IInv, TypeOK
<1>b. UNCHANGED <<deployed, kind, IsGroup, Instances, Services, Listeners>>
  BY SameDeployment
<1>t. /\ pass \in [Ordinals -> [from : Nat, to : Nat, of : Nat]]
      /\ Records \subseteq Nat /\ Ordinals \subseteq Nat
  BY OrdinalsAssumption DEF IInv, TypeOK
<1>1. CASE UNCHANGED <<svc, pass>>
  BY <1>1, <1>a, <1>b, <1>t DEF IInv, PassInv, AllServices
<1>2. CASE \E i \in Instances : Crash(i)
  <2>1. \A j \in Ordinals : svc'[j]["crawler"] = "pass" =>
          svc[j]["crawler"] = "pass" /\ pass'[j] = pass[j]
    BY <1>2, <1>a, <1>t DEF AllServices, Crash, Gone, svcVars
  <2> QED
    BY <2>1 DEF IInv, PassInv
<1>3. CASE \E i \in Instances : StartServices(i)
  <2>1. \A j \in Ordinals : svc'[j]["crawler"] = "pass" =>
          svc[j]["crawler"] = "pass" /\ pass'[j] = pass[j]
    BY <1>3, <1>a, <1>t DEF AllServices, StartServices, svcVars
  <2> QED
    BY <2>1 DEF IInv, PassInv
<1>4. CASE \E i \in Instances : StartFails(i)
  <2>1. \A j \in Ordinals : svc'[j]["crawler"] = "pass" =>
          svc[j]["crawler"] = "pass" /\ pass'[j] = pass[j]
    BY <1>4, <1>a, <1>t DEF AllServices, StartFails, Gone, svcVars
  <2> QED
    BY <2>1 DEF IInv, PassInv
<1>5. CASE \E i \in Instances : MainReturns(i)
  <2>1. \A j \in Ordinals : svc'[j]["crawler"] = "pass" =>
          svc[j]["crawler"] = "pass" /\ pass'[j] = pass[j]
    BY <1>5, <1>a, <1>t DEF AllServices, MainReturns, Gone, svcVars
  <2> QED
    BY <2>1 DEF IInv, PassInv
<1>6. CASE \E i \in Instances : MonolithReturns(i)
  <2>1. \A j \in Ordinals : svc'[j]["crawler"] = "pass" =>
          svc[j]["crawler"] = "pass" /\ pass'[j] = pass[j]
    BY <1>6, <1>a, <1>t DEF AllServices, MonolithReturns, Gone, svcVars
  <2> QED
    BY <2>1 DEF IInv, PassInv
<1>7. CASE \E i \in Instances, s \in Services : SendError(i, s)
  <2>1. \A j \in Ordinals : svc'[j]["crawler"] = "pass" =>
          svc[j]["crawler"] = "pass" /\ pass'[j] = pass[j]
    BY <1>7, <1>a, <1>t DEF AllServices, SendError, Goto, svcVars
  <2> QED
    BY <2>1 DEF IInv, PassInv
<1>8. CASE \E i \in Instances, s \in Services : CancelOthers(i, s)
  <2>1. \A j \in Ordinals : svc'[j]["crawler"] = "pass" =>
          svc[j]["crawler"] = "pass" /\ pass'[j] = pass[j]
    BY <1>8, <1>a, <1>t DEF AllServices, CancelOthers, Goto, svcVars
  <2> QED
    BY <2>1 DEF IInv, PassInv
<1>9. CASE \E i \in Instances, s \in Services : PassEnds(i, s)
  <2>1. \A j \in Ordinals : svc'[j]["crawler"] = "pass" =>
          svc[j]["crawler"] = "pass" /\ pass'[j] = pass[j]
    BY <1>9, <1>a, <1>t DEF AllServices, PassEnds, Goto, Fails, svcVars
  <2> QED
    BY <2>1 DEF IInv, PassInv
<1>10. CASE \E i \in Instances, s \in Services : SeesContext(i, s)
  <2>1. \A j \in Ordinals : svc'[j]["crawler"] = "pass" =>
          svc[j]["crawler"] = "pass" /\ pass'[j] = pass[j]
    BY <1>10, <1>a, <1>t DEF AllServices, SeesContext, Goto, svcVars
  <2> QED
    BY <2>1 DEF IInv, PassInv
<1>11. CASE \E i \in Instances : CrawlTick(i)
  <2> PICK i \in Instances : CrawlTick(i)
    BY <1>11
  <2>1. CASE svc'[i]["crawler"] # "pass"
    <3>1. \A j \in Ordinals : svc'[j]["crawler"] = "pass" =>
            svc[j]["crawler"] = "pass" /\ pass'[j] = pass[j]
      BY <1>a, <1>t, <2>1 DEF AllServices, CrawlTick, Fails, Goto, PartitionInfo
    <3> QED
      BY <3>1 DEF IInv, PassInv
  <2>2. CASE svc'[i]["crawler"] = "pass"
    <3>1. PICK n \in Records :
            /\ ~NewFullRangeFails(n) /\ ~PartitionExtentsFails(n, i)
            /\ pass' = [pass EXCEPT ![i] = [from |-> PartitionExtents(n, i)[1],
                                            to |-> PartitionExtents(n, i)[2], of |-> n]]
      BY <1>a, <2>2 DEF AllServices, CrawlTick, Fails, Goto, PartitionInfo
    <3>2. \A j \in Ordinals : j # i => svc'[j] = svc[j] /\ pass'[j] = pass[j]
      <4>1. svc' = [svc EXCEPT ![i] = [@ EXCEPT !["crawler"] = svc'[i]["crawler"]]]
        BY <1>a DEF CrawlTick, Fails, Goto
      <4> QED
        BY <1>a, <1>t, <3>1, <4>1
    <3>3. i \in Ordinals /\ i \in Nat /\ n \in Nat /\ i < n
      <4>1. i \in Ordinals /\ i \in Nat /\ n \in Nat
        BY <1>a, <1>t
      <4> QED
        BY <4>1, <3>1 DEF PartitionExtentsFails
    <3>4. pass'[i] = [from |-> PartitionExtents(n, i)[1], to |-> PartitionExtents(n, i)[2], of |-> n]
      BY <1>t, <3>1, <3>3
    <3>5. ASSUME NEW j \in Ordinals, svc'[j]["crawler"] = "pass"
          PROVE  LET m == pass'[j].of IN
                 /\ m \in Records /\ ~NewFullRangeFails(m) /\ j < m
                 /\ pass'[j].from = PartitionExtents(m, j)[1]
                 /\ pass'[j].to = PartitionExtents(m, j)[2]
      <4>1. CASE j = i
        BY <3>1, <3>3, <3>4, <4>1
      <4>2. CASE j # i
        BY <3>2, <3>5, <4>2 DEF IInv, PassInv
      <4> QED
        BY <4>1, <4>2
    <3> QED
      BY <3>5 DEF PassInv
  <2> QED
    BY <2>1, <2>2
<1>12. CASE \E i \in Instances : RankTick(i)
  <2>1. \A j \in Ordinals : svc'[j]["crawler"] = "pass" =>
          svc[j]["crawler"] = "pass" /\ pass'[j] = pass[j]
    BY <1>12, <1>a, <1>t DEF AllServices, RankTick, Goto, Fails, PartitionInfo, svcVars
  <2> QED
    BY <2>1 DEF IInv, PassInv
<1>13. CASE \E i \in Instances : ServerFails(i)
  <2>1. \A j \in Ordinals : svc'[j]["crawler"] = "pass" =>
          svc[j]["crawler"] = "pass" /\ pass'[j] = pass[j]
    BY <1>13, <1>a, <1>t DEF AllServices, ServerFails, Goto, Fails, svcVars
  <2> QED
    BY <2>1 DEF IInv, PassInv
<1>14. \/ UNCHANGED <<svc, pass>>
       \/ \E i \in Instances : Crash(i)
       \/ \E i \in Instances : StartServices(i)
       \/ \E i \in Instances : StartFails(i)
       \/ \E i \in Instances : MainReturns(i)
       \/ \E i \in Instances : MonolithReturns(i)
       \/ \E i \in Instances, s \in Services : SendError(i, s)
       \/ \E i \in Instances, s \in Services : CancelOthers(i, s)
       \/ \E i \in Instances, s \in Services : PassEnds(i, s)
       \/ \E i \in Instances, s \in Services : SeesContext(i, s)
       \/ \E i \in Instances : CrawlTick(i)
       \/ \E i \in Instances : RankTick(i)
       \/ \E i \in Instances : ServerFails(i)
  BY Steps DEF GroupReturns, Start, Signal, Listen, WatcherSignalled, WatcherDone, ServeReturns,
     vars, lifeVars, svcVars
<1> QED
  BY <1>1, <1>2, <1>3, <1>4, <1>5, <1>6, <1>7, <1>8, <1>9, <1>10, <1>11, <1>12,
     <1>13, <1>14

(* When the group's Run has returned, no service of it is left to take a   *)
(* step; and it returns what is in the channel, which is every error.      *)
LEMMA ReturnStep ==
  ASSUME IInv, [Next]_vars
  PROVE  GroupReports'
<1>a. /\ Instances \subseteq Ordinals /\ Services \subseteq AllServices
      /\ svc \in [Ordinals -> [AllServices -> {"select", "pass", "failed", "sent", "done"}]]
      /\ main \in [Ordinals -> {"exited", "setup", "listen", "running", "returned"}]
      /\ erred \in [Ordinals -> SUBSET Services] /\ report \in [Ordinals -> SUBSET Services]
  BY Deployed DEF IInv, TypeOK
<1>b. UNCHANGED <<deployed, kind, IsGroup, Instances, Services, Listeners>>
  BY SameDeployment
<1> SUFFICES ASSUME NEW i \in Ordinals, main'[i] = "returned"
             PROVE  /\ \A s \in Services : svc'[i][s] = "done"
                    /\ report'[i] = erred'[i]
  BY <1>b DEF GroupReports, Returned
<1>1. CASE main[i] # "returned"
  <2>1. GroupReturns(i)
    <3>1. PICK j \in Instances : GroupReturns(j)
      BY <1>1, <1>a, Steps DEF Start, Crash, Signal, StartServices, Listen, StartFails,
         WatcherSignalled, WatcherDone, ServeReturns, MainReturns, MonolithReturns,
         SendError, CancelOthers, PassEnds, SeesContext, CrawlTick, RankTick,
         ServerFails, Gone, vars, lifeVars
    <3>2. j = i
      BY <1>1, <1>a, <3>1 DEF GroupReturns
    <3> QED
      BY <3>1, <3>2
  <2>2. /\ IsGroup /\ main[i] = "running" /\ Returned(i) /\ report'[i] = errCh[i]
        /\ UNCHANGED <<svc, erred>>
    BY <1>a, <2>1 DEF GroupReturns, svcVars
  <2>3. {s \in AllServices : svc[i][s] = "failed"} = {}
    BY <2>2 DEF IInv, SvcInv, Returned
  <2> QED
    BY <2>2, <2>3 DEF IInv, ErrInv, Returned
<1>2. CASE main[i] = "returned"
  <2>1. /\ \A s \in AllServices : svc[i][s] = "done"
        /\ report[i] = erred[i]
    BY <1>2 DEF IInv, SvcInv, GroupReports, Returned
  <2> SUFFICES svc'[i] = svc[i] /\ report'[i] = report[i] /\ erred'[i] = erred[i]
    BY <1>a, <2>1
  <2>2. \A s \in Services : s \in AllServices
    BY <1>a
  <2>3. "crawler" \in AllServices /\ "pagerank" \in AllServices /\ "frontend" \in AllServices
    BY DEF AllServices
  <2>4. CASE UNCHANGED <<svc, report, erred>>
    BY <2>4
  <2>5. CASE \E j \in Instances : Start(j) \/ StartServices(j) \/ GroupReturns(j)
    BY <1>2, <1>a, <2>5 DEF Start, StartServices, GroupReturns, svcVars
  <2>6. CASE \E j \in Instances : Crash(j) \/ StartFails(j) \/ MainReturns(j) \/ MonolithReturns(j)
    BY <1>2, <1>a, <2>1, <2>6 DEF Crash, StartFails, MainReturns, MonolithReturns, Gone
  <2>7. CASE \E j \in Instances, s \in Services :
             SendError(j, s) \/ CancelOthers(j, s) \/ SeesContext(j, s)
    BY <1>a, <2>1, <2>2, <2>7 DEF SendError, CancelOthers, SeesContext, Goto
  <2>8. CASE \E j \in Instances, s \in Services : PassEnds(j, s)
    BY <1>a, <2>1, <2>2, <2>8 DEF PassEnds, Goto, Fails
  <2>9. CASE \E j \in Instances : CrawlTick(j)
    BY <1>a, <2>1, <2>3, <2>9 DEF CrawlTick, Goto, Fails
  <2>10. CASE \E j \in Instances : RankTick(j) \/ ServerFails(j)
    BY <1>a, <2>1, <2>3, <2>10 DEF RankTick, ServerFails, Goto, Fails
  <2>11. \/ UNCHANGED <<svc, report, erred>>
         \/ \E j \in Instances : Start(j) \/ StartServices(j) \/ GroupReturns(j)
         \/ \E j \in Instances : Crash(j) \/ StartFails(j) \/ MainReturns(j) \/ MonolithReturns(j)
         \/ \E j \in Instances, s \in Services :
              SendError(j, s) \/ CancelOthers(j, s) \/ SeesContext(j, s)
         \/ \E j \in Instances, s \in Services : PassEnds(j, s)
         \/ \E j \in Instances : CrawlTick(j)
         \/ \E j \in Instances : RankTick(j) \/ ServerFails(j)
    BY Steps DEF Signal, Listen, WatcherSignalled, WatcherDone, ServeReturns, vars, svcVars
  <2> QED
    BY <2>4, <2>5, <2>6, <2>7, <2>8, <2>9, <2>10, <2>11
<1> QED
  BY <1>1, <1>2

-----------------------------------------------------------------------------
(* Types.                                                                  *)
SvcTypes == svc \in [Ordinals -> [AllServices -> {"select", "pass", "failed", "sent", "done"}]]
LifeTypes ==
  /\ main \in [Ordinals -> {"exited", "setup", "listen", "running", "returned"}]
  /\ cancelled \in [Ordinals -> BOOLEAN]
  /\ watcher \in [Ordinals -> {"none", "watch", "signal", "context"}]
  /\ signalled \in [Ordinals -> BOOLEAN]
ServeTypes ==
  /\ serving \in [Ordinals -> SUBSET Listeners] /\ listening \in [Ordinals -> SUBSET Listeners]
  /\ \A i \in Ordinals : listening[i] \subseteq serving[i]
ErrChTypes == errCh \in [Ordinals -> SUBSET AllServices]
ErredTypes == erred \in [Ordinals -> SUBSET Services]
PassTypes == pass \in [Ordinals -> [from : Nat, to : Nat, of : Nat]]
ReportTypes == report \in [Ordinals -> SUBSET Services]

(* Processes and their watchers.                                           *)
LEMMA LifeStep ==
  ASSUME IInv, [Next]_vars
  PROVE  LifeTypes'
<1>a. LifeTypes /\ Instances \subseteq Ordinals /\ Services \subseteq AllServices
  BY Deployed DEF IInv, TypeOK, LifeTypes
<1>b. UNCHANGED <<deployed, kind, IsGroup, Instances, Services, Listeners>>
  BY SameDeployment
<1>1. CASE UNCHANGED <<main, cancelled, watcher, signalled>>
  BY <1>1, <1>a, <1>b DEF LifeTypes
<1>2. CASE \E i \in Instances : Start(i)
  BY <1>2, <1>a, <1>b DEF LifeTypes, Start, lifeVars, svcVars
<1>3. CASE \E i \in Instances : StartServices(i)
  BY <1>3, <1>a, <1>b DEF LifeTypes, StartServices, lifeVars, svcVars
<1>4. CASE \E i \in Instances : Listen(i)
  BY <1>4, <1>a, <1>b DEF LifeTypes, Listen, lifeVars, svcVars
<1>5. CASE \E i \in Instances : Signal(i)
  BY <1>5, <1>a, <1>b DEF LifeTypes, Signal, lifeVars, svcVars
<1>6. CASE \E i \in Instances : WatcherSignalled(i)
  BY <1>6, <1>a, <1>b DEF LifeTypes, WatcherSignalled, lifeVars, svcVars
<1>7. CASE \E i \in Instances : WatcherDone(i)
  BY <1>7, <1>a, <1>b DEF LifeTypes, WatcherDone, lifeVars, svcVars
<1>8. CASE \E i \in Instances, s \in Services : CancelOthers(i, s)
  BY <1>8, <1>a, <1>b DEF LifeTypes, CancelOthers, Goto, lifeVars, svcVars
<1>9. CASE \E i \in Instances : Crash(i)
  BY <1>9, <1>a, <1>b DEF LifeTypes, Crash, Gone, lifeVars, svcVars
<1>10. CASE \E i \in Instances : StartFails(i)
  BY <1>10, <1>a, <1>b DEF LifeTypes, StartFails, Gone, lifeVars, svcVars
<1>11. CASE \E i \in Instances : MainReturns(i)
  BY <1>11, <1>a, <1>b DEF LifeTypes, MainReturns, Gone, lifeVars, svcVars
<1>12. CASE \E i \in Instances : GroupReturns(i)
  BY <1>12, <1>a, <1>b DEF LifeTypes, GroupReturns, Gone, lifeVars, svcVars
<1>13. CASE \E i \in Instances : MonolithReturns(i)
  BY <1>13, <1>a, <1>b DEF LifeTypes, MonolithReturns, Gone, lifeVars, svcVars
<1>14. \/ UNCHANGED <<main, cancelled, watcher, signalled>>
       \/ \E i \in Instances : Start(i)
       \/ \E i \in Instances : StartServices(i)
       \/ \E i \in Instances : Listen(i)
       \/ \E i \in Instances : Signal(i)
       \/ \E i \in Instances : WatcherSignalled(i)
       \/ \E i \in Instances : WatcherDone(i)
       \/ \E i \in Instances, s \in Services : CancelOthers(i, s)
       \/ \E i \in Instances : Crash(i)
       \/ \E i \in Instances : StartFails(i)
       \/ \E i \in Instances : MainReturns(i)
       \/ \E i \in Instances : GroupReturns(i)
       \/ \E i \in Instances : MonolithReturns(i)
  BY Steps DEF ServeReturns, SendError, PassEnds, SeesContext, CrawlTick, RankTick,
     ServerFails, Goto, Fails, vars, lifeVars, svcVars
<1> QED
  BY <1>1, <1>2, <1>3, <1>4, <1>5, <1>6, <1>7, <1>8, <1>9, <1>10, <1>11, <1>12,
     <1>13, <1>14

(* Services.                                                               *)
LEMMA SvcTypeStep ==
  ASSUME IInv, [Next]_vars
  PROVE  SvcTypes'
<1>a. SvcTypes /\ Instances \subseteq Ordinals /\ Services \subseteq AllServices
  BY Deployed DEF IInv, TypeOK, SvcTypes
<1>b. UNCHANGED <<deployed, kind, IsGroup, Instances, Services, Listeners>>
  BY SameDeployment
<1>1. CASE UNCHANGED svc
  BY <1>1, <1>a, <1>b DEF SvcTypes, AllServices
<1>2. CASE \E i \in Instances : Crash(i)
  BY <1>2, <1>a, <1>b DEF SvcTypes, AllServices, Crash, Gone, lifeVars,
     svcVars
<1>3. CASE \E i \in Instances : StartServices(i)
  BY <1>3, <1>a, <1>b DEF SvcTypes, AllServices, StartServices, lifeVars,
     svcVars
<1>4. CASE \E i \in Instances : StartFails(i)
  BY <1>4, <1>a, <1>b DEF SvcTypes, AllServices, StartFails, Gone, lifeVars,
     svcVars
<1>5. CASE \E i \in Instances : MainReturns(i)
  BY <1>5, <1>a, <1>b DEF SvcTypes, AllServices, MainReturns, Gone, lifeVars,
     svcVars
<1>6. CASE \E i \in Instances : MonolithReturns(i)
  BY <1>6, <1>a, <1>b DEF SvcTypes, AllServices, MonolithReturns, Gone, lifeVars,
     svcVars
<1>7. CASE \E i \in Instances, s \in Services : SendError(i, s)
  BY <1>7, <1>a, <1>b DEF SvcTypes, AllServices, SendError, Goto, lifeVars,
     svcVars
<1>8. CASE \E i \in Instances, s \in Services : CancelOthers(i, s)
  BY <1>8, <1>a, <1>b DEF SvcTypes, AllServices, CancelOthers, Goto, lifeVars,
     svcVars
<1>9. CASE \E i \in Instances, s \in Services : PassEnds(i, s)
  BY <1>9, <1>a, <1>b DEF SvcTypes, AllServices, PassEnds, Goto, Fails,
     lifeVars, svcVars
<1>10. CASE \E i \in Instances, s \in Services : SeesContext(i, s)
  BY <1>10, <1>a, <1>b DEF SvcTypes, AllServices, SeesContext, Goto, lifeVars,
     svcVars
<1>11. CASE \E i \in Instances : CrawlTick(i)
  BY <1>11, <1>a, <1>b DEF SvcTypes, AllServices, CrawlTick, Goto, Fails,
     PartitionInfo, lifeVars, svcVars
<1>12. CASE \E i \in Instances : RankTick(i)
  BY <1>12, <1>a, <1>b DEF SvcTypes, AllServices, RankTick, Goto, Fails,
     PartitionInfo, lifeVars, svcVars
<1>13. CASE \E i \in Instances : ServerFails(i)
  BY <1>13, <1>a, <1>b DEF SvcTypes, AllServices, ServerFails, Goto, Fails,
     lifeVars, svcVars
<1>14. \/ UNCHANGED svc
       \/ \E i \in Instances : Crash(i)
       \/ \E i \in Instances : StartServices(i)
       \/ \E i \in Instances : StartFails(i)
       \/ \E i \in Instances : MainReturns(i)
       \/ \E i \in Instances : MonolithReturns(i)
       \/ \E i \in Instances, s \in Services : SendError(i, s)
       \/ \E i \in Instances, s \in Services : CancelOthers(i, s)
       \/ \E i \in Instances, s \in Services : PassEnds(i, s)
       \/ \E i \in Instances, s \in Services : SeesContext(i, s)
       \/ \E i \in Instances : CrawlTick(i)
       \/ \E i \in Instances : RankTick(i)
       \/ \E i \in Instances : ServerFails(i)
  BY Steps DEF GroupReturns, Start, Signal, Listen, WatcherSignalled, WatcherDone, ServeReturns,
     vars, lifeVars, svcVars
<1> QED
  BY <1>1, <1>2, <1>3, <1>4, <1>5, <1>6, <1>7, <1>8, <1>9, <1>10, <1>11, <1>12,
     <1>13, <1>14

(* Servers and listeners.                                                  *)
LEMMA ServeStep ==
  ASSUME IInv, [Next]_vars
  PROVE  ServeTypes'
<1>a. ServeTypes /\ Instances \subseteq Ordinals /\ Services \subseteq AllServices
  BY Deployed DEF IInv, TypeOK, ServeTypes
<1>b. UNCHANGED <<deployed, kind, IsGroup, Instances, Services, Listeners>>
  BY SameDeployment
<1>f. Programs[kind].first \subseteq Listeners /\ Programs[kind].last \subseteq Listeners
  BY DEF Listeners
<1>1. CASE UNCHANGED <<serving, listening>>
  BY <1>1, <1>a, <1>b, <1>f DEF ServeTypes
<1>2. CASE \E i \in Instances : StartServices(i)
  BY <1>2, <1>a, <1>b, <1>f DEF ServeTypes, StartServices, lifeVars, svcVars
<1>3. CASE \E i \in Instances : Listen(i)
  BY <1>3, <1>a, <1>b, <1>f DEF ServeTypes, Listen, lifeVars, svcVars
<1>4. CASE \E i \in Instances : WatcherSignalled(i)
  BY <1>4, <1>a, <1>b, <1>f DEF ServeTypes, WatcherSignalled, lifeVars,
     svcVars
<1>5. CASE \E i \in Instances : ServeReturns(i)
  BY <1>5, <1>a, <1>b, <1>f DEF ServeTypes, ServeReturns, lifeVars, svcVars
<1>6. CASE \E i \in Instances : Crash(i)
  BY <1>6, <1>a, <1>b, <1>f DEF ServeTypes, Crash, Gone, lifeVars, svcVars
<1>7. CASE \E i \in Instances : StartFails(i)
  BY <1>7, <1>a, <1>b, <1>f DEF ServeTypes, StartFails, Gone, lifeVars,
     svcVars
<1>8. CASE \E i \in Instances : MainReturns(i)
  BY <1>8, <1>a, <1>b, <1>f DEF ServeTypes, MainReturns, Gone, lifeVars,
     svcVars
<1>9. CASE \E i \in Instances : MonolithReturns(i)
  BY <1>9, <1>a, <1>b, <1>f DEF ServeTypes, MonolithReturns, Gone, lifeVars,
     svcVars
<1>10. \/ UNCHANGED <<serving, listening>>
       \/ \E i \in Instances : StartServices(i)
       \/ \E i \in Instances : Listen(i)
       \/ \E i \in Instances : WatcherSignalled(i)
       \/ \E i \in Instances : ServeReturns(i)
       \/ \E i \in Instances : Crash(i)
       \/ \E i \in Instances : StartFails(i)
       \/ \E i \in Instances : MainReturns(i)
       \/ \E i \in Instances : MonolithReturns(i)
  BY Steps DEF GroupReturns, Start, Signal, WatcherDone, SendError, CancelOthers, PassEnds,
     SeesContext, CrawlTick, RankTick, ServerFails, Goto, Fails, vars, lifeVars,
     svcVars
<1> QED
  BY <1>1, <1>2, <1>3, <1>4, <1>5, <1>6, <1>7, <1>8, <1>9, <1>10

(* Errors in the channel.                                                  *)
LEMMA ErrChStep ==
  ASSUME IInv, [Next]_vars
  PROVE  ErrChTypes'
<1>a. ErrChTypes /\ Instances \subseteq Ordinals /\ Services \subseteq AllServices
  BY Deployed DEF IInv, TypeOK, ErrChTypes
<1>b. UNCHANGED <<deployed, kind, IsGroup, Instances, Services, Listeners>>
  BY SameDeployment
<1>1. CASE UNCHANGED errCh
  BY <1>1, <1>a, <1>b DEF ErrChTypes
<1>2. CASE \E i \in Instances : Start(i)
  BY <1>2, <1>a, <1>b DEF ErrChTypes, Start, lifeVars, svcVars
<1>3. CASE \E i \in Instances, s \in Services : SendError(i, s)
  BY <1>3, <1>a, <1>b DEF ErrChTypes, SendError, Goto, lifeVars, svcVars
<1>4. \/ UNCHANGED errCh
      \/ \E i \in Instances : Start(i)
      \/ \E i \in Instances, s \in Services : SendError(i, s)
  BY Steps DEF MonolithReturns, Crash, Signal, StartServices, Listen, StartFails, WatcherSignalled,
     WatcherDone, ServeReturns, MainReturns, GroupReturns, CancelOthers, PassEnds,
     SeesContext, CrawlTick, RankTick, ServerFails, Gone, Goto, Fails, vars,
     lifeVars, svcVars
<1> QED
  BY <1>1, <1>2, <1>3, <1>4

(* Services that failed.                                                   *)
LEMMA ErredStep ==
  ASSUME IInv, [Next]_vars
  PROVE  ErredTypes'
<1>a. ErredTypes /\ Instances \subseteq Ordinals /\ Services \subseteq AllServices
  BY Deployed DEF IInv, TypeOK, ErredTypes
<1>b. UNCHANGED <<deployed, kind, IsGroup, Instances, Services, Listeners>>
  BY SameDeployment
<1>f. \A i \in Ordinals : \A s \in AllServices : svc[i][s] # "done" => s \in Services
  BY DEF IInv, SvcInv
<1>1. CASE UNCHANGED erred
  BY <1>1, <1>a, <1>b, <1>f DEF ErredTypes, AllServices
<1>2. CASE \E i \in Instances : Start(i)
  BY <1>2, <1>a, <1>b, <1>f DEF ErredTypes, AllServices, Start, lifeVars,
     svcVars
<1>3. CASE \E i \in Instances, s \in Services : PassEnds(i, s)
  BY <1>3, <1>a, <1>b, <1>f DEF ErredTypes, AllServices, PassEnds, Goto,
     Fails, lifeVars, svcVars
<1>4. CASE \E i \in Instances : CrawlTick(i)
  BY <1>4, <1>a, <1>b, <1>f DEF ErredTypes, AllServices, CrawlTick, Goto,
     Fails, PartitionInfo, lifeVars, svcVars
<1>5. CASE \E i \in Instances : RankTick(i)
  BY <1>5, <1>a, <1>b, <1>f DEF ErredTypes, AllServices, RankTick, Goto,
     Fails, PartitionInfo, lifeVars, svcVars
<1>6. CASE \E i \in Instances : ServerFails(i)
  BY <1>6, <1>a, <1>b, <1>f DEF ErredTypes, AllServices, ServerFails, Goto,
     Fails, lifeVars, svcVars
<1>7. CASE \E i \in Instances, s \in Services : SendError(i, s)
  BY <1>7, <1>a, <1>b, <1>f DEF ErredTypes, AllServices, SendError, Goto,
     lifeVars, svcVars
<1>8. CASE \E i \in Instances, s \in Services : CancelOthers(i, s)
  BY <1>8, <1>a, <1>b, <1>f DEF ErredTypes, AllServices, CancelOthers, Goto,
     lifeVars, svcVars
<1>9. CASE \E i \in Instances : Crash(i)
  BY <1>9, <1>a, <1>b, <1>f DEF ErredTypes, AllServices, Crash, Gone,
     lifeVars, svcVars
<1>10. CASE \E i \in Instances : StartFails(i)
  BY <1>10, <1>a, <1>b, <1>f DEF ErredTypes, AllServices, StartFails, Gone,
     lifeVars, svcVars
<1>11. CASE \E i \in Instances : MainReturns(i)
  BY <1>11, <1>a, <1>b, <1>f DEF ErredTypes, AllServices, MainReturns, Gone,
     lifeVars, svcVars
<1>12. CASE \E i \in Instances : GroupReturns(i)
  BY <1>12, <1>a, <1>b, <1>f DEF ErredTypes, AllServices, GroupReturns, Gone,
     lifeVars, svcVars
<1>13. CASE \E i \in Instances : MonolithReturns(i)
  BY <1>13, <1>a, <1>b, <1>f DEF ErredTypes, AllServices, MonolithReturns, Gone,
     lifeVars, svcVars
<1>14. \/ UNCHANGED erred
       \/ \E i \in Instances : Start(i)
       \/ \E i \in Instances, s \in Services : PassEnds(i, s)
       \/ \E i \in Instances : CrawlTick(i)
       \/ \E i \in Instances : RankTick(i)
       \/ \E i \in Instances : ServerFails(i)
       \/ \E i \in Instances, s \in Services : SendError(i, s)
       \/ \E i \in Instances, s \in Services : CancelOthers(i, s)
       \/ \E i \in Instances : Crash(i)
       \/ \E i \in Instances : StartFails(i)
       \/ \E i \in Instances : MainReturns(i)
       \/ \E i \in Instances : GroupReturns(i)
       \/ \E i \in Instances : MonolithReturns(i)
  BY Steps DEF Signal, StartServices, Listen, WatcherSignalled, WatcherDone,
     ServeReturns, SeesContext, Goto, vars, lifeVars, svcVars
<1> QED
  BY <1>1, <1>2, <1>3, <1>4, <1>5, <1>6, <1>7, <1>8, <1>9, <1>10, <1>11, <1>12,
     <1>13, <1>14

(* Passes.                                                                 *)
LEMMA PassTypeStep ==
  ASSUME IInv, [Next]_vars
  PROVE  PassTypes'
<1>a. PassTypes /\ Instances \subseteq Ordinals /\ Services \subseteq AllServices
  BY Deployed DEF IInv, TypeOK, PassTypes
<1>b. UNCHANGED <<deployed, kind, IsGroup, Instances, Services, Listeners>>
  BY SameDeployment
<1>1. CASE UNCHANGED pass
  BY <1>1, <1>a, <1>b DEF PassTypes, NoPass
<1>2. CASE \E i \in Instances, s \in Services : PassEnds(i, s)
  BY <1>2, <1>a, <1>b DEF PassTypes, NoPass, PassEnds, Goto, Fails, lifeVars,
     svcVars
<1>3. CASE \E i \in Instances : CrawlTick(i)
  <2> PICK i \in Instances : CrawlTick(i)
    BY <1>3
  <2>1. i \in Ordinals /\ i \in Nat /\ Records \subseteq Nat
    BY <1>a, OrdinalsAssumption
  <2>2. CASE pass' = [pass EXCEPT ![i] = NoPass]
    BY <1>a, <2>2 DEF PassTypes, NoPass
  <2>3. ASSUME NEW n \in Records, ~NewFullRangeFails(n), ~PartitionExtentsFails(n, i),
               pass' = [pass EXCEPT ![i] = [from |-> PartitionExtents(n, i)[1],
                                            to |-> PartitionExtents(n, i)[2], of |-> n]]
        PROVE  PassTypes'
    <3>1. n \in Nat /\ i \in 0..(n - 1)
      BY <2>1, <2>3 DEF PartitionExtentsFails
    <3>2. PartitionExtents(n, i)[1] \in IDs /\ PartitionExtents(n, i)[2] \in IDs
      BY <2>3, <3>1, ExtentsInRange
    <3>3. /\ PartitionExtents(n, i)[1] \in Nat /\ PartitionExtents(n, i)[2] \in Nat
      BY <3>2, SizeAssumption DEF IDs
    <3> QED
      BY <1>a, <2>3, <3>1, <3>3 DEF PassTypes
  <2> QED
    BY <2>2, <2>3 DEF CrawlTick, Fails, PartitionInfo
<1>4. CASE \E i \in Instances : ServerFails(i)
  BY <1>4, <1>a, <1>b DEF PassTypes, NoPass, ServerFails, Goto, Fails,
     lifeVars, svcVars
<1>5. CASE \E i \in Instances : RankTick(i)
  BY <1>5, <1>a, <1>b DEF PassTypes, NoPass, RankTick, Goto, Fails,
     PartitionInfo, lifeVars, svcVars
<1>6. CASE \E i \in Instances : Crash(i)
  BY <1>6, <1>a, <1>b DEF PassTypes, NoPass, Crash, Gone, lifeVars, svcVars
<1>7. CASE \E i \in Instances : StartFails(i)
  BY <1>7, <1>a, <1>b DEF PassTypes, NoPass, StartFails, Gone, lifeVars,
     svcVars
<1>8. CASE \E i \in Instances : MainReturns(i)
  BY <1>8, <1>a, <1>b DEF PassTypes, NoPass, MainReturns, Gone, lifeVars,
     svcVars
<1>9. CASE \E i \in Instances : MonolithReturns(i)
  BY <1>9, <1>a, <1>b DEF PassTypes, NoPass, MonolithReturns, Gone, lifeVars,
     svcVars
<1>10. \/ UNCHANGED pass
       \/ \E i \in Instances, s \in Services : PassEnds(i, s)
       \/ \E i \in Instances : CrawlTick(i)
       \/ \E i \in Instances : ServerFails(i)
       \/ \E i \in Instances : RankTick(i)
       \/ \E i \in Instances : Crash(i)
       \/ \E i \in Instances : StartFails(i)
       \/ \E i \in Instances : MainReturns(i)
       \/ \E i \in Instances : MonolithReturns(i)
  BY Steps DEF GroupReturns, Start, Signal, StartServices, Listen, WatcherSignalled, WatcherDone,
     ServeReturns, SendError, CancelOthers, SeesContext, Goto, vars, lifeVars,
     svcVars
<1> QED
  BY <1>1, <1>2, <1>3, <1>4, <1>5, <1>6, <1>7, <1>8, <1>9, <1>10

(* Reports.                                                                *)
LEMMA ReportStep ==
  ASSUME IInv, [Next]_vars
  PROVE  ReportTypes'
<1>a. ReportTypes /\ Instances \subseteq Ordinals /\ Services \subseteq AllServices
  BY Deployed DEF IInv, TypeOK, ReportTypes
<1>b. UNCHANGED <<deployed, kind, IsGroup, Instances, Services, Listeners>>
  BY SameDeployment
<1>f. ASSUME NEW i \in Ordinals, IsGroup, main[i] = "running"
      PROVE  errCh[i] \in SUBSET Services
  BY <1>f DEF IInv, TypeOK, ErrInv
<1>1. CASE UNCHANGED report
  BY <1>1, <1>a, <1>b, <1>f DEF ReportTypes
<1>2. CASE \E i \in Instances : Start(i)
  BY <1>2, <1>a, <1>b, <1>f DEF ReportTypes, Start, lifeVars, svcVars
<1>3. CASE \E i \in Instances : GroupReturns(i)
  BY <1>3, <1>a, <1>b, <1>f DEF ReportTypes, GroupReturns, Gone, lifeVars,
     svcVars
<1>4. \/ UNCHANGED report
      \/ \E i \in Instances : Start(i)
      \/ \E i \in Instances : GroupReturns(i)
  BY Steps DEF MonolithReturns, Crash, Signal, StartServices, Listen, StartFails, WatcherSignalled,
     WatcherDone, ServeReturns, MainReturns, SendError, CancelOthers, PassEnds,
     SeesContext, CrawlTick, RankTick, ServerFails, Gone, Goto, Fails, vars,
     lifeVars, svcVars
<1> QED
  BY <1>1, <1>2, <1>3, <1>4

(* Together: types hold in the next state.                                 *)
LEMMA TypeStep ==
  ASSUME IInv, [Next]_vars
  PROVE  TypeOK'
  BY LifeStep, SvcTypeStep, ServeStep, ErrChStep, ErredStep, PassTypeStep, ReportStep
     DEF TypeOK, LifeTypes, SvcTypes, ServeTypes, ErrChTypes, ErredTypes, PassTypes,
         ReportTypes

-----------------------------------------------------------------------------
(* Theorems.                                                               *)

(* The invariant holds when the processes start.                           *)
LEMMA InitInv == Init => IInv
<1> SUFFICES ASSUME Init PROVE IInv
  OBVIOUS
<1>1. TypeOK
  <2>1. NoPass \in [from : Nat, to : Nat, of : Nat]
    BY DEF NoPass
  <2>2. /\ cancelled \in [Ordinals -> BOOLEAN] /\ signalled \in [Ordinals -> BOOLEAN]
    BY DEF Init
  <2> QED
    BY <2>1, <2>2 DEF Init, TypeOK
<1>2. SvcInv /\ ErrInv /\ PassInv /\ GroupReports
  <2>1. "crawler" \in AllServices
    BY DEF AllServices
  <2> QED
    BY <2>1 DEF Init, SvcInv, ErrInv, PassInv, GroupReports
<1> QED
  BY <1>1, <1>2 DEF IInv, Init

(* The invariant is inductive.                                             *)
LEMMA Inductive == IInv /\ [Next]_vars => IInv'
<1> SUFFICES ASSUME IInv, [Next]_vars PROVE IInv'
  OBVIOUS
<1>1. (deployed \in Deployments)'
  BY SameDeployment DEF IInv
<1> QED
  BY <1>1, TypeStep, SvcStep, ErrStep, PassStep, ReturnStep DEF IInv

(* So it holds in every state.                                             *)
THEOREM Invariance == Spec => []IInv
  BY Inductive, InitInv, PTL DEF Spec

(* Types: open listeners belong to servers that are still serving, and     *)
(* only services of the program fail (main.go of each program).            *)
THEOREM TypeCorrect == Spec => []TypeOK
<1>1. IInv => TypeOK
  BY DEF IInv
<1> QED
  BY <1>1, Invariance, PTL

(* However many instances there are, whatever DNS answered them and        *)
(* whenever they were restarted: passes that counted the same number of    *)
(* partitions share no link, and as many of them as they counted share out *)
(* all links but one of the largest ID (range.go 39-52, service.go         *)
(* 157-171).                                                               *)
THEOREM PassesPartition == Spec => []CrawlsPartition
<1>1. IInv => CrawlsPartition
  <2> SUFFICES ASSUME IInv, NEW n \in Records
               PROVE  /\ \A i \in InPass(n), j \in InPass(n) :
                           i # j => Share(i) \cap Share(j) = {}
                      /\ n > 0 /\ Cardinality(InPass(n)) = n =>
                           UNION {Share(i) : i \in InPass(n)} = IDs \ {MaxUUID}
    BY DEF CrawlsPartition
  <2>1. n \in Nat
    BY OrdinalsAssumption
  <2>2. ASSUME NEW i \in InPass(n)
        PROVE  /\ i \in 0..(n - 1) /\ ~NewFullRangeFails(n)
               /\ pass[i].from = PartitionExtents(n, i)[1]
               /\ pass[i].to = PartitionExtents(n, i)[2]
    <3>1. i \in Ordinals /\ i \in Nat /\ svc[i]["crawler"] = "pass" /\ pass[i].of = n
      BY Deployed, OrdinalsAssumption DEF IInv, InPass
    <3> QED
      BY <2>1, <3>1 DEF IInv, PassInv
  <2>3. ASSUME NEW i \in InPass(n), NEW j \in InPass(n), i < j
        PROVE  Share(i) \cap Share(j) = {}
    <3>1. /\ i \in 0..(n - 1) /\ j \in 0..(n - 1) /\ ~NewFullRangeFails(n)
          /\ pass[i].to = PartitionExtents(n, i)[2]
          /\ pass[j].from = PartitionExtents(n, j)[1]
      BY <2>2
    <3>2. PartitionExtents(n, i)[2] <= PartitionExtents(n, j)[1]
      BY <2>1, <2>3, <3>1, Apart
    <3>3. PartitionExtents(n, i)[2] \in Int /\ PartitionExtents(n, j)[1] \in Int
      BY <2>1, <3>1, ExtentsInRange DEF IDs
    <3>4. ASSUME NEW x \in Share(i), x \in Share(j)
          PROVE  FALSE
      <4>1. x \in Int /\ x < pass[i].to /\ pass[j].from <= x
        BY <3>4 DEF Share, IDs
      <4> QED
        BY <3>1, <3>2, <3>3, <4>1
    <3> QED
      BY <3>4
  <2>4. ASSUME NEW i \in InPass(n), NEW j \in InPass(n), i # j
        PROVE  Share(i) \cap Share(j) = {}
    <3>1. i \in Int /\ j \in Int
      BY <2>1, <2>2
    <3>2. i < j \/ j < i
      BY <2>4, <3>1
    <3> QED
      BY <3>2, <2>3
  <2>5. ASSUME n > 0, Cardinality(InPass(n)) = n
        PROVE  UNION {Share(i) : i \in InPass(n)} = IDs \ {MaxUUID}
    <3>1. InPass(n) = 0..(n - 1)
      <4>1. InPass(n) \subseteq 0..(n - 1)
        BY <2>2
      <4>2. IsFiniteSet(0..(n - 1)) /\ Cardinality(0..(n - 1)) = n
        BY <2>1, <2>5, FS_Interval
      <4> QED
        BY <2>5, <4>1, <4>2, FS_Subset
    <3>2. 0 \in InPass(n) /\ ~NewFullRangeFails(n)
      BY <2>1, <2>2, <2>5, <3>1
    <3>3. MaxUUID \in Nat /\ IDs = 0..MaxUUID
      BY <2>1, <3>2, SizeFacts DEF IDs, MaxUUID
    <3>4. ASSUME NEW i \in InPass(n), NEW x \in Share(i)
          PROVE  x \in IDs \ {MaxUUID}
      <4>1. x \in IDs /\ x < pass[i].to /\ pass[i].to \in IDs
        BY <2>1, <2>2, ExtentsInRange DEF Share
      <4> QED
        BY <3>3, <4>1
    <3>5. ASSUME NEW x \in IDs \ {MaxUUID}
          PROVE  \E i \in InPass(n) : x \in Share(i)
      <4>1. x \in Nat /\ x < MaxUUID
        BY <3>3
      <4>2. PICK i \in 0..(n - 1) :
              PartitionExtents(n, i)[1] <= x /\ x < PartitionExtents(n, i)[2]
        BY <2>1, <3>2, <4>1, Covered
      <4> QED
        BY <2>2, <3>1, <4>2 DEF Share
    <3> QED
      BY <3>4, <3>5
  <2> QED
    BY <2>4, <2>5
<1> QED
  BY <1>1, Invariance, PTL

(* Whoever failed first and however many did: when the Run of a group has  *)
(* returned, its services have, and it reports the errors of exactly those *)
(* that failed; it returns nil only if none did (service.go 36-62).        *)
THEOREM GroupReportsAll == Spec => []GroupReports
<1>1. IInv => GroupReports
  BY DEF IInv
<1> QED
  BY <1>1, Invariance, PTL
=============================================================================
