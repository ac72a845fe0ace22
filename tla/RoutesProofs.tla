----------------------------- MODULE RoutesProofs -----------------------------
(***************************************************************************)
(* Proofs about the two clients of MCRoutes: the one that asks the agent,  *)
(* for every set of services and nodes and every threshold and expiry; and *)
(* the one that asks the registry, for every finite set of nodes, every    *)
(* threshold of the breaker and every expiry.                              *)
(***************************************************************************)
EXTENDS MCRoutes, Sequences, FiniteSetTheorems, TLAPS

(* The count of failures starts anew with each verdict against the agent.  *)
NotCountedTwice == ~available => failedNum = 0

IInv == TypeOK /\ UnavailableHasProbe /\ UnavailableHasReason /\ NotCountedTwice

(* What the verdict rests on: the part of the invariant that says nothing  *)
(* of the lists.                                                           *)
Verdict == /\ available \in BOOLEAN
           /\ failedNum \in 0 .. AGENT_FAIL_THRESHOLD - 1
           /\ misses \in 0 .. AGENT_FAIL_THRESHOLD
           /\ UnavailableHasReason
           /\ NotCountedTwice

LEMMA InvVerdict == IInv => Verdict
    BY DEF IInv, Verdict, TypeOK

(* One more unanswered request keeps the verdict justified.                *)
LEMMA CountedVerdict ==
    ASSUME Verdict, available, Unanswered, AddFailedNumAndCheckAvailable
    PROVE  Verdict'
<1> USE AgentAssumption DEF Verdict, UnavailableHasReason, NotCountedTwice
<1>1. /\ failedNum \in Nat /\ misses \in Nat /\ AGENT_FAIL_THRESHOLD \in Nat
      /\ failedNum <= misses /\ misses <= AGENT_FAIL_THRESHOLD
      /\ 0 < AGENT_FAIL_THRESHOLD
    OBVIOUS
<1>2. misses' = IF misses < AGENT_FAIL_THRESHOLD THEN misses + 1 ELSE misses
    BY DEF Unanswered
<1>3. CASE failedNum + 1 >= AGENT_FAIL_THRESHOLD
    <2>1. available' = FALSE /\ failedNum' = 0
        BY <1>3, Zenon DEF AddFailedNumAndCheckAvailable
    <2>2. misses' = AGENT_FAIL_THRESHOLD
        BY <1>1, <1>2, <1>3
    <2>3. /\ UnavailableHasReason' /\ NotCountedTwice'
          /\ failedNum' \in 0 .. AGENT_FAIL_THRESHOLD - 1
          /\ misses' \in 0 .. AGENT_FAIL_THRESHOLD
        BY <1>1, <2>1, <2>2
    <2>4. available' \in BOOLEAN
        BY <2>1
    <2>5. QED
        BY <2>3, <2>4
<1>4. CASE ~(failedNum + 1 >= AGENT_FAIL_THRESHOLD)
    <2>1. available' = available /\ failedNum' = failedNum + 1
        BY <1>4, Zenon DEF AddFailedNumAndCheckAvailable
    <2>2. misses' \in 0 .. AGENT_FAIL_THRESHOLD /\ failedNum + 1 <= misses'
        BY <1>1, <1>2
    <2>3. failedNum + 1 \in 0 .. AGENT_FAIL_THRESHOLD - 1
        BY <1>1, <1>4
    <2>4. available'
        BY <2>1
    <2>5. /\ UnavailableHasReason' /\ NotCountedTwice'
          /\ failedNum' \in 0 .. AGENT_FAIL_THRESHOLD - 1
        BY <2>1, <2>2, <2>3, <2>4
    <2>6. QED
        BY <2>1, <2>2, <2>4, <2>5
<1>5. QED
    BY <1>3, <1>4

(* An unanswered request that is not counted: the misses only grow.        *)
LEMMA UncountedVerdict ==
    ASSUME Verdict, UNCHANGED <<available, failedNum>>,
           Unanswered \/ UNCHANGED misses
    PROVE  Verdict'
    BY AgentAssumption
    DEF Verdict, UnavailableHasReason, NotCountedTwice, Unanswered

(* A fresh provider, or one that was just answered.                        *)
LEMMA ResetVerdict ==
    ASSUME available' = TRUE, failedNum' = 0, misses' = 0
    PROVE  Verdict'
    BY AgentAssumption DEF Verdict, UnavailableHasReason, NotCountedTwice

(* The lists, their expiry, the files and the answer.                      *)
Data == /\ agentUp \in BOOLEAN
        /\ agentList \in [Services -> Lists]
        /\ mem \in [Services -> Lists]
        /\ expireIn \in [Services -> -1 .. LongExpire]
        /\ disk \in [Services -> Lists]
        /\ result \in [service : Services, ret : {0, -1, -2}, nodes : Lists]

LEMMA InvParts == IInv <=> Data /\ Verdict /\ UnavailableHasProbe
    BY DEF IInv, TypeOK, Data, Verdict

LEMMA AnswerType ==
    ASSUME NEW s \in Services, NEW r \in {0, -1, -2}, NEW list \in Lists
    PROVE  Answer(s, r, list) \in [service : Services, ret : {0, -1, -2}, nodes : Lists]
    BY DEF Answer

LEMMA ExpiryType ==
    ASSUME Data, NEW s \in Services, NEW t \in {ShortExpire, NormalExpire, LongExpire},
           ExpireAfter(s, t)
    PROVE  expireIn' \in [Services -> -1 .. LongExpire]
    BY AgentAssumption DEF Data, ExpireAfter

LEMMA InitInv == Init => IInv
<1> SUFFICES ASSUME Init PROVE IInv
    OBVIOUS
<1>1. {} \in Lists
    BY DEF Lists
<1>2. Data
    BY <1>1, AgentAssumption, AnswerType DEF Init, Data
<1>3. Verdict /\ UnavailableHasProbe
    BY AgentAssumption
    DEF Init, Verdict, UnavailableHasReason, NotCountedTwice, UnavailableHasProbe
<1>4. QED
    BY <1>2, <1>3, InvParts

LEMMA AnsweredInv ==
    ASSUME IInv, NEW s \in Services, Answered(s)
    PROVE  IInv'
<1>1. Data
    BY InvParts
<1>2. agentList[s] \in Lists
    BY <1>1 DEF Data
<1>3. result' \in [service : Services, ret : {0, -1, -2}, nodes : Lists]
    BY <1>2, AnswerType DEF Answered
<1>4. Data'
    BY <1>1, <1>2, <1>3, ExpiryType DEF Answered, Data
<1>5. Verdict'
    BY ResetVerdict DEF Answered
<1>6. UnavailableHasProbe'
    BY DEF Answered, UnavailableHasProbe
<1>7. QED
    BY <1>4, <1>5, <1>6, InvParts DEF IInv, TypeOK, Data, Verdict

LEMMA StaleInv ==
    ASSUME IInv, NEW s \in Services, Stale(s)
    PROVE  IInv'
<1>1. Data /\ Verdict
    BY InvParts
<1>2. Data'
    <2>1. mem[s] \in Lists
        BY <1>1 DEF Data
    <2>2. result' \in [service : Services, ret : {0, -1, -2}, nodes : Lists]
        BY <2>1, AnswerType DEF Stale
    <2>3. expireIn' \in [Services -> -1 .. LongExpire]
        BY <1>1, ExpiryType DEF Stale
    <2>4. QED
        BY <1>1, <2>2, <2>3 DEF Stale, Data
<1>3. Verdict'
    <2>1. CASE available
        BY <1>1, <2>1, CountedVerdict DEF Stale
    <2>2. CASE ~available
        BY <1>1, <2>2, UncountedVerdict DEF Stale
    <2>3. QED
        BY <2>1, <2>2
<1>4. UnavailableHasProbe'
    BY DEF Stale, InMemory, UnavailableHasProbe
<1>5. QED
    BY <1>2, <1>3, <1>4 DEF IInv, TypeOK, Data, Verdict

LEMMA FetchFailedInv ==
    ASSUME IInv, NEW s \in Services, FetchFailed(s)
    PROVE  IInv'
<1>1. Data /\ Verdict
    BY InvParts
<1>2. Data'
    <2>1. disk[s] \in Lists
        BY <1>1 DEF Data
    <2>2. result' \in [service : Services, ret : {0, -1, -2}, nodes : Lists]
        BY <2>1, AnswerType DEF FetchFailed
    <2>3. expireIn' \in [Services -> -1 .. LongExpire]
        BY <1>1, ExpiryType DEF FetchFailed
    <2>4. QED
        BY <1>1, <2>1, <2>2, <2>3 DEF FetchFailed, Data
<1>3. Verdict'
    BY <1>1, CountedVerdict DEF FetchFailed
<1>4. UnavailableHasProbe'
    BY <1>1 DEF FetchFailed, Data, UnavailableHasProbe
<1>5. QED
    BY <1>2, <1>3, <1>4 DEF IInv, TypeOK, Data, Verdict

LEMMA NotFoundInv ==
    ASSUME IInv, NEW s \in Services, NotFound(s)
    PROVE  IInv'
<1>1. Data /\ Verdict
    BY InvParts
<1>2. Data'
    <2>1. result' \in [service : Services, ret : {0, -1, -2}, nodes : Lists]
        BY AnswerType DEF NotFound, Lists
    <2>2. QED
        BY <1>1, <2>1 DEF NotFound, Data
<1>3. Verdict'
    BY <1>1, UncountedVerdict DEF NotFound
<1>4. UnavailableHasProbe'
    BY DEF NotFound, UnavailableHasProbe, IInv
<1>5. QED
    BY <1>2, <1>3, <1>4 DEF IInv, TypeOK, Data, Verdict

LEMMA FromDiskInv ==
    ASSUME IInv, NEW s \in Services, FromDisk(s)
    PROVE  IInv'
<1>1. Data /\ Verdict
    BY InvParts
<1>2. Data'
    <2>1. disk[s] \in Lists
        BY <1>1 DEF Data
    <2>2. result' \in [service : Services, ret : {0, -1, -2}, nodes : Lists]
        BY <2>1, AnswerType DEF FromDisk
    <2>3. expireIn' \in [Services -> -1 .. LongExpire]
        BY <1>1, ExpiryType DEF FromDisk
    <2>4. QED
        BY <1>1, <2>1, <2>2, <2>3 DEF FromDisk, Data
<1>3. Verdict'
    BY <1>1, UncountedVerdict DEF FromDisk
<1>4. UnavailableHasProbe'
    BY <1>1 DEF FromDisk, Data, UnavailableHasProbe
<1>5. QED
    BY <1>2, <1>3, <1>4 DEF IInv, TypeOK, Data, Verdict

LEMMA FromMemoryInv ==
    ASSUME IInv, NEW s \in Services, FromMemory(s)
    PROVE  IInv'
<1>1. Data
    BY InvParts
<1>2. result' \in [service : Services, ret : {0, -1, -2}, nodes : Lists]
    BY <1>1, AnswerType DEF FromMemory, Data
<1>3. QED
    BY <1>2 DEF FromMemory, IInv, TypeOK, UnavailableHasProbe,
                UnavailableHasReason, NotCountedTwice

LEMMA GetRoutersInv ==
    ASSUME IInv, NEW s \in Services, GetRouters(s)
    PROVE  IInv'
<1>1. CASE FromMemory(s)
    BY <1>1, FromMemoryInv
<1>2. CASE Expired(s) \/ Fetch(s)
    BY <1>2, AnsweredInv DEF Expired, Fetch
<1>3. CASE Stale(s)
    BY <1>3, StaleInv
<1>4. CASE FetchFailed(s)
    BY <1>4, FetchFailedInv
<1>5. CASE NotFound(s)
    BY <1>5, NotFoundInv
<1>6. CASE FromDisk(s)
    BY <1>6, FromDiskInv
<1>7. QED
    BY <1>1, <1>2, <1>3, <1>4, <1>5, <1>6 DEF GetRouters

LEMMA RestartInv == ASSUME IInv, Restart PROVE IInv'
<1>1. Data'
    BY AgentAssumption, InvParts DEF Restart, Data, Lists
<1>2. Verdict'
    BY ResetVerdict DEF Restart
<1>3. QED
    BY <1>1, <1>2
    DEF Restart, IInv, TypeOK, Data, Verdict, UnavailableHasProbe

LEMMA AgentChangesInv == ASSUME IInv, AgentChanges PROVE IInv'
<1>1. agentUp' \in BOOLEAN /\ agentList' \in [Services -> Lists]
    BY DEF AgentChanges, IInv, TypeOK
<1>2. QED
    BY <1>1 DEF AgentChanges, IInv, TypeOK, UnavailableHasProbe,
                UnavailableHasReason, NotCountedTwice

LEMMA TickInv == ASSUME IInv, Tick PROVE IInv'
<1>1. expireIn' \in [Services -> -1 .. LongExpire]
    BY AgentAssumption DEF Tick, IsExpired, IInv, TypeOK
<1>2. QED
    BY <1>1 DEF Tick, IInv, TypeOK, UnavailableHasProbe,
                UnavailableHasReason, NotCountedTwice

LEMMA NextInv == ASSUME IInv, [Next]_vars PROVE IInv'
<1>1. CASE \E s \in Services : GetRouters(s)
    BY <1>1, GetRoutersInv
<1>2. CASE Restart
    BY <1>2, RestartInv
<1>3. CASE AgentChanges
    BY <1>3, AgentChangesInv
<1>4. CASE Tick
    BY <1>4, TickInv
<1>5. CASE UNCHANGED vars
    BY <1>5 DEF vars, IInv, TypeOK, UnavailableHasProbe,
                UnavailableHasReason, NotCountedTwice
<1>6. QED
    BY <1>1, <1>2, <1>3, <1>4, <1>5 DEF Next

THEOREM Invariance == Spec => []IInv
<1>1. Init => IInv
    BY InitInv
<1>2. IInv /\ [Next]_vars => IInv'
    BY NextInv
<1>3. QED
    BY <1>1, <1>2, PTL DEF Spec

(* For any number of services, a client that has given up on its agent     *)
(* still has a list whose expiry will make it ask again (getRouterNormal). *)
THEOREM ProbeRemains == Spec => []UnavailableHasProbe
    BY Invariance, PTL DEF IInv

(* For any threshold, the agent is given up only after that many           *)
(* unanswered requests in a row (addFailedNumAndCheckAvailable).           *)
THEOREM VerdictHasReason == Spec => []UnavailableHasReason
    BY Invariance, PTL DEF IInv

(* A service with nodes in memory or on disk is answered, unless the agent *)
(* itself says that it has none (getRouterNormal).                         *)
LEMMA AgentAnswers ==
    IInv /\ [Next]_vars
      => [\A s \in Services :
             GetRouters(s) /\ (mem[s] # {} \/ disk[s] # {})
                => result'.ret = 0 \/ (agentUp /\ agentList[s] = {})]_vars
<1> SUFFICES ASSUME NEW s \in Services, GetRouters(s), mem[s] # {} \/ disk[s] # {}
             PROVE  result'.ret = 0 \/ (agentUp /\ agentList[s] = {})
    OBVIOUS
<1>1. ASSUME Answered(s)
      PROVE  result'.ret = 0 \/ (agentUp /\ agentList[s] = {})
    BY <1>1 DEF Answered, Answer
<1>2. CASE FromMemory(s) \/ Stale(s) \/ FetchFailed(s) \/ FromDisk(s)
    BY <1>2 DEF FromMemory, Stale, FetchFailed, FromDisk, Answer
<1>3. CASE NotFound(s)
    BY <1>3 DEF NotFound, InMemory
<1> QED
    BY <1>1, <1>2, <1>3 DEF GetRouters, Expired, Fetch

-----------------------------------------------------------------------------
(* The client that asks the registry (RegistryRouter).                     *)

(* The library's finite sets, seen through the instance, are the same.     *)
LEMMA SameFiniteSets ==
    ASSUME NEW S
    PROVE  /\ Router!IsFiniteSet(S) = IsFiniteSet(S)
           /\ Router!Cardinality(S) = Cardinality(S)
<1>1. Router!IsFiniteSet(S) = IsFiniteSet(S)
    BY Zenon DEF Router!IsFiniteSet, IsFiniteSet
<1>2. Router!Cardinality(S) = Cardinality(S)
    BY Zenon DEF Router!Cardinality, Cardinality
<1> QED
    BY <1>1, <1>2

Stats(dom) == [dom -> Router!RouterNodeStat]

(* The balancers that getRouter, updateRouterNodes, statResult and time    *)
(* can leave behind: _nodeVector is the order of _statMap's keys.          *)
LbOver(dom) == [vec : Seq(RegistryNodes), lastIndex : Nat, stat : Stats(dom)]

Lbs == {l \in UNION {LbOver(dom) : dom \in SUBSET RegistryNodes} :
          /\ l.vec = Router!InOrder(DOMAIN l.stat)
          /\ l.lastIndex <= Cardinality(RegistryNodes)}

LEMMA NodesInOrder ==
    ASSUME NEW dom \in SUBSET RegistryNodes
    PROVE  LET nodes == Router!InOrder(dom) IN
           /\ Cardinality(dom) \in Nat /\ Cardinality(RegistryNodes) \in Nat
           /\ Cardinality(dom) <= Cardinality(RegistryNodes)
           /\ nodes \in Seq(dom) /\ nodes \in Seq(RegistryNodes)
           /\ Len(nodes) = Cardinality(dom)
           /\ \A k \in 1 .. Cardinality(dom) : nodes[k] \in dom
           /\ \A x \in dom : \E k \in 1 .. Cardinality(dom) : nodes[k] = x
<1>1. /\ IsFiniteSet(dom) /\ Cardinality(dom) <= Cardinality(RegistryNodes)
      /\ dom \in SUBSET Nat /\ Cardinality(RegistryNodes) \in Nat
    BY RouterAssumption, FS_Subset, FS_CardinalityType
<1> DEFINE nodes == Router!InOrder(dom)
<1>2. /\ Cardinality(dom) \in Nat
      /\ nodes \in Seq(dom) /\ Len(nodes) = Cardinality(dom)
      /\ \A k \in 1 .. Cardinality(dom) : nodes[k] \in dom
      /\ \A x \in dom : \E k \in 1 .. Cardinality(dom) : nodes[k] = x
    BY <1>1, RouterAssumption, SameFiniteSets, Router!InOrderEnumerates
<1> HIDE DEF nodes
<1>3. nodes \in Seq(RegistryNodes)
    BY <1>2
<1> QED
    BY <1>1, <1>2, <1>3 DEF nodes

LEMMA LbParts ==
    ASSUME NEW l \in Lbs
    PROVE  /\ Router!Listed(l) = DOMAIN l.stat /\ Router!Listed(l) \in SUBSET RegistryNodes
           /\ l \in LbOver(Router!Listed(l))
           /\ l.stat \in Stats(Router!Listed(l))
           /\ l.vec = Router!InOrder(Router!Listed(l))
           /\ l.lastIndex \in Nat /\ l.lastIndex <= Cardinality(RegistryNodes)
<1>1. PICK dom \in SUBSET RegistryNodes : l \in LbOver(dom)
    BY DEF Lbs
<1>2. l.stat \in Stats(dom) /\ l.lastIndex \in Nat
    BY <1>1 DEF LbOver
<1>3. DOMAIN l.stat = dom
    BY <1>2 DEF Stats
<1> QED
    BY <1>1, <1>2, <1>3 DEF Lbs, Router!Listed

LEMMA LbFrom ==
    ASSUME NEW dom \in SUBSET RegistryNodes, NEW l \in LbOver(dom),
           l.vec = Router!InOrder(dom), l.lastIndex <= Cardinality(RegistryNodes)
    PROVE  l \in Lbs /\ Router!Listed(l) = dom
<1>1. DOMAIN l.stat = dom
    BY DEF LbOver, Stats
<1> QED
    BY <1>1 DEF Lbs, Router!Listed

(* A refresh keeps the record of every node that stays listed.             *)
LEMMA UpdatedLb ==
    ASSUME NEW l \in Lbs, NEW nodes \in SUBSET RegistryNodes
    PROVE  LET u == Router!Updated(l, nodes) IN
           /\ u \in Lbs /\ Router!Listed(u) = nodes
           /\ \A m \in nodes \cap Router!Listed(l) : u.stat[m] = l.stat[m]
<1> DEFINE st == [m \in nodes |-> IF m \in Router!Listed(l) THEN l.stat[m]
                                                           ELSE Router!NewStat]
           u  == Router!Updated(l, nodes)
<1>1. st \in Stats(nodes)
    <2>1. Router!NewStat \in Router!RouterNodeStat
        BY DEF Router!NewStat, Router!RouterNodeStat
    <2> QED
        BY <2>1, LbParts DEF Stats
<1>2. u \in LbOver(nodes) /\ u.vec = Router!InOrder(nodes) /\ u.stat = st
      /\ u.lastIndex = l.lastIndex
    <2>1. u = [l EXCEPT !.vec = Router!InOrder(nodes), !.stat = st]
        BY DEF Router!Updated
    <2>2. l \in LbOver(Router!Listed(l)) /\ Router!InOrder(nodes) \in Seq(RegistryNodes)
        BY LbParts, NodesInOrder
    <2> HIDE DEF u, st
    <2> QED
        BY <1>1, <2>1, <2>2 DEF LbOver
<1>3. u \in Lbs /\ Router!Listed(u) = nodes
    <2> HIDE DEF st, u
    <2> QED
        BY <1>2, LbParts, LbFrom
<1> QED
    BY <1>2, <1>3

(* What getRouter returns: a listed node that is in use or due for a       *)
(* probe, or any listed node when there is none of these; and no verdict   *)
(* changes.                                                                *)
LEMMA NodeChosen ==
    ASSUME NEW l \in Lbs, NEW g \in Router!Get(l)
    PROVE  /\ g.lb \in Lbs /\ Router!Listed(g.lb) = Router!Listed(l)
           /\ \A m \in Router!Listed(l) : g.lb.stat[m].isAvailable = l.stat[m].isAvailable
           /\ \/ g.ret = -1 /\ g.node = 0 /\ Router!Listed(l) = {}
              \/ /\ g.ret = 0 /\ g.node \in Router!Listed(l)
                 /\ \/ Router!IsActive(l.stat[g.node])
                    \/ \A m \in Router!Listed(l) : ~Router!IsActive(l.stat[m])
<1> DEFINE dom   == Router!Listed(l)
           n     == Len(l.vec)
           start == IF l.lastIndex >= n THEN 0 ELSE l.lastIndex
           at(k) == l.vec[((start + k) % n) + 1]
           up    == {k \in 0 .. n - 1 : Router!CheckActive(l, at(k))}
<1>1. /\ n = Cardinality(dom) /\ n \in Nat /\ n <= Cardinality(RegistryNodes)
      /\ l.vec \in Seq(dom) /\ dom \in SUBSET RegistryNodes
      /\ \A k \in 1 .. n : l.vec[k] \in dom
      /\ \A x \in dom : \E k \in 1 .. n : l.vec[k] = x
      /\ l.stat \in Stats(dom) /\ l.lastIndex \in Nat
      /\ Cardinality(RegistryNodes) \in Nat
    <2>1. /\ dom \in SUBSET RegistryNodes /\ l.vec = Router!InOrder(dom)
          /\ l.stat \in Stats(dom) /\ l.lastIndex \in Nat
        BY LbParts
    <2> HIDE DEF dom
    <2>2. /\ Cardinality(dom) \in Nat /\ Cardinality(RegistryNodes) \in Nat
          /\ Cardinality(dom) <= Cardinality(RegistryNodes)
          /\ l.vec \in Seq(dom) /\ n = Cardinality(dom)
          /\ \A k \in 1 .. Cardinality(dom) : l.vec[k] \in dom
          /\ \A x \in dom : \E k \in 1 .. Cardinality(dom) : l.vec[k] = x
        BY <2>1, NodesInOrder
    <2> HIDE DEF n
    <2> QED
        BY <2>1, <2>2
<1>4. l \in LbOver(dom) /\ l.vec = Router!InOrder(dom)
    BY LbParts
<1>2. CASE n = 0
    <2>1. g = [ret |-> -1, node |-> 0, lb |-> l]
        BY <1>2 DEF Router!Get
    <2>2. dom = {}
        BY <1>1, <1>2
    <2> QED
        BY <2>1, <2>2
<1>3. CASE n # 0
    <2>1. n \in Nat \ {0} /\ start \in Nat
        BY <1>1, <1>3
    <2>2. \A k \in Int : (start + k) % n \in 0 .. n - 1 /\ at(k) \in dom
        <3>1. \A k \in Int : (start + k) % n \in 0 .. n - 1
            BY <2>1
        <3>2. \A m \in 0 .. n - 1 : l.vec[m + 1] \in dom
            BY <1>1
        <3> QED
            BY <3>1, <3>2
    <2>3. \A x \in dom : \E k \in 0 .. n - 1 : at(k) = x
        <3> SUFFICES ASSUME NEW x \in dom
                     PROVE  \E k \in 0 .. n - 1 : at(k) = x
            OBVIOUS
        <3>1. PICK m \in 1 .. n : l.vec[m] = x
            BY <1>1
        <3>2. m - 1 \in 0 .. n - 1 /\ start - 1 + 1 = start /\ start - 1 \in Int
            BY <1>1, <2>1, SMTT(30)
        <3> HIDE DEF n, start
        <3>3. PICK k \in 1 .. n : (start - 1 + k) % n = m - 1
            BY <2>1, <3>2, RouterAssumption, Router!RoundReachesAll
        <3>4. start + (k - 1) = start - 1 + k /\ k - 1 \in 0 .. n - 1
            BY <1>1, <2>1
        <3>5. at(k - 1) = x
            BY <3>1, <3>3, <3>4
        <3> QED
            BY <3>4, <3>5
    <2>4. CASE up = {}
        <3>1. PICK m \in Router!Range(l.vec) :
                 g = [ret |-> 0, node |-> m, lb |-> [l EXCEPT !.lastIndex = start]]
            BY <1>3, <2>4 DEF Router!Get
        <3>2. m \in dom
            BY <1>1, <3>1 DEF Router!Range
        <3>3. \A x \in dom : ~Router!IsActive(l.stat[x])
            BY <2>3, <2>4 DEF Router!CheckActive
        <3>4. start <= Cardinality(RegistryNodes)
            BY <1>1
        <3> HIDE DEF start
        <3>5. /\ g.lb \in LbOver(dom) /\ g.lb.vec = l.vec /\ g.lb.lastIndex = start
              /\ g.lb.stat = l.stat
            BY <1>4, <2>1, <3>1 DEF LbOver
        <3>6. g.lb \in Lbs /\ Router!Listed(g.lb) = dom
            BY <1>1, <1>4, <3>4, <3>5, LbFrom
        <3> QED
            BY <3>1, <3>2, <3>3, <3>5, <3>6
    <2>5. CASE up # {}
        <3> DEFINE k == CHOOSE k \in up : \A j \in up : k <= j
        <3>1. k \in up
            <4>1. up \in SUBSET Nat
                BY <1>1
            <4> HIDE DEF up
            <4>2. \E m \in up : \A j \in up : m <= j
                BY <2>5, <4>1, RouterAssumption, Router!SmallestNumber
            <4> QED
                BY <4>2
        <3>2. g = [ret |-> 0, node |-> at(k),
                   lb |-> [l EXCEPT !.lastIndex = ((start + k) % n) + 1,
                                    !.stat[at(k)] = Router!Probed(@)]]
            BY <1>3, <2>5 DEF Router!Get
        <3> HIDE DEF k
        <3>3. k \in 0 .. n - 1 /\ at(k) \in dom /\ Router!IsActive(l.stat[at(k)])
            BY <2>2, <3>1 DEF Router!CheckActive
        <3> DEFINE i == ((start + k) % n) + 1
                   x == at(k)
                   st == [l.stat EXCEPT ![x] = Router!Probed(@)]
        <3>4. i \in Nat /\ i <= Cardinality(RegistryNodes) /\ x \in dom
            <4>1. (start + k) % n \in 0 .. n - 1
                <5>1. k \in Int
                    BY <1>1, <3>3
                <5> HIDE DEF n, start, at
                <5> QED
                    BY <2>2, <5>1
            <4> DEFINE r == (start + k) % n
            <4> HIDE DEF r, n
            <4>2. r + 1 \in Nat /\ r + 1 <= Cardinality(RegistryNodes)
                BY <1>1, <4>1 DEF r
            <4> QED
                BY <3>3, <4>2 DEF r
        <3>5. \A j \in dom : /\ Router!Probed(l.stat[j]) \in Router!RouterNodeStat
                             /\ Router!Probed(l.stat[j]).isAvailable = l.stat[j].isAvailable
            BY <1>1, RouterAssumption, Router!ProbedType DEF Stats
        <3>6. st \in Stats(dom) /\ \A j \in dom : st[j].isAvailable = l.stat[j].isAvailable
            BY <1>1, <3>4, <3>5 DEF Stats
        <3>7. g.lb = [l EXCEPT !.lastIndex = i, !.stat = st]
            BY <3>2
        <3> HIDE DEF st, i, x
        <3>8. /\ g.lb \in LbOver(dom) /\ g.lb.vec = l.vec /\ g.lb.lastIndex = i
              /\ g.lb.stat = st
            BY <1>4, <3>4, <3>6, <3>7 DEF LbOver
        <3>9. g.lb \in Lbs /\ Router!Listed(g.lb) = dom
            BY <1>1, <1>4, <3>4, <3>8, LbFrom
        <3> QED
            BY <3>2, <3>3, <3>6, <3>8, <3>9 DEF x
    <2> QED
        BY <2>4, <2>5
<1> QED
    BY <1>2, <1>3

(* A report touches only the node it is about, and only a success brings   *)
(* that one back.                                                          *)
LEMMA ReportedLb ==
    ASSUME NEW l \in Lbs, NEW m \in RegistryNodes, NEW isFail \in BOOLEAN
    PROVE  LET r == Router!Reported(l, m, isFail) IN
           /\ r \in Lbs /\ Router!Listed(r) = Router!Listed(l)
           /\ \A j \in Router!Listed(l) :
                 ~l.stat[j].isAvailable /\ r.stat[j].isAvailable => j = m /\ ~isFail
<1> DEFINE dom == Router!Listed(l)
           s  == Router!Forgotten(Router!StatResult(l.stat[m], isFail))
           st == [l.stat EXCEPT ![m] = s]
           r  == Router!Reported(l, m, isFail)
<1>1. CASE m \notin dom
    BY <1>1 DEF Router!Reported
<1>2. CASE m \in dom
    <2>1. dom \in SUBSET RegistryNodes /\ l \in LbOver(dom) /\ l.stat \in Stats(dom)
          /\ l.vec = Router!InOrder(dom) /\ l.lastIndex <= Cardinality(RegistryNodes)
        BY LbParts
    <2>2. l.stat[m] \in Router!RouterNodeStat
        BY <1>2, <2>1 DEF Stats
    <2>3. /\ Router!StatResult(l.stat[m], isFail) \in Router!RouterNodeStat
          /\ ~l.stat[m].isAvailable
                => Router!StatResult(l.stat[m], isFail).isAvailable = ~isFail
        BY <2>2, RouterAssumption, Router!StatResultType, Router!StatResultTurns
    <2>4. s \in Router!RouterNodeStat /\ (~l.stat[m].isAvailable => s.isAvailable = ~isFail)
        BY <2>3, RouterAssumption, Router!ForgottenType
    <2>5. r = [l EXCEPT !.stat = st]
        BY <1>2 DEF Router!Reported
    <2> HIDE DEF s, r, dom
    <2>6. st \in Stats(dom) /\ \A j \in dom : st[j] = IF j = m THEN s ELSE l.stat[j]
        BY <2>1, <2>4 DEF Stats
    <2> HIDE DEF st
    <2>7. /\ r \in LbOver(dom) /\ r.vec = l.vec /\ r.lastIndex = l.lastIndex
          /\ r.stat = st
        BY <2>1, <2>5, <2>6 DEF LbOver
    <2>8. r \in Lbs /\ Router!Listed(r) = dom
        BY <2>1, <2>7, LbFrom
    <2> QED
        BY <2>4, <2>6, <2>7, <2>8 DEF r, dom
<1> QED
    BY <1>1, <1>2

LEMMA AgedLb ==
    ASSUME NEW l \in Lbs
    PROVE  LET a == Router!Aged(l) IN
           /\ a \in Lbs /\ Router!Listed(a) = Router!Listed(l)
           /\ \A j \in Router!Listed(l) : a.stat[j].isAvailable = l.stat[j].isAvailable
<1> DEFINE dom == Router!Listed(l)
           st == [m \in dom |-> Router!Elapsed(l.stat[m])]
           a  == Router!Aged(l)
<1>1. dom \in SUBSET RegistryNodes /\ l \in LbOver(dom) /\ l.stat \in Stats(dom)
      /\ l.vec = Router!InOrder(dom) /\ l.lastIndex <= Cardinality(RegistryNodes)
    BY LbParts
<1>2. \A m \in dom : /\ Router!Elapsed(l.stat[m]) \in Router!RouterNodeStat
                     /\ Router!Elapsed(l.stat[m]).isAvailable = l.stat[m].isAvailable
    BY <1>1, RouterAssumption, Router!ElapsedType DEF Stats
<1>3. st \in Stats(dom) /\ \A j \in dom : st[j].isAvailable = l.stat[j].isAvailable
    BY <1>2 DEF Stats
<1>4. a = [l EXCEPT !.stat = st]
    BY DEF Router!Aged
<1> HIDE DEF a, st, dom
<1>5. a \in LbOver(dom) /\ a.vec = l.vec /\ a.lastIndex = l.lastIndex /\ a.stat = st
    BY <1>1, <1>3, <1>4 DEF LbOver
<1>6. a \in Lbs /\ Router!Listed(a) = dom
    BY <1>1, <1>5, LbFrom
<1> QED
    BY <1>3, <1>5, <1>6 DEF a, dom

(* A valid list of a registry that answers is younger than its expiry      *)
(* says; and without a Router there are no statistics.                     *)
Fresh == ~failed /\ inTable /\ registryExpireIn >= 0
            => listAge + registryExpireIn <= NormalExpire

RouterInv ==
    /\ registry \in SUBSET RegistryNodes /\ registryDisk \in SUBSET RegistryNodes
    /\ inTable \in BOOLEAN /\ failed \in BOOLEAN
    /\ registryExpireIn \in -1 .. NormalExpire
    /\ lb \in Lbs
    /\ registryResult \in [ret : {0, -1, -2}, node : RegistryNodes \cup {0}]
    /\ listAge \in 0 .. NormalExpire + 1
    /\ ~inTable => Router!Listed(lb) = {}
    /\ Fresh

LEMMA RouterTypes == RouterInv => Router!TypeOK
<1> SUFFICES ASSUME RouterInv
             PROVE  Router!TypeOK
    OBVIOUS
<1>1. /\ Router!Listed(lb) \subseteq RegistryNodes
      /\ lb.stat \in [Router!Listed(lb) -> Router!RouterNodeStat]
      /\ lb.vec = Router!InOrder(Router!Listed(lb))
    BY LbParts DEF RouterInv, Stats
<1>2. Cardinality(RegistryNodes) \in Nat
    BY RouterAssumption, FS_CardinalityType
<1>3. lb.lastIndex \in 0 .. Router!Cardinality(RegistryNodes)
    BY <1>2, LbParts, SameFiniteSets DEF RouterInv
<1> QED
    BY <1>1, <1>3 DEF RouterInv, Router!TypeOK

LEMMA RouterInit == Router!Init => RouterInv
<1> SUFFICES ASSUME Router!Init
             PROVE  RouterInv
    OBVIOUS
<1>1. lb \in LbOver({}) /\ lb.vec = <<>> /\ lb.lastIndex = 0
    BY DEF Router!Init, Router!NewLb, LbOver, Stats
<1>2. Router!InOrder({}) = <<>> /\ Cardinality(RegistryNodes) \in Nat
    BY NodesInOrder, FS_EmptySet
<1>3. lb \in Lbs /\ Router!Listed(lb) = {}
    BY <1>1, <1>2, LbFrom
<1>4. registryExpireIn \in -1 .. NormalExpire /\ listAge \in 0 .. NormalExpire + 1
    BY AgentAssumption DEF Router!Init
<1> QED
    BY <1>3, <1>4 DEF Router!Init, Router!Answer, RouterInv, Fresh

(* An answer of a new list, from the registry or from the cache file.      *)
LEMMA RefreshedStep ==
    ASSUME RouterInv, NEW l \in Lbs, Router!Refreshed(l)
    PROVE  /\ RouterInv' /\ Router!Listed(lb') = registry
           /\ registryResult'.ret = IF registry = {} THEN -1 ELSE 0
           /\ ~failed' /\ listAge' <= NormalExpire
           /\ \A m \in Router!Listed(l) \cap registry :
                 lb'.stat[m].isAvailable = l.stat[m].isAvailable
<1> DEFINE u == Router!Updated(l, registry)
<1>1. PICK g \in Router!Get(u) :
         /\ lb' = g.lb
         /\ registryResult' = Router!Answer(IF g.ret = 0 THEN 0 ELSE -1, g.node)
         /\ inTable' = TRUE
         /\ registryExpireIn' = NormalExpire
         /\ registryDisk' = registry
         /\ listAge' = 0 /\ failed' = FALSE
         /\ UNCHANGED registry
    BY DEF Router!Refreshed
<1>2. /\ u \in Lbs /\ Router!Listed(u) = registry
      /\ \A m \in registry \cap Router!Listed(l) : u.stat[m] = l.stat[m]
    BY UpdatedLb DEF RouterInv
<1> HIDE DEF u
<1>3. /\ g.lb \in Lbs /\ Router!Listed(g.lb) = registry
      /\ \A m \in registry : g.lb.stat[m].isAvailable = u.stat[m].isAvailable
      /\ \/ g.ret = -1 /\ g.node = 0 /\ registry = {}
         \/ g.ret = 0 /\ g.node \in registry
    BY <1>1, <1>2, NodeChosen
<1>4. /\ registryExpireIn' \in -1 .. NormalExpire /\ listAge' \in 0 .. NormalExpire + 1
      /\ listAge' + registryExpireIn' <= NormalExpire /\ listAge' <= NormalExpire
    BY <1>1, AgentAssumption
<1>5. registryResult' \in [ret : {0, -1, -2}, node : RegistryNodes \cup {0}]
      /\ registryResult'.ret = IF registry = {} THEN -1 ELSE 0
    BY <1>1, <1>3 DEF Router!Answer, RouterInv
<1> QED
    BY <1>1, <1>2, <1>3, <1>4, <1>5 DEF RouterInv, Fresh

(* What each way through getRouterNormal leaves behind: an answer 0 unless *)
(* the registry's list is empty or nothing is known; no verdict changed.   *)
LEMMA GetRouterStep ==
    ASSUME RouterInv, Router!GetRouter
    PROVE  /\ RouterInv'
           /\ Router!Listed(lb) # {} => \/ registryResult'.ret = 0
                                        \/ registryResult'.ret = -1 /\ registry = {}
           /\ registryResult'.ret = 0 => failed' \/ listAge' <= NormalExpire
           /\ \A m \in Router!Listed(lb) \cap Router!Listed(lb') :
                 lb'.stat[m].isAvailable = lb.stat[m].isAvailable
<1>1. ASSUME NEW g \in Router!Get(lb)
      PROVE  /\ g.lb \in Lbs /\ Router!Listed(g.lb) = Router!Listed(lb)
             /\ \A m \in Router!Listed(lb) :
                   g.lb.stat[m].isAvailable = lb.stat[m].isAvailable
             /\ g.node \in RegistryNodes \cup {0}
    BY NodeChosen, LbParts DEF RouterInv
<1>2. ASSUME NEW m \in RegistryNodes \cup {0}
      PROVE  /\ Router!Answer(0, m) \in [ret : {0, -1, -2}, node : RegistryNodes \cup {0}]
             /\ Router!Answer(0, m).ret = 0
    BY DEF Router!Answer
<1>3. CASE Router!FromMemory
    <2>1. PICK g \in Router!Get(lb) :
             g.ret = 0 /\ lb' = g.lb /\ registryResult' = Router!Answer(0, g.node)
        BY <1>3 DEF Router!FromMemory
    <2>2. ~failed => listAge <= NormalExpire
        BY <1>3, AgentAssumption DEF Router!FromMemory, RouterInv, Fresh
    <2> QED
        BY <1>1, <1>2, <1>3, <2>1, <2>2 DEF Router!FromMemory, RouterInv, Fresh
<1>4. CASE Router!Expired
    <2>1. PICK g \in Router!Get(lb) : Router!Refreshed(g.lb)
        BY <1>4 DEF Router!Expired
    <2> QED
        BY <1>1, <2>1, RefreshedStep
<1>5. CASE Router!Stale
    <2>1. PICK g \in Router!Get(lb) :
             g.ret = 0 /\ lb' = g.lb /\ registryResult' = Router!Answer(0, g.node)
        BY <1>5 DEF Router!Stale
    <2>2. registryExpireIn' \in -1 .. NormalExpire
        BY <1>5, AgentAssumption DEF Router!Stale
    <2> QED
        BY <1>1, <1>2, <1>5, <2>1, <2>2 DEF Router!Stale, RouterInv, Fresh
<1>6. CASE Router!Fetch
    BY <1>6, RefreshedStep DEF Router!Fetch, RouterInv
<1>7. Router!NotInMemory => Router!Listed(lb) = {}
    <2>1. lb.vec = <<>> => Router!Listed(lb) = {}
        BY LbParts, NodesInOrder DEF RouterInv
    <2> QED
        BY <2>1 DEF Router!NotInMemory, RouterInv
<1>8. CASE Router!FromDisk
    <2>1. PICK g \in Router!Get(Router!Updated(lb, registryDisk)) :
             lb' = g.lb /\ registryResult' = Router!Answer(0, g.node)
        BY <1>8 DEF Router!FromDisk
    <2>2. Router!Updated(lb, registryDisk) \in Lbs
        BY UpdatedLb DEF RouterInv
    <2>3. g.lb \in Lbs /\ g.node \in RegistryNodes \cup {0}
        BY <2>1, <2>2, NodeChosen, LbParts
    <2>4. registryExpireIn' \in -1 .. NormalExpire
        BY <1>8, AgentAssumption DEF Router!FromDisk
    <2> QED
        BY <1>2, <1>7, <1>8, <2>1, <2>3, <2>4 DEF Router!FromDisk, RouterInv, Fresh
<1>9. CASE Router!NotFound
    <2>1. registryResult' \in [ret : {0, -1, -2}, node : RegistryNodes \cup {0}]
          /\ registryResult'.ret = -2
        BY <1>9 DEF Router!NotFound, Router!Answer
    <2> QED
        BY <1>7, <1>9, <2>1 DEF Router!NotFound, RouterInv, Fresh
<1> QED
    BY <1>3, <1>4, <1>5, <1>6, <1>8, <1>9 DEF Router!GetRouter

LEMMA UpdateStatStep ==
    ASSUME RouterInv, NEW m \in RegistryNodes, NEW isFail \in BOOLEAN,
           Router!UpdateStat(m, isFail)
    PROVE  /\ RouterInv'
           /\ \A j \in Router!Listed(lb) \cap Router!Listed(lb') :
                 ~lb.stat[j].isAvailable /\ lb'.stat[j].isAvailable => j = m /\ ~isFail
<1>1. lb' = Router!Reported(lb, m, isFail)
    BY DEF Router!UpdateStat
<1>2. /\ lb' \in Lbs /\ Router!Listed(lb') = Router!Listed(lb)
      /\ \A j \in Router!Listed(lb) :
            ~lb.stat[j].isAvailable /\ lb'.stat[j].isAvailable => j = m /\ ~isFail
    BY <1>1, ReportedLb DEF RouterInv
<1> QED
    BY <1>2 DEF Router!UpdateStat, RouterInv, Fresh

LEMMA RouterTickStep ==
    ASSUME RouterInv, Router!Tick
    PROVE  /\ RouterInv'
           /\ \A j \in Router!Listed(lb) : lb'.stat[j].isAvailable = lb.stat[j].isAvailable
<1>1. /\ lb' \in Lbs /\ Router!Listed(lb') = Router!Listed(lb)
      /\ \A j \in Router!Listed(lb) : lb'.stat[j].isAvailable = lb.stat[j].isAvailable
    BY AgedLb DEF RouterInv, Router!Tick
<1>2. /\ registryExpireIn' \in -1 .. NormalExpire /\ listAge' \in 0 .. NormalExpire + 1
      /\ Fresh'
    BY AgentAssumption DEF RouterInv, Router!Tick, Fresh
<1> QED
    BY <1>1, <1>2 DEF Router!Tick, RouterInv

LEMMA RouterStep == RouterInv /\ [Router!Next]_routerVars => RouterInv'
<1> SUFFICES ASSUME RouterInv, [Router!Next]_routerVars
             PROVE  RouterInv'
    OBVIOUS
<1>1. CASE UNCHANGED routerVars
    BY <1>1 DEF routerVars, RouterInv, Fresh
<1>2. ASSUME Router!UpdateStatStray
      PROVE  RouterInv'
    BY <1>2 DEF Router!UpdateStatStray, Router!vars, RouterInv, Fresh
<1>3. ASSUME NEW nodes \in SUBSET RegistryNodes, Router!Publish(nodes)
      PROVE  RouterInv'
    BY <1>3 DEF Router!Publish, RouterInv, Fresh
<1> QED
    BY <1>1, <1>2, <1>3, GetRouterStep, UpdateStatStep, RouterTickStep DEF Router!Next

(* While a node is in use or due no call goes to one that is neither.      *)
LEMMA RouterPicks ==
    ASSUME RouterInv, Router!FromMemory,
           \E m \in Router!Listed(lb) : Router!IsActive(lb.stat[m])
    PROVE  Router!IsActive(lb.stat[registryResult'.node])
<1>1. PICK g \in Router!Get(lb) :
         g.ret = 0 /\ registryResult' = Router!Answer(0, g.node)
    BY DEF Router!FromMemory
<1>2. \/ Router!IsActive(lb.stat[g.node])
      \/ \A m \in Router!Listed(lb) : ~Router!IsActive(lb.stat[m])
    BY <1>1, NodeChosen DEF RouterInv
<1> QED
    BY <1>1, <1>2 DEF Router!Answer

(* No refresh of the list and no failure un-shields a node.                *)
LEMMA RouterShield ==
    ASSUME RouterInv, [Router!Next]_routerVars,
           NEW j \in Router!Listed(lb) \cap Router!Listed(lb'),
           ~lb.stat[j].isAvailable, lb'.stat[j].isAvailable
    PROVE  Router!UpdateStat(j, FALSE)
<1>1. ASSUME NEW m \in RegistryNodes, NEW isFail \in BOOLEAN, Router!UpdateStat(m, isFail)
      PROVE  Router!UpdateStat(j, FALSE)
    <2>1. j = m /\ isFail = FALSE
        BY <1>1, UpdateStatStep
    <2> QED
        BY <1>1, <2>1
<1>2. ~Router!GetRouter
    BY GetRouterStep
<1>3. ~Router!Tick
    BY RouterTickStep
<1>4. lb' # lb
    OBVIOUS
<1> QED
    BY <1>1, <1>2, <1>3, <1>4
    DEF Router!Next, Router!UpdateStatStray, Router!Publish, Router!vars, routerVars

-----------------------------------------------------------------------------
(* The two clients side by side.                                           *)
Both == IInv /\ RouterInv

LEMMA RoutesInit == Begin => Both
    BY InitInv, RouterInit DEF Begin, Both

LEMMA RoutesStep ==
    Both /\ [AskRegistry \/ AskAgent]_all
      => Both' /\ [Next]_vars /\ [Router!Next]_routerVars
<1> SUFFICES ASSUME Both, [AskRegistry \/ AskAgent]_all
             PROVE  Both' /\ [Next]_vars /\ [Router!Next]_routerVars
    OBVIOUS
<1>1. [Next]_vars /\ [Router!Next]_routerVars
    BY DEF AskRegistry, AskAgent, all
<1> QED
    BY <1>1, NextInv, RouterStep DEF Both

(* For any nodes and thresholds: while a node is in use or due for a probe *)
(* no call goes to one that is neither, and a shielded node comes back by  *)
(* a success only, however often the list is replaced (LBLoop::getRouter,  *)
(* Router::updateRouterNodes).                                             *)
THEOREM RefreshesKeepShields == Routes => ShieldSurvivesRefresh
<1>1. Both /\ [AskRegistry \/ AskAgent]_all
        => /\ [Router!FromMemory /\ (\E m \in Router!Listed(lb) : Router!IsActive(lb.stat[m]))
                 => Router!IsActive(lb.stat[registryResult'.node])]_routerVars
           /\ [\A m \in Router!Listed(lb) \cap Router!Listed(lb') :
                 ~lb.stat[m].isAvailable /\ lb'.stat[m].isAvailable
                    => Router!UpdateStat(m, FALSE)]_routerVars
    BY RoutesStep, RouterPicks, RouterShield DEF Both
<1>2. Both => Router!TypeOK
    BY RouterTypes DEF Both
<1>3. Both /\ [AskRegistry \/ AskAgent]_all => Both'
    BY RoutesStep
<1> QED
    BY <1>1, <1>2, <1>3, RoutesInit, PTL
    DEF Routes, ShieldSurvivesRefresh, Router!HealthyFirst, Router!ShieldSurvivesRefresh,
        Router!vars, routerVars

(* For any expiry: no node comes out of a list older than the normal       *)
(* interval while the registry answers, and what is known is answered in   *)
(* either mode (getRouterNormal).                                          *)
THEOREM FreshAnswers == Routes => AnswersAreFresh
<1>1. Both /\ [AskRegistry \/ AskAgent]_all
        => /\ [Router!GetRouter /\ registryResult'.ret = 0
                 => failed' \/ listAge' <= NormalExpire]_routerVars
           /\ [Router!GetRouter /\ Router!Listed(lb) # {}
                 => \/ registryResult'.ret = 0
                    \/ registryResult'.ret = -1 /\ registry = {}]_routerVars
    BY GetRouterStep DEF Both
<1>2. Both /\ [AskRegistry \/ AskAgent]_all
        => [\A s \in Services :
               GetRouters(s) /\ (mem[s] # {} \/ disk[s] # {})
                  => result'.ret = 0 \/ (agentUp /\ agentList[s] = {})]_vars
    BY RoutesStep, AgentAnswers DEF Both
<1>3. Both /\ [AskRegistry \/ AskAgent]_all => Both'
    BY RoutesStep
<1> QED
    BY <1>1, <1>2, <1>3, RoutesInit, PTL
    DEF Routes, AnswersAreFresh, Router!AnswersAreFresh, Router!KnownServiceAnswered,
        KnownServiceAnswered, Router!vars, routerVars
=============================================================================
