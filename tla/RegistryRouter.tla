--------------------------- MODULE RegistryRouter ---------------------------
(***************************************************************************)
(* One thread of a client that asks the registry itself ("pure api"): its  *)
(* RouterManager with the loop balancer, one service, the registry's list  *)
(* of live nodes for it, and the copy of the last answer on disk.          *)
(*                                                                         *)
(* RouterManager::getRouterNormal runs to completion within one call, so   *)
(* each way through it is one action.  RegistryProvider always claims to   *)
(* be available, which leaves the branches for an unavailable provider to  *)
(* AgentRoutes.                                                            *)
(***************************************************************************)
EXTENDS NodeStat, Functions

CONSTANTS
    Nodes,                         \* a finite set of numbers
    NormalExpire, ShortExpire,     \* g_node_normal/short_expire_interval, the
                                   \* second is the smaller one
    MaxCalls                       \* bound of the model: calls in one window

-----------------------------------------------------------------------------
(* The round-robin balancer, class LBLoop, as operators on its state: the  *)
(* record                                                                  *)
(*     [vec : _normalNodeInfoVec, lastIndex : _lastIndex, stat : _statMap] *)
(* _normalMap has the same keys as _statMap at every moment and is not     *)
(* kept apart.  A node is its key in those maps, a number: std::map keeps  *)
(* the nodes in that order.                                                *)
NewLb == [vec |-> <<>>, lastIndex |-> 0, stat |-> [m \in {} |-> NewStat]]

Listed(lb) == DOMAIN lb.stat

(* Mutant: every refresh starts the statistics of all nodes afresh.        *)
UpdatedForgetful(lb, nodes) ==
    [lb EXCEPT !.vec = InOrder(nodes), !.stat = [m \in nodes |-> NewStat]]

(* Router::updateRouterNodes: clear, del, addRouter for each, rebuild.  A  *)
(* node listed before and after keeps its record, and _lastIndex stays.    *)
Updated(lb, nodes) ==
    [lb EXCEPT !.vec  = InOrder(nodes),
               !.stat = [m \in nodes |-> IF m \in Listed(lb) THEN lb.stat[m]
                                                            ELSE NewStat]]

CheckActive(lb, m) == m \in Listed(lb) /\ IsActive(lb.stat[m])

(* The possible outcomes of LBLoop::getRouter: the first active node from  *)
(* _lastIndex on, a random one when none is active, -1 when there is none. *)
Get(lb) ==
    LET n     == Len(lb.vec)
        start == IF lb.lastIndex >= n THEN 0 ELSE lb.lastIndex
        at(k) == lb.vec[((start + k) % n) + 1]
        up    == {k \in 0 .. n - 1 : CheckActive(lb, at(k))}
        k     == CHOOSE k \in up : \A j \in up : k <= j
    IN  IF n = 0 THEN {[ret |-> -1, node |-> 0, lb |-> lb]}
        ELSE IF up = {}
        THEN {[ret |-> 0, node |-> m, lb |-> [lb EXCEPT !.lastIndex = start]]
                 : m \in Range(lb.vec)}
        ELSE {[ret |-> 0, node |-> at(k),
               lb |-> [lb EXCEPT !.lastIndex = ((start + k) % n) + 1,
                                 !.stat[at(k)] = Probed(@)]]}

(* LBLoop::statResult: a report about a node no longer listed is dropped.  *)
Reported(lb, m, isFail) ==
    IF m \in Listed(lb)
    THEN [lb EXCEPT !.stat[m] = Forgotten(StatResult(@, isFail))]
    ELSE lb

Aged(lb) == [lb EXCEPT !.stat = [m \in Listed(lb) |-> Elapsed(lb.stat[m])]]

-----------------------------------------------------------------------------
VARIABLES
    registry,   \* the nodes the registry would answer with
    disk,       \* the active nodes in the cache file, {} when it has none
    inTable,    \* whether _loopRouterTable has a Router for the service
    expireIn,   \* Router::_expreTime - now, -1 once it is past
    lb,         \* the Router's balancer
    result,     \* what the last ApiGetRoute returned
    listAge,    \* history: time since the list in memory was the registry's
    failed      \* history: whether the last request to the registry failed

vars == <<registry, disk, inTable, expireIn, lb, result, listAge, failed>>

Answer(r, m) == [ret |-> r, node |-> m]

Init == /\ registry \in SUBSET Nodes
        /\ disk \in SUBSET Nodes
        /\ inTable = FALSE
        /\ expireIn = -1
        /\ lb = NewLb
        /\ result = Answer(0, 0)
        /\ listAge = 0
        /\ failed = FALSE

(* Router::getRouter finds the list still valid: the balancer's answer.    *)
FromMemory ==
    /\ inTable
    /\ expireIn >= 0
    /\ \E g \in Get(lb) : /\ g.ret = 0
                          /\ lb' = g.lb
                          /\ result' = Answer(0, g.node)
    /\ UNCHANGED <<registry, disk, inTable, expireIn, listAge, failed>>

(* Mutant: a refreshed list is trusted for the time of two intervals.      *)
RefreshedTwice(lb0) ==
    LET l == Updated(lb0, registry) IN
    \E g \in Get(l) :
       /\ lb' = g.lb
       /\ result' = Answer(IF g.ret = 0 THEN 0 ELSE -1, g.node)
       /\ inTable' = TRUE
       /\ expireIn' = 2 * NormalExpire
       /\ disk' = registry
       /\ listAge' = 0 /\ failed' = FALSE
       /\ UNCHANGED registry

(* The registry answered: the list replaces the one in memory and on disk, *)
(* and the answer is taken from it; an empty list means no such service.   *)
Refreshed(lb0) ==
    LET l == Updated(lb0, registry) IN
    \E g \in Get(l) :
       /\ lb' = g.lb
       /\ result' = Answer(IF g.ret = 0 THEN 0 ELSE -1, g.node)
       /\ inTable' = TRUE
       /\ expireIn' = NormalExpire
       /\ disk' = registry
       /\ listAge' = 0 /\ failed' = FALSE
       /\ UNCHANGED registry

(* The list has expired.  A node is taken from it first, in case the       *)
(* registry does not answer, and when it does another from the new list.   *)
Expired ==
    /\ inTable
    /\ expireIn = -1
    /\ \E g \in Get(lb) : g.ret = 0 /\ Refreshed(g.lb)

(* The list has expired and the registry does not answer: the stale node   *)
(* is used and the registry asked again soon.                              *)
Stale ==
    /\ inTable
    /\ expireIn = -1
    /\ \E g \in Get(lb) : /\ g.ret = 0
                          /\ lb' = g.lb
                          /\ result' = Answer(0, g.node)
    /\ expireIn' = ShortExpire
    /\ failed' = TRUE
    /\ UNCHANGED <<registry, disk, inTable, listAge>>

(* No Router for the service, or one whose list is empty.                  *)
NotInMemory == ~inTable \/ lb.vec = <<>>

Fetch == NotInMemory /\ Refreshed(lb)

(* The registry does not answer and the cache file has nodes.              *)
FromDisk ==
    /\ NotInMemory
    /\ disk # {}
    /\ \E g \in Get(Updated(lb, disk)) : /\ lb' = g.lb
                                         /\ result' = Answer(0, g.node)
    /\ inTable' = TRUE
    /\ expireIn' = ShortExpire
    /\ failed' = TRUE
    /\ UNCHANGED <<registry, disk, listAge>>

NotFound ==
    /\ NotInMemory
    /\ disk = {}
    /\ result' = Answer(-2, 0)
    /\ failed' = TRUE
    /\ UNCHANGED <<registry, disk, inTable, expireIn, lb, listAge>>

GetRouter == FromMemory \/ Expired \/ Stale \/ Fetch \/ FromDisk \/ NotFound

(* ApiRouteResultUpdate for the loop balancer.                             *)
UpdateStat(m, isFail) ==
    /\ inTable
    /\ m \in Listed(lb) => lb.stat[m].succNum + lb.stat[m].errNum < MaxCalls
    /\ lb' = Reported(lb, m, isFail)
    /\ UNCHANGED <<registry, disk, inTable, expireIn, result, listAge, failed>>

(* InnerRouterRequest's constructor leaves isAgent undefined and           *)
(* ApiRouteResultUpdate does not set it here: when it happens to be true   *)
(* the report goes to the agent's port and the balancer never sees it.     *)
UpdateStatStray ==
    /\ inTable
    /\ UNCHANGED vars

(* Nodes are added, removed, fail or recover as the registry sees it.      *)
Publish(nodes) ==
    /\ nodes # registry
    /\ registry' = nodes
    /\ UNCHANGED <<disk, inTable, expireIn, lb, result, listAge, failed>>

Tick ==
    /\ expireIn' = IF expireIn = -1 THEN -1 ELSE expireIn - 1
    /\ lb' = Aged(lb)
    /\ listAge' = IF listAge <= NormalExpire THEN listAge + 1 ELSE listAge
    /\ UNCHANGED <<registry, disk, inTable, result, failed>>

Next == \/ GetRouter
        \/ \E m \in Nodes, isFail \in BOOLEAN : UpdateStat(m, isFail)
        \/ UpdateStatStray
        \/ \E nodes \in SUBSET Nodes : Publish(nodes)
        \/ Tick

Spec == Init /\ [][Next]_vars

-----------------------------------------------------------------------------
TypeOK ==
    /\ registry \subseteq Nodes /\ disk \subseteq Nodes
    /\ inTable \in BOOLEAN
    /\ expireIn \in -1 .. NormalExpire
    /\ lb.lastIndex \in 0 .. Cardinality(Nodes)
    /\ Listed(lb) \subseteq Nodes
    /\ lb.stat \in [Listed(lb) -> RouterNodeStat]
    /\ lb.vec = InOrder(Listed(lb))
    /\ result \in [ret : {0, -1, -2}, node : Nodes \cup {0}]
    /\ listAge \in 0 .. NormalExpire + 1
    /\ failed \in BOOLEAN

(* While some listed node is in use or due for a probe, a valid list       *)
(* never answers with a node that is neither (LBLoop::getRouter).          *)
HealthyFirst ==
    [][FromMemory /\ (\E m \in Listed(lb) : IsActive(lb.stat[m]))
          => IsActive(lb.stat[result'.node])]_vars

(* The list is replaced every few seconds, but a shielded node that stays  *)
(* listed comes back only by a success reported about it: no refresh, from *)
(* the registry or from disk, un-shields it (del, addRouter).              *)
ShieldSurvivesRefresh ==
    [][\A m \in Listed(lb) \cap Listed(lb') :
          ~lb.stat[m].isAvailable /\ lb'.stat[m].isAvailable
             => UpdateStat(m, FALSE)]_vars

(* While the registry answers, no node comes out of a list older than the  *)
(* normal interval (Introduction.md:143).                                  *)
AnswersAreFresh ==
    [][GetRouter /\ result'.ret = 0 => failed' \/ listAge' <= NormalExpire]_vars

(* A service with nodes in memory keeps being answered whatever happens to *)
(* the registry; only its own empty answer ends that (Introduction.md:147).*)
KnownServiceAnswered ==
    [][GetRouter /\ Listed(lb) # {} => \/ result'.ret = 0
                                       \/ result'.ret = -1 /\ registry = {}]_vars

(* The callers go on asking and the clock goes on.                         *)
FairSpec == Spec /\ WF_vars(GetRouter) /\ WF_vars(Tick)

-----------------------------------------------------------------------------
(* What the documents say and the code does not do.                        *)

(* Introduction.md:84: a shielded node is tried again after an interval.   *)
ShieldedIsRetried ==
    \A m \in Nodes :
       (m \in Listed(lb) /\ ~lb.stat[m].isAvailable)
          ~> (m \notin Listed(lb) \/ lb.stat[m].isAvailable \/ result.node = m)
=============================================================================
