----------------------------- MODULE StoreCache -----------------------------
(***************************************************************************)
(* The registry's answers: StoreCache, loaded from the store by the reap   *)
(* thread one buffer after the other, and read by the queries of QueryImp  *)
(* at the same time.  One service: the entries of others do not mix with   *)
(* its own.  A load replaces every buffer as a whole; that no query still  *)
(* reads a buffer when it is filled again is the subject of ReapThread.    *)
(***************************************************************************)
EXTENDS Integers, Sequences, FiniteSets, SequencesExt

CONSTANTS
    Ips,            \* addresses of clients and of nodes
    NetOf,          \* Ip2StarStr: the network an address belongs to
    Worlds,         \* what the store may hold: rules, priorities, servers
    Queries,        \* what clients ask
    Down,           \* the store while it cannot be read
    NoSet, NoName, NoQuery, NoAnswer

NoGroup == -1
Wild    == "*"

ASSUME StoreAssumption ==
    \A w \in Worlds :
       /\ \A i \in DOMAIN w.rules : w.rules[i].id \in Nat
       /\ \A s \in w.servers : s.ip \in Ips /\ s.state \in {"active", "inactive", "no_flow"}
ASSUME QueryAssumption ==
    \A qu \in Queries : qu.kind \in {"any", "group", "station", "set"} /\ qu.ip \in Ips

VARIABLES
    store,          \* the world the store holds, or Down
    groups,         \* rules in _groupIdMap and _groupNameMap
    priority,       \* _mapGroupPriority
    objects,        \* the service's entry of _objectsCache
    division,       \* the service's entry of _setDivisionCache
    lpc, next,      \* the reap thread in loadObjectIdCache, and what it built
    source,         \* history: the servers the last load has read
    qpc, query,     \* a query thread, closed before the first load, and what it was asked
    ids, entry,     \* groups and entry a query has found so far
    answer,         \* the last answer
    calm            \* history: no load was under way since the query began

cache == <<groups, priority, objects, division>>
load  == <<lpc, next, source>>
asked == <<qpc, query, ids, entry, answer>>
vars  == <<store, cache, load, asked, calm>>

-----------------------------------------------------------------------------
(* A later rule overrides an earlier one for the same address or name.     *)
GroupIn(rs, Names(_)) ==
    LET is == {i \in DOMAIN rs : Names(rs[i])}
    IN  IF is = {} THEN NoGroup ELSE rs[CHOOSE i \in is : \A j \in is : j <= i].id

GetGroupId(rs, ip) ==
    LET Exact(r) == ip \in r.allow
        Star(r)  == NetOf[ip] \in r.allow
    IN  IF GroupIn(rs, Exact) # NoGroup THEN GroupIn(rs, Exact) ELSE GroupIn(rs, Star)

GetGroupIdByName(rs, name) == LET Named(r) == r.name = name IN GroupIn(rs, Named)

(* The endpoint of a server under the rules, as loadObjectIdCache fills it.*)
Endpoint(rs, s) ==
    LET real == IF s.group = NoName THEN GetGroupId(rs, s.ip)
                                    ELSE GetGroupIdByName(rs, s.group)
    IN  [ip |-> s.ip, grouprealid |-> real,
         groupworkid |-> IF s.enableGroup THEN real ELSE NoGroup]

Empty == [active |-> {}, inactive |-> {}]

ObjectsOf(rs, servers) ==
    [active   |-> {Endpoint(rs, s) : s \in {x \in servers : x.state = "active"}},
     inactive |-> {Endpoint(rs, s) : s \in {x \in servers : x.state = "inactive"}}]

InSet(s) == s.set # NoSet /\ s.set[1] # Wild /\ s.set[2] # Wild

DivisionOf(rs, servers) ==
    {[set |-> s.set, isActive |-> s.state = "active", epf |-> Endpoint(rs, s)] :
        s \in {x \in servers : InSet(x) /\ x.state # "no_flow"}}

-----------------------------------------------------------------------------
(* The choice of findObjectByIdInGroupPriority.                            *)
OfGroups(list, gs, field) == {e \in list : e[field] \in gs}

Choice(e, gs) == [active   |-> OfGroups(e.active, gs, "groupworkid"),
                  inactive |-> OfGroups(e.inactive, gs, "groupworkid")]

(* Mutant: without a node in a near group or outside of groups, none.      *)
InGroupPriorityOnly(e, own, ps) ==
    LET NextPriority(found, p) ==
            IF found.active = {} /\ own \subseteq p.groups THEN Choice(e, p.groups) ELSE found
        near == FoldLeft(NextPriority, Choice(e, own), ps)
    IN  IF near.active = {} THEN Choice(e, {NoGroup}) ELSE near

InGroupPriority(e, own, ps) ==
    LET NextPriority(found, p) ==
            IF found.active = {} /\ own \subseteq p.groups THEN Choice(e, p.groups) ELSE found
        near    == FoldLeft(NextPriority, Choice(e, own), ps)
        outside == IF near.active = {} THEN Choice(e, {NoGroup}) ELSE near
    IN  IF outside.active = {} THEN e ELSE outside

InStation(e, gs) == [active   |-> OfGroups(e.active, gs, "grouprealid"),
                     inactive |-> OfGroups(e.inactive, gs, "grouprealid")]

Members(d, Of(_)) == [active   |-> {m.epf : m \in {x \in d : Of(x.set) /\ x.isActive}},
                      inactive |-> {m.epf : m \in {x \in d : Of(x.set) /\ ~x.isActive}}]

InSameSet(d, set) ==
    LET Area(t)    == t[1] = set[1] /\ t[2] = set[2]
        Exact(t)   == t = set
        WildSet(t) == t = <<set[1], set[2], Wild>>
    IN  IF set[3] = Wild THEN Members(d, Area)
        ELSE IF Members(d, Exact) # Empty THEN Members(d, Exact)
        ELSE Members(d, WildSet)

-----------------------------------------------------------------------------
Init == /\ store \in Worlds \cup {Down}
        /\ groups = <<>> /\ priority = <<>>
        /\ objects = Empty /\ division = {}
        /\ lpc = "groups"
        /\ next = [objects |-> Empty, division |-> {}]
        /\ source = {}
        /\ qpc = "closed"
        /\ query = NoQuery
        /\ ids = {} /\ entry = Empty
        /\ answer = NoAnswer
        /\ calm = FALSE

(* Servers register, fail and recover, rules are set; the store fails and  *)
(* comes back, perhaps for a single request.                               *)
Change(w) == /\ w # store
             /\ store' = w
             /\ UNCHANGED <<cache, load, asked, calm>>

StartLoad == /\ lpc = "idle"
             /\ lpc' = "groups"
             /\ calm' = FALSE
             /\ UNCHANGED <<store, cache, next, source, asked>>

(* Mutant: rules are read once.                                            *)
LoadGroupsOnce ==
    /\ store # Down
    /\ lpc = "groups"
    /\ lpc' = "priority"
    /\ groups' = IF groups = <<>> THEN store.rules ELSE groups
    /\ UNCHANGED <<store, priority, objects, division, next, source, asked, calm>>

(* Rules that name no address at all leave the former ones in use.         *)
LoadGroups ==
    /\ store # Down
    /\ lpc = "groups"
    /\ lpc' = "priority"
    /\ groups' = IF \E i \in DOMAIN store.rules : store.rules[i].allow # {}
                 THEN store.rules ELSE groups
    /\ UNCHANGED <<store, priority, objects, division, next, source, asked, calm>>

LoadPriority ==
    /\ store # Down
    /\ lpc = "priority"
    /\ lpc' = "servers"
    /\ priority' = IF store.priority # <<>> THEN store.priority ELSE priority
    /\ UNCHANGED <<store, groups, objects, division, next, source, asked, calm>>

(* The rules or the priorities cannot be read: the former ones stay.       *)
LoadFailed ==
    /\ store = Down
    /\ \/ lpc = "groups" /\ lpc' = "priority"
       \/ lpc = "priority" /\ lpc' = "servers"
    /\ UNCHANGED <<store, cache, next, source, asked, calm>>

(* Mutant: groups are looked up in the rules of the store, in use or not.  *)
BuiltByStoreRules(servers) ==
    /\ lpc = "servers"
    /\ lpc' = "objects"
    /\ source' = servers
    /\ LET rules == IF store = Down THEN groups ELSE store.rules
       IN  next' = [objects  |-> ObjectsOf(rules, servers),
                    division |-> DivisionOf(rules, servers)]
    /\ UNCHANGED <<store, cache, asked, calm>>

Built(servers) ==
    /\ lpc = "servers"
    /\ lpc' = "objects"
    /\ source' = servers
    /\ next' = [objects |-> ObjectsOf(groups, servers), division |-> DivisionOf(groups, servers)]
    /\ UNCHANGED <<store, cache, asked, calm>>

LoadServers == store # Down /\ Built(store.servers)

(* The return code of getAllServers is not looked at: a failure is a store *)
(* without servers.                                                        *)
LoadServersFailed == store = Down /\ Built({})

UpdateObjectsCache ==
    /\ lpc = "objects"
    /\ lpc' = "division"
    /\ objects' = next.objects
    /\ UNCHANGED <<store, groups, priority, division, next, source, asked, calm>>

(* The first load ends before the registry opens its servants.             *)
UpdateDivisionCache ==
    /\ lpc = "division"
    /\ lpc' = "idle"
    /\ qpc' = IF qpc = "closed" THEN "idle" ELSE qpc
    /\ division' = next.division
    /\ next' = [objects |-> Empty, division |-> {}]
    /\ UNCHANGED <<store, groups, priority, objects, source, query, ids, entry, answer, calm>>

-----------------------------------------------------------------------------
Ask(qu) == /\ qpc = "idle"
           /\ query' = qu
           /\ qpc' = qu.kind
           /\ answer' = NoAnswer
           /\ calm' = (lpc = "idle")
           /\ UNCHANGED <<store, cache, load, ids, entry>>

Reply(ret, nodes) == /\ answer' = [ret |-> ret, nodes |-> nodes]
                     /\ qpc' = "idle"
                     /\ query' = NoQuery
                     /\ calm' = FALSE
                     /\ ids' = {}
                     /\ entry' = Empty

FindAny == /\ qpc = "any"
           /\ Reply(0, objects)
           /\ UNCHANGED <<store, cache, load>>

(* A client of no group is given all nodes.                                *)
FindGroup ==
    /\ qpc = "group"
    /\ LET g == GetGroupId(groups, query.ip)
       IN  /\ qpc' = IF g = NoGroup THEN "any" ELSE "entry"
           /\ ids' = IF g = NoGroup THEN {} ELSE {g}
    /\ UNCHANGED <<store, cache, load, query, entry, answer, calm>>

FindEntry == /\ qpc = "entry"
             /\ entry' = objects
             /\ qpc' = "priority"
             /\ UNCHANGED <<store, cache, load, query, ids, answer, calm>>

FindPriority == /\ qpc = "priority"
                /\ Reply(0, InGroupPriority(entry, ids, priority))
                /\ UNCHANGED <<store, cache, load>>

(* The first priority with the station's name says which groups it has.    *)
FindStation ==
    /\ qpc = "station"
    /\ LET at == {i \in DOMAIN priority : priority[i].station = query.station}
       IN  IF at = {} THEN Reply(-1, Empty)
           ELSE /\ ids' = priority[CHOOSE i \in at : \A j \in at : i <= j].groups
                /\ qpc' = "members"
                /\ UNCHANGED <<query, entry, answer, calm>>
    /\ UNCHANGED <<store, cache, load>>

FindMembers == /\ qpc = "members"
               /\ Reply(0, InStation(objects, ids))
               /\ UNCHANGED <<store, cache, load>>

(* A service of which no node belongs to the set's name is not set-enabled *)
(* and answers by groups.                                                  *)
FindSet ==
    /\ qpc = "set"
    /\ IF \E m \in division : m.set[1] = query.set[1]
       THEN LET found == InSameSet(division, query.set)
            IN  Reply(IF found = Empty THEN -1 ELSE 0, found)
       ELSE qpc' = "group" /\ UNCHANGED <<query, ids, entry, answer, calm>>
    /\ UNCHANGED <<store, cache, load>>

Load == \/ LoadGroups \/ LoadPriority \/ LoadServers
        \/ LoadFailed \/ LoadServersFailed
        \/ UpdateObjectsCache \/ UpdateDivisionCache
Find == FindAny \/ FindGroup \/ FindEntry \/ FindPriority \/ FindStation \/ FindMembers \/ FindSet

Next == \/ \E w \in Worlds \cup {Down} : Change(w)
        \/ StartLoad \/ Load
        \/ \E qu \in Queries : Ask(qu)
        \/ Find

Spec == Init /\ [][Next]_vars
-----------------------------------------------------------------------------
Groups == {NoGroup} \cup UNION {{w.rules[i].id : i \in DOMAIN w.rules} : w \in Worlds}
Endpoints == [ip : Ips, grouprealid : Groups, groupworkid : Groups]
Entries   == [active : SUBSET Endpoints, inactive : SUBSET Endpoints]
Division  == [set : {s.set : s \in UNION {w.servers : w \in Worlds}},
              isActive : BOOLEAN, epf : Endpoints]

TypeOK ==
    /\ store \in Worlds \cup {Down}
    /\ groups \in {<<>>} \cup {w.rules : w \in Worlds}
    /\ priority \in {<<>>} \cup {w.priority : w \in Worlds}
    /\ objects \in Entries /\ next.objects \in Entries /\ entry \in Entries
    /\ division \subseteq Division /\ next.division \subseteq Division
    /\ lpc \in {"idle", "groups", "priority", "servers", "objects", "division"}
    /\ source \in {{}} \cup {w.servers : w \in Worlds}
    /\ qpc \in {"closed", "idle", "any", "group", "entry", "priority",
               "station", "members", "set"}
    /\ query \in Queries \cup {NoQuery}
    /\ answer # NoAnswer => answer.ret \in {0, -1} /\ answer.nodes \in Entries
    /\ calm \in BOOLEAN

(* Between two loads nodes, sets and rules fit together: every endpoint    *)
(* bears the group that the rules in use give it, and the sets are those   *)
(* of the same servers (loadObjectIdCache computes endpoints after it has  *)
(* swapped the rules).                                                     *)
CacheFitsTogether ==
    lpc = "idle" => /\ objects = ObjectsOf(groups, source)
                    /\ division = DivisionOf(groups, source)

Replied == Find /\ qpc' = "idle"

(* Whatever mixture of old and new groups, priorities and nodes a query    *)
(* meets, the narrowing by group never leaves a client with no node in use *)
(* of a service that has one (the last step of                             *)
(* findObjectByIdInGroupPriority).                                         *)
AliveServiceAnswered ==
    [][Replied /\ qpc = "priority" /\ entry.active # {}
          => answer'.nodes.active # {}]_vars

(* The documents' rules (Introduction.md:86-124), over the servers of the  *)
(* last load.                                                              *)
InState(servers, state) == {Endpoint(groups, s) : s \in {x \in servers : x.state = state}}
Both(servers) == [active |-> InState(servers, "active"), inactive |-> InState(servers, "inactive")]
Work(s)       == Endpoint(groups, s).groupworkid

Nearest(g) ==
    LET logical  == SelectSeq(priority, LAMBDA p : g \in p.groups)
        tiers    == <<{g}>> \o [i \in DOMAIN logical |-> logical[i].groups] \o <<{NoGroup}>>
        Tier(i)  == {s \in source : Work(s) \in tiers[i]}
        serving  == {i \in DOMAIN tiers : \E s \in Tier(i) : s.state = "active"}
    IN  IF g = NoGroup \/ serving = {} THEN Both(source)
        ELSE Both(Tier(CHOOSE i \in serving : \A j \in serving : i <= j))

Expected(qu) ==
    LET g         == GetGroupId(groups, qu.ip)
        Same(n)   == {s \in source : s.state # "no_flow" /\ InSet(s)
                                    /\ \A i \in 1 .. n : s.set[i] = qu.set[i]}
        general   == {s \in Same(2) : s.set[3] = Wild}
        Reply0(e) == [ret |-> 0, nodes |-> e]
        Found(ss) == [ret |-> IF ss = {} THEN -1 ELSE 0, nodes |-> Both(ss)]
    IN  CASE qu.kind = "any"   -> Reply0(Both(source))
          [] qu.kind = "group" -> Reply0(Nearest(g))
          [] qu.kind = "set"   ->
                IF Same(1) = {} THEN Reply0(Nearest(g))
                ELSE Found(IF qu.set[3] = Wild THEN Same(2)
                           ELSE IF Same(3) # {} THEN Same(3) ELSE general)
          [] OTHER -> answer'

(* An answer that no load interferes with is the one of the documents: the *)
(* client's own group, then the groups joined to it in their order, then   *)
(* nodes outside of groups, then all; a set-enabled client and service see *)
(* each other within the set only.                                         *)
CalmAnswersAreExact == [][Replied /\ calm => answer' = Expected(query)]_vars

(* The reap thread goes on; a step that fails is a step too.               *)
FairSpec == Spec /\ WF_vars(StartLoad) /\ WF_vars(Load)

(* Once the store is left alone and can be read, the cache becomes its     *)
(* image.  Rules or priorities of which the last is deleted are excepted:  *)
(* they stay in use.                                                       *)
ConvergesToStore ==
    \A w \in Worlds :
       <>[](store = w)
          => <>[](/\ \A i \in DOMAIN w.rules : w.rules[i].allow # {} => groups = w.rules
                  /\ w.priority # <<>> => priority = w.priority
                  /\ lpc = "idle" => objects = ObjectsOf(groups, w.servers))

-----------------------------------------------------------------------------
(* What a comment says and the code does not do.                           *)

(* ReapThread.h:71: the protection of what is cached against a store that  *)
(* fails is on by default.  Nodes in use then vanish only when the store   *)
(* has none.                                                               *)
OutageKeepsRoutes ==
    [][objects.active # {} /\ objects'.active = {}
          => \E w \in Worlds : \A s \in w.servers : s.state # "active"]_vars
=============================================================================
