---------------------------- MODULE AgentRoutes ----------------------------
(***************************************************************************)
(* One thread of a client that asks the agent on its host for whole node   *)
(* lists (ApiGetRoutes): RouterManager::getRouterNormal over               *)
(* _allRouterTable, the AgentProvider that judges whether the agent is     *)
(* available, the lists in memory with their expiry, and the cache files.  *)
(* All services share the one provider, which is what couples them.        *)
(***************************************************************************)
EXTENDS Integers, FiniteSets

CONSTANTS
    Services, Nodes,
    AGENT_FAIL_THRESHOLD,
    NormalExpire, ShortExpire, LongExpire   \* g_node_*_expire_interval

ASSUME AgentAssumption ==
    /\ AGENT_FAIL_THRESHOLD \in Nat \ {0}
    /\ NormalExpire \in Nat /\ ShortExpire \in Nat /\ LongExpire \in Nat
    /\ ShortExpire <= NormalExpire /\ NormalExpire <= LongExpire

VARIABLES
    agentUp,      \* whether requests to the agent are answered
    agentList,    \* what the agent answers for each service
    available,    \* AgentProvider::_available
    failedNum,    \* AgentProvider::_failedNum
    mem,          \* the list in memory; {}: no Router, or one with no node
    expireIn,     \* Router::_expreTime - now, -1 once it is past
    disk,         \* the active nodes in the cache file, {} when there are none
    result,       \* the last answer
    misses        \* history: failed requests since the last answered one

vars == <<agentUp, agentList, available, failedNum, mem, expireIn, disk, result, misses>>

Lists == SUBSET Nodes

Answer(s, r, list) == [service |-> s, ret |-> r, nodes |-> list]

Init == /\ agentUp \in BOOLEAN
        /\ agentList \in [Services -> Lists]
        /\ disk \in [Services -> Lists]
        /\ available = TRUE
        /\ failedNum = 0
        /\ mem = [s \in Services |-> {}]
        /\ expireIn = [s \in Services |-> -1]
        /\ result \in {Answer(s, -2, {}) : s \in Services}
        /\ misses = 0

InMemory(s) == mem[s] # {}
IsExpired(s) == expireIn[s] = -1
ExpireAfter(s, t) == expireIn' = [expireIn EXCEPT ![s] = t]

(* Router::getRouters with a valid list.                                   *)
FromMemory(s) ==
    /\ InMemory(s)
    /\ ~IsExpired(s)
    /\ result' = Answer(s, 0, mem[s])
    /\ UNCHANGED <<agentUp, agentList, available, failedNum, mem, expireIn, disk, misses>>

(* Mutant: an answer does not make the agent available again.              *)
AnsweredNoReset(s) ==
    /\ agentUp
    /\ mem'  = [mem EXCEPT ![s] = agentList[s]]
    /\ disk' = [disk EXCEPT ![s] = agentList[s]]
    /\ ExpireAfter(s, NormalExpire)
    /\ result' = Answer(s, IF agentList[s] = {} THEN -1 ELSE 0, agentList[s])
    /\ misses' = 0
    /\ UNCHANGED <<agentUp, agentList, available, failedNum>>

(* The agent answers: it is available, and its list replaces the one in    *)
(* memory and on disk.                                                     *)
Answered(s) ==
    /\ agentUp
    /\ available' = TRUE
    /\ failedNum' = 0
    /\ mem'  = [mem EXCEPT ![s] = agentList[s]]
    /\ disk' = [disk EXCEPT ![s] = agentList[s]]
    /\ ExpireAfter(s, NormalExpire)
    /\ result' = Answer(s, IF agentList[s] = {} THEN -1 ELSE 0, agentList[s])
    /\ misses' = 0
    /\ UNCHANGED <<agentUp, agentList>>

AddFailedNumAndCheckAvailable ==
    IF failedNum + 1 >= AGENT_FAIL_THRESHOLD
    THEN available' = FALSE /\ failedNum' = 0
    ELSE failedNum' = failedNum + 1 /\ UNCHANGED available

Unanswered ==
    /\ ~agentUp
    /\ misses' = IF misses < AGENT_FAIL_THRESHOLD THEN misses + 1 ELSE misses

(* Mutant: while the agent is unavailable an expired list is used as it is.*)
ExpiredWhileAvailable(s) == InMemory(s) /\ IsExpired(s) /\ available /\ Answered(s)

(* An expired list always has the agent asked, even when it is held to be  *)
(* unavailable: this is the probe by which the agent is found again.       *)
Expired(s) == InMemory(s) /\ IsExpired(s) /\ Answered(s)

(* No answer for an expired list: the list is used a little longer.        *)
Stale(s) ==
    /\ InMemory(s) /\ IsExpired(s)
    /\ Unanswered
    /\ IF available THEN AddFailedNumAndCheckAvailable
                    ELSE UNCHANGED <<available, failedNum>>
    /\ ExpireAfter(s, IF available' THEN ShortExpire ELSE LongExpire)
    /\ result' = Answer(s, 0, mem[s])
    /\ UNCHANGED <<agentUp, agentList, mem, disk>>

Fetch(s) == ~InMemory(s) /\ available /\ Answered(s)

(* No answer and nothing in memory: the cache file, if it has nodes.       *)
FetchFailed(s) ==
    /\ ~InMemory(s)
    /\ available
    /\ Unanswered
    /\ disk[s] # {}
    /\ AddFailedNumAndCheckAvailable
    /\ mem' = [mem EXCEPT ![s] = disk[s]]
    /\ ExpireAfter(s, IF available' THEN ShortExpire ELSE NormalExpire)
    /\ result' = Answer(s, 0, disk[s])
    /\ UNCHANGED <<agentUp, agentList, disk>>

(* Neither the agent nor the file knows the service.  An agent held to be  *)
(* unavailable is not asked, and this failure is not counted against it.   *)
NotFound(s) ==
    /\ ~InMemory(s)
    /\ disk[s] = {}
    /\ IF available THEN Unanswered ELSE UNCHANGED misses
    /\ result' = Answer(s, -2, {})
    /\ UNCHANGED <<agentUp, agentList, available, failedNum, mem, expireIn, disk>>

(* While the agent is unavailable a service comes from the file only.      *)
FromDisk(s) ==
    /\ ~InMemory(s)
    /\ ~available
    /\ disk[s] # {}
    /\ mem' = [mem EXCEPT ![s] = disk[s]]
    /\ ExpireAfter(s, LongExpire)
    /\ result' = Answer(s, 0, disk[s])
    /\ UNCHANGED <<agentUp, agentList, available, failedNum, disk, misses>>

GetRouters(s) == \/ FromMemory(s) \/ Expired(s) \/ Stale(s)
                 \/ Fetch(s) \/ FetchFailed(s) \/ NotFound(s) \/ FromDisk(s)

(* The client is restarted: what is in memory is gone, the files stay.     *)
Restart ==
    /\ available' = TRUE
    /\ failedNum' = 0
    /\ mem' = [s \in Services |-> {}]
    /\ expireIn' = [s \in Services |-> -1]
    /\ misses' = 0
    /\ UNCHANGED <<agentUp, agentList, disk, result>>

AgentChanges ==
    /\ \/ agentUp' = ~agentUp /\ UNCHANGED agentList
       \/ \E s \in Services, list \in Lists :
             /\ list # agentList[s]
             /\ agentList' = [agentList EXCEPT ![s] = list]
             /\ UNCHANGED agentUp
    /\ UNCHANGED <<available, failedNum, mem, expireIn, disk, result, misses>>

Tick ==
    /\ expireIn' = [s \in Services |-> IF IsExpired(s) THEN -1 ELSE expireIn[s] - 1]
    /\ UNCHANGED <<agentUp, agentList, available, failedNum, mem, disk, result, misses>>

Next == \/ \E s \in Services : GetRouters(s)
        \/ Restart
        \/ AgentChanges
        \/ Tick

Spec == Init /\ [][Next]_vars

(* The client goes on asking for each of its services, and time passes.    *)
FairSpec == Spec /\ WF_vars(Tick) /\ \A s \in Services : WF_vars(GetRouters(s))

-----------------------------------------------------------------------------
TypeOK ==
    /\ agentUp \in BOOLEAN
    /\ agentList \in [Services -> Lists]
    /\ available \in BOOLEAN
    /\ failedNum \in 0 .. AGENT_FAIL_THRESHOLD - 1
    /\ mem \in [Services -> Lists]
    /\ expireIn \in [Services -> -1 .. LongExpire]
    /\ disk \in [Services -> Lists]
    /\ result \in [service : Services, ret : {0, -1, -2}, nodes : Lists]
    /\ misses \in 0 .. AGENT_FAIL_THRESHOLD

(* While the agent is held to be unavailable only an expired list makes    *)
(* the client ask it again.  So there always is a list in memory then:     *)
(* giving up on the agent never becomes final (getRouterNormal).           *)
UnavailableHasProbe == ~available => \E s \in Services : mem[s] # {}

(* The agent is given up only after AGENT_FAIL_THRESHOLD requests without  *)
(* an answer and none answered between them (addFailedNumAndCheckAvailable,*)
(* setAvailable).                                                          *)
UnavailableHasReason ==
    /\ ~available => misses >= AGENT_FAIL_THRESHOLD
    /\ failedNum <= misses

(* A service with nodes in memory or in its file is answered whatever      *)
(* happens to the agent; only the agent's own empty list ends that         *)
(* (Introduction.md:135).                                                  *)
KnownServiceAnswered ==
    [][\A s \in Services :
          GetRouters(s) /\ (mem[s] # {} \/ disk[s] # {})
             => result'.ret = 0 \/ (agentUp /\ agentList[s] = {})]_vars

(* Once the agent stays up and its list for a service stays the same, that *)
(* list is the one in memory, however many restarts, outages and verdicts  *)
(* there were before.                                                      *)
ConvergesToAgent ==
    \A s \in Services, list \in Lists :
       <>[](agentUp /\ agentList[s] = list) /\ <>[][~Restart]_vars
          => <>[](mem[s] = list)

=============================================================================
