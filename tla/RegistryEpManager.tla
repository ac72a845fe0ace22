-------------------------- MODULE RegistryEpManager --------------------------
(***************************************************************************)
(* How one client thread chooses a registry address and learns from the    *)
(* request it sends there: class RegistryEpManager, driven by              *)
(* RegistryProvider::getRouteInfo.  The addresses come from the domain     *)
(* name system, asked again every so often, or were given once and for all.*)
(* A request takes time, so choosing the address and reporting the result  *)
(* are separate steps with at least one tick between them.                 *)
(***************************************************************************)
EXTENDS NodeStat

CONSTANTS
    Ips,               \* registry addresses, numbered in their order from 1 on
    UpdateInterval     \* isNeedUpdate: time between two resolutions

VARIABLES
    isIpsConstant, registryIps, ipsStat, index,
    sinceUpdate,       \* now - _lastUpdateTime, up to UpdateInterval + 1
    asking,            \* the address a request is under way to, or 0
    sent,              \* whether time has passed since it was sent
    up,                \* the registry servers that answer
    outcome            \* how the last request ended

vars == <<isIpsConstant, registryIps, ipsStat, index, sinceUpdate, asking, sent,
          up, outcome>>

Known(stat, ips) == [i \in ips |-> IF i \in DOMAIN stat THEN stat[i] ELSE NewStat]

(* Either setConsantIp was called once, or the list starts empty and the   *)
(* first request resolves the name.                                        *)
Init == /\ isIpsConstant \in BOOLEAN
        /\ \E given \in SUBSET Ips :
              /\ given = {} <=> ~isIpsConstant
              /\ registryIps = InOrder(given)
              /\ ipsStat = [i \in given |-> NewStat]
        /\ index = 0
        /\ sinceUpdate = UpdateInterval + 1
        /\ asking = 0 /\ sent = FALSE
        /\ up \in SUBSET Ips
        /\ outcome = "none"

NeedUpdate == ~isIpsConstant /\ sinceUpdate > UpdateInterval

(* Mutant: every search begins at the first address.                       *)
GetFirstIp(ips, stat) ==
    LET live == {k \in 1 .. Len(ips) : IsActive(stat[ips[k]])}
        k    == CHOOSE k \in live : \A j \in live : k <= j
    IN  IF live = {} THEN {[index |-> i, stat |-> stat] : i \in 0 .. Len(ips) - 1}
        ELSE {[index |-> k - 1, stat |-> [stat EXCEPT ![ips[k]] = Probed(@)]]}

(* Mutant: the next address in turn, whether it is active or not.          *)
GetNextIp(ips, stat) == {[index |-> (index + 1) % Len(ips), stat |-> stat]}

(* getAvaliableIp over a non-empty list: the first active address after    *)
(* the one used last, a random one when none is active.                    *)
GetAvaliableIp(ips, stat) ==
    LET n     == Len(ips)
        at(k) == ips[((index + k) % n) + 1]
        live  == {k \in 1 .. n : IsActive(stat[at(k)])}
        k     == CHOOSE k \in live : \A j \in live : k <= j
    IN  IF live = {} THEN {[index |-> i, stat |-> stat] : i \in 0 .. n - 1}
        ELSE {[index |-> (index + k) % n, stat |-> [stat EXCEPT ![at(k)] = Probed(@)]]}

(* The first half of getRouteInfo, with the list it finds.                 *)
Ask(ips, stat) ==
    /\ registryIps' = ips
    /\ IF ips = <<>>
       THEN /\ outcome' = "noaddress"
            /\ ipsStat' = stat
            /\ UNCHANGED <<index, asking, sent>>
       ELSE \E g \in GetAvaliableIp(ips, stat) :
            /\ index' = g.index
            /\ ipsStat' = g.stat
            /\ asking' = ips[g.index + 1]
            /\ sent' = FALSE
            /\ UNCHANGED outcome
    /\ UNCHANGED <<isIpsConstant, up>>

Request == /\ asking = 0
           /\ ~NeedUpdate
           /\ Ask(registryIps, ipsStat)
           /\ UNCHANGED sinceUpdate

(* The name servers are not configured: the addresses stay as they are.    *)
RequestUnresolved == /\ asking = 0
                     /\ NeedUpdate
                     /\ Ask(registryIps, ipsStat)
                     /\ sinceUpdate' = 0

(* getRegistryFromDNS replaces the addresses by what the name servers say, *)
(* which is nothing when none of them answers.                             *)
RequestResolved ==
    /\ asking = 0
    /\ NeedUpdate
    /\ \E ips \in SUBSET Ips : Ask(InOrder(ips), Known(ipsStat, ips))
    /\ sinceUpdate' = 0

Begin == Request \/ RequestUnresolved \/ RequestResolved

(* The second half of getRouteInfo: what the connection brought.           *)
Reported(isFail) ==
    [ipsStat EXCEPT ![asking] = Forgotten(StatResult(@, isFail))]

Conclude(res) ==
    /\ asking # 0 /\ sent
    /\ asking' = 0
    /\ outcome' = res
    /\ UNCHANGED <<isIpsConstant, registryIps, index, sinceUpdate, sent, up>>

Answered == /\ asking \in up
            /\ Conclude("ok")
            /\ ipsStat' = Reported(FALSE)

Failed == /\ asking \notin up
          /\ Conclude("failed")
          /\ ipsStat' = Reported(TRUE)

(* The reply does not decode: the request fails, nothing is reported.      *)
Undecodable == /\ asking \in up
               /\ Conclude("failed")
               /\ UNCHANGED ipsStat

Finish == Answered \/ Failed \/ Undecodable

Restart(servers) ==
    /\ servers # up
    /\ up' = servers
    /\ UNCHANGED <<isIpsConstant, registryIps, ipsStat, index, sinceUpdate, asking,
                   sent, outcome>>

Tick ==
    /\ sinceUpdate' = IF sinceUpdate <= UpdateInterval THEN sinceUpdate + 1
                                                       ELSE sinceUpdate
    /\ ipsStat' = [i \in DOMAIN ipsStat |-> Elapsed(ipsStat[i])]
    /\ sent' = (asking # 0)
    /\ UNCHANGED <<isIpsConstant, registryIps, index, asking, up, outcome>>

Next == \/ Begin
        \/ Finish
        \/ \E servers \in SUBSET Ips : Restart(servers)
        \/ Tick

Spec == Init /\ [][Next]_vars

(* The client goes on asking, every request ends, and time passes.         *)
FairSpec == Spec /\ WF_vars(Begin) /\ WF_vars(Finish) /\ WF_vars(Tick)

-----------------------------------------------------------------------------
TypeOK ==
    /\ isIpsConstant \in BOOLEAN
    /\ DOMAIN ipsStat \subseteq Ips
    /\ registryIps = InOrder(DOMAIN ipsStat)
    /\ ipsStat \in [DOMAIN ipsStat -> RouterNodeStat]
    /\ index \in 0 .. Cardinality(Ips)
    /\ sinceUpdate \in 0 .. UpdateInterval + 1
    /\ asking \in DOMAIN ipsStat \cup {0}
    /\ sent \in BOOLEAN
    /\ up \subseteq Ips
    /\ outcome \in {"none", "ok", "failed", "noaddress"}

(* A request never goes to a shielded address before its next probe is due *)
(* while another address is in use (getAvaliableIp).                       *)
AsksActiveFirst ==
    [][asking = 0 /\ asking' # 0
          => \/ ipsStat'[asking'].isAvailable
             \/ asking' \in DOMAIN ipsStat /\ IsActive(ipsStat[asking'])
             \/ \A i \in DOMAIN ipsStat' : ~ipsStat'[i].isAvailable]_vars

(* Resolving the name again does not un-shield an address: that takes a    *)
(* request it answered (getRegistryFromDNS keeps the records).             *)
ShieldSurvivesResolution ==
    [][\A i \in DOMAIN ipsStat \cap DOMAIN ipsStat' :
          ~ipsStat[i].isAvailable /\ ipsStat'[i].isAvailable
             => asking = i /\ Answered]_vars

(* A server that stays up among fixed addresses is found again and again,  *)
(* whatever the others do and however long it was shielded for an outage,  *)
(* as long as what it sends decodes.                                       *)
LiveServerIsFound ==
    \A i \in Ips :
       (/\ isIpsConstant /\ i \in DOMAIN ipsStat
        /\ <>[](i \in up)
        /\ <>[][~Undecodable]_vars) => []<>(outcome = "ok")
=============================================================================
