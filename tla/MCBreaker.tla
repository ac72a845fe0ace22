----------------------------- MODULE MCBreaker ------------------------------
(***************************************************************************)
(* The circuit breaker of the C++ client, for TLC: that of one node        *)
(* (NodeBreaker), and those of the registry addresses among which a thread *)
(* chooses (RegistryEpManager).  The two share code and no state.  A       *)
(* behaviour therefore runs one of them, which Begin chooses; the other    *)
(* rests in an initial state.                                              *)
(***************************************************************************)
EXTENDS NodeBreaker

CONSTANTS
    Ips, UpdateInterval,
    IpCheckTimeout, IpFailInvoke, IpFailTime, IpTryTime     \* an address's thresholds

ASSUME IpAssumption ==
    /\ Ips \subseteq Nat \ {0} /\ IsFiniteSet(Ips)
    /\ UpdateInterval \in Nat
    /\ IpCheckTimeout \in Nat \ {0} /\ IpFailInvoke \in Nat \ {0}
    /\ IpFailTime \in Nat \ {0} /\ IpTryTime \in Nat \ {0}

VARIABLES
    active,     \* the part that runs
    \* of RegistryEpManager
    isIpsConstant, registryIps, ipsStat, index, sinceUpdate, asking, sent, up, outcome

EpManager == INSTANCE RegistryEpManager WITH
                 CheckTimeoutInterval <- IpCheckTimeout,
                 FrequenceFailInvoke <- IpFailInvoke,
                 MinFrequenceFailTime <- IpFailTime, TryTimeInterval <- IpTryTime

epVars == <<isIpsConstant, registryIps, ipsStat, index, sinceUpdate, asking, sent,
            up, outcome>>
all    == <<active, vars, epVars>>

Begin ==
    /\ active \in {"node", "addresses"}
    /\ Init
    /\ EpManager!Init /\ (active = "node" => ~isIpsConstant /\ up = {})

RunNode      == active = "node" /\ Next /\ UNCHANGED <<active, epVars>>
RunAddresses == active = "addresses" /\ EpManager!Next /\ UNCHANGED <<active, vars>>

(* The fairness of RegistryEpManager, in the behaviours that run it.       *)
Breakers ==
    /\ Begin /\ [][RunNode \/ RunAddresses]_all
    /\ WF_epVars(active = "addresses" /\ EpManager!Begin)
    /\ WF_epVars(active = "addresses" /\ EpManager!Finish)
    /\ WF_epVars(active = "addresses" /\ EpManager!Tick)

-----------------------------------------------------------------------------
(* Only a failure shields a node.  No request goes to a shielded address   *)
(* while another is in use, and only an answer brings one back: no new     *)
(* resolution of the name does (statResult, getAvaliableIp,                *)
(* getRegistryFromDNS).                                                    *)
ShieldIsKept ==
    /\ ShieldedByFailure
    /\ []EpManager!TypeOK
    /\ EpManager!AsksActiveFirst
    /\ EpManager!ShieldSurvivesResolution

(* A registry server that stays up among fixed addresses is found again    *)
(* and again, whatever the others do.                                      *)
LiveServerIsFound == active = "addresses" => EpManager!LiveServerIsFound
=============================================================================
