------------------------------ MODULE MCRoutes ------------------------------
(***************************************************************************)
(* The two ways a thread of the C++ client gets its routes, for TLC: from  *)
(* the agent (AgentRoutes) or from the registry (RegistryRouter).  A       *)
(* client is built for one of them; a behaviour runs the one that Begin    *)
(* chooses, and the other rests in an initial state.                       *)
(***************************************************************************)
EXTENDS AgentRoutes

CONSTANTS
    RegistryNodes, MaxCalls,
    MinTimeoutInvoke, CheckTimeoutInterval, FrequenceFailInvoke, MinFrequenceFailTime,
    TryTimeInterval

ASSUME RouterAssumption ==
    /\ RegistryNodes \subseteq Nat \ {0} /\ IsFiniteSet(RegistryNodes)
    /\ MaxCalls \in Nat
    /\ MinTimeoutInvoke \in Nat \ {0} /\ CheckTimeoutInterval \in Nat \ {0}
    /\ FrequenceFailInvoke \in Nat \ {0} /\ MinFrequenceFailTime \in Nat \ {0}
    /\ TryTimeInterval \in Nat \ {0}

VARIABLES
    active,     \* the part that runs
    \* of RegistryRouter
    registry, registryDisk, inTable, registryExpireIn, lb, registryResult, listAge, failed

Router == INSTANCE RegistryRouter WITH
              Nodes <- RegistryNodes, disk <- registryDisk,
              expireIn <- registryExpireIn, result <- registryResult

routerVars == <<registry, registryDisk, inTable, registryExpireIn, lb, registryResult,
                listAge, failed>>
all        == <<active, routerVars, vars>>

Begin ==
    /\ active \in {"registry", "agent"}
    /\ Init /\ Router!Init
    /\ active = "agent" => registry = {} /\ registryDisk = {}
    /\ active = "registry" =>
          /\ ~agentUp
          /\ \A s \in Services : agentList[s] = {} /\ disk[s] = {}
          /\ result.service = CHOOSE s \in Services : TRUE

AskRegistry == active = "registry" /\ Router!Next /\ UNCHANGED <<active, vars>>
AskAgent    == active = "agent" /\ Next /\ UNCHANGED <<active, routerVars>>

(* The fairness of AgentRoutes, in the behaviours that run it.             *)
Routes ==
    /\ Begin /\ [][AskRegistry \/ AskAgent]_all
    /\ WF_vars(active = "agent" /\ Tick)
    /\ \A s \in Services : WF_vars(active = "agent" /\ GetRouters(s))

-----------------------------------------------------------------------------
(* While a node is in use or due for a probe no call goes to one that is   *)
(* neither, and only a success brings a shielded node back: no refresh of  *)
(* the list does (LBLoop::getRouter, Router::updateRouterNodes).           *)
ShieldSurvivesRefresh ==
    []Router!TypeOK /\ Router!HealthyFirst /\ Router!ShieldSurvivesRefresh

(* While the registry answers no node comes out of a list older than the   *)
(* normal interval; and a service with nodes in memory, or with the agent  *)
(* on disk, is answered whatever happens to the registry or the agent      *)
(* (RouterManager::getRouterNormal).                                       *)
AnswersAreFresh ==
    Router!AnswersAreFresh /\ Router!KnownServiceAnswered /\ KnownServiceAnswered

(* The agent is never given up for good: there is always a list whose      *)
(* expiry has it asked again, and once it stays up its list is the one in  *)
(* memory (getRouterNormal).                                               *)
AgentIsFoundAgain ==
    []TypeOK /\ []UnavailableHasProbe /\ (active = "agent" => ConvergesToAgent)
=============================================================================
