-------------------------------- MODULE MCGc --------------------------------
(***************************************************************************)
(* The collector of the client library, for TLC: over sets (Gc) and over   *)
(* nodes and pointers (GcList).  A behaviour runs the one that Begin       *)
(* chooses, and the other rests in an initial state.  Threads, objects and *)
(* addresses are interchangeable.                                          *)
(***************************************************************************)
EXTENDS Gc, TLC

CONSTANT Addrs

ASSUME ListAssumption == None \notin Addrs

VARIABLES
    active,     \* the part that runs
    \* of GcList
    listLive, listOwner, listOrphans, listReleased, listCount, obj, next, first,
    listPc, listTodo, listSnap, new, tmp, prev

List == INSTANCE GcList WITH
            live <- listLive, owner <- listOwner, orphans <- listOrphans,
            released <- listReleased, count <- listCount, head <- first,
            pc <- listPc, todo <- listTodo, snap <- listSnap

listVars == <<listLive, listOwner, listOrphans, listReleased, listCount, obj, next,
              first, listPc, listTodo, listSnap, new, tmp, prev>>
all      == <<active, vars, listVars>>

Begin ==
    /\ active \in {"sets", "nodes"}
    /\ Init /\ (active = "nodes" => live = {})
    /\ List!Init /\ (active = "sets" => listLive = {})

RunSets  == active = "sets" /\ Next /\ UNCHANGED <<active, listVars>>
RunNodes == active = "nodes" /\ List!Next /\ UNCHANGED <<active, vars>>

Collector == Begin /\ [][RunSets \/ RunNodes]_all

Symmetric == Permutations(Tids) \cup Permutations(Objs) \cup Permutations(Addrs)

-----------------------------------------------------------------------------
(* The nodes of the list behave as the set of Gc, through all pointers,    *)
(* retries and reused addresses, and no thread reaches a freed one: not    *)
(* from the list, not from what it has detached (gc.cpp).                  *)
ListKeepsNodes ==
    /\ List!ListIsASet
    /\ [](List!TypeOK /\ List!NoFreedNodeReachable)
    /\ [](List!Sets!NothingLost /\ List!Sets!CountMatches)
=============================================================================
