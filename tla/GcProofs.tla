------------------------------ MODULE GcProofs ------------------------------
(***************************************************************************)
(* Proofs about the collector, for any number of threads, objects and      *)
(* addresses: it loses no object, counts what it keeps, keeps the promise  *)
(* of GcPromise, and its list of nodes and pointers is the set of Gc.      *)
(***************************************************************************)
EXTENDS MCGc, FiniteSetTheorems, TLAPS

(* The types of the variables but for the counter, which is a number only  *)
(* because it counts.                                                      *)
Types ==
    /\ live \in SUBSET Tids
    /\ owner \in [Objs -> Tids \cup {None}]
    /\ orphans \in SUBSET Objs
    /\ released \in SUBSET Objs
    /\ head \in SUBSET Objs
    /\ pc \in [Tids -> {"idle", "push", "detach", "list", "sweep", "delete", "splice"}]
    /\ adding \in [Tids -> Objs \cup {None}]
    /\ held \in [Tids -> SUBSET Objs]
    /\ todo \in [Tids -> SUBSET Tids]
    /\ snap \in [Tids -> SUBSET Tids]

(* What a thread has in its hands depends on where it is.                  *)
Hands ==
    \A t \in Tids :
       /\ pc[t] # "idle" => t \in live
       /\ pc[t] \in {"idle", "push", "detach"} => held[t] = {}
       /\ pc[t] \in {"idle", "delete"} => adding[t] = None
       /\ pc[t] = "push" => adding[t] # None
       /\ pc[t] = "sweep" => todo[t] = {}

(* A kept object whose thread id belongs to no thread is an orphan.        *)
OrphansKnown == \A o \in Objs : ~Fresh(o) => owner[o] \in live \/ o \in orphans

(* Why detaching comes before looking: every object detached has an owner  *)
(* that is still to be looked at, was found, or has exited.                *)
SnapshotCovers ==
    \A t \in Tids : pc[t] \in {"list", "sweep"} =>
       \A o \in held[t] : owner[o] \in todo[t] \cup snap[t] \/ o \in orphans

ReleasedKnown == \A o \in released : ~Fresh(o)

Counted == IsFiniteSet(Kept) /\ CountMatches

IInv == /\ Types /\ Hands /\ NothingLost /\ OrphansKnown
        /\ SnapshotCovers /\ ReleasedKnown /\ Counted

LEMMA InitInv == Init => IInv
<1> SUFFICES ASSUME Init PROVE IInv
    OBVIOUS
<1>1. Types /\ Hands /\ OrphansKnown /\ SnapshotCovers /\ ReleasedKnown
    BY DEF Init, Types, Hands, OrphansKnown, SnapshotCovers, ReleasedKnown, Fresh
<1>2. Kept = {}
    BY DEF Init, Kept, Fresh
<1>3. NothingLost
    BY <1>2, GcAssumption DEF Init, NothingLost
<1>4. Counted
    BY <1>2, FS_EmptySet DEF Init, Counted, CountMatches
<1>5. QED
    BY <1>1, <1>3, <1>4 DEF IInv

(* Steps that create and free nothing leave the counter right.             *)
LEMMA CountedStays ==
    ASSUME Counted, UNCHANGED <<owner, released, count>>
    PROVE  Counted'
    BY DEF Counted, CountMatches, Kept, Fresh

LEMMA SpawnInv == ASSUME IInv, NEW t \in Tids, Spawn(t) PROVE IInv'
<1> USE DEF IInv, Spawn, locals
<1>1. Types' /\ Hands'
    BY DEF Types, Hands
<1>2. NothingLost' /\ OrphansKnown' /\ SnapshotCovers' /\ ReleasedKnown'
    BY DEF NothingLost, OrphansKnown, SnapshotCovers, ReleasedKnown, Kept, Fresh
<1>3. Counted'
    BY CountedStays
<1>4. QED
    BY <1>1, <1>2, <1>3

LEMMA ExitInv == ASSUME IInv, NEW t \in Tids, Exit(t) PROVE IInv'
<1> USE DEF IInv, Exit, locals
<1>1. Types' /\ Hands'
    BY DEF Types, Hands, OwnedBy
<1>2. NothingLost'
    BY DEF NothingLost, Kept, Fresh
<1>3. OrphansKnown' /\ SnapshotCovers' /\ ReleasedKnown'
    BY DEF OrphansKnown, SnapshotCovers, ReleasedKnown, Types, Fresh, OwnedBy
<1>4. Counted'
    BY CountedStays
<1>5. QED
    BY <1>1, <1>2, <1>3, <1>4

LEMMA AddObjInv ==
    ASSUME IInv, NEW t \in Tids, NEW o \in Objs, AddObj(t, o)
    PROVE  IInv'
<1> USE GcAssumption DEF IInv, AddObj, Goto
<1>1. /\ o \notin Kept /\ o \notin released
      /\ o \notin head /\ \A u \in Tids : o \notin held[u] /\ o # adding[u]
    BY DEF Kept, ReleasedKnown, NothingLost
<1>2. /\ Kept' = Kept \cup {o}
      /\ ~Fresh(o)' /\ \A p \in Objs : p # o => Fresh(p)' = Fresh(p)
    BY <1>1 DEF Kept, Fresh, Types
<1>3. Types' /\ Hands'
    BY DEF Types, Hands
<1>4. NothingLost'
    <2>1. \A u \in Tids : adding'[u] = IF u = t THEN o ELSE adding[u]
        BY DEF Types
    <2>2. adding[t] = None
        BY DEF Hands
    <2>3. QED
        BY <1>1, <1>2, <2>1, <2>2 DEF NothingLost
<1>5. OrphansKnown' /\ ReleasedKnown'
    BY <1>1, <1>2 DEF OrphansKnown, ReleasedKnown, Types, Fresh
<1>6. SnapshotCovers'
    BY <1>1 DEF SnapshotCovers, Types, Hands
<1>7. Counted'
    BY <1>1, <1>2, FS_AddElement DEF Counted, CountMatches
<1>8. QED
    BY <1>3, <1>4, <1>5, <1>6, <1>7

LEMMA PushInv == ASSUME IInv, NEW t \in Tids, Push(t) PROVE IInv'
<1> USE GcAssumption DEF IInv, Push, Goto
<1>1. adding[t] \in Objs
    BY DEF Types, Hands
<1>2. Types' /\ Hands'
    BY <1>1 DEF Types, Hands
<1>3. NothingLost'
    <2>1. \A u \in Tids : adding'[u] = IF u = t THEN None ELSE adding[u]
        BY DEF Types
    <2>2. QED
        BY <1>1, <2>1 DEF NothingLost, Kept, Fresh, Types
<1>4. OrphansKnown' /\ ReleasedKnown'
    BY DEF OrphansKnown, ReleasedKnown, Fresh
<1>5. SnapshotCovers'
    BY DEF SnapshotCovers, Types
<1>6. Counted'
    BY CountedStays
<1>7. QED
    BY <1>2, <1>3, <1>4, <1>5, <1>6

(* The whole list changes hands.                                           *)
LEMMA TakeListNothingLost ==
    ASSUME Types, NothingLost, NEW t \in Tids, held[t] = {}, TakeList(t),
           UNCHANGED <<owner, released, adding>>
    PROVE  NothingLost'
<1>1. \A u \in Tids : held'[u] = IF u = t THEN head ELSE held[u]
    BY DEF TakeList, Types
<1>2. Kept' = Kept
    BY DEF Kept, Fresh
<1>3. QED
    BY <1>1, <1>2 DEF TakeList, NothingLost

LEMMA DetachInv == ASSUME IInv, NEW t \in Tids, Detach(t) PROVE IInv'
<1> USE DEF IInv, Detach, Goto
<1>1. Types' /\ Hands'
    BY DEF Types, Hands, TakeList
<1>2. NothingLost'
    BY TakeListNothingLost DEF Hands
<1>3. OrphansKnown' /\ ReleasedKnown'
    BY DEF OrphansKnown, ReleasedKnown, Fresh
<1>4. SnapshotCovers'
    <2>1. \A o \in head : owner[o] \in Tids
        BY DEF NothingLost, Kept, Fresh, Types
    <2>2. QED
        BY <2>1 DEF SnapshotCovers, Types, TakeList
<1>5. Counted'
    BY CountedStays
<1>6. QED
    BY <1>1, <1>2, <1>3, <1>4, <1>5

LEMMA DeleteObjInv == ASSUME IInv, NEW t \in Tids, DeleteObj(t) PROVE IInv'
<1> USE DEF IInv, DeleteObj, Goto
<1>1. Types' /\ Hands'
    BY DEF Types, Hands, TakeList
<1>2. NothingLost'
    BY TakeListNothingLost DEF Hands
<1>3. OrphansKnown' /\ ReleasedKnown' /\ SnapshotCovers'
    BY DEF OrphansKnown, ReleasedKnown, SnapshotCovers, Fresh, Types, TakeList
<1>4. Counted'
    BY CountedStays
<1>5. QED
    BY <1>1, <1>2, <1>3, <1>4

LEMMA ReadTaskInv ==
    ASSUME IInv, NEW t \in Tids, NEW u \in Tids, ReadTask(t, u)
    PROVE  IInv'
<1> USE DEF IInv, ReadTask, shared
<1>1. Types' /\ Hands'
    BY DEF Types, Hands
<1>2. NothingLost' /\ OrphansKnown' /\ ReleasedKnown'
    BY DEF NothingLost, OrphansKnown, ReleasedKnown, Kept, Fresh
<1>3. SnapshotCovers'
    <2>1. \A o \in held[t] : ~Fresh(o) /\ o \in Objs
        BY DEF NothingLost, Kept, Types
    <2>2. \A o \in held[t] : owner[o] = u => u \in live \/ o \in orphans
        BY <2>1 DEF OrphansKnown
    <2>3. QED
        BY <2>2 DEF SnapshotCovers, Types
<1>4. Counted'
    BY CountedStays
<1>5. QED
    BY <1>1, <1>2, <1>3, <1>4

(* Steps that only move a thread on, within or out of the sweep.           *)
LEMMA MoveInv ==
    ASSUME IInv, NEW t \in Tids, ListFailed(t) \/ Listed(t) \/ Swept(t)
    PROVE  IInv'
<1> USE DEF IInv, ListFailed, Listed, Swept, Leave, Rest, Goto, shared
<1>1. Types' /\ Hands'
    BY DEF Types, Hands
<1>2. NothingLost' /\ OrphansKnown' /\ ReleasedKnown'
    BY DEF NothingLost, OrphansKnown, ReleasedKnown, Kept, Fresh
<1>3. SnapshotCovers'
    BY DEF SnapshotCovers, Types
<1>4. Counted'
    BY CountedStays
<1>5. QED
    BY <1>1, <1>2, <1>3, <1>4

LEMMA SpliceInv == ASSUME IInv, NEW t \in Tids, Splice(t) PROVE IInv'
<1> USE GcAssumption DEF IInv, Splice, Rest, Goto
<1>1. Types' /\ Hands'
    BY DEF Types, Hands
<1>2. NothingLost'
    <2>1. \A u \in Tids : held'[u] = IF u = t THEN {} ELSE held[u]
        BY DEF Types
    <2>2. Kept' = Kept
        BY DEF Kept, Fresh
    <2>3. QED
        BY <2>1, <2>2 DEF NothingLost
<1>3. OrphansKnown' /\ ReleasedKnown'
    BY DEF OrphansKnown, ReleasedKnown, Fresh
<1>4. SnapshotCovers'
    BY DEF SnapshotCovers, Types
<1>5. Counted'
    BY CountedStays
<1>6. QED
    BY <1>1, <1>2, <1>3, <1>4, <1>5

LEMMA ReleasedInv ==
    ASSUME IInv, NEW t \in Tids, NEW o \in Objs, o \in held[t],
           pc[t] \in {"sweep", "delete"}, Released(t, o)
    PROVE  IInv'
<1> USE GcAssumption DEF IInv, Released
<1>1. o \in Kept /\ Kept' = Kept \ {o}
    BY DEF NothingLost, Kept, Fresh
<1>2. Types' /\ Hands'
    BY DEF Types, Hands
<1>3. NothingLost'
    <2>1. \A u \in Tids : held'[u] = IF u = t THEN held[t] \ {o} ELSE held[u]
        BY DEF Types
    <2>2. \A u \in Tids : /\ o \notin head /\ o # adding[u]
                          /\ u # t => o \notin held[u]
        BY DEF NothingLost
    <2>3. QED
        BY <1>1, <2>1, <2>2 DEF NothingLost
<1>4. OrphansKnown' /\ ReleasedKnown'
    BY <1>1 DEF OrphansKnown, ReleasedKnown, Fresh, Kept
<1>5. SnapshotCovers'
    BY DEF SnapshotCovers, Types
<1>6. Counted'
    BY <1>1, FS_RemoveElement DEF Counted, CountMatches
<1>7. QED
    BY <1>2, <1>3, <1>4, <1>5, <1>6

LEMMA NextInv == ASSUME IInv, [Next]_vars PROVE IInv'
<1>1. ASSUME NEW t \in Tids, ThreadStep(t) PROVE IInv'
    <2>1. CASE Spawn(t)
        BY <2>1, SpawnInv
    <2>2. CASE Exit(t)
        BY <2>2, ExitInv
    <2>3. CASE Push(t)
        BY <2>3, PushInv
    <2>4. CASE Detach(t)
        BY <2>4, DetachInv
    <2>5. CASE ListFailed(t) \/ Listed(t) \/ Swept(t)
        BY <2>5, MoveInv
    <2>6. CASE DeleteObj(t)
        BY <2>6, DeleteObjInv
    <2>7. CASE Splice(t)
        BY <2>7, SpliceInv
    <2>8. CASE \E u \in Tids : ReadTask(t, u)
        BY <2>8, ReadTaskInv
    <2>9. CASE \E o \in Objs : AddObj(t, o)
        BY <2>9, AddObjInv
    <2>10. CASE \E o \in Objs : Sweep(t, o) \/ Delete(t, o)
        BY <2>10, ReleasedInv DEF Sweep, Delete, Exited, Own
    <2>11. QED
        BY <1>1, <2>1, <2>2, <2>3, <2>4, <2>5, <2>6, <2>7, <2>8, <2>9, <2>10
        DEF ThreadStep
<1>2. CASE UNCHANGED vars
    BY <1>2
    DEF vars, shared, locals, IInv, Types, Hands, NothingLost, OrphansKnown,
        SnapshotCovers, ReleasedKnown, Counted, CountMatches, Kept, Fresh
<1>3. QED
    BY <1>1, <1>2 DEF Next

THEOREM Invariance == Spec => []IInv
<1>1. Init => IInv
    BY InitInv
<1>2. IInv /\ [Next]_vars => IInv'
    BY NextInv
<1>3. QED
    BY <1>1, <1>2, PTL DEF Spec

(* Whatever threads detach, splice and push at the same time, no object is *)
(* lost and none is in two places (addObj, releaseExitThreadObj,           *)
(* deleteObj).                                                             *)
THEOREM NoObjectIsLost == Spec => []NothingLost
    BY Invariance, PTL DEF IInv

(* The counter that triggers a collection is the number of kept objects.   *)
THEOREM CounterIsExact == Spec => []CountMatches
    BY Invariance, PTL DEF IInv, Counted

LEMMA CountIsNat == IInv => TypeOK
    BY FS_CardinalityType DEF IInv, Types, Counted, CountMatches, TypeOK

(* Every variable keeps its type, the counter too: it never falls below 0. *)
THEOREM TypeCorrect == Spec => []TypeOK
    BY Invariance, CountIsNat, PTL

-----------------------------------------------------------------------------
(* Every step of the collector is one of the promise, or hidden by it.     *)

LEMMA StepKeepsPromise ==
    ASSUME IInv, [Next]_vars
    PROVE  [Promise!Next]_(Promise!vars)
<1> DEFINE Asking == {t \in Tids : pc[t] = "delete"}
<1> USE DEF IInv
<1>1. ASSUME NEW t \in Tids, Spawn(t) PROVE Promise!Spawn(t)
    BY <1>1 DEF Spawn, Promise!Spawn, locals
<1>2. ASSUME NEW t \in Tids, Exit(t) PROVE Promise!Exit(t)
    BY <1>2 DEF Exit, Promise!Exit, OwnedBy, Promise!OwnedBy, locals
<1>3. ASSUME NEW t \in Tids, NEW o \in Objs, AddObj(t, o) PROVE Promise!Register(t, o)
    <2>1. Asking' = Asking
        BY <1>3 DEF AddObj, Goto, Types
    <2>2. QED
        BY <1>3, <2>1 DEF AddObj, Promise!Register, Fresh
<1>4. ASSUME NEW t \in Tids, DeleteObj(t) PROVE Promise!Ask(t)
    <2>1. Asking' = Asking \cup {t} /\ t \notin Asking
        BY <1>4 DEF DeleteObj, Goto, Types
    <2>2. QED
        BY <1>4, <2>1 DEF DeleteObj, Promise!Ask
<1>5. ASSUME NEW t \in Tids, Swept(t), pc[t] = "delete" PROVE Promise!Done(t)
    <2>1. Asking' = Asking \ {t} /\ t \in Asking
        BY <1>5 DEF Swept, Leave, Rest, Goto, Types
    <2>2. QED
        BY <1>5, <2>1 DEF Swept, Leave, Promise!Done, shared
<1>6. ASSUME NEW t \in Tids, NEW o \in Objs, Sweep(t, o) PROVE Promise!Free(o)
    <2>1. o \in Kept
        BY <1>6 DEF Sweep, Exited, NothingLost
    <2>2. o \in orphans
        BY <1>6 DEF Sweep, Exited, SnapshotCovers, Hands
    <2>3. QED
        BY <1>6, <2>1, <2>2 DEF Sweep, Released, Promise!Free, Kept
<1>7. ASSUME NEW t \in Tids, NEW o \in Objs, Delete(t, o) PROVE Promise!Free(o)
    <2>1. o \in Kept
        BY <1>7 DEF Delete, Own, NothingLost
    <2>2. QED
        BY <1>7, <2>1 DEF Delete, Own, Released, Promise!Free, Kept
<1>8. ASSUME NEW t \in Tids,
             \/ Push(t) \/ Detach(t) \/ ListFailed(t) \/ Listed(t) \/ Splice(t)
             \/ Swept(t) /\ pc[t] = "sweep"
             \/ \E u \in Tids : ReadTask(t, u)
      PROVE  UNCHANGED Promise!vars
    <2>1. Asking' = Asking
        BY <1>8 DEF Push, Detach, ListFailed, Listed, Splice, Swept, ReadTask,
                   Leave, Rest, Goto, Types
    <2>2. QED
        BY <1>8, <2>1 DEF Push, Detach, ListFailed, Listed, Splice, Swept, ReadTask,
                          Leave, shared, Promise!vars
<1>9. CASE UNCHANGED vars
    BY <1>9 DEF vars, shared, locals, Promise!vars
<1>10. QED
    <2>1. ASSUME NEW t \in Tids, ThreadStep(t) PROVE [Promise!Next]_(Promise!vars)
        BY <2>1, <1>1, <1>2, <1>3, <1>4, <1>5, <1>6, <1>7, <1>8
        DEF ThreadStep, Promise!Next, Swept
    <2>2. QED
        BY <1>9, <2>1 DEF Next

(* For any number of threads, no object of a running thread is ever freed  *)
(* unless that thread asks for it, and none is freed twice: the collector  *)
(* implements its promise (gc.h).                                          *)
THEOREM Implements == Spec => KeepsPromise
<1>1. Init => Promise!Init
    BY DEF Init, Promise!Init
<1>2. IInv /\ [Next]_vars => [Promise!Next]_(Promise!vars)
    BY StepKeepsPromise
<1>3. QED
    BY <1>1, <1>2, Invariance, PTL DEF Spec, Promise!Spec, KeepsPromise

-----------------------------------------------------------------------------
(* The list of GcList, with its pointers and its reused addresses, is the  *)
(* set of Gc.  First what pointers make of addresses: a chain.             *)

Ptrs == Addrs \cup {None}

(* A chain has its first address, whoever is in it but the last one hands  *)
(* on to another in it, and it is in every set of which that is true.      *)
LEMMA ChainIsLeast ==
    ASSUME NEW nx \in [Addrs -> Ptrs], NEW a \in Ptrs, NEW l
    PROVE  /\ List!Chain(nx, a, l) \subseteq Addrs
           /\ a # None => a \in List!Chain(nx, a, l)
           /\ List!Closed(nx, List!Chain(nx, a, l), l)
           /\ \A S \in SUBSET Addrs :
                 (a # None => a \in S) /\ List!Closed(nx, S, l) => List!Chain(nx, a, l) \subseteq S
<1>1. List!Chain(nx, a, l) \subseteq Addrs
    BY DEF List!Chain
<1>2. \A S \in SUBSET Addrs :
          (a # None => a \in S) /\ List!Closed(nx, S, l) => List!Chain(nx, a, l) \subseteq S
    BY DEF List!Chain
<1>3. a # None => a \in List!Chain(nx, a, l)
    BY DEF List!Chain, Ptrs
<1>4. List!Closed(nx, List!Chain(nx, a, l), l)
    <2> SUFFICES ASSUME NEW x \in List!Chain(nx, a, l), x # l, nx[x] # None
                 PROVE  nx[x] \in List!Chain(nx, a, l)
        BY DEF List!Closed
    <2>1. nx[x] \in Addrs
        BY <1>1 DEF Ptrs
    <2>2. ASSUME NEW S \in SUBSET Addrs, a # None => a \in S, List!Closed(nx, S, l)
          PROVE  nx[x] \in S
        BY <1>2, <2>2 DEF List!Closed
    <2> QED
        BY <2>1, <2>2 DEF List!Chain
<1> QED
    BY <1>1, <1>2, <1>3, <1>4

LEMMA ChainOfNone ==
    ASSUME NEW nx \in [Addrs -> Ptrs], NEW l
    PROVE  List!Chain(nx, None, l) = {}
<1>1. List!Closed(nx, {}, l)
    BY DEF List!Closed
<1> QED
    BY <1>1, ChainIsLeast DEF Ptrs

(* Pointers that are the same on a chain, but perhaps for its last         *)
(* address, have the same chain.                                           *)
LEMMA ChainUndisturbed ==
    ASSUME NEW nx \in [Addrs -> Ptrs], NEW ny \in [Addrs -> Ptrs], NEW a \in Ptrs, NEW l,
           \A x \in List!Chain(nx, a, l) : x # l => ny[x] = nx[x]
    PROVE  List!Chain(ny, a, l) = List!Chain(nx, a, l)
<1> DEFINE C == List!Chain(nx, a, l)
           D == List!Chain(ny, a, l)
<1>1. /\ C \subseteq Addrs /\ (a # None => a \in C) /\ List!Closed(nx, C, l)
      /\ \A S \in SUBSET Addrs : (a # None => a \in S) /\ List!Closed(nx, S, l) => C \subseteq S
    BY ChainIsLeast
<1>2. /\ D \subseteq Addrs /\ (a # None => a \in D) /\ List!Closed(ny, D, l)
      /\ \A S \in SUBSET Addrs : (a # None => a \in S) /\ List!Closed(ny, S, l) => D \subseteq S
    BY ChainIsLeast
<1>3. \A x \in C : x # l => ny[x] = nx[x]
    OBVIOUS
<1> HIDE DEF C, D
<1>4. List!Closed(ny, C, l)
    BY <1>1, <1>3 DEF List!Closed
<1>5. List!Closed(nx, C \cap D, l)
    BY <1>1, <1>2, <1>3 DEF List!Closed
<1>6. D \subseteq C
    BY <1>1, <1>2, <1>4
<1>7. C \subseteq C \cap D
    <2>1. C \cap D \in SUBSET Addrs
        BY <1>1
    <2> QED
        BY <1>1, <1>2, <1>5, <2>1
<1>8. C = D
    BY <1>6, <1>7
<1> QED
    BY <1>8 DEF C, D

(* The first address, and the chain of the next one.                       *)
LEMMA ChainBegins ==
    ASSUME NEW nx \in [Addrs -> Ptrs], NEW a \in Addrs, NEW l, a # l
    PROVE  List!Chain(nx, a, l) = {a} \cup List!Chain(nx, nx[a], l)
<1> DEFINE C == List!Chain(nx, a, l)
           D == List!Chain(nx, nx[a], l)
<1>0. a \in Ptrs /\ nx[a] \in Ptrs /\ a # None
    BY ListAssumption DEF Ptrs
<1>1. /\ C \subseteq Addrs /\ a \in C /\ List!Closed(nx, C, l)
      /\ \A S \in SUBSET Addrs : a \in S /\ List!Closed(nx, S, l) => C \subseteq S
    BY <1>0, ChainIsLeast
<1>2. /\ D \subseteq Addrs /\ (nx[a] # None => nx[a] \in D) /\ List!Closed(nx, D, l)
      /\ \A S \in SUBSET Addrs :
            (nx[a] # None => nx[a] \in S) /\ List!Closed(nx, S, l) => D \subseteq S
    BY <1>0, ChainIsLeast
<1> HIDE DEF C, D
<1>3. List!Closed(nx, {a} \cup D, l)
    BY <1>2 DEF List!Closed
<1>4. C \subseteq {a} \cup D
    <2>1. {a} \cup D \in SUBSET Addrs /\ a \in {a} \cup D
        BY <1>2
    <2> QED
        BY <1>1, <1>3, <2>1
<1>5. D \subseteq C
    <2>1. nx[a] # None => nx[a] \in C
        BY <1>1 DEF List!Closed
    <2> QED
        BY <1>1, <1>2, <2>1
<1>6. C = {a} \cup D
    BY <1>1, <1>4, <1>5
<1> QED
    BY <1>6 DEF C, D

(* Where a pointer is null the chain ends anyway.                          *)
LEMMA ChainEnds ==
    ASSUME NEW nx \in [Addrs -> Ptrs], NEW a \in Ptrs, NEW p \in Addrs, nx[p] = None
    PROVE  List!Chain(nx, a, p) = List!Chain(nx, a, None)
<1>1. \A S \in SUBSET Addrs : List!Closed(nx, S, p) <=> List!Closed(nx, S, None)
    BY ListAssumption DEF List!Closed
<1> QED
    BY <1>1 DEF List!Chain

(* A chain up to an address is part of the whole.                          *)
LEMMA ChainPart ==
    ASSUME NEW nx \in [Addrs -> Ptrs], NEW a \in Ptrs, NEW p
    PROVE  List!Chain(nx, a, p) \subseteq List!Chain(nx, a, None)
<1>1. \A S \in SUBSET Addrs : List!Closed(nx, S, None) => List!Closed(nx, S, p)
    BY ListAssumption DEF List!Closed
<1> QED
    BY <1>1 DEF List!Chain

(* A chain goes on behind the address up to which it was followed.         *)
LEMMA ChainGoesOn ==
    ASSUME NEW nx \in [Addrs -> Ptrs], NEW a \in Ptrs, NEW p \in Addrs, p \in List!Chain(nx, a, p)
    PROVE  List!Chain(nx, a, None) = List!Chain(nx, a, p) \cup List!Chain(nx, nx[p], None)
<1> DEFINE C == List!Chain(nx, a, p)
           D == List!Chain(nx, nx[p], None)
           E == List!Chain(nx, a, None)
<1>1. /\ C \subseteq Addrs /\ (a # None => a \in C) /\ List!Closed(nx, C, p) /\ C \subseteq E
    BY ChainIsLeast, ChainPart
<1>0. p \in Addrs /\ nx[p] \in Ptrs /\ p \in C /\ \A x \in Addrs : x # None
    BY <1>1, ListAssumption
<1>2. /\ D \subseteq Addrs /\ (nx[p] # None => nx[p] \in D) /\ List!Closed(nx, D, None)
      /\ \A S \in SUBSET Addrs :
            (nx[p] # None => nx[p] \in S) /\ List!Closed(nx, S, None) => D \subseteq S
    BY <1>0, ChainIsLeast
<1>3. /\ E \subseteq Addrs /\ List!Closed(nx, E, None)
      /\ \A S \in SUBSET Addrs : (a # None => a \in S) /\ List!Closed(nx, S, None) => E \subseteq S
    BY ChainIsLeast
<1> HIDE DEF C, D, E
<1>4. List!Closed(nx, C \cup D, None)
    BY <1>0, <1>1, <1>2 DEF List!Closed
<1>5. E \subseteq C \cup D
    <2>1. C \cup D \in SUBSET Addrs /\ (a # None => a \in C \cup D)
        BY <1>1, <1>2
    <2> QED
        BY <1>3, <1>4, <2>1
<1>6. D \subseteq E
    <2>1. nx[p] # None => nx[p] \in E
        BY <1>0, <1>1, <1>3 DEF List!Closed
    <2> QED
        BY <1>2, <1>3, <2>1
<1>7. E = C \cup D
    BY <1>1, <1>5, <1>6
<1> QED
    BY <1>7 DEF C, D, E

(* A chain is a list when no two of its addresses lead to the same one,    *)
(* and none to the first.                                                  *)
Straight(nx, a, l) ==
    /\ \A x \in List!Chain(nx, a, l) : x # l /\ nx[x] # None => nx[x] # a
    /\ \A x, y \in List!Chain(nx, a, l) :
          x # l /\ y # l /\ nx[x] = nx[y] /\ nx[x] # None => x = y

(* On a list, who is followed by x comes before it.                        *)
LEMMA NotYetThere ==
    ASSUME NEW nx \in [Addrs -> Ptrs], NEW a \in Addrs, Straight(nx, a, None),
           NEW p \in List!Chain(nx, a, None), nx[p] # None
    PROVE  /\ nx[p] \in List!Chain(nx, a, None) /\ nx[p] # a
           /\ nx[p] \notin List!Chain(nx, a, p)
<1> DEFINE C == List!Chain(nx, a, p)
           E == List!Chain(nx, a, None)
           x == nx[p]
<1>0. a \in Ptrs /\ a # None /\ p \in Addrs /\ p # None
    BY ListAssumption, ChainIsLeast DEF Ptrs
<1>1. /\ C \subseteq Addrs /\ a \in C /\ List!Closed(nx, C, p) /\ C \subseteq E
      /\ \A S \in SUBSET Addrs : a \in S /\ List!Closed(nx, S, p) => C \subseteq S
    BY <1>0, ChainIsLeast, ChainPart
<1>2. E \subseteq Addrs /\ List!Closed(nx, E, None) /\ p \in E
    BY <1>0, ChainIsLeast
<1>3. x # a /\ \A y \in E : nx[y] = x => y = p
    BY <1>0, <1>2, ListAssumption DEF Straight
<1> HIDE DEF C, E
<1>4. x \in E
    BY <1>0, <1>2 DEF List!Closed
<1>5. List!Closed(nx, C \ {x}, p)
    <2> SUFFICES ASSUME NEW y \in C \ {x}, y # p, nx[y] # None
                 PROVE  nx[y] \in C \ {x}
        BY DEF List!Closed
    <2>1. nx[y] \in C
        BY <1>1 DEF List!Closed
    <2>2. nx[y] # x
        BY <1>1, <1>3
    <2> QED
        BY <2>1, <2>2
<1>6. x \notin C
    <2>1. C \ {x} \in SUBSET Addrs /\ a \in C \ {x}
        BY <1>1, <1>3
    <2> QED
        BY <1>1, <1>5, <2>1
<1> QED
    BY <1>3, <1>4, <1>6 DEF C, E

(* Taking the first address off a list leaves the others, in a list.       *)
LEMMA WithoutFirst ==
    ASSUME NEW nx \in [Addrs -> Ptrs], NEW a \in Addrs, Straight(nx, a, None)
    PROVE  /\ List!Chain(nx, nx[a], None) = List!Chain(nx, a, None) \ {a}
           /\ Straight(nx, nx[a], None)
<1> DEFINE D == List!Chain(nx, nx[a], None)
           E == List!Chain(nx, a, None)
<1>0. a \in Ptrs /\ a # None /\ nx[a] \in Ptrs /\ \A x \in Addrs : x # None
    BY ListAssumption DEF Ptrs
<1>1. E = {a} \cup D
    BY <1>0, ChainBegins
<1>2. /\ E \subseteq Addrs /\ List!Closed(nx, E, None) /\ a \in E
    BY <1>0, ChainIsLeast
<1>3. /\ \A S \in SUBSET Addrs :
            (nx[a] # None => nx[a] \in S) /\ List!Closed(nx, S, None) => D \subseteq S
    BY <1>0, ChainIsLeast
<1>4. \A x \in E : nx[x] # None => nx[x] # a
    BY <1>0, <1>2 DEF Straight
<1>5. \A x, y \in E : nx[x] = nx[y] /\ nx[x] # None => x = y
    BY <1>0, <1>2 DEF Straight
<1> HIDE DEF D, E
<1>6. List!Closed(nx, E \ {a}, None)
    BY <1>2, <1>4 DEF List!Closed
<1>7. D = E \ {a}
    <2>1. E \ {a} \in SUBSET Addrs /\ (nx[a] # None => nx[a] \in E \ {a})
        BY <1>0, <1>2, <1>4 DEF List!Closed
    <2> QED
        BY <1>1, <1>3, <1>6, <2>1
<1>8. \A x \in D : nx[x] # None => nx[x] # nx[a]
    BY <1>2, <1>5, <1>7
<1>9. \A x, y \in D : nx[x] = nx[y] /\ nx[x] # None => x = y
    BY <1>5, <1>7
<1> QED
    BY <1>7, <1>8, <1>9 DEF D, E, Straight

(* Making the one before an address point to the one after it takes it     *)
(* from the list, and nothing else.                                        *)
LEMMA WithoutNext ==
    ASSUME NEW nx \in [Addrs -> Ptrs], NEW a \in Addrs, Straight(nx, a, None),
           NEW p \in List!Chain(nx, a, None), nx[p] # None,
           NEW ny \in [Addrs -> Ptrs], ny[p] = nx[nx[p]], \A y \in Addrs : y # p => ny[y] = nx[y]
    PROVE  /\ List!Chain(ny, a, None) = List!Chain(nx, a, None) \ {nx[p]}
           /\ Straight(ny, a, None)
           /\ List!Chain(ny, a, p) = List!Chain(nx, a, p)
<1> DEFINE D == List!Chain(ny, a, None)
           E == List!Chain(nx, a, None)
           C == List!Chain(nx, a, p)
           x == nx[p]
<1>0. a \in Ptrs /\ a # None /\ \A y \in Addrs : y # None
    BY ListAssumption DEF Ptrs
<1>1. /\ E \subseteq Addrs /\ a \in E /\ List!Closed(nx, E, None) /\ p \in E
      /\ \A S \in SUBSET Addrs : a \in S /\ List!Closed(nx, S, None) => E \subseteq S
    BY <1>0, ChainIsLeast
<1>2. /\ D \subseteq Addrs /\ a \in D /\ List!Closed(ny, D, None)
      /\ \A S \in SUBSET Addrs : a \in S /\ List!Closed(ny, S, None) => D \subseteq S
    BY <1>0, ChainIsLeast
<1>3. x \in E /\ x # a /\ x \notin C
    BY NotYetThere
<1>4. a \in C /\ p \in Addrs
    BY <1>0, <1>1, ChainIsLeast
<1>5. \A y \in E : nx[y] # None => nx[y] # a
    BY <1>0, <1>1 DEF Straight
<1>6. \A y, z \in E : nx[y] = nx[z] /\ nx[y] # None => y = z
    BY <1>0, <1>1 DEF Straight
<1>7. /\ ny[p] = nx[x]
      /\ \A y \in Addrs : y # p => ny[y] = nx[y]
    BY <1>4
<1>8. List!Chain(ny, a, p) = C
    <2>1. \A y \in C : y # p => ny[y] = nx[y]
        BY <1>0, <1>7, ChainIsLeast
    <2> QED
        BY <1>0, <2>1, ChainUndisturbed
<1> HIDE DEF D, E
<1>9. nx[x] # x
    <2> SUFFICES ASSUME nx[x] = x
                 PROVE  FALSE
        OBVIOUS
    <2>1. x = p
        BY <1>1, <1>3, <1>6
    <2>2. List!Closed(nx, E \ {x}, None)
        BY <1>1, <1>6, <2>1 DEF List!Closed
    <2>3. E \ {x} \in SUBSET Addrs /\ a \in E \ {x}
        BY <1>1, <1>3
    <2> QED
        BY <1>1, <1>3, <2>2, <2>3
<1>10. x # p
    BY <1>3, <1>9
<1> HIDE DEF x
<1>11. x \in Addrs /\ nx[p] = x /\ x # None
    BY <1>1, <1>3, <1>0 DEF x
<1>12. List!Closed(ny, E \ {x}, None)
    <2> SUFFICES ASSUME NEW y \in E \ {x}, y # None, ny[y] # None
                 PROVE  ny[y] \in E \ {x}
        BY DEF List!Closed
    <2>1. CASE y = p
        BY <1>0, <1>1, <1>3, <1>7, <1>9, <2>1 DEF List!Closed
    <2>2. CASE y # p
        <3>1. ny[y] = nx[y] /\ nx[y] \in E
            BY <1>0, <1>1, <1>7, <2>2 DEF List!Closed
        <3>2. nx[y] # x
            BY <1>1, <1>6, <1>11, <2>2
        <3> QED
            BY <3>1, <3>2
    <2> QED
        BY <2>1, <2>2
<1>13. D \subseteq E \ {x}
    <2>1. E \ {x} \in SUBSET Addrs /\ a \in E \ {x}
        BY <1>1, <1>3
    <2> QED
        BY <1>2, <1>12, <2>1
<1>14. E \ {x} \subseteq D
    <2> DEFINE S == IF p \in D THEN D \cup {x} ELSE D
    <2>1. List!Closed(nx, S, None)
        <3>1. CASE p \notin D
            BY <1>2, <1>7, <3>1 DEF List!Closed
        <3>2. CASE p \in D
            <4>1. ASSUME NEW y \in D \cup {x}, nx[y] # None
                  PROVE  nx[y] \in D \cup {x}
                <5>1. CASE y = p
                    BY <1>11, <5>1
                <5>2. CASE y = x
                    BY <1>0, <1>2, <1>4, <1>7, <3>2, <4>1, <5>2 DEF List!Closed
                <5>3. CASE y # p /\ y # x
                    BY <1>0, <1>2, <1>7, <4>1, <5>3 DEF List!Closed
                <5> QED
                    BY <5>1, <5>2, <5>3
            <4> QED
                BY <3>2, <4>1 DEF List!Closed
        <3> QED
            BY <3>1, <3>2
    <2>2. S \in SUBSET Addrs /\ a \in S /\ S \subseteq D \cup {x}
        BY <1>2, <1>11
    <2> HIDE DEF S
    <2> QED
        BY <1>1, <2>1, <2>2
<1>15. D = E \ {x}
    BY <1>13, <1>14
<1>16. Straight(ny, a, None)
    <2>1. \A y \in D : ny[y] # None => ny[y] # a
        BY <1>1, <1>3, <1>5, <1>7, <1>15
    <2>2. \A y, z \in D : ny[y] = ny[z] /\ ny[y] # None => y = z
        BY <1>1, <1>3, <1>6, <1>7, <1>15
    <2> QED
        BY <2>1, <2>2 DEF D, Straight
<1> QED
    BY <1>8, <1>15, <1>16 DEF D, E, x

(* A list that is put in front of another one that shares no address.      *)
LEMMA TwoInOne ==
    ASSUME NEW nx \in [Addrs -> Ptrs], NEW a \in Addrs, NEW p \in Addrs, p \in List!Chain(nx, a, p),
           Straight(nx, a, p), Straight(nx, nx[p], None),
           List!Chain(nx, a, p) \cap List!Chain(nx, nx[p], None) = {}
    PROVE  /\ List!Chain(nx, a, None) = List!Chain(nx, a, p) \cup List!Chain(nx, nx[p], None)
           /\ Straight(nx, a, None)
<1> DEFINE C == List!Chain(nx, a, p)
           h == nx[p]
           D == List!Chain(nx, h, None)
<1>0. a \in Ptrs /\ a # None /\ \A y \in Addrs : y # None
    BY ListAssumption DEF Ptrs
<1>1. List!Chain(nx, a, None) = C \cup D
    BY <1>0, ChainGoesOn
<1>2. C \subseteq Addrs /\ a \in C /\ List!Closed(nx, C, p) /\ p \in C
    BY <1>0, ChainIsLeast
<1>3. h \in Ptrs /\ D \subseteq Addrs /\ (h # None => h \in D) /\ List!Closed(nx, D, None)
    BY <1>2, ChainIsLeast
<1>4. /\ \A x \in C : x # p /\ nx[x] # None => nx[x] # a
      /\ \A x, y \in C : x # p /\ y # p /\ nx[x] = nx[y] /\ nx[x] # None => x = y
    BY DEF Straight
<1>5. /\ \A x \in D : nx[x] # None => nx[x] # h
      /\ \A x, y \in D : nx[x] = nx[y] /\ nx[x] # None => x = y
    BY <1>0, <1>3 DEF Straight
<1>6. C \cap D = {}
    OBVIOUS
<1>7. nx[p] = h
    OBVIOUS
<1> HIDE DEF C, D, h
<1>8. \A x \in C : x # p /\ nx[x] # None => nx[x] \in C
    BY <1>2 DEF List!Closed
<1>9. \A x \in D : nx[x] # None => nx[x] \in D
    BY <1>0, <1>3 DEF List!Closed
<1>10. \A x \in C \cup D : nx[x] # None => nx[x] # a
    BY <1>2, <1>3, <1>4, <1>6, <1>7, <1>9
<1>11. \A x, y \in C \cup D : nx[x] = nx[y] /\ nx[x] # None => x = y
    BY <1>3, <1>4, <1>5, <1>6, <1>7, <1>8, <1>9
<1>12. Straight(nx, a, None)
    BY <1>1, <1>10, <1>11 DEF Straight
<1> QED
    BY <1>1, <1>12 DEF C, D, h

ListPlaces == {"idle", "push", "pushCas", "detach", "detachCas", "list",
               "tail", "sweep", "delete", "splice", "spliceCas"}

ListTypes ==
    /\ listLive \in SUBSET Tids
    /\ listOwner \in [Objs -> Tids \cup {None}]
    /\ listOrphans \in SUBSET Objs
    /\ listReleased \in SUBSET Objs
    /\ obj \in [Addrs -> Objs \cup {None}]
    /\ next \in [Addrs -> Ptrs]
    /\ first \in Ptrs
    /\ listPc \in [Tids -> ListPlaces]
    /\ listTodo \in [Tids -> SUBSET Tids]
    /\ listSnap \in [Tids -> SUBSET Tids]
    /\ new \in [Tids -> Ptrs]
    /\ tmp \in [Tids -> Ptrs]
    /\ prev \in [Tids -> Ptrs]

(* What a thread has in its hands, and what it has walked over.            *)
Walked(t) == List!Chain(next, tmp[t], prev[t])

ListHands(t) ==
    /\ listPc[t] # "idle" => t \in listLive
    /\ listPc[t] \in {"idle", "delete"} => new[t] = None
    /\ listPc[t] \in {"push", "pushCas", "list", "tail", "sweep"} => new[t] # None
    /\ listPc[t] \in {"splice", "spliceCas"} => prev[t] # None
    /\ listPc[t] = "tail" => tmp[t] # None
    /\ prev[t] # None => /\ listPc[t] \in {"tail", "sweep", "delete", "splice", "spliceCas"}
                         /\ prev[t] \in Walked(t)
    /\ listPc[t] \notin {"list", "sweep"} => listTodo[t] = {} /\ listSnap[t] = {}

(* Nothing that a thread has passed is to be freed.                        *)
PassedStay(t) ==
    listPc[t] \in {"sweep", "delete"} /\ prev[t] # None =>
        \A x \in Walked(t) : ~List!Wanted(t, obj[x])

ThreadInv(t) ==
    /\ ListHands(t)
    /\ PassedStay(t)
    /\ List!Holds(t) => Straight(next, tmp[t], List!End(t))

(* No address is in two lists, or in a list and about to be inserted.      *)
Apart ==
    /\ \A t \in Tids : List!Linked \cap List!Taken(t) = {} /\ new[t] \notin List!Linked
    /\ \A t, u \in Tids :
          /\ new[t] \notin List!Taken(u)
          /\ t # u => List!Taken(t) \cap List!Taken(u) = {}
          /\ t # u /\ new[t] = new[u] => new[t] = None

(* Every node is somewhere, and every kept object has one node.            *)
InUse ==
    \A a \in Addrs : obj[a] # None <=>
        a \in List!Linked \/ \E t \in Tids : a \in List!Taken(t) \/ a = new[t]

ListKept == {o \in Objs : listOwner[o] # None} \ listReleased

OneNodeEach ==
    /\ \A a, b \in Addrs : obj[a] = obj[b] /\ obj[a] # None => a = b
    /\ \A o \in Objs : o \in ListKept <=> \E a \in Addrs : obj[a] = o

ListCounted ==
    /\ \A o \in listReleased : listOwner[o] # None
    /\ IsFiniteSet(ListKept) /\ listCount = Cardinality(ListKept)

ListInv ==
    /\ ListTypes
    /\ Straight(next, first, None)
    /\ \A t \in Tids : ThreadInv(t)
    /\ Apart /\ InUse /\ OneNodeEach /\ ListCounted

(* The types of what lists are made of.                                    *)
LEMMA ListFacts ==
    ASSUME ListTypes
    PROVE  /\ next \in [Addrs -> Ptrs] /\ first \in Ptrs
           /\ \A t \in Tids : tmp[t] \in Ptrs /\ prev[t] \in Ptrs /\ List!End(t) \in Ptrs
           /\ List!Linked \subseteq Addrs
           /\ \A t \in Tids : List!Taken(t) \subseteq Addrs /\ Walked(t) \subseteq Addrs
<1>1. /\ next \in [Addrs -> Ptrs] /\ first \in Ptrs
      /\ \A t \in Tids : tmp[t] \in Ptrs /\ prev[t] \in Ptrs
    BY DEF ListTypes
<1>2. \A t \in Tids : List!End(t) \in Ptrs
    BY <1>1 DEF List!End, Ptrs
<1>3. \A a \in Ptrs : \A l : List!Chain(next, a, l) \subseteq Addrs
    BY <1>1, ChainIsLeast
<1>4. \A t \in Tids : List!Taken(t) \subseteq Addrs /\ Walked(t) \subseteq Addrs
    BY <1>1, <1>2, <1>3 DEF List!Taken, Walked
<1> QED
    BY <1>1, <1>2, <1>3, <1>4 DEF List!Linked

(* What a thread has walked over is part of what it has taken.             *)
LEMMA WalkedIsTaken ==
    ASSUME ListTypes, NEW t \in Tids, ListHands(t), prev[t] # None
    PROVE  List!Holds(t) /\ prev[t] \in Walked(t) /\ Walked(t) \subseteq List!Taken(t)
<1>1. List!Holds(t) /\ prev[t] \in Walked(t)
    BY DEF ListHands, List!Holds
<1>2. tmp[t] \in Ptrs /\ next \in [Addrs -> Ptrs]
    BY DEF ListTypes
<1>3. Walked(t) \subseteq List!Chain(next, tmp[t], None)
    BY <1>2, ChainPart DEF Walked
<1> QED
    BY <1>1, <1>3 DEF Walked, List!Taken, List!End

(* Who does not take the step keeps what it has, if nothing is changed in  *)
(* what it has taken but the pointer at its end.                           *)
LEMMA OtherThread ==
    ASSUME ListTypes, ListTypes', NEW t \in Tids, ThreadInv(t),
           listPc'[t] = listPc[t], tmp'[t] = tmp[t], prev'[t] = prev[t], new'[t] = new[t],
           listTodo'[t] = listTodo[t], listSnap'[t] = listSnap[t],
           listPc[t] # "idle" /\ t \in listLive => t \in listLive',
           \A x \in List!Taken(t) : x # List!End(t) => next'[x] = next[x],
           \A x \in List!Taken(t) : obj'[x] = obj[x] /\ listOwner'[obj[x]] = listOwner[obj[x]]
    PROVE  List!Taken(t)' = List!Taken(t) /\ ThreadInv(t)'
<1>1. /\ next \in [Addrs -> Ptrs] /\ next' \in [Addrs -> Ptrs]
      /\ tmp[t] \in Ptrs /\ prev[t] \in Ptrs /\ List!End(t) \in Ptrs
    BY ListFacts DEF ListTypes
<1>2. List!End(t)' = List!End(t) /\ (List!Holds(t)' <=> List!Holds(t))
    BY DEF List!End, List!Holds
<1>3. List!Holds(t) =>
          List!Chain(next', tmp[t], List!End(t)) = List!Chain(next, tmp[t], List!End(t))
    BY <1>1, ChainUndisturbed DEF List!Taken
<1>4. List!Taken(t)' = List!Taken(t)
    BY <1>2, <1>3 DEF List!Taken
<1>5. prev[t] # None => Walked(t)' = Walked(t)
    <2> SUFFICES ASSUME prev[t] # None
                 PROVE  List!Chain(next', tmp[t], prev[t]) = List!Chain(next, tmp[t], prev[t])
        BY DEF Walked
    <2>1. Walked(t) \subseteq List!Taken(t) /\ Walked(t) \subseteq Addrs
        BY WalkedIsTaken, ListFacts DEF ThreadInv
    <2>2. List!End(t) = prev[t] \/ List!End(t) = None
        BY DEF List!End
    <2>3. \A x \in List!Chain(next, tmp[t], prev[t]) : x # prev[t] => next'[x] = next[x]
        BY <2>1, <2>2, ListAssumption DEF Walked
    <2> QED
        BY <1>1, <2>3, ChainUndisturbed
<1>6. ListHands(t)'
    BY <1>5 DEF ListHands, ThreadInv
<1>7. PassedStay(t)'
    <2> SUFFICES ASSUME listPc[t] \in {"sweep", "delete"}, prev[t] # None,
                        NEW x \in Walked(t)'
                 PROVE  ~List!Wanted(t, obj[x])'
        BY DEF PassedStay
    <2>1. x \in Walked(t) /\ x \in List!Taken(t)
        BY <1>5, WalkedIsTaken DEF ThreadInv
    <2>2. ~List!Wanted(t, obj[x])
        BY <2>1 DEF ThreadInv, PassedStay
    <2> QED
        BY <2>1, <2>2 DEF List!Wanted
<1>8. List!Holds(t)' => Straight(next, tmp[t], List!End(t))'
    <2> SUFFICES ASSUME List!Holds(t)
                 PROVE  Straight(next', tmp[t], List!End(t))
        BY <1>2
    <2>1. Straight(next, tmp[t], List!End(t))
        BY DEF ThreadInv
    <2>2. \A x \in List!Chain(next, tmp[t], List!End(t)) : x # List!End(t) => next'[x] = next[x]
        BY DEF List!Taken
    <2> QED
        BY <1>3, <2>1, <2>2 DEF Straight
<1> QED
    BY <1>4, <1>6, <1>7, <1>8 DEF ThreadInv

(* The places of GcList and those of Gc.                                   *)
LEMMA PlaceIs ==
    ASSUME NEW t \in Tids
    PROVE  /\ listPc[t] \in {"detach", "detachCas"} =>
                  List!Place(t) = IF new[t] = None THEN "idle" ELSE "detach"
           /\ listPc[t] \in {"push", "pushCas"} => List!Place(t) = "push"
           /\ listPc[t] \in {"tail", "splice", "spliceCas"} => List!Place(t) = "splice"
           /\ listPc[t] \in {"idle", "list", "sweep", "delete"} => List!Place(t) = listPc[t]
    BY Zenon DEF List!Place, List!InDelete

LEMMA PlaceSame ==
    ASSUME NEW t \in Tids, listPc'[t] = listPc[t], new'[t] = new[t]
    PROVE  List!Place(t)' = List!Place(t)
    BY Zenon DEF List!Place, List!InDelete

LEMMA ListInit == List!Init => ListInv /\ List!Sets!Init
<1> SUFFICES ASSUME List!Init
             PROVE  ListInv /\ List!Sets!Init
    OBVIOUS
<1>1. ListTypes
    BY DEF List!Init, ListTypes, ListPlaces, Ptrs
<1>2. List!Linked = {}
    BY <1>1, ChainOfNone DEF List!Linked, List!Init, ListTypes
<1>3. \A t \in Tids : listPc[t] = "idle" /\ prev[t] = None /\ new[t] = None
                      /\ listTodo[t] = {} /\ listSnap[t] = {}
    BY DEF List!Init
<1>4. \A t \in Tids : ~List!Holds(t) /\ List!Taken(t) = {}
    BY <1>3 DEF List!Holds, List!Taken
<1>5. \A t \in Tids : ThreadInv(t)
    BY <1>3, <1>4 DEF ThreadInv, ListHands, PassedStay
<1>6. Straight(next, first, None)
    BY <1>2 DEF Straight, List!Linked
<1>7. Apart /\ InUse
    BY <1>2, <1>3, <1>4, ListAssumption DEF Apart, InUse, List!Init
<1>8. ListKept = {}
    BY DEF List!Init, ListKept
<1>9. OneNodeEach /\ ListCounted
    BY <1>8, FS_EmptySet, GcAssumption DEF OneNodeEach, ListCounted, List!Init
<1>10. ListInv
    BY <1>1, <1>5, <1>6, <1>7, <1>9 DEF ListInv
<1>11. List!At(List!Linked) = {} /\ \A t \in Tids : List!At(List!Taken(t)) = {}
    BY <1>2, <1>4 DEF List!At
<1>12. \A t \in Tids : List!Place(t) = "idle"
    BY <1>3, PlaceIs
<1>13. List!Sets!Init
    BY <1>3, <1>11, <1>12 DEF List!Init, List!Sets!Init
<1> QED
    BY <1>10, <1>13

SetsStep == List!Sets!Next \/ UNCHANGED List!Sets!vars

(* Lists and hands as they were: the invariant holds on.                   *)
LEMMA Settled ==
    ASSUME ListInv, ListTypes', List!Linked' = List!Linked, Straight(next, first, None)',
           \A t \in Tids : List!Taken(t)' = List!Taken(t) /\ ThreadInv(t)',
           UNCHANGED <<obj, new, listOwner, listReleased, listCount>>
    PROVE  ListInv'
<1>1. Apart'
    BY DEF ListInv, Apart
<1>2. InUse'
    BY DEF ListInv, InUse
<1>3. OneNodeEach' /\ ListCounted'
    BY DEF ListInv, OneNodeEach, ListCounted, ListKept
<1> QED
    BY <1>1, <1>2, <1>3 DEF ListInv

(* ... and what it is in Gc is the same.                                   *)
LEMMA SameSets ==
    ASSUME List!Linked' = List!Linked, \A t \in Tids : List!Taken(t)' = List!Taken(t),
           UNCHANGED <<obj, new>>
    PROVE  /\ List!At(List!Linked)' = List!At(List!Linked)
           /\ [t \in Tids |-> List!At(List!Taken(t))]' = [t \in Tids |-> List!At(List!Taken(t))]
           /\ [t \in Tids |-> IF new[t] = None THEN None ELSE obj[new[t]]]'
                  = [t \in Tids |-> IF new[t] = None THEN None ELSE obj[new[t]]]
    BY DEF List!At

LEMMA StutterOfSets ==
    ASSUME List!Linked' = List!Linked, \A t \in Tids : List!Taken(t)' = List!Taken(t),
           UNCHANGED <<obj, new, listLive, listOwner, listOrphans, listReleased, listCount,
                       listTodo, listSnap>>,
           \A t \in Tids : List!Place(t)' = List!Place(t)
    PROVE  UNCHANGED List!Sets!vars
<1>1. [t \in Tids |-> List!Place(t)]' = [t \in Tids |-> List!Place(t)]
    OBVIOUS
<1> QED
    BY <1>1, SameSets DEF List!Sets!vars, List!Sets!shared, List!Sets!locals

(* Threads come and go.                                                    *)
LEMMA ListSpawn ==
    ASSUME ListInv, NEW t \in Tids, List!Spawn(t)
    PROVE  ListInv' /\ SetsStep
<1>0. /\ t \notin listLive /\ listLive' = listLive \cup {t}
      /\ UNCHANGED <<listOwner, listOrphans, listReleased, listCount, obj, next, first,
                     listPc, listTodo, listSnap, new, tmp, prev>>
    BY DEF List!Spawn, List!heap, List!locals
<1>1. ListTypes /\ ListTypes'
    BY <1>0 DEF ListInv, ListTypes
<1>2. List!Linked' = List!Linked /\ Straight(next, first, None)'
    BY <1>0 DEF List!Linked, ListInv, Straight
<1>3. \A u \in Tids : List!Taken(u)' = List!Taken(u) /\ ThreadInv(u)'
    BY <1>0, <1>1, OtherThread DEF ListInv
<1>4. ListInv'
    BY <1>0, <1>1, <1>2, <1>3, Settled
<1>5. List!Sets!Spawn(t)
    <2>1. [u \in Tids |-> List!Place(u)]' = [u \in Tids |-> List!Place(u)]
        BY <1>0, PlaceSame
    <2> QED
        BY <1>0, <1>2, <1>3, <2>1, SameSets DEF List!Sets!Spawn, List!Sets!locals
<1> QED
    BY <1>4, <1>5 DEF SetsStep, List!Sets!Next, List!Sets!ThreadStep

LEMMA ListExit ==
    ASSUME ListInv, NEW t \in Tids, List!Exit(t)
    PROVE  ListInv' /\ SetsStep
<1>0. /\ t \in listLive /\ listPc[t] = "idle" /\ listLive' = listLive \ {t}
      /\ listOrphans' = listOrphans \cup {o \in Objs : listOwner[o] = t}
      /\ UNCHANGED <<listOwner, listReleased, listCount, obj, next, first,
                     listPc, listTodo, listSnap, new, tmp, prev>>
    BY DEF List!Exit, List!heap, List!locals, List!OwnedBy
<1>1. ListTypes /\ ListTypes'
    BY <1>0 DEF ListInv, ListTypes
<1>2. List!Linked' = List!Linked /\ Straight(next, first, None)'
    BY <1>0 DEF List!Linked, ListInv, Straight
<1>3. \A u \in Tids : List!Taken(u)' = List!Taken(u) /\ ThreadInv(u)'
    BY <1>0, <1>1, OtherThread DEF ListInv
<1>4. ListInv'
    BY <1>0, <1>1, <1>2, <1>3, Settled
<1>5. List!Sets!Exit(t)
    <2>1. [u \in Tids |-> List!Place(u)]' = [u \in Tids |-> List!Place(u)]
        BY <1>0, PlaceSame
    <2>2. [u \in Tids |-> List!Place(u)][t] = "idle"
        BY <1>0, PlaceIs
    <2> QED
        BY <1>0, <1>2, <1>3, <2>1, <2>2, SameSets
        DEF List!Sets!Exit, List!Sets!locals, List!Sets!OwnedBy
<1> QED
    BY <1>4, <1>5 DEF SetsStep, List!Sets!Next, List!Sets!ThreadStep

(* A thread that has taken nothing reads the head, or a comparison fails:  *)
(* what is behind Gc's back.                                               *)
LEMMA Unnoticed ==
    ASSUME ListInv, NEW t \in Tids, NEW p \in ListPlaces,
           listPc' = [listPc EXCEPT ![t] = p],
           UNCHANGED <<obj, new, listLive, listOwner, listOrphans, listReleased, listCount,
                       listTodo, listSnap, first, prev>>,
           ListTypes', List!Linked' = List!Linked, Straight(next, first, None)',
           \A u \in Tids : List!Taken(u)' = List!Taken(u) /\ ThreadInv(u)',
           List!Place(t)' = List!Place(t)
    PROVE  ListInv' /\ SetsStep
<1>1. ListInv'
    BY Settled
<1>2. \A u \in Tids : List!Place(u)' = List!Place(u)
    BY PlaceSame DEF ListInv, ListTypes
<1>3. UNCHANGED List!Sets!vars
    BY <1>2, StutterOfSets
<1> QED
    BY <1>1, <1>3 DEF SetsStep

LEMMA ListDeleteObj ==
    ASSUME ListInv, NEW t \in Tids, List!DeleteObj(t)
    PROVE  ListInv' /\ SetsStep
<1>0. /\ t \in listLive /\ listPc[t] = "idle" /\ listPc' = [listPc EXCEPT ![t] = "detach"]
      /\ UNCHANGED <<listLive, listOwner, listOrphans, listReleased, listCount, obj, next, first,
                     listTodo, listSnap, new, tmp, prev>>
    BY DEF List!DeleteObj, List!heap, List!shared, List!Goto
<1>1. ListTypes /\ ListTypes'
    BY <1>0 DEF ListInv, ListTypes, ListPlaces
<1>2. List!Linked' = List!Linked /\ Straight(next, first, None)'
    BY <1>0 DEF List!Linked, ListInv, Straight
<1>3. \A u \in Tids \ {t} : List!Taken(u)' = List!Taken(u) /\ ThreadInv(u)'
    BY <1>0, <1>1, OtherThread DEF ListInv, ListTypes
<1>4. listPc'[t] = "detach"
    BY <1>0, <1>1 DEF ListTypes
<1>5. ListHands(t)
    BY DEF ListInv, ThreadInv
<1>6. List!Taken(t)' = List!Taken(t) /\ ~List!Holds(t)'
    BY <1>0, <1>4 DEF List!Taken, List!Holds
<1>7. ThreadInv(t)'
    BY <1>0, <1>4, <1>5, <1>6 DEF ThreadInv, ListHands, PassedStay
<1>8. List!Place(t)' = List!Place(t)
    <2>1. List!Place(t) = "idle" /\ new[t] = None
        BY <1>0, <1>5, PlaceIs DEF ListHands
    <2>2. List!Place(t)' = "idle"
        BY <1>0, <1>4, <2>1, Zenon DEF List!Place, List!InDelete
    <2> QED
        BY <2>1, <2>2
<1> QED
    BY <1>0, <1>1, <1>2, <1>3, <1>6, <1>7, <1>8, Unnoticed DEF ListPlaces

LEMMA PlaceBecomes ==
    ASSUME NEW t \in Tids
    PROVE  /\ listPc'[t] \in {"detach", "detachCas"} =>
                  List!Place(t)' = IF new'[t] = None THEN "idle" ELSE "detach"
           /\ listPc'[t] \in {"push", "pushCas"} => List!Place(t)' = "push"
           /\ listPc'[t] \in {"tail", "splice", "spliceCas"} => List!Place(t)' = "splice"
           /\ listPc'[t] \in {"idle", "list", "sweep", "delete"} => List!Place(t)' = listPc'[t]
    BY Zenon DEF List!Place, List!InDelete

(* What stays when a thread moves and nodes do not.                        *)
LEMMA Alone ==
    ASSUME ListInv, ListTypes', NEW t \in Tids,
           UNCHANGED <<obj, new, next, listLive, listOwner>>,
           \A u \in Tids \ {t} : /\ listPc'[u] = listPc[u]
                                 /\ tmp'[u] = tmp[u] /\ prev'[u] = prev[u]
                                 /\ listTodo'[u] = listTodo[u] /\ listSnap'[u] = listSnap[u]
    PROVE  /\ first' = first => List!Linked' = List!Linked /\ Straight(next, first, None)'
           /\ \A u \in Tids \ {t} : /\ List!Taken(u)' = List!Taken(u) /\ ThreadInv(u)'
                                    /\ List!Place(u)' = List!Place(u)
<1>1. first' = first => List!Linked' = List!Linked /\ Straight(next, first, None)'
    BY DEF List!Linked, ListInv, Straight
<1>2. \A u \in Tids \ {t} : List!Taken(u)' = List!Taken(u) /\ ThreadInv(u)'
    BY OtherThread DEF ListInv
<1>3. \A u \in Tids \ {t} : List!Place(u)' = List!Place(u)
    BY PlaceSame
<1> QED
    BY <1>1, <1>2, <1>3

LEMMA ListDetachRead ==
    ASSUME ListInv, NEW t \in Tids, List!DetachRead(t)
    PROVE  ListInv' /\ SetsStep
<1>0. /\ listPc[t] = "detach" /\ listPc' = [listPc EXCEPT ![t] = "detachCas"]
      /\ tmp' = [tmp EXCEPT ![t] = first]
      /\ UNCHANGED <<listLive, listOwner, listOrphans, listReleased, listCount, obj, next, first,
                     listTodo, listSnap, new, prev>>
    BY DEF List!DetachRead, List!heap, List!shared, List!Goto
<1>1. ListTypes /\ ListTypes'
    BY <1>0 DEF ListInv, ListTypes, ListPlaces
<1>2. listPc'[t] = "detachCas" /\ \A u \in Tids \ {t} : listPc'[u] = listPc[u] /\ tmp'[u] = tmp[u]
    BY <1>0, <1>1 DEF ListTypes
<1>3. /\ List!Linked' = List!Linked /\ Straight(next, first, None)'
      /\ \A u \in Tids \ {t} : List!Taken(u)' = List!Taken(u) /\ ThreadInv(u)'
    BY <1>0, <1>1, <1>2, Alone
<1>4. List!Taken(t)' = List!Taken(t) /\ ~List!Holds(t)'
    BY <1>0, <1>2 DEF List!Taken, List!Holds
<1>5. ThreadInv(t)'
    BY <1>0, <1>2, <1>4 DEF ListInv, ThreadInv, ListHands, PassedStay
<1>6. List!Place(t)' = List!Place(t)
    BY <1>0, <1>2, PlaceIs, PlaceBecomes
<1> QED
    BY <1>0, <1>1, <1>3, <1>4, <1>5, <1>6, Unnoticed DEF ListPlaces

LEMMA ListDetachAgain ==
    ASSUME ListInv, NEW t \in Tids, List!DetachCas(t), first # tmp[t]
    PROVE  ListInv' /\ SetsStep
<1>0. /\ listPc[t] = "detachCas" /\ listPc' = [listPc EXCEPT ![t] = "detach"]
      /\ UNCHANGED <<listLive, listOwner, listOrphans, listReleased, listCount, obj, next, first,
                     listTodo, listSnap, new, tmp, prev>>
    BY DEF List!DetachCas, List!shared, List!Goto
<1>1. ListTypes /\ ListTypes'
    BY <1>0 DEF ListInv, ListTypes, ListPlaces
<1>2. listPc'[t] = "detach" /\ \A u \in Tids \ {t} : listPc'[u] = listPc[u]
    BY <1>0, <1>1 DEF ListTypes
<1>3. /\ List!Linked' = List!Linked /\ Straight(next, first, None)'
      /\ \A u \in Tids \ {t} : List!Taken(u)' = List!Taken(u) /\ ThreadInv(u)'
    BY <1>0, <1>1, <1>2, Alone
<1>4. List!Taken(t)' = List!Taken(t) /\ ~List!Holds(t)'
    BY <1>0, <1>2 DEF List!Taken, List!Holds
<1>5. ThreadInv(t)'
    BY <1>0, <1>2, <1>4 DEF ListInv, ThreadInv, ListHands, PassedStay
<1>6. List!Place(t)' = List!Place(t)
    BY <1>0, <1>2, PlaceIs, PlaceBecomes
<1> QED
    BY <1>0, <1>1, <1>3, <1>4, <1>5, <1>6, Unnoticed DEF ListPlaces

(* The whole list is taken.                                                *)
LEMMA ListDetach ==
    ASSUME ListInv, NEW t \in Tids, List!DetachCas(t), first = tmp[t]
    PROVE  ListInv' /\ SetsStep
<1> DEFINE p == IF new[t] = None THEN "delete" ELSE "list"
           S == IF new[t] = None THEN {} ELSE Tids
<1>0. /\ listPc[t] = "detachCas" /\ listPc' = [listPc EXCEPT ![t] = p]
      /\ listTodo' = [listTodo EXCEPT ![t] = S] /\ first' = None
      /\ UNCHANGED <<listLive, listOwner, listOrphans, listReleased, listCount, obj, next,
                     listSnap, new, tmp, prev>>
    BY DEF List!DetachCas, List!shared, List!Goto, List!InDelete
<1> HIDE DEF p, S
<1>p. p \in {"delete", "list"} /\ S \in SUBSET Tids
    BY DEF p, S
<1>1. ListTypes /\ ListTypes'
    BY <1>0, <1>p DEF ListInv, ListTypes, ListPlaces, Ptrs
<1>2. /\ listPc'[t] = p /\ listTodo'[t] = S
      /\ \A u \in Tids \ {t} : listPc'[u] = listPc[u] /\ listTodo'[u] = listTodo[u]
    BY <1>0, <1>1 DEF ListTypes
<1>3. \A u \in Tids \ {t} : /\ List!Taken(u)' = List!Taken(u) /\ ThreadInv(u)'
                            /\ List!Place(u)' = List!Place(u)
    BY <1>0, <1>1, <1>2, Alone
<1>h. ListHands(t) /\ prev[t] = None /\ listSnap[t] = {} /\ t \in listLive
    BY <1>0 DEF ListInv, ThreadInv, ListHands
<1>4. List!Linked' = {} /\ Straight(next, first, None)'
    BY <1>0, <1>1, ChainOfNone DEF List!Linked, ListTypes, Straight
<1>5. /\ List!Taken(t) = {} /\ List!Holds(t)' /\ List!End(t)' = None
      /\ List!Taken(t)' = List!Linked
    BY <1>0, <1>2, <1>p DEF List!Taken, List!Holds, List!End, List!Linked
<1>6. ThreadInv(t)'
    <2>1. ListHands(t)'
        BY <1>0, <1>2, <1>h DEF ListHands, p, S
    <2>2. PassedStay(t)'
        BY <1>0, <1>h DEF PassedStay
    <2>3. Straight(next, tmp[t], List!End(t))'
        BY <1>0, <1>5 DEF ListInv, Straight
    <2> QED
        BY <2>1, <2>2, <2>3 DEF ThreadInv
<1>7. Apart'
    <2>1. \A u \in Tids : List!Linked \cap List!Taken(u) = {} /\ new[u] \notin List!Linked
        BY DEF ListInv, Apart
    <2>2. \A u, v \in Tids :
              /\ new[u] \notin List!Taken(v)
              /\ u # v => List!Taken(u) \cap List!Taken(v) = {}
              /\ u # v /\ new[u] = new[v] => new[u] = None
        BY DEF ListInv, Apart
    <2>3. \A u, v \in Tids : new[u] \notin List!Taken(v)'
        BY <1>3, <1>5, <2>1, <2>2
    <2>4. \A u, v \in Tids : u # v => List!Taken(u)' \cap List!Taken(v)' = {}
        BY <1>3, <1>5, <2>1, <2>2
    <2> QED
        BY <1>0, <1>4, <2>2, <2>3, <2>4 DEF Apart
<1>8. InUse'
    <2>1. \A a \in Addrs : obj[a] # None <=>
              a \in List!Linked \/ \E u \in Tids : a \in List!Taken(u) \/ a = new[u]
        BY DEF ListInv, InUse
    <2>2. \A a : (a \in List!Linked \/ \E u \in Tids : a \in List!Taken(u) \/ a = new[u])
                 <=> \E u \in Tids : a \in List!Taken(u)' \/ a = new[u]
        BY <1>3, <1>5
    <2> QED
        BY <1>0, <1>4, <2>1, <2>2 DEF InUse
<1>9. ListInv'
    <2>1. OneNodeEach' /\ ListCounted'
        BY <1>0 DEF ListInv, OneNodeEach, ListCounted, ListKept
    <2> QED
        BY <1>1, <1>3, <1>4, <1>6, <1>7, <1>8, <2>1 DEF ListInv
<1>10. /\ List!At(List!Linked)' = {}
       /\ [u \in Tids |-> List!At(List!Taken(u))]'
              = [[u \in Tids |-> List!At(List!Taken(u))] EXCEPT ![t] = List!At(List!Linked)]
    BY <1>0, <1>3, <1>4, <1>5 DEF List!At
<1>11. [u \in Tids |-> IF new[u] = None THEN None ELSE obj[new[u]]]'
           = [u \in Tids |-> IF new[u] = None THEN None ELSE obj[new[u]]]
    BY <1>0
<1>12. /\ [u \in Tids |-> List!Place(u)]' = [[u \in Tids |-> List!Place(u)] EXCEPT ![t] = p]
       /\ [u \in Tids |-> List!Place(u)][t] = IF new[t] = None THEN "idle" ELSE "detach"
    BY <1>0, <1>2, <1>3, <1>p, PlaceIs, PlaceBecomes
<1>13. CASE new[t] = None
    <2>1. listTodo' = listTodo
        BY <1>0, <1>1, <1>h, <1>13 DEF ListHands, ListTypes, S
    <2>2. List!Sets!DeleteObj(t)
        BY <1>0, <1>10, <1>11, <1>12, <1>13, <1>h, <2>1
        DEF List!Sets!DeleteObj, List!Sets!TakeList, List!Sets!Goto, p
    <2> QED
        BY <1>9, <2>2 DEF SetsStep, List!Sets!Next, List!Sets!ThreadStep
<1>14. CASE new[t] # None
    <2>1. listSnap' = [listSnap EXCEPT ![t] = {}]
        BY <1>0, <1>1, <1>h DEF ListTypes
    <2>2. List!Sets!Detach(t)
        BY <1>0, <1>10, <1>11, <1>12, <1>14, <2>1
        DEF List!Sets!Detach, List!Sets!TakeList, List!Sets!Goto, p, S
    <2> QED
        BY <1>9, <2>2 DEF SetsStep, List!Sets!Next, List!Sets!ThreadStep
<1> QED
    BY <1>13, <1>14

(* What Gc's variables adding, held and pc are here.                       *)
Adding == [t \in Tids |-> IF new[t] = None THEN None ELSE obj[new[t]]]
Held   == [t \in Tids |-> List!At(List!Taken(t))]
Places == [t \in Tids |-> List!Place(t)]

LEMMA ListReadTask ==
    ASSUME ListInv, NEW t \in Tids, NEW u \in Tids, List!ReadTask(t, u)
    PROVE  ListInv' /\ SetsStep
<1> DEFINE S == IF u \in listLive THEN listSnap[t] \cup {u} ELSE listSnap[t]
<1>0. /\ listPc[t] = "list" /\ u \in listTodo[t]
      /\ listTodo' = [listTodo EXCEPT ![t] = @ \ {u}]
      /\ listSnap' = [listSnap EXCEPT ![t] = S]
      /\ UNCHANGED <<listLive, listOwner, listOrphans, listReleased, listCount, obj, next, first,
                     listPc, new, tmp, prev>>
    BY DEF List!ReadTask, List!heap, List!shared
<1>1. ListTypes /\ ListTypes'
    BY <1>0 DEF ListInv, ListTypes
<1> HIDE DEF S
<1>2. \A v \in Tids \ {t} : listTodo'[v] = listTodo[v] /\ listSnap'[v] = listSnap[v]
    BY <1>0, <1>1 DEF ListTypes
<1>3. /\ List!Linked' = List!Linked /\ Straight(next, first, None)'
      /\ \A v \in Tids \ {t} : /\ List!Taken(v)' = List!Taken(v) /\ ThreadInv(v)'
                               /\ List!Place(v)' = List!Place(v)
    BY <1>0, <1>1, <1>2, Alone
<1>4. /\ List!Taken(t)' = List!Taken(t) /\ List!End(t)' = List!End(t)
      /\ List!Holds(t)' = List!Holds(t)
    BY <1>0 DEF List!Taken, List!Holds, List!End
<1>5. ThreadInv(t)'
    BY <1>0, <1>4 DEF ListInv, ThreadInv, ListHands, PassedStay, Straight, Walked
<1>6. ListInv'
    BY <1>0, <1>1, <1>3, <1>4, <1>5, Settled
<1>7. Places' = Places /\ Places[t] = "list"
    BY <1>0, <1>3, PlaceSame, PlaceIs DEF Places
<1>8. List!Sets!ReadTask(t, u)
    BY <1>0, <1>3, <1>4, <1>7, SameSets DEF List!Sets!ReadTask, List!Sets!shared, Places, S
<1> QED
    BY <1>6, <1>8 DEF SetsStep, List!Sets!Next, List!Sets!ThreadStep

LEMMA ListListed ==
    ASSUME ListInv, NEW t \in Tids, List!Listed(t)
    PROVE  ListInv' /\ SetsStep
<1>0. /\ listPc[t] = "list" /\ listTodo[t] = {} /\ listPc' = [listPc EXCEPT ![t] = "sweep"]
      /\ UNCHANGED <<listLive, listOwner, listOrphans, listReleased, listCount, obj, next, first,
                     listTodo, listSnap, new, tmp, prev>>
    BY DEF List!Listed, List!heap, List!shared, List!Goto
<1>1. ListTypes /\ ListTypes'
    BY <1>0 DEF ListInv, ListTypes, ListPlaces
<1>2. listPc'[t] = "sweep" /\ \A u \in Tids \ {t} : listPc'[u] = listPc[u]
    BY <1>0, <1>1 DEF ListTypes
<1>3. /\ List!Linked' = List!Linked /\ Straight(next, first, None)'
      /\ \A v \in Tids \ {t} : /\ List!Taken(v)' = List!Taken(v) /\ ThreadInv(v)'
                               /\ List!Place(v)' = List!Place(v)
    BY <1>0, <1>1, <1>2, Alone
<1>4. /\ List!Taken(t)' = List!Taken(t) /\ List!End(t)' = List!End(t)
      /\ List!Holds(t)' = List!Holds(t)
    BY <1>0, <1>2 DEF List!Taken, List!Holds, List!End
<1>5. ThreadInv(t)'
    BY <1>0, <1>2, <1>4 DEF ListInv, ThreadInv, ListHands, PassedStay, Straight
<1>6. ListInv'
    BY <1>0, <1>1, <1>3, <1>4, <1>5, Settled
<1>7. Places' = [Places EXCEPT ![t] = "sweep"] /\ Places[t] = "list"
    BY <1>0, <1>2, <1>3, PlaceBecomes, PlaceIs DEF Places
<1>8. List!Sets!Listed(t)
    BY <1>0, <1>3, <1>4, <1>7, SameSets
    DEF List!Sets!Listed, List!Sets!shared, List!Sets!Goto, Places
<1> QED
    BY <1>6, <1>8 DEF SetsStep, List!Sets!Next, List!Sets!ThreadStep

(* A node that is about to be inserted is in use, and what was taken is    *)
(* empty only when there is nothing at tmp.                                *)
LEMMA NodesInUse ==
    ASSUME ListInv, NEW t \in Tids
    PROVE  /\ Adding[t] = None <=> new[t] = None
           /\ List!Holds(t) => (Held[t] = {} <=> tmp[t] = None)
<1>1. \A a \in Addrs : a = new[t] => obj[a] # None
    BY DEF ListInv, InUse
<1>2. new[t] \in Ptrs /\ tmp[t] \in Ptrs /\ next \in [Addrs -> Ptrs]
    BY DEF ListInv, ListTypes
<1>3. Adding[t] = None <=> new[t] = None
    BY <1>1, <1>2 DEF Adding, Ptrs
<1>4. ASSUME List!Holds(t)
      PROVE  List!Taken(t) = {} <=> tmp[t] = None
    BY <1>2, <1>4, ChainOfNone, ChainIsLeast DEF List!Taken
<1>5. Held[t] = {} <=> List!Taken(t) = {}
    BY DEF Held, List!At
<1> QED
    BY <1>3, <1>4, <1>5

(* The end of a sweep, or of a listing that failed: with nothing left the  *)
(* call goes on, else the rest is put back, the end of which is known or   *)
(* looked for.                                                             *)
LEMMA ListLeaves ==
    ASSUME ListInv, NEW t \in Tids, NEW p \in {"tail", "splice"},
           listPc[t] \in {"list", "sweep", "delete"},
           p = "tail" => listPc[t] = "list",
           p = "splice" /\ tmp[t] # None => prev[t] # None /\ next[prev[t]] = None,
           List!Forget(t),
           IF tmp[t] = None THEN List!Return(t) ELSE List!Goto(t, p) /\ UNCHANGED <<tmp, prev>>,
           UNCHANGED <<List!shared, List!heap, new>>
    PROVE  /\ ListInv'
           /\ UNCHANGED <<List!Sets!shared, Adding, Held>>
           /\ Places' = [Places EXCEPT ![t] =
                            IF Held[t] = {} THEN IF Adding[t] = None THEN "idle" ELSE "push"
                                            ELSE "splice"]
           /\ listTodo' = [listTodo EXCEPT ![t] = {}]
           /\ listSnap' = [listSnap EXCEPT ![t] = {}]
<1> DEFINE q == IF tmp[t] = None THEN IF new[t] = None THEN "idle" ELSE "push" ELSE p
           z == IF tmp[t] = None THEN None ELSE prev[t]
<1>0. /\ listPc' = [listPc EXCEPT ![t] = q]
      /\ listTodo' = [listTodo EXCEPT ![t] = {}] /\ listSnap' = [listSnap EXCEPT ![t] = {}]
      /\ UNCHANGED <<listLive, listOwner, listOrphans, listReleased, listCount, obj, next, first,
                     new>>
    BY DEF List!heap, List!shared, List!Goto, List!Return, List!Forget, List!InDelete
<1>1. ListTypes
    BY DEF ListInv
<1>t. tmp' = tmp /\ prev' = [prev EXCEPT ![t] = z]
    BY <1>1 DEF List!Return, ListTypes
<1> HIDE DEF q, z
<1>q. q \in {"idle", "push", "tail", "splice"} /\ z \in Ptrs
    BY <1>1 DEF q, z, ListTypes, Ptrs
<1>2. ListTypes'
    BY <1>0, <1>1, <1>q, <1>t DEF ListTypes, ListPlaces
<1>3. /\ listPc'[t] = q /\ prev'[t] = z /\ listTodo'[t] = {} /\ listSnap'[t] = {}
      /\ \A u \in Tids \ {t} : /\ listPc'[u] = listPc[u] /\ prev'[u] = prev[u]
                               /\ listTodo'[u] = listTodo[u] /\ listSnap'[u] = listSnap[u]
    BY <1>0, <1>1, <1>t DEF ListTypes
<1>4. /\ List!Linked' = List!Linked /\ Straight(next, first, None)'
      /\ \A v \in Tids \ {t} : /\ List!Taken(v)' = List!Taken(v) /\ ThreadInv(v)'
                               /\ List!Place(v)' = List!Place(v)
    BY <1>0, <1>2, <1>3, <1>t, Alone
<1>5. ListHands(t) /\ List!Holds(t) /\ List!End(t) = None /\ Straight(next, tmp[t], None)
    BY DEF ListInv, ThreadInv, List!Holds, List!End
<1>6. ASSUME tmp[t] = None
      PROVE  ListInv'
    <2>1. /\ List!Taken(t) = {} /\ List!Taken(t)' = {} /\ ~List!Holds(t)'
        BY <1>1, <1>3, <1>5, <1>6, ChainOfNone DEF List!Taken, List!Holds, ListTypes, q
    <2>2. ListHands(t)' /\ PassedStay(t)'
        BY <1>0, <1>3, <1>5, <1>6 DEF ListHands, PassedStay, q, z
    <2> QED
        BY <1>0, <1>2, <1>4, <2>1, <2>2, Settled DEF ThreadInv
<1>7. ASSUME tmp[t] # None
      PROVE  ListInv'
    <2>1. q = p /\ z = prev[t] /\ List!Holds(t)' /\ List!Taken(t) = List!Chain(next, tmp[t], None)
        BY <1>3, <1>5, <1>7 DEF q, z, List!Holds, List!Taken
    <2>2. p = "splice" => List!Chain(next, tmp[t], prev[t]) = List!Chain(next, tmp[t], None)
        BY <1>1, <1>7, ChainEnds DEF ListTypes, Ptrs
    <2>3. List!Taken(t)' = List!Taken(t) /\ Straight(next, tmp[t], List!End(t))'
        <3>1. CASE p = "splice"
            <4>1. List!End(t)' = prev[t]
                BY <1>3, <2>1, <3>1 DEF List!End
            <4>2. List!Taken(t)' = List!Taken(t)
                BY <1>0, <1>t, <2>1, <2>2, <3>1, <4>1 DEF List!Taken
            <4>3. Straight(next, tmp[t], prev[t])
                BY <1>1, <1>5, <2>2, <3>1, ListFacts, ListAssumption, ChainIsLeast
                DEF Straight, ListTypes
            <4> QED
                BY <1>0, <1>t, <4>1, <4>2, <4>3 DEF Straight
        <3>2. CASE p = "tail"
            <4>1. List!End(t)' = None
                BY <1>3, <2>1, <3>2 DEF List!End
            <4> QED
                BY <1>0, <1>t, <1>5, <2>1, <4>1 DEF List!Taken, Straight
        <3> QED
            BY <3>1, <3>2
    <2>4. ListHands(t)' /\ PassedStay(t)'
        BY <1>0, <1>t, <1>3, <1>5, <1>7, <2>1 DEF ListHands, PassedStay, Walked
    <2> QED
        BY <1>0, <1>2, <1>4, <2>1, <2>3, <2>4, Settled DEF ThreadInv
<1>8. ListInv' /\ \A u \in Tids : List!Taken(u)' = List!Taken(u)
    <2>1. List!Taken(t)' = List!Taken(t)
        <3>1. CASE tmp[t] = None
            BY <1>1, <1>3, <1>5, <3>1, ChainOfNone DEF List!Taken, List!Holds, ListTypes, q
        <3>2. CASE tmp[t] # None /\ p = "tail"
            BY <1>0, <1>t, <1>3, <1>5, <3>2 DEF List!Taken, List!Holds, List!End, q
        <3>3. CASE tmp[t] # None /\ p = "splice"
            <4>1. List!Chain(next, tmp[t], prev[t]) = List!Chain(next, tmp[t], None)
                BY <1>1, <3>3, ChainEnds DEF ListTypes, Ptrs
            <4>2. List!Holds(t)' /\ List!End(t)' = prev[t]
                BY <1>3, <3>3 DEF List!Holds, List!End, q, z
            <4> QED
                BY <1>0, <1>t, <1>5, <4>1, <4>2 DEF List!Taken
        <3> QED
            BY <3>1, <3>2, <3>3
    <2> QED
        BY <1>4, <1>6, <1>7, <2>1
<1>9. UNCHANGED <<List!Sets!shared, Adding, Held>>
    BY <1>0, <1>4, <1>8, SameSets DEF List!Sets!shared, Adding, Held
<1>10. q = "idle" \/ q = "push" \/ q \in {"tail", "splice"}
    BY <1>q
<1>11. Places' = [Places EXCEPT ![t] = IF q \in {"tail", "splice"} THEN "splice" ELSE q]
    BY <1>3, <1>4, <1>10, PlaceBecomes DEF Places
<1>12. (IF q \in {"tail", "splice"} THEN "splice" ELSE q)
           = IF Held[t] = {} THEN IF Adding[t] = None THEN "idle" ELSE "push" ELSE "splice"
    BY <1>5, NodesInUse DEF q
<1> QED
    BY <1>0, <1>8, <1>9, <1>11, <1>12

LEMMA ListListFailed ==
    ASSUME ListInv, NEW t \in Tids, List!ListFailed(t)
    PROVE  ListInv' /\ SetsStep
<1>1. /\ ListInv' /\ UNCHANGED <<List!Sets!shared, Adding, Held>>
      /\ Places' = [Places EXCEPT ![t] =
                       IF Held[t] = {} THEN IF Adding[t] = None THEN "idle" ELSE "push"
                                       ELSE "splice"]
      /\ listTodo' = [listTodo EXCEPT ![t] = {}] /\ listSnap' = [listSnap EXCEPT ![t] = {}]
    BY ListLeaves DEF List!ListFailed
<1>2. Places[t] = "list"
    BY PlaceIs DEF List!ListFailed, Places
<1>3. List!Sets!ListFailed(t)
    BY <1>1, <1>2 DEF List!Sets!ListFailed, List!Sets!Leave, List!Sets!Goto, List!Sets!Rest,
                      Places, Adding, Held
<1> QED
    BY <1>1, <1>3 DEF SetsStep, List!Sets!Next, List!Sets!ThreadStep

LEMMA ListSwept ==
    ASSUME ListInv, NEW t \in Tids, List!Swept(t)
    PROVE  ListInv' /\ SetsStep
<1>0. /\ listPc[t] \in {"sweep", "delete"} /\ List!Succ(t) = None
      /\ tmp[t] # None => prev[t] # None /\ next[prev[t]] = None
    BY DEF List!Swept, List!Succ
<1>1. /\ ListInv' /\ UNCHANGED <<List!Sets!shared, Adding, Held>>
      /\ Places' = [Places EXCEPT ![t] =
                       IF Held[t] = {} THEN IF Adding[t] = None THEN "idle" ELSE "push"
                                       ELSE "splice"]
      /\ listTodo' = [listTodo EXCEPT ![t] = {}] /\ listSnap' = [listSnap EXCEPT ![t] = {}]
    BY <1>0, ListLeaves DEF List!Swept
<1>2. Places[t] = listPc[t]
    BY <1>0, PlaceIs DEF Places
<1>3. \A x \in List!Taken(t) : ~List!Wanted(t, obj[x])
    <2>1. ListTypes /\ ThreadInv(t) /\ List!Taken(t) = List!Chain(next, tmp[t], None)
        BY <1>0 DEF ListInv, List!Taken, List!Holds, List!End
    <2>2. CASE tmp[t] = None
        BY <2>1, <2>2, ChainOfNone DEF ListTypes
    <2>3. CASE tmp[t] # None
        <3>1. Walked(t) = List!Taken(t)
            BY <1>0, <2>1, <2>3, ChainEnds DEF Walked, ListTypes, Ptrs
        <3> QED
            BY <1>0, <2>1, <2>3, <3>1 DEF ThreadInv, PassedStay
    <2> QED
        BY <2>2, <2>3
<1>4. \A o \in Held[t] : ~List!Wanted(t, o)
    BY <1>3 DEF Held, List!At
<1>5. List!Sets!Swept(t)
    <2>1. listPc[t] = "sweep" => List!Sets!Exited(t) = {}
        BY <1>4 DEF List!Wanted, List!Sets!Exited, Held
    <2>2. listPc[t] = "delete" => List!Sets!Own(t) = {}
        BY <1>4 DEF List!Wanted, List!Sets!Own, Held
    <2> QED
        BY <1>0, <1>1, <1>2, <2>1, <2>2
        DEF List!Sets!Swept, List!Sets!Leave, List!Sets!Goto, List!Sets!Rest, Places, Adding, Held
<1> QED
    BY <1>1, <1>5 DEF SetsStep, List!Sets!Next, List!Sets!ThreadStep

(* What stays where no node is changed.                                    *)
LEMMA Beyond ==
    ASSUME ListInv, ListTypes', NEW t \in Tids, listLive' = listLive,
           \A u \in Tids \ {t} : /\ listPc'[u] = listPc[u] /\ new'[u] = new[u]
                                 /\ tmp'[u] = tmp[u] /\ prev'[u] = prev[u]
                                 /\ listTodo'[u] = listTodo[u] /\ listSnap'[u] = listSnap[u],
           \A x \in List!Linked : next'[x] = next[x],
           \A u \in Tids \ {t} : \A x \in List!Taken(u) :
               next'[x] = next[x] /\ obj'[x] = obj[x] /\ listOwner'[obj[x]] = listOwner[obj[x]]
    PROVE  /\ first' = first => List!Linked' = List!Linked /\ Straight(next, first, None)'
           /\ \A u \in Tids \ {t} : /\ List!Taken(u)' = List!Taken(u) /\ ThreadInv(u)'
                                    /\ List!Place(u)' = List!Place(u)
<1>1. ASSUME first' = first
      PROVE  List!Linked' = List!Linked /\ Straight(next, first, None)'
    <2>1. next \in [Addrs -> Ptrs] /\ next' \in [Addrs -> Ptrs] /\ first \in Ptrs
        BY DEF ListInv, ListTypes
    <2>2. List!Chain(next', first, None) = List!Chain(next, first, None)
        BY <2>1, ChainUndisturbed DEF List!Linked
    <2>3. \A x \in List!Chain(next, first, None) : next'[x] = next[x]
        BY DEF List!Linked
    <2>4. Straight(next, first, None)
        BY DEF ListInv
    <2>5. Straight(next', first, None)
        BY <2>2, <2>3, <2>4 DEF Straight
    <2> QED
        BY <1>1, <2>2, <2>5 DEF List!Linked
<1>2. \A u \in Tids \ {t} : List!Taken(u)' = List!Taken(u) /\ ThreadInv(u)'
    BY OtherThread DEF ListInv
<1>3. \A u \in Tids \ {t} : List!Place(u)' = List!Place(u)
    BY PlaceSame
<1> QED
    BY <1>1, <1>2, <1>3

LEMMA ListAddObj ==
    ASSUME ListInv, NEW t \in Tids, NEW o \in Objs, NEW a \in Addrs, List!AddObj(t, o, a)
    PROVE  ListInv' /\ SetsStep
<1> DEFINE p == IF MaxCacheNum < listCount THEN "detach" ELSE "push"
<1>0. /\ t \in listLive /\ listPc[t] = "idle" /\ listOwner[o] = None /\ obj[a] = None
      /\ listOwner' = [listOwner EXCEPT ![o] = t]
      /\ obj' = [obj EXCEPT ![a] = o] /\ next' = [next EXCEPT ![a] = None]
      /\ new' = [new EXCEPT ![t] = a] /\ listCount' = listCount + 1
      /\ listPc' = [listPc EXCEPT ![t] = p]
      /\ UNCHANGED <<listLive, listOrphans, listReleased, first, listTodo, listSnap, tmp, prev>>
    BY DEF List!AddObj, List!Goto, List!Fresh
<1> HIDE DEF p
<1>p. p \in {"detach", "push"}
    BY DEF p
<1>1. ListTypes /\ ListTypes'
    BY <1>0, <1>p DEF ListInv, ListTypes, ListPlaces, Ptrs
<1>2. /\ obj'[a] = o /\ new'[t] = a /\ listPc'[t] = p /\ listOwner'[o] = t
      /\ \A b \in Addrs \ {a} : obj'[b] = obj[b] /\ next'[b] = next[b]
      /\ \A q \in Objs \ {o} : listOwner'[q] = listOwner[q]
      /\ \A u \in Tids \ {t} : listPc'[u] = listPc[u] /\ new'[u] = new[u]
    BY <1>0, <1>1 DEF ListTypes
<1>3. /\ a \notin List!Linked
      /\ \A u \in Tids : a \notin List!Taken(u) /\ a # new[u]
    BY <1>0 DEF ListInv, InUse
<1>4. o \notin ListKept /\ o \notin listReleased
    BY <1>0, GcAssumption DEF ListInv, ListKept, ListCounted
<1>5. \A b \in Addrs : obj[b] # o
    BY <1>4 DEF ListInv, OneNodeEach
<1>6. List!Linked \subseteq Addrs /\ \A u \in Tids : List!Taken(u) \subseteq Addrs
    BY <1>1, ListFacts
<1>7. \A b \in Addrs : obj[b] # None => obj[b] \in Objs
    BY <1>1 DEF ListTypes
<1>8. \A u \in Tids : \A x \in List!Taken(u) :
          next'[x] = next[x] /\ obj'[x] = obj[x] /\ listOwner'[obj[x]] = listOwner[obj[x]]
    <2> SUFFICES ASSUME NEW u \in Tids, NEW x \in List!Taken(u)
                 PROVE  /\ next'[x] = next[x] /\ obj'[x] = obj[x]
                        /\ listOwner'[obj[x]] = listOwner[obj[x]]
        OBVIOUS
    <2>1. x \in Addrs \ {a} /\ obj[x] # None
        BY <1>3, <1>6 DEF ListInv, InUse
    <2> QED
        BY <1>2, <1>5, <1>7, <2>1
<1>9. /\ List!Linked' = List!Linked /\ Straight(next, first, None)'
      /\ \A u \in Tids \ {t} : /\ List!Taken(u)' = List!Taken(u) /\ ThreadInv(u)'
                               /\ List!Place(u)' = List!Place(u)
    <2>1. \A x \in List!Linked : next'[x] = next[x]
        BY <1>2, <1>3, <1>6
    <2> QED
        BY <1>0, <1>1, <1>2, <1>8, <2>1, Beyond
<1>10. ListHands(t) /\ new[t] = None /\ prev[t] = None
    BY <1>0 DEF ListInv, ThreadInv, ListHands
<1>11. List!Taken(t) = {} /\ List!Taken(t)' = {} /\ ~List!Holds(t)'
    BY <1>0, <1>2, <1>p DEF List!Taken, List!Holds
<1>12. ThreadInv(t)'
    BY <1>0, <1>2, <1>p, <1>10, <1>11, ListAssumption DEF ThreadInv, ListHands, PassedStay
<1>13. \A u \in Tids : List!Taken(u)' = List!Taken(u)
    BY <1>9, <1>11
<1>14. Apart'
    <2>1. \A u \in Tids : new'[u] = new[u] \/ (u = t /\ new'[u] = a)
        BY <1>2
    <2> QED
        BY <1>2, <1>3, <1>9, <1>13, <2>1 DEF ListInv, Apart
<1>15. InUse'
    <2> SUFFICES ASSUME NEW b \in Addrs
                 PROVE  obj'[b] # None <=>
                            b \in List!Linked \/ \E u \in Tids : b \in List!Taken(u) \/ b = new'[u]
        BY <1>9, <1>13 DEF InUse
    <2>1. CASE b = a
        BY <1>2, <2>1, GcAssumption
    <2>2. CASE b # a
        <3>1. obj'[b] = obj[b] /\ \A u \in Tids : b = new'[u] <=> b = new[u]
            BY <1>2, <1>10, <2>2, ListAssumption
        <3> QED
            BY <3>1 DEF ListInv, InUse
    <2> QED
        BY <2>1, <2>2
<1>16. ListKept' = ListKept \cup {o}
    BY <1>0, <1>2, <1>4, GcAssumption DEF ListKept
<1>17. OneNodeEach'
    <2>1. \A b, c \in Addrs : obj'[b] = obj'[c] /\ obj'[b] # None => b = c
        BY <1>2, <1>5 DEF ListInv, OneNodeEach
    <2>2. ASSUME NEW q \in Objs
          PROVE  q \in ListKept' <=> \E b \in Addrs : obj'[b] = q
        <3>1. CASE q = o
            BY <1>2, <1>16, <3>1
        <3>2. CASE q # o
            <4>1. \A b \in Addrs : obj'[b] = q <=> obj[b] = q
                BY <1>0, <1>2, <3>2, GcAssumption
            <4> QED
                BY <1>16, <3>2, <4>1 DEF ListInv, OneNodeEach
        <3> QED
            BY <3>1, <3>2
    <2> QED
        BY <2>1, <2>2 DEF OneNodeEach
<1>18. ListCounted'
    <2>1. \A q \in listReleased : listOwner'[q] # None
        BY <1>1, <1>2, <1>4 DEF ListInv, ListCounted, ListTypes
    <2>2. IsFiniteSet(ListKept) /\ listCount = Cardinality(ListKept)
        BY DEF ListInv, ListCounted
    <2>3. IsFiniteSet(ListKept') /\ Cardinality(ListKept') = Cardinality(ListKept) + 1
        BY <1>4, <1>16, <2>2, FS_AddElement
    <2> QED
        BY <1>0, <2>1, <2>2, <2>3 DEF ListCounted
<1>19. ListInv'
    BY <1>1, <1>9, <1>12, <1>14, <1>15, <1>17, <1>18 DEF ListInv
<1>20. List!At(List!Linked)' = List!At(List!Linked)
    BY <1>2, <1>3, <1>6, <1>9 DEF List!At
<1>21. Held' = Held
    <2>1. \A u \in Tids : List!At(List!Taken(u))' = List!At(List!Taken(u))
        BY <1>8, <1>13 DEF List!At
    <2> QED
        BY <2>1 DEF Held
<1>22. Adding' = [Adding EXCEPT ![t] = o]
    <2>1. \A u \in Tids : new[u] # None => new[u] \in Addrs
        BY <1>1 DEF ListTypes, Ptrs
    <2>2. ASSUME NEW u \in Tids
          PROVE  Adding'[u] = IF u = t THEN o ELSE Adding[u]
        <3>1. CASE u = t
            BY <1>2, <3>1, ListAssumption DEF Adding
        <3>2. CASE u # t
            <4>1. new'[u] = new[u] /\ (new[u] # None => obj'[new[u]] = obj[new[u]])
                BY <1>2, <1>3, <2>1, <3>2
            <4> QED
                BY <3>2, <4>1 DEF Adding
        <3> QED
            BY <3>1, <3>2
    <2>3. Adding' = [u \in Tids |-> Adding'[u]] /\ Adding = [u \in Tids |-> Adding[u]]
        BY DEF Adding
    <2> QED
        BY <2>2, <2>3
<1>23. Places[t] = "idle" /\ Places' = [Places EXCEPT ![t] = p]
    <2>1. List!Place(t) = "idle"
        BY <1>0, PlaceIs
    <2>2. List!Place(t)' = p
        BY <1>2, <1>p, PlaceBecomes, ListAssumption
    <2> QED
        BY <1>9, <2>1, <2>2 DEF Places
<1>24. List!Sets!AddObj(t, o)
    BY <1>0, <1>20, <1>21, <1>22, <1>23
    DEF List!Sets!AddObj, List!Sets!Goto, List!Sets!Fresh, Held, Adding, Places, p
<1> QED
    BY <1>19, <1>24 DEF SetsStep, List!Sets!Next, List!Sets!ThreadStep

LEMMA ListPushRead ==
    ASSUME ListInv, NEW t \in Tids, List!PushRead(t)
    PROVE  ListInv' /\ SetsStep
<1>0. /\ listPc[t] = "push" /\ listPc' = [listPc EXCEPT ![t] = "pushCas"]
      /\ next' = [next EXCEPT ![new[t]] = first]
      /\ UNCHANGED <<listLive, listOwner, listOrphans, listReleased, listCount, obj, first,
                     listTodo, listSnap, new, tmp, prev>>
    BY DEF List!PushRead, List!shared, List!Goto
<1>1. ListTypes /\ ListTypes'
    BY <1>0 DEF ListInv, ListTypes, ListPlaces
<1>2. /\ listPc'[t] = "pushCas" /\ \A u \in Tids \ {t} : listPc'[u] = listPc[u]
      /\ \A b \in Addrs : b # new[t] => next'[b] = next[b]
    BY <1>0, <1>1 DEF ListTypes
<1>3. /\ \A x \in List!Linked : next'[x] = next[x]
      /\ \A u \in Tids : \A x \in List!Taken(u) : next'[x] = next[x]
    BY <1>1, <1>2, ListFacts DEF ListInv, Apart
<1>4. /\ List!Linked' = List!Linked /\ Straight(next, first, None)'
      /\ \A u \in Tids \ {t} : List!Taken(u)' = List!Taken(u) /\ ThreadInv(u)'
    BY <1>0, <1>1, <1>2, <1>3, Beyond
<1>5. List!Taken(t)' = List!Taken(t) /\ ~List!Holds(t)'
    BY <1>0, <1>2 DEF List!Taken, List!Holds
<1>6. ThreadInv(t)'
    BY <1>0, <1>2, <1>5 DEF ListInv, ThreadInv, ListHands, PassedStay
<1>7. List!Place(t)' = List!Place(t)
    BY <1>0, <1>2, PlaceIs, PlaceBecomes
<1> QED
    BY <1>0, <1>1, <1>4, <1>5, <1>6, <1>7, Unnoticed DEF ListPlaces

LEMMA ListPushAgain ==
    ASSUME ListInv, NEW t \in Tids, List!PushCas(t), first # next[new[t]]
    PROVE  ListInv' /\ SetsStep
<1>0. /\ listPc[t] = "pushCas" /\ listPc' = [listPc EXCEPT ![t] = "push"]
      /\ UNCHANGED <<listLive, listOwner, listOrphans, listReleased, listCount, obj, next, first,
                     listTodo, listSnap, new, tmp, prev>>
    BY DEF List!PushCas, List!shared, List!Goto
<1>1. ListTypes /\ ListTypes'
    BY <1>0 DEF ListInv, ListTypes, ListPlaces
<1>2. listPc'[t] = "push" /\ \A u \in Tids \ {t} : listPc'[u] = listPc[u]
    BY <1>0, <1>1 DEF ListTypes
<1>3. /\ List!Linked' = List!Linked /\ Straight(next, first, None)'
      /\ \A u \in Tids \ {t} : List!Taken(u)' = List!Taken(u) /\ ThreadInv(u)'
    BY <1>0, <1>1, <1>2, Alone
<1>4. List!Taken(t)' = List!Taken(t) /\ ~List!Holds(t)'
    BY <1>0, <1>2 DEF List!Taken, List!Holds
<1>5. ThreadInv(t)'
    BY <1>0, <1>2, <1>4 DEF ListInv, ThreadInv, ListHands, PassedStay
<1>6. List!Place(t)' = List!Place(t)
    BY <1>0, <1>2, PlaceIs, PlaceBecomes
<1> QED
    BY <1>0, <1>1, <1>3, <1>4, <1>5, <1>6, Unnoticed DEF ListPlaces

(* A node in front of a list makes a list of one more.                     *)
LEMMA WithFirst ==
    ASSUME NEW nx \in [Addrs -> Ptrs], NEW a \in Addrs, Straight(nx, nx[a], None),
           a \notin List!Chain(nx, nx[a], None)
    PROVE  /\ List!Chain(nx, a, None) = {a} \cup List!Chain(nx, nx[a], None)
           /\ Straight(nx, a, None)
<1> DEFINE D == List!Chain(nx, nx[a], None)
           h == nx[a]
<1>1. a # None /\ h \in Ptrs
    BY ListAssumption
<1>2. List!Chain(nx, a, None) = {a} \cup D
    BY <1>1, ChainBegins
<1>3. D \subseteq Addrs /\ (h # None => h \in D) /\ List!Closed(nx, D, None)
    BY <1>1, ChainIsLeast
<1>4. /\ \A x \in D : nx[x] # None => nx[x] # h
      /\ \A x, y \in D : nx[x] = nx[y] /\ nx[x] # None => x = y
    BY <1>3, ListAssumption DEF Straight
<1>5. a \notin D /\ nx[a] = h
    OBVIOUS
<1> HIDE DEF D, h
<1>6. \A x \in D : nx[x] # None => nx[x] \in D
    BY <1>3, ListAssumption DEF List!Closed
<1>7. /\ \A x \in {a} \cup D : nx[x] # None => nx[x] # a
      /\ \A x, y \in {a} \cup D : nx[x] = nx[y] /\ nx[x] # None => x = y
    BY <1>3, <1>4, <1>5, <1>6
<1>8. Straight(nx, a, None)
    BY <1>2, <1>7 DEF Straight
<1> QED
    BY <1>2, <1>8 DEF D

LEMMA ListPush ==
    ASSUME ListInv, NEW t \in Tids, List!PushCas(t), first = next[new[t]]
    PROVE  ListInv' /\ SetsStep
<1> DEFINE a == new[t]
<1>0. /\ listPc[t] = "pushCas" /\ listPc' = [listPc EXCEPT ![t] = "idle"]
      /\ new' = [new EXCEPT ![t] = None] /\ first' = a
      /\ UNCHANGED <<listLive, listOwner, listOrphans, listReleased, listCount, obj, next,
                     listTodo, listSnap, tmp, prev>>
    BY DEF List!PushCas, List!shared, List!Goto
<1>1. ListTypes /\ ListTypes'
    BY <1>0 DEF ListInv, ListTypes, ListPlaces, Ptrs
<1>2. listPc'[t] = "idle" /\ new'[t] = None
      /\ \A u \in Tids \ {t} : listPc'[u] = listPc[u] /\ new'[u] = new[u]
    BY <1>0, <1>1 DEF ListTypes
<1>h. ListHands(t) /\ a # None /\ a \in Addrs /\ prev[t] = None
    BY <1>0, <1>1 DEF ListInv, ThreadInv, ListHands, ListTypes, Ptrs
<1>3. \A u \in Tids \ {t} : /\ List!Taken(u)' = List!Taken(u) /\ ThreadInv(u)'
                            /\ List!Place(u)' = List!Place(u)
    BY <1>0, <1>1, <1>2, Beyond
<1>4. List!Linked' = {a} \cup List!Linked /\ Straight(next, first, None)'
    <2>1. a \notin List!Chain(next, first, None) /\ Straight(next, first, None)
        BY DEF ListInv, Apart, List!Linked
    <2> QED
        BY <1>0, <1>1, <1>h, <2>1, WithFirst DEF List!Linked, ListTypes
<1>5. List!Taken(t) = {} /\ List!Taken(t)' = {} /\ ~List!Holds(t)'
    BY <1>0, <1>2 DEF List!Taken, List!Holds
<1>6. ThreadInv(t)'
    BY <1>0, <1>2, <1>5, <1>h DEF ThreadInv, ListHands, PassedStay
<1>7. \A u \in Tids : List!Taken(u)' = List!Taken(u)
    BY <1>3, <1>5
<1>8. \A u \in Tids \ {t} : new[u] # a
    BY <1>h DEF ListInv, Apart
<1>9. Apart'
    <2>1. \A u \in Tids : new'[u] = new[u] \/ new'[u] = None
        BY <1>2
    <2>2. None \notin Addrs /\ List!Linked \subseteq Addrs
          /\ \A u \in Tids : List!Taken(u) \subseteq Addrs
        BY <1>1, ListFacts, ListAssumption
    <2>3. \A u \in Tids : (List!Linked \cap List!Taken(u) = {} /\ new[u] \notin List!Linked)
        BY DEF ListInv, Apart
    <2>4. \A u, v \in Tids :
              /\ new[u] \notin List!Taken(v)
              /\ u # v => List!Taken(u) \cap List!Taken(v) = {}
              /\ u # v /\ new[u] = new[v] => new[u] = None
        BY DEF ListInv, Apart
    <2>5. \A u \in Tids : ({a} \cup List!Linked) \cap List!Taken(u) = {}
                          /\ new'[u] \notin {a} \cup List!Linked
        BY <1>2, <1>8, <1>h, <2>2, <2>3, <2>4
    <2>6. \A u, v \in Tids : new'[u] \notin List!Taken(v)
        BY <2>1, <2>2, <2>4
    <2>7. \A u, v \in Tids : u # v /\ new'[u] = new'[v] => new'[u] = None
        BY <1>2, <2>4
    <2> QED
        BY <1>4, <1>7, <2>4, <2>5, <2>6, <2>7 DEF Apart
<1>10. InUse'
    <2> SUFFICES ASSUME NEW b \in Addrs
                 PROVE  obj[b] # None <=>
                            \/ b \in {a} \cup List!Linked
                            \/ \E u \in Tids : b \in List!Taken(u) \/ b = new'[u]
        BY <1>0, <1>4, <1>7 DEF InUse
    <2>1. obj[b] # None <=> b \in List!Linked \/ \E u \in Tids : b \in List!Taken(u) \/ b = new[u]
        BY DEF ListInv, InUse
    <2>2. b # None
        BY ListAssumption
    <2> QED
        BY <1>2, <2>1, <2>2
<1>11. ListInv'
    <2>1. OneNodeEach' /\ ListCounted'
        BY <1>0 DEF ListInv, OneNodeEach, ListCounted, ListKept
    <2> QED
        BY <1>1, <1>3, <1>4, <1>6, <1>9, <1>10, <2>1 DEF ListInv
<1>12. List!At(List!Linked)' = List!At(List!Linked) \cup {Adding[t]}
    BY <1>0, <1>4, <1>h DEF List!At, Adding
<1>13. Held' = Held
    <2>1. \A u \in Tids : List!At(List!Taken(u))' = List!At(List!Taken(u))
        BY <1>0, <1>7 DEF List!At
    <2> QED
        BY <2>1 DEF Held
<1>14. Adding' = [Adding EXCEPT ![t] = None]
    <2>1. ASSUME NEW u \in Tids
          PROVE  Adding'[u] = IF u = t THEN None ELSE Adding[u]
        BY <1>0, <1>2 DEF Adding
    <2>2. Adding' = [u \in Tids |-> Adding'[u]] /\ Adding = [u \in Tids |-> Adding[u]]
        BY DEF Adding
    <2> QED
        BY <2>1, <2>2
<1>15. Places[t] = "push" /\ Places' = [Places EXCEPT ![t] = "idle"]
    <2>1. List!Place(t) = "push"
        BY <1>0, PlaceIs
    <2>2. List!Place(t)' = "idle"
        BY <1>2, PlaceBecomes
    <2> QED
        BY <1>3, <2>1, <2>2 DEF Places
<1>16. List!Sets!Push(t)
    BY <1>0, <1>12, <1>13, <1>14, <1>15
    DEF List!Sets!Push, List!Sets!Goto, Held, Adding, Places
<1> QED
    BY <1>11, <1>16 DEF SetsStep, List!Sets!Next, List!Sets!ThreadStep

(* Who goes from an address of a list to the next one has passed that, and *)
(* those that it had passed before.                                        *)
LEMMA OneStep ==
    ASSUME NEW nx \in [Addrs -> Ptrs], NEW a \in Addrs, Straight(nx, a, None),
           NEW p \in Addrs, p \in List!Chain(nx, a, p), nx[p] # None
    PROVE  /\ nx[p] \in List!Chain(nx, a, nx[p])
           /\ List!Chain(nx, a, nx[p]) \subseteq List!Chain(nx, a, p) \cup {nx[p]}
<1> DEFINE C == List!Chain(nx, a, p)
           x == nx[p]
           D == List!Chain(nx, a, x)
<1>0. a \in Ptrs /\ a # None /\ x \in Addrs
    BY ListAssumption DEF Ptrs
<1>1. /\ C \subseteq Addrs /\ a \in C /\ List!Closed(nx, C, p)
      /\ \A S \in SUBSET Addrs : a \in S /\ List!Closed(nx, S, p) => C \subseteq S
    BY <1>0, ChainIsLeast
<1>2. /\ D \subseteq Addrs /\ a \in D /\ List!Closed(nx, D, x)
      /\ \A S \in SUBSET Addrs : a \in S /\ List!Closed(nx, S, x) => D \subseteq S
    BY <1>0, ChainIsLeast
<1>3. p \in List!Chain(nx, a, None)
    BY <1>0, ChainPart
<1>4. x \notin C /\ p \in C /\ nx[p] = x
    BY <1>3, NotYetThere
<1> HIDE DEF C, D, x
<1>5. List!Closed(nx, C \cap D, p)
    BY <1>1, <1>2, <1>4 DEF List!Closed
<1>6. C \subseteq D
    <2>1. C \cap D \in SUBSET Addrs /\ a \in C \cap D
        BY <1>1, <1>2
    <2> QED
        BY <1>1, <1>5, <2>1
<1>7. x \in D
    <2>1. p \in D /\ p # x /\ nx[p] # None
        BY <1>4, <1>6
    <2> QED
        BY <1>2, <1>4, <2>1 DEF List!Closed
<1>8. List!Closed(nx, C \cup {x}, x)
    BY <1>1, <1>4 DEF List!Closed
<1>9. D \subseteq C \cup {x}
    <2>1. C \cup {x} \in SUBSET Addrs /\ a \in C \cup {x}
        BY <1>0, <1>1
    <2> QED
        BY <1>2, <1>8, <2>1
<1> QED
    BY <1>7, <1>9 DEF C, D, x

(* The first address alone.                                                *)
LEMMA FirstStep ==
    ASSUME NEW nx \in [Addrs -> Ptrs], NEW a \in Addrs
    PROVE  List!Chain(nx, a, a) = {a}
<1>1. a \in Ptrs /\ a # None
    BY ListAssumption DEF Ptrs
<1>2. List!Closed(nx, {a}, a)
    BY DEF List!Closed
<1> QED
    BY <1>1, <1>2, ChainIsLeast

(* Where a thread that goes through what it has taken is next.             *)
LEMMA StepOn ==
    ASSUME ListInv, NEW t \in Tids, listPc[t] \in {"tail", "sweep", "delete"},
           List!Succ(t) # None
    PROVE  /\ tmp[t] \in Addrs /\ List!Succ(t) \in Addrs
           /\ List!Succ(t) \in List!Chain(next, tmp[t], List!Succ(t))
           /\ \A y \in List!Chain(next, tmp[t], List!Succ(t)) :
                 y = List!Succ(t) \/ (prev[t] # None /\ y \in Walked(t))
           /\ List!Taken(t) = List!Chain(next, tmp[t], None) /\ Straight(next, tmp[t], None)
           /\ List!Succ(t) \in List!Taken(t)
           /\ prev[t] # None => List!Succ(t) \notin Walked(t) /\ prev[t] \in Walked(t)
<1>1. /\ next \in [Addrs -> Ptrs] /\ tmp[t] \in Ptrs /\ prev[t] \in Ptrs
      /\ ListTypes /\ ListHands(t)
    BY DEF ListInv, ListTypes, ThreadInv
<1>2. List!Taken(t) = List!Chain(next, tmp[t], None) /\ Straight(next, tmp[t], None)
    BY DEF ListInv, ThreadInv, List!Taken, List!Holds, List!End
<1>3. CASE prev[t] = None
    <2>1. List!Succ(t) = tmp[t] /\ tmp[t] \in Addrs
        BY <1>1, <1>3 DEF List!Succ, Ptrs
    <2>2. List!Chain(next, tmp[t], tmp[t]) = {tmp[t]}
        BY <1>1, <2>1, FirstStep
    <2>3. tmp[t] \in List!Chain(next, tmp[t], None)
        BY <1>1, <2>1, ListAssumption, ChainIsLeast
    <2> QED
        BY <1>2, <1>3, <2>1, <2>2, <2>3
<1>4. CASE prev[t] # None
    <2>1. List!Succ(t) = next[prev[t]] /\ prev[t] \in Addrs /\ List!Succ(t) \in Addrs
        BY <1>1, <1>4 DEF List!Succ, Ptrs
    <2>2. prev[t] \in Walked(t) /\ Walked(t) \subseteq List!Chain(next, tmp[t], None)
        BY <1>1, <1>2, <1>4, WalkedIsTaken
    <2>3. tmp[t] \in Addrs
        BY <1>1, <2>2, ChainOfNone DEF Ptrs
    <2>4. List!Succ(t) \in List!Chain(next, tmp[t], None) /\ List!Succ(t) \notin Walked(t)
        BY <1>1, <1>2, <2>1, <2>2, <2>3, NotYetThere DEF Walked
    <2>5. /\ List!Succ(t) \in List!Chain(next, tmp[t], List!Succ(t))
          /\ List!Chain(next, tmp[t], List!Succ(t)) \subseteq Walked(t) \cup {List!Succ(t)}
        BY <1>1, <1>2, <2>1, <2>2, <2>3, OneStep DEF Walked
    <2> QED
        BY <1>2, <1>4, <2>1, <2>2, <2>3, <2>4, <2>5
<1> QED
    BY <1>3, <1>4

(* prev goes on by one.                                                    *)
LEMMA GoesOn ==
    ASSUME ListInv, NEW t \in Tids, listPc[t] \in {"tail", "sweep", "delete"},
           List!Succ(t) # None,
           listPc[t] # "tail" => ~List!Wanted(t, obj[List!Succ(t)]),
           prev' = [prev EXCEPT ![t] = List!Succ(t)],
           UNCHANGED <<List!shared, List!heap, listPc, listTodo, listSnap, new, tmp>>
    PROVE  ListInv' /\ SetsStep
<1> DEFINE x == List!Succ(t)
<1>0. UNCHANGED <<listLive, listOwner, listOrphans, listReleased, listCount, obj, next, first,
                  listPc, listTodo, listSnap, new, tmp>>
    BY DEF List!shared, List!heap
<1>x. /\ tmp[t] \in Addrs /\ x \in Addrs
      /\ x \in List!Chain(next, tmp[t], x)
      /\ \A y \in List!Chain(next, tmp[t], x) : y = x \/ (prev[t] # None /\ y \in Walked(t))
    BY StepOn
<1>n. prev' = [prev EXCEPT ![t] = x] /\ (listPc[t] # "tail" => ~List!Wanted(t, obj[x]))
    OBVIOUS
<1> HIDE DEF x
<1>1. ListTypes /\ ListTypes'
    BY <1>0, <1>x, <1>n DEF ListInv, ListTypes, Ptrs
<1>2. prev'[t] = x /\ \A u \in Tids \ {t} : prev'[u] = prev[u]
    BY <1>1, <1>n DEF ListTypes
<1>3. /\ List!Linked' = List!Linked /\ Straight(next, first, None)'
      /\ \A v \in Tids \ {t} : /\ List!Taken(v)' = List!Taken(v) /\ ThreadInv(v)'
                               /\ List!Place(v)' = List!Place(v)
    BY <1>0, <1>1, <1>2, Alone
<1>4. /\ List!End(t) = None /\ List!End(t)' = None /\ List!Holds(t) /\ List!Holds(t)'
      /\ List!Taken(t)' = List!Taken(t)
    BY <1>0 DEF List!End, List!Holds, List!Taken
<1>5. ListHands(t) /\ PassedStay(t) /\ Straight(next, tmp[t], None)
    BY <1>4 DEF ListInv, ThreadInv
<1>6. Walked(t)' = List!Chain(next, tmp[t], x)
    BY <1>0, <1>2 DEF Walked
<1>7. ListHands(t)'
    BY <1>0, <1>2, <1>5, <1>6, <1>x DEF ListHands
<1>8. PassedStay(t)'
    <2> SUFFICES ASSUME listPc[t] \in {"sweep", "delete"}, NEW y \in List!Chain(next, tmp[t], x)
                 PROVE  ~List!Wanted(t, obj[y])'
        BY <1>0, <1>6 DEF PassedStay
    <2>1. ~List!Wanted(t, obj[y])
        BY <1>5, <1>n, <1>x DEF PassedStay
    <2> QED
        BY <1>0, <2>1 DEF List!Wanted
<1>9. ThreadInv(t)'
    BY <1>0, <1>4, <1>5, <1>7, <1>8 DEF ThreadInv, Straight
<1>10. ListInv'
    BY <1>0, <1>1, <1>3, <1>4, <1>9, Settled
<1>11. \A u \in Tids : List!Place(u)' = List!Place(u)
    BY <1>0, PlaceSame
<1>12. UNCHANGED List!Sets!vars
    BY <1>0, <1>3, <1>4, <1>11, StutterOfSets
<1> QED
    BY <1>10, <1>12 DEF SetsStep

LEMMA ListWalk ==
    ASSUME ListInv, NEW t \in Tids, List!Walk(t)
    PROVE  ListInv' /\ SetsStep
    BY GoesOn DEF List!Walk

(* The end of the list is known: it goes back up to there.                 *)
LEMMA EndFound ==
    ASSUME ListInv, NEW t \in Tids, listPc[t] = "tail", List!Succ(t) = None,
           List!Goto(t, "splice"),
           UNCHANGED <<List!shared, List!heap, listTodo, listSnap, new, tmp, prev>>
    PROVE  ListInv' /\ SetsStep
<1>0. /\ listPc' = [listPc EXCEPT ![t] = "splice"]
      /\ UNCHANGED <<listLive, listOwner, listOrphans, listReleased, listCount, obj, next, first,
                     listTodo, listSnap, new, tmp, prev>>
    BY DEF List!shared, List!heap, List!Goto
<1>1. ListTypes /\ ListTypes'
    BY <1>0 DEF ListInv, ListTypes, ListPlaces
<1>2. listPc'[t] = "splice" /\ \A u \in Tids \ {t} : listPc'[u] = listPc[u]
    BY <1>0, <1>1 DEF ListTypes
<1>3. /\ List!Linked' = List!Linked /\ Straight(next, first, None)'
      /\ \A v \in Tids \ {t} : List!Taken(v)' = List!Taken(v) /\ ThreadInv(v)'
    BY <1>0, <1>1, <1>2, Alone
<1>h. /\ ListHands(t) /\ tmp[t] # None /\ List!Holds(t) /\ List!End(t) = None
      /\ Straight(next, tmp[t], None)
    BY DEF ListInv, ThreadInv, ListHands, List!Holds, List!End
<1>4. prev[t] # None /\ prev[t] \in Addrs /\ next[prev[t]] = None
    BY <1>1, <1>h DEF List!Succ, ListTypes, Ptrs
<1>5. List!Chain(next, tmp[t], prev[t]) = List!Chain(next, tmp[t], None)
    BY <1>1, <1>4, ChainEnds DEF ListTypes
<1>6. List!Holds(t)' /\ List!End(t)' = prev[t]
    BY <1>0, <1>2 DEF List!Holds, List!End
<1>7. List!Taken(t)' = List!Taken(t)
    BY <1>0, <1>5, <1>6, <1>h DEF List!Taken
<1>8. Straight(next, tmp[t], prev[t])
    BY <1>h, <1>5, <1>1, ListFacts, ListAssumption, ChainIsLeast DEF Straight, ListTypes
<1>9. ThreadInv(t)'
    <2>1. ListHands(t)' /\ PassedStay(t)'
        BY <1>0, <1>2, <1>4, <1>h DEF ListHands, PassedStay, Walked
    <2> QED
        BY <1>0, <1>6, <1>8, <2>1 DEF ThreadInv, Straight
<1>10. List!Place(t)' = List!Place(t)
    BY <1>2, PlaceIs, PlaceBecomes
<1> QED
    BY <1>0, <1>1, <1>3, <1>7, <1>9, <1>10, Unnoticed DEF ListPlaces

LEMMA ListTail ==
    ASSUME ListInv, NEW t \in Tids, List!Tail(t)
    PROVE  ListInv' /\ SetsStep
    BY GoesOn, EndFound DEF List!Tail

(* What a thread has taken when the next address is taken out of it.       *)
LEMMA TakenOut ==
    ASSUME ListInv, NEW t \in Tids, listPc[t] \in {"sweep", "delete"},
           List!Succ(t) # None, List!Link(t, next[List!Succ(t)]), UNCHANGED <<listPc, prev>>
    PROVE  /\ List!Taken(t)' = List!Taken(t) \ {List!Succ(t)}
           /\ Straight(next, tmp[t], None)'
           /\ prev[t] # None => Walked(t)' = Walked(t)
           /\ tmp' \in [Tids -> Ptrs] /\ next' \in [Addrs -> Ptrs]
           /\ \A u \in Tids \ {t} : tmp'[u] = tmp[u]
           /\ \A y \in Addrs \ List!Taken(t) : next'[y] = next[y]
<1> DEFINE x == List!Succ(t)
<1>0. /\ next \in [Addrs -> Ptrs] /\ tmp \in [Tids -> Ptrs] /\ prev[t] \in Ptrs /\ next[x] \in Ptrs
      /\ tmp[t] \in Addrs /\ x \in Addrs
    BY StepOn DEF ListInv, ListTypes
<1>1. /\ List!Taken(t) = List!Chain(next, tmp[t], None) /\ Straight(next, tmp[t], None)
      /\ prev[t] # None => prev[t] \in Walked(t)
    BY StepOn
<1>2. List!Taken(t)' = List!Chain(next', tmp'[t], None)
    BY DEF List!Taken, List!Holds, List!End
<1>3. CASE prev[t] = None
    <2>1. x = tmp[t] /\ tmp' = [tmp EXCEPT ![t] = next[x]] /\ next' = next
        BY <1>3 DEF List!Succ, List!Link
    <2> HIDE DEF x
    <2>2. /\ tmp'[t] = next[tmp[t]] /\ tmp' \in [Tids -> Ptrs]
          /\ \A u \in Tids \ {t} : tmp'[u] = tmp[u]
        BY <1>0, <2>1
    <2>3. /\ List!Chain(next, next[tmp[t]], None) = List!Chain(next, tmp[t], None) \ {tmp[t]}
          /\ Straight(next, next[tmp[t]], None)
        BY <1>0, <1>1, WithoutFirst
    <2>4. List!Taken(t)' = List!Taken(t) \ {x}
        BY <1>1, <1>2, <2>1, <2>2, <2>3
    <2>5. Straight(next, tmp[t], None)'
        BY <2>1, <2>2, <2>3 DEF Straight
    <2> QED
        BY <1>0, <1>3, <2>1, <2>2, <2>4, <2>5 DEF x
<1>4. CASE prev[t] # None
    <2>1. x = next[prev[t]] /\ next' = [next EXCEPT ![prev[t]] = next[x]] /\ tmp' = tmp
        BY <1>4 DEF List!Succ, List!Link
    <2>2. prev[t] \in Addrs /\ next[prev[t]] # None
        BY <1>0, <1>4, <2>1 DEF Ptrs
    <2>3. prev[t] \in List!Chain(next, tmp[t], None)
        BY <1>0, <1>1, <1>4, ChainPart DEF Walked, Ptrs
    <2> HIDE DEF x
    <2>4. /\ next'[prev[t]] = next[next[prev[t]]] /\ next' \in [Addrs -> Ptrs]
          /\ \A y \in Addrs : y # prev[t] => next'[y] = next[y]
        BY <1>0, <2>1, <2>2
    <2>5. /\ List!Chain(next', tmp[t], None) = List!Chain(next, tmp[t], None) \ {next[prev[t]]}
          /\ Straight(next', tmp[t], None)
          /\ List!Chain(next', tmp[t], prev[t]) = List!Chain(next, tmp[t], prev[t])
        BY <1>0, <1>1, <2>2, <2>3, <2>4, WithoutNext
    <2>6. List!Taken(t)' = List!Taken(t) \ {x}
        BY <1>1, <1>2, <2>1, <2>5
    <2>7. Straight(next, tmp[t], None)' /\ Walked(t)' = Walked(t)
        BY <2>1, <2>5 DEF Straight, Walked
    <2> QED
        BY <1>0, <1>1, <2>1, <2>3, <2>4, <2>6, <2>7 DEF x
<1> QED
    BY <1>3, <1>4

LEMMA ListUnlink ==
    ASSUME ListInv, NEW t \in Tids, List!Unlink(t)
    PROVE  ListInv' /\ SetsStep
<1> DEFINE x == List!Succ(t)
           o == obj[x]
<1>0. /\ listPc[t] \in {"sweep", "delete"} /\ x # None /\ List!Wanted(t, o)
      /\ List!Link(t, next[x])
      /\ listReleased' = listReleased \cup {o} /\ obj' = [obj EXCEPT ![x] = None]
      /\ listCount' = listCount - 1
      /\ UNCHANGED <<listLive, listOwner, listOrphans, first, listPc, listTodo, listSnap,
                     new, prev>>
    BY DEF List!Unlink
<1>1. /\ List!Taken(t)' = List!Taken(t) \ {x} /\ Straight(next, tmp[t], None)'
      /\ prev[t] # None => Walked(t)' = Walked(t)
      /\ tmp' \in [Tids -> Ptrs] /\ next' \in [Addrs -> Ptrs]
      /\ \A u \in Tids \ {t} : tmp'[u] = tmp[u]
      /\ \A y \in Addrs \ List!Taken(t) : next'[y] = next[y]
    BY <1>0, TakenOut
<1>2. /\ x \in Addrs /\ x \in List!Taken(t)
      /\ prev[t] # None => x \notin Walked(t)
    BY <1>0, StepOn
<1> HIDE DEF x
<1>3. ListTypes /\ o \in Objs /\ o # None
    <2>1. ListTypes /\ obj[x] # None
        BY <1>2 DEF ListInv, InUse
    <2> QED
        BY <1>2, <2>1 DEF ListTypes
<1>4. ListTypes'
    BY <1>0, <1>1, <1>3 DEF ListTypes
<1>5. obj'[x] = None /\ \A y \in Addrs \ {x} : obj'[y] = obj[y]
    BY <1>0, <1>2, <1>3 DEF ListTypes
<1>6. /\ List!Linked \subseteq Addrs /\ \A u \in Tids : List!Taken(u) \subseteq Addrs
      /\ Walked(t) \subseteq Addrs
    BY <1>3, ListFacts
<1>7. /\ x \notin List!Linked /\ \A u \in Tids : x # new[u]
      /\ \A u \in Tids \ {t} : x \notin List!Taken(u)
    BY <1>2 DEF ListInv, Apart
<1>8. /\ \A y \in List!Linked : next'[y] = next[y]
      /\ \A u \in Tids \ {t} : \A y \in List!Taken(u) : next'[y] = next[y] /\ obj'[y] = obj[y]
    <2>1. \A y \in List!Linked : y \in Addrs \ List!Taken(t)
        BY <1>6 DEF ListInv, Apart
    <2>2. \A u \in Tids \ {t} : \A y \in List!Taken(u) : y \in Addrs \ List!Taken(t)
        BY <1>6 DEF ListInv, Apart
    <2> QED
        BY <1>1, <1>2, <1>5, <2>1, <2>2
<1>9. /\ List!Linked' = List!Linked /\ Straight(next, first, None)'
      /\ \A u \in Tids \ {t} : /\ List!Taken(u)' = List!Taken(u) /\ ThreadInv(u)'
                               /\ List!Place(u)' = List!Place(u)
    BY <1>0, <1>1, <1>4, <1>8, Beyond
<1>10. ThreadInv(t)'
    <2>1. ListHands(t) /\ PassedStay(t)
        BY DEF ListInv, ThreadInv
    <2>2. ListHands(t)'
        BY <1>0, <1>1, <2>1 DEF ListHands
    <2>3. PassedStay(t)'
        <3> SUFFICES ASSUME prev[t] # None, NEW y \in Walked(t)
                     PROVE  ~List!Wanted(t, obj[y])'
            BY <1>0, <1>1 DEF PassedStay
        <3>1. obj'[y] = obj[y] /\ ~List!Wanted(t, obj[y])
            BY <1>0, <1>2, <1>5, <1>6, <2>1 DEF PassedStay
        <3> QED
            BY <1>0, <3>1 DEF List!Wanted
    <2>4. List!End(t)' = None
        BY <1>0 DEF List!End
    <2> QED
        BY <1>1, <2>2, <2>3, <2>4 DEF ThreadInv, Straight
<1>11. \A u \in Tids : List!Taken(u)' = List!Taken(u) \ {x}
    BY <1>1, <1>7, <1>9
<1>12. Apart'
    BY <1>0, <1>9, <1>11 DEF ListInv, Apart
<1>13. InUse'
    <2> SUFFICES ASSUME NEW b \in Addrs
                 PROVE  obj'[b] # None <=>
                     b \in List!Linked \/ \E u \in Tids : b \in List!Taken(u) \ {x} \/ b = new[u]
        BY <1>0, <1>9, <1>11 DEF InUse
    <2>1. CASE b = x
        BY <1>5, <1>7, <2>1
    <2>2. CASE b # x
        BY <1>5, <2>2 DEF ListInv, InUse
    <2> QED
        BY <2>1, <2>2
<1>14. o \in ListKept /\ \A b \in Addrs : obj[b] = o => b = x
    BY <1>2, <1>3 DEF ListInv, OneNodeEach
<1>15. ListKept' = ListKept \ {o}
    BY <1>0 DEF ListKept
<1> HIDE DEF o
<1>16. OneNodeEach'
    <2>1. \A b, c \in Addrs : obj'[b] = obj'[c] /\ obj'[b] # None => b = c
        BY <1>5 DEF ListInv, OneNodeEach
    <2>2. ASSUME NEW q \in Objs
          PROVE  q \in ListKept' <=> \E b \in Addrs : obj'[b] = q
        <3>1. CASE q = o
            <4>1. \A b \in Addrs : obj'[b] # q
                BY <1>3, <1>5, <1>14, <3>1
            <4> QED
                BY <1>15, <3>1, <4>1
        <3>2. CASE q # o
            <4>1. \A b \in Addrs : obj'[b] = q <=> obj[b] = q
                BY <1>5, <3>2, GcAssumption DEF o
            <4> QED
                BY <1>15, <3>2, <4>1 DEF ListInv, OneNodeEach
        <3> QED
            BY <3>1, <3>2
    <2> QED
        BY <2>1, <2>2 DEF OneNodeEach
<1>17. ListCounted'
    <2>1. \A q \in listReleased' : listOwner[q] # None
        BY <1>0, <1>14 DEF ListInv, ListCounted, ListKept
    <2>2. IsFiniteSet(ListKept) /\ listCount = Cardinality(ListKept)
        BY DEF ListInv, ListCounted
    <2>3. IsFiniteSet(ListKept') /\ Cardinality(ListKept') = Cardinality(ListKept) - 1
        BY <1>14, <1>15, <2>2, FS_RemoveElement
    <2> QED
        BY <1>0, <2>1, <2>2, <2>3 DEF ListCounted
<1>18. ListInv'
    BY <1>4, <1>9, <1>10, <1>12, <1>13, <1>16, <1>17 DEF ListInv
<1>19. List!At(List!Linked)' = List!At(List!Linked)
    BY <1>5, <1>6, <1>7, <1>9 DEF List!At
<1>20. Held' = [Held EXCEPT ![t] = @ \ {o}]
    <2>1. \A u \in Tids \ {t} : List!At(List!Taken(u))' = List!At(List!Taken(u))
        BY <1>8, <1>9 DEF List!At
    <2>2. List!At(List!Taken(t))' = List!At(List!Taken(t)) \ {o}
        <3>1. \A y \in List!Taken(t) : y # x => obj'[y] = obj[y] /\ obj[y] # o
            BY <1>5, <1>6, <1>14
        <3> QED
            BY <1>1, <3>1 DEF List!At, o
    <2> QED
        BY <2>1, <2>2 DEF Held
<1>21. Adding' = Adding
    <2>1. \A u \in Tids : new[u] # None => new[u] \in Addrs
        BY <1>3 DEF ListTypes, Ptrs
    <2>2. \A u \in Tids : new'[u] = new[u] /\ (new[u] # None => obj'[new[u]] = obj[new[u]])
        BY <1>0, <1>5, <1>7, <2>1
    <2> QED
        BY <2>2 DEF Adding
<1>22. Places' = Places /\ Places[t] = listPc[t]
    BY <1>0, PlaceSame, PlaceIs DEF Places
<1>23. o \in Held[t]
    BY <1>2 DEF Held, List!At, o
<1>24. List!Sets!Released(t, o)
    BY <1>0, <1>19, <1>20, <1>21, <1>22
    DEF List!Sets!Released, Held, Adding, Places, o
<1>25. CASE listPc[t] = "sweep"
    <2>1. listOwner[o] \notin listSnap[t]
        BY <1>0, <1>25 DEF List!Wanted
    <2>2. List!Sets!Sweep(t, o)
        BY <1>22, <1>23, <1>24, <1>25, <2>1 DEF List!Sets!Sweep, List!Sets!Exited, Held, Places
    <2> QED
        BY <1>3, <1>18, <2>2 DEF SetsStep, List!Sets!Next, List!Sets!ThreadStep
<1>26. CASE listPc[t] = "delete"
    <2>1. listOwner[o] = t
        BY <1>0, <1>26 DEF List!Wanted
    <2>2. List!Sets!Delete(t, o)
        BY <1>22, <1>23, <1>24, <1>26, <2>1 DEF List!Sets!Delete, List!Sets!Own, Held, Places
    <2> QED
        BY <1>3, <1>18, <2>2 DEF SetsStep, List!Sets!Next, List!Sets!ThreadStep
<1> QED
    BY <1>0, <1>25, <1>26

(* The end of what goes back points to the head that was read; the end is  *)
(* all that changes, which the chain up to it does not depend on.          *)
LEMMA ListSpliceRead ==
    ASSUME ListInv, NEW t \in Tids, List!SpliceRead(t)
    PROVE  ListInv' /\ SetsStep
<1>h. /\ listPc[t] = "splice" /\ ListTypes /\ ListHands(t) /\ prev[t] # None /\ prev[t] \in Addrs
      /\ List!Holds(t) /\ List!End(t) = prev[t] /\ Straight(next, tmp[t], prev[t])
      /\ List!Taken(t) = Walked(t) /\ prev[t] \in List!Taken(t)
    BY DEF ListInv, ListTypes, ThreadInv, ListHands, List!SpliceRead, List!Holds, List!End,
           List!Taken, Walked, Ptrs
<1>0. /\ listPc' = [listPc EXCEPT ![t] = "spliceCas"]
      /\ next' = [next EXCEPT ![prev[t]] = first]
      /\ UNCHANGED <<listLive, listOwner, listOrphans, listReleased, listCount, obj, first,
                     listTodo, listSnap, new, tmp, prev>>
    BY <1>h DEF List!SpliceRead, List!shared, List!Goto, List!Link
<1>1. ListTypes'
    BY <1>0, <1>h DEF ListTypes, ListPlaces
<1>2. /\ listPc'[t] = "spliceCas" /\ \A u \in Tids \ {t} : listPc'[u] = listPc[u]
      /\ \A y \in Addrs \ {prev[t]} : next'[y] = next[y]
    BY <1>0, <1>h DEF ListTypes
<1>3. /\ \A y \in List!Linked : next'[y] = next[y]
      /\ \A u \in Tids \ {t} : \A y \in List!Taken(u) : next'[y] = next[y]
    <2>1. \A y \in List!Linked : y \in Addrs /\ y # prev[t]
        BY <1>h, ListFacts DEF ListInv, Apart
    <2>2. \A u \in Tids \ {t} : \A y \in List!Taken(u) : y \in Addrs /\ y # prev[t]
        BY <1>h, ListFacts DEF ListInv, Apart
    <2> QED
        BY <1>2, <2>1, <2>2
<1>4. /\ List!Linked' = List!Linked /\ Straight(next, first, None)'
      /\ \A u \in Tids \ {t} : List!Taken(u)' = List!Taken(u) /\ ThreadInv(u)'
    BY <1>0, <1>1, <1>2, <1>3, Beyond
<1>5. List!Chain(next', tmp[t], prev[t]) = List!Chain(next, tmp[t], prev[t])
    <2>1. \A y \in List!Chain(next, tmp[t], prev[t]) : y # prev[t] => next'[y] = next[y]
        BY <1>2, <1>h, ListFacts DEF Walked
    <2>2. next \in [Addrs -> Ptrs] /\ next' \in [Addrs -> Ptrs] /\ tmp[t] \in Ptrs
        BY <1>1, <1>h DEF ListTypes
    <2> QED
        BY <2>1, <2>2, ChainUndisturbed
<1>6. List!Holds(t)' /\ List!End(t)' = prev[t]
    BY <1>0, <1>2 DEF List!Holds, List!End
<1>7. List!Taken(t)' = List!Taken(t) /\ Walked(t)' = Walked(t)
    BY <1>0, <1>5, <1>6, <1>h DEF List!Taken, Walked
<1>8. Straight(next', tmp[t], prev[t])
    <2>1. \A y \in List!Chain(next, tmp[t], prev[t]) : y # prev[t] => next'[y] = next[y]
        BY <1>2, <1>h, ListFacts DEF Walked
    <2> QED
        BY <1>5, <1>h, <2>1 DEF Straight
<1>9. ThreadInv(t)'
    <2>1. ListHands(t)' /\ PassedStay(t)'
        BY <1>0, <1>2, <1>7, <1>h DEF ListHands, PassedStay
    <2>2. tmp'[t] = tmp[t]
        BY <1>0
    <2>3. Straight(next', tmp'[t], List!End(t)')
        BY <1>6, <1>8, <2>2, Zenon
    <2>4. Straight(next, tmp[t], List!End(t))'
        BY <2>3, Zenon DEF Straight, List!Chain
    <2> QED
        BY <2>1, <2>4 DEF ThreadInv
<1>10. List!Place(t)' = List!Place(t)
    BY <1>2, <1>h, PlaceIs, PlaceBecomes
<1> QED
    BY <1>0, <1>1, <1>4, <1>7, <1>9, <1>10, Unnoticed DEF ListPlaces

LEMMA ListSpliceAgain ==
    ASSUME ListInv, NEW t \in Tids, List!SpliceCas(t), first # List!Succ(t)
    PROVE  ListInv' /\ SetsStep
<1>0. /\ listPc[t] = "spliceCas" /\ listPc' = [listPc EXCEPT ![t] = "splice"]
      /\ UNCHANGED <<listLive, listOwner, listOrphans, listReleased, listCount, obj, next, first,
                     listTodo, listSnap, new, tmp, prev>>
    BY DEF List!SpliceCas, List!shared, List!Goto
<1>1. ListTypes /\ ListTypes'
    BY <1>0 DEF ListInv, ListTypes, ListPlaces
<1>2. listPc'[t] = "splice" /\ \A u \in Tids \ {t} : listPc'[u] = listPc[u]
    BY <1>0, <1>1 DEF ListTypes
<1>3. /\ List!Linked' = List!Linked /\ Straight(next, first, None)'
      /\ \A u \in Tids \ {t} : List!Taken(u)' = List!Taken(u) /\ ThreadInv(u)'
    BY <1>0, <1>1, <1>2, Alone
<1>4. /\ List!Taken(t)' = List!Taken(t) /\ List!End(t)' = List!End(t)
      /\ List!Holds(t)' = List!Holds(t)
    BY <1>0, <1>2 DEF List!Taken, List!Holds, List!End
<1>5. ThreadInv(t)'
    BY <1>0, <1>2, <1>4 DEF ListInv, ThreadInv, ListHands, PassedStay, Straight, Walked
<1>6. List!Place(t)' = List!Place(t)
    BY <1>0, <1>2, PlaceIs, PlaceBecomes
<1> QED
    BY <1>0, <1>1, <1>3, <1>4, <1>5, <1>6, Unnoticed DEF ListPlaces

(* What is left goes back, in front of what was inserted meanwhile.        *)
LEMMA ListSplice ==
    ASSUME ListInv, NEW t \in Tids, List!SpliceCas(t), first = List!Succ(t)
    PROVE  ListInv' /\ SetsStep
<1> DEFINE p == IF new[t] = None THEN "idle" ELSE "push"
<1>h. /\ listPc[t] = "spliceCas" /\ ListTypes /\ ListHands(t) /\ prev[t] # None /\ prev[t] \in Addrs
      /\ List!Holds(t) /\ List!End(t) = prev[t] /\ Straight(next, tmp[t], prev[t])
      /\ List!Taken(t) = List!Chain(next, tmp[t], prev[t]) /\ prev[t] \in List!Taken(t)
      /\ listTodo[t] = {} /\ listSnap[t] = {} /\ t \in listLive
    BY DEF ListInv, ListTypes, ThreadInv, ListHands, List!SpliceCas, List!Holds, List!End,
           List!Taken, Walked, Ptrs
<1>0. /\ listPc' = [listPc EXCEPT ![t] = p] /\ first = next[prev[t]] /\ first' = tmp[t]
      /\ tmp' = [tmp EXCEPT ![t] = None] /\ prev' = [prev EXCEPT ![t] = None]
      /\ UNCHANGED <<listLive, listOwner, listOrphans, listReleased, listCount, obj, next,
                     listTodo, listSnap, new>>
    BY <1>h DEF List!SpliceCas, List!Succ, List!Return, List!InDelete, List!shared, List!Goto
<1> HIDE DEF p
<1>p. p \in {"idle", "push"}
    BY DEF p
<1>1. ListTypes'
    BY <1>0, <1>h, <1>p DEF ListTypes, ListPlaces, Ptrs
<1>2. /\ listPc'[t] = p /\ tmp'[t] = None /\ prev'[t] = None
      /\ \A u \in Tids \ {t} : listPc'[u] = listPc[u] /\ tmp'[u] = tmp[u] /\ prev'[u] = prev[u]
    BY <1>0, <1>h DEF ListTypes
<1>3. \A u \in Tids \ {t} : /\ List!Taken(u)' = List!Taken(u) /\ ThreadInv(u)'
                            /\ List!Place(u)' = List!Place(u)
    BY <1>0, <1>1, <1>2, Alone
<1>4. /\ List!Linked' = List!Taken(t) \cup List!Linked
      /\ Straight(next, first, None)'
    <2>1. tmp[t] \in Addrs
        BY <1>h, ChainOfNone DEF ListTypes, Ptrs
    <2>2. Straight(next, next[prev[t]], None) /\ List!Linked = List!Chain(next, next[prev[t]], None)
        BY <1>0 DEF ListInv, List!Linked
    <2>3. List!Taken(t) \cap List!Linked = {}
        BY DEF ListInv, Apart
    <2>4. /\ List!Chain(next, tmp[t], None) = List!Taken(t) \cup List!Linked
          /\ Straight(next, tmp[t], None)
        BY <1>h, <2>1, <2>2, <2>3, TwoInOne DEF ListTypes
    <2> QED
        BY <1>0, <2>4 DEF List!Linked, Straight
<1>5. List!Taken(t)' = {} /\ ~List!Holds(t)'
    BY <1>2, <1>p DEF List!Taken, List!Holds
<1>6. ThreadInv(t)'
    BY <1>0, <1>2, <1>5, <1>h DEF ThreadInv, ListHands, PassedStay, p
<1>7. Apart'
    <2>1. \A u \in Tids : List!Linked \cap List!Taken(u) = {} /\ new[u] \notin List!Linked
        BY DEF ListInv, Apart
    <2>2. \A u, v \in Tids :
              /\ new[u] \notin List!Taken(v)
              /\ u # v => List!Taken(u) \cap List!Taken(v) = {}
              /\ u # v /\ new[u] = new[v] => new[u] = None
        BY DEF ListInv, Apart
    <2>3. \A u \in Tids : /\ (List!Taken(t) \cup List!Linked) \cap List!Taken(u)' = {}
                          /\ new[u] \notin List!Taken(t) \cup List!Linked
        BY <1>3, <1>5, <2>1, <2>2
    <2>4. \A u, v \in Tids : /\ new[u] \notin List!Taken(v)'
                             /\ u # v => List!Taken(u)' \cap List!Taken(v)' = {}
        BY <1>3, <1>5, <2>2
    <2> QED
        BY <1>0, <1>4, <2>2, <2>3, <2>4 DEF Apart
<1>8. InUse'
    <2>1. \A a \in Addrs : obj[a] # None <=>
              a \in List!Linked \/ \E u \in Tids : a \in List!Taken(u) \/ a = new[u]
        BY DEF ListInv, InUse
    <2>2. \A a : (a \in List!Linked \/ \E u \in Tids : a \in List!Taken(u) \/ a = new[u])
                 <=> a \in List!Taken(t) \cup List!Linked
                     \/ \E u \in Tids : a \in List!Taken(u)' \/ a = new[u]
        BY <1>3, <1>5
    <2> QED
        BY <1>0, <1>4, <2>1, <2>2 DEF InUse
<1>9. ListInv'
    <2>1. OneNodeEach' /\ ListCounted'
        BY <1>0 DEF ListInv, OneNodeEach, ListCounted, ListKept
    <2> QED
        BY <1>1, <1>3, <1>4, <1>6, <1>7, <1>8, <2>1 DEF ListInv
<1>10. List!At(List!Linked)' = List!At(List!Linked) \cup Held[t]
    BY <1>0, <1>4 DEF List!At, Held
<1>11. Held' = [Held EXCEPT ![t] = {}]
    <2>1. \A u \in Tids \ {t} : List!At(List!Taken(u))' = List!At(List!Taken(u))
        BY <1>0, <1>3 DEF List!At
    <2>2. List!At(List!Taken(t))' = {}
        BY <1>5 DEF List!At
    <2> QED
        BY <2>1, <2>2 DEF Held
<1>12. Adding' = Adding /\ (Adding[t] = None <=> new[t] = None)
    BY <1>0, NodesInUse DEF Adding
<1>13. Places[t] = "splice" /\ Places' = [Places EXCEPT ![t] = p]
    <2>1. List!Place(t) = "splice"
        BY <1>h, PlaceIs
    <2>2. List!Place(t)' = p
        BY <1>2, <1>p, PlaceBecomes
    <2> QED
        BY <1>3, <2>1, <2>2 DEF Places
<1>14. p = IF Adding[t] = None THEN "idle" ELSE "push"
    BY <1>12 DEF p
<1>15. List!Sets!Splice(t)
    BY <1>0, <1>10, <1>11, <1>12, <1>13, <1>14
    DEF List!Sets!Splice, List!Sets!Goto, List!Sets!Rest, Held, Adding, Places
<1> QED
    BY <1>9, <1>15 DEF SetsStep, List!Sets!Next, List!Sets!ThreadStep

LEMMA ListStep ==
    ASSUME ListInv, [List!Next]_listVars
    PROVE  ListInv' /\ SetsStep
<1>1. ASSUME NEW t \in Tids, List!ThreadStep(t)
      PROVE  ListInv' /\ SetsStep
    BY <1>1, ListSpawn, ListExit, ListAddObj, ListPushRead, ListPush, ListPushAgain,
       ListDeleteObj, ListDetachRead, ListDetach, ListDetachAgain, ListReadTask, ListListed,
       ListListFailed, ListTail, ListWalk, ListUnlink, ListSwept, ListSpliceRead,
       ListSplice, ListSpliceAgain
    DEF List!ThreadStep
<1>2. CASE UNCHANGED listVars
    <2>0. UNCHANGED <<listLive, listOwner, listOrphans, listReleased, listCount, obj, next,
                      first, listPc, listTodo, listSnap, new, tmp, prev>>
        BY <1>2 DEF listVars
    <2>1. ListTypes /\ ListTypes'
        BY <2>0 DEF ListInv, ListTypes
    <2>2. List!Linked' = List!Linked /\ Straight(next, first, None)'
        BY <2>0 DEF List!Linked, ListInv, Straight
    <2>3. \A u \in Tids : List!Taken(u)' = List!Taken(u) /\ ThreadInv(u)'
        BY <2>0, <2>1, OtherThread DEF ListInv
    <2>4. \A u \in Tids : List!Place(u)' = List!Place(u)
        BY <2>0, PlaceSame
    <2>5. ListInv'
        BY <2>0, <2>1, <2>2, <2>3, Settled
    <2>6. UNCHANGED List!Sets!vars
        BY <2>0, <2>2, <2>3, <2>4, StutterOfSets
    <2> QED
        BY <2>5, <2>6 DEF SetsStep
<1> QED
    BY <1>1, <1>2 DEF List!Next

LEMMA CollectorStep ==
    ASSUME ListInv, [RunSets \/ RunNodes]_all
    PROVE  ListInv' /\ SetsStep
<1>1. [List!Next]_listVars
    BY DEF RunSets, RunNodes, all
<1> QED
    BY <1>1, ListStep

LEMMA ListHolds ==
    ASSUME ListInv
    PROVE  List!TypeOK /\ List!NoFreedNodeReachable
<1>1. List!TypeOK
    <2>1. listCount \in Nat
        BY FS_CardinalityType DEF ListInv, ListCounted
    <2> QED
        BY <2>1 DEF ListInv, ListTypes, ListPlaces, Ptrs, List!TypeOK
<1>2. List!NoFreedNodeReachable
    <2>1. /\ List!Linked \subseteq Addrs /\ \A t \in Tids : List!Taken(t) \subseteq Addrs
          /\ \A t \in Tids : new[t] # None => new[t] \in Addrs
        BY ListFacts DEF ListInv, ListTypes, Ptrs
    <2>2. \A a \in Addrs :
              (a \in List!Linked \/ \E t \in Tids : a \in List!Taken(t) \/ a = new[t])
                  => obj[a] # None
        BY DEF ListInv, InUse
    <2> QED
        BY <2>1, <2>2 DEF List!NoFreedNodeReachable, List!At
<1> QED
    BY <1>1, <1>2

LEMMA ListLosesNothing ==
    ASSUME ListInv
    PROVE  List!Sets!NothingLost /\ List!Sets!CountMatches
<1>1. /\ List!Linked \subseteq Addrs /\ \A t \in Tids : List!Taken(t) \subseteq Addrs
      /\ \A t \in Tids : new[t] # None => new[t] \in Addrs
    BY ListFacts DEF ListInv, ListTypes, Ptrs
<1>2. \A a \in Addrs : obj[a] # None <=>
          a \in List!Linked \/ \E t \in Tids : a \in List!Taken(t) \/ a = new[t]
    BY DEF ListInv, InUse
<1>3. \A a, b \in Addrs : obj[a] = obj[b] /\ obj[a] # None => a = b
    BY DEF ListInv, OneNodeEach
<1>4. List!Sets!Kept = ListKept
    BY DEF List!Sets!Kept, List!Sets!Fresh, ListKept
<1>5. \A t \in Tids : Adding[t] = IF new[t] = None THEN None ELSE obj[new[t]]
    BY DEF Adding
<1>6. \A t \in Tids : Held[t] = {obj[a] : a \in List!Taken(t)}
    BY DEF Held, List!At
<1>7. List!At(List!Linked) = {obj[a] : a \in List!Linked}
    BY DEF List!At
<1>8. \A o \in Objs : o \in ListKept <=>
          o \in List!At(List!Linked) \/ \E t \in Tids : o \in Held[t] \/ o = Adding[t]
    <2> SUFFICES ASSUME NEW o \in Objs
                 PROVE  (\E a \in Addrs : obj[a] = o) <=>
                     o \in List!At(List!Linked) \/ \E t \in Tids : o \in Held[t] \/ o = Adding[t]
        BY DEF ListInv, OneNodeEach
    <2>1. o # None
        BY GcAssumption
    <2>2. ASSUME NEW a \in Addrs, obj[a] = o
          PROVE  o \in List!At(List!Linked) \/ \E t \in Tids : o \in Held[t] \/ o = Adding[t]
        BY <1>2, <1>5, <1>6, <1>7, <2>1, <2>2, ListAssumption
    <2>3. ASSUME o \in List!At(List!Linked) \/ \E t \in Tids : o \in Held[t] \/ o = Adding[t]
          PROVE  \E a \in Addrs : obj[a] = o
        BY <1>1, <1>5, <1>6, <1>7, <2>1, <2>3
    <2> QED
        BY <2>2, <2>3
<1>9. \A t \in Tids : /\ List!At(List!Linked) \cap Held[t] = {}
                      /\ Adding[t] \notin List!At(List!Linked)
    <2>1. \A t \in Tids : List!Linked \cap List!Taken(t) = {} /\ new[t] \notin List!Linked
        BY DEF ListInv, Apart
    <2> QED
        BY <1>1, <1>2, <1>3, <1>5, <1>6, <1>7, <2>1
<1>10. \A t, u \in Tids : /\ Adding[t] \notin Held[u]
                          /\ t # u => Held[t] \cap Held[u] = {}
                          /\ t # u /\ Adding[t] = Adding[u] => Adding[t] = None
    <2>1. \A t, u \in Tids :
              /\ new[t] \notin List!Taken(u)
              /\ t # u => List!Taken(t) \cap List!Taken(u) = {}
              /\ t # u /\ new[t] = new[u] => new[t] = None
        BY DEF ListInv, Apart
    <2> QED
        BY <1>1, <1>2, <1>3, <1>5, <1>6, <2>1
<1>11. List!Sets!NothingLost
    BY <1>4, <1>8, <1>9, <1>10 DEF List!Sets!NothingLost, Adding, Held
<1>12. List!Sets!CountMatches
    <2>1. listCount = Cardinality(ListKept)
        BY DEF ListInv, ListCounted
    <2>2. Cardinality(ListKept) = List!Sets!Cardinality(ListKept)
        BY Zenon DEF Cardinality, List!Sets!Cardinality
    <2> QED
        BY <1>4, <2>1, <2>2 DEF List!Sets!CountMatches
<1> QED
    BY <1>11, <1>12

LEMMA ListInvariance == Collector => []ListInv
<1>1. Begin => ListInv
    BY ListInit DEF Begin
<1>2. ListInv /\ [RunSets \/ RunNodes]_all => ListInv'
    BY CollectorStep
<1> QED
    BY <1>1, <1>2, PTL DEF Collector

(* The list through which the threads go behaves as a set of objects, of   *)
(* which a compare-and-swap is one step, for any number of threads,        *)
(* objects and addresses, although addresses are used again: every step    *)
(* over pointers is a step of Gc, or none.  No freed node is reachable,    *)
(* and no object is lost (addObj, releaseExitThreadObj, deleteObj).        *)
THEOREM NodesBehaveAsSet == Collector => ListKeepsNodes
<1>1. Begin => List!Sets!Init
    BY ListInit DEF Begin
<1>2. ListInv /\ [RunSets \/ RunNodes]_all => [List!Sets!Next]_(List!Sets!vars)
    BY CollectorStep DEF SetsStep
<1>3. Collector => List!ListIsASet
    BY <1>1, <1>2, ListInvariance, PTL DEF Collector, List!ListIsASet, List!Sets!Spec
<1>4. Collector => [](List!TypeOK /\ List!NoFreedNodeReachable)
    BY ListInvariance, ListHolds, PTL
<1>5. Collector => [](List!Sets!NothingLost /\ List!Sets!CountMatches)
    BY ListInvariance, ListLosesNothing, PTL
<1> QED
    BY <1>3, <1>4, <1>5 DEF ListKeepsNodes
=============================================================================
