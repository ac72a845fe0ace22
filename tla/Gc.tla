--------------------------------- MODULE Gc ---------------------------------
(***************************************************************************)
(* The collector of the client library, class GC: a list shared by all     *)
(* threads and changed only by compare-and-swap on its head.  A list is    *)
(* here the set of its objects and a compare-and-swap loop one step; that  *)
(* the loops over pointers do what these steps say is shown by GcList.     *)
(***************************************************************************)
EXTENDS Integers, FiniteSets

CONSTANTS
    Tids, Objs, None,
    MaxCacheNum        \* OBJ_MAX_CACHE

ASSUME GcAssumption == /\ None \notin Tids /\ None \notin Objs
                       /\ MaxCacheNum \in Nat

VARIABLES
    live,       \* threads that exist, by id: the entries of /proc/<pid>/task
    owner,      \* GC_OBJ::tid, None for an object not created yet
    orphans,    \* history: objects whose own thread has exited
    released,   \* objects that have been freed
    head,       \* the objects in the shared list
    count,      \* _cacheObjNum
    pc,         \* where each thread is
    adding,     \* the object a thread is about to insert
    held,       \* the objects a thread has detached from the list
    todo, snap  \* ids get_all_tids has still to look at; those it has found

shared == <<live, owner, orphans, released, head, count>>
locals == <<pc, adding, held, todo, snap>>
vars   == <<shared, locals>>

Fresh(o)   == owner[o] = None
OwnedBy(t) == {o \in Objs : owner[o] = t}
Goto(t, p) == pc' = [pc EXCEPT ![t] = p]

Init == /\ live \in SUBSET Tids
        /\ owner = [o \in Objs |-> None]
        /\ orphans = {}
        /\ released = {}
        /\ head = {}
        /\ count = 0
        /\ pc = [t \in Tids |-> "idle"]
        /\ adding = [t \in Tids |-> None]
        /\ held = [t \in Tids |-> {}]
        /\ todo = [t \in Tids |-> {}]
        /\ snap = [t \in Tids |-> {}]

Spawn(t) == /\ t \notin live
            /\ live' = live \cup {t}
            /\ UNCHANGED <<owner, orphans, released, head, count, locals>>

Exit(t) == /\ t \in live
           /\ pc[t] = "idle"
           /\ live' = live \ {t}
           /\ orphans' = orphans \cup OwnedBy(t)
           /\ UNCHANGED <<owner, released, head, count, locals>>

(* addObj up to the counter: beyond the limit it collects first.           *)
AddObj(t, o) ==
    /\ t \in live
    /\ pc[t] = "idle"
    /\ Fresh(o)
    /\ owner'  = [owner EXCEPT ![o] = t]
    /\ adding' = [adding EXCEPT ![t] = o]
    /\ count'  = count + 1
    /\ Goto(t, IF MaxCacheNum < count THEN "detach" ELSE "push")
    /\ UNCHANGED <<live, orphans, released, head, held, todo, snap>>

Push(t) ==
    /\ pc[t] = "push"
    /\ head' = head \cup {adding[t]}
    /\ adding' = [adding EXCEPT ![t] = None]
    /\ Goto(t, "idle")
    /\ UNCHANGED <<live, owner, orphans, released, count, held, todo, snap>>

TakeList(t) == /\ held' = [held EXCEPT ![t] = head]
               /\ head' = {}

(* releaseExitThreadObj takes the whole list before it looks which threads *)
(* exist.                                                                  *)
Detach(t) ==
    /\ pc[t] = "detach"
    /\ TakeList(t)
    /\ todo' = [todo EXCEPT ![t] = Tids]
    /\ snap' = [snap EXCEPT ![t] = {}]
    /\ Goto(t, "list")
    /\ UNCHANGED <<live, owner, orphans, released, count, adding>>

(* get_all_tids reads the directory entry by entry while threads come and  *)
(* go.                                                                     *)
ReadTask(t, u) ==
    /\ pc[t] = "list"
    /\ u \in todo[t]
    /\ todo' = [todo EXCEPT ![t] = @ \ {u}]
    /\ snap' = [snap EXCEPT ![t] = IF u \in live THEN @ \cup {u} ELSE @]
    /\ UNCHANGED <<shared, pc, adding, held>>

(* What is left of a call once the list is swept; nothing detached, nothing*)
(* to put back.                                                            *)
Rest(t)  == IF adding[t] = None THEN "idle" ELSE "push"
Leave(t) == /\ Goto(t, IF held[t] = {} THEN Rest(t) ELSE "splice")
            /\ todo' = [todo EXCEPT ![t] = {}]
            /\ snap' = [snap EXCEPT ![t] = {}]

(* The directory cannot be read, or has 1024 entries or more.              *)
ListFailed(t) ==
    /\ pc[t] = "list"
    /\ Leave(t)
    /\ UNCHANGED <<shared, adding, held>>

(* Mutant: the list is taken after the threads were listed.                *)
ListedRetaken(t) ==
    /\ pc[t] = "list"
    /\ todo[t] = {}
    /\ held' = [held EXCEPT ![t] = @ \cup head]
    /\ head' = {}
    /\ Goto(t, "sweep")
    /\ UNCHANGED <<live, owner, orphans, released, count, adding, todo, snap>>

Listed(t) ==
    /\ pc[t] = "list"
    /\ todo[t] = {}
    /\ Goto(t, "sweep")
    /\ UNCHANGED <<shared, adding, held, todo, snap>>

(* obj_release and the decrement, of which only addObj's test takes notice.*)
Released(t, o) ==
    /\ held' = [held EXCEPT ![t] = @ \ {o}]
    /\ released' = released \cup {o}
    /\ count' = count - 1
    /\ UNCHANGED <<live, owner, orphans, head, pc, adding, todo, snap>>

Exited(t) == {o \in held[t] : owner[o] \notin snap[t]}
Own(t)    == {o \in held[t] : owner[o] = t}

Sweep(t, o) == /\ pc[t] = "sweep"
               /\ o \in Exited(t)
               /\ Released(t, o)

DeleteObj(t) ==
    /\ t \in live
    /\ pc[t] = "idle"
    /\ TakeList(t)
    /\ Goto(t, "delete")
    /\ UNCHANGED <<live, owner, orphans, released, count, adding, todo, snap>>

Delete(t, o) == /\ pc[t] = "delete"
                /\ o \in Own(t)
                /\ Released(t, o)

Swept(t) ==
    /\ \/ pc[t] = "sweep" /\ Exited(t) = {}
       \/ pc[t] = "delete" /\ Own(t) = {}
    /\ Leave(t)
    /\ UNCHANGED <<shared, adding, held>>

(* Mutant: what was added meanwhile is not looked at.                      *)
SpliceOver(t) ==
    /\ pc[t] = "splice"
    /\ head' = held[t]
    /\ held' = [held EXCEPT ![t] = {}]
    /\ Goto(t, Rest(t))
    /\ UNCHANGED <<live, owner, orphans, released, count, adding, todo, snap>>

(* What is left goes back in front of what was added meanwhile.            *)
Splice(t) ==
    /\ pc[t] = "splice"
    /\ head' = head \cup held[t]
    /\ held' = [held EXCEPT ![t] = {}]
    /\ Goto(t, Rest(t))
    /\ UNCHANGED <<live, owner, orphans, released, count, adding, todo, snap>>

ThreadStep(t) ==
    \/ Spawn(t) \/ Exit(t)
    \/ Push(t) \/ Detach(t) \/ ListFailed(t) \/ Listed(t)
    \/ DeleteObj(t) \/ Swept(t) \/ Splice(t)
    \/ \E u \in Tids : ReadTask(t, u)
    \/ \E o \in Objs : AddObj(t, o) \/ Sweep(t, o) \/ Delete(t, o)

Next == \E t \in Tids : ThreadStep(t)

Spec == Init /\ [][Next]_vars

-----------------------------------------------------------------------------
TypeOK ==
    /\ live \in SUBSET Tids
    /\ owner \in [Objs -> Tids \cup {None}]
    /\ orphans \in SUBSET Objs
    /\ released \in SUBSET Objs
    /\ head \in SUBSET Objs
    /\ count \in Nat
    /\ pc \in [Tids -> {"idle", "push", "detach", "list", "sweep", "delete", "splice"}]
    /\ adding \in [Tids -> Objs \cup {None}]
    /\ held \in [Tids -> SUBSET Objs]
    /\ todo \in [Tids -> SUBSET Tids]
    /\ snap \in [Tids -> SUBSET Tids]

Kept == {o \in Objs : ~Fresh(o)} \ released

(* No object is lost and none is in two places, whatever threads detach    *)
(* and splice at the same time: a kept object is in the list, detached by  *)
(* one thread or about to be inserted by one, and a freed one nowhere      *)
(* (addObj, releaseExitThreadObj, deleteObj).                              *)
NothingLost ==
    /\ \A o \in Objs : o \in Kept <=>
          o \in head \/ \E t \in Tids : o \in held[t] \/ o = adding[t]
    /\ \A t \in Tids : head \cap held[t] = {} /\ adding[t] \notin head
    /\ \A t, u \in Tids : /\ adding[t] \notin held[u]
                          /\ t # u => held[t] \cap held[u] = {}
                          /\ t # u /\ adding[t] = adding[u] => adding[t] = None

(* The counter that decides when to collect is the number of kept objects. *)
CountMatches == count = Cardinality(Kept)

Promise == INSTANCE GcPromise WITH asking <- {t \in Tids : pc[t] = "delete"}

(* The collector keeps the promise of gc.h: in particular it never frees   *)
(* an object of a thread that still runs, although threads start and add   *)
(* objects while it looks which threads exist.                             *)
KeepsPromise == Promise!Spec
=============================================================================
