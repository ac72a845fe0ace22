------------------------------- MODULE GcList -------------------------------
(***************************************************************************)
(* The collector's list as gc.cpp builds it: nodes at addresses, linked by *)
(* next pointers, under a head that is read, and then compared and swapped *)
(* in a second step.  An address is used again once its node is freed, so  *)
(* a compare-and-swap may find a head that looks unchanged and is not.     *)
(***************************************************************************)
EXTENDS Integers, FiniteSets

CONSTANTS
    Tids, Objs, None, MaxCacheNum,      \* as in Gc
    Addrs                               \* what new can return; None is not among them

VARIABLES
    live, owner, orphans, released, count,      \* as in Gc
    obj,        \* the object whose node is at an address, None: not in use
    next,       \* GC_OBJ::next
    head,       \* _head.next
    pc, todo, snap,
    new,        \* gc: the node a thread in addObj inserts
    tmp,        \* tmp.next of a thread
    prev        \* prev_obj of a thread, None while it is &tmp

shared == <<live, owner, orphans, released, count>>
heap   == <<obj, next, head>>
locals == <<pc, todo, snap, new, tmp, prev>>
vars   == <<shared, heap, locals>>

Fresh(o)   == owner[o] = None
OwnedBy(t) == {o \in Objs : owner[o] = t}
Goto(t, p) == pc' = [pc EXCEPT ![t] = p]

Init == /\ live \in SUBSET Tids
        /\ owner = [o \in Objs |-> None]
        /\ orphans = {} /\ released = {} /\ count = 0
        /\ obj = [a \in Addrs |-> None]
        /\ next = [a \in Addrs |-> None]
        /\ head = None
        /\ pc = [t \in Tids |-> "idle"]
        /\ todo = [t \in Tids |-> {}]
        /\ snap = [t \in Tids |-> {}]
        /\ new = [t \in Tids |-> None]
        /\ tmp = [t \in Tids |-> None]
        /\ prev = [t \in Tids |-> None]

Spawn(t) == /\ t \notin live
            /\ live' = live \cup {t}
            /\ UNCHANGED <<owner, orphans, released, count, heap, locals>>

Exit(t) == /\ t \in live
           /\ pc[t] = "idle"
           /\ live' = live \ {t}
           /\ orphans' = orphans \cup OwnedBy(t)
           /\ UNCHANGED <<owner, released, count, heap, locals>>

AddObj(t, o, a) ==
    /\ t \in live
    /\ pc[t] = "idle"
    /\ Fresh(o)
    /\ obj[a] = None
    /\ owner' = [owner EXCEPT ![o] = t]
    /\ obj'   = [obj EXCEPT ![a] = o]
    /\ next'  = [next EXCEPT ![a] = None]
    /\ new'   = [new EXCEPT ![t] = a]
    /\ count' = count + 1
    /\ Goto(t, IF MaxCacheNum < count THEN "detach" ELSE "push")
    /\ UNCHANGED <<live, orphans, released, head, todo, snap, tmp, prev>>

PushRead(t) ==
    /\ pc[t] = "push"
    /\ next' = [next EXCEPT ![new[t]] = head]
    /\ Goto(t, "pushCas")
    /\ UNCHANGED <<shared, obj, head, todo, snap, new, tmp, prev>>

(* Mutant: the head is stored without comparing it.                        *)
PushStore(t) ==
    /\ pc[t] = "pushCas"
    /\ head' = new[t]
    /\ new'  = [new EXCEPT ![t] = None]
    /\ Goto(t, "idle")
    /\ UNCHANGED <<shared, obj, next, todo, snap, tmp, prev>>

PushCas(t) ==
    /\ pc[t] = "pushCas"
    /\ IF head = next[new[t]]
       THEN /\ head' = new[t]
            /\ new'  = [new EXCEPT ![t] = None]
            /\ Goto(t, "idle")
       ELSE Goto(t, "push") /\ UNCHANGED <<head, new>>
    /\ UNCHANGED <<shared, obj, next, todo, snap, tmp, prev>>

DeleteObj(t) ==
    /\ t \in live
    /\ pc[t] = "idle"
    /\ Goto(t, "detach")
    /\ UNCHANGED <<shared, heap, todo, snap, new, tmp, prev>>

DetachRead(t) ==
    /\ pc[t] = "detach"
    /\ tmp' = [tmp EXCEPT ![t] = head]
    /\ Goto(t, "detachCas")
    /\ UNCHANGED <<shared, heap, todo, snap, new, prev>>

InDelete(t) == new[t] = None

DetachCas(t) ==
    /\ pc[t] = "detachCas"
    /\ IF head = tmp[t]
       THEN /\ head' = None
            /\ Goto(t, IF InDelete(t) THEN "delete" ELSE "list")
            /\ todo' = [todo EXCEPT ![t] = IF InDelete(t) THEN {} ELSE Tids]
       ELSE Goto(t, "detach") /\ UNCHANGED <<head, todo>>
    /\ UNCHANGED <<shared, obj, next, snap, new, tmp, prev>>

ReadTask(t, u) ==
    /\ pc[t] = "list"
    /\ u \in todo[t]
    /\ todo' = [todo EXCEPT ![t] = @ \ {u}]
    /\ snap' = [snap EXCEPT ![t] = IF u \in live THEN @ \cup {u} ELSE @]
    /\ UNCHANGED <<shared, heap, pc, new, tmp, prev>>

Listed(t) ==
    /\ pc[t] = "list"
    /\ todo[t] = {}
    /\ Goto(t, "sweep")
    /\ UNCHANGED <<shared, heap, todo, snap, new, tmp, prev>>

(* prev_obj->next, where prev_obj may be the local head &tmp.              *)
Succ(t) == IF prev[t] = None THEN tmp[t] ELSE next[prev[t]]
Link(t, a) == IF prev[t] = None
              THEN tmp' = [tmp EXCEPT ![t] = a] /\ UNCHANGED next
              ELSE next' = [next EXCEPT ![prev[t]] = a] /\ UNCHANGED tmp

Return(t) == /\ Goto(t, IF InDelete(t) THEN "idle" ELSE "push")
             /\ tmp'  = [tmp EXCEPT ![t] = None]
             /\ prev' = [prev EXCEPT ![t] = None]

Forget(t) == /\ todo' = [todo EXCEPT ![t] = {}]
             /\ snap' = [snap EXCEPT ![t] = {}]

(* The task directory cannot be read: the end of the list is looked for,   *)
(* to put the whole of it back.                                            *)
ListFailed(t) ==
    /\ pc[t] = "list"
    /\ Forget(t)
    /\ IF tmp[t] = None THEN Return(t)
                        ELSE Goto(t, "tail") /\ UNCHANGED <<tmp, prev>>
    /\ UNCHANGED <<shared, heap, new>>

Tail(t) ==
    /\ pc[t] = "tail"
    /\ IF Succ(t) = None
       THEN Goto(t, "splice") /\ UNCHANGED prev
       ELSE prev' = [prev EXCEPT ![t] = Succ(t)] /\ UNCHANGED pc
    /\ UNCHANGED <<shared, heap, todo, snap, new, tmp>>

Wanted(t, o) == IF pc[t] = "delete" THEN owner[o] = t ELSE owner[o] \notin snap[t]

Walk(t) ==
    /\ pc[t] \in {"sweep", "delete"}
    /\ Succ(t) # None
    /\ ~Wanted(t, obj[Succ(t)])
    /\ prev' = [prev EXCEPT ![t] = Succ(t)]
    /\ UNCHANGED <<shared, heap, pc, todo, snap, new, tmp>>

Unlink(t) ==
    /\ pc[t] \in {"sweep", "delete"}
    /\ Succ(t) # None
    /\ Wanted(t, obj[Succ(t)])
    /\ Link(t, next[Succ(t)])
    /\ released' = released \cup {obj[Succ(t)]}
    /\ obj' = [obj EXCEPT ![Succ(t)] = None]
    /\ count' = count - 1
    /\ UNCHANGED <<live, owner, orphans, head, pc, todo, snap, new, prev>>

Swept(t) ==
    /\ pc[t] \in {"sweep", "delete"}
    /\ Succ(t) = None
    /\ Forget(t)
    /\ IF tmp[t] = None THEN Return(t)
                        ELSE Goto(t, "splice") /\ UNCHANGED <<tmp, prev>>
    /\ UNCHANGED <<shared, heap, new>>

SpliceRead(t) ==
    /\ pc[t] = "splice"
    /\ Link(t, head)
    /\ Goto(t, "spliceCas")
    /\ UNCHANGED <<shared, obj, head, todo, snap, new, prev>>

SpliceCas(t) ==
    /\ pc[t] = "spliceCas"
    /\ IF head = Succ(t) THEN head' = tmp[t] /\ Return(t)
                         ELSE Goto(t, "splice") /\ UNCHANGED <<head, tmp, prev>>
    /\ UNCHANGED <<shared, obj, next, todo, snap, new>>

ThreadStep(t) ==
    \/ Spawn(t) \/ Exit(t)
    \/ \E o \in Objs, a \in Addrs : AddObj(t, o, a)
    \/ PushRead(t) \/ PushCas(t)
    \/ DeleteObj(t) \/ DetachRead(t) \/ DetachCas(t)
    \/ \E u \in Tids : ReadTask(t, u)
    \/ Listed(t) \/ ListFailed(t) \/ Tail(t)
    \/ Walk(t) \/ Unlink(t) \/ Swept(t)
    \/ SpliceRead(t) \/ SpliceCas(t)

Next == \E t \in Tids : ThreadStep(t)

Spec == Init /\ [][Next]_vars

-----------------------------------------------------------------------------
(* The addresses on the way from a along the pointers nx, to the end or to *)
(* the address last: those in every set that has a and is closed.          *)
Closed(nx, S, last) == \A x \in S : x # last /\ nx[x] # None => nx[x] \in S

Chain(nx, a, last) ==
    {x \in Addrs : \A S \in SUBSET Addrs :
                       (a # None => a \in S) /\ Closed(nx, S, last) => x \in S}

At(as) == {obj[a] : a \in as}

(* The list; and what a thread has detached, up to the address whose       *)
(* pointer will be the one to the head.                                    *)
Linked   == Chain(next, head, None)
Holds(t) == pc[t] \in {"list", "tail", "sweep", "delete", "splice", "spliceCas"}
End(t)   == IF pc[t] \in {"splice", "spliceCas"} THEN prev[t] ELSE None
Taken(t) == IF Holds(t) THEN Chain(next, tmp[t], End(t)) ELSE {}

Place(t) == CASE pc[t] \in {"detach", "detachCas"} ->
                                    IF InDelete(t) THEN "idle" ELSE "detach"
              [] pc[t] = "pushCas" -> "push"
              [] pc[t] \in {"tail", "spliceCas"} -> "splice"
              [] OTHER -> pc[t]

Sets == INSTANCE Gc WITH
            head   <- At(Linked),
            held   <- [t \in Tids |-> At(Taken(t))],
            adding <- [t \in Tids |-> IF new[t] = None THEN None ELSE obj[new[t]]],
            pc     <- [t \in Tids |-> Place(t)]

(* Pointers, retries and reused addresses included, the list behaves as    *)
(* the set of Gc: a compare-and-swap that finds an address again that was  *)
(* freed and reused in between still does what one step of Gc does.        *)
ListIsASet == Sets!Spec

(* No thread reaches a freed node: not from the list, not from what it has *)
(* detached, and it never inserts one (releaseExitThreadObj, deleteObj).   *)
NoFreedNodeReachable ==
    /\ None \notin At(Linked)
    /\ \A t \in Tids : /\ None \notin At(Taken(t))
                       /\ new[t] # None => obj[new[t]] # None

TypeOK ==
    /\ live \in SUBSET Tids
    /\ owner \in [Objs -> Tids \cup {None}]
    /\ orphans \in SUBSET Objs
    /\ released \in SUBSET Objs
    /\ count \in Nat
    /\ obj \in [Addrs -> Objs \cup {None}]
    /\ next \in [Addrs -> Addrs \cup {None}]
    /\ head \in Addrs \cup {None}
    /\ pc \in [Tids -> {"idle", "push", "pushCas", "detach", "detachCas", "list",
                        "tail", "sweep", "delete", "splice", "spliceCas"}]
    /\ todo \in [Tids -> SUBSET Tids]
    /\ snap \in [Tids -> SUBSET Tids]
    /\ new \in [Tids -> Addrs \cup {None}]
    /\ tmp \in [Tids -> Addrs \cup {None}]
    /\ prev \in [Tids -> Addrs \cup {None}]
=============================================================================
