----------------------------- MODULE GcPromise -----------------------------
(***************************************************************************)
(* What the collector of the client library promises (gc.h): it keeps the  *)
(* per-thread objects of every thread, and frees an object only after its  *)
(* thread has exited or while its thread asks for that.  Thread ids are    *)
(* those of the kernel, which gives them out again after an exit.          *)
(***************************************************************************)
CONSTANTS Tids, Objs, None

VARIABLES
    live,       \* threads that exist, by id
    owner,      \* GC_OBJ::tid, None for an object not created yet
    orphans,    \* objects whose own thread has exited
    released,   \* objects that have been freed
    asking      \* threads in a call of deleteObj

vars == <<live, owner, orphans, released, asking>>

OwnedBy(t) == {o \in Objs : owner[o] = t}

Init == /\ live \in SUBSET Tids
        /\ owner = [o \in Objs |-> None]
        /\ orphans = {}
        /\ released = {}
        /\ asking = {}

Spawn(t) == /\ t \notin live
            /\ live' = live \cup {t}
            /\ UNCHANGED <<owner, orphans, released, asking>>

Exit(t) == /\ t \in live \ asking
           /\ live' = live \ {t}
           /\ orphans' = orphans \cup OwnedBy(t)
           /\ UNCHANGED <<owner, released, asking>>

Register(t, o) == /\ t \in live
                  /\ owner[o] = None
                  /\ owner' = [owner EXCEPT ![o] = t]
                  /\ UNCHANGED <<live, orphans, released, asking>>

Ask(t) == /\ t \in live \ asking
          /\ asking' = asking \cup {t}
          /\ UNCHANGED <<live, owner, orphans, released>>

Done(t) == /\ t \in asking
           /\ asking' = asking \ {t}
           /\ UNCHANGED <<live, owner, orphans, released>>

(* Every object is freed at most once.                                     *)
Free(o) == /\ o \notin released
           /\ o \in orphans \/ owner[o] \in asking
           /\ released' = released \cup {o}
           /\ UNCHANGED <<live, owner, orphans, asking>>

Next == \/ \E t \in Tids : Spawn(t) \/ Exit(t) \/ Ask(t) \/ Done(t)
        \/ \E t \in Tids, o \in Objs : Register(t, o)
        \/ \E o \in Objs : Free(o)

Spec == Init /\ [][Next]_vars
=============================================================================
