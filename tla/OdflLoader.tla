----------------------------- MODULE OdflLoader -----------------------------
(***************************************************************************)
(* Resources on demand: force and remove of global-libs/odfl/odfl.js, in   *)
(* browsers that know async scripts (_loadAsync).  A request names some    *)
(* scripts and style sheets, perhaps again ("force"), for a component.     *)
(* _loadHandler keeps per resource who waits for it; an empty list means   *)
(* that it is there.  A call runs to its end before the next event: its    *)
(* steps are on the agenda, and nothing else happens while there are any.  *)
(***************************************************************************)
EXTENDS Naturals, Sequences, FiniteSets, SequencesExt

CONSTANTS Scripts, Styles, Comps, MaxRequests,
          Absent        \* what _loadHandler holds of a resource never asked

VARIABLES
    handler,    \* _loadHandler: the callbacks <<request, item>> that wait
    asks,       \* the calls of force, those _loadRes makes included
    loads,      \* elements still loading: <<resource, element>>, oldest lowest
    agenda,     \* rest of the call that is running
    attr,       \* attribute data-odfl of every element: components that use it
    known,      \* components _comRes has an entry of, in order
    comRes,     \* _comRes: the element of a resource, 0 if none
    answered,   \* history: how often success ran, per call of force
    there,      \* history: resources that have been loaded
    lost,       \* history: resources that failed or were removed
    thrown      \* history: calls of force that ended in an error

vars == <<handler, asks, loads, agenda, attr, known, comRes, answered, there, lost, thrown>>

Names == Scripts \cup Styles
Lists == {<<n>> : n \in Names} \cup {<<m, n>> : m, n \in Names}
Call(cbs) == [k \in DOMAIN cbs |-> [op |-> "call", r |-> cbs[k][1], i |-> cbs[k][2]]]
Excused(r) == r \in thrown \/ ToSet(asks[r].items) \cap lost # {}

TypeOK ==
    /\ \A n \in Names : handler[n] = Absent
                        \/ \A k \in DOMAIN handler[n] : handler[n][k][1] \in DOMAIN asks
    /\ \A l \in loads : l[1] \in Names /\ l[2] \in DOMAIN attr
    /\ attr \in Seq(SUBSET Comps) /\ known \in Seq(Comps) /\ there \subseteq Names
    /\ comRes \in [Comps -> [Names -> 0 .. Len(attr)]]
    /\ thrown \subseteq DOMAIN asks /\ lost \subseteq Names /\ DOMAIN answered = DOMAIN asks

Init ==
    /\ handler = [n \in Names |-> Absent] /\ there = {}
    /\ asks = <<>> /\ loads = {} /\ agenda = <<>> /\ answered = <<>>
    /\ comRes = [c \in Comps |-> [n \in Names |-> 0]]
    /\ attr = <<>> /\ known = <<>> /\ lost = {} /\ thrown = {}

-----------------------------------------------------------------------------
(* force and _getItems: a new call with an item per resource.              *)
Ask(items, comp, again, then) ==
    /\ asks' = Append(asks, [items |-> items, state |-> [i \in DOMAIN items |-> "none"],
                             comp |-> comp, again |-> again, then |-> then])
    /\ answered' = Append(answered, 0)

Force ==
    /\ agenda = <<>>
    /\ Cardinality({r \in DOMAIN asks : asks[r].then = <<>>}) < MaxRequests
    /\ \E items \in Lists, comp \in Comps, again \in BOOLEAN :
          /\ IsInjective(items)
          /\ Ask(items, comp, again, <<>>)
          /\ agenda' = [i \in DOMAIN items |-> [op |-> "load", r |-> Len(asks) + 1, i |-> i]]
    /\ UNCHANGED <<handler, loads, attr, known, comRes, there, lost, thrown>>

(* _getRes and _addResAttr: the element of a resource, as the first        *)
(* component that has one knows it, is used by one more.                   *)
GetRes(n) == LET has == {k \in DOMAIN known : comRes[known[k]][n] # 0}
                 k   == CHOOSE k \in has : \A j \in has : k <= j
             IN  comRes[known[k]][n]

Uses(c, n, e) ==
    /\ comRes' = [comRes EXCEPT ![c][n] = e]
    /\ attr' = IF e \in DOMAIN attr THEN [attr EXCEPT ![e] = @ \cup {c}] ELSE Append(attr, {c})
    /\ known' = IF c \in ToSet(known) THEN known ELSE Append(known, c)

(* _loadRes: the resource is asked for, waited for or there.  A resource   *)
(* that was asked cannot be noted for a component that asks its first one: *)
(* _comRes of it is undefined and the call ends in a TypeError.            *)
Throws(r, n) == handler[n] # Absent /\ asks[r].comp \notin ToSet(known)

Forced(r, n) == asks[r].again /\ n \in Scripts

LoadRes(r, i) ==
    LET ask  == asks[r]
        n    == ask.items[i]
        cb   == <<r, i>>
        rest == Tail(agenda)
        Mark(s) == asks' = [asks EXCEPT ![r].state[i] = s] /\ UNCHANGED answered
    IN
    \/ /\ Throws(r, n)
       /\ agenda' = <<>> /\ thrown' = thrown \cup {r}
       /\ UNCHANGED <<handler, asks, loads, attr, known, comRes, answered>>
    \/ /\ handler[n] = Absent
       /\ Uses(ask.comp, n, Len(attr) + 1)
       /\ handler' = [handler EXCEPT ![n] = <<cb>>]
       /\ loads' = loads \cup {<<n, Len(attr) + 1>>}
       /\ Mark("LOADING") /\ agenda' = rest /\ UNCHANGED thrown
    \/ /\ handler[n] # Absent /\ ~Throws(r, n)
       /\ Uses(ask.comp, n, GetRes(n)) /\ UNCHANGED <<loads, thrown>>
       /\ \/ /\ Forced(r, n)
             /\ handler' = [handler EXCEPT ![n] = Absent]
             /\ Ask(<<n>>, ask.comp, TRUE, Append(handler[n], cb))
             /\ agenda' = <<[op |-> "load", r |-> Len(asks) + 1, i |-> 1]>> \o rest
          \/ /\ ~Forced(r, n) /\ handler[n] = <<>>
             /\ Mark("LOADED") /\ agenda' = Call(<<cb>>) \o rest /\ UNCHANGED handler
          \/ /\ ~Forced(r, n) /\ handler[n] # <<>>
             /\ handler' = [handler EXCEPT ![n] = Append(@, cb)]
             /\ Mark("LOADING") /\ agenda' = rest

(* Mutant: one resource that is there is enough.                           *)
SucceedsWithOne(r) == \E i \in DOMAIN asks[r].items : asks[r].state[i] = "LOADED"

(* _loadAsync: the callback of an item succeeds when every item is there.  *)
(* A call made by _loadRes passes that on to those it took over.           *)
Succeeds(r) == \A i \in DOMAIN asks[r].items : asks[r].state[i] = "LOADED"

CallBack(r, i) ==
    /\ agenda' = (IF Succeeds(r) THEN Call(asks[r].then) ELSE <<>>) \o Tail(agenda)
    /\ answered' = IF Succeeds(r) THEN [answered EXCEPT ![r] = @ + 1] ELSE answered
    /\ UNCHANGED <<handler, asks, loads, attr, known, comRes, thrown>>

Turn ==
    /\ agenda # <<>>
    /\ LET e == Head(agenda) IN
       IF e.op = "load" THEN LoadRes(e.r, e.i) ELSE CallBack(e.r, e.i)
    /\ UNCHANGED <<there, lost>>

(* _flagState and _dealHandler: every item of that name is there, and who  *)
(* waits is called, the list being emptied.                                *)
FlagState(n) ==
    asks' = [r \in DOMAIN asks |-> [asks[r] EXCEPT !.state =
        [i \in DOMAIN @ |-> IF asks[r].items[i] = n THEN "LOADED" ELSE @[i]]]]

(* Mutant: only the first of those who wait is called.                     *)
DealHandlerFirst(n) ==
    IF handler[n] = Absent THEN agenda' = <<>> /\ UNCHANGED handler
    ELSE /\ agenda' = IF handler[n] = <<>> THEN <<>> ELSE Call(<<handler[n][1]>>)
         /\ handler' = [handler EXCEPT ![n] = <<>>]

DealHandler(n) ==
    IF handler[n] = Absent THEN agenda' = <<>> /\ UNCHANGED handler
    ELSE agenda' = Call(handler[n]) /\ handler' = [handler EXCEPT ![n] = <<>>]

(* Scripts run in the order of their elements (async = false).             *)
InTurn(l) == l[1] \in Styles \/ \A m \in loads : m[2] < l[2] => m[1] \in Styles

(* _load, onload; a style sheet that fails counts as loaded.               *)
Loaded ==
    /\ agenda = <<>>
    /\ \E l \in loads : LET n == l[1] IN
          /\ InTurn(l)
          /\ loads' = loads \ {l}
          /\ there' = there \cup {n}
          /\ FlagState(n)
          /\ DealHandler(n)
    /\ UNCHANGED <<attr, known, comRes, answered, lost, thrown>>

(* _load, onerror: fail of the call that asked; the list stays as it is,   *)
(* and so do the others who wait.                                          *)
Failed ==
    /\ agenda = <<>>
    /\ \E l \in loads : LET n == l[1] IN
          /\ n \in Scripts /\ InTurn(l)
          /\ loads' = loads \ {l}
          /\ lost' = lost \cup {n}
    /\ UNCHANGED <<handler, asks, agenda, attr, known, comRes, answered, there, thrown>>

(* remove: what no other component uses is forgotten.  The element of a    *)
(* style sheet goes; that of a script has another parent and stays.        *)
RemoveComp ==
    /\ agenda = <<>>
    /\ \E c \in ToSet(known) :
          LET Its(e) == \E n \in Names : comRes[c][n] = e
              own    == {n \in Names : comRes[c][n] # 0 /\ attr[comRes[c][n]] = {c}}
              Gone(l) == l[1] \in own \cap Styles /\ l[2] = comRes[c][l[1]]
          IN
          /\ handler' = [n \in Names |-> IF n \in own THEN Absent ELSE handler[n]]
          /\ loads' = {l \in loads : ~Gone(l)}
          /\ attr' = [e \in DOMAIN attr |-> IF Its(e) /\ attr[e] # {c} THEN attr[e] \ {c}
                                             ELSE attr[e]]
          /\ lost' = lost \cup own
    /\ UNCHANGED <<asks, agenda, known, comRes, answered, there, thrown>>

Next == Force \/ Turn \/ Loaded \/ Failed \/ RemoveComp

(* Every call ends, and every element that loads comes or fails.           *)
Fairness == WF_vars(Turn) /\ WF_vars(Loaded \/ Failed)

Spec == Init /\ [][Next]_vars /\ Fairness

-----------------------------------------------------------------------------
(* success runs at most once for a call of force, however its resources    *)
(* are shared, asked again, lost or removed meanwhile (_dealHandler,       *)
(* _loadRes), and only when all it names has been loaded.                  *)
SucceedsOnceWithAll ==
    \A r \in DOMAIN asks :
        answered[r] > 0 => answered[r] = 1 /\ ToSet(asks[r].items) \subseteq there

(* A list is empty only when the resource is there, and somebody loads     *)
(* what is waited for unless it failed: nobody waits for nothing.          *)
SomebodyLoads ==
    \A n \in Names : handler[n] # Absent =>
        /\ handler[n] = <<>> => n \in there
        /\ \A k \in DOMAIN handler[n] : ~Excused(handler[n][k][1]) =>
              \E l \in loads : l[1] = n

(* Every call of force succeeds if nothing it names fails, is removed or   *)
(* makes it throw: callbacks handed over to a forced load are not lost.    *)
EveryCallSucceeds ==
    \A r \in 1 .. MaxRequests :
        r \in DOMAIN asks ~> r \in DOMAIN asks /\ (answered[r] > 0 \/ Excused(r))
=============================================================================
