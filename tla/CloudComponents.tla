-------------------------- MODULE CloudComponents --------------------------
(***************************************************************************)
(* Components on demand: global-libs/cloudJs/js/cloudjs.js above its force *)
(* (a file arrives once, or is lost).  cloudjs.mask(...) calls a proxy     *)
(* until the file of mask has come and define has put the component in its *)
(* place; calls made before wait in queues, and functions given to         *)
(* cloudjs(fn) wait until no component is busy.  A component answers when  *)
(* it returns something; mask('destroy') does not ("mute").                *)
(***************************************************************************)
EXTENDS Naturals, Sequences, FiniteSets, SequencesExt

CONSTANTS Components,
          Filed,        \* components that need a script of their own
          Null,         \* taskArr after the version file
          MaxCalls, MaxTasks

VARIABLES
    taskArr,    \* _taskArr: calls made before the version file; Null after
    state,      \* _args[comp + _state_], "DEFINED" once define has run, "LOST"
                \* when LOADING is what it stays
    queue,      \* _args[comp + _args_]
    made,       \* number of calls made
    rt,         \* what the calls that run change: see Init
    hasTask,    \* _hasTask
    funArr,     \* _funArr
    ran,        \* history: functions that ran
    odd         \* history: what files and calls met, see the properties

vars == <<taskArr, state, queue, made, rt, hasTask, funArr, ran, odd>>

Calls == [id : 1 .. MaxCalls, comp : Components, pre : BOOLEAN, mute : BOOLEAN]

TypeOK ==
    /\ taskArr = Null \/ taskArr \in Seq(Calls)
    /\ state \in [Components -> {"PRELOAD", "LOADING", "LOST", "DEFINED"}]
    /\ queue \in [Components -> Seq(Calls)] /\ made \in 0 .. MaxCalls
    /\ rt.filing \in Seq([call : Calls, pre : BOOLEAN])
    /\ rt.onTaskCount \in 0 .. MaxCalls /\ rt.log \in Seq(Calls)
    /\ hasTask \in BOOLEAN /\ ran \subseteq 1 .. MaxTasks
    /\ odd \subseteq {"lost", "together", "mixed", "mute"}

Init ==
    /\ taskArr = <<>> /\ made = 0
    /\ state = [c \in Components |-> "PRELOAD"] /\ queue = [c \in Components |-> <<>>]
    /\ hasTask = FALSE /\ funArr = <<>> /\ ran = {} /\ odd = {}
    /\ rt = [filing |-> <<>>,       \* who waits for the script, for what
             script |-> "no",       \* "loading", "there", "lost" or "stuck"
             onTaskCount |-> 0,     \* _onTaskCount
             timers |-> <<>>,       \* setTimeout(.., 0), in order
             log |-> <<>>]          \* history: calls that ran, preloads done

-----------------------------------------------------------------------------
(* setTimeout; two calls of _afterTask in a row do what one does.          *)
Later(S, op, n) ==
    IF S.timers # <<>> /\ Last(S.timers) = <<op, n>> THEN S
    ELSE [S EXCEPT !.timers = Append(@, <<op, n>>)]

(* Mutant: a component that returned something is not counted off.         *)
RunsUncounted(S, call) ==
    LET T == [S EXCEPT !.log = Append(@, call)]
    IN  IF call.mute THEN T ELSE Later(T, "afterTask", 0)

(* define, _f: the component runs, and what it returns counts it off.      *)
Runs(S, call) ==
    LET T == [S EXCEPT !.log = Append(@, call)]
    IN  IF call.mute THEN T ELSE Later([T EXCEPT !.onTaskCount = @ - 1], "afterTask", 0)

(* Mutant: the last to wait is called first.                               *)
WaitsInFront(S, call, pre) ==
    [S EXCEPT !.filing = <<[call |-> call, pre |-> pre]>> \o @,
              !.script = IF @ = "no" THEN "loading" ELSE @]

(* The scripts of a component: asked for once, and who comes meanwhile     *)
(* waits.                                                                  *)
Files(S, call) == call.comp \in Filed /\ S.script # "there"
Waits(S, call, pre) ==
    [S EXCEPT !.filing = Append(@, [call |-> call, pre |-> pre]),
              !.script = IF @ = "no" THEN "loading" ELSE @]

(* Mutant: a component is counted when its scripts are there.              *)
DefinedLate(S, call) ==
    IF Files(S, call) THEN Waits(S, call, FALSE)
    ELSE Runs([S EXCEPT !.onTaskCount = @ + 1], call)

(* define, the function of a component: counted, and its scripts first.    *)
Defined(S, call) ==
    LET T == [S EXCEPT !.onTaskCount = @ + 1]
    IN  IF Files(S, call) THEN Waits(T, call, FALSE) ELSE Runs(T, call)

(* _add, a preload in the queue: its scripts, then the callback.  All the  *)
(* callbacks of one queue read the variable args after the loop: that of   *)
(* the last call.                                                          *)
Preload(S, call, last) ==
    IF Files(S, call) THEN Waits(S, last, TRUE) ELSE [S EXCEPT !.log = Append(@, call)]

Waiting(c) == state[c] \in {"LOADING", "LOST"}
Mute(call) == {o \in {"mute"} : call.mute}

(* _add, the proxy: a call waits for the version file, or for its own.     *)
Proxy(call) ==
    /\ hasTask' = TRUE
    /\ IF taskArr # Null
       THEN /\ taskArr' = Append(taskArr, call) /\ odd' = odd \cup Mute(call)
            /\ UNCHANGED <<state, queue>>
       ELSE /\ queue' = [queue EXCEPT ![call.comp] = Append(@, call)]
            /\ state' = [state EXCEPT ![call.comp] = IF @ = "PRELOAD" THEN "LOADING" ELSE @]
            /\ odd' = odd \cup Mute(call) \cup
                      {o \in {"together"} : \E c \in Components \ {call.comp} : Waiting(c)}
            /\ UNCHANGED taskArr

(* A page calls a component or preloads it; preload of what is there       *)
(* calls back by setTimeout.                                               *)
Use ==
    /\ made < MaxCalls /\ made' = made + 1
    /\ \E call \in Calls :
          /\ call.id = made + 1 /\ ~(call.pre /\ call.mute)
          /\ IF state[call.comp] = "DEFINED"
             THEN /\ rt' = IF call.pre THEN [rt EXCEPT !.timers = Append(@, <<"callback", call>>)]
                           ELSE Defined(rt, call)
                  /\ odd' = odd \cup Mute(call)
                  /\ UNCHANGED <<taskArr, state, queue, hasTask>>
             ELSE Proxy(call) /\ UNCHANGED rt
    /\ UNCHANGED <<funArr, ran>>

(* cloudjs(fn): _addTask pushes it by setTimeout.                          *)
AddTask ==
    /\ \E n \in 1 .. MaxTasks :
          /\ n \notin ran \cup ToSet(funArr) /\ <<"task", n>> \notin ToSet(rt.timers)
          /\ rt' = Later(rt, "task", n)
    /\ UNCHANGED <<taskArr, state, queue, made, hasTask, funArr, ran, odd>>

(* _run: the version file has come or is lost; what was called is called   *)
(* again, in order.                                                        *)
Run ==
    /\ taskArr # Null /\ taskArr' = Null
    /\ LET called == {taskArr[i].comp : i \in DOMAIN taskArr} IN
       /\ queue' = [c \in Components |-> SelectSeq(taskArr, LAMBDA k : k.comp = c)]
       /\ state' = [c \in Components |-> IF c \in called THEN "LOADING" ELSE state[c]]
       /\ odd' = odd \cup {o \in {"together"} : Cardinality(called) > 1}
    /\ rt' = Later(rt, "afterTask", 0)
    /\ UNCHANGED <<made, hasTask, funArr, ran>>

(* _add, the file has come: the calls of its queue run, in order.          *)
FileCame ==
    /\ \E c \in Components : LET q == queue[c] IN
          /\ state[c] = "LOADING"
          /\ state' = [state EXCEPT ![c] = "DEFINED"]
          /\ rt' = FoldLeft(LAMBDA S, call : IF call.pre THEN Preload(S, call, Last(q))
                                             ELSE Defined(S, call),
                            Later(rt, "afterTask", 0), q)
          /\ odd' = odd \cup {o \in {"mixed"} :
                                 c \in Filed /\ \E i \in 1 .. Len(q) - 1 : q[i].pre}
    /\ hasTask' = FALSE
    /\ UNCHANGED <<taskArr, queue, made, funArr, ran>>

(* The script has come: whoever waits goes on.  A preload whose callback   *)
(* is no function throws, and nobody after it is called, now or later.     *)
ScriptCame ==
    /\ rt.script = "loading"
    /\ LET bad == {i \in DOMAIN rt.filing : rt.filing[i].pre /\ ~rt.filing[i].call.pre}
           n   == IF bad = {} THEN Len(rt.filing)
                  ELSE (CHOOSE i \in bad : \A j \in bad : i <= j) - 1
           S   == FoldLeft(LAMBDA T, f : IF f.pre THEN [T EXCEPT !.log = Append(@, f.call)]
                                         ELSE Runs(T, f.call),
                           rt, SubSeq(rt.filing, 1, n))
       IN  rt' = [S EXCEPT !.script = IF bad = {} THEN "there" ELSE "stuck",
                           !.filing = SubSeq(@, n + 2, Len(@))]
    /\ UNCHANGED <<taskArr, state, queue, made, hasTask, funArr, ran, odd>>

(* A file is lost: force was given no fail.                                *)
Lost ==
    /\ "lost" \notin odd /\ odd' = odd \cup {"lost"}
    /\ \/ \E c \in Components : state[c] = "LOADING" /\ state' = [state EXCEPT ![c] = "LOST"]
                                /\ UNCHANGED rt
       \/ rt.script = "loading" /\ rt' = [rt EXCEPT !.script = "lost"] /\ UNCHANGED state
    /\ UNCHANGED <<taskArr, queue, made, hasTask, funArr, ran>>

(* The next timer.  _afterTask runs all functions if no component is busy. *)
Tick ==
    /\ rt.timers # <<>>
    /\ LET t == Head(rt.timers)
           S == [rt EXCEPT !.timers = Tail(@)] IN
       CASE t[1] = "task" -> rt' = S /\ funArr' = Append(funArr, t[2]) /\ UNCHANGED ran
         [] t[1] = "callback" -> rt' = [S EXCEPT !.log = Append(@, t[2])]
                                 /\ UNCHANGED <<funArr, ran>>
         [] OTHER -> /\ rt' = S
                     /\ IF S.onTaskCount = 0 /\ ~hasTask
                        THEN ran' = ran \cup ToSet(funArr) /\ funArr' = <<>>
                        ELSE UNCHANGED <<funArr, ran>>
    /\ UNCHANGED <<taskArr, state, queue, made, hasTask, odd>>

Next == Use \/ AddTask \/ Run \/ FileCame \/ ScriptCame \/ Lost \/ Tick

(* Files come or are lost, and timers are served.                          *)
Fairness == WF_vars(Run) /\ WF_vars(Tick) /\ WF_vars(ScriptCame) /\ WF_vars(FileCame)

Spec == Init /\ [][Next]_vars /\ Fairness

-----------------------------------------------------------------------------
Busy == (taskArr # Null /\ taskArr # <<>>) \/ (\E c \in Components : Waiting(c))
        \/ \E i \in DOMAIN rt.filing : ~rt.filing[i].pre

(* Calls of one component run once and in the order they were made,        *)
(* through the wait for the version file, for its own file and for its     *)
(* scripts (taskArr, compArgs, force).                                     *)
CallsRunInOrder ==
    \A i, j \in DOMAIN rt.log :
        i < j /\ rt.log[i].comp = rt.log[j].comp /\ ~rt.log[i].pre /\ ~rt.log[j].pre
            => rt.log[i].id < rt.log[j].id

(* A function given to cloudjs(fn) runs only when every call made before   *)
(* has answered, as long as components are not loaded together: any file   *)
(* that comes clears the one _hasTask (_afterTask).                        *)
TasksRunAfterCalls ==
    [][ran' # ran /\ "together" \notin odd => ~Busy]_vars

(* A component whose file and scripts come runs its calls, and preload     *)
(* calls back, unless a preload met another call in the queue.             *)
EveryCallRuns ==
    \A n \in 1 .. MaxCalls :
        made >= n ~> odd \cap {"lost", "mixed"} # {} \/ \E i \in DOMAIN rt.log : rt.log[i].id = n

(* A function that waits while a component is busy runs in the end, if     *)
(* files come and every component answers (_hasTask, _onTaskCount).        *)
TasksRun ==
    \A n \in 1 .. MaxTasks :
        n \in ToSet(funArr) /\ Busy ~> n \in ran \/ odd \cap {"lost", "mixed", "mute"} # {}
=============================================================================
