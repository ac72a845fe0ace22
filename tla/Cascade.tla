------------------------------- MODULE Cascade -------------------------------
(***************************************************************************)
(* Lists of choices that depend on each other (cloudJs/js/cascade.js), one *)
(* url for each level.  A choice at one level asks for the options of the  *)
(* next; the field made of these options (combobox.js) chooses the first   *)
(* of them and by its change event asks for the level after it.  Nothing   *)
(* orders the answers.                                                     *)
(***************************************************************************)
EXTENDS Naturals, Sequences, Functions

CONSTANTS
    Depth,      \* levels are 1 .. Depth
    Children,   \* what the urls answer: choices above -> sequence of options,
                \* nothing to choices outside the domain
    Empty,      \* no choice, in every way the code writes it ('' and TEMPKEY)
    MaxAsked    \* bound on requests that are not answered

VARIABLES
    dValues,    \* _dValues: the choice at each level
    options,    \* the choices above for which the options were made; no
                \* options: <<Empty>>
    asked,      \* requests in the order they were sent: choices above
    disordered  \* history: an answer was lost or overtaken by a later one

vars == <<dValues, options, asked, disordered>>

Levels == 1 .. Depth
Cleared == <<Empty>>
OptionsOf(path) == IF path \in DOMAIN Children THEN Children[path] ELSE <<>>
Offered == UNION {Range(Children[p]) : p \in DOMAIN Children}

TypeOK ==
    /\ dValues \in [Levels -> Offered \cup {Empty}]
    /\ options \in [Levels -> DOMAIN Children \cup {Cleared}]
    /\ asked \in Seq(Seq(Offered \cup {Empty})) /\ Len(asked) <= MaxAsked
    /\ disordered \in BOOLEAN

(* _init asks for the first level.                                         *)
Init ==
    /\ dValues = [k \in Levels |-> Empty]
    /\ options = [k \in Levels |-> Cleared]
    /\ asked = <<<<>>>> /\ disordered = FALSE

(* _getParams: the choices above a level.                                  *)
GetParams(values, level) == [k \in 1 .. level - 1 |-> values[k]]

(* _onChange: the choices below are forgotten; the next level is asked for *)
(* or, without a choice, everything below is cleared.                      *)
OnChange(level, v, opts, queue) ==
    LET values == [k \in Levels |-> CASE k < level -> dValues[k] [] k = level -> v
                                      [] OTHER -> Empty]
        ask    == level < Depth /\ v # Empty
    IN  /\ dValues' = values
        /\ options' = IF v = Empty THEN [k \in Levels |-> IF k > level THEN Cleared ELSE opts[k]]
                      ELSE opts
        /\ asked' = IF ask THEN Append(queue, GetParams(values, level + 1)) ELSE queue
        /\ Len(asked') <= MaxAsked

(* The user chooses, perhaps from options that are out of date.            *)
Change(level) ==
    /\ \E v \in Range(OptionsOf(options[level])) \ {dValues[level]} :
          OnChange(level, v, options, asked)
    /\ UNCHANGED disordered

(* Mutant: a choice made meanwhile is kept whatever the new options are.   *)
DefaultOfAny(opts, choice) == IF opts # <<>> /\ choice = Empty THEN opts[1] ELSE choice

(* The choice of new options: the one made meanwhile if it is among them,  *)
(* the first one otherwise.                                                *)
DefaultOf(opts, choice) ==
    CASE opts = <<>> -> Empty
      [] opts # <<>> /\ choice \in Range(opts) -> choice
      [] OTHER -> opts[1]

(* What is asked after the i-th of the requests was answered, or lost.     *)
Without(queue, i) == SubSeq(queue, 1, i - 1) \o SubSeq(queue, i + 1, Len(queue))

(* The answer of _ajaxData: _createOptions makes the field anew and the    *)
(* new field reports the change.                                           *)
CreateOptions(i) ==
    LET path  == asked[i]
        level == Len(path) + 1
        opts  == OptionsOf(path)
    IN  /\ OnChange(level, DefaultOf(opts, dValues[level]),
                    [options EXCEPT ![level] = IF opts = <<>> THEN Cleared ELSE path],
                    Without(asked, i))
        /\ disordered' = (disordered \/ i > 1)

Answer == \E i \in DOMAIN asked : CreateOptions(i)

(* getJSON has no handler of errors.                                       *)
Lost ==
    /\ \E i \in DOMAIN asked : asked' = Without(asked, i)
    /\ disordered' = TRUE
    /\ UNCHANGED <<dValues, options>>

Next == (\E level \in Levels : Change(level)) \/ Answer \/ Lost

Spec == Init /\ [][Next]_vars

-----------------------------------------------------------------------------
(* A level is right: it offers the options that belong to the choices      *)
(* above it and has one of them chosen, or none if there are none.         *)
Right(k) ==
    LET above == GetParams(dValues, k) IN
    IF OptionsOf(above) = <<>> THEN options[k] = Cleared /\ dValues[k] = Empty
    ELSE options[k] = above /\ dValues[k] \in Range(OptionsOf(above))

(* When all is answered, in the order it was asked, every level is right,  *)
(* whatever the user chose while answers were under way.                   *)
ChildrenFollow == asked = <<>> /\ ~disordered => \A k \in Levels : Right(k)

(* What every step keeps: the levels that are not right are those from the *)
(* one on that a request asks for which has all the choices that are made  *)
(* now; what was asked later is for levels under it, and nothing is asked  *)
(* for levels above.  Without such a request what is asked has no options. *)
Decides(i) ==
    LET n == Len(asked[i]) IN
    /\ asked[i] = GetParams(dValues, n + 1) /\ Empty \notin Range(asked[i])
    /\ \A k \in Levels : k <= n => Right(k)
    /\ \A j \in DOMAIN asked : Len(asked[j]) >= n
    /\ \A j \in DOMAIN asked : j > i =>
          Len(asked[j]) > n /\ \A k \in 1 .. n : asked[j][k] = asked[i][k]
Inv ==
    /\ TypeOK /\ ChildrenFollow
    /\ \A i \in DOMAIN asked : Len(asked[i]) < Depth
    /\ ~disordered =>
          \/ \E i \in DOMAIN asked : Decides(i)
          \/ /\ \A k \in Levels : Right(k)
             /\ \A i \in DOMAIN asked :
                   /\ OptionsOf(asked[i]) = <<>>
                   /\ OptionsOf(GetParams(dValues, Len(asked[i]) + 1)) = <<>>
=============================================================================
