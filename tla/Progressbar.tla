---------------------------- MODULE Progressbar ----------------------------
(***************************************************************************)
(* The bar that fills up by a timer or by the page's own calls:            *)
(* cloudJs/js/progressbar.js.  Every call of the component makes a new bar *)
(* in the same element; its timers are kept at the element, one of a kind. *)
(***************************************************************************)
EXTENDS Naturals

CONSTANTS
    Full,       \* the value at which a bar is complete (100, in steps)
    MaxBars     \* bound on calls

VARIABLES
    bar,        \* the bar made last (0: none)
    timeouts,   \* bars that are to begin after their delay
    interval,   \* _progressInterval: the bar that it moves (0: none)
    value,      \* of every bar
    _paused,
    options,    \* of every bar: autoClose, and whether it moves by itself
    open,       \* the element, or its dialog, is shown
    destroyed,  \* bars that were destroyed
    twice       \* history: a call while the bar of another was due or moving

vars == <<bar, timeouts, interval, value, _paused, options, open, destroyed, twice>>

Bars == 1 .. MaxBars

TypeOK ==
    /\ bar \in 0 .. MaxBars /\ interval \in 0 .. MaxBars
    /\ timeouts \subseteq Bars /\ destroyed \subseteq Bars
    /\ value \in [Bars -> 0 .. Full] /\ _paused \in [Bars -> BOOLEAN]
    /\ options \in [Bars -> [autoClose : BOOLEAN, moves : BOOLEAN]]
    /\ open \in BOOLEAN /\ twice \in BOOLEAN

Init ==
    /\ bar = 0 /\ timeouts = {} /\ interval = 0 /\ open = FALSE /\ destroyed = {} /\ twice = FALSE
    /\ value = [b \in Bars |-> 0] /\ _paused = [b \in Bars |-> FALSE]
    /\ options \in [Bars -> [autoClose : BOOLEAN, moves : BOOLEAN]]

(* The object's methods; those of a bar that was destroyed fail.           *)
Close == open' = FALSE /\ interval' = 0

(* setValue: a complete bar moves no more, and closes if it is to.         *)
SetValue(b, v) ==
    /\ value' = [value EXCEPT ![b] = v]
    /\ IF v # Full THEN UNCHANGED <<interval, open>>
       ELSE IF options[b].autoClose /\ b \notin destroyed THEN Close
       ELSE interval' = 0 /\ UNCHANGED open

(* _run: from zero; the timer of whatever bar moved is taken over.         *)
Run(b) ==
    /\ _paused' = [_paused EXCEPT ![b] = FALSE]
    /\ value' = [value EXCEPT ![b] = 0]
    /\ interval' = IF options[b].moves THEN b ELSE 0

-----------------------------------------------------------------------------
(* progressbar(options): the new bar is hidden until its delay is over.    *)
Call ==
    /\ bar < MaxBars /\ bar' = bar + 1
    /\ bar \notin destroyed
    /\ timeouts' = timeouts \cup {bar'} /\ open' = FALSE
    /\ twice' = (twice \/ timeouts # {} \/ interval # 0)
    /\ UNCHANGED <<interval, value, _paused, options, destroyed>>

Delayed ==
    /\ \E b \in timeouts : timeouts' = timeouts \ {b} /\ Run(b)
    /\ open' = TRUE
    /\ UNCHANGED <<bar, options, destroyed, twice>>

Tick ==
    /\ interval # 0 /\ ~_paused[interval]
    /\ SetValue(interval, value[interval] + 1)
    /\ UNCHANGED <<bar, timeouts, _paused, options, destroyed, twice>>

(* 'setValue', 'pause' and 'run' of the bar made last                      *)
CallSetValue(v) ==
    /\ bar # 0 /\ SetValue(bar, v)
    /\ UNCHANGED <<bar, timeouts, _paused, options, destroyed, twice>>

Pause(p) ==
    /\ bar # 0 /\ bar \notin destroyed /\ _paused' = [_paused EXCEPT ![bar] = p]
    /\ UNCHANGED <<bar, timeouts, interval, value, options, open, destroyed, twice>>

(* 'close', which forgets the delay of the bar made last, and the close    *)
(* button of its dialog, which does not                                    *)
CallClose(button) ==
    /\ bar # 0 /\ (button => open) /\ Close
    /\ timeouts' = IF button THEN timeouts ELSE timeouts \ {bar}
    /\ UNCHANGED <<bar, value, _paused, options, destroyed, twice>>

(* 'open': the dialog again, from zero                                     *)
CallOpen ==
    /\ bar # 0 /\ bar \notin destroyed \cup timeouts /\ ~open
    /\ open' = TRUE /\ Run(bar)
    /\ UNCHANGED <<bar, timeouts, options, destroyed, twice>>

(* 'destroy': the element or its dialog goes; the interval stays.          *)
Destroy ==
    /\ bar # 0 /\ open' = FALSE
    /\ destroyed' = destroyed \cup {bar} /\ timeouts' = timeouts \ {bar}
    /\ UNCHANGED <<bar, interval, value, _paused, options, twice>>

Next ==
    \/ Call \/ Delayed \/ Tick \/ CallOpen \/ Destroy
    \/ \E v \in 0 .. Full : CallSetValue(v)
    \/ \E p \in BOOLEAN : Pause(p) \/ CallClose(p)

Spec == Init /\ [][Next]_vars

-----------------------------------------------------------------------------
(* The bar that moves is the one that is shown: none moves on unseen after *)
(* it was closed, was complete or was called anew, unless it was destroyed *)
(* or a bar was called while another was due or moving (_init, _run,       *)
(* setValue, close).                                                       *)
MovesInSight ==
    interval # 0 => \/ open /\ interval = bar /\ value[bar] < Full
                    \/ interval \in destroyed \/ twice

(* What every step keeps: a bar that moves is not complete, and only the   *)
(* bar made last can be due.                                               *)
Inv == /\ TypeOK /\ MovesInSight
       /\ interval # 0 => value[interval] < Full
       /\ ~twice => timeouts \subseteq {bar}
=============================================================================
