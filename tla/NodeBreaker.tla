----------------------------- MODULE NodeBreaker -----------------------------
(***************************************************************************)
(* One node's circuit breaker under every sequence of call results,        *)
(* selections and pauses.  The history variables record what really        *)
(* happened to the node, so that the invariants compare the code's         *)
(* bookkeeping with the facts.                                             *)
(***************************************************************************)
EXTENDS NodeStat

CONSTANTS
    MaxCalls,    \* bound of the model: calls counted in one window
    MaxRun       \* bound of the model: consecutive failures

ASSUME BreakerAssumption == /\ MaxCalls \in Nat
                            /\ MaxRun \in Nat

VARIABLES
    stat,        \* the node's record
    run,         \* history: failures reported since the last success
    since,       \* history: time since the first of them
    span,        \* history: time from the first of them to the last
    rest         \* history: time since the node was shielded or last handed out

hist == <<run, since, span, rest>>
vars == <<stat, run, since, span, rest>>

(* Ages are only ever compared with the code's constants; they stop        *)
(* counting once they exceed all of them.                                  *)
Horizon  == CheckTimeoutInterval + MinFrequenceFailTime + TryTimeInterval
Older(a) == IF a < Horizon THEN a + 1 ELSE a

Init == /\ stat = NewStat
        /\ run = 0 /\ since = 0 /\ span = 0
        /\ rest = 0

(* The caller reports the result of a call: LBLoop::statResult.            *)
Report(isFail) ==
    /\ stat.succNum + stat.errNum < MaxCalls
    /\ isFail => run < MaxRun
    /\ stat' = StatResult(stat, isFail)
    /\ run'   = IF isFail THEN run + 1 ELSE 0
    /\ since' = IF isFail /\ run > 0 THEN since ELSE 0
    /\ span'  = IF isFail /\ run > 0 THEN since ELSE 0
    /\ rest'  = IF stat.isAvailable /\ ~stat'.isAvailable THEN 0 ELSE rest

(* The balancer asks whether it may hand the node out, and does so.        *)
Select ==
    /\ IsActive(stat)
    /\ stat' = Probed(stat)
    /\ rest' = 0
    /\ UNCHANGED <<run, since, span>>

Tick ==
    /\ stat' = Elapsed(stat)
    /\ since' = Older(since)
    /\ rest'  = Older(rest)
    /\ UNCHANGED <<run, span>>

Next == (\E isFail \in BOOLEAN : Report(isFail)) \/ Select \/ Tick

Spec == Init /\ [][Next]_vars

-----------------------------------------------------------------------------
Ages == 0 .. Horizon

(* Type correctness of the node's record and of the history.               *)
TypeOK == /\ stat \in RouterNodeStat
          /\ run \in Nat
          /\ since \in Ages /\ span \in Ages /\ rest \in Ages

(* While a node is in use the code's run of failures is the real one, and  *)
(* its timer runs out exactly MinFrequenceFailTime after the first of them.*)
RunIsTracked ==
    stat.isAvailable =>
       /\ stat.continueErrNum = run
       /\ run > 0 => IF since >= MinFrequenceFailTime
                     THEN stat.contIn = 0
                     ELSE stat.contIn = MinFrequenceFailTime - since

(* A dead node is not kept: one whose failures, FrequenceFailInvoke of     *)
(* them or more without a success between, have lasted                     *)
(* MinFrequenceFailTime is shielded, whatever the window check did         *)
(* meanwhile (statResult).                                                 *)
DeadNodeIsShielded ==
    (run >= FrequenceFailInvoke /\ span >= MinFrequenceFailTime)
        => ~stat.isAvailable

(* A node is only ever shielded by a failure just reported, never by a     *)
(* success, a selection or the passing of time.                            *)
ShieldedByFailure ==
    [][stat.isAvailable /\ ~stat'.isAvailable => run' = run + 1]_vars

(* A shielded node is offered at most once per TryTimeInterval: between    *)
(* being shielded (or last offered) and being offered, the interval has    *)
(* passed.  Introduction.md promises a retry "every 30 seconds".           *)
ProbesAreSpaced ==
    [][Select /\ ~stat.isAvailable => rest >= TryTimeInterval]_vars
=============================================================================
