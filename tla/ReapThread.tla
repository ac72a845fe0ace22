----------------------------- MODULE ReapThread -----------------------------
(***************************************************************************)
(* The registry's timer thread, and one of the double buffers that its     *)
(* loads fill while queries read.  getReaderData gives a query a reference *)
(* to the buffer in use, which the query goes on reading after a swap: the *)
(* code has no lock, only the time until the other buffer is filled again. *)
(* The clock counts seconds as TNOW does; a wait of 100 ms takes none.     *)
(***************************************************************************)
EXTENDS Integers

CONSTANTS
    Readers,                    \* queries at the same time
    None,
    LoadInterval,               \* loadAllObjectsInterval
    HeartBeatInterval,          \* registryheartbeatinterval
    Ttl,                        \* reigistryTimeout, the life of the key in etcd
    MaxTurn,                    \* the longest turn of the loop
    MaxRead                     \* the longest query

ASSUME ReapAssumption ==
    /\ None \notin {0, 1}
    /\ LoadInterval \in Nat /\ LoadInterval >= 5
    /\ HeartBeatInterval \in Nat
    /\ Ttl \in Nat /\ MaxTurn \in Nat /\ MaxRead \in Nat

VARIABLES
    pc,             \* the thread: waiting, in a beat or at a point of a load
    spent,          \* time since `now' was taken in this turn
    sinceBeat,      \* time since lastHeartbeat
    sinceLoad,      \* time since lastLoadAllObjectsStep
    keyAge,         \* time since the registry's key was last written, up to Ttl
    unsent,         \* history: the last beat did not reach etcd
    idx,            \* the buffer in use; the other one is the writer's
    hold, age       \* the buffer each query reads, and for how long

clocks   == <<spent, sinceBeat, sinceLoad>>
key      == <<keyAge, unsent>>
queries  == <<hold, age>>
reapVars == <<pc, clocks, key, idx, queries>>

Loading == {"load", "fill", "loaded"}

(* init has sent a beat, and has loaded; the time this took may have aged  *)
(* the key.  lastHeartbeat starts at zero, so that the next beat is due.   *)
ReapInit ==
    /\ pc = "wait"
    /\ spent = 0
    /\ sinceBeat = HeartBeatInterval
    /\ sinceLoad = 0
    /\ keyAge \in 0 .. MaxTurn /\ keyAge <= Ttl
    /\ unsent \in BOOLEAN
    /\ idx = 1
    /\ hold = [r \in Readers |-> None]
    /\ age = [r \in Readers |-> 0]

(* Mutant: a beat may be left out.                                         *)
BeatDueLate == sinceBeat >= 2 * HeartBeatInterval

BeatDue == sinceBeat >= HeartBeatInterval

LoadDue == sinceLoad - spent >= LoadInterval

(* Both intervals are counted from `now', taken before the beat.           *)
ToLoad == IF LoadDue THEN pc' = "load" /\ sinceLoad' = spent
                     ELSE pc' = "wait" /\ UNCHANGED sinceLoad

Turn ==
    /\ pc = "wait"
    /\ BeatDue \/ sinceLoad >= LoadInterval
    /\ spent' = 0
    /\ IF BeatDue
       THEN pc' = "beat" /\ sinceBeat' = 0 /\ UNCHANGED sinceLoad
       ELSE pc' = "load" /\ sinceLoad' = 0 /\ UNCHANGED sinceBeat
    /\ UNCHANGED <<key, idx, queries>>

BeatSent == /\ pc = "beat"
            /\ keyAge' = 0 /\ unsent' = FALSE
            /\ ToLoad
            /\ UNCHANGED <<spent, sinceBeat, idx, queries>>

(* The store refuses, or an exception ends the turn.                       *)
BeatFailed == /\ pc = "beat"
              /\ unsent' = TRUE
              /\ ToLoad \/ (pc' = "wait" /\ UNCHANGED sinceLoad)
              /\ UNCHANGED <<keyAge, spent, sinceBeat, idx, queries>>

(* At some point of the load the writer's buffer is cleared and filled ... *)
Fill == /\ pc = "load"
        /\ pc' = "fill"
        /\ UNCHANGED <<clocks, key, idx, queries>>

(* ... and swapped, unless there was nothing to fill it with.              *)
Filled == /\ pc = "fill"
          /\ pc' = "loaded"
          /\ idx' \in {idx, 1 - idx}
          /\ UNCHANGED <<clocks, key, queries>>

Loaded == /\ pc = "loaded"
          /\ pc' = "wait"
          /\ UNCHANGED <<clocks, key, idx, queries>>

BeginRead(r) == /\ hold[r] = None
                /\ hold' = [hold EXCEPT ![r] = idx]
                /\ age' = [age EXCEPT ![r] = 0]
                /\ UNCHANGED <<pc, clocks, key, idx>>

EndRead(r) == /\ hold[r] # None
              /\ hold' = [hold EXCEPT ![r] = None]
              /\ age' = [age EXCEPT ![r] = 0]
              /\ UNCHANGED <<pc, clocks, key, idx>>

(* A second passes: no turn and no query lasts longer than its bound, and  *)
(* what is due in a wait begins first.                                     *)
Tick == /\ IF pc = "wait" THEN ~BeatDue /\ sinceLoad < LoadInterval
                          ELSE spent < MaxTurn
        /\ \A r \in Readers : hold[r] # None => age[r] < MaxRead
        /\ spent' = IF pc = "wait" THEN 0 ELSE spent + 1
        /\ sinceBeat' = sinceBeat + 1
        /\ sinceLoad' = sinceLoad + 1
        /\ keyAge' = IF keyAge < Ttl THEN keyAge + 1 ELSE keyAge
        /\ age' = [r \in Readers |-> IF hold[r] = None THEN 0 ELSE age[r] + 1]
        /\ UNCHANGED <<pc, unsent, idx, hold>>

ReapNext ==
    \/ Turn \/ BeatSent \/ BeatFailed
    \/ Fill \/ Filled \/ Loaded
    \/ \E r \in Readers : BeginRead(r) \/ EndRead(r)
    \/ Tick

ReapSpec == ReapInit /\ [][ReapNext]_reapVars

-----------------------------------------------------------------------------
ReapTypeOK ==
    /\ pc \in {"wait", "beat"} \cup Loading
    /\ spent \in 0 .. MaxTurn
    /\ sinceBeat \in Nat /\ sinceLoad \in Nat
    /\ keyAge \in 0 .. Ttl
    /\ unsent \in BOOLEAN
    /\ idx \in {0, 1}
    /\ hold \in [Readers -> {0, 1, None}]
    /\ age \in [Readers -> 0 .. MaxRead]

(* A query never reads a buffer that the load is filling, provided a turn  *)
(* and a query together are shorter than the load interval.                *)
BuffersApart ==
    MaxTurn + MaxRead < LoadInterval
       => (pc = "fill" => \A r \in Readers : hold[r] # 1 - idx)

(* The registry's own entry in the store never expires between two beats   *)
(* that are sent, provided two turns and the beat interval fit its life:   *)
(* the load that is under way when a beat becomes due, and the beat.       *)
StaysRegistered ==
    HeartBeatInterval + 2 * MaxTurn < Ttl /\ MaxTurn < HeartBeatInterval
       => (keyAge < Ttl \/ unsent)
=============================================================================
