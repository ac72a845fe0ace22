--------------------------- MODULE RegistryProofs ---------------------------
(***************************************************************************)
(* What is proved of the registry: of its cache and the queries that read  *)
(* it (StoreCache) for any store, rules and queries; of its timer thread   *)
(* (ReapThread) for any intervals and any number of queries; and of its    *)
(* batched writes to etcd (EtcdBatch) for any number of nodes, callback    *)
(* threads and tries.                                                      *)
(***************************************************************************)
EXTENDS MCRegistry, FiniteSetTheorems, TLAPS

(* What a load has built fits the rules in use until it is published: only *)
(* the first step of a load changes the rules, and it comes before.        *)
BuiltFits ==
    lpc = "objects" => /\ next.objects = ObjectsOf(groups, source)
                       /\ next.division = DivisionOf(groups, source)

HalfPublished ==
    lpc = "division" => /\ objects = ObjectsOf(groups, source)
                        /\ next.division = DivisionOf(groups, source)

CacheInv == CacheFitsTogether /\ BuiltFits /\ HalfPublished

LEMMA CacheInit == Init => CacheInv
    BY DEF Init, CacheInv, CacheFitsTogether, BuiltFits, HalfPublished

LEMMA QueryKeeps ==
    ASSUME CacheInv, UNCHANGED <<cache, load>>
    PROVE  CacheInv'
    BY DEF CacheInv, CacheFitsTogether, BuiltFits, HalfPublished, cache, load

LEMMA LoadKeeps ==
    ASSUME CacheInv, Load
    PROVE  CacheInv'
<1> USE DEF CacheInv, CacheFitsTogether, BuiltFits, HalfPublished
<1>1. CASE LoadGroups
    BY <1>1 DEF LoadGroups
<1>2. CASE LoadPriority
    BY <1>2 DEF LoadPriority
<1>3. CASE LoadFailed
    BY <1>3 DEF LoadFailed, cache
<1>4. ASSUME NEW servers, Built(servers)
      PROVE  CacheInv'
    BY <1>4 DEF Built, cache
<1>5. CASE LoadServers \/ LoadServersFailed
    BY <1>4, <1>5 DEF LoadServers, LoadServersFailed
<1>6. CASE UpdateObjectsCache
    BY <1>6 DEF UpdateObjectsCache
<1>7. CASE UpdateDivisionCache
    BY <1>7 DEF UpdateDivisionCache
<1> QED
    BY <1>1, <1>2, <1>3, <1>5, <1>6, <1>7 DEF Load

LEMMA CacheStep == CacheInv /\ [Next]_vars => CacheInv'
<1> SUFFICES ASSUME CacheInv, [Next]_vars
             PROVE  CacheInv'
    OBVIOUS
<1>1. CASE Load
    BY <1>1, LoadKeeps
<1>2. CASE StartLoad
    BY <1>2 DEF StartLoad, CacheInv, CacheFitsTogether, BuiltFits, HalfPublished, cache
<1>3. CASE \/ \E w \in Worlds \cup {Down} : Change(w)
           \/ \E qu \in Queries : Ask(qu)
           \/ Find
    <2>1. UNCHANGED <<cache, load>>
        BY <1>3 DEF Change, Ask, Find, FindAny, FindGroup, FindEntry, FindPriority,
                    FindStation, FindMembers, FindSet
    <2> QED
        BY <2>1, QueryKeeps
<1>4. CASE UNCHANGED vars
    BY <1>4, QueryKeeps DEF vars
<1> QED
    BY <1>1, <1>2, <1>3, <1>4 DEF Next

THEOREM CacheInvariance == Spec => []CacheInv
<1>1. Init => CacheInv
    BY CacheInit
<1>2. CacheInv /\ [Next]_vars => CacheInv'
    BY CacheStep
<1> QED
    BY <1>1, <1>2, PTL DEF Spec

(* Between two loads every endpoint bears the group that the rules in use  *)
(* give it, and the sets are those of the same servers.                    *)
THEOREM FitsTogether == Spec => []CacheFitsTogether
    BY CacheInvariance, PTL DEF CacheInv

(* The narrowing by group ends with all nodes rather than with none.       *)
LEMMA ChoiceServes ==
    ASSUME NEW e, NEW own, NEW ps, InGroupPriority(e, own, ps).active = {}
    PROVE  e.active = {}
    BY DEF InGroupPriority

(* Whatever mixture of old and new groups, priorities and nodes a query    *)
(* meets, it is not left without a node in use that its service has.       *)
THEOREM AliveAnswered == Spec => AliveServiceAnswered
<1>1. ASSUME [Next]_vars
      PROVE  [Replied /\ qpc = "priority" /\ entry.active # {}
                 => answer'.nodes.active # {}]_vars
    <2> SUFFICES ASSUME Replied, qpc = "priority", entry.active # {}
                 PROVE  answer'.nodes.active # {}
        OBVIOUS
    <2>1. FindPriority
        BY DEF Replied, Find, FindAny, FindGroup, FindEntry, FindStation, FindMembers, FindSet
    <2>2. answer'.nodes = InGroupPriority(entry, ids, priority)
        BY <2>1 DEF FindPriority, Reply
    <2> QED
        BY <2>2, ChoiceServes
<1> QED
    BY <1>1, PTL DEF Spec, AliveServiceAnswered

-----------------------------------------------------------------------------
(* The clocks of the thread fit its place: in a load the time of the last  *)
(* load is the `now' of this turn, and in a beat so is that of the beat.   *)
ClocksFit ==
    /\ pc \in Loading => sinceLoad = spent /\ sinceBeat <= HeartBeatInterval + spent
    /\ pc = "beat" => sinceBeat = spent
    /\ pc = "wait" => sinceBeat <= HeartBeatInterval + MaxTurn

(* A query that still reads the buffer given up by the last swap began     *)
(* before it, and that swap was in the turn of the last load.  When the    *)
(* next load begins it is older than a query can be, if a turn and a query *)
(* are shorter than the interval.                                          *)
OldReadersAreOld ==
    \A r \in Readers :
       hold[r] = 1 - idx =>
          IF pc \in {"load", "fill"} THEN MaxTurn + MaxRead >= LoadInterval
                                     ELSE age[r] + MaxTurn >= sinceLoad

(* How old the key can be at each place while beats are sent.              *)
KeyIsYoung ==
    ~unsent /\ MaxTurn < HeartBeatInterval =>
       /\ pc # "beat" => keyAge <= sinceBeat
       /\ pc = "beat" => keyAge <= HeartBeatInterval + MaxTurn + spent

ReapInv == ReapTypeOK /\ ClocksFit /\ OldReadersAreOld /\ KeyIsYoung

LEMMA ReapInitHolds == ReapInit => ReapInv
<1> SUFFICES ASSUME ReapInit
             PROVE  ReapInv
    OBVIOUS
<1> USE ReapAssumption DEF ReapInit
<1>1. ReapTypeOK
    BY DEF ReapTypeOK
<1>2. ClocksFit
    BY DEF ClocksFit, Loading
<1>3. OldReadersAreOld
    BY DEF OldReadersAreOld
<1>4. KeyIsYoung
    BY DEF KeyIsYoung
<1> QED
    BY <1>1, <1>2, <1>3, <1>4 DEF ReapInv

LEMMA ReapTypeStep == ReapInv /\ [ReapNext]_reapVars => ReapTypeOK'
<1> SUFFICES ASSUME ReapTypeOK, ClocksFit, [ReapNext]_reapVars
             PROVE  ReapTypeOK'
    BY DEF ReapInv
<1> USE ReapAssumption DEF ReapTypeOK, Loading, clocks, key, queries
<1>1. CASE Turn
    BY <1>1 DEF Turn
<1>2. CASE BeatSent \/ BeatFailed
    <2>1. pc' \in {"wait", "load"} /\ sinceLoad' \in {spent, sinceLoad}
        BY <1>2 DEF BeatSent, BeatFailed, ToLoad, LoadDue
    <2>2. /\ keyAge' \in {0, keyAge} /\ unsent' \in BOOLEAN
          /\ spent' = spent /\ sinceBeat' = sinceBeat
          /\ idx' = idx /\ hold' = hold /\ age' = age
        BY <1>2 DEF BeatSent, BeatFailed
    <2> QED
        BY <2>1, <2>2
<1>3. CASE Fill \/ Filled \/ Loaded
    BY <1>3 DEF Fill, Filled, Loaded
<1>4. ASSUME NEW r \in Readers, BeginRead(r) \/ EndRead(r)
      PROVE  ReapTypeOK'
    BY <1>4 DEF BeginRead, EndRead
<1>5. CASE Tick
    <2>1. spent' \in 0 .. MaxTurn
        BY <1>5 DEF Tick
    <2>2. age' \in [Readers -> 0 .. MaxRead]
        BY <1>5 DEF Tick
    <2> QED
        BY <1>5, <2>1, <2>2 DEF Tick
<1>6. CASE UNCHANGED reapVars
    BY <1>6 DEF reapVars
<1> QED
    BY <1>1, <1>2, <1>3, <1>4, <1>5, <1>6 DEF ReapNext

LEMMA ClockStep == ReapInv /\ [ReapNext]_reapVars => ClocksFit'
<1> SUFFICES ASSUME ReapTypeOK, ClocksFit, [ReapNext]_reapVars
             PROVE  ClocksFit'
    BY DEF ReapInv
<1> USE ReapAssumption DEF ReapTypeOK, ClocksFit, Loading, clocks
<1>1. CASE Turn
    BY <1>1 DEF Turn, BeatDue
<1>2. CASE BeatSent \/ BeatFailed
    BY <1>2 DEF BeatSent, BeatFailed, ToLoad
<1>3. CASE Fill \/ Filled \/ Loaded
    BY <1>3 DEF Fill, Filled, Loaded
<1>4. ASSUME NEW r \in Readers, BeginRead(r) \/ EndRead(r)
      PROVE  ClocksFit'
    BY <1>4 DEF BeginRead, EndRead
<1>5. CASE Tick
    BY <1>5 DEF Tick, BeatDue
<1>6. CASE UNCHANGED reapVars
    BY <1>6 DEF reapVars
<1> QED
    BY <1>1, <1>2, <1>3, <1>4, <1>5, <1>6 DEF ReapNext

LEMMA ReaderStep == ReapInv /\ [ReapNext]_reapVars => OldReadersAreOld'
<1> SUFFICES ASSUME ReapTypeOK, ClocksFit, OldReadersAreOld, [ReapNext]_reapVars,
                    NEW r \in Readers, hold'[r] = 1 - idx'
             PROVE  IF pc' \in {"load", "fill"} THEN MaxTurn + MaxRead >= LoadInterval
                                                ELSE age'[r] + MaxTurn >= sinceLoad'
    BY DEF ReapInv, OldReadersAreOld
<1> USE ReapAssumption DEF ReapTypeOK, OldReadersAreOld, clocks, queries
<1>1. CASE Turn
    BY <1>1 DEF Turn
<1>2. CASE BeatSent \/ BeatFailed
    BY <1>2 DEF BeatSent, BeatFailed, ToLoad, LoadDue
<1>3. CASE Fill \/ Loaded
    BY <1>3 DEF Fill, Loaded
<1>4. CASE Filled
    BY <1>4 DEF Filled, ClocksFit, Loading
<1>5. ASSUME NEW q \in Readers, BeginRead(q) \/ EndRead(q)
      PROVE  hold[r] = hold'[r] /\ age[r] = age'[r] /\ UNCHANGED <<pc, clocks, idx>>
    BY <1>5 DEF BeginRead, EndRead
<1>6. CASE Tick
    BY <1>6 DEF Tick
<1>7. CASE UNCHANGED reapVars
    BY <1>7 DEF reapVars
<1> QED
    BY <1>1, <1>2, <1>3, <1>4, <1>5, <1>6, <1>7 DEF ReapNext

LEMMA KeyStep == ReapInv /\ [ReapNext]_reapVars => KeyIsYoung'
<1> SUFFICES ASSUME ReapTypeOK, ClocksFit, KeyIsYoung, [ReapNext]_reapVars
             PROVE  KeyIsYoung'
    BY DEF ReapInv
<1> USE ReapAssumption DEF ReapTypeOK, ClocksFit, KeyIsYoung, clocks, key
<1>1. CASE Turn
    BY <1>1 DEF Turn
<1>2. CASE BeatSent \/ BeatFailed
    BY <1>2 DEF BeatSent, BeatFailed, ToLoad
<1>3. CASE Fill \/ Filled \/ Loaded
    BY <1>3 DEF Fill, Filled, Loaded
<1>4. ASSUME NEW r \in Readers, BeginRead(r) \/ EndRead(r)
      PROVE  KeyIsYoung'
    BY <1>4 DEF BeginRead, EndRead
<1>5. CASE Tick
    BY <1>5 DEF Tick
<1>6. CASE UNCHANGED reapVars
    BY <1>6 DEF reapVars
<1> QED
    BY <1>1, <1>2, <1>3, <1>4, <1>5, <1>6 DEF ReapNext

THEOREM ReapInvariance == ReapSpec => []ReapInv
<1>1. ReapInit => ReapInv
    BY ReapInitHolds
<1>2. ReapInv /\ [ReapNext]_reapVars => ReapInv'
    BY ReapTypeStep, ClockStep, ReaderStep, KeyStep DEF ReapInv
<1> QED
    BY <1>1, <1>2, PTL DEF ReapSpec

(* The clocks and buffers stay within their bounds.                        *)
THEOREM ReapTypeCorrect == ReapSpec => []ReapTypeOK
    BY ReapInvariance, PTL DEF ReapInv

LEMMA Apart == ReapInv => BuffersApart
<1> SUFFICES ASSUME ReapInv, MaxTurn + MaxRead < LoadInterval, pc = "fill",
                    NEW r \in Readers, hold[r] = 1 - idx
             PROVE  FALSE
    BY DEF BuffersApart
<1>1. MaxTurn + MaxRead >= LoadInterval
    BY DEF ReapInv, OldReadersAreOld
<1> QED
    BY <1>1, ReapAssumption

(* A load never fills a buffer that a query reads, if a turn of the thread *)
(* and a query together are shorter than the load interval.                *)
THEOREM ReadersAreSafe == ReapSpec => []BuffersApart
    BY ReapInvariance, Apart, PTL

LEMMA Young == ReapInv => StaysRegistered
    BY ReapAssumption DEF ReapInv, ReapTypeOK, ClocksFit, KeyIsYoung, Loading, StaysRegistered

(* The registry's key outlives the time between two beats, if two turns    *)
(* and the beat interval are shorter than its life.                        *)
THEOREM KeyOutlivesBeats == ReapSpec => []StaysRegistered
    BY ReapInvariance, Young, PTL

-----------------------------------------------------------------------------
(* One thread sends a round, and a callback that retries has a try left.   *)
PlacesFit ==
    /\ keyAsked => at[Caller] = "key"
    /\ \A t \in Threads : at[t] = "send" => round[t] \in Rounds
    /\ \A t, u \in Threads :
          at[t] = "send" /\ at[u] = "send" /\ round[t] = round[u] => t = u
    /\ \A t \in Threads : at[t] = "bump" => tried[t] < MaxTry

(* A node of a round is not both unsent and under way.                     *)
SentOnce ==
    \A q \in flight, t \in Threads :
       at[t] = "send" /\ round[t] = q[1] => q[2] \notin todo[t]

EtcdInv == EtcdTypeOK /\ PlacesFit /\ SentOnce /\ CountsAreExact

Sum(r) == count[r] + Cardinality(Underway(r)) + Cardinality(Unsent(r))

LEMMA Exact == CountsAreExact <=>
    \A r \in Rounds : /\ Sum(r) <= Cardinality(batch)
                      /\ op \in {"add", "delete"} => Sum(r) = Cardinality(batch)
    BY DEF CountsAreExact, Sum

(* Everything that is counted is finite.                                   *)
LEMMA Finite ==
    ASSUME EtcdTypeOK, NEW r
    PROVE  /\ IsFiniteSet(batch) /\ Cardinality(batch) \in Nat
           /\ IsFiniteSet(Underway(r)) /\ Cardinality(Underway(r)) \in Nat
           /\ IsFiniteSet(Unsent(r)) /\ Cardinality(Unsent(r)) \in Nat
           /\ \A t \in Threads : IsFiniteSet(todo[t]) /\ Cardinality(todo[t]) \in Nat
<1>1. IsFiniteSet(batch)
    BY BatchAssumption, FS_Subset DEF EtcdTypeOK
<1>2. IsFiniteSet({r}) /\ IsFiniteSet({r} \X batch)
    BY <1>1, FS_Singleton, FS_Product
<1>3. Underway(r) \subseteq {r} \X batch
    BY DEF EtcdTypeOK, Underway
<1>4. Unsent(r) \subseteq batch
    BY DEF EtcdTypeOK, Unsent
<1>5. \A t \in Threads : todo[t] \subseteq batch
    BY DEF EtcdTypeOK
<1> QED
    BY <1>1, <1>2, <1>3, <1>4, <1>5, FS_Subset, FS_CardinalityType

LEMMA UnsentOf ==
    ASSUME PlacesFit, NEW t \in Threads, at[t] = "send"
    PROVE  Unsent(round[t]) = todo[t]
    BY DEF PlacesFit, Unsent

-----------------------------------------------------------------------------
(* Steps that send and count nothing.                                      *)
LEMMA SameSends ==
    ASSUME EtcdInv, UNCHANGED <<client, count, flight>>,
           \A u \in Threads :
              /\ at'[u] = "send" => at[u] = "send"
              /\ at[u] = "send" /\ at'[u] # "send" => todo[u] = {}
              /\ at'[u] = "send" => round'[u] = round[u] /\ todo'[u] = todo[u]
    PROVE  SentOnce' /\ CountsAreExact'
<1> USE DEF client, Rounds
<1>1. \A r : Unsent(r)' = Unsent(r)
    <2> SUFFICES ASSUME NEW r PROVE Unsent(r)' = Unsent(r)
        OBVIOUS
    <2>1. \A n : n \in Unsent(r) <=> \E u \in Threads : at[u] = "send" /\ round[u] = r /\ n \in todo[u]
        BY DEF Unsent
    <2>2. \A n : n \in Unsent(r)' <=> \E u \in Threads : at'[u] = "send" /\ round'[u] = r /\ n \in todo'[u]
        BY DEF Unsent
    <2>3. \A n : \A u \in Threads : at'[u] = "send" /\ round'[u] = r /\ n \in todo'[u]
                              <=> at[u] = "send" /\ round[u] = r /\ n \in todo[u]
        OBVIOUS
    <2> QED
        BY <2>1, <2>2, <2>3
<1>2. CountsAreExact'
    <2>1. \A r : Underway(r)' = Underway(r)
        BY DEF Underway
    <2> QED
        BY <1>1, <2>1 DEF EtcdInv, CountsAreExact
<1>3. SentOnce'
    BY DEF EtcdInv, SentOnce
<1> QED
    BY <1>2, <1>3

(* Steps that begin a round.                                               *)
LEMMA NewRoundCounts ==
    ASSUME EtcdInv, NEW t \in Threads, at[t] # "send", NewRound(t),
           UNCHANGED <<client, flight>>
    PROVE  SentOnce' /\ CountsAreExact'
<1> USE DEF client, Rounds
<1>0. PICK new \in Nat : new = Len(count) + 1
    BY DEF EtcdInv, EtcdTypeOK
<1>1. /\ count \in Seq(0 .. Cardinality(batch)) /\ Len(count) \in Nat
      /\ DOMAIN count = 1 .. Len(count)
      /\ count' = Append(count, 0) /\ DOMAIN count' = 1 .. new
      /\ count'[new] = 0 /\ \A r \in DOMAIN count : count'[r] = count[r]
    BY <1>0 DEF EtcdInv, EtcdTypeOK, NewRound
<1>2. /\ at'[t] = "send" /\ round'[t] = new /\ todo'[t] = batch
      /\ \A u \in Threads \ {t} : at'[u] = at[u] /\ round'[u] = round[u] /\ todo'[u] = todo[u]
    BY <1>0 DEF EtcdInv, EtcdTypeOK, NewRound
<1>3. \A u \in Threads : at[u] = "send" => round[u] \in DOMAIN count /\ round[u] # new
    BY <1>0, <1>1 DEF EtcdInv, PlacesFit
<1>4. \A r \in DOMAIN count : Unsent(r)' = Unsent(r) /\ Underway(r)' = Underway(r)
    BY <1>1, <1>2, <1>3 DEF Unsent, Underway
<1>5. Unsent(new)' = batch
    BY <1>2, <1>3 DEF Unsent
<1>6. Underway(new)' = {}
    BY <1>0, <1>1 DEF EtcdInv, EtcdTypeOK, Underway
<1>7. Cardinality(batch) \in Nat /\ Cardinality({}) = 0
    BY Finite, FS_EmptySet DEF EtcdInv
<1>8. CountsAreExact'
    <2> SUFFICES ASSUME NEW r \in DOMAIN count'
                 PROVE  /\ Sum(r)' <= Cardinality(batch)
                        /\ op \in {"add", "delete"} => Sum(r)' = Cardinality(batch)
        BY DEF CountsAreExact, Sum
    <2>1. CASE r = new
        BY <2>1, <1>1, <1>5, <1>6, <1>7 DEF Sum
    <2>2. CASE r # new
        BY <2>2, <1>1, <1>4, Exact DEF Sum, EtcdInv
    <2> QED
        BY <2>1, <2>2
<1>9. SentOnce'
    BY <1>1, <1>2, <1>3 DEF EtcdInv, SentOnce, EtcdTypeOK
<1> QED
    BY <1>8, <1>9

(* Steps of a thread that sends.                                           *)
LEMMA SendCounts ==
    ASSUME EtcdInv, NEW t \in Threads, Send(t)
    PROVE  SentOnce' /\ CountsAreExact' /\ count' \in Seq(0 .. Cardinality(batch))
<1> USE DEF client, Rounds
<1>0. PICK n \in todo[t] : Sent(t, n) \/ NotSent(t, n) \/ PassedOver(t, n) \/ Unknown(t)
    BY DEF Send
<1>1. at[t] = "send" /\ round[t] \in DOMAIN count /\ op' = op /\ batch' = batch
    BY DEF Send, EtcdInv, PlacesFit
<1>2. \A u \in Threads \ {t} : at'[u] = at[u] /\ round'[u] = round[u] /\ todo'[u] = todo[u]
    BY <1>0 DEF Sent, NotSent, PassedOver, Unknown, StillSending, Failed, Leave, EtcdInv, EtcdTypeOK
<1>3. \A u \in Threads \ {t} : at[u] = "send" => round[u] # round[t]
    BY <1>1 DEF EtcdInv, PlacesFit
<1>4. count \in Seq(0 .. Cardinality(batch)) /\ Cardinality(batch) \in Nat
    BY Finite DEF EtcdInv, EtcdTypeOK
<1>5. PICK k \in DOMAIN count : k = round[t]
    BY <1>1
<1>6. n \in todo[t] /\ k \in DOMAIN count /\ \A r : IsFiniteSet(Underway(r)) /\ IsFiniteSet(Unsent(r))
    BY <1>5, Finite DEF EtcdInv
<1>7. DOMAIN count' = DOMAIN count /\ \A r \in DOMAIN count : r # k => count'[r] = count[r]
    BY <1>0, <1>4, <1>5 DEF Sent, NotSent, PassedOver, Unknown, Failed
<1>8. at'[t] = "send" => round'[t] = k
    BY <1>0, <1>5 DEF Sent, NotSent, PassedOver, Unknown, StillSending, Failed, Leave, EtcdInv, EtcdTypeOK
<1>9. \A r \in DOMAIN count : r # k => Unsent(r)' = Unsent(r)
    <2> SUFFICES ASSUME NEW r \in DOMAIN count, r # k
                 PROVE  Unsent(r)' = Unsent(r)
        OBVIOUS
    <2>1. \A u \in Threads : at'[u] = "send" /\ round'[u] = r <=> at[u] = "send" /\ round[u] = r
        BY <1>2, <1>5, <1>8
    <2>2. \A u \in Threads : at[u] = "send" /\ round[u] = r => todo'[u] = todo[u]
        BY <1>2, <1>5
    <2> QED
        BY <2>1, <2>2 DEF Unsent
<1>10. \A r \in DOMAIN count : r # k => Underway(r)' = Underway(r)
    BY <1>0, <1>5 DEF Underway, Sent, NotSent, PassedOver, Unknown, Failed
<1>11. Unsent(k) = todo[t]
    BY <1>1, <1>5, UnsentOf DEF EtcdInv
<1>12. /\ Cardinality(Unsent(k)) \in Nat /\ Cardinality(Underway(k)) \in Nat
       /\ Cardinality(Unsent(k)) > 0
       /\ Cardinality(todo[t] \ {n}) = Cardinality(Unsent(k)) - 1
    <2>1. IsFiniteSet(Underway(k)) /\ IsFiniteSet(todo[t])
        BY <1>6, <1>11
    <2>2. Cardinality(todo[t] \ {n}) = Cardinality(todo[t]) - 1
        BY <2>1, <1>6, FS_RemoveElement
    <2>3. /\ Cardinality(todo[t] \ {n}) \in Nat
          /\ Cardinality(todo[t]) \in Nat /\ Cardinality(Underway(k)) \in Nat
        BY <2>1, FS_RemoveElement, FS_CardinalityType
    <2> QED
        BY <2>2, <2>3, <1>11
<1>13. StillSending(t, n) => Unsent(k)' = todo[t] \ {n}
    <2> HAVE StillSending(t, n)
    <2>1. /\ \A u \in Threads : at'[u] = "send" /\ round'[u] = k <=> u = t
          /\ todo'[t] = todo[t] \ {n}
        BY <1>1, <1>3, <1>5 DEF StillSending, EtcdInv, EtcdTypeOK
    <2> QED
        BY <2>1 DEF Unsent
<1>14. PICK m, c, f, u \in Nat :
          /\ m = Cardinality(batch) /\ c = count[k]
          /\ f = Cardinality(Underway(k)) /\ u = Cardinality(Unsent(k)) /\ u > 0
          /\ c + f + u <= m
          /\ op \in {"add", "delete"} => c + f + u = m
    <2>1. count[k] \in Nat
        BY <1>4
    <2>2. Sum(k) <= Cardinality(batch) /\ (op \in {"add", "delete"} => Sum(k) = Cardinality(batch))
        BY Exact DEF EtcdInv
    <2> QED
        BY <2>1, <2>2, <1>4, <1>12 DEF Sum
<1>15. \/ /\ Sum(k)' = c + f + u
          /\ count'[k] \in {c, c + 1}
       \/ /\ op \notin {"add", "delete"}
          /\ Sum(k)' \in {c + f, c + f + u - 1}
          /\ count'[k] = c
    <2>1. StillSending(t, n) => Cardinality(Unsent(k)') = u - 1
        BY <1>12, <1>13, <1>14
    <2>2. CASE Sent(t, n)
        <3>1. <<k, n>> \notin Underway(k)
            BY <1>1, <1>5 DEF EtcdInv, SentOnce, Underway
        <3>2. Underway(k)' = Underway(k) \cup {<<k, n>>}
            BY <2>2, <1>5 DEF Sent, Underway
        <3>3. Cardinality(Underway(k)') = f + 1
            <4>1. Cardinality(Underway(k) \cup {<<k, n>>}) = Cardinality(Underway(k)) + 1
                BY <3>1, <1>6, FS_AddElement, Zenon
            <4>2. Cardinality(Underway(k)') = Cardinality(Underway(k)) + 1
                BY <3>2, <4>1, Zenon
            <4> QED
                BY <4>2, <1>14
        <3>4. count'[k] = c /\ Cardinality(Unsent(k)') = u - 1
            BY <2>1, <2>2, <1>14 DEF Sent
        <3> QED
            BY <3>3, <3>4 DEF Sum
    <2>3. CASE NotSent(t, n)
        <3>1. count'[k] = c + 1 /\ Underway(k)' = Underway(k)
            BY <2>3, <1>4, <1>5, <1>14 DEF NotSent, Underway
        <3>2. Cardinality(Unsent(k)') = u - 1
            BY <2>1, <2>3 DEF NotSent
        <3> QED
            BY <3>1, <3>2, <1>14 DEF Sum
    <2>4. CASE PassedOver(t, n)
        <3>1. count'[k] = c /\ Underway(k)' = Underway(k) /\ op = "keepalive"
            BY <2>4, <1>14 DEF PassedOver, Underway
        <3>2. Cardinality(Unsent(k)') = u - 1
            BY <2>1, <2>4 DEF PassedOver
        <3> QED
            BY <3>1, <3>2, <1>14 DEF Sum
    <2>5. CASE Unknown(t)
        <3>1. /\ op = "update" /\ count'[k] = c
              /\ Underway(k)' = Underway(k) /\ at'[t] # "send"
            BY <2>5, <1>14 DEF Unknown, Failed, Leave, Underway, EtcdInv, EtcdTypeOK
        <3>2. Unsent(k)' = {}
            BY <3>1, <1>2, <1>3, <1>5 DEF Unsent
        <3>3. Cardinality(Unsent(k)') = 0
            BY <3>2, FS_EmptySet
        <3> QED
            BY <3>1, <3>3, <1>14 DEF Sum
    <2> QED
        BY <1>0, <2>2, <2>3, <2>4, <2>5
<1>16. CountsAreExact'
    <2> SUFFICES ASSUME NEW r \in DOMAIN count
                 PROVE  /\ Sum(r)' <= Cardinality(batch)
                        /\ op \in {"add", "delete"} => Sum(r)' = Cardinality(batch)
        BY <1>1, <1>7 DEF CountsAreExact, Sum
    <2>1. CASE r = k
        BY <2>1, <1>14, <1>15
    <2>2. CASE r # k
        BY <2>2, <1>7, <1>9, <1>10, Exact DEF Sum, EtcdInv
    <2> QED
        BY <2>1, <2>2
<1>17. SentOnce'
    BY <1>0, <1>1, <1>2, <1>3, <1>8 DEF Sent, NotSent, PassedOver, Unknown, StillSending, Failed, Leave, EtcdInv, EtcdTypeOK, SentOnce
<1>18. count' \in Seq(0 .. Cardinality(batch))
    <2>1. count'[k] \in 0 .. Cardinality(batch)
        BY <1>14, <1>15
    <2> QED
        BY <2>1, <1>0, <1>4, <1>5, SMTT(30) DEF Sent, NotSent, PassedOver, Unknown, Failed
<1> QED
    BY <1>16, <1>17, <1>18

(* A request ends: what was under way is counted.                          *)
LEMMA EndCounts ==
    ASSUME EtcdInv, NEW t \in Threads, NEW q \in flight, NEW outcome, Ends(t, q, outcome)
    PROVE  SentOnce' /\ CountsAreExact' /\ count' \in Seq(0 .. Cardinality(batch))
<1> USE DEF client, Rounds
<1>1. /\ count \in Seq(0 .. Cardinality(batch)) /\ q \in (DOMAIN count) \X batch
      /\ Cardinality(batch) \in Nat
    <2>1. flight \subseteq (DOMAIN count) \X batch
        BY DEF EtcdInv, EtcdTypeOK
    <2>2. count \in Seq(0 .. Cardinality(batch)) /\ Cardinality(batch) \in Nat
        BY Finite DEF EtcdInv, EtcdTypeOK
    <2> QED
        BY <2>1, <2>2
<1>2. PICK k \in DOMAIN count : k = q[1]
    BY <1>1
<1>3. /\ op' = op /\ batch' = batch /\ flight' = flight \ {q}
      /\ DOMAIN count' = DOMAIN count /\ count'[k] = count[k] + 1
      /\ \A r \in DOMAIN count : r # k => count'[r] = count[r]
    BY <1>1, <1>2 DEF Ends
<1>4. /\ \A u \in Threads \ {t} : at'[u] = at[u] /\ round'[u] = round[u]
      /\ todo' = todo /\ at[t] # "send" /\ at'[t] # "send"
    BY DEF Ends, EtcdInv, EtcdTypeOK
<1>5. \A u \in Threads : /\ at'[u] = "send" <=> at[u] = "send"
                         /\ at[u] = "send" => round'[u] = round[u]
    BY <1>4
<1>6. \A r : Unsent(r)' = Unsent(r)
    <2>1. \A r : {u \in Threads : at'[u] = "send" /\ round'[u] = r}
                    = {u \in Threads : at[u] = "send" /\ round[u] = r}
        BY <1>5
    <2> QED
        BY <2>1, <1>4 DEF Unsent
<1>7. /\ Underway(k)' = Underway(k) \ {q} /\ q \in Underway(k)
      /\ \A r : r # k => Underway(r)' = Underway(r)
    BY <1>2, <1>3 DEF Underway
<1>8. IsFiniteSet(Underway(k)) /\ Cardinality(Underway(k)) \in Nat /\ Cardinality(Unsent(k)) \in Nat
    BY Finite DEF EtcdInv
<1>9. /\ Cardinality(Underway(k)') = Cardinality(Underway(k)) - 1
      /\ Cardinality(Underway(k)') \in Nat
    BY <1>7, <1>8, FS_RemoveElement, FS_CardinalityType
<1>10. PICK m, c, f, u \in Nat :
          /\ m = Cardinality(batch) /\ c = count[k]
          /\ f = Cardinality(Underway(k)) /\ u = Cardinality(Unsent(k))
          /\ c + f + u <= m
          /\ op \in {"add", "delete"} => c + f + u = m
    <2>1. count[k] \in Nat
        BY <1>1
    <2>2. Sum(k) <= Cardinality(batch) /\ (op \in {"add", "delete"} => Sum(k) = Cardinality(batch))
        BY Exact DEF EtcdInv
    <2> QED
        BY <2>1, <2>2, <1>1, <1>8 DEF Sum
<1>11. Sum(k)' = c + f + u /\ count'[k] = c + 1 /\ f > 0
    BY <1>3, <1>6, <1>9, <1>10 DEF Sum
<1>12. CountsAreExact'
    <2> SUFFICES ASSUME NEW r \in DOMAIN count
                 PROVE  /\ Sum(r)' <= Cardinality(batch)
                        /\ op \in {"add", "delete"} => Sum(r)' = Cardinality(batch)
        BY <1>3 DEF CountsAreExact, Sum
    <2>1. CASE r = k
        BY <2>1, <1>10, <1>11
    <2>2. CASE r # k
        BY <2>2, <1>3, <1>6, <1>7, Exact DEF Sum, EtcdInv
    <2> QED
        BY <2>1, <2>2
<1>13. SentOnce'
    BY <1>3, <1>4, <1>5 DEF EtcdInv, SentOnce
<1>14. count' \in Seq(0 .. Cardinality(batch))
    <2>1. count'[k] \in 0 .. Cardinality(batch)
        BY <1>10, <1>11
    <2> QED
        BY <2>1, <1>1, <1>2 DEF Ends
<1> QED
    BY <1>12, <1>13, <1>14

-----------------------------------------------------------------------------
(* Where the threads may be: a thread leaves or begins a round, moves on   *)
(* with its round, and all others stay where they are.                     *)
LEMMA LeavePlaces ==
    ASSUME EtcdTypeOK, PlacesFit, NEW t \in Threads, Leave(t), count' = count,
           keyAsked' => keyAsked /\ at[t] # "key"
    PROVE  PlacesFit'
<1>1. \A u \in Threads \ {t} : at'[u] = at[u] /\ round'[u] = round[u] /\ tried'[u] = tried[u]
    BY DEF Leave, EtcdTypeOK
<1>2. at'[t] \notin {"send", "bump"}
    BY DEF Leave, EtcdTypeOK
<1>3. keyAsked' => at'[Caller] = "key"
    BY <1>1, Caller \in Threads DEF PlacesFit, Threads
<1> QED
    BY <1>1, <1>2, <1>3 DEF PlacesFit, Rounds

LEMMA NewRoundPlaces ==
    ASSUME EtcdTypeOK, PlacesFit, NEW t \in Threads, NewRound(t),
           keyAsked' => keyAsked /\ at[t] # "key"
    PROVE  PlacesFit'
<1>1. \A u \in Threads \ {t} : at'[u] = at[u] /\ round'[u] = round[u] /\ tried'[u] = tried[u]
    BY DEF NewRound, EtcdTypeOK
<1>2. at'[t] = "send" /\ round'[t] = Len(count) + 1
    BY DEF NewRound, EtcdTypeOK
<1>3. keyAsked' => at'[Caller] = "key"
    BY <1>1, Caller \in Threads DEF PlacesFit, Threads
<1>4. /\ DOMAIN count = 1 .. Len(count) /\ Len(count) \in Nat
      /\ DOMAIN count' = 1 .. Len(count) + 1
    BY DEF NewRound, EtcdTypeOK
<1> QED
    BY <1>1, <1>2, <1>3, <1>4 DEF PlacesFit, Rounds

LEMMA MovePlaces ==
    ASSUME EtcdTypeOK, PlacesFit, NEW t \in Threads, at[t] # "key", DOMAIN count' = DOMAIN count,
           \A u \in Threads \ {t} : at'[u] = at[u] /\ round'[u] = round[u] /\ tried'[u] = tried[u],
           at'[t] = "send" => at[t] = "send" /\ round'[t] = round[t],
           at'[t] = "bump" => tried'[t] < MaxTry,
           keyAsked' => keyAsked
    PROVE  PlacesFit'
<1>1. keyAsked' => at'[Caller] = "key"
    BY Caller \in Threads DEF PlacesFit, Threads
<1> QED
    BY <1>1 DEF PlacesFit, Rounds

LEMMA StepPlaces ==
    ASSUME EtcdInv, EtcdNext
    PROVE  PlacesFit'
<1> USE DEF client, calls, history, Rounds, EtcdInv
<1>1. CASE Begin
    <2>1. CASE op = "add"
        BY <1>1, <2>1 DEF Begin, EtcdTypeOK, PlacesFit, Threads
    <2>2. CASE op # "add"
        BY <1>1, <2>2, NewRoundPlaces, Caller \in Threads DEF Begin, Threads
    <2> QED
        BY <2>1, <2>2
<1>2. CASE KeyFound
    BY <1>2, NewRoundPlaces DEF KeyFound, Threads
<1>3. CASE KeyMissing
    BY <1>3, LeavePlaces DEF KeyMissing, Threads
<1>4. CASE KeyRefused
    BY <1>4 DEF KeyRefused, PlacesFit
<1>5. ASSUME NEW t \in Threads, Send(t) PROVE PlacesFit'
    <2>1. PICK n \in todo[t] : Sent(t, n) \/ NotSent(t, n) \/ PassedOver(t, n) \/ Unknown(t)
        BY <1>5 DEF Send
    <2>2. CASE Unknown(t)
        BY <1>5, <2>2, LeavePlaces DEF Send, Unknown, Failed
    <2>3. CASE Sent(t, n) \/ NotSent(t, n) \/ PassedOver(t, n)
        BY <1>5, <2>3 DEF Send, Sent, NotSent, PassedOver, StillSending, PlacesFit, EtcdTypeOK
    <2> QED
        BY <2>1, <2>2, <2>3
<1>6. ASSUME NEW t \in Threads, SentAll(t) PROVE PlacesFit'
    BY <1>6, LeavePlaces DEF SentAll, Failed
<1>7. ASSUME NEW t \in Threads, NEW q \in flight, NEW outcome, Ends(t, q, outcome) PROVE PlacesFit'
    BY <1>7, MovePlaces DEF Ends, EtcdTypeOK
<1>8. ASSUME NEW t \in Threads, Weigh(t) PROVE PlacesFit'
    BY <1>8, MovePlaces DEF Weigh, EtcdTypeOK
<1>9. ASSUME NEW t \in Threads, Bump(t) PROVE PlacesFit'
    BY <1>9, MovePlaces DEF Bump, EtcdTypeOK
<1>10. ASSUME NEW t \in Threads, Answer(t) PROVE PlacesFit'
    BY <1>10, LeavePlaces DEF Answer
<1>11. ASSUME NEW t \in Threads, Retry(t) PROVE PlacesFit'
    BY <1>11, LeavePlaces, NewRoundPlaces DEF Retry
<1> QED
    BY <1>1, <1>2, <1>3, <1>4, <1>5, <1>6, <1>7, <1>8, <1>9, <1>10, <1>11 DEF EtcdNext

-----------------------------------------------------------------------------
(* Types: a thread leaves or begins a round.                               *)
LEMMA LeaveTypes ==
    ASSUME EtcdTypeOK, NEW t \in Threads, Leave(t),
           UNCHANGED <<client, count>>
    PROVE  /\ at' \in [Threads -> Places]
           /\ round' \in [Threads -> 0 .. Len(count')]
           /\ todo' \in [Threads -> SUBSET batch']
           /\ ret' \in [Threads -> {"ok", "bad", "fail"}]
           /\ tried' \in [Threads -> 0 .. MaxTry]
    BY BatchAssumption DEF Leave, EtcdTypeOK, Places, client

LEMMA NewRoundTypes ==
    ASSUME EtcdTypeOK, NEW t \in Threads, NewRound(t),
           UNCHANGED <<client, flight>>
    PROVE  /\ at' \in [Threads -> Places]
           /\ round' \in [Threads -> 0 .. Len(count')]
           /\ todo' \in [Threads -> SUBSET batch']
           /\ ret' \in [Threads -> {"ok", "bad", "fail"}]
           /\ tried' \in [Threads -> 0 .. MaxTry]
           /\ count' \in Seq(0 .. Cardinality(batch'))
           /\ flight' \subseteq Rounds' \X batch'
<1>1. Cardinality(batch) \in Nat
    BY Finite
<1>2. /\ count' \in Seq(0 .. Cardinality(batch)) /\ Len(count') = Len(count) + 1
      /\ DOMAIN count \subseteq DOMAIN count' /\ Len(count) \in Nat
    BY <1>1 DEF NewRound, EtcdTypeOK
<1>3. round' \in [Threads -> 0 .. Len(count')]
    BY <1>2 DEF NewRound, EtcdTypeOK
<1>4. flight' \subseteq Rounds' \X batch'
    BY <1>2 DEF EtcdTypeOK, client, Rounds
<1> QED
    BY <1>2, <1>3, <1>4, BatchAssumption DEF NewRound, EtcdTypeOK, Places, client

LEMMA StepTypes ==
    ASSUME EtcdInv, EtcdNext
    PROVE  EtcdTypeOK'
<1> USE DEF client, calls, history, Rounds, EtcdInv
<1>1. CASE Begin
    <2>1. CASE op = "add"
        BY <1>1, <2>1 DEF Begin, EtcdTypeOK, Places
    <2>2. CASE op # "add"
        BY <1>1, <2>2, NewRoundTypes, Caller \in Threads DEF Begin, Threads, EtcdTypeOK
    <2> QED
        BY <2>1, <2>2
<1>2. CASE KeyFound
    BY <1>2, NewRoundTypes, Caller \in Threads DEF KeyFound, Threads, EtcdTypeOK
<1>3. CASE KeyMissing
    <2>1. answers' \in Nat /\ keyAsked' \in BOOLEAN
        <3>1. answers' \in Nat
            BY <1>3 DEF KeyMissing, EtcdTypeOK
        <3>2. keyAsked' \in BOOLEAN
            BY <1>3, Zenon DEF KeyMissing
        <3> QED
            BY <3>1, <3>2
    <2>2. Leave(Caller) /\ UNCHANGED <<client, count, flight, tries, dropped, overlap>>
        BY <1>3 DEF KeyMissing
    <2> QED
        BY <2>1, <2>2, LeaveTypes, Caller \in Threads DEF Threads, EtcdTypeOK
<1>4. CASE KeyRefused
    BY <1>4 DEF KeyRefused, EtcdTypeOK
<1>5. ASSUME NEW t \in Threads, Send(t) PROVE EtcdTypeOK'
    <2>1. PICK n \in todo[t] : Sent(t, n) \/ NotSent(t, n) \/ PassedOver(t, n) \/ Unknown(t)
        BY <1>5 DEF Send
    <2>2. CASE Unknown(t)
        BY <1>5, <2>2, LeaveTypes DEF Send, Unknown, Failed, EtcdTypeOK
    <2>3. CASE ~Unknown(t)
        <3>1. count' \in Seq(0 .. Cardinality(batch)) /\ Len(count') = Len(count) /\ DOMAIN count' = DOMAIN count
            BY <1>5, <2>1, <2>3, SendCounts DEF Sent, NotSent, PassedOver, EtcdTypeOK
        <3>2. todo' \in [Threads -> SUBSET batch]
            BY <2>1, <2>3 DEF Sent, NotSent, PassedOver, StillSending, EtcdTypeOK
        <3>3. flight' \subseteq (DOMAIN count') \X batch
            <4>1. n \in batch /\ round[t] \in DOMAIN count
                BY <1>5 DEF EtcdTypeOK, PlacesFit, Send
            <4> QED
                BY <4>1, <3>1, <2>1, <2>3 DEF Sent, NotSent, PassedOver, EtcdTypeOK
        <3> QED
            BY <1>5, <2>1, <2>3, <3>1, <3>2, <3>3 DEF Send, Sent, NotSent, PassedOver, StillSending, EtcdTypeOK
    <2> QED
        BY <2>2, <2>3
<1>6. ASSUME NEW t \in Threads, SentAll(t) PROVE EtcdTypeOK'
    <2>1. answers' \in Nat /\ dropped' \in BOOLEAN
        <3>1. answers \in Nat /\ answers' \in {answers, answers + 1}
            BY <1>6 DEF SentAll, Failed, EtcdTypeOK
        <3>2. dropped' \in BOOLEAN
            BY <1>6, Zenon DEF SentAll, Failed, EtcdTypeOK
        <3> QED
            BY <3>1, <3>2
    <2>2. Leave(t) /\ UNCHANGED <<client, keyAsked, count, flight, tries, overlap>>
        BY <1>6 DEF SentAll, Failed
    <2> QED
        BY <2>1, <2>2, LeaveTypes DEF EtcdTypeOK
<1>7. ASSUME NEW t \in Threads, NEW q \in flight, NEW outcome \in {"ok", "bad", "fail"}, Ends(t, q, outcome)
      PROVE  EtcdTypeOK'
    <2>1. count' \in Seq(0 .. Cardinality(batch)) /\ Len(count') = Len(count) /\ DOMAIN count' = DOMAIN count
        <3>1. count \in Seq(0 .. Cardinality(batch)) /\ count' \in Seq(0 .. Cardinality(batch))
            BY <1>7, EndCounts DEF EtcdTypeOK
        <3>2. DOMAIN count' = DOMAIN count
            BY <1>7 DEF Ends
        <3> QED
            BY <3>1, <3>2
    <2>2. q[1] \in 0 .. Len(count)
        BY DEF EtcdTypeOK
    <2> QED
        BY <1>7, <2>1, <2>2 DEF Ends, EtcdTypeOK, Places
<1>8. ASSUME NEW t \in Threads, Weigh(t) PROVE EtcdTypeOK'
    BY <1>8, BatchAssumption DEF Weigh, EtcdTypeOK, Places
<1>9. ASSUME NEW t \in Threads, Bump(t) PROVE EtcdTypeOK'
    BY <1>9, BatchAssumption DEF Bump, EtcdTypeOK, PlacesFit, Places
<1>10. ASSUME NEW t \in Threads, Answer(t) PROVE EtcdTypeOK'
    BY <1>10, LeaveTypes DEF Answer, EtcdTypeOK
<1>11. ASSUME NEW t \in Threads, Retry(t) PROVE EtcdTypeOK'
    BY <1>11, LeaveTypes, NewRoundTypes DEF Retry, EtcdTypeOK
<1> QED
    BY <1>1, <1>2, <1>3, <1>4, <1>5, <1>6, <1>7, <1>8, <1>9, <1>10, <1>11 DEF EtcdNext

-----------------------------------------------------------------------------
LEMMA StepCounts ==
    ASSUME EtcdInv, EtcdNext
    PROVE  SentOnce' /\ CountsAreExact'
<1> USE DEF client, calls, history, EtcdInv
<1>1. CASE Begin
    <2>1. CASE op = "add"
        BY <1>1, <2>1, SameSends DEF Begin, EtcdTypeOK
    <2>2. CASE op # "add"
        BY <1>1, <2>2, NewRoundCounts, Caller \in Threads DEF Begin, Threads
    <2> QED
        BY <2>1, <2>2
<1>2. CASE KeyFound
    BY <1>2, NewRoundCounts, Caller \in Threads DEF KeyFound, Threads, PlacesFit
<1>3. CASE KeyMissing
    BY <1>3, SameSends, Caller \in Threads DEF KeyMissing, Leave, Threads, PlacesFit, EtcdTypeOK
<1>4. CASE KeyRefused
    BY <1>4, SameSends DEF KeyRefused
<1>5. ASSUME NEW t \in Threads, Send(t) PROVE SentOnce' /\ CountsAreExact'
    BY <1>5, SendCounts
<1>6. ASSUME NEW t \in Threads, SentAll(t) PROVE SentOnce' /\ CountsAreExact'
    BY <1>6, SameSends DEF SentAll, Failed, Leave, EtcdTypeOK
<1>7. ASSUME NEW t \in Threads, NEW q \in flight, NEW outcome, Ends(t, q, outcome) PROVE SentOnce' /\ CountsAreExact'
    BY <1>7, EndCounts
<1>8. ASSUME NEW t \in Threads, Weigh(t) \/ Bump(t) PROVE SentOnce' /\ CountsAreExact'
    BY <1>8, SameSends DEF Weigh, Bump, EtcdTypeOK
<1>9. ASSUME NEW t \in Threads, Answer(t) PROVE SentOnce' /\ CountsAreExact'
    BY <1>9, SameSends DEF Answer, Leave, EtcdTypeOK
<1>10. ASSUME NEW t \in Threads, Retry(t) PROVE SentOnce' /\ CountsAreExact'
    <2>1. CASE NewRound(t)
        BY <1>10, <2>1, NewRoundCounts DEF Retry
    <2>2. CASE Leave(t) /\ UNCHANGED count
        BY <1>10, <2>2, SameSends DEF Retry, Leave, EtcdTypeOK
    <2> QED
        BY <1>10, <2>1, <2>2 DEF Retry
<1> QED
    BY <1>1, <1>2, <1>3, <1>4, <1>5, <1>6, <1>7, <1>8, <1>9, <1>10 DEF EtcdNext

-----------------------------------------------------------------------------
LEMMA EtcdInitHolds == EtcdInit => EtcdInv
<1> SUFFICES ASSUME EtcdInit PROVE EtcdInv
    OBVIOUS
<1>1. IsFiniteSet(batch) /\ Cardinality(batch) \in Nat
    BY BatchAssumption, FS_Subset, FS_CardinalityType DEF EtcdInit
<1>2. EtcdTypeOK
    <2>1. /\ count \in Seq(0 .. Cardinality(batch)) /\ Len(count) = 0
          /\ flight \subseteq Rounds \X batch
        BY DEF EtcdInit, Rounds
    <2>2. at \in [Threads -> Places]
        BY DEF EtcdInit, Places
    <2>3. /\ round \in [Threads -> 0 .. Len(count)]
          /\ todo \in [Threads -> SUBSET batch]
        BY <2>1 DEF EtcdInit
    <2>4. /\ ret \in [Threads -> {"ok", "bad", "fail"}]
          /\ tried \in [Threads -> 0 .. MaxTry] /\ tries \in 1 .. MaxTry
        BY BatchAssumption DEF EtcdInit
    <2> QED
        BY <2>1, <2>2, <2>3, <2>4 DEF EtcdInit, EtcdTypeOK
<1>3. PlacesFit /\ SentOnce
    BY DEF EtcdInit, PlacesFit, SentOnce, Rounds
<1>4. CountsAreExact
    BY DEF EtcdInit, CountsAreExact, Rounds
<1> QED
    BY <1>2, <1>3, <1>4 DEF EtcdInv

(* The inductive invariant of EtcdBatch.                                   *)
THEOREM EtcdInvariance == EtcdSpec => []EtcdInv
<1>1. EtcdInit => EtcdInv
    BY EtcdInitHolds
<1>2. EtcdInv /\ [EtcdNext]_etcdVars => EtcdInv'
    <2> SUFFICES ASSUME EtcdInv, [EtcdNext]_etcdVars PROVE EtcdInv'
        OBVIOUS
    <2>1. CASE EtcdNext
        BY <2>1, StepTypes, StepPlaces, StepCounts DEF EtcdInv
    <2>2. CASE UNCHANGED etcdVars
        <3> USE <2>2 DEF etcdVars, client, calls, history, EtcdInv, Rounds
        <3>1. EtcdTypeOK'
            BY DEF EtcdTypeOK
        <3>2. PlacesFit'
            BY DEF PlacesFit
        <3>3. SentOnce' /\ CountsAreExact'
            BY SameSends
        <3> QED
            BY <3>1, <3>2, <3>3
    <2> QED
        BY <2>1, <2>2
<1> QED
    BY <1>1, <1>2, PTL DEF EtcdSpec

(* For any batch, callback threads and tries, the request, its rounds and  *)
(* their callbacks keep their types; no counter exceeds its batch.         *)
THEOREM EtcdTypeCorrect == EtcdSpec => []EtcdTypeOK
<1>1. EtcdInv => EtcdTypeOK
    BY DEF EtcdInv
<1> QED
    BY <1>1, EtcdInvariance, PTL

(* For any batch, callback threads and tries, the counter that             *)
(* responseClient compares accounts for every request of its round.        *)
THEOREM CountsExact == EtcdSpec => []CountsAreExact
<1>1. EtcdInv => CountsAreExact
    BY DEF EtcdInv
<1> QED
    BY <1>1, EtcdInvariance, PTL
=============================================================================
