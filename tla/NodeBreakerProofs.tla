-------------------------- MODULE NodeBreakerProofs --------------------------
(***************************************************************************)
(* Proofs about the circuit breaker of the C++ client, for every value of  *)
(* the thresholds of CheckTimeoutInfo and any registry addresses: that of  *)
(* one node (NodeBreaker) and those of the addresses among which a thread  *)
(* chooses (RegistryEpManager).  What holds of one record is in NodeStat.  *)
(***************************************************************************)
EXTENDS MCBreaker

(* A shielded node's probe is due when the rest of its interval has passed.*)
RestIsTracked == ~stat.isAvailable => rest + stat.retryIn >= TryTimeInterval

(* The inductive invariant: the bookkeeping of the run of failures is what *)
(* makes the shielding of a dead node provable, that of its rest what      *)
(* spaces the probes.                                                      *)
IInv == TypeOK /\ RunIsTracked /\ DeadNodeIsShielded /\ RestIsTracked

(* A report about an available node that leaves it available has counted   *)
(* the failure, or ended the run, and has found the run too short.         *)
LEMMA StatResultRun ==
    ASSUME NEW s \in RouterNodeStat, NEW isFail \in BOOLEAN,
           s.isAvailable, StatResult(s, isFail).isAvailable
    PROVE  LET t == StatResult(s, isFail) IN
           /\ t.continueErrNum = IF isFail THEN s.continueErrNum + 1 ELSE 0
           /\ isFail => t.contIn = IF s.continueErrNum = 0
                                   THEN MinFrequenceFailTime ELSE s.contIn
           /\ isFail => ~FailsContinuously(t)
<1> USE NodeStatAssumption
<1> DEFINE c == Counted(s, isFail)
<1>1. /\ c \in RouterNodeStat
      /\ c.continueErrNum = IF isFail THEN s.continueErrNum + 1 ELSE 0
      /\ isFail => c.contIn = IF s.continueErrNum = 0
                              THEN MinFrequenceFailTime ELSE s.contIn
    BY CountedStat
<1> HIDE DEF c
<1>2. Shielded(c).isAvailable = FALSE
    BY <1>1 DEF RouterNodeStat, Shielded
<1>3. ~(isFail /\ FailsContinuously(c))
    BY <1>2 DEF StatResult, c
<1>4. CASE c.checkIn = 0
    <2>1. StatResult(s, isFail) = Checked(c, isFail)
        BY <1>3, <1>4 DEF StatResult, c
    <2>2. Checked(c, isFail).isAvailable
        BY <2>1
    <2>3. Checked(c, isFail) = [c EXCEPT !.checkIn = CheckTimeoutInterval,
                                         !.succNum = 0, !.errNum = 0]
        BY <1>1, <2>2 DEF Checked, Shielded, RouterNodeStat
    <2>4. QED
        BY <1>1, <1>3, <2>1, <2>3 DEF FailsContinuously, RouterNodeStat
<1>5. CASE c.checkIn # 0
    <2>1. StatResult(s, isFail) = c
        BY <1>3, <1>5 DEF StatResult, c
    <2>2. QED
        BY <1>1, <1>3, <2>1
<1>6. QED
    BY <1>4, <1>5

LEMMA RecoveredRun ==
    ASSUME NEW s \in RouterNodeStat, ~s.isAvailable
    PROVE  /\ StatResult(s, FALSE).continueErrNum = 0
           /\ ~StatResult(s, TRUE).isAvailable
    BY NodeStatAssumption DEF StatResult, Recovered, RouterNodeStat

(* Forgetting the counters of a shielded node loses nothing: whatever is   *)
(* asked, reported or waited for next, the answer is the same and so is the*)
(* record once its counters are forgotten again.  The models of several    *)
(* nodes rest on it (checkActive, statResult).                             *)
THEOREM ForgettingIsSound ==
    ASSUME NEW s \in RouterNodeStat, NEW isFail \in BOOLEAN
    PROVE  /\ IsActive(Forgotten(s)) = IsActive(s)
           /\ Forgotten(Probed(Forgotten(s))) = Forgotten(Probed(s))
           /\ Forgotten(Elapsed(Forgotten(s))) = Forgotten(Elapsed(s))
           /\ Forgotten(StatResult(Forgotten(s), isFail)) = Forgotten(StatResult(s, isFail))
<1>1. CASE s.isAvailable
    BY <1>1 DEF Forgotten
<1>2. CASE ~s.isAvailable
    <2> DEFINE f == Forgotten(s)
    <2>1. /\ f \in RouterNodeStat
          /\ f = [s EXCEPT !.succNum = 0, !.errNum = 0, !.continueErrNum = 0,
                           !.contIn = 0, !.checkIn = 0]
        BY <1>2 DEF Forgotten, RouterNodeStat
    <2>2. /\ f.isAvailable = s.isAvailable
          /\ f.retryIn = s.retryIn
        BY <2>1 DEF RouterNodeStat
    <2>3. IsActive(f) = IsActive(s)
        BY <2>2 DEF IsActive
    <2>4. Forgotten(Probed(f)) = Forgotten(Probed(s))
        BY <1>2, <2>1, <2>2 DEF Probed, Forgotten, RouterNodeStat
    <2>5. Forgotten(Elapsed(f)) = Forgotten(Elapsed(s))
        BY <1>2, <2>1, <2>2 DEF Elapsed, Forgotten, RouterNodeStat
    <2>6. Recovered(f) = Recovered(s)
        BY <2>1, <2>2 DEF Recovered, RouterNodeStat
    <2>7. Forgotten([f EXCEPT !.errNum = @ + 1]) = Forgotten([s EXCEPT !.errNum = @ + 1])
        BY <1>2, <2>1, <2>2 DEF Forgotten, RouterNodeStat
    <2>8. Forgotten(StatResult(f, isFail)) = Forgotten(StatResult(s, isFail))
        BY <1>2, <2>2, <2>6, <2>7 DEF StatResult
    <2>9. QED
        BY <2>3, <2>4, <2>5, <2>8
<1>3. QED
    BY <1>1, <1>2

LEMMA InitInv == Init => IInv
    BY NodeStatAssumption, BreakerAssumption
    DEF Init, IInv, TypeOK, RunIsTracked, DeadNodeIsShielded, NewStat,
        RouterNodeStat, Ages, Horizon, RestIsTracked

LEMMA ReportRest ==
    ASSUME IInv, NEW isFail \in BOOLEAN, Report(isFail)
    PROVE  RestIsTracked'
<1>1. stat \in RouterNodeStat /\ stat' = StatResult(stat, isFail)
    BY DEF IInv, TypeOK, Report
<1>2. /\ ~stat.isAvailable => stat'.isAvailable = ~isFail
      /\ stat.isAvailable /\ ~stat'.isAvailable => stat'.retryIn = TryTimeInterval
      /\ ~stat.isAvailable /\ isFail => stat'.retryIn = stat.retryIn
    BY <1>1, StatResultTurns
<1>3. CASE ~stat'.isAvailable /\ stat.isAvailable
    <2>1. rest' = 0 /\ stat'.retryIn = TryTimeInterval
        BY <1>2, <1>3 DEF Report
    <2> QED
        BY <2>1, NodeStatAssumption DEF RestIsTracked
<1>4. CASE ~stat'.isAvailable /\ ~stat.isAvailable
    <2>1. rest' = rest /\ stat'.retryIn = stat.retryIn
        BY <1>2, <1>4 DEF Report
    <2> QED
        BY <1>4, <2>1 DEF RestIsTracked, IInv
<1> QED
    BY <1>3, <1>4 DEF RestIsTracked

LEMMA ReportInv ==
    ASSUME IInv, NEW isFail \in BOOLEAN, Report(isFail)
    PROVE  IInv'
<1> USE NodeStatAssumption DEF IInv, TypeOK
<1>1. /\ stat \in RouterNodeStat
      /\ stat' = StatResult(stat, isFail)
      /\ stat' \in RouterNodeStat
    BY StatResultType DEF Report
<1>2. TypeOK'
    BY <1>1 DEF Report, Ages, Horizon
<1>0. RestIsTracked'
    BY ReportRest
<1>3. CASE stat.isAvailable /\ stat'.isAvailable
    <2>1. /\ stat'.continueErrNum = IF isFail THEN stat.continueErrNum + 1 ELSE 0
          /\ isFail => stat'.contIn = IF stat.continueErrNum = 0
                                      THEN MinFrequenceFailTime ELSE stat.contIn
          /\ isFail => ~FailsContinuously(stat')
        BY <1>1, <1>3, StatResultRun
    <2>2. RunIsTracked'
        BY <1>1, <1>3, <2>1 DEF Report, RunIsTracked, Ages
    <2>3. DeadNodeIsShielded'
        BY <1>1, <1>3, <2>1, <2>2
        DEF Report, RunIsTracked, DeadNodeIsShielded, FailsContinuously, Ages
    <2>4. QED
        BY <1>0, <1>2, <2>2, <2>3
<1>4. CASE ~stat'.isAvailable
    BY <1>0, <1>2, <1>4 DEF RunIsTracked, DeadNodeIsShielded
<1>5. CASE ~stat.isAvailable /\ stat'.isAvailable
    <2>1. ~isFail
        BY <1>1, <1>5, RecoveredRun
    <2>2. stat'.continueErrNum = 0 /\ run' = 0
        BY <1>1, <1>5, <2>1, RecoveredRun DEF Report
    <2>3. QED
        BY <1>0, <1>2, <2>2 DEF RunIsTracked, DeadNodeIsShielded
<1>6. QED
    BY <1>3, <1>4, <1>5

LEMMA SelectInv == ASSUME IInv, Select PROVE IInv'
<1> USE NodeStatAssumption DEF IInv, TypeOK
<1>1. /\ stat' \in RouterNodeStat
      /\ stat'.isAvailable = stat.isAvailable
      /\ stat'.continueErrNum = stat.continueErrNum
      /\ stat'.contIn = stat.contIn
      /\ ~stat.isAvailable => stat'.retryIn = TryTimeInterval
    BY ProbedType DEF Select
<1>2. QED
    BY <1>1 DEF Select, RunIsTracked, DeadNodeIsShielded, RestIsTracked, Ages, Horizon

LEMMA TickInv == ASSUME IInv, Tick PROVE IInv'
<1> USE NodeStatAssumption DEF IInv, TypeOK
<1>1. /\ stat' \in RouterNodeStat
      /\ stat'.isAvailable = stat.isAvailable
      /\ stat'.continueErrNum = stat.continueErrNum
      /\ stat'.contIn = Less(stat.contIn)
      /\ stat'.retryIn = Less(stat.retryIn)
    BY ElapsedType DEF Tick
<1>2. /\ since' = Older(since) /\ since' \in Ages
      /\ rest' = Older(rest) /\ rest' \in Ages
      /\ run' = run /\ span' = span
    BY DEF Tick, Older, Ages, Horizon
<1>3. RunIsTracked'
    BY <1>1, <1>2 DEF RunIsTracked, Less, Older, Ages, Horizon, RouterNodeStat
<1>4. RestIsTracked'
    BY <1>1, <1>2 DEF RestIsTracked, Less, Older, Ages, Horizon, RouterNodeStat
<1>5. QED
    BY <1>1, <1>2, <1>3, <1>4 DEF DeadNodeIsShielded

LEMMA NextInv == ASSUME IInv, [Next]_vars PROVE IInv'
<1>1. CASE \E isFail \in BOOLEAN : Report(isFail)
    BY <1>1, ReportInv
<1>2. CASE Select
    BY <1>2, SelectInv
<1>3. CASE Tick
    BY <1>3, TickInv
<1>4. CASE UNCHANGED vars
    BY <1>4 DEF vars, IInv, TypeOK, RunIsTracked, DeadNodeIsShielded, RestIsTracked
<1>5. QED
    BY <1>1, <1>2, <1>3, <1>4 DEF Next

(* The inductive invariant holds of every behaviour of the breaker.        *)
THEOREM Invariance == Spec => []IInv
<1>1. Init => IInv
    BY InitInv
<1>2. IInv /\ [Next]_vars => IInv'
    BY NextInv
<1>3. QED
    BY <1>1, <1>2, PTL DEF Spec

(* The record and the history keep their types (struct RouterNodeStat).    *)
THEOREM TypeCorrect == Spec => []TypeOK
    BY Invariance, PTL DEF IInv

(* Whatever the thresholds, a node whose failures have lasted long enough  *)
(* is never left in use (statResult).                                      *)
THEOREM DeadNodesAreShielded == Spec => []DeadNodeIsShielded
    BY Invariance, PTL DEF IInv

(* A shielded node is offered at most once per interval: whatever is       *)
(* reported meanwhile does not bring its next probe forward (checkActive). *)
THEOREM ProbesAreRare == Spec => ProbesAreSpaced
<1>1. IInv /\ [Next]_vars => [Select /\ ~stat.isAvailable => rest >= TryTimeInterval]_vars
    BY DEF IInv, TypeOK, RestIsTracked, Select, IsActive, Ages, RouterNodeStat
<1> QED
    BY <1>1, Invariance, PTL DEF Spec, ProbesAreSpaced

LEMMA FailureShields ==
    IInv /\ [Next]_vars => [stat.isAvailable /\ ~stat'.isAvailable => run' = run + 1]_vars
<1> SUFFICES ASSUME IInv, Next, stat.isAvailable, ~stat'.isAvailable
             PROVE  run' = run + 1
    BY DEF vars
<1>1. PICK isFail \in BOOLEAN : Report(isFail)
    BY ProbedType, ElapsedType DEF Next, Select, Tick, IInv, TypeOK
<1>2. isFail
    BY <1>1, StatResultTurns DEF Report, IInv, TypeOK
<1> QED
    BY <1>1, <1>2 DEF Report

(* Only a failure that was just reported shields a node (statResult).      *)
THEOREM OnlyFailuresShield == Spec => ShieldedByFailure
    BY FailureShields, Invariance, PTL DEF Spec, ShieldedByFailure

-----------------------------------------------------------------------------
(* The registry addresses of a thread (RegistryEpManager).                 *)
Stats(dom) == [dom -> EpManager!RouterNodeStat]

(* The library's finite sets, seen through the instance, are the same.     *)
LEMMA SameFiniteSets ==
    ASSUME NEW S
    PROVE  /\ EpManager!IsFiniteSet(S) = IsFiniteSet(S)
           /\ EpManager!Cardinality(S) = Cardinality(S)
<1>1. EpManager!IsFiniteSet(S) = IsFiniteSet(S)
    BY Zenon DEF EpManager!IsFiniteSet, IsFiniteSet
<1>2. EpManager!Cardinality(S) = Cardinality(S)
    BY Zenon DEF EpManager!Cardinality, Cardinality
<1> QED
    BY <1>1, <1>2

LEMMA AddressesInOrder ==
    ASSUME NEW dom \in SUBSET Ips
    PROVE  LET ips == EpManager!InOrder(dom) IN
           /\ Cardinality(dom) \in Nat /\ Cardinality(dom) <= Cardinality(Ips)
           /\ ips \in Seq(dom) /\ Len(ips) = Cardinality(dom)
           /\ \A k \in 1 .. Cardinality(dom) : ips[k] \in dom
           /\ \A x \in dom : \E k \in 1 .. Cardinality(dom) : ips[k] = x
<1>1. IsFiniteSet(dom) /\ Cardinality(dom) <= Cardinality(Ips) /\ dom \in SUBSET Nat
    BY IpAssumption, FS_Subset
<1> QED
    BY <1>1, IpAssumption, NodeStatAssumption, SameFiniteSets, EpManager!InOrderEnumerates

(* What getAvaliableIp returns: an address of the list that is active, or  *)
(* any when none is.  It touches no verdict.                               *)
LEMMA AddressChosen ==
    ASSUME NEW dom \in SUBSET Ips, NEW st \in Stats(dom), index \in Nat,
           EpManager!InOrder(dom) # <<>>,
           NEW g \in EpManager!GetAvaliableIp(EpManager!InOrder(dom), st)
    PROVE  LET i == EpManager!InOrder(dom)[g.index + 1] IN
           /\ g.index \in 0 .. Cardinality(dom) - 1 /\ i \in dom
           /\ g.stat \in Stats(dom)
           /\ \A j \in dom : g.stat[j].isAvailable = st[j].isAvailable
           /\ \/ EpManager!IsActive(st[i])
              \/ \A j \in dom : ~EpManager!IsActive(st[j])
<1> DEFINE ips == EpManager!InOrder(dom)
           n   == Len(ips)
           at(k) == ips[((index + k) % n) + 1]
           live  == {k \in 1 .. n : EpManager!IsActive(st[at(k)])}
<1>1. /\ n = Cardinality(dom) /\ n \in Nat /\ ips \in Seq(dom)
      /\ \A k \in 1 .. n : ips[k] \in dom
      /\ \A x \in dom : \E k \in 1 .. n : ips[k] = x
    BY AddressesInOrder, SMTT(30)
<1>2. n \in Nat \ {0}
    BY <1>1
<1>3. \A k \in Int : (index + k) % n \in 0 .. n - 1 /\ at(k) \in dom
    <2>1. \A k \in Int : (index + k) % n \in 0 .. n - 1
        BY <1>2
    <2>2. \A m \in 0 .. n - 1 : ips[m + 1] \in dom
        BY <1>1
    <2> QED
        BY <2>1, <2>2
<1>4. \A x \in dom : \E k \in 1 .. n : at(k) = x
    <2> SUFFICES ASSUME NEW x \in dom
                 PROVE  \E k \in 1 .. n : at(k) = x
        OBVIOUS
    <2>1. PICK m \in 1 .. n : ips[m] = x
        BY <1>1
    <2>2. m - 1 \in 0 .. n - 1
        BY <1>1
    <2>3. index \in Int
        OBVIOUS
    <2>4. PICK k \in 1 .. n : (index + k) % n = m - 1
        <3> HIDE DEF n
        <3> QED
            BY <1>2, <2>2, <2>3, RoundReachesAll
    <2> QED
        BY <2>1, <2>4
<1>5. CASE live = {}
    <2>1. PICK i \in 0 .. n - 1 : g = [index |-> i, stat |-> st]
        BY <1>5 DEF EpManager!GetAvaliableIp
    <2>2. \A j \in dom : ~EpManager!IsActive(st[j])
        BY <1>4, <1>5
    <2> QED
        BY <1>1, <2>1, <2>2
<1>6. CASE live # {}
    <2> DEFINE k == CHOOSE k \in live : \A j \in live : k <= j
    <2>1. k \in live
        <3>1. live \in SUBSET Nat
            BY <1>1
        <3> HIDE DEF live
        <3>2. \E m \in live : \A j \in live : m <= j
            BY <1>6, <3>1, SmallestNumber
        <3> QED
            BY <3>2
    <2>2. g = [index |-> (index + k) % n, stat |-> [st EXCEPT ![at(k)] = EpManager!Probed(@)]]
        BY <1>6 DEF EpManager!GetAvaliableIp
    <2> HIDE DEF k
    <2>3. k \in 1 .. n /\ EpManager!IsActive(st[at(k)]) /\ at(k) \in dom
        BY <2>1, <1>3
    <2>4. \A j \in dom : /\ EpManager!Probed(st[j]) \in EpManager!RouterNodeStat
                         /\ EpManager!Probed(st[j]).isAvailable = st[j].isAvailable
        BY IpAssumption, NodeStatAssumption, EpManager!ProbedType DEF Stats
    <2>5. /\ g.stat \in Stats(dom)
          /\ \A j \in dom : g.stat[j].isAvailable = st[j].isAvailable
        BY <2>2, <2>3, <2>4 DEF Stats
    <2> QED
        BY <1>1, <1>3, <2>2, <2>3, <2>5, SMTT(30)
<1> QED
    BY <1>5, <1>6

(* The record that an address keeps when the list becomes `dom'.           *)
Kept(dom, st) ==
    \A j \in dom : st[j] = IF j \in DOMAIN ipsStat THEN ipsStat[j] ELSE EpManager!NewStat

LEMMA AskBegins ==
    ASSUME EpManager!TypeOK, EpManager!Begin
    PROVE  \E dom \in SUBSET Ips : \E st \in Stats(dom) :
              Kept(dom, st) /\ EpManager!Ask(EpManager!InOrder(dom), st)
<1>1. CASE EpManager!Request \/ EpManager!RequestUnresolved
    BY <1>1 DEF EpManager!Request, EpManager!RequestUnresolved, EpManager!TypeOK, Stats, Kept
<1>2. ASSUME NEW dom \in SUBSET Ips
      PROVE  EpManager!Known(ipsStat, dom) \in Stats(dom) /\ Kept(dom, EpManager!Known(ipsStat, dom))
    BY IpAssumption DEF EpManager!Known, EpManager!TypeOK, EpManager!NewStat,
                        EpManager!RouterNodeStat, Stats, Kept
<1>3. CASE EpManager!RequestResolved
    BY <1>2, <1>3 DEF EpManager!RequestResolved
<1> QED
    BY <1>1, <1>3 DEF EpManager!Begin

LEMMA AskFrom ==
    ASSUME EpManager!TypeOK, asking = 0, NEW dom \in SUBSET Ips, NEW st \in Stats(dom),
           EpManager!Ask(EpManager!InOrder(dom), st)
    PROVE  /\ ipsStat' \in Stats(dom)
           /\ registryIps' = EpManager!InOrder(dom)
           /\ index' \in 0 .. EpManager!Cardinality(Ips)
           /\ asking' \in dom \cup {0} /\ sent' \in BOOLEAN
           /\ outcome' \in {outcome, "noaddress"}
           /\ UNCHANGED <<isIpsConstant, up>>
           /\ \A j \in dom : ipsStat'[j].isAvailable = st[j].isAvailable
           /\ asking' # 0 => \/ EpManager!IsActive(st[asking'])
                             \/ \A j \in dom : ~EpManager!IsActive(st[j])
<1> DEFINE ips == EpManager!InOrder(dom)
<1>1. index \in Nat /\ index \in 0 .. EpManager!Cardinality(Ips) /\ sent \in BOOLEAN
    <2>1. Cardinality(Ips) \in Nat
        BY IpAssumption, FS_CardinalityType
    <2> QED
        BY <2>1, SameFiniteSets DEF EpManager!TypeOK
<1>2. CASE ips = <<>>
    BY <1>1, <1>2 DEF EpManager!Ask
<1>3. CASE ips # <<>>
    <2>1. PICK g \in EpManager!GetAvaliableIp(ips, st) :
             /\ index' = g.index /\ ipsStat' = g.stat /\ asking' = ips[g.index + 1]
             /\ sent' = FALSE /\ outcome' = outcome
        BY <1>3 DEF EpManager!Ask
    <2>2. /\ g.index \in 0 .. Cardinality(dom) - 1 /\ asking' \in dom
          /\ g.stat \in Stats(dom)
          /\ \A j \in dom : g.stat[j].isAvailable = st[j].isAvailable
          /\ \/ EpManager!IsActive(st[asking'])
             \/ \A j \in dom : ~EpManager!IsActive(st[j])
        BY <1>1, <1>3, <2>1, AddressChosen
    <2>3. /\ Cardinality(dom) \in Nat /\ Cardinality(dom) <= Cardinality(Ips)
          /\ Cardinality(Ips) \in Nat
        BY AddressesInOrder, IpAssumption, FS_CardinalityType
    <2>4. index' \in 0 .. EpManager!Cardinality(Ips)
        BY <2>1, <2>2, <2>3, SameFiniteSets
    <2> QED
        BY <2>1, <2>2, <2>4 DEF EpManager!Ask
<1> QED
    BY <1>2, <1>3

LEMMA EpInitTypes == EpManager!Init => EpManager!TypeOK
<1> SUFFICES ASSUME EpManager!Init
             PROVE  EpManager!TypeOK
    OBVIOUS
<1>1. PICK given \in SUBSET Ips :
         registryIps = EpManager!InOrder(given) /\ ipsStat = [i \in given |-> EpManager!NewStat]
    BY DEF EpManager!Init
<1>2. EpManager!NewStat \in EpManager!RouterNodeStat
    BY DEF EpManager!NewStat, EpManager!RouterNodeStat
<1>3. EpManager!Cardinality(Ips) \in Nat
    BY IpAssumption, FS_CardinalityType, SameFiniteSets
<1>4. /\ DOMAIN ipsStat \subseteq Ips
      /\ registryIps = EpManager!InOrder(DOMAIN ipsStat)
      /\ ipsStat \in [DOMAIN ipsStat -> EpManager!RouterNodeStat]
    BY <1>1, <1>2
<1>5. /\ isIpsConstant \in BOOLEAN /\ sent \in BOOLEAN
      /\ index = 0 /\ sinceUpdate = UpdateInterval + 1 /\ asking = 0
      /\ up \subseteq Ips /\ outcome = "none"
    BY DEF EpManager!Init
<1> QED
    BY <1>3, <1>4, <1>5, IpAssumption DEF EpManager!TypeOK

LEMMA EpBeginTypes ==
    ASSUME EpManager!TypeOK, EpManager!Begin
    PROVE  EpManager!TypeOK'
<1>0. PICK dom \in SUBSET Ips : \E st \in Stats(dom) :
         Kept(dom, st) /\ EpManager!Ask(EpManager!InOrder(dom), st)
    BY AskBegins
<1>1. PICK st \in Stats(dom) : EpManager!Ask(EpManager!InOrder(dom), st)
    BY <1>0
<1>2. asking = 0 /\ sinceUpdate' \in {sinceUpdate, 0}
    BY DEF EpManager!Begin, EpManager!Request, EpManager!RequestUnresolved,
           EpManager!RequestResolved
<1>3. /\ ipsStat' \in Stats(dom)
      /\ registryIps' = EpManager!InOrder(dom)
      /\ index' \in 0 .. EpManager!Cardinality(Ips)
      /\ asking' \in dom \cup {0} /\ sent' \in BOOLEAN
      /\ outcome' \in {outcome, "noaddress"}
      /\ UNCHANGED <<isIpsConstant, up>>
    BY <1>1, <1>2, AskFrom
<1>4. DOMAIN ipsStat' = dom
    BY <1>3 DEF Stats
<1>5. UNCHANGED <<isIpsConstant, up>> /\ sinceUpdate' \in 0 .. UpdateInterval + 1
    BY <1>2, <1>3, IpAssumption DEF EpManager!TypeOK
<1> QED
    BY <1>3, <1>4, <1>5 DEF EpManager!TypeOK, Stats

LEMMA EpFinishTypes ==
    ASSUME EpManager!TypeOK, EpManager!Finish
    PROVE  EpManager!TypeOK'
<1>1. asking \in DOMAIN ipsStat /\ ipsStat[asking] \in EpManager!RouterNodeStat
    BY DEF EpManager!Finish, EpManager!Answered, EpManager!Failed, EpManager!Undecodable,
           EpManager!Conclude, EpManager!TypeOK
<1>2. ASSUME NEW isFail \in BOOLEAN
      PROVE  /\ EpManager!Reported(isFail) \in [DOMAIN ipsStat -> EpManager!RouterNodeStat]
             /\ DOMAIN EpManager!Reported(isFail) = DOMAIN ipsStat
    <2> DEFINE s == EpManager!StatResult(ipsStat[asking], isFail)
    <2>1. s \in EpManager!RouterNodeStat
        BY <1>1, IpAssumption, NodeStatAssumption, EpManager!StatResultType
    <2>2. EpManager!Forgotten(s) \in EpManager!RouterNodeStat
        BY <2>1, IpAssumption, NodeStatAssumption, EpManager!ForgottenType
    <2> QED
        BY <1>1, <2>2 DEF EpManager!Reported, EpManager!TypeOK
<1>3. /\ ipsStat' \in [DOMAIN ipsStat -> EpManager!RouterNodeStat]
      /\ DOMAIN ipsStat' = DOMAIN ipsStat
    BY <1>2 DEF EpManager!Finish, EpManager!Answered, EpManager!Failed,
                EpManager!Undecodable, EpManager!TypeOK
<1> QED
    BY <1>3 DEF EpManager!Finish, EpManager!Answered, EpManager!Failed,
                EpManager!Undecodable, EpManager!Conclude, EpManager!TypeOK

LEMMA EpTickTypes ==
    ASSUME EpManager!TypeOK, EpManager!Tick
    PROVE  EpManager!TypeOK'
<1>1. \A i \in DOMAIN ipsStat : EpManager!Elapsed(ipsStat[i]) \in EpManager!RouterNodeStat
    BY IpAssumption, NodeStatAssumption, EpManager!ElapsedType DEF EpManager!TypeOK
<1> QED
    BY <1>1, IpAssumption DEF EpManager!Tick, EpManager!TypeOK

LEMMA EpTypes == EpManager!TypeOK /\ [EpManager!Next]_epVars => EpManager!TypeOK'
<1>1. ASSUME EpManager!TypeOK, NEW servers \in SUBSET Ips, EpManager!Restart(servers)
      PROVE  EpManager!TypeOK'
    BY <1>1 DEF EpManager!Restart, EpManager!TypeOK
<1>2. ASSUME EpManager!TypeOK, UNCHANGED epVars
      PROVE  EpManager!TypeOK'
    BY <1>2 DEF epVars, EpManager!TypeOK
<1> QED
    BY <1>1, <1>2, EpBeginTypes, EpFinishTypes, EpTickTypes DEF EpManager!Next

(* A request goes to a shielded address only when its probe is due or no   *)
(* address is in use (getAvaliableIp).                                     *)
LEMMA EpAsksActive ==
    ASSUME EpManager!TypeOK, [EpManager!Next]_epVars, asking = 0, asking' # 0
    PROVE  \/ ipsStat'[asking'].isAvailable
           \/ asking' \in DOMAIN ipsStat /\ EpManager!IsActive(ipsStat[asking'])
           \/ \A i \in DOMAIN ipsStat' : ~ipsStat'[i].isAvailable
<1>1. EpManager!Begin
    BY DEF EpManager!Next, EpManager!Finish, EpManager!Answered, EpManager!Failed,
           EpManager!Undecodable, EpManager!Conclude, EpManager!Restart, EpManager!Tick, epVars
<1>2. PICK dom \in SUBSET Ips : \E st \in Stats(dom) :
         Kept(dom, st) /\ EpManager!Ask(EpManager!InOrder(dom), st)
    BY <1>1, AskBegins
<1>3. PICK st \in Stats(dom) : Kept(dom, st) /\ EpManager!Ask(EpManager!InOrder(dom), st)
    BY <1>2
<1>4. /\ ipsStat' \in Stats(dom) /\ asking' \in dom \cup {0}
      /\ \A j \in dom : ipsStat'[j].isAvailable = st[j].isAvailable
      /\ \/ EpManager!IsActive(st[asking'])
         \/ \A j \in dom : ~EpManager!IsActive(st[j])
    BY <1>3, AskFrom
<1>5. DOMAIN ipsStat' = dom /\ asking' \in dom
    BY <1>4 DEF Stats
<1>6. CASE EpManager!IsActive(st[asking']) /\ asking' \notin DOMAIN ipsStat
    <2>1. st[asking'].isAvailable
        BY <1>3, <1>5, <1>6 DEF Kept, EpManager!NewStat
    <2> QED
        BY <1>4, <1>5, <2>1
<1>7. CASE EpManager!IsActive(st[asking']) /\ asking' \in DOMAIN ipsStat
    BY <1>3, <1>5, <1>7 DEF Kept
<1>8. CASE \A j \in dom : ~EpManager!IsActive(st[j])
    BY <1>4, <1>5, <1>8 DEF EpManager!IsActive
<1> QED
    BY <1>4, <1>6, <1>7, <1>8

(* A new list of addresses, a probe and time touch no verdict, and of the  *)
(* two reports only that of an answer brings an address back.              *)
LEMMA EpShieldKept ==
    ASSUME EpManager!TypeOK, [EpManager!Next]_epVars,
           NEW i \in DOMAIN ipsStat \cap DOMAIN ipsStat',
           ~ipsStat[i].isAvailable, ipsStat'[i].isAvailable
    PROVE  asking = i /\ EpManager!Answered
<1>1. CASE EpManager!Begin
    <2>1. PICK dom \in SUBSET Ips : \E st \in Stats(dom) :
             Kept(dom, st) /\ EpManager!Ask(EpManager!InOrder(dom), st)
        BY <1>1, AskBegins
    <2>2. PICK st \in Stats(dom) : Kept(dom, st) /\ EpManager!Ask(EpManager!InOrder(dom), st)
        BY <2>1
    <2>3. asking = 0
        BY <1>1 DEF EpManager!Begin, EpManager!Request, EpManager!RequestUnresolved,
                    EpManager!RequestResolved
    <2>4. ipsStat' \in Stats(dom) /\ \A j \in dom : ipsStat'[j].isAvailable = st[j].isAvailable
        BY <2>2, <2>3, AskFrom
    <2> QED
        BY <2>2, <2>4 DEF Stats, Kept
<1>2. ASSUME NEW isFail \in BOOLEAN, ipsStat' = EpManager!Reported(isFail)
      PROVE  asking = i /\ ~isFail
    <2> DEFINE s == EpManager!StatResult(ipsStat[i], isFail)
    <2>1. ipsStat[i] \in EpManager!RouterNodeStat
        BY DEF EpManager!TypeOK
    <2>2. asking = i
        BY <1>2 DEF EpManager!Reported, EpManager!TypeOK
    <2>3. s \in EpManager!RouterNodeStat /\ s.isAvailable = ~isFail
        BY <2>1, IpAssumption, NodeStatAssumption, EpManager!StatResultType, EpManager!StatResultTurns
    <2>4. EpManager!Forgotten(s).isAvailable = s.isAvailable
        BY <2>3, IpAssumption, NodeStatAssumption, EpManager!ForgottenType
    <2> QED
        BY <1>2, <2>2, <2>3, <2>4 DEF EpManager!Reported, EpManager!TypeOK
<1>3. CASE EpManager!Finish
    BY <1>2, <1>3 DEF EpManager!Finish, EpManager!Answered, EpManager!Failed,
                      EpManager!Undecodable
<1>4. CASE EpManager!Tick
    <2>1. EpManager!Elapsed(ipsStat[i]).isAvailable = ipsStat[i].isAvailable
        BY IpAssumption, NodeStatAssumption, EpManager!ElapsedType DEF EpManager!TypeOK
    <2> QED
        BY <1>4, <2>1 DEF EpManager!Tick
<1> QED
    BY <1>1, <1>3, <1>4 DEF EpManager!Next, EpManager!Restart, epVars

-----------------------------------------------------------------------------
(* For any thresholds and addresses: only a failure shields, no request    *)
(* goes to a shielded address while another is in use, and only an answer  *)
(* brings one back (statResult, getAvaliableIp, getRegistryFromDNS).       *)
THEOREM ShieldsAreKept == Breakers => ShieldIsKept
<1> DEFINE Both == IInv /\ EpManager!TypeOK
<1>1. Begin => Both
    BY InitInv, EpInitTypes DEF Begin
<1>2. Both /\ [RunNode \/ RunAddresses]_all => Both'
    <2> SUFFICES ASSUME Both, [RunNode \/ RunAddresses]_all
                 PROVE  Both'
        OBVIOUS
    <2>1. [Next]_vars /\ [EpManager!Next]_epVars
        BY DEF RunNode, RunAddresses, all
    <2> QED
        BY <2>1, NextInv, EpTypes
<1>3. Both /\ [RunNode \/ RunAddresses]_all
        => /\ [stat.isAvailable /\ ~stat'.isAvailable => run' = run + 1]_vars
           /\ [asking = 0 /\ asking' # 0
                 => \/ ipsStat'[asking'].isAvailable
                    \/ asking' \in DOMAIN ipsStat /\ EpManager!IsActive(ipsStat[asking'])
                    \/ \A i \in DOMAIN ipsStat' : ~ipsStat'[i].isAvailable]_epVars
           /\ [\A i \in DOMAIN ipsStat \cap DOMAIN ipsStat' :
                 ~ipsStat[i].isAvailable /\ ipsStat'[i].isAvailable
                    => asking = i /\ EpManager!Answered]_epVars
    <2> SUFFICES ASSUME Both, [RunNode \/ RunAddresses]_all
                 PROVE  <1>3!2
        OBVIOUS
    <2>1. [Next]_vars /\ [EpManager!Next]_epVars
        BY DEF RunNode, RunAddresses, all
    <2> QED
        BY <2>1, FailureShields, EpAsksActive, EpShieldKept
<1> HIDE DEF Both
<1>4. Both => EpManager!TypeOK
    BY DEF Both
<1> QED
    BY <1>1, <1>2, <1>3, <1>4, PTL DEF Breakers, ShieldIsKept, ShieldedByFailure,
       EpManager!AsksActiveFirst, EpManager!ShieldSurvivesResolution, EpManager!vars, epVars
=============================================================================
