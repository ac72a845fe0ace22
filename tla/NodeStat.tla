------------------------------ MODULE NodeStat ------------------------------
(***************************************************************************)
(* The per-node circuit breaker of the client library: struct              *)
(* RouterNodeStat, the thresholds of CheckTimeoutInfo, and what            *)
(* LBLoop::statResult and LBLoop::checkActive do to one node's record.     *)
(* RegistryEpManager::reportResult/checkActive is the same code over       *)
(* registry addresses.                                                     *)
(*                                                                         *)
(* The code stores absolute times and only ever compares them with now; a  *)
(* timer here is the time left until that moment, 0 once it has come:      *)
(*    contIn  = continueErrTime - now      checkIn = lastCheckTime - now   *)
(*    retryIn = nextRetryTime - now                                        *)
(***************************************************************************)
EXTENDS Integers, Sequences, FiniteSets, FiniteSetTheorems, TLAPS

CONSTANTS
    MinTimeoutInvoke,       \* calls a window needs before its ratio counts
    CheckTimeoutInterval,   \* length of a window
    FrequenceFailInvoke,    \* consecutive failures that shield a node ...
    MinFrequenceFailTime,   \* ... once they have lasted this long
    TryTimeInterval         \* time between two probes of a shielded node

ASSUME NodeStatAssumption ==
    /\ MinTimeoutInvoke \in Nat \ {0}
    /\ CheckTimeoutInterval \in Nat \ {0}
    /\ FrequenceFailInvoke \in Nat \ {0}
    /\ MinFrequenceFailTime \in Nat \ {0}
    /\ TryTimeInterval \in Nat \ {0}

RouterNodeStat == [isAvailable : BOOLEAN, succNum : Nat, errNum : Nat,
                   continueErrNum : Nat, contIn : Nat, checkIn : Nat,
                   retryIn : Nat]

NewStat == [isAvailable |-> TRUE, succNum |-> 0, errNum |-> 0,
            continueErrNum |-> 0, contIn |-> 0, checkIn |-> 0, retryIn |-> 0]

(* The first success of a shielded node makes it available again.          *)
Recovered(s) == [s EXCEPT !.isAvailable = TRUE, !.succNum = 1, !.errNum = 0,
                          !.continueErrNum = 0,
                          !.contIn = MinFrequenceFailTime,
                          !.checkIn = CheckTimeoutInterval]

Shielded(s) == [s EXCEPT !.isAvailable = FALSE, !.retryIn = TryTimeInterval]

(* Mutant: every failure, not only the first of a run, restarts the timer. *)
CountedSliding(s, isFail) ==
    IF isFail THEN [s EXCEPT !.errNum = @ + 1, !.continueErrNum = @ + 1,
                             !.contIn = MinFrequenceFailTime]
              ELSE [s EXCEPT !.succNum = @ + 1, !.continueErrNum = 0]

(* The counters after one more call of an available node.                  *)
Counted(s, isFail) ==
    IF isFail
    THEN [s EXCEPT !.errNum = @ + 1,
                   !.continueErrNum = @ + 1,
                   !.contIn = IF s.continueErrNum = 0 THEN MinFrequenceFailTime
                                                      ELSE @]
    ELSE [s EXCEPT !.succNum = @ + 1, !.continueErrNum = 0]

FailsContinuously(s) == /\ s.continueErrNum >= FrequenceFailInvoke
                        /\ s.contIn = 0

(* timeoutRatio is 0.5 wherever the code builds a CheckTimeoutInfo.        *)
RatioTooHigh(s) == /\ s.succNum + s.errNum >= MinTimeoutInvoke
                   /\ 2 * s.errNum >= s.succNum + s.errNum

(* The round of statistics, held by the first call after the window ends.  *)
Checked(s, isFail) ==
    LET t == [s EXCEPT !.checkIn = CheckTimeoutInterval]
    IN  IF isFail /\ RatioTooHigh(s) THEN Shielded(t)
                                     ELSE [t EXCEPT !.succNum = 0, !.errNum = 0]

StatResult(s, isFail) ==
    IF ~s.isAvailable
    THEN IF isFail THEN [s EXCEPT !.errNum = @ + 1] ELSE Recovered(s)
    ELSE LET c == Counted(s, isFail)
         IN  IF isFail /\ FailsContinuously(c) THEN Shielded(c)
             ELSE IF c.checkIn = 0 THEN Checked(c, isFail)
             ELSE c

(* Mutant: a probe does not push the next one into the future.             *)
ProbedForFree(s) == s

(* The counters of a shielded node are overwritten by its recovery before  *)
(* any of them is read again (NodeBreakerProofs, ForgettingIsSound).  The  *)
(* models of several nodes hold them at 0, which keeps errNum, counted on  *)
(* by every failing probe, finite.                                         *)
Forgotten(s) == IF s.isAvailable THEN s
                ELSE [s EXCEPT !.succNum = 0, !.errNum = 0,
                               !.continueErrNum = 0, !.contIn = 0, !.checkIn = 0]

(* What checkActive answers, and what it leaves behind when it says yes.   *)
IsActive(s) == s.isAvailable \/ s.retryIn = 0
Probed(s)   == IF s.isAvailable THEN s ELSE [s EXCEPT !.retryIn = TryTimeInterval]

Less(t)    == IF t = 0 THEN 0 ELSE t - 1
Elapsed(s) == [s EXCEPT !.contIn = Less(@), !.checkIn = Less(@), !.retryIn = Less(@)]

-----------------------------------------------------------------------------
(* Numbers in the order in which a std::map keeps its keys.                *)
InOrder(S) == CHOOSE q \in [1 .. Cardinality(S) -> S] :
                 \A i, j \in 1 .. Cardinality(S) : i < j => q[i] < q[j]

-----------------------------------------------------------------------------
(* Lemmas about these operators.                                           *)

(* Counting one more call keeps the record's type and moves the run and its *)
(* timer as the code does.                                                 *)
LEMMA CountedStat ==
    ASSUME NEW s \in RouterNodeStat, NEW isFail \in BOOLEAN
    PROVE  LET c == Counted(s, isFail) IN
           /\ c \in RouterNodeStat
           /\ c.continueErrNum = IF isFail THEN s.continueErrNum + 1 ELSE 0
           /\ isFail => c.contIn = IF s.continueErrNum = 0
                                   THEN MinFrequenceFailTime ELSE s.contIn
<1> USE NodeStatAssumption
<1>1. CASE isFail
    <2>1. PICK e \in Nat, k \in Nat, m \in Nat :
            /\ e = s.errNum + 1
            /\ k = s.continueErrNum + 1
            /\ m = IF s.continueErrNum = 0 THEN MinFrequenceFailTime ELSE s.contIn
        BY DEF RouterNodeStat
    <2>2. Counted(s, isFail)
            = [s EXCEPT !.errNum = e, !.continueErrNum = k, !.contIn = m]
        BY <1>1, <2>1 DEF Counted
    <2> DEFINE c == [s EXCEPT !.errNum = e, !.continueErrNum = k, !.contIn = m]
    <2>3. c \in RouterNodeStat /\ c.continueErrNum = k /\ c.contIn = m
        BY DEF RouterNodeStat
    <2> HIDE DEF c
    <2>4. QED
        BY <1>1, <2>1, <2>2, <2>3 DEF c
<1>2. CASE ~isFail
    <2>1. PICK n \in Nat : n = s.succNum + 1
        BY DEF RouterNodeStat
    <2>2. Counted(s, isFail) = [s EXCEPT !.succNum = n, !.continueErrNum = 0]
        BY <1>2, <2>1 DEF Counted
    <2> DEFINE c == [s EXCEPT !.succNum = n, !.continueErrNum = 0]
    <2>3. c \in RouterNodeStat /\ c.continueErrNum = 0
        BY DEF RouterNodeStat
    <2> HIDE DEF c
    <2>4. QED
        BY <1>2, <2>2, <2>3 DEF c
<1>3. QED
    BY <1>1, <1>2

(* What one report does to a record of the right type: it stays of that    *)
(* type (statResult).                                                      *)
LEMMA StatResultType ==
    ASSUME NEW s \in RouterNodeStat, NEW isFail \in BOOLEAN
    PROVE  StatResult(s, isFail) \in RouterNodeStat
<1> USE NodeStatAssumption
<1> DEFINE c == Counted(s, isFail)
<1>1. Recovered(s) \in RouterNodeStat
    BY DEF RouterNodeStat, Recovered
<1>2. [s EXCEPT !.errNum = @ + 1] \in RouterNodeStat
    BY DEF RouterNodeStat
<1>3. c \in RouterNodeStat
    BY CountedStat
<1>4. ASSUME NEW t \in RouterNodeStat PROVE Shielded(t) \in RouterNodeStat
    BY DEF RouterNodeStat, Shielded
<1>5. [c EXCEPT !.checkIn = CheckTimeoutInterval] \in RouterNodeStat
    BY <1>3 DEF RouterNodeStat
<1> HIDE DEF c
<1>6. Checked(c, isFail) \in RouterNodeStat
    BY <1>4, <1>5 DEF RouterNodeStat, Checked
<1>7. QED
    BY <1>1, <1>2, <1>3, <1>4, <1>6 DEF StatResult, c

(* Only a success brings a shielded node back, and only a failure shields. *)
LEMMA StatResultTurns ==
    ASSUME NEW s \in RouterNodeStat, NEW isFail \in BOOLEAN
    PROVE  /\ ~s.isAvailable => StatResult(s, isFail).isAvailable = ~isFail
           /\ s.isAvailable /\ ~StatResult(s, isFail).isAvailable
                => isFail /\ StatResult(s, isFail).retryIn = TryTimeInterval
           /\ ~s.isAvailable /\ isFail => StatResult(s, isFail).retryIn = s.retryIn
<1> USE NodeStatAssumption
<1>1. CASE ~s.isAvailable
    BY <1>1 DEF StatResult, Recovered, RouterNodeStat
<1>2. CASE s.isAvailable
    <2> DEFINE c == Counted(s, isFail)
    <2>1. c \in RouterNodeStat
        BY CountedStat
    <2>2. c.isAvailable
        BY <1>2 DEF Counted, RouterNodeStat
    <2>3. ASSUME NEW t \in RouterNodeStat
          PROVE  Shielded(t).isAvailable = FALSE /\ Shielded(t).retryIn = TryTimeInterval
        BY DEF Shielded, RouterNodeStat
    <2>4. [c EXCEPT !.checkIn = CheckTimeoutInterval] \in RouterNodeStat
        BY <2>1 DEF RouterNodeStat
    <2> HIDE DEF c
    <2>5. \/ Checked(c, isFail).isAvailable
          \/ isFail /\ Checked(c, isFail).retryIn = TryTimeInterval
        BY <2>1, <2>2, <2>3, <2>4 DEF Checked, RouterNodeStat
    <2> QED
        BY <1>2, <2>1, <2>2, <2>3, <2>5 DEF StatResult, c
<1> QED
    BY <1>1, <1>2

(* Time and a probe keep the type and do not touch the verdict.            *)
LEMMA ElapsedType ==
    ASSUME NEW s \in RouterNodeStat
    PROVE  /\ Elapsed(s) \in RouterNodeStat
           /\ Elapsed(s).isAvailable = s.isAvailable
           /\ Elapsed(s).continueErrNum = s.continueErrNum
           /\ Elapsed(s).contIn = Less(s.contIn)
           /\ Elapsed(s).retryIn = Less(s.retryIn)
<1>1. \A t \in Nat : Less(t) \in Nat
    BY DEF Less
<1> QED
    BY <1>1 DEF Elapsed, RouterNodeStat

LEMMA ProbedType ==
    ASSUME NEW s \in RouterNodeStat
    PROVE  /\ Probed(s) \in RouterNodeStat
           /\ Probed(s).isAvailable = s.isAvailable
           /\ Probed(s).continueErrNum = s.continueErrNum
           /\ Probed(s).contIn = s.contIn
           /\ ~s.isAvailable => Probed(s).retryIn = TryTimeInterval
    BY NodeStatAssumption DEF Probed, RouterNodeStat

LEMMA ForgottenType ==
    ASSUME NEW s \in RouterNodeStat
    PROVE  /\ Forgotten(s) \in RouterNodeStat
           /\ Forgotten(s).isAvailable = s.isAvailable
    BY DEF Forgotten, RouterNodeStat

(* Among finite sets there is one that contains no other of them.         *)
LEMMA SmallestSet ==
    ASSUME NEW F, F # {}, \A S \in F : IsFiniteSet(S)
    PROVE  \E S \in F : \A T \in F : T \subseteq S => T = S
<1> DEFINE U == UNION F
<1>1. F \subseteq FiniteSubsetsOf(U)
    BY DEF FiniteSubsetsOf
<1>2. PICK S \in F : \A T \in F : ~ (<<T, S>> \in StrictSubsetOrdering(U))
    BY <1>1, FS_StrictSubsetOrderingWellFounded, WFMin
<1>3. \A T \in F : T \subseteq S => T = S
    BY <1>1, <1>2 DEF StrictSubsetOrdering, FiniteSubsetsOf
<1> QED
    BY <1>3

LEMMA SmallestNumber ==
    ASSUME NEW S \in SUBSET Nat, S # {}
    PROVE  \E n \in S : \A m \in S : n <= m
<1> DEFINE F == {0 .. n : n \in S}
<1>1. PICK A \in F : \A T \in F : T \subseteq A => T = A
    <2>1. \A n \in S : IsFiniteSet(0 .. n)
        BY FS_Interval
    <2>2. F # {}
        OBVIOUS
    <2>3. \A T \in F : IsFiniteSet(T)
        BY <2>1
    <2> HIDE DEF F
    <2> QED
        BY <2>2, <2>3, SmallestSet
<1>2. PICK n \in S : A = 0 .. n
    OBVIOUS
<1>3. ASSUME NEW m \in S, m < n
      PROVE  FALSE
    <2>1. 0 .. m \subseteq A
        BY <1>2, <1>3
    <2>2. 0 .. m = 0 .. n
        BY <1>1, <1>2, <2>1
    <2> QED
        BY <2>2, <1>3
<1> QED
    BY <1>3

LEMMA LargestNumber ==
    ASSUME NEW S \in SUBSET Nat, S # {}, IsFiniteSet(S)
    PROVE  \E n \in S : \A m \in S : m <= n
<1> DEFINE From(n) == {m \in S : n <= m}
           F == {From(n) : n \in S}
<1>1. PICK A \in F : \A T \in F : T \subseteq A => T = A
    <2>1. \A n \in S : IsFiniteSet(From(n))
        BY FS_Subset
    <2>2. F # {}
        OBVIOUS
    <2>3. \A T \in F : IsFiniteSet(T)
        BY <2>1
    <2> HIDE DEF F
    <2> QED
        BY <2>2, <2>3, SmallestSet
<1>2. PICK n \in S : A = From(n)
    OBVIOUS
<1>3. S \subseteq Nat
    OBVIOUS
<1>4. ASSUME NEW m \in S, n < m
      PROVE  FALSE
    <2>1. From(m) \subseteq From(n)
        <3>1. \A x \in S : m <= x => n <= x
            BY <1>3, <1>4
        <3> QED
            BY <3>1
    <2>2. From(m) = From(n)
        BY <1>1, <1>2, <2>1
    <2>3. n \notin From(m)
        BY <1>3, <1>4
    <2> QED
        BY <2>2, <2>3, <1>4
<1> QED
    BY <1>3, <1>4

Ordered(q, S) ==
    /\ q \in [1 .. Cardinality(S) -> S]
    /\ \A i, j \in 1 .. Cardinality(S) : i < j => q[i] < q[j]

(* A finite set of numbers can be put in order: the largest comes last.    *)
LEMMA OrderExists ==
    ASSUME NEW U \in SUBSET Nat, IsFiniteSet(U)
    PROVE  \E q : Ordered(q, U)
<1> DEFINE F == {S \in SUBSET U : ~ \E q : Ordered(q, S)}
<1>1. SUFFICES ASSUME U \in F
               PROVE  FALSE
    OBVIOUS
<1>2. PICK S \in F : \A T \in F : T \subseteq S => T = S
    <2>1. F # {} /\ \A S \in F : IsFiniteSet(S)
        BY <1>1, FS_Subset
    <2> HIDE DEF F
    <2> QED
        BY <2>1, SmallestSet
<1>3. /\ S \subseteq Nat /\ IsFiniteSet(S)
      /\ Cardinality(S) \in Nat
    BY FS_Subset, FS_CardinalityType
<1>4. S # {}
    <2>1. Ordered(<<>>, {})
        BY FS_EmptySet DEF Ordered
    <2> QED
        BY <2>1
<1>5. PICK m \in S : \A n \in S : n <= m
    BY <1>3, <1>4, LargestNumber
<1> DEFINE R == S \ {m}
<1>6. PICK q : Ordered(q, R)
    BY <1>2
<1>7. Cardinality(R) = Cardinality(S) - 1 /\ Cardinality(S) >= 1
    <2>1. Cardinality(R) = Cardinality(S) - 1
        BY <1>3, FS_RemoveElement
    <2>2. Cardinality(S) # 0
        BY <1>3, <1>4, FS_EmptySet
    <2> QED
        BY <1>3, <2>1, <2>2
<1> DEFINE k == Cardinality(S)
           p == [i \in 1 .. k |-> IF i = k THEN m ELSE q[i]]
<1>8. \A i \in 1 .. k - 1 : q[i] \in S /\ q[i] \in Nat /\ q[i] < m
    <2>1. \A i \in 1 .. k - 1 : q[i] \in R
        BY <1>6, <1>7 DEF Ordered
    <2>2. \A x \in R : x \in S /\ x \in Nat /\ x < m
        BY <1>3, <1>5
    <2> HIDE DEF R, k
    <2> QED
        BY <2>1, <2>2
<1>9. \A i, j \in 1 .. k - 1 : i < j => q[i] < q[j]
    BY <1>6, <1>7 DEF Ordered
<1>10. Ordered(p, S)
    <2>1. p \in [1 .. k -> S]
        BY <1>8, <1>3
    <2>2. ASSUME NEW i \in 1 .. k, NEW j \in 1 .. k, i < j
          PROVE  p[i] < p[j]
        <3> HIDE DEF k, R
        <3>1. i \in 1 .. k - 1
            BY <1>3, <2>2 DEF k
        <3>2. p[i] = q[i] /\ p[j] = IF j = k THEN m ELSE q[j]
            BY <1>3, <3>1 DEF k
        <3> QED
            BY <1>3, <1>8, <1>9, <2>2, <3>1, <3>2 DEF k
    <2> QED
        BY <2>1, <2>2 DEF Ordered
<1> QED
    BY <1>10

(* The sequence in order has every number of the set, and only those.      *)
LEMMA InOrderEnumerates ==
    ASSUME NEW S \in SUBSET Nat, IsFiniteSet(S)
    PROVE  /\ Cardinality(S) \in Nat
           /\ InOrder(S) \in Seq(S)
           /\ Len(InOrder(S)) = Cardinality(S)
           /\ \A i \in 1 .. Cardinality(S) : InOrder(S)[i] \in S
           /\ \A x \in S : \E i \in 1 .. Cardinality(S) : InOrder(S)[i] = x
<1> DEFINE k == Cardinality(S)
           q == InOrder(S)
<1>1. k \in Nat
    BY FS_CardinalityType
<1>2. Ordered(q, S)
    <2>1. PICK p : Ordered(p, S)
        BY OrderExists
    <2> QED
        BY <2>1 DEF Ordered, InOrder
<1>3. q \in [1 .. k -> S]
    BY <1>2 DEF Ordered
<1>4. q \in Injection(1 .. k, S)
    <2>1. \A i, j \in 1 .. k : i # j => q[i] # q[j]
        <3>1. \A i \in 1 .. k : q[i] \in Nat
            BY <1>3
        <3> QED
            BY <1>1, <1>2, <3>1 DEF Ordered
    <2> QED
        BY <1>3, <2>1 DEF Injection, IsInjective
<1>5. q \in Surjection(1 .. k, S)
    <2>1. IsFiniteSet(1 .. k) /\ Cardinality(1 .. k) = k
        BY <1>1, FS_Interval
    <2> QED
        BY <1>4, <2>1, FS_Injection
<1>6. \A x \in S : \E i \in 1 .. k : q[i] = x
    BY <1>5 DEF Surjection
<1> QED
    BY <1>1, <1>3, <1>6

LEMMA DivisionIsUnique ==
    ASSUME NEW n \in Nat \ {0}, NEW d \in Int, NEW e \in Int,
           NEW r \in 0 .. n - 1, NEW s \in 0 .. n - 1, n * d + r = n * e + s
    PROVE  r = s
<1>1. n * (d - e) = s - r
    OBVIOUS
<1>2. d - e >= 1 => n * (d - e) >= n
    OBVIOUS
<1>3. e - d >= 1 => n * (d - e) <= -n
    OBVIOUS
<1> QED
    BY <1>1, <1>2, <1>3

LEMMA Remainder ==
    ASSUME NEW n \in Nat \ {0}, NEW d \in Int, NEW r \in 0 .. n - 1
    PROVE  (n * d + r) % n = r
<1> DEFINE a == n * d + r
<1>1. a \in Int
    OBVIOUS
<1> HIDE DEF a
<1>2. a % n \in 0 .. n - 1 /\ a \div n \in Int /\ a = n * (a \div n) + (a % n)
    BY <1>1
<1>3. PICK e \in Int, s \in 0 .. n - 1 : e = a \div n /\ s = a % n
    BY <1>2
<1>4. n * d + r = n * e + s
    BY <1>2, <1>3 DEF a
<1> QED
    BY <1>3, <1>4, DivisionIsUnique DEF a

(* Who goes round a list from any place comes to every place of it.        *)
LEMMA RoundReachesAll ==
    ASSUME NEW n \in Nat \ {0}, NEW x \in Int, NEW p \in 0 .. n - 1
    PROVE  /\ \E k \in 1 .. n : (x + k) % n = p
           /\ \A k \in Int : (x + k) % n \in 0 .. n - 1
<1>1. x \div n \in Int /\ x % n \in 0 .. n - 1 /\ x = n * (x \div n) + (x % n)
    OBVIOUS
<1>0. PICK d \in Int, r \in 0 .. n - 1 : x = n * d + r
    BY <1>1
<1>4. \A k \in Int : (x + k) % n \in 0 .. n - 1
    OBVIOUS
<1>2. CASE p > r
    <2>1. (n * d + p) % n = p
        BY Remainder
    <2> DEFINE k == p - r
    <2>2. x + k = n * d + p /\ k \in 1 .. n
        BY <1>0, <1>2
    <2> HIDE DEF k
    <2> QED
        BY <1>4, <2>1, <2>2
<1>3. CASE p <= r
    <2>1. (n * (d + 1) + p) % n = p
        BY Remainder
    <2> DEFINE k == p - r + n
    <2>2. x + k = n * (d + 1) + p /\ k \in 1 .. n
        <3>1. n * (d + 1) = n * d + n
            OBVIOUS
        <3> QED
            BY <1>0, <1>3, <3>1
    <2> HIDE DEF k
    <2> QED
        BY <1>4, <2>1, <2>2
<1> QED
    BY <1>2, <1>3

=============================================================================
