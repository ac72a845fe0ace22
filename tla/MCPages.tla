------------------------------ MODULE MCPages -------------------------------
(***************************************************************************)
(* The pages of the website and the widgets that ask the server what they  *)
(* show, for TLC, and what is proved of them.  They share no variable, and *)
(* what they share of the server is part of each module: a behaviour runs  *)
(* the one BeginPage chooses, in the variables s1, s2, ..., as the         *)
(* INSTANCEs below say.                                                    *)
(***************************************************************************)
EXTENDS Integers, Sequences, FiniteSetTheorems, SequenceTheorems, TLC, TLAPS

CONSTANTS
    None,               \* also for the other empty values of the modules
    Keys, Groups, MaxOps, MaxCalls, MaxRows, MaxAsks, MaxPosts, MaxVersion,
    Machines, Os, Page, Charged, GrayVer, Queries, Columns, DefaultHideTh, MaxLoads,
    Stored, Types, MaxUploads,  \* Stored: packages for agents
    Depth, Children, MaxAsked,
    RowCount, Sizes, MaxNum, VisiblePages, MaxRequests

VARIABLES
    active,     \* the module whose program runs
    s1, s2, s3, s4, s5, s6, s7, s8, s9, s10, s11, s12, s13
                \* its variables, and Nothing where it has fewer

all == <<active, s1, s2, s3, s4, s5, s6, s7, s8, s9, s10, s11, s12, s13>>

PortList == INSTANCE PortList WITH
    store <- s1, ipPortData <- s2, shown <- s3, idcGroupList <- s4, edit <- s5,
    chosen <- s6, calls <- s7, ops <- s8, odd <- s9
PortRows == INSTANCE PortRows WITH
    dialog <- s1, rows <- s2, count <- s3, idcGroupList <- s4, asks <- s5, posts <- s6,
    searches <- s7, store <- s8, page <- s9, touched <- s10, overtaken <- s11,
    known <- s12
AgentRelease == INSTANCE AgentRelease WITH
    isAdmin <- s1, agents <- s2, query <- s3, loads <- s4, table <- s5, cookie <- s6,
    hidden <- s7, dialog <- s8, masked <- s9, calls <- s10, reload <- s11,
    overtaken <- s12, failed <- s13
Packages == INSTANCE Packages WITH
    Packages <- Stored, type <- s1, rows <- s2, mask <- s3, calls <- s4,
    question <- s5, edit <- s6, uploadDlg <- s7, loading <- s8, open <- s9,
    reload <- s10, hurried <- s11, stuck <- s12, blank <- s13
Cascade == INSTANCE Cascade WITH
    Empty <- None, dValues <- s1, options <- s2, asked <- s3, disordered <- s4
Paging == INSTANCE Paging WITH
    Count <- RowCount, kind <- s1, pager <- s2, shown <- s3, held <- s4,
    requests <- s5, hurried <- s6

-----------------------------------------------------------------------------
(* What the values must be for the proofs.                                 *)
ASSUME PortListAssumption ==
    MaxOps \in Nat /\ MaxCalls \in Nat \ {0} /\ None \notin {"list", "none"}

ASSUME PortRowsAssumption ==
    MaxRows \in Nat /\ MaxVersion \in Nat /\ \A S \in SUBSET Groups : S # None

ASSUME AgentReleaseAssumption ==
    /\ DefaultHideTh \subseteq Columns /\ \A S \in SUBSET Columns : S # None
    /\ None \notin AgentRelease!Table

ASSUME PackagesAssumption == MaxUploads \in Nat /\ None \notin {"page", "over"}

(* A url has options only for choices it has offered, one above the other. *)
ASSUME CascadeAssumption ==
    /\ Depth \in Nat \ {0} /\ MaxAsked \in Nat \ {0}
    /\ Children \in [DOMAIN Children -> Seq(Cascade!Offered)] /\ None \notin Cascade!Offered
    /\ \A p \in DOMAIN Children : Children[p] # <<>> =>
          \A k \in DOMAIN p : p[k] \in Cascade!Range(Cascade!OptionsOf(Cascade!GetParams(p, k)))

ASSUME PagingAssumption ==
    /\ RowCount \in Nat /\ Sizes \subseteq Nat \ {0} /\ MaxNum \in Nat \ {0}
    /\ VisiblePages \in Nat /\ MaxRequests \in Nat

-----------------------------------------------------------------------------
(* For the configuration: the operating system of a machine, which also is *)
(* its page of the table; and three levels of choices, of which some have  *)
(* one option and some none.                                               *)
System == [m \in {"m1", "m2", "m3"} |-> IF m = "m3" THEN 2 ELSE 1]
Options ==
    << >> :> <<"x", "y">> @@ <<"x">> :> <<"x", "y">> @@ <<"y">> :> <<"y">>
    @@ <<"x", "x">> :> <<"y", "x">> @@ <<"x", "y">> :> <<"x">>
    @@ <<"y", "x">> :> << >> @@ <<"y", "y">> :> << >>

-----------------------------------------------------------------------------
Nothing == 0

(* The variables after the first k have no value, and keep none.           *)
Blank(k) ==
    /\ k < 5 => s5 = Nothing
    /\ k < 6 => s6 = Nothing
    /\ k < 7 => s7 = Nothing
    /\ k < 8 => s8 = Nothing
    /\ k < 9 => s9 = Nothing
    /\ k < 10 => s10 = Nothing
    /\ k < 11 => s11 = Nothing
    /\ k < 12 => s12 = Nothing
    /\ k < 13 => s13 = Nothing
Idle(k) ==
    /\ k < 5 => UNCHANGED s5
    /\ k < 6 => UNCHANGED s6
    /\ k < 7 => UNCHANGED s7
    /\ k < 8 => UNCHANGED s8
    /\ k < 9 => UNCHANGED s9
    /\ k < 10 => UNCHANGED s10
    /\ k < 11 => UNCHANGED s11
    /\ k < 12 => UNCHANGED s12
    /\ k < 13 => UNCHANGED s13

BeginPage ==
    \/ active = "PortList" /\ PortList!Init /\ Blank(9)
    \/ active = "PortRows" /\ PortRows!Init /\ Blank(12)
    \/ active = "AgentRelease" /\ AgentRelease!Init /\ Blank(13)
    \/ active = "Packages" /\ Packages!Init /\ Blank(13)
    \/ active = "Cascade" /\ Cascade!Init /\ Blank(4)
    \/ active = "Paging" /\ Paging!Init /\ Blank(6)

MovePage ==
    /\ UNCHANGED active
    /\ \/ active = "PortList" /\ PortList!Next /\ Idle(9)
       \/ active = "PortRows" /\ PortRows!Next /\ Idle(12)
       \/ active = "AgentRelease" /\ AgentRelease!Next /\ Idle(13)
       \/ active = "Packages" /\ Packages!Next /\ Idle(13)
       \/ active = "Cascade" /\ Cascade!Next /\ Idle(4)
       \/ active = "Paging" /\ Paging!Next /\ Idle(6)

Pages == BeginPage /\ [][MovePage]_all

-----------------------------------------------------------------------------
(* With nothing under way the page of ports shows what the server has, the *)
(* page of groups no less than it heard of, and the page of agents what    *)
(* was asked for last, unless answers overtook each other, the last one    *)
(* was an error, or the server changed and the page heard of no success.   *)
PageShowsStore ==
    /\ active = "PortList" => PortList!TypeOK /\ PortList!PageShowsStore
    /\ active = "PortRows" => PortRows!PageIsNewest
    /\ active = "AgentRelease" => AgentRelease!TableIsAsAsked

(* What is posted of a port is what its form was given.                    *)
PostedAsGiven ==
    /\ active = "PortRows" => PortRows!TypeOK /\ PortRows!PostedAsGiven
    /\ active = "PortList" => PortList!EditKeepsItsRow

(* The machines that are taken offline are those the user agreed to, and   *)
(* has a right to.                                                         *)
OnlyAgreedGoOffline ==
    active = "AgentRelease" => AgentRelease!TypeOK /\ AgentRelease!OnlyAgreedGoOffline

(* A page is masked exactly while the server changes something for it, or  *)
(* after what no answer follows: an upload of nothing, a lost callback.    *)
MaskedWhileCalled ==
    /\ active = "Packages" => Packages!TypeOK /\ Packages!MaskedWhileCalled
    /\ active = "AgentRelease" => AgentRelease!MaskedWhileChanging

(* Every level of a cascade offers what belongs to the choices above it.   *)
ChildrenFollow == active = "Cascade" => Cascade!TypeOK /\ Cascade!ChildrenFollow

(* The rows in a table are those of the page that its pager names.         *)
RowsMatchPage ==
    active = "Paging" => /\ Paging!TypeOK
                         /\ Paging!RowsMatchPage /\ Paging!NumbersLeadEverywhere
-----------------------------------------------------------------------------
(* The page of the ports *)
(* A call that was not answered, for the form that is there                *)
CallFits(c, e) ==
    /\ c.op = "table" /\ c.served => c.body \in PortList!Rows
    /\ c.op = "idc" => /\ c.body.n <= e.n
                       /\ c.body.n = e.n /\ ~e.picked => c.body.row = e.want
CallsFit(cs, e) == \A i \in DOMAIN cs : CallFits(cs[i], e)

(* The page was told of all.                                               *)
ToldIn(o) == "overtaken" \notin o /\ "untold" \notin o

(* What the form holds                                                     *)
FormKept(e, list, odd) ==
    /\ e.open /\ e.combo /\ e.enabled /\ list = "list" /\ "late" \notin odd => e.group = e.want
    /\ e.combo => list # None

(* The newest rows are there or come.                                      *)
IsTable(c) == c.op = "table"
IsChange(c) == c.op \in {"update", "add", "del"} /\ c.served /\ c.ok
Brings(c, st) == c.served /\ c.ok => c.body = st
RowsCome(cs, st, sh, ip) ==
    \/ \E i \in DOMAIN cs : IsChange(cs[i])
    \/ \E i \in DOMAIN cs : /\ IsTable(cs[i]) /\ Brings(cs[i], st)
                            /\ \A j \in DOMAIN cs : IsTable(cs[j]) => j <= i
    \/ (\A j \in DOMAIN cs : ~IsTable(cs[j])) /\ (sh => ip = st)

PortListTyped ==
    /\ s1 \in PortList!Rows /\ s2 \in PortList!Rows /\ s3 \in BOOLEAN
    /\ s4 \in {None, "list", "none"} /\ s6 \subseteq Keys
    /\ s8 \in 0 .. MaxOps /\ s9 \subseteq {"late", "overtaken", "untold"}
CallsTyped(cs) == cs \in Seq(PortList!Call) /\ Len(cs) <= MaxCalls
PortListCore ==
    /\ PortListTyped /\ s5 \in PortList!Form /\ CallsTyped(s7)
    /\ CallsFit(s7, s5) /\ FormKept(s5, s4, s9) /\ s5.n <= s8
    /\ ToldIn(s9) => RowsCome(s7, s1, s3, s2)

LEMMA RowsComeIsNewest == RowsCome(s7, s1, s3, s2) <=> PortList!Newest
<1>1. RowsCome(s7, s1, s3, s2) => PortList!Newest
    BY DEF RowsCome, IsTable, IsChange, Brings, PortList!Newest
<1>2. PortList!Newest => RowsCome(s7, s1, s3, s2)
    BY DEF RowsCome, IsTable, IsChange, Brings, PortList!Newest
<1> QED
    BY <1>1, <1>2

LEMMA PortListHold == PortListCore <=> PortList!Inv
<1>0. ToldIn(s9) <=> PortList!Told
    BY DEF ToldIn, PortList!Told
<1>1. RowsCome(s7, s1, s3, s2) /\ s7 = <<>> /\ s3 => s2 = s1
    BY DEF RowsCome
<1>2. PortListCore => PortList!Inv
    BY <1>0, <1>1, RowsComeIsNewest, Zenon
    DEF PortListCore, PortListTyped, CallsTyped, CallsFit, CallFits, FormKept, PortList!Inv,
        PortList!TypeOK, PortList!PageShowsStore, PortList!EditKeepsItsRow
<1>3. PortList!Inv => PortListCore
    BY <1>0, RowsComeIsNewest, Zenon
    DEF PortListCore, PortListTyped, CallsTyped, CallsFit, CallFits, FormKept, PortList!Inv,
        PortList!TypeOK, PortList!PageShowsStore, PortList!EditKeepsItsRow
<1> QED
    BY <1>2, <1>3

-----------------------------------------------------------------------------
(* The sequence of calls                                                   *)
LeftOut(w, cs, i) ==
    /\ Len(cs) \in Nat /\ DOMAIN cs = 1 .. Len(cs)
    /\ Len(w) = Len(cs) - 1 /\ DOMAIN w = 1 .. Len(w)
    /\ \A k \in DOMAIN w : LET j == IF k < i THEN k ELSE k + 1 IN
           j \in DOMAIN cs /\ j # i /\ w[k] = cs[j]
    /\ \A j \in DOMAIN cs \ {i} : LET k == IF j < i THEN j ELSE j - 1 IN
           k \in DOMAIN w /\ w[k] = cs[j]
LEMMA CallsWithout ==
    ASSUME NEW S, NEW cs \in Seq(S), NEW i \in DOMAIN cs
    PROVE  PortList!Without(cs, i) \in Seq(S) /\ LeftOut(PortList!Without(cs, i), cs, i)
<1> DEFINE w == PortList!Without(cs, i)
<1>1. Len(cs) \in Nat /\ DOMAIN cs = 1 .. Len(cs) /\ i \in 1 .. Len(cs)
    BY LenProperties
<1> DEFINE a == SubSeq(cs, 1, i - 1)
           b == SubSeq(cs, i + 1, Len(cs))
<1>2. \A k \in 1 .. Len(cs) : cs[k] \in S
    BY <1>1
<1>3. a \in Seq(S) /\ Len(a) = i - 1 /\ \A k \in 1 .. i - 1 : a[k] = cs[k]
  <2>1. 1 \in Int /\ i - 1 \in Int /\ \A k \in 1 .. i - 1 : cs[k] \in S
    BY <1>1, <1>2
  <2>2. /\ a \in Seq(S) /\ Len(a) = (IF 1 <= i - 1 THEN i - 1 - 1 + 1 ELSE 0)
        /\ \A k \in 1 .. i - 1 - 1 + 1 : a[k] = cs[1 + k - 1]
    BY <2>1, SubSeqProperties
  <2> HIDE DEF a
  <2> QED
    BY <1>1, <2>2
<1>4. b \in Seq(S) /\ Len(b) = Len(cs) - i /\ \A k \in 1 .. Len(cs) - i : b[k] = cs[k + i]
  <2>1. i + 1 \in Int /\ Len(cs) \in Int /\ \A k \in i + 1 .. Len(cs) : cs[k] \in S
    BY <1>1, <1>2
  <2>2. /\ b \in Seq(S) /\ Len(b) = (IF i + 1 <= Len(cs) THEN Len(cs) - (i + 1) + 1 ELSE 0)
        /\ \A k \in 1 .. Len(cs) - (i + 1) + 1 : b[k] = cs[i + 1 + k - 1]
    BY <2>1, SubSeqProperties
  <2> HIDE DEF b
  <2>3. \A k \in 1 .. Len(cs) - i : k \in 1 .. Len(cs) - (i + 1) + 1 /\ i + 1 + k - 1 = k + i
    BY <1>1
  <2>4. Len(b) = Len(cs) - i
    BY <1>1, <2>2
  <2> QED
    BY <2>2, <2>3, <2>4
<1>5. w = a \o b
    BY DEF PortList!Without
<1> HIDE DEF a, b, w
<1>6. /\ w \in Seq(S) /\ Len(w) = Len(a) + Len(b)
      /\ \A k \in 1 .. Len(a) + Len(b) : w[k] = IF k <= Len(a) THEN a[k] ELSE b[k - Len(a)]
    BY <1>3, <1>4, <1>5, ConcatProperties
<1>7. Len(w) = Len(cs) - 1 /\ DOMAIN w = 1 .. Len(cs) - 1
    BY <1>1, <1>3, <1>4, <1>6, LenProperties
<1>8. \A k \in 1 .. Len(cs) - 1 : w[k] = IF k < i THEN cs[k] ELSE cs[k + 1]
  <2> SUFFICES ASSUME NEW k \in 1 .. Len(cs) - 1
               PROVE  w[k] = IF k < i THEN cs[k] ELSE cs[k + 1]
    OBVIOUS
  <2>1. w[k] = IF k <= i - 1 THEN a[k] ELSE b[k - (i - 1)]
    BY <1>1, <1>3, <1>4, <1>6
  <2>2. CASE k < i
    BY <1>1, <1>3, <2>1, <2>2
  <2>3. CASE ~(k < i)
    <3>1. k - (i - 1) \in 1 .. Len(cs) - i /\ k - (i - 1) + i = k + 1
      BY <1>1, <2>3
    <3>2. b[k - (i - 1)] = cs[k - (i - 1) + i]
      BY <1>4, <3>1
    <3>3. w[k] = b[k - (i - 1)]
      BY <1>1, <2>1, <2>3
    <3> QED
      BY <2>3, <3>1, <3>2, <3>3
  <2> QED
    BY <2>2, <2>3
<1>9. \A k \in DOMAIN w : LET j == IF k < i THEN k ELSE k + 1 IN
                  j \in DOMAIN cs /\ j # i /\ w[k] = cs[j]
    BY <1>1, <1>7, <1>8
<1>10. \A j \in DOMAIN cs \ {i} : LET k == IF j < i THEN j ELSE j - 1 IN
                  k \in DOMAIN w /\ w[k] = cs[j]
  <2> SUFFICES ASSUME NEW j \in DOMAIN cs \ {i}
               PROVE  LET k == IF j < i THEN j ELSE j - 1 IN k \in DOMAIN w /\ w[k] = cs[j]
    OBVIOUS
  <2>1. CASE j < i
    BY <1>1, <1>7, <1>8, <2>1
  <2>2. CASE ~(j < i)
    <3>1. j - 1 \in 1 .. Len(cs) - 1 /\ ~(j - 1 < i) /\ j - 1 + 1 = j
      BY <1>1, <2>2
    <3> QED
      BY <1>7, <1>8, <2>2, <3>1
  <2> QED
    BY <2>1, <2>2
<1>11. LeftOut(w, cs, i)
    BY <1>1, <1>7, <1>9, <1>10 DEF LeftOut
<1> QED
    BY <1>6, <1>11 DEF w

(* A call that brings nothing new is taken out.                            *)
LEMMA TakenOut ==
    ASSUME NEW cs \in Seq(PortList!Call), NEW i \in DOMAIN cs, NEW w, w = PortList!Without(cs, i),
           ~IsTable(cs[i]), ~IsChange(cs[i]), NEW st, NEW sh, NEW ip, RowsCome(cs, st, sh, ip)
    PROVE  RowsCome(w, st, sh, ip)
<1>1. LeftOut(w, cs, i)
    BY CallsWithout
<1>2. /\ Len(cs) \in Nat /\ DOMAIN cs = 1 .. Len(cs) /\ DOMAIN w \subseteq Nat
      /\ \A k \in DOMAIN w : LET j == IF k < i THEN k ELSE k + 1 IN
             j \in DOMAIN cs /\ j # i /\ w[k] = cs[j]
      /\ \A j \in DOMAIN cs \ {i} : LET k == IF j < i THEN j ELSE j - 1 IN
             k \in DOMAIN w /\ w[k] = cs[j]
    BY <1>1 DEF LeftOut
<1>3. ASSUME NEW l \in DOMAIN cs, IsChange(cs[l]) PROVE RowsCome(w, st, sh, ip)
    BY <1>2, <1>3 DEF RowsCome
<1>4. ASSUME NEW l \in DOMAIN cs, IsTable(cs[l]), Brings(cs[l], st),
             \A j \in DOMAIN cs : IsTable(cs[j]) => j <= l
      PROVE  RowsCome(w, st, sh, ip)
  <2> DEFINE k == IF l < i THEN l ELSE l - 1
  <2>1. k \in DOMAIN w /\ w[k] = cs[l] /\ l # i
    BY <1>2, <1>4
  <2>2. \A m \in DOMAIN w : IsTable(w[m]) => m <= k
    BY <1>2, <1>4, <2>1
  <2> QED
    BY <1>4, <2>1, <2>2 DEF RowsCome
<1>5. ASSUME \A j \in DOMAIN cs : ~IsTable(cs[j]), sh => ip = st PROVE RowsCome(w, st, sh, ip)
    BY <1>2, <1>5 DEF RowsCome
<1> QED
    BY <1>3, <1>4, <1>5 DEF RowsCome

(* The answer with rows                                                    *)
LEMMA RowsTaken ==
    ASSUME NEW cs \in Seq(PortList!Call), NEW i \in DOMAIN cs, NEW w, w = PortList!Without(cs, i),
           IsTable(cs[i]), cs[i].served, \A j \in 1 .. i - 1 : ~IsTable(cs[j]),
           NEW st, NEW sh, NEW ip, RowsCome(cs, st, sh, ip)
    PROVE  RowsCome(w, st, cs[i].ok, IF cs[i].ok THEN cs[i].body ELSE ip)
<1> DEFINE ip2 == IF cs[i].ok THEN cs[i].body ELSE ip
<1>1. LeftOut(w, cs, i)
    BY CallsWithout
<1>2. /\ Len(cs) \in Nat /\ DOMAIN cs = 1 .. Len(cs) /\ DOMAIN w \subseteq Nat
      /\ \A k \in DOMAIN w : LET j == IF k < i THEN k ELSE k + 1 IN
             j \in DOMAIN cs /\ j # i /\ w[k] = cs[j]
      /\ \A j \in DOMAIN cs \ {i} : LET k == IF j < i THEN j ELSE j - 1 IN
             k \in DOMAIN w /\ w[k] = cs[j]
    BY <1>1 DEF LeftOut
<1>3. ASSUME NEW l \in DOMAIN cs, IsChange(cs[l]) PROVE RowsCome(w, st, cs[i].ok, ip2)
  <2>1. l # i
    BY <1>3 DEF IsTable, IsChange
  <2> QED
    BY <1>2, <1>3, <2>1 DEF RowsCome
<1>4. ASSUME NEW l \in DOMAIN cs, IsTable(cs[l]), Brings(cs[l], st),
             \A j \in DOMAIN cs : IsTable(cs[j]) => j <= l
      PROVE  RowsCome(w, st, cs[i].ok, ip2)
  <2>1. CASE l = i
    <3>1. \A k \in DOMAIN w : ~IsTable(w[k])
      BY <1>2, <1>4, <2>1
    <3>2. cs[i].ok => ip2 = st
      BY <1>4, <2>1 DEF Brings
    <3> QED
      BY <3>1, <3>2 DEF RowsCome
  <2>2. CASE l # i
    <3> DEFINE k == IF l < i THEN l ELSE l - 1
    <3>1. k \in DOMAIN w /\ w[k] = cs[l]
      BY <1>2, <1>4, <2>2
    <3>2. ASSUME NEW m \in DOMAIN w, IsTable(w[m]) PROVE m <= k
      <4> DEFINE j == IF m < i THEN m ELSE m + 1
      <4>1. j \in DOMAIN cs /\ IsTable(cs[j])
        BY <1>2, <3>2
      <4>2. j <= l
        BY <1>4, <4>1
      <4> QED
        BY <1>2, <2>2, <4>1, <4>2
    <3> QED
      BY <1>4, <3>1, <3>2 DEF RowsCome
  <2> QED
    BY <2>1, <2>2
<1> QED
    BY <1>3, <1>4 DEF RowsCome

(* A call is sent: one that asks for the table, or another.                *)
LEMMA CallSent ==
    ASSUME NEW cs \in Seq(PortList!Call), NEW c \in PortList!Call, NEW st, NEW sh, NEW ip
    PROVE  /\ IsTable(c) /\ ~c.served => RowsCome(Append(cs, c), st, sh, ip)
           /\ ~IsTable(c) /\ RowsCome(cs, st, sh, ip) => RowsCome(Append(cs, c), st, sh, ip)
<1> DEFINE w == Append(cs, c)
<1>1. /\ w \in Seq(PortList!Call) /\ Len(w) = Len(cs) + 1 /\ w[Len(cs) + 1] = c
      /\ \A i \in 1 .. Len(cs) : w[i] = cs[i]
    BY AppendProperties
<1>2. Len(cs) \in Nat /\ DOMAIN cs = 1 .. Len(cs) /\ DOMAIN w = 1 .. Len(cs) + 1
    BY <1>1, LenProperties
<1> HIDE DEF w
<1>3. IsTable(c) /\ ~c.served => RowsCome(w, st, sh, ip)
    BY <1>1, <1>2 DEF RowsCome, Brings
<1>4. ASSUME ~IsTable(c), RowsCome(cs, st, sh, ip) PROVE RowsCome(w, st, sh, ip)
    BY <1>1, <1>2, <1>4 DEF RowsCome
<1> QED
    BY <1>3, <1>4 DEF w

(* What a call is, when it is made and when it was served                  *)
LEMMA CallIs ==
    ASSUME NEW c \in PortList!Call
    PROVE  /\ c.op \in {"table", "idc", "update", "add", "del"} /\ c.served \in BOOLEAN /\ c.ok \in BOOLEAN
           /\ c.op = "idc" => c.body \in PortList!Asking
           /\ c.op \in {"update", "add", "del"} => c.body \in PortList!Changes
BY DEF PortList!Call

LEMMA CallMade ==
    ASSUME NEW op, NEW body,
           \/ op = "table" /\ body = None
           \/ op = "idc" /\ body \in PortList!Asking
           \/ op \in {"update", "add", "del"} /\ body \in PortList!Changes
    PROVE  \E c \in PortList!Call : /\ c.op = op /\ ~c.served /\ c.body = body
                                    /\ \A cs : PortList!Send(cs, op, body) = Append(cs, c)
<1> DEFINE c == [op |-> op, served |-> FALSE, ok |-> TRUE, body |-> body]
<1>1. c \in PortList!Call
    BY DEF PortList!Call
<1>2. \A cs : PortList!Send(cs, op, body) = Append(cs, c)
    BY DEF PortList!Send
<1>3. c.op = op /\ ~c.served /\ c.body = body
    OBVIOUS
<1> HIDE DEF c
<1> QED
    BY <1>1, <1>2, <1>3

LEMMA TableAsked ==
    \E c \in PortList!Call : /\ c.op = "table" /\ ~c.served /\ c.body = None
                             /\ \A cs : PortList!Send(cs, "table", None) = Append(cs, c)
BY CallMade

Served(c, ok, st) ==
    [c EXCEPT !.served = TRUE, !.ok = ok, !.body = IF c.op = "table" THEN st ELSE @]
LEMMA CallServed ==
    ASSUME NEW c \in PortList!Call, NEW ok \in BOOLEAN, NEW st \in PortList!Rows
    PROVE  /\ Served(c, ok, st) \in PortList!Call /\ Served(c, ok, st).op = c.op
           /\ Served(c, ok, st).served /\ Served(c, ok, st).ok = ok
           /\ Served(c, ok, st).body = IF c.op = "table" THEN st ELSE c.body
BY DEF Served, PortList!Call

LEMMA CallAppended ==
    ASSUME NEW cs, CallsTyped(cs), NEW c \in PortList!Call, NEW e, CallsFit(cs, e), CallFits(c, e),
           Len(cs) + 1 <= MaxCalls
    PROVE  CallsTyped(Append(cs, c)) /\ CallsFit(Append(cs, c), e)
<1> DEFINE w == Append(cs, c)
<1>0. cs \in Seq(PortList!Call)
    BY DEF CallsTyped
<1>1. /\ w \in Seq(PortList!Call) /\ Len(w) = Len(cs) + 1 /\ w[Len(cs) + 1] = c
      /\ \A i \in 1 .. Len(cs) : w[i] = cs[i]
    BY <1>0, AppendProperties
<1>2. Len(cs) \in Nat /\ DOMAIN cs = 1 .. Len(cs) /\ DOMAIN w = 1 .. Len(cs) + 1
    BY <1>0, <1>1, LenProperties
<1> HIDE DEF w
<1>3. CallsTyped(w)
    BY <1>1 DEF CallsTyped
<1>4. CallsFit(w, e)
    BY <1>1, <1>2 DEF CallsFit
<1> QED
    BY <1>3, <1>4 DEF w

LEMMA CallTaken ==
    ASSUME NEW cs, CallsTyped(cs), NEW i \in DOMAIN cs, NEW e, CallsFit(cs, e)
    PROVE  /\ CallsTyped(PortList!Without(cs, i)) /\ CallsFit(PortList!Without(cs, i), e)
           /\ Len(PortList!Without(cs, i)) + 1 <= MaxCalls
<1> DEFINE w == PortList!Without(cs, i)
<1>1. w \in Seq(PortList!Call) /\ LeftOut(w, cs, i)
    BY CallsWithout DEF CallsTyped
<1> HIDE DEF w
<1>2. CallsTyped(w) /\ Len(w) + 1 <= MaxCalls
    BY <1>1, PortListAssumption DEF LeftOut, CallsTyped
<1>3. CallsFit(w, e)
    BY <1>1 DEF LeftOut, CallsFit
<1> QED
    BY <1>2, <1>3 DEF w

(* The calls fit a form that is newer, chosen in, or the same.             *)
LEMMA EditNumber ==
    /\ MaxOps \in Nat
    /\ \A e \in PortList!Form : e.n \in Nat /\ e.n <= MaxOps
    /\ \A b \in PortList!Asking : b.n \in Nat
<1>1. MaxOps \in Nat
    BY PortListAssumption
<1>2. ASSUME NEW e \in PortList!Form PROVE e.n \in 0 .. MaxOps
    BY <1>2 DEF PortList!Form
<1>3. ASSUME NEW b \in PortList!Asking PROVE b.n \in 0 .. MaxOps
    BY <1>3 DEF PortList!Asking
<1>4. \A n \in 0 .. MaxOps : n \in Nat /\ n <= MaxOps
    BY <1>1
<1> QED
    BY <1>1, <1>2, <1>3, <1>4, Zenon

LEMMA FormChanged ==
    ASSUME NEW cs, CallsTyped(cs), NEW e \in PortList!Form, NEW f \in PortList!Form, CallsFit(cs, e),
           f.n > e.n \/ (f.n = e.n /\ (f.picked \/ (f.picked = e.picked /\ f.want = e.want)))
    PROVE  CallsFit(cs, f)
<1> SUFFICES ASSUME NEW i \in DOMAIN cs PROVE CallFits(cs[i], f)
    BY DEF CallsFit
<1>1. CallFits(cs[i], e)
    BY DEF CallsFit
<1>2. cs[i] \in PortList!Call
    BY LenProperties DEF CallsTyped
<1>3. cs[i].op = "idc" => cs[i].body.n \in Nat
    BY <1>2, CallIs, EditNumber, Zenon
<1>4. e.n \in Nat /\ f.n \in Nat
    BY EditNumber, Zenon
<1> QED
    BY <1>1, <1>3, <1>4 DEF CallFits

LEMMA PortListInit == PortList!Init => PortList!Inv
<1> SUFFICES ASSUME PortList!Init PROVE PortListCore
    BY PortListHold
<1>1. PICK c \in PortList!Call : c.op = "table" /\ ~c.served /\ s7 = Append(<<>>, c)
  <2>1. \E c \in PortList!Call : /\ c.op = "table" /\ ~c.served /\ c.body = None
                                  /\ \A cs : PortList!Send(cs, "table", None) = Append(cs, c)
    BY TableAsked
  <2>2. s7 = PortList!Send(<<>>, "table", None)
    BY DEF PortList!Init
  <2> QED
    BY <2>1, <2>2, Zenon
<1>2. CallsTyped(<<>>) /\ CallsFit(<<>>, s5) /\ Len(<<>>) + 1 <= MaxCalls /\ <<>> \in Seq(PortList!Call)
    BY PortListAssumption DEF CallsTyped, CallsFit
<1>3. CallsTyped(s7) /\ CallsFit(s7, s5)
    BY <1>1, <1>2, CallAppended DEF CallFits
<1>4. RowsCome(s7, s1, s3, s2)
    BY <1>1, <1>2, CallSent DEF IsTable
<1>5. PortListTyped
  <2>1. s1 \in PortList!Rows /\ s2 \in PortList!Rows
    BY DEF PortList!Init, PortList!Rows
  <2>2. s8 \in 0 .. MaxOps
    <3>1. s8 = 0
      BY DEF PortList!Init
    <3> QED
      BY <3>1, EditNumber
  <2> QED
    BY <2>1, <2>2 DEF PortList!Init, PortListTyped
<1>6. s5 \in PortList!Form /\ FormKept(s5, s4, s9) /\ s5.n <= s8
  <2>1. s5.n = 0 /\ s8 = 0 /\ ~s5.open /\ ~s5.combo
    BY DEF PortList!Init
  <2>2. 0 \in 0 .. MaxOps
    BY EditNumber
  <2>3. s5 \in PortList!Form
    BY <2>2 DEF PortList!Init, PortList!Form
  <2> QED
    BY <2>1, <2>3 DEF FormKept
<1> QED
    BY <1>3, <1>4, <1>5, <1>6 DEF PortListCore

LEMMA PortListStep == PortList!Inv /\ [PortList!Next]_(PortList!vars) => PortList!Inv'
<1> SUFFICES ASSUME PortListCore, [PortList!Next]_(PortList!vars)
             PROVE  PortListCore'
    BY PortListHold, PTL
<1>a. /\ PortListTyped /\ s5 \in PortList!Form /\ CallsTyped(s7)
      /\ CallsFit(s7, s5) /\ FormKept(s5, s4, s9) /\ s5.n <= s8
      /\ ToldIn(s9) => RowsCome(s7, s1, s3, s2)
    BY DEF PortListCore
<1>b. s7 \in Seq(PortList!Call) /\ Len(s7) \in Nat /\ DOMAIN s7 = 1 .. Len(s7)
      /\ \A i \in DOMAIN s7 : s7[i] \in PortList!Call
    BY <1>a, LenProperties DEF CallsTyped
<1>c. s5.n \in Nat /\ s8 \in Nat /\ s8 <= MaxOps
  <2>1. s8 \in 0 .. MaxOps
    BY <1>a, Zenon DEF PortListTyped
  <2> QED
    BY <1>a, <2>1, EditNumber
(* One more thing is done.                                                 *)
<1>f. s8 < MaxOps /\ s8' = s8 + 1 => s8' \in 0 .. MaxOps /\ s5.n <= s8' /\ s5.n + 1 <= s8'
                                     /\ s5.n + 1 \in 0 .. MaxOps
    BY <1>a, <1>c, EditNumber
(* A call is sent and the rows stay.                                       *)
<1>d. ASSUME NEW op \in {"idc", "update", "add", "del"}, NEW body,
             op = "idc" => body \in PortList!Asking, op # "idc" => body \in PortList!Changes,
             s7' = PortList!Send(s7, op, body), Len(s7) + 1 <= MaxCalls,
             CallsFit(s7, s5'), op = "idc" => body.n <= s5'.n /\ body.row = s5'.want,
             UNCHANGED <<s1, s2, s3, s9>>
      PROVE  /\ CallsTyped(s7') /\ CallsFit(s7', s5')
             /\ ToldIn(s9') => RowsCome(s7', s1', s3', s2')
  <2>1. PICK c \in PortList!Call : c.op = op /\ c.body = body /\ s7' = Append(s7, c)
    BY <1>d, CallMade
  <2>2. CallFits(c, s5') /\ ~IsTable(c)
    BY <1>d, <2>1 DEF CallFits, IsTable
  <2>3. CallsTyped(s7') /\ CallsFit(s7', s5')
    BY <1>a, <1>d, <2>1, <2>2, CallAppended
  <2>4. ToldIn(s9') => RowsCome(s7', s1', s3', s2')
    BY <1>a, <1>b, <1>d, <2>1, <2>2, CallSent
  <2> QED
    BY <2>3, <2>4
(* Nothing is sent and the rows stay.                                      *)
<1>e. ASSUME UNCHANGED <<s1, s2, s3, s7, s9>>, s5' \in PortList!Form, s5'.n = s5.n,
             s5'.picked \/ (s5'.picked = s5.picked /\ s5'.want = s5.want)
      PROVE  /\ CallsTyped(s7') /\ CallsFit(s7', s5')
             /\ ToldIn(s9') => RowsCome(s7', s1', s3', s2')
    BY <1>a, <1>e, FormChanged
<1>1. CASE PortList!ShowEditDialog
  <2>1. PICK k \in PortList!Has(s2) : LET row == s2[k]
                 e   == [s5 EXCEPT !.open = TRUE, !.key = k, !.enabled = row # "",
                                  !.want = row, !.n = @ + 1, !.picked = FALSE]
             IN  /\ s5' = IF s4 = None THEN e ELSE PortList!Combobox(e, s4, row)
                 /\ s7' = PortList!Send(s7, "idc", [row |-> row, n |-> e.n])
    BY <1>1 DEF PortList!ShowEditDialog
  <2>2. /\ UNCHANGED <<s1, s2, s3, s4, s6, s9>> /\ Len(s7) + 1 <= MaxCalls /\ s8 < MaxOps /\ s8' = s8 + 1
    BY <1>1 DEF PortList!ShowEditDialog, PortList!Room
  <2> DEFINE row == s2[k]
             e == [s5 EXCEPT !.open = TRUE, !.key = k, !.enabled = row # "",
                             !.want = row, !.n = @ + 1, !.picked = FALSE]
  <2>3. k \in Keys /\ row \in Groups \cup {""}
    BY <1>a DEF PortListTyped, PortList!Has, PortList!Rows
  <2>4. e.n = s5.n + 1 /\ s5.n + 1 \in 0 .. MaxOps /\ (row # "") \in BOOLEAN
    <3>1. e.n = s5.n + 1
      BY <1>a DEF PortList!Form
    <3>2. (row # "") \in BOOLEAN
      OBVIOUS
    <3> QED
      BY <1>f, <2>2, <3>1, <3>2, Zenon
  <2>5. /\ e \in PortList!Form /\ e.want = row /\ ~e.picked /\ e.combo = s5.combo
    BY <1>a, <2>3, <2>4 DEF PortList!Form
  <2> HIDE DEF e, row
  <2>6. s5' = IF s4 = None THEN e ELSE PortList!Combobox(e, s4, row)
    BY <2>1 DEF e, row
  <2>7. /\ s5' \in PortList!Form /\ s5'.n = s5.n + 1 /\ s5'.want = row
        /\ (s4 = "list" /\ s4 # None => s5'.group = row)
        /\ (s5'.combo => s4 # None)
    <3>1. CASE s4 = None
      BY <1>a, <2>4, <2>5, <2>6, <3>1 DEF FormKept
    <3>2. CASE s4 # None
      <4>1. s5' = [e EXCEPT !.combo = TRUE, !.group = IF s4 = "list" THEN row ELSE ""]
        BY <2>6, <3>2 DEF PortList!Combobox
      <4> QED
        BY <2>3, <2>4, <2>5, <3>2, <4>1 DEF PortList!Form
    <3> QED
      BY <3>1, <3>2
  <2>8. FormKept(s5', s4', s9')
    BY <2>2, <2>7, PortListAssumption DEF FormKept
  <2>9. CallsFit(s7, s5')
    BY <1>a, <1>c, <2>7, FormChanged
  <2>10. [row |-> row, n |-> s5.n + 1] \in PortList!Asking /\ s7' = PortList!Send(s7, "idc", [row |-> row, n |-> s5.n + 1])
    BY <2>1, <2>3, <2>4 DEF PortList!Asking, row, e
  <2>11. /\ CallsTyped(s7') /\ CallsFit(s7', s5')
         /\ ToldIn(s9') => RowsCome(s7', s1', s3', s2')
    <3> DEFINE b == [row |-> row, n |-> s5.n + 1]
    <3>1. b \in PortList!Asking /\ b.n <= s5'.n /\ b.row = s5'.want /\ s7' = PortList!Send(s7, "idc", b)
      BY <1>c, <2>7, <2>10
    <3> HIDE DEF b
    <3> QED
      BY <1>d, <2>2, <2>9, <3>1
  <2>12. PortListTyped' /\ s5'.n <= s8'
    <3>1. s5'.n <= s8' /\ s8' \in 0 .. MaxOps
      BY <1>f, <2>2, <2>7
    <3> QED
      BY <1>a, <2>2, <3>1, Zenon DEF PortListTyped
  <2> QED
    BY <2>7, <2>8, <2>11, <2>12 DEF PortListCore
<1>2. CASE PortList!PickGroup
  <2>1. PICK g \in Groups : s5' = [s5 EXCEPT !.group = g, !.want = g, !.picked = TRUE]
    BY <1>2 DEF PortList!PickGroup
  <2>2. UNCHANGED <<s1, s2, s3, s4, s6, s7, s8, s9>>
    BY <1>2 DEF PortList!PickGroup
  <2>3. s5' \in PortList!Form /\ s5'.group = g /\ s5'.want = g /\ s5'.picked /\ s5'.n = s5.n
        /\ s5'.combo = s5.combo
    BY <1>a, <2>1 DEF PortList!Form
  <2>4. FormKept(s5', s4', s9')
    BY <1>a, <2>2, <2>3 DEF FormKept
  <2>5. PortListTyped' /\ s5'.n <= s8'
    BY <1>a, <2>2, <2>3 DEF PortListTyped
  <2> QED
    BY <1>e, <2>2, <2>3, <2>4, <2>5 DEF PortListCore
<1>3. CASE PortList!EnableIdcGroup
  <2>1. s5' = [s5 EXCEPT !.enabled = ~@, !.picked = TRUE,
                         !.group = IF s5.enabled THEN "" ELSE @,
                         !.want  = IF s5.enabled THEN "" ELSE s5.group]
    BY <1>3 DEF PortList!EnableIdcGroup
  <2>2. UNCHANGED <<s1, s2, s3, s4, s6, s7, s8, s9>>
    BY <1>3 DEF PortList!EnableIdcGroup
  <2>3. s5' \in PortList!Form /\ s5'.group = s5'.want /\ s5'.picked /\ s5'.n = s5.n
        /\ s5'.combo = s5.combo
    BY <1>a, <2>1 DEF PortList!Form
  <2>4. FormKept(s5', s4', s9')
    BY <1>a, <2>2, <2>3 DEF FormKept
  <2>5. PortListTyped' /\ s5'.n <= s8'
    BY <1>a, <2>2, <2>3 DEF PortListTyped
  <2> QED
    BY <1>e, <2>2, <2>3, <2>4, <2>5 DEF PortListCore
<1>4. CASE PortList!ConfirmEdit
  <2>1. /\ UNCHANGED <<s1, s2, s3, s4, s5, s6, s9>> /\ Len(s7) + 1 <= MaxCalls /\ s8 < MaxOps /\ s8' = s8 + 1
        /\ s7' = PortList!Send(s7, "update",
                     [k \in {s5.key} |-> IF s5.enabled THEN s5.group ELSE ""])
    BY <1>4 DEF PortList!ConfirmEdit, PortList!Room
  <2> DEFINE b == [k \in {s5.key} |-> IF s5.enabled THEN s5.group ELSE ""]
  <2>2. b \in PortList!Changes
    <3>1. s5.key \in Keys \cup {None} /\ s5.group \in Groups \cup {""}
      BY <1>a DEF PortList!Form
    <3>2. {s5.key} \in SUBSET (Keys \cup {None}) /\ b \in [{s5.key} -> Groups \cup {"", None}]
      BY <3>1
    <3> HIDE DEF b
    <3> QED
      BY <3>2 DEF PortList!Changes
  <2> HIDE DEF b
  <2>3. s7' = PortList!Send(s7, "update", b) /\ "update" # "idc" /\ CallsFit(s7, s5')
    BY <1>a, <2>1 DEF b
  <2>4. /\ CallsTyped(s7') /\ CallsFit(s7', s5')
        /\ ToldIn(s9') => RowsCome(s7', s1', s3', s2')
    BY <1>d, <2>1, <2>2, <2>3
  <2>5. PortListTyped' /\ s5'.n <= s8' /\ FormKept(s5', s4', s9') /\ s5' \in PortList!Form
    BY <1>a, <1>f, <2>1 DEF PortListTyped
  <2> QED
    BY <2>4, <2>5 DEF PortListCore
<1>5. CASE PortList!Cancel
  <2>1. /\ UNCHANGED <<s1, s2, s3, s4, s7, s8, s9>> /\ s6' \subseteq Keys
        /\ s5' = [s5 EXCEPT !.open = FALSE] \/ s5' = s5
    BY <1>a, <1>5 DEF PortList!Cancel, PortListTyped
  <2>2. /\ s5' \in PortList!Form /\ s5'.n = s5.n /\ s5'.combo = s5.combo /\ s5'.picked = s5.picked
        /\ s5'.want = s5.want /\ s5'.group = s5.group /\ s5'.enabled = s5.enabled
        /\ s5'.open => s5.open
    BY <1>a, <2>1 DEF PortList!Form
  <2>3. FormKept(s5', s4', s9')
    BY <1>a, <2>1, <2>2 DEF FormKept
  <2>4. PortListTyped' /\ s5'.n <= s8'
    BY <1>a, <2>1, <2>2 DEF PortListTyped
  <2> QED
    BY <1>e, <2>1, <2>2, <2>3, <2>4 DEF PortListCore
<1>6. CASE PortList!AddPort
  <2>1. PICK k \in Keys, g \in Groups : s7' = PortList!Send(s7, "add", [r \in {k} |-> g])
    BY <1>6 DEF PortList!AddPort
  <2>2. /\ UNCHANGED <<s1, s2, s3, s4, s5, s6, s9>> /\ Len(s7) + 1 <= MaxCalls /\ s8 < MaxOps /\ s8' = s8 + 1
    BY <1>6 DEF PortList!AddPort, PortList!Room
  <2> DEFINE b == [r \in {k} |-> g]
  <2>3. b \in PortList!Changes
    <3>1. {k} \in SUBSET (Keys \cup {None}) /\ b \in [{k} -> Groups \cup {"", None}]
      OBVIOUS
    <3> HIDE DEF b
    <3> QED
      BY <3>1 DEF PortList!Changes
  <2> HIDE DEF b
  <2>4. s7' = PortList!Send(s7, "add", b) /\ "add" # "idc" /\ CallsFit(s7, s5')
    BY <1>a, <2>1, <2>2 DEF b
  <2>5. /\ CallsTyped(s7') /\ CallsFit(s7', s5')
        /\ ToldIn(s9') => RowsCome(s7', s1', s3', s2')
    BY <1>d, <2>2, <2>3, <2>4
  <2>6. PortListTyped' /\ s5'.n <= s8' /\ FormKept(s5', s4', s9') /\ s5' \in PortList!Form
    BY <1>a, <1>f, <2>2 DEF PortListTyped
  <2> QED
    BY <2>5, <2>6 DEF PortListCore
<1>7. CASE PortList!DoDel
  <2>1. /\ UNCHANGED <<s1, s2, s3, s4, s5, s7, s9>> /\ s8 < MaxOps /\ s8' = s8 + 1
        /\ s6' \subseteq Keys
    BY <1>7 DEF PortList!DoDel, PortList!Room, PortList!Has
  <2>2. PortListTyped' /\ s5'.n <= s8' /\ FormKept(s5', s4', s9') /\ s5' \in PortList!Form
    BY <1>a, <1>f, <2>1 DEF PortListTyped
  <2> QED
    BY <1>e, <2>1, <2>2 DEF PortListCore
<1>8. CASE PortList!ConfirmDel
  <2>1. /\ UNCHANGED <<s1, s2, s3, s4, s5, s8, s9>> /\ Len(s7) < MaxCalls /\ s6' = {}
        /\ s7' = PortList!Send(s7, "del", [k \in s6 \cap PortList!Has(s2) |-> None])
    BY <1>8 DEF PortList!ConfirmDel
  <2> DEFINE b == [k \in s6 \cap PortList!Has(s2) |-> None]
  <2>2. b \in PortList!Changes
    <3>1. s6 \cap PortList!Has(s2) \in SUBSET (Keys \cup {None})
      BY <1>a DEF PortListTyped
    <3>2. b \in [s6 \cap PortList!Has(s2) -> Groups \cup {"", None}]
      OBVIOUS
    <3> HIDE DEF b
    <3> QED
      BY <3>1, <3>2 DEF PortList!Changes
  <2> HIDE DEF b
  <2>3. s7' = PortList!Send(s7, "del", b) /\ "del" # "idc" /\ CallsFit(s7, s5') /\ Len(s7) + 1 <= MaxCalls
    BY <1>a, <1>b, <2>1, PortListAssumption DEF b
  <2>4. /\ CallsTyped(s7') /\ CallsFit(s7', s5')
        /\ ToldIn(s9') => RowsCome(s7', s1', s3', s2')
    BY <1>d, <2>1, <2>2, <2>3
  <2>5. PortListTyped' /\ s5'.n <= s8' /\ FormKept(s5', s4', s9') /\ s5' \in PortList!Form
    BY <1>a, <1>f, <2>1 DEF PortListTyped
  <2> QED
    BY <2>4, <2>5 DEF PortListCore
<1>9. CASE PortList!Read
  <2>1. PICK i \in DOMAIN s7, ok \in BOOLEAN :
            /\ ~s7[i].served /\ s7[i].op \in {"table", "idc"}
            /\ s7' = [s7 EXCEPT ![i].served = TRUE, ![i].ok = ok,
                                ![i].body = IF s7[i].op = "table" THEN s1 ELSE @]
            /\ s9' = s9 \ {o \in {"untold"} : /\ s7[i].op = "table"
                                              /\ \A j \in DOMAIN s7 : s7[j].op = "table" => j <= i}
    BY <1>9 DEF PortList!Read
  <2>2. UNCHANGED <<s1, s2, s3, s4, s5, s6, s8>>
    BY <1>9 DEF PortList!Read
  <2> DEFINE r == Served(s7[i], ok, s1)
  <2>3. s7' = [s7 EXCEPT ![i] = r]
    BY <1>b, <2>1 DEF Served
  <2>4. s1 \in PortList!Rows /\ s7[i] \in PortList!Call
    BY <1>a, <1>b DEF PortListTyped
  <2>5. /\ r \in PortList!Call /\ r.op = s7[i].op /\ r.served /\ r.ok = ok
        /\ r.body = IF s7[i].op = "table" THEN s1 ELSE s7[i].body
    BY <2>4, CallServed
  <2> HIDE DEF r
  <2>6. /\ s7' \in Seq(PortList!Call) /\ Len(s7') = Len(s7) /\ DOMAIN s7' = DOMAIN s7
        /\ s7'[i] = r /\ \A j \in DOMAIN s7 : j # i => s7'[j] = s7[j]
    BY <1>b, <2>3, <2>5, ExceptSeq
  <2>7. CallsTyped(s7') /\ CallsFit(s7', s5')
    <3>1. CallFits(r, s5)
      BY <1>a, <2>4, <2>5 DEF CallsFit, CallFits
    <3> QED
      BY <1>a, <2>2, <2>6, <3>1 DEF CallsTyped, CallsFit
  <2>8. \A j \in DOMAIN s7 : /\ IsTable(s7'[j]) <=> IsTable(s7[j])
                             /\ IsChange(s7[j]) => IsChange(s7'[j])
                             /\ IsTable(s7[j]) /\ Brings(s7[j], s1) => Brings(s7'[j], s1)
    BY <2>1, <2>5, <2>6 DEF IsTable, IsChange, Brings
  <2>9. RowsCome(s7, s1, s3, s2) => RowsCome(s7', s1', s3', s2')
    BY <2>2, <2>6, <2>8 DEF RowsCome
  <2>10. ToldIn(s9') => RowsCome(s7', s1', s3', s2')
    <3>1. CASE IsTable(s7[i]) /\ \A j \in DOMAIN s7 : IsTable(s7[j]) => j <= i
      <4>1. IsTable(s7'[i]) /\ Brings(s7'[i], s1')
        BY <2>2, <2>5, <2>6, <2>8, <3>1 DEF IsTable, Brings
      <4>2. \A j \in DOMAIN s7' : IsTable(s7'[j]) => j <= i
        BY <2>6, <2>8, <3>1
      <4> QED
        BY <2>6, <4>1, <4>2 DEF RowsCome
    <3>2. CASE ~(IsTable(s7[i]) /\ \A j \in DOMAIN s7 : IsTable(s7[j]) => j <= i)
      <4>1. ToldIn(s9') => ToldIn(s9)
        BY <2>1, <3>2 DEF IsTable, ToldIn
      <4> QED
        BY <1>a, <2>9, <4>1
    <3> QED
      BY <3>1, <3>2
  <2>11. FormKept(s5', s4', s9') /\ s9' \subseteq {"late", "overtaken", "untold"}
    <3>1. s9' \subseteq {"late", "overtaken", "untold"} /\ ("late" \in s9' <=> "late" \in s9)
      BY <1>a, <2>1 DEF PortListTyped
    <3> QED
      BY <1>a, <2>2, <3>1 DEF FormKept
  <2>12. PortListTyped' /\ s5'.n <= s8' /\ s5' \in PortList!Form
    BY <1>a, <2>2, <2>11, Zenon DEF PortListTyped
  <2> QED
    BY <2>7, <2>10, <2>11, <2>12 DEF PortListCore
<1>10. CASE PortList!Write
  <2>1. PICK i \in DOMAIN s7, ok \in BOOLEAN, done \in SUBSET Keys :
            /\ ~s7[i].served /\ s7[i].op \in {"update", "add", "del"}
            /\ done \subseteq DOMAIN s7[i].body
            /\ s1' = PortList!Written(s7[i].body, done)
            /\ s7' = [s7 EXCEPT ![i].served = TRUE, ![i].ok = ok]
            /\ s9' = s9 \cup {o \in {"untold"} : ~ok /\ s1' # s1}
    BY <1>10, Zenon DEF PortList!Write
  <2>2. UNCHANGED <<s2, s3, s4, s5, s6, s8>>
    BY <1>10 DEF PortList!Write
  <2> DEFINE r == Served(s7[i], ok, s1)
  <2>4. s1 \in PortList!Rows /\ s7[i] \in PortList!Call
    BY <1>a, <1>b DEF PortListTyped
  <2>3. s7' = [s7 EXCEPT ![i] = r]
    <3>1. r = [s7[i] EXCEPT !.served = TRUE, !.ok = ok]
      BY <2>1, <2>4 DEF Served, PortList!Call
    <3> HIDE DEF r
    <3> QED
      BY <1>b, <2>1, <3>1
  <2>5. /\ r \in PortList!Call /\ r.op = s7[i].op /\ r.served /\ r.ok = ok /\ r.body = s7[i].body
    BY <2>1, <2>4, CallServed
  <2> HIDE DEF r
  <2>6. /\ s7' \in Seq(PortList!Call) /\ Len(s7') = Len(s7) /\ DOMAIN s7' = DOMAIN s7
        /\ s7'[i] = r /\ \A j \in DOMAIN s7 : j # i => s7'[j] = s7[j]
    BY <1>b, <2>3, <2>5, ExceptSeq
  <2>7. CallsTyped(s7') /\ CallsFit(s7', s5')
    <3>1. CallFits(r, s5)
      BY <1>a, <2>1, <2>4, <2>5 DEF CallsFit, CallFits
    <3> QED
      BY <1>a, <2>2, <2>6, <3>1 DEF CallsTyped, CallsFit
  <2>8. s1' \in PortList!Rows
    <3>1. s7[i].body \in PortList!Changes
      BY <2>1, <2>4, CallIs
    <3>2. PICK ks \in SUBSET (Keys \cup {None}) : s7[i].body \in [ks -> Groups \cup {"", None}]
      BY <3>1 DEF PortList!Changes
    <3>3. \A k \in done : s7[i].body[k] \in Groups \cup {"", None}
      BY <2>1, <3>2
    <3> QED
      BY <2>1, <2>4, <3>3 DEF PortList!Rows, PortList!Written
  <2>9. ToldIn(s9') => RowsCome(s7', s1', s3', s2')
    <3>1. CASE ok
      BY <2>1, <2>5, <2>6, <3>1 DEF RowsCome, IsChange
    <3>2. CASE ~ok /\ s1' = s1
      <4>1. ToldIn(s9') => ToldIn(s9)
        BY <2>1 DEF ToldIn
      <4>2. \A j \in DOMAIN s7 : /\ IsTable(s7'[j]) <=> IsTable(s7[j])
                                 /\ IsChange(s7[j]) => IsChange(s7'[j])
                                 /\ IsTable(s7[j]) /\ Brings(s7[j], s1) => Brings(s7'[j], s1)
        BY <2>1, <2>5, <2>6 DEF IsTable, IsChange, Brings
      <4>3. RowsCome(s7, s1, s3, s2) => RowsCome(s7', s1', s3', s2')
        BY <2>2, <2>6, <3>2, <4>2 DEF RowsCome
      <4> QED
        BY <1>a, <4>1, <4>3
    <3>3. CASE ~ok /\ s1' # s1
      BY <2>1, <3>3 DEF ToldIn
    <3> QED
      BY <3>1, <3>2, <3>3
  <2>10. FormKept(s5', s4', s9') /\ s9' \subseteq {"late", "overtaken", "untold"}
    <3>1. s9' \subseteq {"late", "overtaken", "untold"} /\ ("late" \in s9' <=> "late" \in s9)
      BY <1>a, <2>1 DEF PortListTyped
    <3> QED
      BY <1>a, <2>2, <3>1 DEF FormKept
  <2>11. PortListTyped' /\ s5'.n <= s8' /\ s5' \in PortList!Form
    BY <1>a, <2>2, <2>8, <2>10, Zenon DEF PortListTyped
  <2> QED
    BY <2>7, <2>9, <2>10, <2>11 DEF PortListCore
<1>14. CASE PortList!StoreChanges
  <2>1. PICK k \in Keys : \E row \in (Groups \cup {"", None}) \ {s1[k]} : s1' = [s1 EXCEPT ![k] = row]
    BY <1>14 DEF PortList!StoreChanges
  <2>2. /\ UNCHANGED <<s2, s3, s4, s5, s6, s7>> /\ s9' = s9 \cup {"untold"}
        /\ s8 < MaxOps /\ s8' = s8 + 1
    BY <1>14 DEF PortList!StoreChanges, PortList!Room
  <2>3. s1' \in PortList!Rows
    BY <1>a, <2>1 DEF PortListTyped, PortList!Rows
  <2>4. ~ToldIn(s9')
    BY <2>2 DEF ToldIn
  <2>5. FormKept(s5', s4', s9') /\ s9' \subseteq {"late", "overtaken", "untold"}
    <3>1. s9' \subseteq {"late", "overtaken", "untold"} /\ ("late" \in s9' <=> "late" \in s9)
      BY <1>a, <2>2 DEF PortListTyped
    <3> QED
      BY <1>a, <2>2, <3>1 DEF FormKept
  <2>6. s8' \in 0 .. MaxOps /\ s5'.n <= s8'
    BY <1>f, <2>2
  <2>7. PortListTyped' /\ s5' \in PortList!Form
    BY <1>a, <2>2, <2>3, <2>5, <2>6, Zenon DEF PortListTyped
  <2> QED
    BY <1>a, <2>2, <2>4, <2>5, <2>6, <2>7 DEF PortListCore
<1>11. CASE PortList!TableCame
  <2>1. PICK i \in DOMAIN s7 :
            /\ s7[i].op = "table" /\ s7[i].served
            /\ s7' = PortList!Without(s7, i) /\ s3' = s7[i].ok
            /\ s2' = IF s7[i].ok THEN s7[i].body ELSE s2
            /\ s9' = s9 \cup {o \in {"overtaken"} : \E j \in 1 .. i - 1 : s7[j].op = "table"}
    BY <1>11 DEF PortList!TableCame, PortList!Answered
  <2>2. UNCHANGED <<s1, s4, s5, s6, s8>>
    BY <1>11 DEF PortList!TableCame
  <2>3. CallsTyped(s7') /\ CallsFit(s7', s5')
    BY <1>a, <2>1, <2>2, CallTaken
  <2>4. ToldIn(s9') => RowsCome(s7', s1', s3', s2')
    <3> SUFFICES ASSUME ToldIn(s9') PROVE RowsCome(s7', s1', s3', s2')
      OBVIOUS
    <3>1. ToldIn(s9) /\ \A j \in 1 .. i - 1 : ~IsTable(s7[j])
      BY <2>1 DEF IsTable, ToldIn
    <3>2. IsTable(s7[i])
      BY <2>1 DEF IsTable
    <3>3. RowsCome(s7', s1, s7[i].ok, IF s7[i].ok THEN s7[i].body ELSE s2)
      BY <1>a, <1>b, <2>1, <3>1, <3>2, RowsTaken
    <3> QED
      BY <2>1, <2>2, <3>3, Zenon
  <2>5. s2' \in PortList!Rows /\ s3' \in BOOLEAN /\ s9' \subseteq {"late", "overtaken", "untold"}
    <3>1. s2' \in PortList!Rows
      BY <1>a, <2>1 DEF PortListTyped, CallsFit, CallFits
    <3>2. s3' \in BOOLEAN
      BY <1>b, <2>1, CallIs, Zenon
    <3>3. s9' \subseteq {"late", "overtaken", "untold"}
      BY <1>a, <2>1 DEF PortListTyped
    <3> QED
      BY <3>1, <3>2, <3>3
  <2>6. FormKept(s5', s4', s9')
    BY <1>a, <2>1, <2>2 DEF FormKept
  <2>7. PortListTyped' /\ s5'.n <= s8' /\ s5' \in PortList!Form
    BY <1>a, <2>2, <2>5, Zenon DEF PortListTyped
  <2> QED
    BY <2>3, <2>4, <2>6, <2>7 DEF PortListCore
<1>12. CASE PortList!ListCame
  <2>1. PICK i \in DOMAIN s7 :
            /\ s7[i].op = "idc" /\ s7' = PortList!Without(s7, i)
            /\ s4' = IF s7[i].ok THEN "list" ELSE "none"
            /\ s5' = PortList!Combobox(s5, s4', s7[i].body.row)
            /\ s9' = s9 \cup {o \in {"late"} : s5.open /\ (s7[i].body.n # s5.n \/ s5.picked)}
    BY <1>12 DEF PortList!ListCame, PortList!Answered
  <2>2. UNCHANGED <<s1, s2, s3, s6, s8>>
    BY <1>12 DEF PortList!ListCame
  <2> DEFINE row == s7[i].body.row
  <2>3. row \in Groups \cup {""}
    BY <1>b, <2>1, CallIs DEF PortList!Asking
  <2>4. s7[i].body.n = s5.n /\ ~s5.picked => row = s5.want
    BY <1>a, <2>1 DEF CallsFit, CallFits
  <2>5. s5' = [s5 EXCEPT !.combo = TRUE, !.group = IF s4' = "list" THEN row ELSE ""]
    BY <2>1 DEF PortList!Combobox
  <2>6. /\ s5' \in PortList!Form /\ s5'.n = s5.n /\ s5'.picked = s5.picked /\ s5'.want = s5.want
        /\ s5'.open = s5.open /\ (s4' = "list" => s5'.group = row)
    BY <1>a, <2>3, <2>5 DEF PortList!Form
  <2>7. s5.open /\ "late" \notin s9' => row = s5.want
    <3> HIDE DEF row
    <3> SUFFICES ASSUME s5.open, "late" \notin s9' PROVE row = s5.want
      OBVIOUS
    <3>1. s7[i].body.n = s5.n /\ ~s5.picked
      BY <2>1
    <3> QED
      BY <2>4, <3>1
  <2>8. FormKept(s5', s4', s9')
    BY <2>1, <2>6, <2>7, PortListAssumption DEF FormKept
  <2>9. CallsFit(s7, s5')
    BY <1>a, <2>6, FormChanged
  <2>10. CallsTyped(s7') /\ CallsFit(s7', s5')
    BY <1>a, <2>1, <2>9, CallTaken
  <2>11. ToldIn(s9') => RowsCome(s7', s1', s3', s2')
    <3>1. ToldIn(s9') => ToldIn(s9)
      BY <2>1 DEF ToldIn
    <3>2. ~IsTable(s7[i]) /\ ~IsChange(s7[i])
      BY <2>1 DEF IsTable, IsChange
    <3> QED
      BY <1>a, <1>b, <2>1, <2>2, <3>1, <3>2, TakenOut
  <2>12. PortListTyped' /\ s5'.n <= s8'
    <3>1. s4' \in {None, "list", "none"} /\ s9' \subseteq {"late", "overtaken", "untold"}
      BY <1>a, <2>1 DEF PortListTyped
    <3> QED
      BY <1>a, <2>2, <2>6, <3>1, Zenon DEF PortListTyped
  <2> QED
    BY <2>6, <2>8, <2>10, <2>11, <2>12 DEF PortListCore
<1>13. CASE PortList!SubmitCame
  <2>1. PICK i \in DOMAIN s7 :
            /\ s7[i].op \in {"update", "add", "del"} /\ s7[i].served
            /\ s7' = IF s7[i].ok THEN PortList!Send(PortList!Without(s7, i), "table", None)
                     ELSE PortList!Without(s7, i)
            /\ s5' = [s5 EXCEPT !.open = @ /\ ~(s7[i].ok /\ s7[i].op = "update")]
    BY <1>13 DEF PortList!SubmitCame
  <2>2. UNCHANGED <<s1, s2, s3, s4, s6, s8, s9>>
    BY <1>13 DEF PortList!SubmitCame
  <2>3. (s5.open /\ ~(s7[i].ok /\ s7[i].op = "update")) \in BOOLEAN
    OBVIOUS
  <2>4. /\ s5' \in PortList!Form /\ s5'.n = s5.n /\ s5'.combo = s5.combo /\ s5'.picked = s5.picked
        /\ s5'.want = s5.want /\ s5'.group = s5.group /\ s5'.enabled = s5.enabled
        /\ s5'.open => s5.open
    BY <1>a, <2>1, <2>3 DEF PortList!Form
  <2>5. FormKept(s5', s4', s9')
    BY <1>a, <2>2, <2>4 DEF FormKept
  <2>6. CallsFit(s7, s5')
    BY <1>a, <2>4, FormChanged
  <2> DEFINE w == PortList!Without(s7, i)
  <2>7. CallsTyped(w) /\ CallsFit(w, s5') /\ Len(w) + 1 <= MaxCalls
    BY <1>a, <2>6, CallTaken
  <2>8. ASSUME s7[i].ok
        PROVE  /\ CallsTyped(s7') /\ CallsFit(s7', s5')
               /\ ToldIn(s9') => RowsCome(s7', s1', s3', s2')
    <3> HIDE DEF w
    <3>1. \E c \in PortList!Call : /\ c.op = "table" /\ ~c.served /\ c.body = None
                                   /\ \A cs : PortList!Send(cs, "table", None) = Append(cs, c)
      BY TableAsked
    <3>2. PICK c \in PortList!Call : c.op = "table" /\ ~c.served /\ s7' = Append(w, c)
      BY <2>1, <2>8, <3>1 DEF w
    <3>3. CallFits(c, s5') /\ IsTable(c)
      BY <3>2 DEF CallFits, IsTable
    <3>4. CallsTyped(s7') /\ CallsFit(s7', s5')
      BY <2>7, <3>2, <3>3, CallAppended
    <3>5. w \in Seq(PortList!Call)
      BY <2>7 DEF CallsTyped
    <3>6. RowsCome(s7', s1', s3', s2')
      BY <3>2, <3>3, <3>5, CallSent
    <3> QED
      BY <3>4, <3>6
  <2>9. ASSUME ~s7[i].ok
        PROVE  /\ CallsTyped(s7') /\ CallsFit(s7', s5')
               /\ ToldIn(s9') => RowsCome(s7', s1', s3', s2')
    <3>1. ~IsTable(s7[i]) /\ ~IsChange(s7[i])
      BY <2>1, <2>9 DEF IsTable, IsChange
    <3> QED
      BY <1>a, <1>b, <2>1, <2>2, <2>7, <2>9, <3>1, TakenOut
  <2>10. PortListTyped' /\ s5'.n <= s8'
    BY <1>a, <2>2, <2>4, Zenon DEF PortListTyped
  <2> QED
    BY <2>4, <2>5, <2>8, <2>9, <2>10 DEF PortListCore
<1>15. CASE UNCHANGED PortList!vars
  <2>1. UNCHANGED <<s1, s2, s3, s4, s5, s6, s7, s8, s9>>
    BY <1>15 DEF PortList!vars
  <2> QED
    BY <1>a, <2>1 DEF PortListCore, PortListTyped
<1> QED
    BY <1>1, <1>2, <1>3, <1>4, <1>5, <1>6, <1>7, <1>8, <1>9, <1>10, <1>11, <1>12, <1>13, <1>14, <1>15
    DEF PortList!Next
-----------------------------------------------------------------------------
(* The page of the service groups *)
LEMMA PortRowsBounds == MaxRows \in Nat /\ MaxVersion \in Nat
    BY PortRowsAssumption

(* What a row's group may be                                               *)
Given == Groups \cup {""}

(* A row of the form, and the form                                         *)
RowFits(i, r, list, asks, changed) ==
    /\ r.made => list # None
    /\ ~r.made => \E a \in asks : a.row = i
    /\ i \notin changed => PortRows!AsGiven(r) /\ \A a \in asks : a.row = i => a.value = r.want
FormFits(rows, n, list, asks, changed) ==
    /\ \A i \in DOMAIN rows : i <= n /\ RowFits(i, rows[i], list, asks, changed)
    /\ \A a \in asks : a.row <= n
    /\ \A i \in changed : i <= n

(* The last known version is on the page or asked for.                     *)
NewestIsAsked ==
    /\ s7 \subseteq 0 .. s12
    /\ ~s11 => s12 \in s7 \/ (s7 = {} /\ s9 \in (s12 .. s8) \cup {None})

(* What every variable is                                                  *)
FormTyped(rows, n, list, asks, changed) ==
    /\ n \in 0 .. MaxRows
    /\ DOMAIN rows \subseteq 1 .. MaxRows /\ \A i \in DOMAIN rows : rows[i] \in PortRows!Row
    /\ list # None => list \subseteq Groups
    /\ asks \subseteq [row : 1 .. MaxRows, value : Given] /\ changed \subseteq 1 .. MaxRows
PageTyped(searches, store, page, overtaken, known) ==
    /\ store \in 0 .. MaxVersion /\ page \in 0 .. store \cup {None} /\ overtaken \in BOOLEAN
    /\ searches \subseteq 0 .. MaxVersion /\ known \in 0 .. store
RowsCore ==
    /\ s1 \in {None, "group", "module"} /\ FormTyped(s2, s3, s4, s5, s10) /\ PageTyped(s7, s8, s9, s11, s12)
    /\ PortRows!PostedAsGiven /\ FormFits(s2, s3, s4, s5, s10) /\ NewestIsAsked

LEMMA PortRowsHold == RowsCore <=> PortRows!Inv
<1>1. /\ s1 \in {None, "group", "module"}
      /\ FormTyped(s2, s3, s4, s5, s10) /\ PageTyped(s7, s8, s9, s11, s12)
      <=> PortRows!TypeOK
    BY PortRowsAssumption DEF FormTyped, PageTyped, PortRows!TypeOK, PortRows!Ids, Given
<1>2. NewestIsAsked => PortRows!PageIsNewest
    BY DEF NewestIsAsked, PortRows!PageIsNewest
<1> QED
    BY <1>1, <1>2, Zenon
    DEF RowsCore, FormFits, RowFits, NewestIsAsked, PortRows!Inv, PortRows!Asked

LEMMA PortRowsInit == PortRows!Init => PortRows!Inv
<1> SUFFICES ASSUME PortRows!Init PROVE RowsCore
    BY PortRowsHold
<1>1. s2 = <<>> /\ DOMAIN s2 = {}
    BY DEF PortRows!Init
<1>2. FormTyped(s2, s3, s4, s5, s10) /\ FormFits(s2, s3, s4, s5, s10)
    BY <1>1, PortRowsAssumption DEF PortRows!Init, FormTyped, FormFits
<1>3. s7 = {0} /\ s8 = 0 /\ s9 = None /\ s11 = FALSE /\ s12 = 0
    BY DEF PortRows!Init
<1>8. s9 \in 0 .. s8 \cup {None}
    BY <1>3, Zenon
<1>9. s7 \subseteq 0 .. MaxVersion /\ s8 \in 0 .. MaxVersion /\ s12 \in 0 .. s8
    BY <1>3, PortRowsBounds
<1>5. PageTyped(s7, s8, s9, s11, s12)
    BY <1>3, <1>8, <1>9, Zenon DEF PageTyped
<1>6. NewestIsAsked
    BY <1>3 DEF NewestIsAsked
<1>7. s1 = None
    BY DEF PortRows!Init
<1>4. PortRows!PostedAsGiven
    BY DEF PortRows!Init, PortRows!PostedAsGiven
<1> QED
    BY <1>2, <1>4, <1>5, <1>6, <1>7 DEF RowsCore

(* A combobox made of a row                                                *)
MadeOf(c, r, value) ==
    /\ c \in PortRows!Row /\ c.made /\ c.on = r.on /\ c.disabled = r.disabled
    /\ c.want = r.want /\ c.text = c.group /\ (c.group = value \/ c.group = "")
LEMMA ComboboxMade ==
    ASSUME NEW r \in PortRows!Row, NEW list \in SUBSET Groups, NEW value \in Given
    PROVE  MadeOf(PortRows!Combobox(r, list, value), r, value)
BY DEF PortRows!Combobox, PortRows!Row, Given, MadeOf

(* One row of the form is changed, which was waiting or fits all the same. *)
LEMMA RowChanged ==
    ASSUME NEW i \in DOMAIN s2, NEW r \in PortRows!Row,
           FormTyped(s2, s3, s4, s5, s10), FormFits(s2, s3, s4, s5, s10),
           s2' = [s2 EXCEPT ![i] = r], s10 \subseteq s10', s10' \subseteq s10 \cup {i},
           RowFits(i, r, s4, s5, s10')
    PROVE  FormTyped(s2', s3, s4, s5, s10') /\ FormFits(s2', s3, s4, s5, s10')
<1>1. DOMAIN s2' = DOMAIN s2 /\ s2'[i] = r /\ \A j \in DOMAIN s2 : j # i => s2'[j] = s2[j]
    OBVIOUS
<1>2. i \in 1 .. MaxRows /\ i <= s3
    BY DEF FormTyped, FormFits
<1>3. \A j \in DOMAIN s2 : RowFits(j, s2'[j], s4, s5, s10')
    BY <1>1 DEF FormFits, RowFits
<1> QED
    BY <1>1, <1>2, <1>3 DEF FormTyped, FormFits

(* A row without an IDC group begins with none, or the row is changed.     *)
BeginsWell(i, on, value, changed) == ~on => value = "" \/ i \in changed

(* addPortConfTr keeps the rows it adds one to.                            *)
LEMMA RowAdded ==
    ASSUME NEW STATE others, others = s2 \/ DOMAIN others = {},
           NEW STATE key, key \in Keys \cup {None},
           NEW STATE on, on \in BOOLEAN, NEW STATE value, value \in Given,
           PortRows!AddPortConfTr(others, key, on, value),
           FormTyped(s2, s3, s4, s5, s10), FormFits(s2, s3, s4, s5, s10),
           s10 \subseteq s10', s10' \subseteq s10 \cup {s3'},
           BeginsWell(s3', on, value, s10')
    PROVE  FormTyped(s2', s3', s4, s5', s10') /\ FormFits(s2', s3', s4, s5', s10')
<1>1. s3' = s3 + 1 /\ s3 < MaxRows /\ s5' = s5 \cup {[row |-> s3', value |-> value]}
    BY Zenon DEF PortRows!AddPortConfTr
<1>2. s3 \in Nat /\ s3' \in 1 .. MaxRows
    <2>1. s3 \in 0 .. MaxRows
        BY Zenon DEF FormTyped
    <2> QED
        BY <1>1, <2>1, PortRowsBounds
<1>3. PICK new :
          /\ s2' = [i \in DOMAIN others \cup {s3'} |-> IF i # s3' THEN others[i] ELSE new]
          /\ new \in PortRows!Row /\ (s3' \notin s10' => PortRows!AsGiven(new))
          /\ new.want = value /\ (new.made => s4 # None)
    <2> DEFINE row == [key |-> key, on |-> on, made |-> FALSE, disabled |-> ~on,
                       text |-> "", group |-> "", want |-> value]
               made == IF s4 = None THEN row ELSE PortRows!Combobox(row, s4, value)
    <2>1. s2' = [i \in DOMAIN others \cup {s3'} |-> IF i # s3' THEN others[i] ELSE made]
        BY Zenon DEF PortRows!AddPortConfTr
    <2>2. row \in PortRows!Row /\ ~row.made /\ row.want = value /\ row.on = on /\ row.disabled = ~on
          /\ (s3' \notin s10' => PortRows!AsGiven(row))
        BY DEF PortRows!Row, PortRows!AsGiven, BeginsWell, Given
    <2> HIDE DEF row
    <2>3. CASE s4 = None
        <3>1. made = row
            BY <2>3
        <3> QED
            BY <2>1, <2>2, <2>3, <3>1
    <2>4. CASE s4 # None
        <3>1. s4 \in SUBSET Groups /\ made = PortRows!Combobox(row, s4, value)
            BY <2>4 DEF FormTyped
        <3> HIDE DEF made
        <3>2. MadeOf(made, row, value)
            BY <2>2, <3>1, ComboboxMade
        <3>3. s3' \notin s10' => PortRows!AsGiven(made)
            BY <2>2, <3>2 DEF PortRows!AsGiven, MadeOf
        <3> QED
            BY <2>1, <2>2, <2>4, <3>2, <3>3 DEF MadeOf
    <2> QED
        BY <2>3, <2>4
<1>4. /\ \A i \in DOMAIN s2 : i \in 1 .. MaxRows /\ i <= s3 /\ s2[i] \in PortRows!Row
                             /\ RowFits(i, s2[i], s4, s5, s10)
      /\ \A a \in s5 : a.row <= s3 /\ a \in [row : 1 .. MaxRows, value : Given]
      /\ \A i \in s10 : i <= s3 /\ i \in 1 .. MaxRows
      /\ s4 # None => s4 \subseteq Groups
    BY DEF FormFits, FormTyped
<1>5. \A i \in DOMAIN others : i \in DOMAIN s2 /\ others[i] = s2[i] /\ i # s3' /\ i <= s3'
    BY <1>1, <1>2, <1>4
<1>6. DOMAIN s2' = DOMAIN others \cup {s3'} /\ s2'[s3'] = new
      /\ \A i \in DOMAIN others : s2'[i] = s2[i]
    BY <1>3, <1>5
<1>7. FormTyped(s2', s3', s4, s5', s10')
    <2>1. s5' \subseteq [row : 1 .. MaxRows, value : Given]
        BY <1>1, <1>2, <1>4
    <2>2. DOMAIN s2' \subseteq 1 .. MaxRows /\ \A i \in DOMAIN s2' : s2'[i] \in PortRows!Row
        BY <1>2, <1>3, <1>4, <1>5, <1>6
    <2>3. s10' \subseteq 1 .. MaxRows /\ s3' \in 0 .. MaxRows
        BY <1>2, <1>4
    <2> QED
        BY <1>4, <2>1, <2>2, <2>3 DEF FormTyped
<1>8. \A a \in s5 : a.row # s3' /\ a.row <= s3'
    BY <1>1, <1>2, <1>4
<1>9. RowFits(s3', new, s4, s5', s10')
    <2> DEFINE asked == [row |-> s3', value |-> value]
    <2>a. asked \in s5' /\ asked.row = s3'
        BY <1>1
    <2> HIDE DEF asked
    <2>1. \E a \in s5' : a.row = s3'
        BY <2>a
    <2>2. \A a \in s5' : a.row = s3' => a.value = value
        BY <1>1, <1>8
    <2> QED
        BY <1>3, <2>1, <2>2 DEF RowFits
<1>10. \A i \in DOMAIN others : RowFits(i, s2[i], s4, s5', s10')
    BY <1>1, <1>4, <1>5 DEF RowFits
<1>11. \A a \in s5' : a.row <= s3'
    BY <1>1, <1>2, <1>8
<1>12. \A i \in s10' : i <= s3'
    BY <1>1, <1>2, <1>4
<1> QED
    <2>1. s3' <= s3'
        BY <1>2
    <2>2. \A i \in DOMAIN s2' : i <= s3' /\ RowFits(i, s2'[i], s4, s5', s10')
        BY <1>5, <1>6, <1>9, <1>10, <2>1
    <2> QED
        BY <1>7, <1>11, <1>12, <2>2 DEF FormFits

LEMMA PortRowsStep == PortRows!Inv /\ [PortRows!Next]_(PortRows!vars) => PortRows!Inv'
<1> SUFFICES ASSUME RowsCore, [PortRows!Next]_(PortRows!vars)
             PROVE  RowsCore'
    BY PortRowsHold, PTL
<1>a. /\ FormTyped(s2, s3, s4, s5, s10) /\ PageTyped(s7, s8, s9, s11, s12)
      /\ PortRows!PostedAsGiven /\ FormFits(s2, s3, s4, s5, s10) /\ NewestIsAsked
      /\ s1 \in {None, "group", "module"}
    BY DEF RowsCore
(* Most steps leave the form or the page alone.                            *)
<1>b. ASSUME UNCHANGED <<s7, s8, s9, s11, s12>>
      PROVE  (PageTyped(s7, s8, s9, s11, s12) /\ NewestIsAsked)'
    BY <1>a, <1>b DEF PageTyped, NewestIsAsked
<1>c. ASSUME UNCHANGED s6, s10 \subseteq s10' PROVE PortRows!PostedAsGiven'
    BY <1>a, <1>c DEF PortRows!PostedAsGiven
<1>d. ASSUME UNCHANGED <<s2, s3, s4, s5, s10>>
      PROVE  (FormTyped(s2, s3, s4, s5, s10) /\ FormFits(s2, s3, s4, s5, s10))'
    BY <1>a, <1>d DEF FormTyped, FormFits, RowFits
<1> USE DEF PortRows!server
<1>1. CASE PortRows!AddServiceGroup
    BY <1>1, <1>b, <1>c, <1>d DEF PortRows!AddServiceGroup, RowsCore
<1>2. CASE PortRows!AddModule
  <2>1. /\ PortRows!AddPortConfTr(<<>>, None, FALSE, "") /\ s1' = "module"
        /\ UNCHANGED <<s4, s6, s10, s7, s8, s9, s11, s12>>
    BY <1>2 DEF PortRows!AddModule
  <2>2. DOMAIN << >> = {}
    OBVIOUS
  <2>3. BeginsWell(s3', FALSE, "", s10')
    BY DEF BeginsWell
  <2>5. FormTyped(s2', s3', s4, s5', s10') /\ FormFits(s2', s3', s4, s5', s10')
    <3>1. "" \in Given /\ None \in Keys \cup {None} /\ FALSE \in BOOLEAN
        BY DEF Given
    <3>2. s10 \subseteq s10' /\ s10' \subseteq s10 \cup {s3'}
        BY <2>1
    <3> QED
        BY <1>a, <2>1, <2>2, <2>3, <3>1, <3>2, RowAdded
  <2>4. (FormTyped(s2, s3, s4, s5, s10) /\ FormFits(s2, s3, s4, s5, s10))'
    BY <2>1, <2>5 DEF FormTyped
  <2> QED
    BY <1>b, <1>c, <2>1, <2>4 DEF RowsCore
<1>3. CASE PortRows!Submit
  <2>1. UNCHANGED <<s1, s2, s3, s4, s5, s10, s7, s8, s9, s11, s12>> /\ s6' = s6 \cup {s2}
    BY <1>3 DEF PortRows!Submit
  <2>2. \A i, j \in DOMAIN s2 : i # j => s2[i].key # s2[j].key
    BY <1>3 DEF PortRows!Submit, PortRows!CheckIsRepeated
  <2>a. \A i \in DOMAIN s2 : s2[i].on => s2[i].text # ""
    BY <1>3 DEF PortRows!Submit
  <2>b. \A i \in DOMAIN s2 : s2[i].on \in BOOLEAN /\ s2[i].made \in BOOLEAN
    BY <1>a DEF FormTyped, PortRows!Row, Given
  <2>3. \A i \in DOMAIN s2 \ s10 : s2[i].group = IF s2[i].on THEN s2[i].want ELSE ""
    <3> SUFFICES ASSUME NEW i \in DOMAIN s2, i \notin s10
                 PROVE  s2[i].group = IF s2[i].on THEN s2[i].want ELSE ""
        OBVIOUS
    <3>1. PortRows!AsGiven(s2[i])
        BY <1>a DEF FormFits, RowFits
    <3> QED
        BY <2>a, <2>b, <3>1 DEF PortRows!AsGiven
  <2>4. PortRows!PostedAsGiven'
    BY <1>a, <2>1, <2>2, <2>3 DEF PortRows!PostedAsGiven
  <2>5. s1' \in {None, "group", "module"}
    BY <1>a, <2>1
  <2> QED
    BY <1>b, <1>d, <2>1, <2>4, <2>5 DEF RowsCore
<1>4. CASE PortRows!SubmitGroup
  <2>1. UNCHANGED <<s1, s2, s3, s4, s5, s10, s7, s8, s9, s11, s12>> /\ s6' = s6 \cup {<<>>}
    BY <1>4 DEF PortRows!SubmitGroup
  <2>2. DOMAIN << >> = {}
    OBVIOUS
  <2>4. PortRows!PostedAsGiven'
    BY <1>a, <2>1, <2>2 DEF PortRows!PostedAsGiven
  <2>5. s1' \in {None, "group", "module"}
    BY <1>a, <2>1
  <2> QED
    BY <1>b, <1>d, <2>1, <2>4, <2>5 DEF RowsCore
<1>5. CASE PortRows!Cancel
    BY <1>5, <1>b, <1>c, <1>d DEF PortRows!Cancel, RowsCore
<1>6. ASSUME NEW i \in DOMAIN s2, PortRows!Copy(i) PROVE RowsCore'
  <2>1. /\ PortRows!AddPortConfTr(s2, s2[i].key, s2[i].on, s2[i].group)
        /\ s10' = s10 \cup {j \in {s3'} : i \in s10} /\ UNCHANGED <<s1, s4, s6, s7, s8, s9, s11, s12>>
    BY <1>6 DEF PortRows!Copy
  <2>2. /\ s2[i].key \in Keys \cup {None} /\ s2[i].on \in BOOLEAN
        /\ s2[i].group \in Given
    BY <1>a DEF FormTyped, PortRows!Row, Given
  <2>3. s10 \subseteq s10' /\ s10' \subseteq s10 \cup {s3'} /\ (i \in s10 => s3' \in s10')
    BY <2>1
  <2>4. BeginsWell(s3', s2[i].on, s2[i].group, s10')
    BY <1>a, <2>3 DEF FormFits, RowFits, PortRows!AsGiven, BeginsWell
  <2>5. FormTyped(s2', s3', s4, s5', s10') /\ FormFits(s2', s3', s4, s5', s10')
    BY <1>a, <2>1, <2>2, <2>3, <2>4, RowAdded
  <2>6. (FormTyped(s2, s3, s4, s5, s10) /\ FormFits(s2, s3, s4, s5, s10))'
    BY <2>1, <2>5, Zenon
  <2>7. s1' \in {None, "group", "module"}
    BY <1>a, <2>1, Zenon
  <2> QED
    BY <1>b, <1>c, <2>1, <2>3, <2>6, <2>7 DEF RowsCore
<1>7. ASSUME NEW i \in DOMAIN s2, PortRows!Del(i) PROVE RowsCore'
  <2>1. /\ UNCHANGED <<s1, s3, s4, s5, s6, s10, s7, s8, s9, s11, s12>>
        /\ DOMAIN s2' \subseteq DOMAIN s2 /\ \A j \in DOMAIN s2' : s2'[j] = s2[j]
    BY <1>7 DEF PortRows!Del, PortRows!Restrict
  <2>2. (FormTyped(s2, s3, s4, s5, s10) /\ FormFits(s2, s3, s4, s5, s10))'
    <3>1. \A j \in DOMAIN s2' : j <= s3 /\ RowFits(j, s2'[j], s4, s5, s10)
        BY <1>a, <2>1 DEF FormFits
    <3> QED
        BY <1>a, <2>1, <3>1 DEF FormTyped, FormFits
  <2> QED
    BY <1>b, <1>c, <2>1, <2>2 DEF RowsCore
<1>8. ASSUME NEW i \in DOMAIN s2, PortRows!EnableIdcGroup(i) PROVE RowsCore'
  <2>1. PICK r : /\ s2' = [s2 EXCEPT ![i] = r] /\ r \in PortRows!Row
                 /\ r.made = s2[i].made
                 /\ r.made /\ PortRows!AsGiven(s2[i]) => PortRows!AsGiven(r)
    <3> DEFINE row == [s2[i] EXCEPT !.on = ~@]
               r == CASE ~row.made -> [row EXCEPT !.want = IF row.on THEN @ ELSE ""]
                      [] row.made /\ row.on -> [row EXCEPT !.disabled = FALSE]
                      [] OTHER -> [row EXCEPT !.disabled = TRUE, !.text = "", !.group = "", !.want = ""]
    <3>1. s2' = [s2 EXCEPT ![i] = r]
      BY <1>8 DEF PortRows!EnableIdcGroup
    <3>2. s2[i] \in PortRows!Row
      BY <1>a DEF FormTyped
    <3>3. /\ row \in PortRows!Row /\ row.made = s2[i].made /\ row.on = ~s2[i].on
          /\ row.group = s2[i].group /\ row.text = s2[i].text /\ row.want = s2[i].want
          /\ row.disabled = s2[i].disabled /\ row.made \in BOOLEAN /\ row.on \in BOOLEAN
      BY <3>2 DEF PortRows!Row
    <3> HIDE DEF row
    <3>4. CASE ~row.made
      <4>1. r = [row EXCEPT !.want = IF row.on THEN @ ELSE ""]
        BY <3>4
      <4>2. r \in PortRows!Row /\ r.made = s2[i].made
        BY <3>3, <4>1 DEF PortRows!Row
      <4> QED
        BY <3>1, <3>3, <3>4, <4>2
    <3>5. CASE row.made /\ row.on
      <4>1. r = [row EXCEPT !.disabled = FALSE]
        BY <3>5
      <4>2. /\ r \in PortRows!Row /\ r.made = s2[i].made /\ r.on = row.on /\ r.group = row.group
            /\ r.text = row.text /\ r.want = row.want /\ r.disabled = FALSE
        BY <3>3, <4>1 DEF PortRows!Row
      <4> HIDE DEF r
      <4>3. PortRows!AsGiven(s2[i]) => PortRows!AsGiven(r)
        BY <3>3, <3>5, <4>2 DEF PortRows!AsGiven
      <4> QED
        BY <3>1, <4>2, <4>3
    <3>6. CASE row.made /\ ~row.on
      <4>1. r = [row EXCEPT !.disabled = TRUE, !.text = "", !.group = "", !.want = ""]
        BY <3>6
      <4>2. /\ r \in PortRows!Row /\ r.made = s2[i].made /\ r.on = row.on /\ r.group = ""
            /\ r.text = "" /\ r.want = "" /\ r.disabled = TRUE
        BY <3>3, <4>1 DEF PortRows!Row
      <4> HIDE DEF r
      <4>3. PortRows!AsGiven(r)
        BY <3>3, <3>6, <4>2 DEF PortRows!AsGiven
      <4> QED
        BY <3>1, <4>2, <4>3
    <3> QED
      BY <3>3, <3>4, <3>5, <3>6
  <2>2. /\ s10' = s10 \cup {j \in {i} : PortRows!Asked(i)}
        /\ UNCHANGED <<s1, s3, s4, s5, s6, s7, s8, s9, s11, s12>>
    BY <1>8 DEF PortRows!EnableIdcGroup, PortRows!Touch
  <2>3. s10 \subseteq s10' /\ s10' \subseteq s10 \cup {i} /\ (PortRows!Asked(i) => i \in s10')
    BY <2>2
  <2>4. RowFits(i, r, s4, s5, s10')
    BY <1>a, <2>1, <2>3 DEF FormFits, RowFits, PortRows!Asked
  <2>5. FormTyped(s2', s3, s4, s5, s10') /\ FormFits(s2', s3, s4, s5, s10')
    BY <1>a, <2>1, <2>3, <2>4, RowChanged
  <2>6. (FormTyped(s2, s3, s4, s5, s10) /\ FormFits(s2, s3, s4, s5, s10))'
    BY <2>2, <2>5, Zenon
  <2>7. s1' \in {None, "group", "module"}
    BY <1>a, <2>2, Zenon
  <2> QED
    BY <1>b, <1>c, <2>2, <2>3, <2>6, <2>7 DEF RowsCore
<1>9. ASSUME NEW i \in DOMAIN s2, PortRows!Fill(i) PROVE RowsCore'
  <2>1. /\ UNCHANGED <<s1, s3, s4, s5, s6, s7, s8, s9, s11, s12>>
        /\ s10' = s10 \cup {j \in {i} : PortRows!Asked(i)} \/ s10' = s10
    BY <1>9 DEF PortRows!Fill, PortRows!Touch
  <2>2. s10 \subseteq s10' /\ s10' \subseteq s10 \cup {i}
    BY <2>1
  <2>3. s2[i] \in PortRows!Row /\ RowFits(i, s2[i], s4, s5, s10)
    BY <1>a DEF FormTyped, FormFits
  <2>4. PICK r : s2' = [s2 EXCEPT ![i] = r] /\ r \in PortRows!Row /\ RowFits(i, r, s4, s5, s10')
    <3>1. ASSUME NEW k \in Keys, s2' = [s2 EXCEPT ![i].key = k], s10' = s10
          PROVE  \E r : s2' = [s2 EXCEPT ![i] = r] /\ r \in PortRows!Row /\ RowFits(i, r, s4, s5, s10')
      <4> DEFINE r == [s2[i] EXCEPT !.key = k]
      <4>1. s2' = [s2 EXCEPT ![i] = r]
        BY <3>1
      <4>2. r \in PortRows!Row /\ r.made = s2[i].made /\ r.want = s2[i].want /\ r.on = s2[i].on
            /\ r.group = s2[i].group /\ r.text = s2[i].text /\ r.disabled = s2[i].disabled
        BY <2>3 DEF PortRows!Row
      <4> HIDE DEF r
      <4>3. RowFits(i, r, s4, s5, s10')
        BY <2>3, <3>1, <4>2 DEF RowFits, PortRows!AsGiven
      <4> QED
        BY <4>1, <4>2, <4>3
    <3>2. ASSUME s2[i].made, ~s2[i].disabled, NEW g \in s4,
                 s2' = [s2 EXCEPT ![i].text = g, ![i].group = g, ![i].want = g],
                 s10' = s10 \cup {j \in {i} : PortRows!Asked(i)}
          PROVE  \E r : s2' = [s2 EXCEPT ![i] = r] /\ r \in PortRows!Row /\ RowFits(i, r, s4, s5, s10')
      <4> DEFINE r == [s2[i] EXCEPT !.text = g, !.group = g, !.want = g]
      <4>0. g \in Groups
        BY <1>a, <2>3, <3>2 DEF FormTyped, RowFits
      <4>1. s2' = [s2 EXCEPT ![i] = r]
        BY <3>2
      <4>2. r \in PortRows!Row /\ r.made = s2[i].made /\ r.want = g /\ r.on = s2[i].on
            /\ r.group = g /\ r.text = g /\ r.disabled = s2[i].disabled
        BY <2>3, <4>0 DEF PortRows!Row
      <4> HIDE DEF r
      <4>3. RowFits(i, r, s4, s5, s10')
        BY <2>3, <3>2, <4>2 DEF RowFits, PortRows!AsGiven, PortRows!Asked
      <4> QED
        BY <4>1, <4>2, <4>3
    <3>3. ASSUME ~s2[i].made, s2' = [s2 EXCEPT ![i].text = "free"],
                 s10' = s10 \cup {j \in {i} : PortRows!Asked(i)}
          PROVE  \E r : s2' = [s2 EXCEPT ![i] = r] /\ r \in PortRows!Row /\ RowFits(i, r, s4, s5, s10')
      <4> DEFINE r == [s2[i] EXCEPT !.text = "free"]
      <4>1. s2' = [s2 EXCEPT ![i] = r]
        BY <3>3
      <4>2. r \in PortRows!Row /\ r.made = s2[i].made
        BY <2>3 DEF PortRows!Row
      <4> HIDE DEF r
      <4>3. RowFits(i, r, s4, s5, s10')
        BY <2>3, <3>3, <4>2 DEF RowFits, PortRows!AsGiven, PortRows!Asked
      <4> QED
        BY <4>1, <4>2, <4>3
    <3> QED
      BY <1>9, <3>1, <3>2, <3>3 DEF PortRows!Fill, PortRows!Touch
  <2>5. FormTyped(s2', s3, s4, s5, s10') /\ FormFits(s2', s3, s4, s5, s10')
    BY <1>a, <2>2, <2>4, RowChanged
  <2>6. (FormTyped(s2, s3, s4, s5, s10) /\ FormFits(s2, s3, s4, s5, s10))'
    BY <2>1, <2>5, Zenon
  <2>7. s1' \in {None, "group", "module"}
    BY <1>a, <2>1, Zenon
  <2> QED
    BY <1>b, <1>c, <2>1, <2>2, <2>6, <2>7 DEF RowsCore
<1>10. CASE PortRows!ListCame
  <2>1. PICK a \in s5, list \in {{}, Groups} :
            /\ s5' = s5 \ {a} /\ s4' = list
            /\ s2' = [i \in DOMAIN s2 |-> IF i = a.row THEN PortRows!Combobox(s2[i], list, a.value)
                                          ELSE s2[i]]
    BY <1>10 DEF PortRows!ListCame
  <2>2. UNCHANGED <<s1, s3, s6, s7, s8, s9, s10, s11, s12>>
    BY <1>10 DEF PortRows!ListCame
  <2>3. list \in SUBSET Groups /\ s4' # None /\ a.value \in Given
    BY <1>a, <2>1, PortRowsAssumption DEF FormTyped
  <2>4. DOMAIN s2' = DOMAIN s2 /\ \A i \in DOMAIN s2 : i # a.row => s2'[i] = s2[i]
    BY <2>1
  <2>5. \A i \in DOMAIN s2 : i = a.row => MadeOf(s2'[i], s2[i], a.value)
    <3> SUFFICES ASSUME NEW i \in DOMAIN s2, i = a.row PROVE MadeOf(s2'[i], s2[i], a.value)
      OBVIOUS
    <3>1. s2'[i] = PortRows!Combobox(s2[i], list, a.value)
      BY <2>1
    <3>2. s2[i] \in PortRows!Row
      BY <1>a DEF FormTyped
    <3> QED
      BY <2>3, <3>1, <3>2, ComboboxMade
  <2>6. \A i \in DOMAIN s2' : RowFits(i, s2'[i], s4', s5', s10)
    <3> SUFFICES ASSUME NEW i \in DOMAIN s2 PROVE RowFits(i, s2'[i], s4', s5', s10)
      BY <2>4
    <3>1. CASE i = a.row
      <4>1. i \notin s10 => PortRows!AsGiven(s2[i]) /\ \A b \in s5 : b.row = i => b.value = s2[i].want
        BY <1>a DEF FormFits, RowFits
      <4>2. MadeOf(s2'[i], s2[i], a.value)
        BY <2>5, <3>1
      <4>3. i \notin s10 => PortRows!AsGiven(s2'[i])
        BY <2>1, <3>1, <4>1, <4>2 DEF PortRows!AsGiven, MadeOf
      <4>4. i \notin s10 => \A b \in s5' : b.row = i => b.value = s2'[i].want
        BY <2>1, <4>1, <4>2 DEF MadeOf
      <4> QED
        BY <2>3, <4>2, <4>3, <4>4 DEF RowFits, MadeOf
    <3>2. CASE i # a.row
      BY <1>a, <2>1, <2>3, <2>4, <3>2 DEF FormFits, RowFits
    <3> QED
      BY <3>1, <3>2
  <2>7. (FormTyped(s2, s3, s4, s5, s10) /\ FormFits(s2, s3, s4, s5, s10))'
    <3>1. \A i \in DOMAIN s2' : s2'[i] \in PortRows!Row
      BY <1>a, <2>4, <2>5 DEF FormTyped, MadeOf
    <3> QED
      BY <1>a, <2>1, <2>2, <2>3, <2>4, <2>6, <3>1 DEF FormTyped, FormFits
  <2>8. s1' \in {None, "group", "module"}
    BY <1>a, <2>2, Zenon
  <2> QED
    BY <1>b, <1>c, <2>2, <2>7, <2>8 DEF RowsCore
<1>e. /\ s8 \in Nat /\ s8 \in 0 .. MaxVersion /\ s12 \in Nat /\ s12 \in 0 .. s8 /\ MaxVersion \in Nat
      /\ s7 \subseteq 0 .. s12 /\ (s9 = None \/ s9 \in 0 .. s8) /\ s11 \in BOOLEAN
    BY <1>a, PortRowsBounds DEF PageTyped, NewestIsAsked
<1>14. CASE PortRows!StoreChanges
  <2>1. UNCHANGED <<s1, s2, s3, s4, s5, s6, s7, s9, s10, s11, s12>> /\ s8 < MaxVersion /\ s8' = s8 + 1
    BY <1>14 DEF PortRows!StoreChanges
  <2>2. /\ s8' \in 0 .. MaxVersion /\ s12 \in 0 .. s8' /\ (s9 = None \/ s9 \in 0 .. s8')
        /\ s9 \in s12 .. s8 => s9 \in s12 .. s8'
    BY <1>e, <2>1
  <2>3. PageTyped(s7, s8, s9, s11, s12)'
    BY <1>a, <2>1, <2>2, Zenon DEF PageTyped
  <2>4. NewestIsAsked'
    BY <1>a, <2>1, <2>2, Zenon DEF NewestIsAsked
  <2> QED
    BY <1>a, <1>c, <1>d, <2>1, <2>3, <2>4 DEF RowsCore
<1>11. CASE PortRows!PostCame
  <2>1. /\ UNCHANGED <<s2, s3, s4, s5, s9, s10, s11>> /\ s6' \subseteq s6
        /\ s1' \in {s1, None}
        /\ \/ s8 < MaxVersion /\ s8' = s8 + 1 /\ s7' = s7 \cup {s8'} /\ s12' = s8'
           \/ UNCHANGED <<s7, s8, s12>>
    BY <1>11 DEF PortRows!PostCame
  <2>2. PortRows!PostedAsGiven'
    BY <1>a, <2>1 DEF PortRows!PostedAsGiven
  <2>4. CASE s8 < MaxVersion /\ s8' = s8 + 1 /\ s7' = s7 \cup {s8'} /\ s12' = s8'
    <3>1. s8' \in 0 .. MaxVersion /\ s7' \subseteq 0 .. s12' /\ s7' \subseteq 0 .. MaxVersion
          /\ s12' \in s7' /\ s12' \in 0 .. s8'
      BY <1>e, <2>4
    <3>2. s9' = None \/ s9' \in 0 .. s8'
      BY <1>e, <2>1, <2>4
    <3>3. PageTyped(s7, s8, s9, s11, s12)'
      BY <1>e, <2>1, <3>1, <3>2, Zenon DEF PageTyped
    <3>4. NewestIsAsked'
      BY <3>1, Zenon DEF NewestIsAsked
    <3> QED
      BY <1>a, <1>d, <2>1, <2>2, <3>3, <3>4 DEF RowsCore
  <2>5. CASE UNCHANGED <<s7, s8, s12>>
    BY <1>a, <1>b, <1>d, <2>1, <2>2, <2>5 DEF RowsCore
  <2> QED
    BY <2>1, <2>4, <2>5
<1>12. CASE PortRows!SearchCame
  <2>1. PICK s \in s7 : /\ s7' = s7 \ {s} /\ s9' \in (s .. s8) \cup {None}
                        /\ s11' = (s11 \/ \E r \in s7 : r < s)
    BY <1>12 DEF PortRows!SearchCame
  <2>2. UNCHANGED <<s1, s2, s3, s4, s5, s6, s8, s10, s12>>
    BY <1>12 DEF PortRows!SearchCame
  <2>3. s \in 0 .. s12
    BY <1>e
  <2>4. s9' = None \/ s9' \in s .. s8
    BY <2>1
  <2>5. PageTyped(s7, s8, s9, s11, s12)'
    <3>1. s11' \in BOOLEAN
      BY <2>1, Zenon
    <3>2. s9' = None \/ s9' \in 0 .. s8'
      BY <1>e, <2>2, <2>3, <2>4
    <3>3. s7' \subseteq 0 .. MaxVersion
      BY <1>a, <2>1 DEF PageTyped
    <3> QED
      BY <1>e, <2>2, <3>1, <3>2, <3>3, Zenon DEF PageTyped
  <2>6. NewestIsAsked'
    <3>1. s7' \subseteq 0 .. s12'
      BY <1>e, <2>1, <2>2
    <3>2. ASSUME ~s11' PROVE s12' \in s7' \/ (s7' = {} /\ s9' \in (s12' .. s8') \cup {None})
      <4>1. ~s11 /\ \A r \in s7 : ~(r < s)
        BY <2>1, <3>2, Zenon
      <4>2. s12 \in s7
        BY <1>a, <4>1 DEF NewestIsAsked
      <4>3. CASE s = s12
        <5>1. \A r \in s7 : r = s
          BY <1>e, <2>3, <4>1, <4>3
        <5>2. s7' = {}
          BY <2>1, <5>1
        <5>3. s9' = None \/ s9' \in s12 .. s8
          BY <2>4, <4>3
        <5> QED
          BY <2>2, <5>2, <5>3, Zenon
      <4>4. CASE s # s12
        BY <2>1, <2>2, <4>2, <4>4
      <4> QED
        BY <4>3, <4>4
    <3> QED
      BY <3>1, <3>2 DEF NewestIsAsked
  <2> QED
    BY <1>a, <1>c, <1>d, <2>2, <2>5, <2>6 DEF RowsCore
<1>13. CASE UNCHANGED PortRows!vars
    BY <1>13, <1>a, <1>b, <1>c, <1>d DEF PortRows!vars, RowsCore
<1> QED
    BY <1>1, <1>2, <1>3, <1>4, <1>5, <1>6, <1>7, <1>8, <1>9, <1>10, <1>11, <1>12, <1>13, <1>14
    DEF PortRows!Next, PortRows!OnRow
-----------------------------------------------------------------------------
(* The page of the agents *)
OneIsMasked ==
    \A c, d \in s10 : {c.op, d.op} \subseteq {"release", "delete"} => c = d
NewestIsLast ==
    ~s12 => IF s4 = <<>> THEN s13 \/ (s5 # None /\ s5.query = s3) ELSE s4[Len(s4)] = s3
ReleaseCore ==
    /\ AgentRelease!TypeOK /\ AgentRelease!OnlyAgreedGoOffline
    /\ AgentRelease!MaskedWhileChanging /\ OneIsMasked /\ AgentRelease!AskedAbout
    /\ AgentRelease!FilterTh = s7 /\ NewestIsLast

LEMMA AgentReleaseInit == AgentRelease!Init => AgentRelease!Inv
<1> SUFFICES ASSUME AgentRelease!Init PROVE AgentRelease!Inv
    OBVIOUS
<1> USE DEF AgentRelease!Init, AgentRelease!FilterTh
<1>1. s4 = <<s3>> /\ s3 \in Queries
    OBVIOUS
<1>2. s4 \in Seq(Queries) /\ Len(s4) = 1 /\ s4[1] = s3 /\ s4 # <<>>
    BY <1>1
<1>3. AgentRelease!TypeOK
    BY <1>2, AgentReleaseAssumption DEF AgentRelease!TypeOK
<1>4. AgentRelease!OnlyAgreedGoOffline /\ AgentRelease!MaskedWhileChanging /\ AgentRelease!AskedAbout
    BY DEF AgentRelease!OnlyAgreedGoOffline, AgentRelease!MaskedWhileChanging, AgentRelease!AskedAbout
<1> QED
    BY <1>2, <1>3, <1>4 DEF AgentRelease!Inv

LEMMA AgentReleaseStep == AgentRelease!Inv /\ [AgentRelease!Next]_(AgentRelease!vars) => AgentRelease!Inv'
<1> SUFFICES ASSUME ReleaseCore, [AgentRelease!Next]_(AgentRelease!vars)
             PROVE  ReleaseCore'
    BY DEF ReleaseCore, AgentRelease!Inv, OneIsMasked, NewestIsLast
<1> USE DEF ReleaseCore
<1>1. ASSUME NEW q \in Queries, AgentRelease!Search(q) PROVE ReleaseCore'
    BY <1>1, AgentReleaseAssumption DEF AgentRelease!Search, OneIsMasked, NewestIsLast, AgentRelease!TypeOK, AgentRelease!OnlyAgreedGoOffline,
            AgentRelease!MaskedWhileChanging, AgentRelease!AskedAbout, AgentRelease!Checked,
            AgentRelease!FilterTh, AgentRelease!Free, AgentRelease!Ask, AgentRelease!Ops,
            AgentRelease!Question, AgentRelease!Table
<1>2. CASE AgentRelease!Loaded
  <2>1. PICK i \in DOMAIN s4, ok \in BOOLEAN :
            /\ s4' = [k \in 1 .. Len(s4) - 1 |-> IF k < i THEN s4[k] ELSE s4[k + 1]]
            /\ s12' = (s12 \/ i > 1) /\ s13' = ~ok
            /\ s5' = IF ok THEN [query |-> s4[i], rows |-> s4[i] \cap s2, page |-> 1, checked |-> {}]
                     ELSE IF s5 = None THEN None
                     ELSE [s5 EXCEPT !.page = 1, !.checked = {}]
    BY <1>2 DEF AgentRelease!Loaded
  <2>2. s4 \in Seq(Queries) /\ Len(s4) \in Nat /\ i \in 1 .. Len(s4) /\ s4[i] \in Queries
    BY DEF AgentRelease!TypeOK
  <2>3. s4' \in Seq(Queries) /\ Len(s4') = Len(s4) - 1
    <3>1. \A k \in 1 .. Len(s4) - 1 : k \in 1 .. Len(s4) /\ k + 1 \in 1 .. Len(s4)
      BY <2>2
    <3>2. \A k \in 1 .. Len(s4) - 1 : s4'[k] \in Queries
      BY <2>1, <2>2, <3>1
    <3>3. Len(s4) - 1 \in Nat
      BY <2>2
    <3> QED
      BY <2>1, <3>2, <3>3
  <2>4. /\ ok => s5' \in AgentRelease!Table /\ s5'.query = s4[i]
        /\ s5' = None \/ (s5' \in AgentRelease!Table /\ s5'.checked = {})
    <3>1. CASE ok
      BY <2>1, <2>2, <3>1 DEF AgentRelease!Table, AgentRelease!TypeOK
    <3>2. CASE ~ok /\ s5 = None
      BY <2>1, <3>2
    <3>3. CASE ~ok /\ s5 # None
      <4>1. s5 \in AgentRelease!Table
        BY <3>3 DEF AgentRelease!TypeOK
      <4> QED
        BY <2>1, <3>3, <4>1 DEF AgentRelease!Table
    <3> QED
      BY <3>1, <3>2, <3>3
  <2>5. (ok => s5' # None) /\ s13' \in BOOLEAN
    BY <2>1, <2>4, AgentReleaseAssumption
  <2>6. s8 # None => /\ s8' \in AgentRelease!Question /\ s8'.op = s8.op /\ s8'.late
                     /\ s8'.ips = s8.ips
    BY <1>2 DEF AgentRelease!Loaded, AgentRelease!TypeOK, AgentRelease!Question
  <2>7. s8 = None => s8' = None
    BY <1>2 DEF AgentRelease!Loaded
  <2>8. AgentRelease!TypeOK'
    BY <1>2, <2>1, <2>3, <2>4, <2>5, <2>6, <2>7, AgentReleaseAssumption
    DEF AgentRelease!Loaded, AgentRelease!TypeOK, AgentRelease!FilterTh
  <2>9. AgentRelease!OnlyAgreedGoOffline'
    BY <1>2 DEF AgentRelease!Loaded, AgentRelease!OnlyAgreedGoOffline
  <2>10. AgentRelease!MaskedWhileChanging' /\ OneIsMasked'
    BY <1>2 DEF AgentRelease!Loaded, AgentRelease!MaskedWhileChanging, OneIsMasked
  <2>11. AgentRelease!AskedAbout'
    BY <1>2, <2>4, <2>5, <2>6, <2>7
    DEF AgentRelease!Loaded, AgentRelease!AskedAbout, AgentRelease!Checked
  <2>12. NewestIsLast'
    <3>1. s3' = s3
      BY <1>2 DEF AgentRelease!Loaded
    <3>2. CASE Len(s4) = 1
      <4>1. i = 1
        BY <2>2, <3>2
      <4>a. /\ Len(<<>>) = 0
            /\ \A q \in Seq(Queries) : q # <<>> => Len(q) \in Nat \ {0}
        BY EmptySeq
      <4>2. s4 # <<>> /\ s4' = <<>>
        BY <2>2, <2>3, <3>2, <4>a, SMTT(30)
      <4>3. ~s12' => ~s12
        BY <2>1, Zenon
      <4> QED
        BY <2>1, <2>4, <2>5, <3>1, <3>2, <4>1, <4>2, <4>3 DEF NewestIsLast
    <3>3. CASE Len(s4) > 1 /\ i = 1
      <4>1. s4' # <<>> /\ s4 # <<>>
        BY <2>2, <2>3, <3>3
      <4>2. s4'[Len(s4) - 1] = s4[Len(s4)]
        BY <2>1, <2>2, <3>3
      <4> QED
        BY <2>1, <2>3, <3>1, <3>3, <4>1, <4>2 DEF NewestIsLast
    <3>4. CASE i > 1
      BY <2>1, <3>4 DEF NewestIsLast
    <3>5. Len(s4) = 1 \/ (Len(s4) > 1 /\ i = 1) \/ i > 1
      <4>1. PICK n \in Nat : Len(s4) = n /\ i \in 1 .. n
        BY <2>2
      <4>2. n = 1 \/ (n > 1 /\ i = 1) \/ i > 1
        BY <4>1
      <4> QED
        BY <4>1, <4>2, Zenon
    <3> QED
      BY <3>2, <3>3, <3>4, <3>5, Zenon
  <2>13. AgentRelease!FilterTh' = s7'
    BY <1>2 DEF AgentRelease!Loaded, AgentRelease!FilterTh
  <2> QED
    BY <2>8, <2>9, <2>10, <2>11, <2>12, <2>13, Zenon DEF ReleaseCore
<1>3. CASE AgentRelease!TurnPage
  <2>a. PICK p \in {Page[m] : m \in s5.rows} : s5' = [s5 EXCEPT !.page = p, !.checked = {}]
    BY <1>3 DEF AgentRelease!TurnPage
  <2>b. s5 # None /\ s5 \in AgentRelease!Table
    BY <1>3 DEF AgentRelease!TurnPage, AgentRelease!TypeOK
  <2>c. s5' \in AgentRelease!Table /\ s5'.checked = {} /\ s5'.query = s5.query
    BY <2>a, <2>b DEF AgentRelease!Table
  <2>d. s5' # None
    BY <2>c, AgentReleaseAssumption
  <2>1. AgentRelease!TypeOK'
    BY <1>3, <2>b, <2>c, <2>d, AgentReleaseAssumption DEF AgentRelease!TurnPage, AgentRelease!TypeOK, AgentRelease!Checked, AgentRelease!FilterTh, AgentRelease!Free, AgentRelease!Ops, AgentRelease!Question, AgentRelease!Table
  <2>2. AgentRelease!OnlyAgreedGoOffline'
    BY <1>3, <2>b, <2>c, <2>d, AgentReleaseAssumption DEF AgentRelease!TurnPage, AgentRelease!OnlyAgreedGoOffline, AgentRelease!AskedAbout, AgentRelease!Checked
  <2>3. AgentRelease!MaskedWhileChanging' /\ OneIsMasked'
    BY <1>3, <2>b, <2>c, <2>d, AgentReleaseAssumption DEF AgentRelease!TurnPage, AgentRelease!MaskedWhileChanging, OneIsMasked, AgentRelease!Free
  <2>4. AgentRelease!AskedAbout'
    BY <1>3 DEF AgentRelease!TurnPage, AgentRelease!AskedAbout, AgentRelease!Free
  <2>5. AgentRelease!FilterTh' = s7' /\ NewestIsLast'
    BY <1>3, <2>b, <2>c, <2>d, AgentReleaseAssumption DEF AgentRelease!TurnPage, AgentRelease!FilterTh, NewestIsLast, AgentRelease!TypeOK, AgentRelease!Table
  <2> QED
    BY <2>1, <2>2, <2>3, <2>4, <2>5, Zenon DEF ReleaseCore
<1>4. CASE AgentRelease!Check
    BY <1>4, AgentReleaseAssumption DEF AgentRelease!Check, OneIsMasked, NewestIsLast, AgentRelease!TypeOK, AgentRelease!OnlyAgreedGoOffline,
            AgentRelease!MaskedWhileChanging, AgentRelease!AskedAbout, AgentRelease!Checked,
            AgentRelease!FilterTh, AgentRelease!Free, AgentRelease!Ask, AgentRelease!Ops,
            AgentRelease!Question, AgentRelease!Table
<1>5. CASE AgentRelease!ChangeFilter
    BY <1>5, AgentReleaseAssumption DEF AgentRelease!ChangeFilter, OneIsMasked, NewestIsLast, AgentRelease!TypeOK, AgentRelease!OnlyAgreedGoOffline,
            AgentRelease!MaskedWhileChanging, AgentRelease!AskedAbout, AgentRelease!Checked,
            AgentRelease!FilterTh, AgentRelease!Free, AgentRelease!Ask, AgentRelease!Ops,
            AgentRelease!Question, AgentRelease!Table
<1>6. ASSUME NEW type, AgentRelease!GrayPackage(type) PROVE ReleaseCore'
  <2>1. AgentRelease!TypeOK'
    BY <1>6, AgentReleaseAssumption DEF AgentRelease!GrayPackage, AgentRelease!TypeOK, AgentRelease!Checked, AgentRelease!FilterTh, AgentRelease!Free, AgentRelease!Ops, AgentRelease!Question, AgentRelease!Table, AgentRelease!ValidateVer
  <2>2. AgentRelease!OnlyAgreedGoOffline'
    BY <1>6, AgentReleaseAssumption DEF AgentRelease!GrayPackage, AgentRelease!OnlyAgreedGoOffline, AgentRelease!AskedAbout, AgentRelease!Checked, AgentRelease!ValidateVer
  <2>3. AgentRelease!MaskedWhileChanging' /\ OneIsMasked'
    <3>1. PICK r : s10' = s10 \cup {r} /\ r.op = "release" /\ s9' = TRUE
      BY <1>6 DEF AgentRelease!GrayPackage
    <3>2. \A c \in s10 : c.op \notin {"release", "delete"}
      BY <1>6 DEF AgentRelease!GrayPackage, AgentRelease!Free, AgentRelease!MaskedWhileChanging
    <3> QED
      BY <3>1, <3>2 DEF AgentRelease!MaskedWhileChanging, OneIsMasked
  <2>4. AgentRelease!AskedAbout'
    BY <1>6, AgentReleaseAssumption DEF AgentRelease!GrayPackage, AgentRelease!AskedAbout, AgentRelease!Checked, AgentRelease!TypeOK, AgentRelease!Question, AgentRelease!Table, AgentRelease!ValidateVer
  <2>5. AgentRelease!FilterTh' = s7' /\ NewestIsLast'
    BY <1>6, AgentReleaseAssumption DEF AgentRelease!GrayPackage, AgentRelease!FilterTh, NewestIsLast, AgentRelease!TypeOK, AgentRelease!Table, AgentRelease!ValidateVer
  <2> QED
    BY <2>1, <2>2, <2>3, <2>4, <2>5, Zenon DEF ReleaseCore
<1>7. CASE AgentRelease!Undeploy
    BY <1>7, AgentReleaseAssumption DEF AgentRelease!Undeploy, OneIsMasked, NewestIsLast, AgentRelease!TypeOK, AgentRelease!OnlyAgreedGoOffline,
            AgentRelease!MaskedWhileChanging, AgentRelease!AskedAbout, AgentRelease!Checked,
            AgentRelease!FilterTh, AgentRelease!Free, AgentRelease!Ask, AgentRelease!Ops,
            AgentRelease!Question, AgentRelease!Table
<1>8. CASE AgentRelease!ConfirmUndeploy
  <2>1. AgentRelease!TypeOK'
    BY <1>8, AgentReleaseAssumption DEF AgentRelease!ConfirmUndeploy, AgentRelease!TypeOK, AgentRelease!Checked, AgentRelease!FilterTh, AgentRelease!Free, AgentRelease!Ops, AgentRelease!Question, AgentRelease!Table
  <2>2. AgentRelease!OnlyAgreedGoOffline'
    <3> DEFINE r == [op |-> "delete", ips |-> AgentRelease!Checked, agreed |-> s8.ips, late |-> s8.late]
    <3>1. /\ s10' = s10 \cup {r} /\ r.ips = AgentRelease!Checked /\ r.agreed = s8.ips
          /\ r.late = s8.late /\ s8 # None /\ s8.op = "delete" /\ s1' = s1
      BY <1>8 DEF AgentRelease!ConfirmUndeploy
    <3> HIDE DEF r
    <3>2. /\ r.ips \subseteq r.agreed /\ (r.late \/ r.ips = r.agreed)
          /\ s1 \/ r.ips \subseteq Charged
      BY <3>1 DEF AgentRelease!AskedAbout
    <3> QED
      BY <3>1, <3>2 DEF AgentRelease!OnlyAgreedGoOffline
  <2>3. AgentRelease!MaskedWhileChanging' /\ OneIsMasked'
    <3>1. PICK r : s10' = s10 \cup {r} /\ r.op = "delete" /\ s9' = TRUE
      BY <1>8 DEF AgentRelease!ConfirmUndeploy
    <3>2. \A c \in s10 : c.op \notin {"release", "delete"}
      BY <1>8 DEF AgentRelease!ConfirmUndeploy, AgentRelease!Free, AgentRelease!MaskedWhileChanging
    <3> QED
      BY <3>1, <3>2 DEF AgentRelease!MaskedWhileChanging, OneIsMasked
  <2>4. AgentRelease!AskedAbout'
    BY <1>8, AgentReleaseAssumption DEF AgentRelease!ConfirmUndeploy, AgentRelease!AskedAbout, AgentRelease!Checked, AgentRelease!TypeOK, AgentRelease!Question, AgentRelease!Table
  <2>5. AgentRelease!FilterTh' = s7' /\ NewestIsLast'
    BY <1>8, AgentReleaseAssumption DEF AgentRelease!ConfirmUndeploy, AgentRelease!FilterTh, NewestIsLast, AgentRelease!TypeOK, AgentRelease!Table
  <2> QED
    BY <2>1, <2>2, <2>3, <2>4, <2>5, Zenon DEF ReleaseCore
<1>9. CASE AgentRelease!UpdateAgentLocator
    BY <1>9, AgentReleaseAssumption DEF AgentRelease!UpdateAgentLocator, OneIsMasked, NewestIsLast, AgentRelease!TypeOK, AgentRelease!OnlyAgreedGoOffline,
            AgentRelease!MaskedWhileChanging, AgentRelease!AskedAbout, AgentRelease!Checked,
            AgentRelease!FilterTh, AgentRelease!Free, AgentRelease!Ask, AgentRelease!Ops,
            AgentRelease!Question, AgentRelease!Table
<1>10. CASE AgentRelease!ConfirmLocator
    BY <1>10, AgentReleaseAssumption DEF AgentRelease!ConfirmLocator, OneIsMasked, NewestIsLast, AgentRelease!TypeOK, AgentRelease!OnlyAgreedGoOffline,
            AgentRelease!MaskedWhileChanging, AgentRelease!AskedAbout, AgentRelease!Checked,
            AgentRelease!FilterTh, AgentRelease!Free, AgentRelease!Ask, AgentRelease!Ops,
            AgentRelease!Question, AgentRelease!Table
<1>11. CASE AgentRelease!Cancel
    BY <1>11, AgentReleaseAssumption DEF AgentRelease!Cancel, OneIsMasked, NewestIsLast, AgentRelease!TypeOK, AgentRelease!OnlyAgreedGoOffline,
            AgentRelease!MaskedWhileChanging, AgentRelease!AskedAbout, AgentRelease!Checked,
            AgentRelease!FilterTh, AgentRelease!Free, AgentRelease!Ask, AgentRelease!Ops,
            AgentRelease!Question, AgentRelease!Table
<1>12. CASE AgentRelease!Released
  <2>1. AgentRelease!TypeOK'
    BY <1>12, AgentReleaseAssumption DEF AgentRelease!Released, AgentRelease!TypeOK, AgentRelease!Checked, AgentRelease!FilterTh, AgentRelease!Free, AgentRelease!Ops, AgentRelease!Question, AgentRelease!Table
  <2>2. AgentRelease!OnlyAgreedGoOffline'
    BY <1>12, AgentReleaseAssumption DEF AgentRelease!Released, AgentRelease!OnlyAgreedGoOffline, AgentRelease!AskedAbout, AgentRelease!Checked
  <2>3. AgentRelease!MaskedWhileChanging' /\ OneIsMasked'
    BY <1>12, AgentReleaseAssumption DEF AgentRelease!Released, AgentRelease!MaskedWhileChanging, OneIsMasked, AgentRelease!Free
  <2>4. AgentRelease!AskedAbout'
    BY <1>12, AgentReleaseAssumption DEF AgentRelease!Released, AgentRelease!AskedAbout, AgentRelease!Checked, AgentRelease!TypeOK, AgentRelease!Question, AgentRelease!Table
  <2>5. AgentRelease!FilterTh' = s7' /\ NewestIsLast'
    BY <1>12, AgentReleaseAssumption DEF AgentRelease!Released, AgentRelease!FilterTh, NewestIsLast, AgentRelease!TypeOK, AgentRelease!Table
  <2> QED
    BY <2>1, <2>2, <2>3, <2>4, <2>5, Zenon DEF ReleaseCore
<1>13. CASE AgentRelease!Deleted
  <2>1. AgentRelease!TypeOK'
    BY <1>13, AgentReleaseAssumption DEF AgentRelease!Deleted, AgentRelease!TypeOK, AgentRelease!Checked, AgentRelease!FilterTh, AgentRelease!Free, AgentRelease!Ops, AgentRelease!Question, AgentRelease!Table
  <2>2. AgentRelease!OnlyAgreedGoOffline'
    BY <1>13, AgentReleaseAssumption DEF AgentRelease!Deleted, AgentRelease!OnlyAgreedGoOffline, AgentRelease!AskedAbout, AgentRelease!Checked
  <2>3. AgentRelease!MaskedWhileChanging' /\ OneIsMasked'
    BY <1>13, AgentReleaseAssumption DEF AgentRelease!Deleted, AgentRelease!MaskedWhileChanging, OneIsMasked, AgentRelease!Free
  <2>4. AgentRelease!AskedAbout'
    BY <1>13, AgentReleaseAssumption DEF AgentRelease!Deleted, AgentRelease!AskedAbout, AgentRelease!Checked, AgentRelease!TypeOK, AgentRelease!Question, AgentRelease!Table
  <2>5. AgentRelease!FilterTh' = s7' /\ NewestIsLast'
    BY <1>13, AgentReleaseAssumption DEF AgentRelease!Deleted, AgentRelease!FilterTh, NewestIsLast, AgentRelease!TypeOK, AgentRelease!Table
  <2> QED
    BY <2>1, <2>2, <2>3, <2>4, <2>5, Zenon DEF ReleaseCore
<1>14. CASE AgentRelease!LocatorCame
    BY <1>14, AgentReleaseAssumption DEF AgentRelease!LocatorCame, OneIsMasked, NewestIsLast, AgentRelease!TypeOK, AgentRelease!OnlyAgreedGoOffline,
            AgentRelease!MaskedWhileChanging, AgentRelease!AskedAbout, AgentRelease!Checked,
            AgentRelease!FilterTh, AgentRelease!Free, AgentRelease!Ask, AgentRelease!Ops,
            AgentRelease!Question, AgentRelease!Table
<1>15. CASE AgentRelease!Reload
  <2>a. <<s3>> \in Seq(Queries)
    BY DEF AgentRelease!TypeOK
  <2>1. AgentRelease!TypeOK'
    BY <1>15, <2>a, AgentReleaseAssumption DEF AgentRelease!Reload, AgentRelease!TypeOK, AgentRelease!Checked, AgentRelease!FilterTh, AgentRelease!Free, AgentRelease!Ops, AgentRelease!Question, AgentRelease!Table
  <2>2. AgentRelease!OnlyAgreedGoOffline'
    BY <1>15, AgentReleaseAssumption DEF AgentRelease!Reload, AgentRelease!OnlyAgreedGoOffline, AgentRelease!AskedAbout, AgentRelease!Checked
  <2>3. AgentRelease!MaskedWhileChanging' /\ OneIsMasked'
    BY <1>15, AgentReleaseAssumption DEF AgentRelease!Reload, AgentRelease!MaskedWhileChanging, OneIsMasked, AgentRelease!Free
  <2>4. AgentRelease!AskedAbout'
    BY <1>15, AgentReleaseAssumption DEF AgentRelease!Reload, AgentRelease!AskedAbout, AgentRelease!Checked, AgentRelease!TypeOK, AgentRelease!Question, AgentRelease!Table
  <2>5. AgentRelease!FilterTh' = s7' /\ NewestIsLast'
    BY <1>15, AgentReleaseAssumption DEF AgentRelease!Reload, AgentRelease!FilterTh, NewestIsLast, AgentRelease!TypeOK, AgentRelease!Table
  <2> QED
    BY <2>1, <2>2, <2>3, <2>4, <2>5, Zenon DEF ReleaseCore
<1>16. CASE UNCHANGED AgentRelease!vars
    BY <1>16, AgentReleaseAssumption DEF AgentRelease!vars, OneIsMasked, NewestIsLast, AgentRelease!TypeOK, AgentRelease!OnlyAgreedGoOffline,
            AgentRelease!MaskedWhileChanging, AgentRelease!AskedAbout, AgentRelease!Checked,
            AgentRelease!FilterTh, AgentRelease!Free, AgentRelease!Ask, AgentRelease!Ops,
            AgentRelease!Question, AgentRelease!Table
<1> HIDE DEF ReleaseCore
<1> QED
    BY <1>1, <1>2, <1>3, <1>4, <1>5, <1>6, <1>7, <1>8, <1>9, <1>10, <1>11, <1>12,
       <1>13, <1>14, <1>15, <1>16 DEF AgentRelease!Next
-----------------------------------------------------------------------------
(* The page of the packages *)
(* Nobody went on too early.                                               *)
PackagesCalm ==
    ~s11 =>
        /\ IF s3 /\ ~s12 THEN \E c \in s4 : s4 = {c} ELSE s4 = {}
        /\ s12 => s3
        /\ s8 # {} => s8 = {s7} /\ s9 = None /\ ~s3
        /\ s9 # "over"
PackagesCore == Packages!TypeOK /\ PackagesCalm

LEMMA PackagesHold == PackagesCore => Packages!Inv
<1> SUFFICES ASSUME PackagesCore PROVE Packages!Inv
    OBVIOUS
<1>1. \A S : Packages!Cardinality(S) = Cardinality(S)
    BY Zenon DEF Packages!Cardinality, Cardinality
<1>2. Cardinality({}) = 0 /\ \A c : Cardinality({c}) = 1
    BY FS_EmptySet, FS_Singleton
<1>3. s3 \in BOOLEAN /\ s11 \in BOOLEAN /\ s12 \in BOOLEAN
    BY DEF PackagesCore, Packages!TypeOK
<1>4. ~s11 => Packages!Cardinality(s4) <= 1 /\ s3 = (s4 # {} \/ s12)
    <2> SUFFICES ASSUME ~s11 PROVE Packages!Cardinality(s4) <= 1 /\ s3 = (s4 # {} \/ s12)
        OBVIOUS
    <2>1. CASE s3 /\ ~s12
      <3>1. PICK c \in s4 : s4 = {c}
        BY <2>1 DEF PackagesCore, PackagesCalm
      <3>2. Cardinality(s4) = 1 /\ s4 # {}
        BY <1>2, <3>1
      <3>3. s3 = TRUE /\ (s4 # {} \/ s12) = TRUE
        BY <1>3, <2>1, <3>2
      <3>4. s3 = (s4 # {} \/ s12)
        BY <3>3, Zenon
      <3>5. Packages!Cardinality(s4) <= 1
        BY <1>1, <3>2
      <3> QED
        BY <3>4, <3>5
    <2>2. CASE ~(s3 /\ ~s12)
      <3>1. s4 = {} /\ (s12 => s3)
        BY <2>2 DEF PackagesCore, PackagesCalm
      <3>2. Packages!Cardinality(s4) <= 1
        BY <1>1, <1>2, <3>1
      <3>3. s3 <=> s12
        BY <2>2, <3>1, Zenon
      <3>4. s3 = s12 /\ (s4 # {} \/ s12) = s12
        BY <1>3, <3>1, <3>3
      <3>5. s3 = (s4 # {} \/ s12)
        BY <3>4, Zenon
      <3> QED
        BY <3>2, <3>5
    <2> QED
        BY <2>1, <2>2
<1> QED
    BY <1>3, <1>4 DEF PackagesCore, PackagesCalm, Packages!Inv, Packages!MaskedWhileCalled

LEMMA RowsOf ==
    ASSUME NEW t \in [Stored -> Types \cup {None}], NEW r,
           r = Packages!Restrict(t, {p \in Stored : t[p] # None})
    PROVE  DOMAIN r \subseteq Stored /\ \A p \in DOMAIN r : r[p] \in Types
    BY DEF Packages!Restrict

LEMMA PackagesInit == Packages!Init => Packages!Inv
<1> SUFFICES ASSUME Packages!Init PROVE PackagesCore
    BY PackagesHold
<1>1. DOMAIN s2 \subseteq Stored /\ \A p \in DOMAIN s2 : s2[p] \in Types
    BY RowsOf DEF Packages!Init
<1>2. s7 \in 0 .. MaxUploads /\ s8 \subseteq s13 /\ s13 \subseteq 1 .. s7 /\ s4 \subseteq Packages!Call
    BY PackagesAssumption DEF Packages!Init
<1>3. s1 \in [Stored -> Types \cup {None}] /\ {s5, s6} \subseteq {None} /\ s9 = None
    BY DEF Packages!Init
<1>4. s3 \in BOOLEAN /\ s10 \in BOOLEAN /\ s11 \in BOOLEAN /\ s12 \in BOOLEAN
    BY Zenon DEF Packages!Init
<1>5. Packages!TypeOK
    BY <1>1, <1>2, <1>3, <1>4, Zenon DEF Packages!TypeOK
<1>6. PackagesCalm
    BY PackagesAssumption DEF Packages!Init, PackagesCalm
<1> QED
    BY <1>5, <1>6 DEF PackagesCore

LEMMA AfterACall ==
    ASSUME NEW c \in Packages!Call, Packages!TypeOK
    PROVE  Packages!After(c) \in Types \cup {None}
    BY DEF Packages!After, Packages!Call, Packages!TypeOK

LEMMA AnswerCame ==
    ASSUME Packages!TypeOK, NEW c \in s4, NEW ok \in BOOLEAN, NEW done \in BOOLEAN,
           Packages!Came(c, ok, done)
    PROVE  /\ s1' \in [Stored -> Types \cup {None}] /\ s3' \in BOOLEAN /\ s12' \in BOOLEAN
           /\ s4' \subseteq Packages!Call
<1>1. c \in Packages!Call /\ Packages!After(c) \in Types \cup {None}
    BY AfterACall DEF Packages!TypeOK
<1> QED
    BY <1>1 DEF Packages!Came, Packages!TypeOK

LEMMA PackagesStep == Packages!Inv /\ [Packages!Next]_(Packages!vars) => Packages!Inv'
<1> SUFFICES ASSUME PackagesCore, [Packages!Next]_(Packages!vars)
             PROVE  PackagesCore'
    BY PackagesHold, PTL DEF PackagesCore, PackagesCalm, Packages!Inv
<1> USE PackagesAssumption DEF PackagesCore
<1>1. CASE Packages!UploadPackage
  <2>1. Packages!TypeOK'
    BY <1>1 DEF Packages!UploadPackage, Packages!Free, Packages!UploadFree, Packages!Begin, Packages!Came, Packages!Under, Packages!Fresh, Packages!Call, Packages!TypeOK
  <2>2. PackagesCalm'
    BY <1>1 DEF Packages!UploadPackage, Packages!Free, Packages!UploadFree, Packages!Begin, Packages!Came, Packages!Under, Packages!Fresh, Packages!Call, PackagesCalm
  <2> QED
    BY <2>1, <2>2, Zenon DEF PackagesCore
<1>2. CASE Packages!LoadCame
  <2>1. Packages!TypeOK'
    BY <1>2 DEF Packages!LoadCame, Packages!Free, Packages!UploadFree, Packages!Begin, Packages!Came, Packages!Under, Packages!Fresh, Packages!Call, Packages!TypeOK
  <2>2. PackagesCalm'
    BY <1>2 DEF Packages!LoadCame, Packages!Free, Packages!UploadFree, Packages!Begin, Packages!Came, Packages!Under, Packages!Fresh, Packages!Call, PackagesCalm
  <2> QED
    BY <2>1, <2>2, Zenon DEF PackagesCore
<1>3. CASE Packages!Upload
  <2>a. s11' \in BOOLEAN /\ s3' \in BOOLEAN /\ s12' \in BOOLEAN
    BY <1>3, Zenon DEF Packages!Upload, Packages!Begin, Packages!TypeOK
  <2>b. s4' \subseteq Packages!Call
    BY <1>3 DEF Packages!Upload, Packages!Begin, Packages!Call, Packages!TypeOK
  <2>1. Packages!TypeOK'
    BY <1>3, <2>a, <2>b DEF Packages!Upload, Packages!TypeOK
  <2>2. PackagesCalm'
    BY <1>3 DEF Packages!Upload, Packages!Free, Packages!UploadFree, Packages!Begin, Packages!Came, Packages!Under, Packages!Fresh, Packages!Call, PackagesCalm
  <2> QED
    BY <2>1, <2>2, Zenon DEF PackagesCore
<1>4. CASE Packages!CloseUpload
  <2>1. Packages!TypeOK'
    BY <1>4 DEF Packages!CloseUpload, Packages!Free, Packages!UploadFree, Packages!Begin, Packages!Came, Packages!Under, Packages!Fresh, Packages!Call, Packages!TypeOK
  <2>2. PackagesCalm'
    BY <1>4 DEF Packages!CloseUpload, Packages!Free, Packages!UploadFree, Packages!Begin, Packages!Came, Packages!Under, Packages!Fresh, Packages!Call, PackagesCalm
  <2> QED
    BY <2>1, <2>2, Zenon DEF PackagesCore
<1>5. ASSUME NEW p \in DOMAIN s2, Packages!AskDelete(p) PROVE PackagesCore'
  <2>1. Packages!TypeOK'
    BY <1>5 DEF Packages!AskDelete, Packages!Free, Packages!UploadFree, Packages!Begin, Packages!Came, Packages!Under, Packages!Fresh, Packages!Call, Packages!TypeOK
  <2>2. PackagesCalm'
    BY <1>5 DEF Packages!AskDelete, Packages!Free, Packages!UploadFree, Packages!Begin, Packages!Came, Packages!Under, Packages!Fresh, Packages!Call, PackagesCalm
  <2> QED
    BY <2>1, <2>2, Zenon DEF PackagesCore
<1>6. ASSUME NEW p \in DOMAIN s2, Packages!EditPackage(p) PROVE PackagesCore'
  <2>1. Packages!TypeOK'
    BY <1>6 DEF Packages!EditPackage, Packages!Free, Packages!UploadFree, Packages!Begin, Packages!Came, Packages!Under, Packages!Fresh, Packages!Call, Packages!TypeOK
  <2>2. PackagesCalm'
    BY <1>6 DEF Packages!EditPackage, Packages!Free, Packages!UploadFree, Packages!Begin, Packages!Came, Packages!Under, Packages!Fresh, Packages!Call, PackagesCalm
  <2> QED
    BY <2>1, <2>2, Zenon DEF PackagesCore
<1>7. ASSUME NEW yes \in BOOLEAN, Packages!Answer(yes) PROVE PackagesCore'
  <2>a. s11' \in BOOLEAN /\ s3' \in BOOLEAN
    BY <1>7, Zenon DEF Packages!Answer, Packages!Begin, Packages!TypeOK
  <2>b. s4' \subseteq Packages!Call
    BY <1>7 DEF Packages!Answer, Packages!Begin, Packages!Call, Packages!TypeOK
  <2>1. Packages!TypeOK'
    BY <1>7, <2>a, <2>b DEF Packages!Answer, Packages!TypeOK
  <2>2. PackagesCalm'
    BY <1>7 DEF Packages!Answer, Packages!Free, Packages!UploadFree, Packages!Begin, Packages!Came, Packages!Under, Packages!Fresh, Packages!Call, PackagesCalm
  <2> QED
    BY <2>1, <2>2, Zenon DEF PackagesCore
<1>8. CASE Packages!Edit
  <2>1. Packages!TypeOK'
    BY <1>8 DEF Packages!Edit, Packages!Free, Packages!UploadFree, Packages!Begin, Packages!Came, Packages!Under, Packages!Fresh, Packages!Call, Packages!TypeOK
  <2>2. PackagesCalm'
    BY <1>8 DEF Packages!Edit, Packages!Free, Packages!UploadFree, Packages!Begin, Packages!Came, Packages!Under, Packages!Fresh, Packages!Call, PackagesCalm
  <2> QED
    BY <2>1, <2>2, Zenon DEF PackagesCore
<1>9. CASE Packages!SubmitEdit
  <2>1. Packages!TypeOK'
    BY <1>9 DEF Packages!SubmitEdit, Packages!Free, Packages!UploadFree, Packages!Begin, Packages!Came, Packages!Under, Packages!Fresh, Packages!Call, Packages!TypeOK
  <2>2. PackagesCalm'
    BY <1>9 DEF Packages!SubmitEdit, Packages!Free, Packages!UploadFree, Packages!Begin, Packages!Came, Packages!Under, Packages!Fresh, Packages!Call, PackagesCalm
  <2> QED
    BY <2>1, <2>2, Zenon DEF PackagesCore
<1>10. CASE Packages!Deleted
  <2>a. /\ s1' \in [Stored -> Types \cup {None}] /\ s3' \in BOOLEAN /\ s12' \in BOOLEAN
        /\ s4' \subseteq Packages!Call
    BY <1>10, AnswerCame, Zenon DEF Packages!Deleted
  <2>b. DOMAIN s2' \subseteq Stored /\ (\A p \in DOMAIN s2' : s2'[p] \in Types)
    BY <1>10 DEF Packages!Deleted, Packages!TypeOK, Packages!Restrict
  <2>c. s9' \in {None, "page"}
    BY <1>10 DEF Packages!Deleted, Packages!Under
  <2>1. Packages!TypeOK'
    BY <1>10, <2>a, <2>b, <2>c DEF Packages!Deleted, Packages!TypeOK
  <2>2. PackagesCalm'
    BY <1>10 DEF Packages!Deleted, Packages!Free, Packages!UploadFree, Packages!Begin, Packages!Came, Packages!Under, Packages!Fresh, Packages!Call, PackagesCalm
  <2> QED
    BY <2>1, <2>2, Zenon DEF PackagesCore
<1>11. CASE Packages!Updated
  <2>a. /\ s1' \in [Stored -> Types \cup {None}] /\ s3' \in BOOLEAN /\ s12' \in BOOLEAN
        /\ s4' \subseteq Packages!Call
    BY <1>11, AnswerCame, Zenon DEF Packages!Updated
  <2>b. s10' \in BOOLEAN
    BY <1>11, Zenon DEF Packages!Updated, Packages!TypeOK
  <2>c. s9' \in {None, "page"}
    BY <1>11 DEF Packages!Updated, Packages!Under
  <2>1. Packages!TypeOK'
    BY <1>11, <2>a, <2>b, <2>c DEF Packages!Updated, Packages!TypeOK
  <2>2. PackagesCalm'
    BY <1>11 DEF Packages!Updated, Packages!Free, Packages!UploadFree, Packages!Begin, Packages!Came, Packages!Under, Packages!Fresh, Packages!Call, PackagesCalm
  <2> QED
    BY <2>1, <2>2, Zenon DEF PackagesCore
<1>12. CASE Packages!UploadCallback
  <2>a. /\ s1' \in [Stored -> Types \cup {None}] /\ s3' \in BOOLEAN /\ s12' \in BOOLEAN
        /\ s4' \subseteq Packages!Call
    BY <1>12, AnswerCame, Zenon DEF Packages!UploadCallback
  <2>b. s10' \in BOOLEAN
    BY <1>12, Zenon DEF Packages!UploadCallback, Packages!TypeOK
  <2>c. s9' \in {None, "page"}
    BY <1>12 DEF Packages!UploadCallback, Packages!Under
  <2>1. Packages!TypeOK'
    BY <1>12, <2>a, <2>b, <2>c DEF Packages!UploadCallback, Packages!TypeOK
  <2>2. PackagesCalm'
    BY <1>12 DEF Packages!UploadCallback, Packages!Free, Packages!UploadFree, Packages!Begin, Packages!Came, Packages!Under, Packages!Fresh, Packages!Call, PackagesCalm
  <2> QED
    BY <2>1, <2>2, Zenon DEF PackagesCore
<1>13. CASE Packages!CallbackLost
  <2>1. Packages!TypeOK'
    BY <1>13 DEF Packages!CallbackLost, Packages!Free, Packages!UploadFree, Packages!Begin, Packages!Came, Packages!Under, Packages!Fresh, Packages!Call, Packages!TypeOK
  <2>2. PackagesCalm'
    BY <1>13 DEF Packages!CallbackLost, Packages!Free, Packages!UploadFree, Packages!Begin, Packages!Came, Packages!Under, Packages!Fresh, Packages!Call, PackagesCalm
  <2> QED
    BY <2>1, <2>2, Zenon DEF PackagesCore
<1>14. CASE Packages!Reload
  <2>a. PICK done \in SUBSET s4 :
            s1' = [p \in Stored |-> IF p \in {c.pkg : c \in done}
                      THEN Packages!After(CHOOSE c \in done : c.pkg = p) ELSE s1[p]]
    BY <1>14 DEF Packages!Reload
  <2>b. \A p \in Stored : p \in {c.pkg : c \in done} =>
            (CHOOSE c \in done : c.pkg = p) \in Packages!Call
    BY DEF Packages!TypeOK
  <2>c. s1' \in [Stored -> Types \cup {None}]
    BY <2>a, <2>b, AfterACall DEF Packages!TypeOK
  <2>d. DOMAIN s2' \subseteq Stored /\ \A p \in DOMAIN s2' : s2'[p] \in Types
    BY <1>14, <2>c, RowsOf DEF Packages!Reload, Packages!Fresh
  <2>e. s7' \in 0 .. MaxUploads /\ s8' \subseteq s13' /\ s13' \subseteq 1 .. s7' /\ s4' \subseteq Packages!Call
    BY <1>14 DEF Packages!Reload, Packages!Fresh
  <2>f. {s5', s6'} \subseteq {None} /\ s9' = None
    BY <1>14 DEF Packages!Reload, Packages!Fresh
  <2>g. s3' \in BOOLEAN /\ s10' \in BOOLEAN /\ s11' \in BOOLEAN /\ s12' \in BOOLEAN
    BY <1>14, Zenon DEF Packages!Reload, Packages!Fresh
  <2>1. Packages!TypeOK'
    BY <2>c, <2>d, <2>e, <2>f, <2>g, Zenon DEF Packages!TypeOK
  <2>2. PackagesCalm'
    BY <1>14 DEF Packages!Reload, Packages!Free, Packages!UploadFree, Packages!Begin, Packages!Came, Packages!Under, Packages!Fresh, Packages!Call, PackagesCalm
  <2> QED
    BY <2>1, <2>2, Zenon DEF PackagesCore
<1>15. CASE UNCHANGED Packages!vars
    BY <1>15 DEF Packages!vars, Packages!TypeOK, PackagesCalm, Packages!Call
<1> HIDE DEF PackagesCore
<1> QED
    BY <1>1, <1>2, <1>3, <1>4, <1>5, <1>6, <1>7, <1>8, <1>9, <1>10, <1>11, <1>12, <1>13, <1>14, <1>15 DEF Packages!Next, Packages!OnRow
-----------------------------------------------------------------------------
(* Cascades                                                                *)
(* Choices: those above a level, and the options for them                  *)
CascadeChoice == Cascade!Offered \cup {None}
CascadeDead(p) == Cascade!OptionsOf(p) = <<>>

LEMMA CascadeParams ==
    ASSUME NEW values, NEW S, NEW n \in Nat, \A k \in 1 .. n : values[k] \in S
    PROVE  LET p == Cascade!GetParams(values, n + 1)
           IN  p \in Seq(S) /\ Len(p) = n /\ DOMAIN p = 1 .. n /\ \A k \in 1 .. n : p[k] = values[k]
<1>1. Cascade!GetParams(values, n + 1) = [k \in 1 .. n |-> values[k]]
    BY DEF Cascade!GetParams
<1> QED
    BY <1>1

(* The options of a level are among those of the urls.                     *)
LEMMA CascadeOptions ==
    ASSUME NEW p
    PROVE  /\ Cascade!OptionsOf(p) \in Seq(Cascade!Offered)
           /\ Cascade!Range(Cascade!OptionsOf(p)) \subseteq Cascade!Offered
           /\ ~CascadeDead(p) => /\ Cascade!OptionsOf(p)[1] \in Cascade!Range(Cascade!OptionsOf(p))
                                 /\ p \in DOMAIN Children
           /\ CascadeDead(p) => Cascade!Range(Cascade!OptionsOf(p)) = {}
<1>1. Cascade!OptionsOf(p) \in Seq(Cascade!Offered)
    BY CascadeAssumption DEF Cascade!OptionsOf
<1> DEFINE o == Cascade!OptionsOf(p)
<1>2. ASSUME NEW x \in Cascade!Range(o)
      PROVE  x \in Cascade!Offered
    BY <1>1, <1>2 DEF Cascade!Range
<1>3. o # <<>> => o[1] \in Cascade!Range(o)
    BY <1>1 DEF Cascade!Range
<1>4. o # <<>> => p \in DOMAIN Children
    BY DEF Cascade!OptionsOf
<1>5. o = <<>> => Cascade!Range(o) = {}
    BY DEF Cascade!Range
<1> QED
    BY <1>1, <1>2, <1>3, <1>4, <1>5 DEF CascadeDead

(* Under choices without options there are none.                           *)
LEMMA CascadeUnderDead ==
    ASSUME NEW S, NEW p \in Seq(S), NEW q \in Seq(S), CascadeDead(p), Len(p) <= Len(q),
           \A k \in 1 .. Len(p) : q[k] = p[k]
    PROVE  CascadeDead(q)
<1>1. CASE Len(p) = Len(q)
    <2>1. p = q
        BY <1>1, SeqEqual
    <2> QED
        BY <2>1
<1>2. CASE Len(p) < Len(q)
    <2> DEFINE n == Len(p)
    <2>1. n \in Nat /\ n + 1 \in DOMAIN q
        BY <1>2
    <2>2. Cascade!GetParams(q, n + 1) = p
        <3>1. \A k \in 1 .. n : q[k] \in S
            BY <1>2
        <3>2. Cascade!GetParams(q, n + 1) \in Seq(S) /\ Len(Cascade!GetParams(q, n + 1)) = n
              /\ \A k \in 1 .. n : Cascade!GetParams(q, n + 1)[k] = q[k]
            BY <2>1, <3>1, CascadeParams
        <3> QED
            BY <3>2, SeqEqual
    <2>3. CascadeDead(Cascade!GetParams(q, n + 1))
        BY <2>2
    <2>4. Cascade!Range(Cascade!OptionsOf(Cascade!GetParams(q, n + 1))) = {}
        BY <2>3, CascadeOptions
    <2> HIDE DEF n
    <2>5. ~CascadeDead(q) => q \in DOMAIN Children /\ Children[q] # <<>>
        BY DEF CascadeDead, Cascade!OptionsOf
    <2> QED
        BY <2>1, <2>4, <2>5, CascadeAssumption
<1> QED
    BY <1>1, <1>2

(* What has options is made of choices that are offered.                   *)
LEMMA CascadeAlive ==
    ASSUME NEW p, ~CascadeDead(p), NEW k \in DOMAIN p
    PROVE  p[k] \in Cascade!Offered /\ p[k] # None
<1>1. p \in DOMAIN Children /\ Children[p] # <<>>
    BY DEF CascadeDead, Cascade!OptionsOf
<1>2. p[k] \in Cascade!Range(Cascade!OptionsOf(Cascade!GetParams(p, k)))
    BY <1>1, CascadeAssumption
<1>3. p[k] \in Cascade!Offered
    BY <1>2, CascadeOptions
<1> QED
    BY <1>3, CascadeAssumption

(* What every step keeps, for the provers                                  *)
CascadeSettles ==
    \/ \E i \in 1 .. Len(s3) : Cascade!Decides(i)
    \/ /\ \A k \in 1 .. Depth : Cascade!Right(k)
       /\ \A i \in 1 .. Len(s3) :
             CascadeDead(s3[i]) /\ CascadeDead(Cascade!GetParams(s1, Len(s3[i]) + 1))
CascadeTyped ==
    /\ s1 \in [1 .. Depth -> CascadeChoice]
    /\ s2 \in [1 .. Depth -> DOMAIN Children \cup {Cascade!Cleared}]
    /\ s3 \in Seq(Seq(CascadeChoice)) /\ Len(s3) <= MaxAsked /\ s4 \in BOOLEAN
    /\ \A i \in 1 .. Len(s3) : Len(s3[i]) < Depth
CascadeCore == CascadeTyped /\ (~s4 => CascadeSettles)

LEMMA CascadeSame == CascadeCore <=> Cascade!Inv
<1> USE CascadeAssumption
<1>1. Cascade!Levels = 1 .. Depth
    BY DEF Cascade!Levels
<1>2. ASSUME s3 \in Seq(Seq(CascadeChoice))
      PROVE  DOMAIN s3 = 1 .. Len(s3) /\ (s3 = <<>> => Len(s3) = 0)
    BY <1>2
<1>3. ASSUME s3 \in Seq(Seq(CascadeChoice)), NEW i \in 1 .. Len(s3), NEW a, NEW b
      PROVE  (a > b) <=> (b < a)
    OBVIOUS
<1>4. CascadeTyped <=> Cascade!TypeOK /\ \A i \in DOMAIN s3 : Len(s3[i]) < Depth
    BY <1>1, <1>2, Zenon DEF CascadeTyped, Cascade!TypeOK, CascadeChoice
<1>5. ASSUME CascadeTyped
      PROVE  CascadeSettles <=>
               \/ \E i \in DOMAIN s3 : Cascade!Decides(i)
               \/ /\ \A k \in Cascade!Levels : Cascade!Right(k)
                  /\ \A i \in DOMAIN s3 :
                        /\ Cascade!OptionsOf(s3[i]) = <<>>
                        /\ Cascade!OptionsOf(Cascade!GetParams(s1, Len(s3[i]) + 1)) = <<>>
    BY <1>1, <1>2, <1>5, Zenon DEF CascadeSettles, CascadeTyped, CascadeDead
<1>6. ASSUME CascadeTyped, ~s4 => CascadeSettles
      PROVE  Cascade!ChildrenFollow
    <2>1. ASSUME s3 = <<>>, ~s4
          PROVE  \A k \in 1 .. Depth : Cascade!Right(k)
        <3>1. 1 .. Len(s3) = {}
            BY <2>1
        <3> QED
            BY <1>6, <2>1, <3>1, Zenon DEF CascadeSettles
    <2> QED
        BY <1>1, <2>1, Zenon DEF Cascade!ChildrenFollow
<1> QED
    BY <1>4, <1>5, <1>6, Zenon DEF CascadeCore, Cascade!Inv

LEMMA CascadeInit == Cascade!Init => Cascade!Inv
<1> SUFFICES ASSUME Cascade!Init
             PROVE  CascadeCore
    BY CascadeSame
<1> USE CascadeAssumption
<1>1. /\ s1 = [k \in 1 .. Depth |-> None] /\ s2 = [k \in 1 .. Depth |-> Cascade!Cleared]
      /\ s3 = <<<<>>>> /\ s4 = FALSE
    BY DEF Cascade!Init, Cascade!Levels
<1>2. <<>> \in Seq(CascadeChoice)
    OBVIOUS
<1>3. s3 \in Seq(Seq(CascadeChoice)) /\ Len(s3) = 1 /\ s3[1] = <<>>
    BY <1>1, <1>2
<1>4. Len(s3[1]) = 0 /\ s3[1] \in Seq(CascadeChoice)
    BY <1>2, <1>3
<1>5. CascadeTyped
    <2>1. s1 \in [1 .. Depth -> CascadeChoice]
        BY <1>1 DEF CascadeChoice
    <2>2. s2 \in [1 .. Depth -> DOMAIN Children \cup {Cascade!Cleared}]
        BY <1>1
    <2>3. \A i \in 1 .. Len(s3) : Len(s3[i]) < Depth
        BY <1>3, <1>4
    <2>4. s4 \in BOOLEAN
        BY <1>1, Zenon
    <2>5. Len(s3) <= MaxAsked
        BY <1>3
    <2> QED
        BY <1>3, <2>1, <2>2, <2>3, <2>4, <2>5, Zenon DEF CascadeTyped
<1>6. Cascade!Decides(1)
    <2>1. Cascade!GetParams(s1, 0 + 1) \in Seq(CascadeChoice)
          /\ Len(Cascade!GetParams(s1, 0 + 1)) = 0
        <3>1. 0 \in Nat /\ \A k \in 1 .. 0 : s1[k] \in CascadeChoice
            OBVIOUS
        <3> QED
            BY <3>1, CascadeParams
    <2>2. s3[1] = Cascade!GetParams(s1, Len(s3[1]) + 1)
        BY <1>3, <1>4, <2>1
    <2>3. None \notin Cascade!Range(s3[1])
        BY <1>3 DEF Cascade!Range
    <2>4. \A j \in DOMAIN s3 : j = 1
        BY <1>1
    <2> QED
        BY <1>4, <2>2, <2>3, <2>4 DEF Cascade!Decides, Cascade!Levels
<1> QED
    BY <1>3, <1>5, <1>6 DEF CascadeCore, CascadeSettles

(* A level that is right, and a request that decides                       *)
RightChoice(above, o, c) ==
    IF CascadeDead(above) THEN o = Cascade!Cleared /\ c = None
    ELSE o = above /\ c \in Cascade!Range(Cascade!OptionsOf(above))

LEMMA CascadeRight ==
    ASSUME NEW k
    PROVE  /\ Cascade!Right(k) <=> RightChoice(Cascade!GetParams(s1, k), s2[k], s1[k])
           /\ Cascade!Right(k)' <=> RightChoice(Cascade!GetParams(s1', k), s2'[k], s1'[k])
<1>1. Cascade!Right(k) <=> RightChoice(Cascade!GetParams(s1, k), s2[k], s1[k])
    BY Zenon DEF Cascade!Right, RightChoice, CascadeDead
<1>2. Cascade!Right(k)' <=> RightChoice(Cascade!GetParams(s1', k), s2'[k], s1'[k])
    BY Zenon DEF Cascade!Right, RightChoice, CascadeDead
<1> QED
    BY <1>1, <1>2

LEMMA CascadeDecides ==
    ASSUME NEW i, DOMAIN s3' = 1 .. Len(s3'),
           s3'[i] = Cascade!GetParams(s1', Len(s3'[i]) + 1), None \notin Cascade!Range(s3'[i]),
           \A k \in 1 .. Depth : k <= Len(s3'[i]) => Cascade!Right(k)',
           \A j \in 1 .. Len(s3') : Len(s3'[j]) >= Len(s3'[i]),
           \A j \in 1 .. Len(s3') : j > i =>
              Len(s3'[j]) > Len(s3'[i]) /\ \A k \in 1 .. Len(s3'[i]) : s3'[j][k] = s3'[i][k]
    PROVE  Cascade!Decides(i)'
    BY Zenon DEF Cascade!Decides, Cascade!Levels

(* A level stays right while it and those above stay.                      *)
LEMMA CascadeRightStays ==
    ASSUME NEW k \in 1 .. Depth, \A l \in 1 .. k : s1'[l] = s1[l], s2'[k] = s2[k],
           Cascade!Right(k)
    PROVE  Cascade!Right(k)'
<1>1. Cascade!GetParams(s1', k) = Cascade!GetParams(s1, k)
    BY CascadeAssumption DEF Cascade!GetParams
<1>2. s1'[k] = s1[k]
    BY CascadeAssumption
<1> QED
    BY <1>1, <1>2, CascadeRight, Zenon

(* A new request decides when those levels are right that it is not for.   *)
LEMMA CascadeDecidesNew ==
    ASSUME NEW n \in 1 .. Depth - 1, NEW i \in 1 .. Len(s3'), CascadeTyped',
           s3'[i] = Cascade!GetParams(s1', n + 1), i = Len(s3'),
           \A k \in 1 .. n : s1'[k] # None /\ Cascade!Right(k)',
           \A j \in 1 .. Len(s3') : Len(s3'[j]) >= n
    PROVE  Cascade!Decides(i)'
<1> USE CascadeAssumption
<1> DEFINE p == Cascade!GetParams(s1', n + 1)
<1>1. p \in Seq(CascadeChoice) /\ Len(p) = n /\ DOMAIN p = 1 .. n /\ \A k \in 1 .. n : p[k] = s1'[k]
    <2>1. n \in Nat /\ \A k \in 1 .. n : s1'[k] \in CascadeChoice
        BY DEF CascadeTyped
    <2> QED
        BY <2>1, CascadeParams
<1>2. None \notin Cascade!Range(p)
    BY <1>1 DEF Cascade!Range
<1>3. DOMAIN s3' = 1 .. Len(s3') /\ Len(s3') \in Nat
    BY DEF CascadeTyped
<1>4. \A j \in 1 .. Len(s3') : ~(j > i)
    BY <1>3
<1> HIDE DEF p
<1>5. s3'[i] = p /\ Len(s3'[i]) = n /\ p = Cascade!GetParams(s1', Len(s3'[i]) + 1)
    BY <1>1 DEF p
<1>6. \A k \in 1 .. Depth : k <= n => Cascade!Right(k)'
    OBVIOUS
<1> QED
    BY <1>2, <1>3, <1>4, <1>5, <1>6, CascadeDecides, Zenon

(* A request that decides goes on to.                                      *)
LEMMA CascadeDecidesStill ==
    ASSUME CascadeTyped, CascadeTyped', NEW i \in 1 .. Len(s3), Cascade!Decides(i),
           NEW h \in 1 .. Len(s3'), s3'[h] = s3[i],
           \A k \in 1 .. Depth : k <= Len(s3[i]) => s1'[k] = s1[k] /\ s2'[k] = s2[k],
           \A j \in 1 .. Len(s3') : Len(s3'[j]) >= Len(s3[i]),
           \A j \in 1 .. Len(s3') : j > h =>
              Len(s3'[j]) > Len(s3[i]) /\ \A k \in 1 .. Len(s3[i]) : s3'[j][k] = s3[i][k]
    PROVE  Cascade!Decides(h)'
<1> USE CascadeAssumption
<1> DEFINE n == Len(s3[i])
<1>1. n \in Nat /\ n < Depth /\ DOMAIN s3' = 1 .. Len(s3') /\ DOMAIN s3 = 1 .. Len(s3)
    BY DEF CascadeTyped
<1>2. /\ s3[i] = Cascade!GetParams(s1, n + 1) /\ None \notin Cascade!Range(s3[i])
      /\ \A k \in 1 .. Depth : k <= n => Cascade!Right(k)
    BY Zenon DEF Cascade!Decides, Cascade!Levels
<1>3. Cascade!GetParams(s1', n + 1) = Cascade!GetParams(s1, n + 1)
    BY <1>1 DEF Cascade!GetParams
<1>4. ASSUME NEW k \in 1 .. Depth, k <= n
      PROVE  Cascade!Right(k)'
    <2>1. \A l \in 1 .. k : l \in 1 .. Depth /\ l <= n
        BY <1>1, <1>4
    <2>2. \A l \in 1 .. k : s1'[l] = s1[l]
        BY <2>1
    <2> QED
        BY <1>2, <1>4, <2>2, CascadeRightStays
<1>5. /\ s3'[h] = Cascade!GetParams(s1', Len(s3'[h]) + 1)
      /\ None \notin Cascade!Range(s3'[h]) /\ Len(s3'[h]) = n
    BY <1>2, <1>3
<1>6. /\ \A j \in 1 .. Len(s3') : Len(s3'[j]) >= n
      /\ \A j \in 1 .. Len(s3') : j > h =>
            Len(s3'[j]) > n /\ \A k \in 1 .. n : s3'[j][k] = s3'[h][k]
    OBVIOUS
<1> HIDE DEF n
<1> QED
    BY <1>1, <1>4, <1>5, <1>6, CascadeDecides, Zenon

(* OnChange, for values that are chosen                                    *)
LEMMA CascadeOnChange ==
    ASSUME CascadeTyped, NEW n \in 1 .. Depth, NEW STATE v, NEW STATE opts, NEW STATE queue,
           queue \in Seq(Seq(CascadeChoice)), v \in CascadeChoice,
           opts \in [1 .. Depth -> DOMAIN Children \cup {Cascade!Cleared}],
           \A i \in 1 .. Len(queue) : Len(queue[i]) < Depth,
           s4' \in BOOLEAN, Cascade!OnChange(n, v, opts, queue)
    PROVE  /\ CascadeTyped'
           /\ \A k \in 1 .. Depth : s1'[k] = IF k < n THEN s1[k] ELSE IF k = n THEN v ELSE None
           /\ \A k \in 1 .. Depth : s2'[k] = IF v = None /\ k > n THEN Cascade!Cleared ELSE opts[k]
           /\ ~(n < Depth /\ v # None) => s3' = queue
           /\ n < Depth /\ v # None =>
                 /\ Len(s3') = Len(queue) + 1 /\ \A i \in 1 .. Len(queue) : s3'[i] = queue[i]
                 /\ s3'[Len(s3')] = Cascade!GetParams(s1', n + 1)
<1> USE CascadeAssumption
<1>1. s1' = [k \in 1 .. Depth |-> IF k < n THEN s1[k] ELSE IF k = n THEN v ELSE None]
    <2> DEFINE w == [k \in 1 .. Depth |-> CASE k < n -> s1[k] [] k = n -> v [] OTHER -> None]
    <2>1. s1' = w
        BY Zenon DEF Cascade!OnChange, Cascade!Levels
    <2>2. \A k \in 1 .. Depth : w[k] = IF k < n THEN s1[k] ELSE IF k = n THEN v ELSE None
        OBVIOUS
    <2> HIDE DEF w
    <2>3. DOMAIN w = 1 .. Depth
        BY DEF w
    <2>4. w = [k \in 1 .. Depth |-> w[k]]
        BY DEF w
    <2> QED
        BY <2>1, <2>2, <2>4
<1>2. s1' \in [1 .. Depth -> CascadeChoice]
    BY <1>1 DEF CascadeTyped, CascadeChoice
<1>3. s2' = IF v = None THEN [k \in 1 .. Depth |-> IF k > n THEN Cascade!Cleared ELSE opts[k]]
            ELSE opts
    BY Zenon DEF Cascade!OnChange, Cascade!Levels
<1>4. s2' \in [1 .. Depth -> DOMAIN Children \cup {Cascade!Cleared}]
    BY <1>3
<1> DEFINE p == Cascade!GetParams(s1', n + 1)
<1>5. p \in Seq(CascadeChoice) /\ Len(p) = n
    <2>1. n \in Nat /\ \A k \in 1 .. n : s1'[k] \in CascadeChoice
        BY <1>2
    <2> QED
        BY <2>1, CascadeParams
<1>6. s3' = IF n < Depth /\ v # None THEN Append(queue, p) ELSE queue
    <2> DEFINE w == [k \in Cascade!Levels |-> CASE k < n -> s1[k] [] k = n -> v [] OTHER -> None]
    <2>1. s1' = w /\ s3' = IF n < Depth /\ v # None
                           THEN Append(queue, Cascade!GetParams(w, n + 1)) ELSE queue
        BY Zenon DEF Cascade!OnChange
    <2> HIDE DEF w
    <2> QED
        BY <2>1, Zenon
<1> HIDE DEF p
<1>7. Len(s3') <= MaxAsked
    BY Zenon DEF Cascade!OnChange
<1>8. ASSUME n < Depth, v # None
      PROVE  /\ s3' \in Seq(Seq(CascadeChoice)) /\ Len(s3') = Len(queue) + 1
             /\ \A i \in 1 .. Len(queue) : s3'[i] = queue[i]
             /\ s3'[Len(s3')] = p
             /\ \A i \in 1 .. Len(s3') : Len(s3'[i]) < Depth
    <2>1. s3' = Append(queue, p)
        BY <1>6, <1>8
    <2>2. /\ s3' \in Seq(Seq(CascadeChoice)) /\ Len(s3') = Len(queue) + 1
          /\ \A i \in 1 .. Len(queue) : s3'[i] = queue[i] /\ s3'[Len(queue) + 1] = p
        BY <1>5, <2>1, AppendProperties
    <2>3. s3'[Len(s3')] = p
        BY <1>5, <2>1, <2>2, AppendProperties
    <2>4. ASSUME NEW i \in 1 .. Len(s3')
          PROVE  Len(s3'[i]) < Depth
        <3>1. CASE i \in 1 .. Len(queue)
            BY <2>2, <3>1
        <3>2. CASE i = Len(s3')
            BY <1>5, <1>8, <2>3, <3>2
        <3>3. Len(queue) \in Nat
            OBVIOUS
        <3> QED
            BY <2>2, <3>1, <3>2, <3>3
    <2> QED
        BY <2>2, <2>3, <2>4
<1>9. s3' \in Seq(Seq(CascadeChoice)) /\ \A i \in 1 .. Len(s3') : Len(s3'[i]) < Depth
    BY <1>6, <1>8
<1>10. CascadeTyped'
    BY <1>2, <1>4, <1>7, <1>9, Zenon DEF CascadeTyped
<1>11. \A k \in 1 .. Depth : s1'[k] = IF k < n THEN s1[k] ELSE IF k = n THEN v ELSE None
    BY <1>1
<1>12. \A k \in 1 .. Depth : s2'[k] = IF v = None /\ k > n THEN Cascade!Cleared ELSE opts[k]
    BY <1>3
<1> QED
    BY <1>6, <1>8, <1>10, <1>11, <1>12 DEF p

(* What the options of a level were made for, when it is right             *)
LEMMA CascadeRightAbove ==
    ASSUME NEW k \in 1 .. Depth, CascadeTyped, Cascade!Right(k),
           Cascade!Range(Cascade!OptionsOf(s2[k])) # {}
    PROVE  s2[k] = Cascade!GetParams(s1, k) /\ ~CascadeDead(Cascade!GetParams(s1, k))
<1>1. ASSUME CascadeDead(Cascade!GetParams(s1, k))
      PROVE  FALSE
    <2>1. s2[k] = Cascade!Cleared
        BY <1>1, CascadeRight, Zenon DEF RightChoice
    <2>2. ~CascadeDead(Cascade!Cleared)
        BY <2>1, CascadeOptions
    <2>3. 1 \in DOMAIN Cascade!Cleared /\ Cascade!Cleared[1] = None
        BY DEF Cascade!Cleared
    <2> QED
        BY <2>2, <2>3, CascadeAlive
<1>2. s2[k] = Cascade!GetParams(s1, k)
    BY <1>1, CascadeRight, Zenon DEF RightChoice
<1> QED
    BY <1>1, <1>2

(* The user chooses.                                                       *)
LEMMA CascadeChange ==
    ASSUME CascadeCore, NEW n \in 1 .. Depth, Cascade!Change(n)
    PROVE  CascadeCore'
<1> USE CascadeAssumption
<1>1. PICK v \in Cascade!Range(Cascade!OptionsOf(s2[n])) : Cascade!OnChange(n, v, s2, s3)
    BY Zenon DEF Cascade!Change
<1>2. s4' = s4 /\ s4 \in BOOLEAN /\ CascadeTyped
    BY Zenon DEF Cascade!Change, CascadeCore, CascadeTyped
<1>3. v \in Cascade!Offered /\ v # None /\ v \in CascadeChoice
    BY <1>1, CascadeOptions DEF CascadeChoice
<1>4. /\ CascadeTyped'
      /\ \A k \in 1 .. Depth : s1'[k] = IF k < n THEN s1[k] ELSE IF k = n THEN v ELSE None
      /\ \A k \in 1 .. Depth : s2'[k] = IF v = None /\ k > n THEN Cascade!Cleared ELSE s2[k]
      /\ ~(n < Depth /\ v # None) => s3' = s3
      /\ n < Depth /\ v # None =>
            /\ Len(s3') = Len(s3) + 1 /\ \A i \in 1 .. Len(s3) : s3'[i] = s3[i]
            /\ s3'[Len(s3')] = Cascade!GetParams(s1', n + 1)
    <2>1. /\ s3 \in Seq(Seq(CascadeChoice))
          /\ s2 \in [1 .. Depth -> DOMAIN Children \cup {Cascade!Cleared}]
          /\ \A i \in 1 .. Len(s3) : Len(s3[i]) < Depth
        BY <1>2, Zenon DEF CascadeTyped
    <2>2. s4' \in BOOLEAN
        BY <1>2, Zenon
    <2> QED
        BY <1>1, <1>2, <1>3, <2>1, <2>2, CascadeOnChange
<1>5. /\ \A k \in 1 .. Depth : k < n => s1'[k] = s1[k]
      /\ s1'[n] = v /\ \A k \in 1 .. Depth : s2'[k] = s2[k]
    BY <1>3, <1>4
<1>6. Len(s3) \in Nat /\ \A i \in 1 .. Len(s3) : Len(s3[i]) \in Nat /\ Len(s3[i]) < Depth
    BY <1>2 DEF CascadeTyped
(* Levels above stay right, and this one is when it was.                   *)
<1>7. ASSUME NEW k \in 1 .. Depth, k < n, Cascade!Right(k)
      PROVE  Cascade!Right(k)'
    <2>1. \A l \in 1 .. k : s1'[l] = s1[l]
        BY <1>5, <1>7
    <2> QED
        BY <1>5, <1>7, <2>1, CascadeRightStays
<1>8. ASSUME Cascade!Right(n)
      PROVE  Cascade!Right(n)' /\ ~CascadeDead(Cascade!GetParams(s1, n))
    <2>1. s2[n] = Cascade!GetParams(s1, n) /\ ~CascadeDead(Cascade!GetParams(s1, n))
        BY <1>1, <1>2, <1>8, CascadeRightAbove
    <2>2. Cascade!GetParams(s1', n) = Cascade!GetParams(s1, n)
        BY <1>5 DEF Cascade!GetParams
    <2>3. s2'[n] = Cascade!GetParams(s1, n) /\ v \in Cascade!Range(Cascade!OptionsOf(s2[n]))
        BY <1>1, <1>5, <2>1
    <2> QED
        BY <1>5, <2>1, <2>2, <2>3, CascadeRight, Zenon DEF RightChoice
(* If nothing above is open, the new request decides.                      *)
<1>9. ASSUME \A k \in 1 .. Depth : k <= n => Cascade!Right(k),
             \A k \in 1 .. Depth : k < n => s1[k] # None,
             \A i \in 1 .. Len(s3) : Len(s3[i]) >= n, n < Depth
      PROVE  \E i \in 1 .. Len(s3') : Cascade!Decides(i)'
    <2> DEFINE i == Len(s3')
    <2>1. i \in 1 .. Len(s3') /\ n \in 1 .. Depth - 1 /\ s3'[i] = Cascade!GetParams(s1', n + 1)
        BY <1>3, <1>4, <1>6, <1>9
    <2>2. \A k \in 1 .. n : s1'[k] # None /\ Cascade!Right(k)'
        <3>1. ASSUME NEW k \in 1 .. n
              PROVE  s1'[k] # None /\ Cascade!Right(k)'
            <4>1. CASE k < n
                BY <1>5, <1>7, <1>9, <4>1
            <4>2. CASE k = n
                BY <1>3, <1>5, <1>8, <1>9, <4>2
            <4> QED
                BY <4>1, <4>2
        <3> QED
            BY <3>1
    <2>3. ASSUME NEW j \in 1 .. Len(s3')
          PROVE  Len(s3'[j]) >= n
        <3>1. CASE j \in 1 .. Len(s3)
            BY <1>3, <1>4, <1>9, <3>1
        <3>2. CASE j = i
            <4>1. \A k \in 1 .. n : s1'[k] \in CascadeChoice
                BY <1>4 DEF CascadeTyped
            <4>2. n \in Nat
                OBVIOUS
            <4>3. Len(Cascade!GetParams(s1', n + 1)) = n
                BY <4>1, <4>2, CascadeParams
            <4> QED
                BY <2>1, <3>2, <4>3
        <3> QED
            BY <1>3, <1>4, <1>6, <1>9, <3>1, <3>2
    <2> QED
        BY <1>4, <2>1, <2>2, <2>3, CascadeDecidesNew
<1>10. ASSUME NEW i \in 1 .. Len(s3), Cascade!Decides(i)
       PROVE  \E h \in 1 .. Len(s3') : Cascade!Decides(h)'
    <2> DEFINE d == Len(s3[i])
    <2>1. /\ s3[i] = Cascade!GetParams(s1, d + 1) /\ None \notin Cascade!Range(s3[i])
          /\ \A k \in 1 .. Depth : k <= d => Cascade!Right(k)
          /\ \A j \in 1 .. Len(s3) : Len(s3[j]) >= d
          /\ \A j \in 1 .. Len(s3) : j > i =>
                Len(s3[j]) > d /\ \A k \in 1 .. d : s3[j][k] = s3[i][k]
        <3>1. DOMAIN s3 = 1 .. Len(s3)
            BY <1>2 DEF CascadeTyped
        <3> QED
            BY <1>10, <3>1, Zenon DEF Cascade!Decides, Cascade!Levels
    <2>2. d \in Nat /\ d < Depth
        BY <1>6
    <2>3. \A k \in 1 .. d : s3[i][k] = s1[k] /\ s1[k] # None
        <3>1. \A k \in 1 .. d : s1[k] \in CascadeChoice
            BY <1>2, <2>2 DEF CascadeTyped
        <3>2. /\ DOMAIN Cascade!GetParams(s1, d + 1) = 1 .. d
              /\ \A k \in 1 .. d : Cascade!GetParams(s1, d + 1)[k] = s1[k]
            BY <2>2, <3>1, CascadeParams
        <3>3. DOMAIN s3[i] = 1 .. d /\ \A k \in 1 .. d : s3[i][k] = s1[k]
            BY <2>1, <3>2
        <3> QED
            BY <2>1, <3>3 DEF Cascade!Range
    <2> HIDE DEF d
    <2>4. CASE n <= d
        <3>1. \A k \in 1 .. Depth : k <= n => Cascade!Right(k)
            BY <2>1, <2>2, <2>4
        <3>2. \A k \in 1 .. Depth : k < n => s1[k] # None
            BY <2>2, <2>3, <2>4
        <3>3. \A j \in 1 .. Len(s3) : Len(s3[j]) >= n
            BY <1>6, <2>1, <2>2, <2>4
        <3> QED
            BY <1>9, <2>2, <2>4, <3>1, <3>2, <3>3
    <2>5. CASE d < n
        <3>1. i \in 1 .. Len(s3') /\ s3'[i] = s3[i]
            BY <1>3, <1>4, <1>6
        <3>2. \A k \in 1 .. Depth : k <= Len(s3[i]) => s1'[k] = s1[k] /\ s2'[k] = s2[k]
            BY <1>5, <2>2, <2>5 DEF d
        <3>3. ASSUME NEW j \in 1 .. Len(s3'), j \notin 1 .. Len(s3)
              PROVE  Len(s3'[j]) = n /\ \A k \in 1 .. n : s3'[j][k] = s1'[k]
            <4>1. n < Depth /\ j = Len(s3')
                BY <1>3, <1>4, <1>6, <3>3
            <4>2. s3'[j] = Cascade!GetParams(s1', n + 1)
                BY <1>3, <1>4, <4>1
            <4>3. \A k \in 1 .. n : s1'[k] \in CascadeChoice
                BY <1>4, SMTT(60) DEF CascadeTyped
            <4>4. n \in Nat
                OBVIOUS
            <4>5. /\ Len(Cascade!GetParams(s1', n + 1)) = n
                  /\ \A k \in 1 .. n : Cascade!GetParams(s1', n + 1)[k] = s1'[k]
                BY <4>3, <4>4, CascadeParams, ZenonT(60)
            <4> QED
                BY <4>2, <4>5
        <3>4. \A j \in 1 .. Len(s3) : s3'[j] = s3[j]
            BY <1>3, <1>4
        <3>5. ASSUME NEW j \in 1 .. Len(s3')
              PROVE  /\ Len(s3'[j]) >= d
                     /\ j > i => Len(s3'[j]) > d /\ \A k \in 1 .. d : s3'[j][k] = s3[i][k]
            <4>1. CASE j \in 1 .. Len(s3)
                <5>1. s3'[j] = s3[j]
                    BY <3>4, <4>1
                <5> QED
                    BY <2>1, <4>1, <5>1
            <4>2. CASE j \notin 1 .. Len(s3)
                <5>1. Len(s3'[j]) = n /\ \A k \in 1 .. n : s3'[j][k] = s1'[k]
                    BY <3>3, <4>2
                <5>2. ASSUME NEW k \in 1 .. d
                      PROVE  s3'[j][k] = s3[i][k]
                    BY <1>5, <2>2, <2>3, <2>5, <5>1
                <5> QED
                    BY <2>2, <2>5, <5>1, <5>2
            <4> QED
                BY <4>1, <4>2
        <3> QED
            BY <1>2, <1>4, <1>10, <3>1, <3>2, <3>5, CascadeDecidesStill, Zenon DEF d
    <2> QED
        BY <2>2, <2>4, <2>5
<1>11. ASSUME \A k \in 1 .. Depth : Cascade!Right(k),
              \A i \in 1 .. Len(s3) :
                 CascadeDead(s3[i]) /\ CascadeDead(Cascade!GetParams(s1, Len(s3[i]) + 1))
       PROVE  CascadeSettles'
    <2> DEFINE p == Cascade!GetParams(s1, n)
    <2>1. ~CascadeDead(p) /\ Cascade!Right(n)'
        BY <1>8, <1>11
    <2>2. p \in Seq(CascadeChoice) /\ Len(p) = n - 1 /\ DOMAIN p = 1 .. n - 1
          /\ \A k \in 1 .. n - 1 : p[k] = s1[k]
        <3>1. n - 1 \in Nat /\ n = (n - 1) + 1 /\ \A k \in 1 .. n - 1 : s1[k] \in CascadeChoice
            BY <1>2 DEF CascadeTyped
        <3> DEFINE q == Cascade!GetParams(s1, (n - 1) + 1)
        <3>2. q \in Seq(CascadeChoice) /\ Len(q) = n - 1 /\ DOMAIN q = 1 .. n - 1
              /\ \A k \in 1 .. n - 1 : q[k] = s1[k]
            BY <3>1, CascadeParams
        <3>3. p = q
            BY <3>1, Zenon
        <3> HIDE DEF p, q
        <3> QED
            BY <3>2, <3>3
    <2> HIDE DEF p
    <2>3. CASE n < Depth
        <3>1. \A k \in 1 .. Depth : k < n => s1[k] # None
            BY <2>1, <2>2, CascadeAlive
        <3>2. ASSUME NEW j \in 1 .. Len(s3), ~(Len(s3[j]) >= n)
              PROVE  FALSE
            <4> DEFINE m == Len(s3[j])
                       q == Cascade!GetParams(s1, m + 1)
            <4>1. m \in Nat /\ m <= n - 1 /\ CascadeDead(q)
                BY <1>6, <1>11, <3>2
            <4>2. \A k \in 1 .. m : s1[k] \in CascadeChoice
                BY <1>2, <4>1 DEF CascadeTyped
            <4>3. q \in Seq(CascadeChoice) /\ Len(q) = m /\ \A k \in 1 .. m : q[k] = s1[k]
                BY <4>1, <4>2, CascadeParams, ZenonT(60)
            <4> HIDE DEF q, m
            <4>4. Len(q) <= Len(p) /\ \A k \in 1 .. Len(q) : p[k] = q[k]
                BY <2>2, <4>1, <4>3
            <4> QED
                BY <2>1, <2>2, <4>1, <4>3, <4>4, CascadeUnderDead
        <3>3. \A k \in 1 .. Depth : k <= n => Cascade!Right(k)
            BY <1>11
        <3> QED
            BY <1>9, <2>3, <3>1, <3>2, <3>3 DEF CascadeSettles
    <2>4. CASE n = Depth
        <3>1. s3' = s3
            BY <1>4, <2>4
        <3>2. ASSUME NEW k \in 1 .. Depth
              PROVE  Cascade!Right(k)'
            BY <1>7, <1>11, <2>1, <2>4
        <3>3. ASSUME NEW i \in 1 .. Len(s3)
              PROVE  Cascade!GetParams(s1', Len(s3[i]) + 1) = Cascade!GetParams(s1, Len(s3[i]) + 1)
            BY <1>5, <1>6, <2>4 DEF Cascade!GetParams
        <3> QED
            BY <1>11, <3>1, <3>2, <3>3, Zenon DEF CascadeSettles
    <2> QED
        BY <2>3, <2>4
<1>12. ~s4' => CascadeSettles'
    BY <1>2, <1>10, <1>11, Zenon DEF CascadeCore, CascadeSettles
<1> QED
    BY <1>4, <1>12, Zenon DEF CascadeCore

(* A sequence without one of its elements                                  *)
LEMMA CascadeWithout ==
    ASSUME NEW S, NEW q \in Seq(S), NEW i \in 1 .. Len(q)
    PROVE  /\ Cascade!Without(q, i) \in Seq(S) /\ Len(Cascade!Without(q, i)) = Len(q) - 1
           /\ \A j \in 1 .. Len(q) - 1 :
                 Cascade!Without(q, i)[j] = IF j < i THEN q[j] ELSE q[j + 1]
<1> DEFINE a == SubSeq(q, 1, i - 1)
           b == SubSeq(q, i + 1, Len(q))
<1>1. a \in Seq(S) /\ Len(a) = i - 1 /\ \A j \in 1 .. i - 1 : a[j] = q[j]
    OBVIOUS
<1>2. b \in Seq(S) /\ Len(b) = Len(q) - i /\ \A j \in 1 .. Len(q) - i : b[j] = q[i + j]
    OBVIOUS
<1>3. Cascade!Without(q, i) = a \o b
    BY DEF Cascade!Without
<1> HIDE DEF a, b
<1>4. a \o b \in Seq(S) /\ Len(a \o b) = Len(a) + Len(b)
      /\ \A j \in 1 .. Len(a) + Len(b) : (a \o b)[j] = IF j <= Len(a) THEN a[j] ELSE b[j - Len(a)]
    BY <1>1, <1>2, ConcatProperties
<1>5. ASSUME NEW j \in 1 .. Len(q) - 1
      PROVE  (a \o b)[j] = IF j < i THEN q[j] ELSE q[j + 1]
    <2>1. CASE j < i
        BY <1>1, <1>2, <1>4, <2>1
    <2>2. CASE ~(j < i)
        <3>1. j - (i - 1) \in 1 .. Len(q) - i /\ i + (j - (i - 1)) = j + 1
            BY <2>2
        <3>2. (a \o b)[j] = b[j - (i - 1)]
            BY <1>1, <1>2, <1>4, <2>2
        <3> QED
            BY <1>2, <2>2, <3>1, <3>2
    <2> QED
        BY <2>1, <2>2
<1> QED
    BY <1>1, <1>2, <1>3, <1>4, <1>5

(* The choice of the new field, and its options                            *)
LEMMA CascadeDefault ==
    ASSUME NEW p, NEW c, c \in CascadeChoice
    PROVE  LET v == Cascade!DefaultOf(Cascade!OptionsOf(p), c)
           IN  /\ v \in CascadeChoice /\ (CascadeDead(p) <=> v = None)
               /\ ~CascadeDead(p) => v \in Cascade!Range(Cascade!OptionsOf(p)) /\ p \in DOMAIN Children
<1> DEFINE o == Cascade!OptionsOf(p)
           v == Cascade!DefaultOf(o, c)
<1>1. CascadeDead(p) => v = None
    BY DEF CascadeDead, Cascade!DefaultOf
<1>2. ASSUME ~CascadeDead(p)
      PROVE  v \in Cascade!Range(o) /\ p \in DOMAIN Children
    <2>1. o[1] \in Cascade!Range(o) /\ o # <<>> /\ p \in DOMAIN Children
        BY <1>2, CascadeOptions DEF CascadeDead
    <2> HIDE DEF o
    <2>2. (v = c /\ c \in Cascade!Range(o)) \/ v = o[1]
        BY <2>1, Zenon DEF Cascade!DefaultOf
    <2> QED
        BY <2>1, <2>2
<1>3. Cascade!Range(o) \subseteq Cascade!Offered
    BY CascadeOptions
<1> HIDE DEF o, v
<1>4. v \in CascadeChoice /\ (CascadeDead(p) <=> v = None)
    BY <1>1, <1>2, <1>3, CascadeAssumption DEF CascadeChoice
<1> QED
    BY <1>2, <1>4 DEF o, v

(* What an answer does                                                     *)
LEMMA CascadeCreate ==
    ASSUME CascadeTyped, NEW i \in 1 .. Len(s3), Cascade!CreateOptions(i)
    PROVE  LET p == s3[i]
               n == Len(p) + 1
           IN  /\ CascadeTyped' /\ n \in 1 .. Depth /\ p \in Seq(CascadeChoice) /\ Len(p) \in Nat
               /\ s4' = (s4 \/ i > 1)
               /\ \A k \in 1 .. Depth :
                     /\ k < n => s1'[k] = s1[k] /\ s2'[k] = s2[k]
                     /\ k >= n /\ CascadeDead(p) => s1'[k] = None /\ s2'[k] = Cascade!Cleared
               /\ ~CascadeDead(p) =>
                     s2'[n] = p /\ s1'[n] \in Cascade!Range(Cascade!OptionsOf(p)) /\ s1'[n] # None
               /\ Len(s3) - 1 <= Len(s3') /\ Len(s3) \in Nat /\ Len(s3') \in Nat
               /\ \A j \in 1 .. Len(s3) - 1 : s3'[j] = IF j < i THEN s3[j] ELSE s3[j + 1]
               /\ IF n < Depth /\ ~CascadeDead(p)
                  THEN Len(s3') = Len(s3) /\ s3'[Len(s3')] = Cascade!GetParams(s1', n + 1)
                  ELSE Len(s3') = Len(s3) - 1
<1> USE CascadeAssumption
<1> DEFINE p == s3[i]
           n == Len(p) + 1
           w == Cascade!Without(s3, i)
           v == Cascade!DefaultOf(Cascade!OptionsOf(p), s1[n])
           o == [s2 EXCEPT ![n] = IF Cascade!OptionsOf(p) = <<>> THEN Cascade!Cleared ELSE p]
<1>1. p \in Seq(CascadeChoice) /\ Len(p) \in Nat /\ n \in 1 .. Depth /\ s3 \in Seq(Seq(CascadeChoice))
      /\ Len(s3) \in Nat
    BY DEF CascadeTyped
<1>2. /\ w \in Seq(Seq(CascadeChoice)) /\ Len(w) = Len(s3) - 1
      /\ \A j \in 1 .. Len(s3) - 1 : w[j] = IF j < i THEN s3[j] ELSE s3[j + 1]
    BY <1>1, CascadeWithout
<1>3. /\ v \in CascadeChoice /\ (CascadeDead(p) <=> v = None)
      /\ ~CascadeDead(p) => v \in Cascade!Range(Cascade!OptionsOf(p)) /\ p \in DOMAIN Children
    <2>1. s1[n] \in CascadeChoice
        BY <1>1 DEF CascadeTyped
    <2> QED
        BY <2>1, CascadeDefault
<1>4. Cascade!OnChange(n, v, o, w) /\ s4' = (s4 \/ i > 1)
    BY DEF Cascade!CreateOptions
<1>5. /\ o \in [1 .. Depth -> DOMAIN Children \cup {Cascade!Cleared}]
      /\ o[n] = (IF CascadeDead(p) THEN Cascade!Cleared ELSE p)
      /\ \A k \in 1 .. Depth : k # n => o[k] = s2[k]
    BY <1>1, <1>3 DEF CascadeTyped, CascadeDead
<1>6. s4' \in BOOLEAN
    BY <1>4, Zenon DEF CascadeTyped
<1>7. \A j \in 1 .. Len(w) : Len(w[j]) < Depth
    <2>1. ASSUME NEW j \in 1 .. Len(s3) - 1
          PROVE  Len(w[j]) < Depth
        <3>1. CASE j < i
            <4>1. w[j] = s3[j] /\ j \in 1 .. Len(s3)
                BY <1>1, <1>2, <3>1
            <4> QED
                BY <4>1 DEF CascadeTyped
        <3>2. CASE ~(j < i)
            <4>1. w[j] = s3[j + 1]
                BY <1>2, <3>2, Zenon
            <4>2. j + 1 \in 1 .. Len(s3)
                BY <1>1
            <4> QED
                BY <4>1, <4>2 DEF CascadeTyped
        <3> QED
            BY <3>1, <3>2
    <2> QED
        BY <1>2, <2>1
<1> HIDE DEF v, o, w
<1>8. /\ CascadeTyped'
      /\ \A k \in 1 .. Depth : s1'[k] = IF k < n THEN s1[k] ELSE IF k = n THEN v ELSE None
      /\ \A k \in 1 .. Depth : s2'[k] = IF v = None /\ k > n THEN Cascade!Cleared ELSE o[k]
      /\ ~(n < Depth /\ v # None) => s3' = w
      /\ n < Depth /\ v # None =>
            /\ Len(s3') = Len(w) + 1 /\ \A j \in 1 .. Len(w) : s3'[j] = w[j]
            /\ s3'[Len(s3')] = Cascade!GetParams(s1', n + 1)
    BY <1>1, <1>2, <1>3, <1>4, <1>5, <1>6, <1>7, CascadeOnChange
<1> HIDE DEF n, p
<1>9. \A k \in 1 .. Depth :
         /\ k < n => s1'[k] = s1[k] /\ s2'[k] = s2[k]
         /\ k >= n /\ CascadeDead(p) => s1'[k] = None /\ s2'[k] = Cascade!Cleared
    BY <1>1, <1>3, <1>5, <1>8
<1>10. ~CascadeDead(p) =>
          s2'[n] = p /\ s1'[n] \in Cascade!Range(Cascade!OptionsOf(p)) /\ s1'[n] # None
    BY <1>1, <1>3, <1>5, <1>8
<1>11. Len(s3) - 1 <= Len(s3') /\ Len(s3') \in Nat
       /\ \A j \in 1 .. Len(s3) - 1 : s3'[j] = IF j < i THEN s3[j] ELSE s3[j + 1]
    <2>1. \A j \in 1 .. Len(w) : s3'[j] = w[j]
        BY <1>8, Zenon
    <2>2. \A j \in 1 .. Len(s3) - 1 : s3'[j] = IF j < i THEN s3[j] ELSE s3[j + 1]
        BY <1>2, <2>1, Zenon
    <2>3. Len(s3') = Len(w) \/ Len(s3') = Len(w) + 1
        BY <1>8, Zenon
    <2>4. Len(s3) - 1 <= Len(s3') /\ Len(s3') \in Nat
        BY <1>1, <1>2, <2>3
    <2> QED
        BY <2>2, <2>4
<1>12. IF n < Depth /\ ~CascadeDead(p)
       THEN Len(s3') = Len(s3) /\ s3'[Len(s3')] = Cascade!GetParams(s1', n + 1)
       ELSE Len(s3') = Len(s3) - 1
    BY <1>1, <1>2, <1>3, <1>8
<1> QED
    BY <1>1, <1>4, <1>8, <1>9, <1>10, <1>11, <1>12 DEF n, p

(* An answer in the order of the requests                                  *)
LEMMA CascadeAnswer ==
    ASSUME CascadeTyped, CascadeSettles, 1 \in 1 .. Len(s3), Cascade!CreateOptions(1),
           NEW p, p = s3[1], NEW n, n = Len(p) + 1
    PROVE  CascadeSettles'
<1> USE CascadeAssumption
<1>1. /\ CascadeTyped' /\ n \in 1 .. Depth /\ p \in Seq(CascadeChoice) /\ Len(p) \in Nat
      /\ \A k \in 1 .. Depth :
            /\ k < n => s1'[k] = s1[k] /\ s2'[k] = s2[k]
            /\ k >= n /\ CascadeDead(p) => s1'[k] = None /\ s2'[k] = Cascade!Cleared
      /\ ~CascadeDead(p) =>
            s2'[n] = p /\ s1'[n] \in Cascade!Range(Cascade!OptionsOf(p)) /\ s1'[n] # None
      /\ Len(s3) - 1 <= Len(s3') /\ Len(s3) \in Nat /\ Len(s3') \in Nat
      /\ \A j \in 1 .. Len(s3) - 1 : s3'[j] = IF j < 1 THEN s3[j] ELSE s3[j + 1]
      /\ IF n < Depth /\ ~CascadeDead(p)
         THEN Len(s3') = Len(s3) /\ s3'[Len(s3')] = Cascade!GetParams(s1', n + 1)
         ELSE Len(s3') = Len(s3) - 1
    BY CascadeCreate
<1>bounds. /\ n \in 1 .. Depth /\ Len(s3) \in Nat /\ Len(s3) >= 1 /\ Len(s3') \in Nat
           /\ Len(s3) - 1 <= Len(s3')
    BY <1>1
<1>above. \A k \in 1 .. Depth : k < n => s1'[k] = s1[k] /\ s2'[k] = s2[k]
    BY <1>1
<1>2. \A j \in 1 .. Len(s3) - 1 : j + 1 \in 1 .. Len(s3) /\ s3'[j] = s3[j + 1]
    BY <1>1, SMTT(60)
<1>3. /\ s1 \in [1 .. Depth -> CascadeChoice] /\ s1' \in [1 .. Depth -> CascadeChoice]
      /\ \A j \in 1 .. Len(s3) : s3[j] \in Seq(CascadeChoice) /\ Len(s3[j]) \in Nat /\ Len(s3[j]) < Depth
      /\ DOMAIN s3 = 1 .. Len(s3)
    BY <1>1 DEF CascadeTyped
<1>4. p = s3[1] /\ Len(p) = n - 1 /\ Len(s3[1]) = n - 1
    BY <1>1
(* The choices above a level, now and before                               *)
<1>5. ASSUME NEW m \in Nat, m <= Depth
      PROVE  /\ Cascade!GetParams(s1', m + 1) \in Seq(CascadeChoice)
             /\ Len(Cascade!GetParams(s1', m + 1)) = m
             /\ \A k \in 1 .. m : Cascade!GetParams(s1', m + 1)[k] = s1'[k]
             /\ Cascade!GetParams(s1, m + 1) \in Seq(CascadeChoice)
             /\ Len(Cascade!GetParams(s1, m + 1)) = m
             /\ \A k \in 1 .. m : Cascade!GetParams(s1, m + 1)[k] = s1[k]
    <2>1. \A k \in 1 .. m : s1[k] \in CascadeChoice /\ s1'[k] \in CascadeChoice
        BY <1>3, <1>5
    <2> QED
        BY <2>1, CascadeParams
<1>6. ASSUME NEW k \in 1 .. Depth, k < n, Cascade!Right(k)
      PROVE  Cascade!Right(k)'
    <2>1. \A l \in 1 .. k : s1'[l] = s1[l]
        BY <1>1, <1>6
    <2>2. s2'[k] = s2[k]
        BY <1>1, <1>6
    <2> QED
        BY <1>6, <2>1, <2>2, CascadeRightStays
(* Levels under choices without options are cleared.                       *)
<1>7. ASSUME CascadeDead(p), \A k \in 1 .. Depth : k < n => Cascade!Right(k),
             p = Cascade!GetParams(s1, n) \/ CascadeDead(Cascade!GetParams(s1, n))
      PROVE  /\ CascadeDead(Cascade!GetParams(s1', n))
             /\ \A m \in n - 1 .. Depth : CascadeDead(Cascade!GetParams(s1', m + 1))
             /\ \A k \in 1 .. Depth : Cascade!Right(k)'
    <2>1. CascadeDead(Cascade!GetParams(s1, n))
        BY <1>7
    <2>2. Cascade!GetParams(s1', n) = Cascade!GetParams(s1, n)
        BY <1>1 DEF Cascade!GetParams
    <2>3. ASSUME NEW m \in n - 1 .. Depth
          PROVE  CascadeDead(Cascade!GetParams(s1', m + 1))
        <3>1. n - 1 \in Nat /\ n - 1 <= Depth /\ m \in Nat /\ m <= Depth /\ n - 1 <= m
            BY <1>1
        <3> DEFINE a == Cascade!GetParams(s1', (n - 1) + 1)
                   b == Cascade!GetParams(s1', m + 1)
        <3>2. a \in Seq(CascadeChoice) /\ Len(a) = n - 1 /\ \A k \in 1 .. n - 1 : a[k] = s1'[k]
            BY <1>5, <3>1
        <3>3. b \in Seq(CascadeChoice) /\ Len(b) = m /\ \A k \in 1 .. m : b[k] = s1'[k]
            BY <1>5, <3>1
        <3>4. CascadeDead(a)
            <4>1. (n - 1) + 1 = n
                BY <1>1
            <4> QED
                BY <2>1, <2>2, <4>1, Zenon
        <3> HIDE DEF a, b
        <3>5. \A k \in 1 .. Len(a) : b[k] = a[k]
            BY <3>1, <3>2, <3>3, SMTT(60)
        <3>6. CascadeDead(b)
            BY <3>1, <3>2, <3>3, <3>4, <3>5, CascadeUnderDead
        <3> QED
            BY <3>6 DEF b
    <2>4. ASSUME NEW k \in 1 .. Depth
          PROVE  Cascade!Right(k)'
        <3>1. CASE k < n
            BY <1>6, <1>7, <3>1
        <3>2. CASE k >= n
            <4>1. s1'[k] = None /\ s2'[k] = Cascade!Cleared
                BY <1>1, <1>7, <3>2
            <4>2. k - 1 \in n - 1 .. Depth /\ (k - 1) + 1 = k
                BY <1>1, <3>2, SMTT(60)
            <4>3. CascadeDead(Cascade!GetParams(s1', k))
                <5>1. CascadeDead(Cascade!GetParams(s1', (k - 1) + 1))
                    BY <2>3, <4>2
                <5> QED
                    BY <4>2, <5>1, Zenon
            <4> QED
                BY <4>1, <4>3, CascadeRight, Zenon DEF RightChoice
        <3> QED
            BY <1>1, <3>1, <3>2
    <2> QED
        BY <2>1, <2>2, <2>3, <2>4
<1>8. ASSUME NEW i \in 1 .. Len(s3), Cascade!Decides(i)
      PROVE  CascadeSettles'
    <2> DEFINE d == Len(s3[i])
    <2>1. /\ s3[i] = Cascade!GetParams(s1, d + 1) /\ None \notin Cascade!Range(s3[i])
          /\ \A k \in 1 .. Depth : k <= d => Cascade!Right(k)
          /\ \A j \in 1 .. Len(s3) : Len(s3[j]) >= d
          /\ \A j \in 1 .. Len(s3) : j > i =>
                Len(s3[j]) > d /\ \A k \in 1 .. d : s3[j][k] = s3[i][k]
        BY <1>3, <1>8, Zenon DEF Cascade!Decides, Cascade!Levels
    <2>2. d \in Nat /\ d < Depth
        BY <1>3
    <2>3. \A k \in 1 .. d : s3[i][k] = s1[k] /\ s1[k] # None
        <3>1. \A k \in 1 .. d : s3[i][k] = s1[k]
            <4>1. d <= Depth
                BY <2>2
            <4> QED
                BY <1>5, <2>1, <2>2, <4>1
        <3>2. DOMAIN s3[i] = 1 .. d
            <4>1. s3[i] \in Seq(CascadeChoice)
                BY <1>3
            <4> QED
                BY <4>1
        <3> QED
            BY <2>1, <3>1, <3>2 DEF Cascade!Range
    <2> HIDE DEF d
    <2>4. CASE i = 1
        <3>1. d = n - 1 /\ d + 1 = n
            BY <1>1, <1>4, <2>4 DEF d
        <3>2. p = Cascade!GetParams(s1, n)
            BY <1>4, <2>1, <2>4, <3>1
        <3>3. \A k \in 1 .. Depth : k < n => Cascade!Right(k) /\ s1[k] # None
            BY <1>1, <2>1, <2>3, <3>1
        <3>4. \A j \in 1 .. Len(s3) - 1 :
                 /\ s3'[j] = s3[j + 1] /\ Len(s3[j + 1]) >= n /\ j + 1 \in 1 .. Len(s3)
                 /\ \A k \in 1 .. n - 1 : s3[j + 1][k] = p[k]
            <4>1. \A j \in 1 .. Len(s3) - 1 : j + 1 > 1 /\ j + 1 \in 1 .. Len(s3)
                BY <1>1, SMTT(60)
            <4>2. ASSUME NEW j \in 1 .. Len(s3) - 1
                  PROVE  Len(s3[j + 1]) > d /\ \A k \in 1 .. d : s3[j + 1][k] = p[k]
                BY <1>4, <2>1, <2>4, <4>1
            <4>3. \A j \in 1 .. Len(s3) - 1 : Len(s3[j + 1]) \in Nat
                BY <1>3, <4>1
            <4> QED
                BY <1>bounds, <1>2, <3>1, <4>1, <4>2, <4>3, SMTT(60)
        <3>5. ASSUME ~CascadeDead(p)
              PROVE  Cascade!Right(n)'
            <4>1. Cascade!GetParams(s1', n) = Cascade!GetParams(s1, n)
                BY <1>1 DEF Cascade!GetParams
            <4> QED
                <5>1. s2'[n] = p /\ s1'[n] \in Cascade!Range(Cascade!OptionsOf(p))
                      /\ Cascade!GetParams(s1', n) = p
                    BY <1>1, <3>2, <3>5, <4>1
                <5> QED
                    BY <3>5, <5>1, CascadeRight, Zenon DEF RightChoice
        <3>6. CASE ~CascadeDead(p) /\ n < Depth
            <4>0. Len(s3') = Len(s3) /\ Len(s3') \in 1 .. Len(s3')
                  /\ s3'[Len(s3')] = Cascade!GetParams(s1', n + 1)
                BY <1>1, <3>6
            <4>1. PICK h \in 1 .. Len(s3') :
                     h = Len(s3) /\ h = Len(s3') /\ s3'[h] = Cascade!GetParams(s1', n + 1)
                BY <4>0
            <4>2. \A k \in 1 .. n : s1'[k] # None /\ Cascade!Right(k)'
                <5>1. ASSUME NEW k \in 1 .. n
                      PROVE  s1'[k] # None /\ Cascade!Right(k)'
                    <6>1. CASE k < n
                        BY <1>bounds, <1>above, <1>6, <3>3, <6>1
                    <6>2. CASE k = n
                        BY <1>1, <3>5, <3>6, <6>2
                    <6> QED
                        BY <6>1, <6>2
                <5> QED
                    BY <5>1
            <4>3. ASSUME NEW j \in 1 .. Len(s3')
                  PROVE  Len(s3'[j]) >= n
                <5>1. CASE j \in 1 .. Len(s3) - 1
                    BY <3>4, <5>1
                <5>2. CASE j = h
                    <6>1. n \in Nat /\ n <= Depth
                        BY <1>1
                    <6>2. Len(Cascade!GetParams(s1', n + 1)) = n
                        BY <1>5, <6>1
                    <6> QED
                        BY <4>1, <5>2, <6>1, <6>2
                <5> QED
                    BY <1>1, <4>1, <5>1, <5>2
            <4>4. n \in 1 .. Depth - 1
                BY <1>1, <3>6
            <4>5. Cascade!Decides(h)'
                BY <1>1, <4>1, <4>2, <4>3, <4>4, CascadeDecidesNew
            <4> QED
                BY <4>1, <4>5, Zenon DEF CascadeSettles
        <3>7. CASE ~CascadeDead(p) /\ ~(n < Depth)
            <4>1. n = Depth
                BY <1>1, <3>7
            <4>2. Len(s3) = 1
                <5>1. ASSUME Len(s3) >= 2
                      PROVE  FALSE
                    <6>1. 1 \in 1 .. Len(s3) - 1 /\ 1 + 1 \in 1 .. Len(s3)
                        BY <1>bounds, <5>1
                    <6>2. Len(s3[1 + 1]) >= n /\ Len(s3[1 + 1]) < Depth
                        BY <1>3, <3>4, <6>1
                    <6>3. Len(s3[1 + 1]) \in Nat
                        BY <1>3, <6>1
                    <6> QED
                        BY <1>bounds, <4>1, <6>2, <6>3
                <5>2. \A l \in Nat : l >= 1 /\ ~(l >= 2) => l = 1
                    OBVIOUS
                <5> QED
                    BY <1>bounds, <5>1, <5>2, Zenon
            <4>3. 1 .. Len(s3') = {}
                BY <1>1, <3>7, <4>2
            <4>4. ASSUME NEW k \in 1 .. Depth
                  PROVE  Cascade!Right(k)'
                <5>1. CASE k < n
                    BY <1>6, <3>3, <5>1
                <5>2. CASE k = n
                    BY <3>5, <3>7, <5>2
                <5> QED
                    BY <4>1, <5>1, <5>2
            <4> QED
                BY <4>3, <4>4, Zenon DEF CascadeSettles
        <3>8. CASE CascadeDead(p)
            <4>1. /\ \A m \in n - 1 .. Depth : CascadeDead(Cascade!GetParams(s1', m + 1))
                  /\ \A k \in 1 .. Depth : Cascade!Right(k)'
                BY <1>7, <3>2, <3>3, <3>8
            <4>2. ASSUME NEW j \in 1 .. Len(s3')
                  PROVE  CascadeDead(s3'[j]) /\ CascadeDead(Cascade!GetParams(s1', Len(s3'[j]) + 1))
                <5>1. j \in 1 .. Len(s3) - 1
                    BY <1>1, <3>8
                <5> DEFINE q == s3[j + 1]
                <5>2. s3'[j] = q /\ q \in Seq(CascadeChoice) /\ Len(q) \in n - 1 .. Depth
                      /\ \A k \in 1 .. n - 1 : q[k] = p[k]
                    <6>1. j + 1 \in 1 .. Len(s3) /\ Len(s3[j + 1]) >= n
                        BY <3>4, <5>1
                    <6>2. s3[j + 1] \in Seq(CascadeChoice) /\ Len(s3[j + 1]) < Depth
                          /\ Len(s3[j + 1]) \in Nat
                        BY <1>3, <6>1
                    <6>3. Len(s3[j + 1]) \in n - 1 .. Depth
                        BY <1>1, <6>1, <6>2, SMTT(60)
                    <6> QED
                        BY <3>4, <5>1, <6>2, <6>3
                <5> HIDE DEF q
                <5>3. Len(p) <= Len(q) /\ \A k \in 1 .. Len(p) : q[k] = p[k]
                    BY <1>4, <5>2
                <5>4. CascadeDead(q)
                    BY <1>1, <3>8, <5>2, <5>3, CascadeUnderDead
                <5> QED
                    BY <4>1, <5>2, <5>4
            <4> QED
                BY <4>1, <4>2, Zenon DEF CascadeSettles
        <3> QED
            BY <3>6, <3>7, <3>8
    <2>5. CASE i # 1
        <3> DEFINE h == i - 1
        <3>1. h \in 1 .. Len(s3) - 1 /\ h \in 1 .. Len(s3') /\ s3'[h] = s3[i] /\ h + 1 = i
            BY <1>bounds, <1>2, <2>5
        <3>2. d < n
            <4>1. Len(s3[1]) >= d
                BY <2>1
            <4> QED
                BY <1>1, <1>4, <2>2, <4>1
        <3>3. \A k \in 1 .. Depth : k <= Len(s3[i]) => s1'[k] = s1[k] /\ s2'[k] = s2[k]
            BY <1>1, <2>2, <3>2 DEF d
        <3>4. ASSUME NEW j \in 1 .. Len(s3')
              PROVE  /\ Len(s3'[j]) >= d
                     /\ j > h => Len(s3'[j]) > d /\ \A k \in 1 .. d : s3'[j][k] = s3[i][k]
            <4>1. CASE j \in 1 .. Len(s3) - 1
                <5>1. s3'[j] = s3[j + 1] /\ j + 1 \in 1 .. Len(s3)
                    BY <1>2, <4>1
                <5>2. j > h => j + 1 > i
                    BY <3>1, <4>1
                <5> QED
                    BY <2>1, <5>1, <5>2
            <4>2. CASE j \notin 1 .. Len(s3) - 1
                <5>1. n < Depth /\ j = Len(s3') /\ s3'[j] = Cascade!GetParams(s1', n + 1)
                    BY <1>1, <4>2
                <5>2. n \in Nat /\ n <= Depth
                    BY <1>1
                <5>3. Len(s3'[j]) = n /\ \A k \in 1 .. n : s3'[j][k] = s1'[k]
                    <6>1. /\ Len(Cascade!GetParams(s1', n + 1)) = n
                          /\ \A k \in 1 .. n : Cascade!GetParams(s1', n + 1)[k] = s1'[k]
                        BY <1>5, <5>2
                    <6> QED
                        BY <5>1, <6>1
                <5>4. ASSUME NEW k \in 1 .. d
                      PROVE  s3'[j][k] = s3[i][k]
                    BY <1>bounds, <1>above, <2>2, <2>3, <3>2, <5>3, SMTT(60)
                <5> QED
                    BY <2>2, <3>2, <5>2, <5>3, <5>4
            <4> QED
                BY <4>1, <4>2
        <3> HIDE DEF h
        <3>5. Cascade!Decides(h)'
            BY <1>1, <1>8, <3>1, <3>3, <3>4, CascadeDecidesStill, Zenon DEF d
        <3> QED
            BY <3>1, <3>5, Zenon DEF CascadeSettles
    <2> QED
        BY <2>4, <2>5
<1>9. ASSUME \A k \in 1 .. Depth : Cascade!Right(k),
             \A i \in 1 .. Len(s3) :
                CascadeDead(s3[i]) /\ CascadeDead(Cascade!GetParams(s1, Len(s3[i]) + 1))
      PROVE  CascadeSettles'
    <2>1. CascadeDead(p) /\ CascadeDead(Cascade!GetParams(s1, n))
        <3>1. Len(s3[1]) + 1 = n
            BY <1>1, <1>4
        <3> QED
            BY <1>4, <1>9, <3>1
    <2>2. /\ \A m \in n - 1 .. Depth : CascadeDead(Cascade!GetParams(s1', m + 1))
          /\ \A k \in 1 .. Depth : Cascade!Right(k)'
        BY <1>7, <1>9, <2>1
    <2>3. ASSUME NEW j \in 1 .. Len(s3')
          PROVE  CascadeDead(s3'[j]) /\ CascadeDead(Cascade!GetParams(s1', Len(s3'[j]) + 1))
        <3>1. j \in 1 .. Len(s3) - 1
            BY <1>1, <2>1
        <3> DEFINE q == s3[j + 1]
                   m == Len(q)
        <3>2. s3'[j] = q /\ m \in Nat /\ m < Depth /\ CascadeDead(q)
              /\ CascadeDead(Cascade!GetParams(s1, m + 1))
            BY <1>2, <1>3, <1>9, <3>1
        <3> HIDE DEF q, m
        <3>3. CASE m >= n - 1
            <4>1. m \in n - 1 .. Depth
                BY <1>1, <3>2, <3>3
            <4> QED
                BY <2>2, <3>2, <4>1 DEF m
        <3>4. CASE ~(m >= n - 1)
            <4>1. Cascade!GetParams(s1', m + 1) = Cascade!GetParams(s1, m + 1)
                <5>1. \A k \in 1 .. (m + 1) - 1 : k \in 1 .. Depth /\ k < n
                    BY <1>bounds, <3>2, <3>4, SMTT(60)
                <5>2. \A k \in 1 .. (m + 1) - 1 : s1'[k] = s1[k]
                    BY <1>above, <5>1
                <5> QED
                    BY <5>2 DEF Cascade!GetParams
            <4> QED
                BY <3>2, <4>1 DEF m
        <3> QED
            BY <3>3, <3>4
    <2> QED
        BY <2>2, <2>3, Zenon DEF CascadeSettles
<1> QED
    BY <1>8, <1>9, Zenon DEF CascadeSettles

LEMMA CascadeStep ==
    Cascade!Inv /\ (Cascade!Next \/ UNCHANGED Cascade!vars) => Cascade!Inv'
<1> SUFFICES ASSUME CascadeCore, Cascade!Next \/ UNCHANGED Cascade!vars
             PROVE  CascadeCore'
    BY CascadeSame, PTL
<1>1. CASE \E n \in Cascade!Levels : Cascade!Change(n)
    BY <1>1, CascadeChange DEF Cascade!Levels
<1>2. CASE Cascade!Answer
    <2>1. PICK i \in 1 .. Len(s3) : Cascade!CreateOptions(i)
        <3>1. DOMAIN s3 = 1 .. Len(s3)
            BY DEF CascadeCore, CascadeTyped
        <3> QED
            BY <1>2, <3>1 DEF Cascade!Answer
    <2>2. CascadeTyped' /\ s4' = (s4 \/ i > 1)
        BY <2>1, CascadeCreate, Zenon DEF CascadeCore
    <2>3. ASSUME ~s4'
          PROVE  CascadeSettles'
        <3>1. ~s4 /\ ~(i > 1)
            BY <2>2, <2>3, Zenon
        <3>2. i = 1
            <4>1. Len(s3) \in Nat
                BY DEF CascadeCore, CascadeTyped
            <4> QED
                BY <3>1, <4>1
        <3> QED
            BY <2>1, <3>1, <3>2, CascadeAnswer DEF CascadeCore
    <2> QED
        BY <2>2, <2>3, Zenon DEF CascadeCore
<1>3. CASE Cascade!Lost
    <2>1. PICK i \in 1 .. Len(s3) : s3' = Cascade!Without(s3, i)
        <3>1. DOMAIN s3 = 1 .. Len(s3)
            BY DEF CascadeCore, CascadeTyped
        <3> QED
            BY <1>3, <3>1 DEF Cascade!Lost
    <2>2. s4' = TRUE /\ s1' = s1 /\ s2' = s2
        BY <1>3, Zenon DEF Cascade!Lost
    <2>3. s3 \in Seq(Seq(CascadeChoice)) /\ Len(s3) \in Nat /\ Len(s3) <= MaxAsked
          /\ \A j \in 1 .. Len(s3) : Len(s3[j]) < Depth
        BY DEF CascadeCore, CascadeTyped
    <2>4. s3' \in Seq(Seq(CascadeChoice)) /\ Len(s3') = Len(s3) - 1
          /\ \A j \in 1 .. Len(s3) - 1 : s3'[j] = IF j < i THEN s3[j] ELSE s3[j + 1]
        BY <2>1, <2>3, CascadeWithout
    <2>5. \A j \in 1 .. Len(s3') : Len(s3'[j]) < Depth
        <3>1. ASSUME NEW j \in 1 .. Len(s3')
              PROVE  Len(s3'[j]) < Depth
            <4>1. j \in 1 .. Len(s3) - 1 /\ j \in 1 .. Len(s3) /\ j + 1 \in 1 .. Len(s3)
                BY <2>3, <2>4
            <4>2. s3'[j] = s3[j] \/ s3'[j] = s3[j + 1]
                BY <2>4, <4>1
            <4> QED
                BY <2>3, <4>1, <4>2
        <3> QED
            BY <3>1
    <2>6. Len(s3') <= MaxAsked /\ s4' \in BOOLEAN
        BY <2>2, <2>3, <2>4, CascadeAssumption
    <2>7. CascadeTyped'
        BY <2>2, <2>4, <2>5, <2>6, Zenon DEF CascadeCore, CascadeTyped
    <2> QED
        BY <2>2, <2>7, Zenon DEF CascadeCore
<1>4. CASE UNCHANGED Cascade!vars
    <2>1. s1' = s1 /\ s2' = s2 /\ s3' = s3 /\ s4' = s4
        BY <1>4 DEF Cascade!vars
    <2>2. CascadeTyped <=> CascadeTyped'
        BY <2>1, Zenon DEF CascadeTyped
    <2>3. ASSUME NEW k
          PROVE  Cascade!Right(k) <=> Cascade!Right(k)'
        BY <2>1, CascadeRight, Zenon
    <2>4. ASSUME NEW i
          PROVE  Cascade!Decides(i) <=> Cascade!Decides(i)'
        BY <2>1, <2>3, Zenon DEF Cascade!Decides
    <2> QED
        BY <2>1, <2>2, <2>3, <2>4, Zenon DEF CascadeCore, CascadeSettles
<1> QED
    BY <1>1, <1>2, <1>3, <1>4 DEF Cascade!Next
-----------------------------------------------------------------------------
(* Tables and pagers                                                       *)
(* Numbers of rows: products and remainders.                               *)
LEMMA Multiples ==
    ASSUME NEW a \in Int, NEW b \in Int, NEW s \in Nat, a + 1 <= b
    PROVE  a * s + s <= b * s
<1>1. (a + 1) * s = a * s + s
    BY SMTT(30)
<1>2. ASSUME NEW c \in Int, c <= b
      PROVE  c * s <= b * s
    BY <1>2, SMTT(30)
<1> QED
    BY <1>1, <1>2, a + 1 \in Int

LEMMA Division ==
    ASSUME NEW a \in Nat, NEW s \in Nat \ {0}
    PROVE  \E d \in Nat, m \in Nat :
              d = a \div s /\ m = a % s /\ m < s /\ a = d * s + m
<1>1. a \div s \in Int
    BY SMTT(30)
<1>2. a % s \in Int /\ 0 <= a % s /\ a % s < s
    BY SMTT(30)
<1>3. a % s = a - s * (a \div s)
    BY SMTT(30)
<1>4. PICK d \in Int : d = a \div s
    BY <1>1
<1>5. PICK m \in Int : m = a % s
    BY <1>2
<1>6. m = a - s * d /\ 0 <= m /\ m < s
    BY <1>2, <1>3, <1>4, <1>5
<1>7. a = d * s + m
    BY <1>6, SMTT(30)
<1>8. d \in Nat /\ m \in Nat /\ m < s
    BY <1>6, <1>7, SMTT(30)
<1> QED
    BY <1>4, <1>5, <1>7, <1>8, Zenon

LEMMA Halves ==
    ASSUME NEW v \in Nat
    PROVE  \E d \in Nat, m \in Nat :
              d = v \div 2 /\ m = v % 2 /\ m < 2 /\ v = 2 * d + m
<1>1. PICK d \in Nat, m \in Nat : d = v \div 2 /\ m = v % 2 /\ m < 2 /\ v = d * 2 + m
    BY Division, 2 \in Nat \ {0}, Zenon
<1>2. v = 2 * d + m
    BY <1>1
<1> QED
    BY <1>1, <1>2, Zenon

(* The page cut from all rows, unless it has rows that do not exist, has   *)
(* those of the page asked for.                                            *)
LEMMA CutIsPage ==
    ASSUME NEW s \in Nat \ {0}, NEW n \in Int, NEW p, p.pageSize = s, p.pageNum = n,
           Paging!CutRows(p) \subseteq 1 .. RowCount
    PROVE  Paging!CutRows(p) = Paging!RowsOf(s, n) /\ n >= 1
<1>1. PICK a \in Int : a = (n - 1) * s
    BY n - 1 \in Int
<1>2. PICK z \in Int : z = n * s
    OBVIOUS
<1>3. z = a + s
    BY <1>1, <1>2, SMTT(30)
<1>4. Paging!CutRows(p) = (a + 1) .. (a + IF RowCount < z THEN RowCount % s ELSE s)
    BY <1>1, <1>2, Zenon DEF Paging!CutRows
<1>5. Paging!RowsOf(s, n) = {r \in 1 .. RowCount : a < r /\ r <= z}
    BY <1>1, <1>2 DEF Paging!RowsOf
<1>6. RowCount \in Nat
    BY PagingAssumption
<1>8. CASE RowCount >= z
    <2>0. ~(RowCount < z)
        BY <1>2, <1>6, <1>8
    <2>1. Paging!CutRows(p) = (a + 1) .. (a + s)
        BY <1>4, <2>0, Zenon
    <2>2. a + 1 \in 1 .. RowCount
        BY <1>1, <2>1
    <2>3. Paging!CutRows(p) = Paging!RowsOf(s, n)
        BY <1>1, <1>3, <1>5, <1>6, <1>8, <2>1, <2>2
    <2>4. n >= 1
        <3>1. SUFFICES ASSUME n + 1 <= 1 PROVE FALSE
            OBVIOUS
        <3>2. n * s + s <= 1 * s
            BY <3>1, Multiples, 1 \in Int
        <3> QED
            BY <1>2, <1>3, <2>2, <3>2, 1 * s = s
    <2> QED
        BY <2>3, <2>4
<1>9. CASE RowCount < z
    <2>1. PICK q \in Nat, m \in Nat : m = RowCount % s /\ m < s /\ RowCount = q * s + m
        BY <1>6, Division, ZenonT(60)
    <2>2. Paging!CutRows(p) = (a + 1) .. (a + m)
        BY <1>4, <1>9, <2>1, Zenon
    <2>3. q <= n - 1
        <3>1. SUFFICES ASSUME n <= q PROVE FALSE
            BY <2>1
        <3>2. ASSUME NEW c \in Int, c <= q PROVE c * s <= q * s
            BY <2>1, <3>2, SMTT(30)
        <3>3. n * s <= q * s
            BY <3>1, <3>2
        <3>4. PICK w \in Int : w = q * s
            BY <2>1
        <3> QED
            BY <1>2, <1>9, <2>1, <3>3, <3>4
    <2>4. n >= 1
        BY <2>1, <2>3
    <2>5. CASE m = 0
        <3>1. Paging!CutRows(p) = {}
            BY <1>1, <2>2, <2>5
        <3>2. q * s <= (n - 1) * s
            <4>1. ASSUME NEW c \in Int, q <= c PROVE q * s <= c * s
                BY <2>1, <4>1, SMTT(30)
            <4> QED
                BY <2>3, <4>1, n - 1 \in Int
        <3>3. PICK w \in Int : w = q * s
            BY <2>1
        <3>4. RowCount <= a
            BY <1>1, <2>1, <2>5, <3>2, <3>3
        <3>5. Paging!RowsOf(s, n) = {}
            BY <1>1, <1>5, <1>6, <3>4
        <3> QED
            BY <2>4, <3>1, <3>5
    <2>6. CASE m > 0
        <3>1. a + 1 \in 1 .. RowCount
            <4>1. a + 1 \in (a + 1) .. (a + m)
                BY <1>1, <2>1, <2>6
            <4> QED
                BY <2>2, <4>1, Zenon
        <3>2. q = n - 1
            <4>1. SUFFICES ASSUME q + 1 <= n - 1 PROVE FALSE
                BY <2>1, <2>3
            <4>2. q * s + s <= (n - 1) * s
                BY <2>1, <4>1, Multiples, n - 1 \in Int
            <4>3. PICK w \in Int : w = q * s
                BY <2>1
            <4> QED
                BY <1>1, <2>1, <3>1, <4>2, <4>3
        <3>3. a + m = RowCount
            BY <1>1, <2>1, <3>2
        <3>4. Paging!CutRows(p) = Paging!RowsOf(s, n)
            <4>1. (a + 1) .. (a + m) = {r \in 1 .. RowCount : a < r /\ r <= z}
                BY <1>1, <1>2, <1>6, <1>9, <3>1, <3>3
            <4> QED
                BY <1>5, <2>2, <4>1, Zenon
        <3> QED
            BY <2>4, <3>4
    <2> QED
        BY <2>1, <2>5, <2>6
<1> QED
    BY <1>2, <1>6, <1>8, <1>9

(* All rows of a page are in the table, if it shows as many as the page    *)
(* may have.                                                               *)
LEMMA PageIsShort ==
    ASSUME NEW s \in Nat \ {0}, NEW n \in Int, NEW r \in Paging!RowsOf(s, n)
    PROVE  Paging!Cardinality({q \in Paging!RowsOf(s, n) : q < r}) < s
<1> DEFINE Q == {q \in Paging!RowsOf(s, n) : q < r}
<1>1. PICK a \in Int : a = (n - 1) * s
    BY n - 1 \in Int
<1>2. n * s = a + s
    BY <1>1, SMTT(30)
<1>3. Paging!RowsOf(s, n) = {k \in 1 .. RowCount : a < k /\ k <= a + s}
    BY <1>1, <1>2 DEF Paging!RowsOf
<1>4. Q \subseteq (a + 1) .. (r - 1) /\ r \in Int /\ a < r /\ r <= a + s
    BY <1>1, <1>3, PagingAssumption
<1>5. /\ IsFiniteSet((a + 1) .. (r - 1))
      /\ Cardinality((a + 1) .. (r - 1)) = IF a + 1 > r - 1 THEN 0 ELSE (r - 1) - (a + 1) + 1
    BY <1>1, <1>4, FS_Interval, a + 1 \in Int, r - 1 \in Int
<1>6. Cardinality(Q) <= Cardinality((a + 1) .. (r - 1)) /\ IsFiniteSet(Q)
    BY <1>4, <1>5, FS_Subset
<1>7. Cardinality(Q) \in Nat
    BY <1>6, FS_CardinalityType
<1>8. Cardinality(Q) < s
    <2>1. PICK c \in Nat : c = Cardinality(Q)
        BY <1>7
    <2>2. c <= IF a + 1 > r - 1 THEN 0 ELSE (r - 1) - (a + 1) + 1
        BY <1>5, <1>6, <2>1
    <2>3. c < s
        BY <1>1, <1>4, <2>2
    <2> QED
        BY <2>1, <2>3
<1>9. Paging!Cardinality(Q) = Cardinality(Q)
    BY Zenon DEF Paging!Cardinality, Cardinality
<1> QED
    BY <1>8, <1>9

(* The numbers offered: a window around the page, and what is outside it.  *)
LEMMA WindowOfPages ==
    ASSUME NEW n \in Nat, NEW total \in Nat, NEW v \in Nat,
           1 <= n, n <= total, 1 <= v, v <= total
    PROVE  \E from \in Nat, upto \in Nat :
              /\ 1 <= from /\ from <= n /\ n <= upto /\ upto <= total
              /\ Paging!GetPagesArr(n, total, v) =
                    Paging!Before(from) \o [i \in 1 .. upto - from + 1 |-> from + i - 1]
                    \o Paging!After(upto, total)
<1>1. PICK half \in Nat, odd \in Nat :
         half = v \div 2 /\ odd = v % 2 /\ odd < 2 /\ v = 2 * half + odd
    BY Halves
<1> DEFINE a    == n - half + 1 - odd
           z    == IF a < 1 THEN v ELSE n + half
           from == IF z > total THEN 1 + total - v ELSE IF a < 1 THEN 1 ELSE a
           upto == IF z > total THEN total ELSE z
<1>2. from \in Nat /\ upto \in Nat /\ 1 <= from /\ from <= n /\ n <= upto /\ upto <= total
    BY <1>1
<1>3. v # 0
    OBVIOUS
<1>4. Paging!GetPagesArr(n, total, v) =
          Paging!Before(from) \o [i \in 1 .. upto - from + 1 |-> from + i - 1]
          \o Paging!After(upto, total)
    BY <1>1, <1>3, Zenon DEF Paging!GetPagesArr
<1> HIDE DEF from, upto
<1> QED
    BY <1>2, <1>4

LEMMA NumbersBefore ==
    ASSUME NEW from \in Nat, 1 <= from
    PROVE  /\ Paging!Before(from) \in Seq(Int)
           /\ \/ Len(Paging!Before(from)) = 0 /\ from = 1
              \/ Len(Paging!Before(from)) = 1 /\ from = 2 /\ Paging!Before(from)[1] = 1
              \/ /\ Len(Paging!Before(from)) = 2 /\ from > 2
                 /\ Paging!Before(from)[1] = 1 /\ Paging!Before(from)[2] = 0
<1>1. CASE from > 2
    <2>0. from # 2
        BY <1>1
    <2>1. Paging!Before(from) = <<1, 0>>
        BY <1>1, <2>0, Zenon DEF Paging!Before
    <2> QED
        BY <1>1, <2>1
<1>2. CASE from = 2
    <2>1. ~(from > 2)
        BY <1>2
    <2>2. Paging!Before(from) = <<1>>
        BY <1>2, <2>1, Zenon DEF Paging!Before
    <2>3. <<1>> \in Seq(Int) /\ Len(<<1>>) = 1 /\ <<1>>[1] = 1
        OBVIOUS
    <2> QED
        BY <1>2, <2>2, <2>3, Zenon
<1>3. CASE from = 1
    <2>1. ~(from > 2) /\ from # 2
        BY <1>3
    <2>2. Paging!Before(from) = <<>>
        BY <2>1, Zenon DEF Paging!Before
    <2>3. <<>> \in Seq(Int) /\ Len(<<>>) = 0
        OBVIOUS
    <2> QED
        BY <1>3, <2>2, <2>3
<1> QED
    BY <1>1, <1>2, <1>3

LEMMA NumbersAfter ==
    ASSUME NEW upto \in Nat, NEW total \in Nat, upto <= total
    PROVE  LET after == Paging!After(upto, total) IN
           /\ after \in Seq(Int)
           /\ \/ Len(after) = 0 /\ upto = total
              \/ Len(after) = 1 /\ upto = total - 1 /\ after[1] = total
              \/ Len(after) = 2 /\ upto < total - 1 /\ after[1] = 0 /\ after[2] = total
<1>1. CASE upto < total - 1
    <2>0. upto # total - 1
        BY <1>1
    <2>1. Paging!After(upto, total) = <<0, total>>
        BY <1>1, <2>0, Zenon DEF Paging!After
    <2> QED
        BY <1>1, <2>1
<1>2. CASE upto = total - 1
    <2>1. ~(upto < total - 1)
        BY <1>2
    <2>2. Paging!After(upto, total) = <<total>>
        BY <1>2, <2>1, Zenon DEF Paging!After
    <2>3. <<total>> \in Seq(Int) /\ Len(<<total>>) = 1 /\ <<total>>[1] = total
        OBVIOUS
    <2> QED
        BY <1>2, <2>2, <2>3, Zenon
<1>3. CASE upto = total
    <2>1. ~(upto < total - 1) /\ upto # total - 1
        BY <1>3
    <2>2. Paging!After(upto, total) = <<>>
        BY <2>1, Zenon DEF Paging!After
    <2>3. <<>> \in Seq(Int) /\ Len(<<>>) = 0
        OBVIOUS
    <2> QED
        BY <1>3, <2>2, <2>3
<1> QED
    BY <1>1, <1>2, <1>3

LEMMA NumbersLead ==
    ASSUME NEW n \in Nat, NEW total \in Nat, NEW v \in Nat,
           1 <= n, n <= total, 1 <= v, v <= total
    PROVE  LET arr == Paging!GetPagesArr(n, total, v) IN
           /\ arr \in Seq(Int) /\ Len(arr) >= 1
           /\ arr[1] = 1 /\ arr[Len(arr)] = total /\ \E i \in 1 .. Len(arr) : arr[i] = n
           /\ \A i \in 1 .. Len(arr) - 1 :
                 IF 0 \in {arr[i], arr[i + 1]} THEN arr[i] # arr[i + 1]
                 ELSE arr[i + 1] = arr[i] + 1
           /\ \A i \in 1 .. Len(arr) : arr[i] = 0 => arr[i + 1] > arr[i - 1] + 1
<1>1. PICK from \in Nat, upto \in Nat :
          /\ 1 <= from /\ from <= n /\ n <= upto /\ upto <= total
          /\ Paging!GetPagesArr(n, total, v) =
                Paging!Before(from) \o [i \in 1 .. upto - from + 1 |-> from + i - 1]
                \o Paging!After(upto, total)
    BY WindowOfPages
<1>2. PICK low \in Seq(Int) :
          /\ low = Paging!Before(from)
          /\ \/ Len(low) = 0 /\ from = 1
             \/ Len(low) = 1 /\ from = 2 /\ low[1] = 1
             \/ Len(low) = 2 /\ from > 2 /\ low[1] = 1 /\ low[2] = 0
    BY <1>1, NumbersBefore
<1>3. PICK high \in Seq(Int) :
          /\ high = Paging!After(upto, total)
          /\ \/ Len(high) = 0 /\ upto = total
             \/ Len(high) = 1 /\ upto = total - 1 /\ high[1] = total
             \/ Len(high) = 2 /\ upto < total - 1 /\ high[1] = 0 /\ high[2] = total
    BY <1>1, NumbersAfter
<1>4. PICK mid \in Seq(Int) :
          /\ mid = [i \in 1 .. upto - from + 1 |-> from + i - 1]
          /\ Len(mid) = upto - from + 1
          /\ \A i \in 1 .. upto - from + 1 : mid[i] = from + i - 1
    <2> DEFINE m == [i \in 1 .. upto - from + 1 |-> from + i - 1]
    <2>1. upto - from + 1 \in Nat /\ \A i \in 1 .. upto - from + 1 : from + i - 1 \in Int
        BY <1>1
    <2>2. m \in Seq(Int) /\ Len(m) = upto - from + 1
        BY <2>1
    <2> QED
        BY <2>2
<1> DEFINE arr == (low \o mid) \o high
<1>5. Paging!GetPagesArr(n, total, v) = arr
    BY <1>1, <1>2, <1>3, <1>4, Zenon
<1>6. PICK L \in Nat, M \in Nat, H \in Nat :
          L = Len(low) /\ M = Len(mid) /\ H = Len(high)
    BY <1>2, <1>3, <1>4, LenProperties
<1>7. /\ low \o mid \in Seq(Int) /\ Len(low \o mid) = L + M
      /\ \A i \in 1 .. L + M : (low \o mid)[i] = IF i <= L THEN low[i] ELSE mid[i - L]
    BY <1>6, ConcatProperties
<1>8. /\ arr \in Seq(Int) /\ Len(arr) = L + M + H
      /\ \A i \in 1 .. L + M + H :
            arr[i] = IF i <= L + M THEN (low \o mid)[i] ELSE high[i - (L + M)]
    BY <1>6, <1>7, ConcatProperties
<1> HIDE DEF arr
<1>9. \A i \in 1 .. L + M + H :
          /\ i <= L => arr[i] = low[i]
          /\ L < i /\ i <= L + M => arr[i] = mid[i - L]
          /\ L + M < i => arr[i] = high[i - (L + M)]
    <2> TAKE i \in 1 .. L + M + H
    <2>1. i <= L => arr[i] = low[i]
        BY <1>7, <1>8, i <= L => i \in 1 .. L + M /\ i <= L + M
    <2>2. L < i /\ i <= L + M => arr[i] = mid[i - L]
        BY <1>7, <1>8, L < i /\ i <= L + M => i \in 1 .. L + M /\ ~(i <= L)
    <2>3. L + M < i => arr[i] = high[i - (L + M)]
        BY <1>8, L + M < i => ~(i <= L + M)
    <2> QED
        BY <2>1, <2>2, <2>3
<1>10. M = upto - from + 1 /\ M >= 1
    BY <1>1, <1>4, <1>6
<1>11. \A i \in L + 1 .. L + M : arr[i] = from + (i - L) - 1
    <2> TAKE i \in L + 1 .. L + M
    <2>1. i \in 1 .. L + M + H /\ L < i /\ i <= L + M
        OBVIOUS
    <2>2. arr[i] = mid[i - L]
        BY <1>9, <2>1
    <2>3. i - L \in 1 .. upto - from + 1
        BY <1>10
    <2>4. mid[i - L] = from + (i - L) - 1
        BY <1>4, <2>3
    <2> QED
        BY <2>2, <2>4
<1>12. /\ L = IF from > 2 THEN 2 ELSE from - 1
       /\ L >= 1 => arr[1] = 1
       /\ L = 2 => arr[2] = 0
    <2>1. L >= 1 => arr[1] = low[1]
        <3>1. L >= 1 => 1 \in 1 .. L + M + H /\ 1 <= L
            OBVIOUS
        <3> QED
            BY <1>9, <3>1, Zenon
    <2>2. L >= 2 => arr[2] = low[2]
        <3>1. L >= 2 => 2 \in 1 .. L + M + H /\ 2 <= L
            OBVIOUS
        <3> QED
            BY <1>9, <3>1, Zenon
    <2>3. \/ L = 0 /\ from = 1
          \/ L = 1 /\ from = 2 /\ low[1] = 1
          \/ L = 2 /\ from > 2 /\ low[1] = 1 /\ low[2] = 0
        BY <1>2, <1>6, Zenon
    <2> QED
        BY <2>1, <2>2, <2>3
<1>b. \/ H = 0 /\ upto = total
      \/ H = 1 /\ upto = total - 1
      \/ H = 2 /\ upto < total - 1
    BY <1>3, <1>6, Zenon
<1>13. /\ H = IF upto < total - 1 THEN 2 ELSE total - upto
       /\ H = 1 => arr[L + M + 1] = total
       /\ H = 2 => arr[L + M + 1] = 0 /\ arr[L + M + 2] = total
    <2>1. H >= 1 => arr[L + M + 1] = high[1]
        <3>1. L + M + 1 - (L + M) = 1 /\ L + M < L + M + 1 /\ (H >= 1 => L + M + 1 \in 1 .. L + M + H)
            OBVIOUS
        <3> QED
            BY <1>9, <3>1, SMTT(60)
    <2>2. H >= 2 => arr[L + M + 2] = high[2]
        <3>1. L + M + 2 - (L + M) = 2 /\ L + M < L + M + 2 /\ (H >= 2 => L + M + 2 \in 1 .. L + M + H)
            OBVIOUS
        <3> QED
            BY <1>9, <3>1
    <2>3. \/ H = 0 /\ upto = total
          \/ H = 1 /\ upto = total - 1 /\ high[1] = total
          \/ H = 2 /\ upto < total - 1 /\ high[1] = 0 /\ high[2] = total
        BY <1>3, <1>6, Zenon
    <2> QED
        BY <2>1, <2>2, <2>3
<1>14. arr[1] = 1
    <2>1. L = 0 => arr[1] = from
        BY <1>10, <1>11
    <2> QED
        BY <1>1, <1>12, <2>1
<1>a. arr[L + M] = upto
    <2>1. L + M \in L + 1 .. L + M /\ from + ((L + M) - L) - 1 = upto
        BY <1>10
    <2>2. arr[L + M] = from + ((L + M) - L) - 1
        BY <1>11, <2>1, Zenon
    <2> QED
        BY <2>1, <2>2, Zenon
<1>15. arr[L + M + H] = total /\ L + M + H >= 1
    <2>1. CASE H = 0
        BY <1>10, <1>a, <1>b, <2>1
    <2>2. CASE H = 1
        <3>1. L + M + H = L + M + 1 /\ L + M + 1 >= 1
            BY <2>2
        <3> QED
            BY <1>13, <2>2, <3>1, Zenon
    <2>3. CASE H = 2
        <3>1. L + M + H = L + M + 2 /\ L + M + 2 >= 1
            BY <2>3
        <3> QED
            BY <1>13, <2>3, <3>1, Zenon
    <2> QED
        BY <1>b, <2>1, <2>2, <2>3
<1>16. \E i \in 1 .. L + M + H : arr[i] = n
    <2>1. L + (n - from) + 1 \in L + 1 .. L + M /\ L + (n - from) + 1 \in 1 .. L + M + H
        BY <1>1, <1>10
    <2>2. arr[L + (n - from) + 1] = n
        BY <1>11, <2>1
    <2> QED
        BY <2>1, <2>2
<1>17. ASSUME NEW i \in 1 .. L + M + H - 1
       PROVE  IF 0 \in {arr[i], arr[i + 1]} THEN arr[i] # arr[i + 1] ELSE arr[i + 1] = arr[i] + 1
    <2>1. CASE L < i /\ i + 1 <= L + M
        <3>1. i \in L + 1 .. L + M /\ i + 1 \in L + 1 .. L + M
            BY <2>1
        <3>2. arr[i] = from + (i - L) - 1 /\ arr[i + 1] = from + (i + 1 - L) - 1
            BY <1>11, <3>1
        <3> QED
            BY <1>1, <2>1, <3>2
    <2>2. CASE i + 1 <= L
        <3>1. L = 2 /\ i = 1
            BY <1>12, <2>2
        <3> QED
            BY <1>12, <3>1
    <2>3. CASE i = L
        <3>1. i + 1 \in L + 1 .. L + M /\ L \in 1 .. 2
            BY <1>10, <1>12, <2>3
        <3>2. arr[i + 1] = from
            BY <1>11, <2>3, <3>1
        <3> QED
            BY <1>1, <1>12, <2>3, <3>1, <3>2
    <2>4. CASE i = L + M
        <3>1. arr[i] = upto /\ upto >= 1
            BY <1>1, <1>a, <2>4
        <3>2. i + 1 = L + M + 1
            BY <2>4
        <3>3. CASE H = 1
            <4>1. arr[i + 1] = total /\ upto = total - 1
                BY <1>13, <1>b, <3>2, <3>3
            <4> QED
                BY <1>1, <3>1, <4>1
        <3>4. CASE H = 2
            <4>1. arr[i + 1] = 0
                BY <1>13, <3>2, <3>4
            <4> QED
                BY <3>1, <4>1
        <3> QED
            BY <1>b, <2>4, <3>3, <3>4
    <2>5. CASE L + M < i
        <3>1. H = 2 /\ i = L + M + 1
            BY <1>1, <1>13, <2>5
        <3> QED
            BY <1>1, <1>13, <3>1
    <2> QED
        BY <2>1, <2>2, <2>3, <2>4, <2>5
<1>18. ASSUME NEW i \in 1 .. L + M + H, arr[i] = 0
       PROVE  arr[i + 1] > arr[i - 1] + 1
    <2>1. ~(L < i /\ i <= L + M)
        <3>1. SUFFICES ASSUME i \in L + 1 .. L + M PROVE FALSE
            OBVIOUS
        <3>2. arr[i] = from + (i - L) - 1
            BY <1>11, <3>1
        <3> QED
            BY <1>1, <1>18, <3>1, <3>2
    <2>2. CASE i <= L
        <3>1. L = 2 /\ i = 2 /\ from > 2
            BY <1>12, <1>18, <2>2
        <3>2. arr[3] = from
            BY <1>10, <1>11, <3>1
        <3> QED
            BY <1>14, <3>1, <3>2
    <2>3. CASE L + M < i
        <3>a. H # 1
            <4>1. SUFFICES ASSUME H = 1 PROVE FALSE
                OBVIOUS
            <4>2. i = L + M + 1
                BY <2>3, <4>1
            <4> QED
                BY <1>13, <1>18, <4>1, <4>2
        <3>b. H = 2 /\ (i = L + M + 1 \/ i = L + M + 2)
            BY <1>b, <2>3, <3>a
        <3>c. i # L + M + 2
            <4>1. arr[L + M + 2] = total /\ total # 0
                BY <1>13, <3>b
            <4> QED
                BY <1>18, <4>1, Zenon
        <3>1. H = 2 /\ i = L + M + 1 /\ upto < total - 1
            BY <1>b, <3>b, <3>c
        <3>2. arr[i + 1] = total
            BY <1>13, <3>1
        <3>3. i - 1 \in L + 1 .. L + M /\ i - 1 = L + M
            BY <1>10, <3>1
        <3>4. arr[i - 1] = upto
            BY <1>a, <3>3
        <3> QED
            BY <3>1, <3>2, <3>4
    <2> QED
        BY <2>1, <2>2, <2>3
<1>19. PICK last \in Nat : last = L + M + H /\ last = Len(arr)
    BY <1>8
<1>20. /\ arr[1] = 1 /\ arr[last] = total /\ last >= 1 /\ \E i \in 1 .. last : arr[i] = n
       /\ \A i \in 1 .. last - 1 : IF 0 \in {arr[i], arr[i + 1]} THEN arr[i] # arr[i + 1]
                                 ELSE arr[i + 1] = arr[i] + 1
       /\ \A i \in 1 .. last : arr[i] = 0 => arr[i + 1] > arr[i - 1] + 1
    <2>1. /\ arr[1] = 1 /\ arr[last] = total /\ last >= 1 /\ \E i \in 1 .. last : arr[i] = n
        BY <1>14, <1>15, <1>16, <1>19, Zenon
    <2>2. \A i \in 1 .. last - 1 : IF 0 \in {arr[i], arr[i + 1]} THEN arr[i] # arr[i + 1]
                                 ELSE arr[i + 1] = arr[i] + 1
        <3>1. 1 .. last - 1 = 1 .. L + M + H - 1
            BY <1>19
        <3> QED
            BY <1>17, <3>1, Zenon
    <2>3. \A i \in 1 .. last : arr[i] = 0 => arr[i + 1] > arr[i - 1] + 1
        BY <1>18, <1>19, Zenon
    <2> QED
        BY <2>1, <2>2, <2>3, Zenon
<1> QED
    BY <1>5, <1>8, <1>19, <1>20, Zenon
(* The state of a pager: no request is waited for but that for the page    *)
(* asked last, and a table holds that page, unless the user hurries.       *)
PagerSet == [pageSize : Sizes \cup {0}, pageNum : -1 .. MaxNum, visible : 0 .. VisiblePages]
ShownSet == [s : Sizes, n : 0 .. MaxNum, rows : SUBSET (1 .. RowCount), alive : BOOLEAN]
PageSet  == [s : Sizes, n : 1 .. MaxNum]
AskedFor(p) == [s |-> p.pageSize, n |-> Paging!Verify(p.pageSize, p.pageNum)]
WaitsForLast ==
    /\ s1 # "paging" => s2.pageSize > 0
    /\ s1 = "static" => s5 = <<>>
    /\ ~s6 => /\ Len(s5) <= 1
              /\ s5 # <<>> /\ s2.pageSize > 0 => s5[1] = AskedFor(s2)
              /\ s1 = "table" /\ s5 = <<>> => s4 = AskedFor(s2)
PagingCore == Paging!TypeOK /\ Paging!RowsMatchPage /\ WaitsForLast

LEMMA VerifyIs ==
    ASSUME NEW s \in Nat, NEW n \in Int
    PROVE  Paging!Verify(s, n) = IF s < 1 THEN 0 ELSE IF n < 1 THEN 1 ELSE n
<1>1. CASE s < 1
    <2>1. ~(s >= 1 /\ n < 1)
        BY <1>1
    <2> QED
        BY <1>1, <2>1, Zenon DEF Paging!Verify
<1>2. CASE s >= 1 /\ n < 1
    <2>1. ~(s < 1)
        BY <1>2
    <2> QED
        BY <1>2, <2>1, Zenon DEF Paging!Verify
<1>3. CASE ~(s < 1) /\ ~(n < 1)
    BY <1>3, Zenon DEF Paging!Verify
<1> QED
    BY <1>1, <1>2, <1>3

LEMMA SizesAndNumbers ==
    /\ \A s \in Sizes : s \in Nat \ {0}
    /\ \A n \in -1 .. MaxNum : n \in Int
    /\ \A n \in 0 .. MaxNum : n \in Int /\ n \in -1 .. MaxNum
    /\ \A n \in 1 .. MaxNum : n \in Nat \ {0} /\ n \in 0 .. MaxNum
<1>1. \A s \in Sizes : s \in Nat \ {0}
    BY PagingAssumption, Zenon
<1>2. MaxNum \in Nat
    BY PagingAssumption
<1> QED
    BY <1>1, <1>2

LEMMA PagesIsNat == ASSUME NEW s \in Sizes PROVE Paging!Pages(s) \in Nat
<1>1. RowCount + s - 1 \in Nat /\ s \in Nat \ {0}
    BY PagingAssumption
<1>2. PICK d \in Nat : d = (RowCount + s - 1) \div s
    BY <1>1, Division, Zenon
<1> QED
    BY <1>2, Zenon DEF Paging!Pages

LEMMA FewerVisible ==
    ASSUME NEW p \in PagerSet, NEW s \in Sizes
    PROVE  [p EXCEPT !.visible = Paging!Least(@, Paging!Pages(s))] \in PagerSet
<1>1. PICK k \in Nat : k = Paging!Pages(s)
    BY PagesIsNat
<1>2. Paging!Least(p.visible, k) \in 0 .. VisiblePages
    BY PagingAssumption DEF Paging!Least, PagerSet
<1> QED
    BY <1>1, <1>2 DEF PagerSet

LEMMA PagersLead == Paging!TypeOK => Paging!NumbersLeadEverywhere
<1> DEFINE total == Paging!Pages(s3.s)
           v     == Paging!Least(s2.visible, total)
           arr   == Paging!GetPagesArr(s3.n, total, v)
<1> SUFFICES ASSUME Paging!TypeOK, s3.n \in 1 .. total, s2.visible > 0
             PROVE  /\ arr[1] = 1 /\ Paging!Last(arr) = total /\ s3.n \in Paging!ToSet(arr)
                    /\ \A i \in 1 .. Len(arr) - 1 :
                          IF 0 \in {arr[i], arr[i + 1]} THEN arr[i] # arr[i + 1]
                          ELSE arr[i + 1] = arr[i] + 1
                    /\ \A i \in DOMAIN arr : arr[i] = 0 => arr[i + 1] > arr[i - 1] + 1
    BY Zenon DEF Paging!NumbersLeadEverywhere
<1>1. total \in Nat
    BY PagesIsNat DEF Paging!TypeOK
<1>2. s3.n \in Nat /\ s2.visible \in Nat
    BY PagingAssumption DEF Paging!TypeOK
<1> HIDE DEF total
<1>3. 1 <= s3.n /\ s3.n <= total
    BY <1>1, <1>2
<1>4. v \in Nat /\ 1 <= v /\ v <= total
    BY <1>1, <1>2, <1>3 DEF Paging!Least
<1> HIDE DEF v
<1>5. /\ arr \in Seq(Int) /\ Len(arr) >= 1
      /\ arr[1] = 1 /\ arr[Len(arr)] = total /\ \E i \in 1 .. Len(arr) : arr[i] = s3.n
      /\ \A i \in 1 .. Len(arr) - 1 :
            IF 0 \in {arr[i], arr[i + 1]} THEN arr[i] # arr[i + 1]
            ELSE arr[i + 1] = arr[i] + 1
      /\ \A i \in 1 .. Len(arr) : arr[i] = 0 => arr[i + 1] > arr[i - 1] + 1
    BY <1>1, <1>2, <1>3, <1>4, NumbersLead, Zenon
<1> HIDE DEF arr
<1>6. DOMAIN arr = 1 .. Len(arr)
    BY <1>5, LenProperties
<1>7. Paging!Last(arr) = total /\ s3.n \in Paging!ToSet(arr)
    BY <1>5, <1>6 DEF Paging!Last, Paging!ToSet
<1> QED
    BY <1>5, <1>6, <1>7, Zenon

(* What is rendered.                                                       *)
LEMMA CutIsShown ==
    ASSUME Paging!TypeOK, s1 = "static", NEW p \in PagerSet, p.pageSize > 0,
           NEW n \in {p.pageNum, Paging!Verify(p.pageSize, p.pageNum)},
           n \in 0 .. MaxNum, Paging!RenderHtml(p, p.pageSize, n)
    PROVE  /\ s3' \in ShownSet
           /\ s3'.alive => /\ s3'.rows = Paging!RowsOf(s3'.s, IF s3'.n = 0 THEN 1 ELSE s3'.n)
                           /\ s3'.n = n
<1>1. p.pageSize \in Nat \ {0} /\ p.pageSize \in Sizes /\ p.pageNum \in Int
    <2>1. p.pageSize \in Sizes \cup {0} /\ p.pageNum \in -1 .. MaxNum
        BY DEF PagerSet
    <2>2. p.pageSize # 0
        OBVIOUS
    <2> QED
        BY <2>1, <2>2, SizesAndNumbers, Zenon
<1>2. s3 \in ShownSet
    BY DEF Paging!TypeOK, ShownSet
<1>3. CASE Paging!CutRows(p) \subseteq 1 .. RowCount
    <2>1. s3' = [s |-> p.pageSize, n |-> n, rows |-> Paging!CutRows(p), alive |-> TRUE]
        BY <1>3, Zenon DEF Paging!RenderHtml
    <2>2. Paging!CutRows(p) = Paging!RowsOf(p.pageSize, p.pageNum) /\ p.pageNum >= 1
        BY <1>1, <1>3, CutIsPage, Zenon
    <2>3. n = p.pageNum /\ n # 0
        BY <1>1, <2>2, VerifyIs
    <2> QED
        BY <1>1, <1>3, <2>1, <2>2, <2>3 DEF ShownSet
<1>4. CASE ~(Paging!CutRows(p) \subseteq 1 .. RowCount)
    <2>1. s3' = [s3 EXCEPT !.s = p.pageSize, !.n = n, !.alive = FALSE]
        BY <1>4, Zenon DEF Paging!RenderHtml
    <2> QED
        BY <1>1, <1>2, <2>1 DEF ShownSet
<1> QED
    BY <1>3, <1>4

LEMMA HeldIsShown ==
    ASSUME s1 = "table", NEW h \in PageSet, s4' = h, NEW p,
           NEW s \in Sizes, NEW n \in 0 .. MaxNum, Paging!RenderHtml(p, s, n)
    PROVE  /\ s3' \in ShownSet /\ s3'.s = s /\ s3'.n = n
           /\ p.pageSize = h.s => s3'.rows = Paging!RowsOf(h.s, h.n)
<1>1. Paging!HeldRows(h, p) \subseteq 1 .. RowCount
    BY DEF Paging!HeldRows, Paging!RowsOf
<1>2. s3' = [s |-> s, n |-> n, rows |-> Paging!HeldRows(h, p), alive |-> TRUE]
    BY <1>1, Zenon DEF Paging!RenderHtml
<1>3. ASSUME p.pageSize = h.s
      PROVE  Paging!HeldRows(h, p) = Paging!RowsOf(h.s, h.n)
    <2>1. h.s \in Nat \ {0} /\ h.n \in Int
        <3>1. h.s \in Sizes /\ h.n \in 1 .. MaxNum
            BY DEF PageSet
        <3> QED
            BY <3>1, SizesAndNumbers, Zenon
    <2> QED
        BY <1>3, <2>1, PageIsShort, Zenon DEF Paging!HeldRows
<1> QED
    BY <1>1, <1>2, <1>3 DEF ShownSet

LEMMA PagingInit == Paging!Init => PagingCore
<1> SUFFICES ASSUME Paging!Init
             PROVE  PagingCore
    OBVIOUS
<1>1. PICK s \in Sizes :
          /\ s2 = [pageSize |-> s, pageNum |-> 1,
                   visible |-> Paging!Least(VisiblePages, Paging!Pages(s))]
          /\ s3 = [s |-> s, n |-> 1, rows |-> Paging!RowsOf(s, 1), alive |-> TRUE]
          /\ s4 = [s |-> s, n |-> 1]
    BY DEF Paging!Init
<1>2. s1 \in {"paging", "table", "static"} /\ s5 = <<>> /\ s6 = FALSE
    BY DEF Paging!Init
<1>3. s \in Nat \ {0} /\ 1 \in 1 .. MaxNum /\ 1 \in -1 .. MaxNum /\ 1 \in 0 .. MaxNum
    BY PagingAssumption
<1>4. Paging!Least(VisiblePages, Paging!Pages(s)) \in 0 .. VisiblePages
    <2>1. PICK k \in Nat : k = Paging!Pages(s)
        BY PagesIsNat
    <2> QED
        BY <2>1, PagingAssumption DEF Paging!Least
<1>5. Paging!RowsOf(s, 1) \subseteq 1 .. RowCount
    BY DEF Paging!RowsOf
<1>6. <<>> \in Seq(PageSet) /\ Len(<<>>) = 0
    OBVIOUS
<1>7. Paging!TypeOK
    <2>1. s2 \in PagerSet
        BY <1>1, <1>3, <1>4 DEF PagerSet
    <2>2. s3 \in ShownSet
        BY <1>1, <1>3, <1>5 DEF ShownSet
    <2>3. s4 \in PageSet
        BY <1>1, <1>3 DEF PageSet
    <2>4. s5 \in Seq(PageSet) /\ Len(s5) <= MaxRequests
        BY <1>2, <1>6, PagingAssumption
    <2>5. s6 \in BOOLEAN
        BY <1>2, Zenon
    <2> QED
        BY <1>2, <2>1, <2>2, <2>3, <2>4, <2>5, Zenon
        DEF Paging!TypeOK, PagerSet, ShownSet, PageSet
<1>8. Paging!Verify(s, 1) = 1 /\ Paging!Verify(1, 1) = 1
    BY <1>3, VerifyIs
<1>9. Paging!RowsMatchPage
    BY <1>1, <1>8 DEF Paging!RowsMatchPage
<1>10. WaitsForLast
    BY <1>1, <1>2, <1>3, <1>6, <1>8 DEF WaitsForLast, AskedFor
<1> QED
    BY <1>7, <1>9, <1>10 DEF PagingCore

LEMMA PagingStep ==
    ASSUME PagingCore, Paging!Next \/ UNCHANGED Paging!vars
    PROVE  PagingCore'
<1>1. /\ s1 \in {"paging", "table", "static"} /\ s6 \in BOOLEAN /\ s2 \in PagerSet
      /\ s3 \in ShownSet /\ s4 \in PageSet /\ s5 \in Seq(PageSet) /\ Len(s5) <= MaxRequests
      /\ Len(s5) \in Nat
    <2>1. /\ s1 \in {"paging", "table", "static"} /\ s6 \in BOOLEAN /\ s2 \in PagerSet
          /\ s3 \in ShownSet /\ s4 \in PageSet /\ s5 \in Seq(PageSet) /\ Len(s5) <= MaxRequests
        BY Zenon DEF PagingCore, Paging!TypeOK, PagerSet, ShownSet, PageSet
    <2> QED
        BY <2>1, LenProperties, Zenon
<1>2. ASSUME s1' = s1, s2' \in PagerSet, s3' \in ShownSet, s4' \in PageSet,
             s5' \in Seq(PageSet), Len(s5') <= MaxRequests, s6' \in BOOLEAN
      PROVE  Paging!TypeOK'
    BY <1>1, <1>2, Zenon DEF Paging!TypeOK, PagerSet, ShownSet, PageSet
<1>3. /\ s1 # "paging" => s2.pageSize > 0
      /\ s1 = "static" => s5 = <<>>
      /\ ~s6 => /\ Len(s5) <= 1
                /\ s5 # <<>> /\ s2.pageSize > 0 => s5[1] = AskedFor(s2)
                /\ s1 = "table" /\ s5 = <<>> => s4 = AskedFor(s2)
    BY DEF PagingCore, WaitsForLast
<1>4. ~s6 /\ s3.alive =>
        /\ s3.rows = Paging!RowsOf(s3.s, IF s3.n = 0 THEN 1 ELSE s3.n)
        /\ s5 = <<>> /\ s2.pageSize > 0 =>
              s3.n \in {Paging!Verify(1, s2.pageNum), s2.pageNum}
    BY DEF PagingCore, Paging!RowsMatchPage
<1>5. ASSUME NEW p \in PagerSet, s1 # "paging" => p.pageSize > 0,
             p.pageSize = 0 => s2.pageSize = 0 \/ s1 = "paging",
             Paging!AjaxFunc(p), s1' = s1
      PROVE  PagingCore'
    <2> DEFINE n == Paging!Verify(p.pageSize, p.pageNum)
    <2>1. /\ p.pageSize \in Nat /\ p.pageNum \in Int
          /\ p.pageSize # 0 => p.pageSize \in Sizes
        <3>1. p.pageSize \in Sizes \cup {0} /\ p.pageNum \in -1 .. MaxNum
            BY DEF PagerSet
        <3>2. 0 \in Nat
            OBVIOUS
        <3> QED
            BY <3>1, <3>2, SizesAndNumbers
    <2>2. /\ n = 0 <=> p.pageSize = 0
          /\ p.pageSize # 0 => n = IF p.pageNum < 1 THEN 1 ELSE p.pageNum
          /\ n \in Nat
        BY <2>1, VerifyIs
    <2>3. n <= MaxNum
        BY <2>1, <2>2, PagingAssumption DEF PagerSet
    <2>4. CASE n = 0
        <3>1. s2' = p /\ UNCHANGED <<s3, s4, s5, s6>>
            BY <1>5, <2>4, Zenon DEF Paging!AjaxFunc
        <3>2. s1 = "paging" /\ p.pageSize = 0
            BY <1>5, <2>2, <2>4
        <3>3. Paging!TypeOK'
            BY <1>1, <1>2, <1>5, <3>1, Zenon
        <3>4. WaitsForLast'
            BY <1>1, <1>3, <1>5, <3>1, <3>2 DEF WaitsForLast
        <3>5. Paging!RowsMatchPage'
            BY <1>4, <3>1, <3>2 DEF Paging!RowsMatchPage
        <3> QED
            BY <3>3, <3>4, <3>5, Zenon DEF PagingCore
    <2>5. CASE n # 0 /\ s1 = "static"
        <3>1. /\ s2' = [p EXCEPT !.visible = Paging!Least(@, Paging!Pages(p.pageSize))]
              /\ UNCHANGED <<s4, s5, s6>> /\ Paging!RenderHtml(p, p.pageSize, n)
            BY <2>5, <1>5, Zenon DEF Paging!AjaxFunc
        <3>2. p.pageSize > 0 /\ p.pageSize \in Sizes
            BY <2>1, <2>2, <2>5
        <3>3. n \in 0 .. MaxNum
            BY <2>2, <2>3
        <3>4. Paging!TypeOK
            BY Zenon DEF PagingCore
        <3>5. /\ s3' \in ShownSet
              /\ s3'.alive => /\ s3'.rows = Paging!RowsOf(s3'.s, IF s3'.n = 0 THEN 1 ELSE s3'.n)
                              /\ s3'.n = n
            <4> HIDE DEF n
            <4>1. n \in {p.pageNum, Paging!Verify(p.pageSize, p.pageNum)}
                BY Zenon DEF n
            <4> QED
                BY <2>5, <3>1, <3>2, <3>3, <3>4, <4>1, CutIsShown, Zenon
        <3>6. s2' \in PagerSet /\ s2'.pageSize = p.pageSize /\ s2'.pageNum = p.pageNum
            <4>1. s2' \in PagerSet
                BY <3>1, <3>2, FewerVisible, Zenon
            <4> QED
                BY <3>1, <4>1 DEF PagerSet
        <3>7. Paging!TypeOK'
            BY <1>1, <1>2, <1>5, <3>1, <3>5, <3>6, Zenon
        <3>8. WaitsForLast'
            BY <1>1, <1>3, <1>5, <2>5, <3>1, <3>2, <3>6 DEF WaitsForLast
        <3>9. n = Paging!Verify(1, s2'.pageNum)
            BY <2>1, <2>2, <2>5, <3>6, VerifyIs
        <3>10. Paging!RowsMatchPage'
            <4> HIDE DEF n
            <4> QED
                BY <3>5, <3>9, Zenon DEF Paging!RowsMatchPage
        <3> QED
            BY <3>7, <3>8, <3>10, Zenon DEF PagingCore
    <2>6. CASE n # 0 /\ s1 # "static"
        <3>1. /\ s2' = p /\ n <= MaxNum /\ Len(s5) < MaxRequests
              /\ s5' = Append(s5, [s |-> p.pageSize, n |-> n])
              /\ s6' = (s6 \/ s5 # <<>>) /\ UNCHANGED <<s3, s4>>
            BY <2>6, <1>5, Zenon DEF Paging!AjaxFunc
        <3>2. AskedFor(p) \in PageSet
            <4>1. p.pageSize \in Sizes /\ n \in 1 .. MaxNum
                BY <2>1, <2>2, <2>3, <2>6
            <4> QED
                BY <4>1 DEF AskedFor, PageSet
        <3>3. s5' = Append(s5, AskedFor(p))
            BY <3>1, Zenon DEF AskedFor
        <3>4. /\ s5' \in Seq(PageSet) /\ Len(s5') = Len(s5) + 1
              /\ s5'[Len(s5) + 1] = AskedFor(p)
            BY <1>1, <3>2, <3>3, AppendProperties
        <3>5. Len(s5') <= MaxRequests
            BY <1>1, <3>1, <3>4, PagingAssumption
        <3>6. s6' \in BOOLEAN
            BY <3>1, Zenon
        <3>7. Paging!TypeOK'
            BY <1>1, <1>2, <1>5, <3>1, <3>4, <3>5, <3>6, Zenon
        <3>8. ASSUME ~s6'
              PROVE  ~s6 /\ s5 = <<>> /\ Len(s5') = 1 /\ s5'[1] = AskedFor(p)
            <4>1. ~s6 /\ s5 = <<>>
                BY <3>1, <3>8, Zenon
            <4>2. Len(s5) = 0
                BY <4>1
            <4> QED
                BY <3>4, <4>1, <4>2
        <3>9. s5' # <<>>
            <4>1. Len(<<>>) = 0
                OBVIOUS
            <4>2. Len(s5') # 0
                BY <1>1, <3>4
            <4> QED
                BY <4>1, <4>2, Zenon
        <3>10. WaitsForLast'
            BY <1>5, <2>6, <3>1, <3>8, <3>9 DEF WaitsForLast
        <3>11. Paging!RowsMatchPage'
            BY <1>4, <3>1, <3>8, <3>9 DEF Paging!RowsMatchPage
        <3> QED
            BY <3>7, <3>10, <3>11, Zenon DEF PagingCore
    <2> QED
        BY <2>4, <2>5, <2>6
<1>6. CASE UNCHANGED Paging!vars
    BY <1>6 DEF PagingCore, Paging!vars, Paging!TypeOK, Paging!RowsMatchPage, WaitsForLast
<1>7. CASE Paging!ClickPage
    <2>1. PICK n \in -1 .. MaxNum : Paging!AjaxFunc([s2 EXCEPT !.pageNum = n])
        BY <1>7 DEF Paging!ClickPage
    <2>2. s1' = s1
        BY <1>7 DEF Paging!ClickPage
    <2>3. [s2 EXCEPT !.pageNum = n] \in PagerSet /\ [s2 EXCEPT !.pageNum = n].pageSize = s2.pageSize
        BY <1>1 DEF PagerSet
    <2> QED
        BY <1>3, <1>5, <2>1, <2>2, <2>3
<1>8. CASE Paging!Reinit
    <2>1. PICK s \in Sizes \cup {0}, n \in 0 .. MaxNum :
              /\ s1 # "paging" => s \in Sizes
              /\ Paging!AjaxFunc([s2 EXCEPT !.pageSize = s, !.pageNum = n])
        BY <1>8 DEF Paging!Reinit
    <2>2. s1' = s1
        BY <1>8 DEF Paging!Reinit
    <2> DEFINE p == [s2 EXCEPT !.pageSize = s, !.pageNum = n]
    <2>3. p \in PagerSet /\ p.pageSize = s
        BY <1>1, SizesAndNumbers DEF PagerSet
    <2>4. s1 # "paging" => p.pageSize > 0
        BY <2>1, <2>3, SizesAndNumbers
    <2> HIDE DEF p
    <2>5. Paging!AjaxFunc(p)
        BY <2>1, Zenon DEF p
    <2>6. p.pageSize = 0 => s1 = "paging"
        BY <2>4
    <2> QED
        BY <1>5, <2>2, <2>3, <2>4, <2>5, <2>6
<1>9. CASE Paging!Answer
    <2>1. PICK i \in DOMAIN s5 :
              /\ s5' = Paging!RemoveAt(s5, i) /\ s4' = s5[i]
              /\ s2' = Paging!Shrunk(s5[i].s)
              /\ IF s1 = "paging"
                 THEN s3' = [s |-> s5[i].s, n |-> s5[i].n,
                             rows |-> Paging!RowsOf(s5[i].s, s5[i].n), alive |-> TRUE]
                 ELSE Paging!RenderHtml(s2, s5[i].s, s5[i].n)
        BY <1>9, Zenon DEF Paging!Answer
    <2>2. s1' = s1 /\ s6' = s6
        BY <1>9, Zenon DEF Paging!Answer
    <2>3. i \in 1 .. Len(s5) /\ s5[i] \in PageSet
        BY <1>1, LenProperties, ElementOfSeq
    <2>4. PICK r \in PageSet : r = s5[i]
        BY <2>3
    <2>5. r.s \in Sizes /\ r.n \in 0 .. MaxNum /\ r.n # 0 /\ r.s \in Nat \ {0} /\ r.n \in Int
        <3>1. r.s \in Sizes /\ r.n \in 1 .. MaxNum
            BY DEF PageSet
        <3> QED
            BY <3>1, SizesAndNumbers
    <2>6. s5' \in Seq(PageSet) /\ Len(s5') = Len(s5) - 1
        <3>1. /\ SubSeq(s5, 1, i - 1) \in Seq(PageSet) /\ Len(SubSeq(s5, 1, i - 1)) = i - 1
            BY <1>1, <2>3, SubSeqProperties
        <3>2. /\ SubSeq(s5, i + 1, Len(s5)) \in Seq(PageSet)
              /\ Len(SubSeq(s5, i + 1, Len(s5))) = Len(s5) - i
            BY <1>1, <2>3, SubSeqProperties
        <3>3. s5' = SubSeq(s5, 1, i - 1) \o SubSeq(s5, i + 1, Len(s5))
            BY <2>1, Zenon DEF Paging!RemoveAt
        <3>4. /\ s5' \in Seq(PageSet)
              /\ Len(s5') = Len(SubSeq(s5, 1, i - 1)) + Len(SubSeq(s5, i + 1, Len(s5)))
            BY <3>1, <3>2, <3>3, ConcatProperties, Zenon
        <3>5. Len(s5') = (i - 1) + (Len(s5) - i)
            BY <3>1, <3>2, <3>4, Zenon
        <3>6. Len(s5) \in Nat /\ i \in Int
            BY <1>1, <2>3
        <3>7. (i - 1) + (Len(s5) - i) = Len(s5) - 1
            BY <3>6
        <3> QED
            BY <3>4, <3>5, <3>7, Zenon
    <2>7. s2' \in PagerSet /\ s2'.pageSize = s2.pageSize /\ s2'.pageNum = s2.pageNum
        <3>1. s2' = [s2 EXCEPT !.visible = Paging!Least(@, Paging!Pages(r.s))]
            BY <2>1, <2>4, Zenon DEF Paging!Shrunk
        <3>2. s2' \in PagerSet
            BY <1>1, <2>5, <3>1, FewerVisible, Zenon
        <3>3. s2 \in PagerSet
            BY <1>1, Zenon
        <3> QED
            BY <3>1, <3>2, <3>3 DEF PagerSet
    <2>8. s1 # "static"
        <3>1. s5 # <<>>
            BY <1>1, <2>3
        <3> QED
            BY <1>3, <3>1
    <2>9. /\ s3' \in ShownSet /\ s3'.n = r.n /\ s3'.s = r.s
          /\ s1 = "paging" \/ s2.pageSize = r.s => s3'.rows = Paging!RowsOf(r.s, r.n)
        <3>1. CASE s1 = "paging"
            <4>1. s3' = [s |-> r.s, n |-> r.n, rows |-> Paging!RowsOf(r.s, r.n), alive |-> TRUE]
                BY <2>1, <2>4, <3>1, Zenon
            <4>2. Paging!RowsOf(r.s, r.n) \subseteq 1 .. RowCount
                BY DEF Paging!RowsOf
            <4> QED
                BY <2>5, <4>1, <4>2 DEF ShownSet
        <3>2. CASE s1 = "table"
            <4>1. Paging!RenderHtml(s2, r.s, r.n) /\ s4' = r
                BY <2>1, <2>4, <3>2
            <4>2. /\ s3' \in ShownSet /\ s3'.s = r.s /\ s3'.n = r.n
                  /\ s2.pageSize = r.s => s3'.rows = Paging!RowsOf(r.s, r.n)
                BY <2>5, <3>2, <4>1, HeldIsShown, Zenon
            <4> QED
                BY <3>2, <4>2
        <3> QED
            BY <1>1, <2>8, <3>1, <3>2
    <2>10. Paging!TypeOK'
        <3>1. Len(s5') <= MaxRequests
            BY <1>1, <2>6, PagingAssumption
        <3>2. s4' \in PageSet
            BY <2>1, <2>3
        <3> QED
            BY <1>1, <1>2, <2>2, <2>6, <2>7, <2>9, <3>1, <3>2, Zenon
    <2>11. ASSUME ~s6
           PROVE  s5' = <<>> /\ Len(s5') = 0 /\ (s2.pageSize > 0 => r = AskedFor(s2))
        <3>1. Len(s5) = 1 /\ i = 1
            <4>1. Len(s5) \in Nat /\ Len(s5) <= 1 /\ i \in 1 .. Len(s5)
                BY <1>1, <1>3, <2>3, <2>11, Zenon
            <4>2. PICK k \in Nat : k = Len(s5)
                BY <4>1
            <4>3. k <= 1 /\ i \in 1 .. k
                BY <4>1, <4>2, Zenon
            <4>4. k = 1 /\ i = 1
                BY <4>3
            <4> QED
                BY <4>2, <4>4, Zenon
        <3>2. Len(s5') = 0
            BY <2>6, <3>1
        <3>3. s5' = <<>>
            BY <2>6, <3>2, EmptySeq
        <3>4. s5 # <<>>
            BY <3>1
        <3> QED
            BY <1>3, <2>4, <2>11, <3>1, <3>2, <3>3, <3>4
    <2>12. AskedFor(s2') = AskedFor(s2)
        BY <2>7 DEF AskedFor
    <2>13. WaitsForLast'
        <3>1. s4' = r
            BY <2>1, <2>4
        <3>2. s1 = "table" => s2.pageSize > 0
            BY <1>3
        <3> QED
            BY <2>2, <2>7, <2>8, <2>11, <2>12, <3>1, <3>2, <1>3 DEF WaitsForLast
    <2>14. ASSUME ~s6
           PROVE  /\ s3'.rows = Paging!RowsOf(s3'.s, IF s3'.n = 0 THEN 1 ELSE s3'.n)
                  /\ s2'.pageSize > 0 => s3'.n = Paging!Verify(1, s2'.pageNum)
        <3>1. s2.pageSize > 0 => r.s = s2.pageSize /\ r.n = Paging!Verify(s2.pageSize, s2.pageNum)
            BY <2>11, <2>14 DEF AskedFor
        <3>2. s1 # "paging" => s2.pageSize > 0
            BY <1>3
        <3>3. s3'.rows = Paging!RowsOf(r.s, r.n)
            BY <2>9, <3>1, <3>2
        <3>4. s2.pageSize > 0 =>
                  Paging!Verify(s2.pageSize, s2.pageNum) = Paging!Verify(1, s2.pageNum)
            <4>1. s2.pageNum \in Int /\ (s2.pageSize > 0 => s2.pageSize \in Nat)
                <5>1. s2.pageSize \in Sizes \cup {0} /\ s2.pageNum \in -1 .. MaxNum
                    BY <1>1 DEF PagerSet
                <5>2. 0 \in Nat
                    OBVIOUS
                <5> QED
                    BY <5>1, <5>2, SizesAndNumbers
            <4> QED
                BY <4>1, VerifyIs
        <3> QED
            BY <2>5, <2>7, <2>9, <3>1, <3>3, <3>4
    <2>15. Paging!RowsMatchPage'
        BY <2>2, <2>14 DEF Paging!RowsMatchPage
    <2> QED
        BY <2>10, <2>13, <2>15, Zenon DEF PagingCore
<1>10. CASE Paging!Lost
    <2>1. s5 # <<>> /\ s5' = Tail(s5) /\ s6' = TRUE /\ UNCHANGED <<s1, s2, s3, s4>>
        BY <1>10 DEF Paging!Lost
    <2>2. s5' \in Seq(PageSet) /\ Len(s5') = Len(s5) - 1
        BY <1>1, <2>1, HeadTailProperties
    <2>3. Len(s5') <= MaxRequests /\ s6' \in BOOLEAN
        BY <1>1, <2>1, <2>2, PagingAssumption
    <2>4. Paging!TypeOK'
        BY <1>1, <1>2, <2>1, <2>2, <2>3, Zenon
    <2>5. s1 # "static"
        BY <1>3, <2>1
    <2>6. WaitsForLast' /\ Paging!RowsMatchPage'
        BY <1>3, <2>1, <2>5 DEF WaitsForLast, Paging!RowsMatchPage
    <2> QED
        BY <2>4, <2>6, Zenon DEF PagingCore
<1>11. CASE Paging!Sort
    <2>1. /\ s1 # "paging" /\ s2.pageNum >= 0 /\ UNCHANGED <<s1, s4, s5>>
          /\ s2' = Paging!Shrunk(s2.pageSize) /\ s6' = (s6 \/ s5 # <<>>)
          /\ Paging!RenderHtml(s2, s2.pageSize, s2.pageNum)
        BY <1>11, Zenon DEF Paging!Sort
    <2>2. /\ s2.pageSize \in Sizes /\ s2.pageSize > 0 /\ s2.pageSize \in Nat \ {0}
          /\ s2.pageNum \in 0 .. MaxNum /\ s2.pageNum \in Int
        <3>1. s2.pageSize \in Sizes \cup {0} /\ s2.pageNum \in -1 .. MaxNum /\ MaxNum \in Nat
            BY <1>1, PagingAssumption DEF PagerSet
        <3>2. s2.pageSize > 0
            BY <1>3, <2>1
        <3>3. s2.pageSize \in Sizes /\ s2.pageSize \in Nat \ {0}
            BY <3>1, <3>2, SizesAndNumbers
        <3> QED
            BY <2>1, <3>1, <3>2, <3>3
    <2>3. s2' \in PagerSet /\ s2'.pageSize = s2.pageSize /\ s2'.pageNum = s2.pageNum
        <3>1. s2' = [s2 EXCEPT !.visible = Paging!Least(@, Paging!Pages(s2.pageSize))]
            BY <2>1, Zenon DEF Paging!Shrunk
        <3>2. s2' \in PagerSet
            BY <1>1, <2>2, <3>1, FewerVisible, Zenon
        <3>3. s2 \in PagerSet
            BY <1>1, Zenon
        <3> QED
            BY <3>1, <3>2, <3>3 DEF PagerSet
    <2>4. ASSUME ~s6'
          PROVE  ~s6 /\ s5 = <<>>
        BY <2>1, <2>4, Zenon
    <2>5. s6' \in BOOLEAN
        BY <2>1, Zenon
    <2>6. AskedFor(s2') = AskedFor(s2)
        BY <2>3 DEF AskedFor
    <2>7. WaitsForLast'
        BY <1>3, <2>1, <2>2, <2>3, <2>4, <2>6 DEF WaitsForLast
    <2>8. /\ s3' \in ShownSet
          /\ ~s6' /\ s3'.alive =>
                /\ s3'.rows = Paging!RowsOf(s3'.s, IF s3'.n = 0 THEN 1 ELSE s3'.n)
                /\ s3'.n = s2.pageNum
        <3>1. CASE s1 = "static"
            <4>1. Paging!TypeOK
                BY Zenon DEF PagingCore
            <4>2. s2.pageNum \in {s2.pageNum, Paging!Verify(s2.pageSize, s2.pageNum)}
                OBVIOUS
            <4> QED
                BY <1>1, <2>1, <2>2, <3>1, <4>1, <4>2, CutIsShown, Zenon
        <3>2. CASE s1 = "table"
            <4>1. /\ s3' \in ShownSet /\ s3'.s = s2.pageSize /\ s3'.n = s2.pageNum
                  /\ s2.pageSize = s4.s => s3'.rows = Paging!RowsOf(s4.s, s4.n)
                BY <1>1, <2>1, <2>2, <3>2, HeldIsShown, Zenon
            <4>2. ~s6' => s4 = AskedFor(s2)
                BY <1>3, <2>4, <3>2
            <4>3. ~s6' => s4.s = s2.pageSize /\ s4.n = Paging!Verify(s2.pageSize, s2.pageNum)
                BY <4>2 DEF AskedFor
            <4>4. Paging!Verify(s2.pageSize, s2.pageNum) = IF s2.pageNum = 0 THEN 1 ELSE s2.pageNum
                BY <2>2, VerifyIs
            <4> QED
                BY <4>1, <4>3, <4>4
        <3> QED
            BY <1>1, <2>1, <3>1, <3>2
    <2>9. Paging!RowsMatchPage'
        BY <2>3, <2>8 DEF Paging!RowsMatchPage
    <2>10. Paging!TypeOK'
        BY <1>1, <1>2, <2>1, <2>3, <2>5, <2>8, Zenon
    <2> QED
        BY <2>7, <2>9, <2>10, Zenon DEF PagingCore
<1> QED
    BY <1>6, <1>7, <1>8, <1>9, <1>10, <1>11 DEF Paging!Next
-----------------------------------------------------------------------------
(* All together: whichever page is shown, its invariant holds.             *)
PagesInv ==
    /\ active = "PortList" => PortList!Inv
    /\ active = "PortRows" => PortRows!Inv
    /\ active = "AgentRelease" => AgentRelease!Inv
    /\ active = "Packages" => Packages!Inv
    /\ active = "Cascade" => Cascade!Inv
    /\ active = "Paging" => PagingCore

LEMMA PageBegins == BeginPage => PagesInv
<1> SUFFICES ASSUME BeginPage
             PROVE  PagesInv
    OBVIOUS
<1>1. active = "PortList" => PortList!Init
    BY DEF BeginPage
<1>2. active = "PortRows" => PortRows!Init
    BY DEF BeginPage
<1>3. active = "AgentRelease" => AgentRelease!Init
    BY DEF BeginPage
<1>4. active = "Packages" => Packages!Init
    BY DEF BeginPage
<1>5. active = "Cascade" => Cascade!Init
    BY DEF BeginPage
<1>6. active = "Paging" => Paging!Init
    BY DEF BeginPage
<1> QED
    BY <1>1, <1>2, <1>3, <1>4, <1>5, <1>6, PortListInit, PortRowsInit, AgentReleaseInit,
       PackagesInit, CascadeInit, PagingInit, Zenon DEF PagesInv

LEMMA PageMoves == PagesInv /\ [MovePage]_all => PagesInv'
<1> SUFFICES ASSUME PagesInv, [MovePage]_all
             PROVE  PagesInv'
    OBVIOUS
<1>1. active' = active
    BY DEF MovePage, all
<1>2. ASSUME active = "PortList"
      PROVE  PortList!Inv'
    <2>1. [PortList!Next]_(PortList!vars)
        BY <1>2 DEF MovePage, all, PortList!vars
    <2> QED
        BY <1>2, <2>1, PortListStep, Zenon DEF PagesInv
<1>3. ASSUME active = "PortRows"
      PROVE  PortRows!Inv'
    <2>1. [PortRows!Next]_(PortRows!vars)
        BY <1>3 DEF MovePage, all, PortRows!vars
    <2> QED
        BY <1>3, <2>1, PortRowsStep, Zenon DEF PagesInv
<1>4. ASSUME active = "AgentRelease"
      PROVE  AgentRelease!Inv'
    <2>1. [AgentRelease!Next]_(AgentRelease!vars)
        BY <1>4 DEF MovePage, all, AgentRelease!vars
    <2> QED
        BY <1>4, <2>1, AgentReleaseStep, Zenon DEF PagesInv
<1>5. ASSUME active = "Packages"
      PROVE  Packages!Inv'
    <2>1. [Packages!Next]_(Packages!vars)
        BY <1>5 DEF MovePage, all, Packages!vars
    <2> QED
        BY <1>5, <2>1, PackagesStep, Zenon DEF PagesInv
<1>6. ASSUME active = "Cascade"
      PROVE  Cascade!Inv'
    <2>1. Cascade!Next \/ UNCHANGED Cascade!vars
        BY <1>6 DEF MovePage, all, Cascade!vars
    <2> QED
        BY <1>6, <2>1, CascadeStep, Zenon DEF PagesInv
<1>7. ASSUME active = "Paging"
      PROVE  PagingCore'
    <2>1. Paging!Next \/ UNCHANGED Paging!vars
        BY <1>7 DEF MovePage, all, Paging!vars
    <2> QED
        BY <1>7, <2>1, PagingStep, Zenon DEF PagesInv
<1> QED
    BY <1>1, <1>2, <1>3, <1>4, <1>5, <1>6, <1>7, Zenon DEF PagesInv

(* Every step of every page keeps its invariant.                           *)
THEOREM PagesKeepInv == Pages => []PagesInv
    BY PageBegins, PageMoves, PTL DEF Pages

(* With no call under way the page of ports has the rows of the server,    *)
(* whatever was changed, refused or done in part before, the page of       *)
(* groups is no older than what it heard of, and the page of agents shows  *)
(* the last search; but for answers that overtook each other, an error as  *)
(* the last answer, and changes of the server that no success told the     *)
(* page of (ipPortList.js, obj_list.js, grayReleasedPage.js).              *)
THEOREM PagesShowTheStore == Pages => []PageShowsStore
<1>1. PagesInv => PageShowsStore
  <2>1. AgentRelease!Inv => AgentRelease!TableIsAsAsked
      BY DEF AgentRelease!Inv, AgentRelease!TableIsAsAsked
  <2> QED
      BY <2>1, Zenon DEF PagesInv, PageShowsStore, PortList!Inv, PortRows!Inv
<1> QED
    BY <1>1, PagesKeepInv, PTL

(* A row is saved with the group it had or was given, through every answer *)
(* that makes its combobox again.                                          *)
THEOREM PostsAreAsGiven == Pages => []PostedAsGiven
<1>1. PagesInv => PostedAsGiven
    BY Zenon DEF PagesInv, PostedAsGiven, PortRows!Inv, PortList!Inv
<1> QED
    BY <1>1, PagesKeepInv, PTL

(* Machines go offline only after a question that named them, and only     *)
(* those the user may take offline, whatever is checked or loaded between. *)
THEOREM AgreedGoOffline == Pages => []OnlyAgreedGoOffline
<1>1. PagesInv => OnlyAgreedGoOffline
    BY Zenon DEF PagesInv, OnlyAgreedGoOffline, AgentRelease!Inv
<1> QED
    BY <1>1, PagesKeepInv, PTL

(* The mask is there exactly while a change is under way, but for an       *)
(* upload of a dialog whose page did not load and a callback that is lost: *)
(* after these it stays, and no answer takes it away (manage.js).          *)
THEOREM MasksCoverCalls == Pages => []MaskedWhileCalled
<1>1. PagesInv => MaskedWhileCalled
    BY Zenon DEF PagesInv, MaskedWhileCalled, Packages!Inv, AgentRelease!Inv
<1> QED
    BY <1>1, PagesKeepInv, PTL

(* When all is answered in the order it was asked, every level of a        *)
(* cascade of any depth offers what belongs to the choices above it,       *)
(* whatever was chosen meanwhile (cascade.js).                             *)
THEOREM LevelsFollow == Pages => []ChildrenFollow
<1>1. PagesInv => ChildrenFollow
    BY Zenon DEF PagesInv, ChildrenFollow, Cascade!Inv
<1> QED
    BY <1>1, PagesKeepInv, PTL

(* A user who waits for the answers sees the rows of the page asked last,  *)
(* and can reach every page from there by numbers that ascend, for tables  *)
(* of any length, sizes of pages and numbers typed (paging.js, table.js).  *)
THEOREM PagesAreShown == Pages => []RowsMatchPage
<1>1. PagesInv => RowsMatchPage
    BY PagersLead, Zenon DEF PagesInv, RowsMatchPage, PagingCore
<1> QED
    BY <1>1, PagesKeepInv, PTL
=============================================================================
