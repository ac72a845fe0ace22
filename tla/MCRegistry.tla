----------------------------- MODULE MCRegistry -----------------------------
(***************************************************************************)
(* The registry, for TLC: its cache and the queries that read it           *)
(* (StoreCache), its timer thread (ReapThread) and its batched writes to   *)
(* etcd (EtcdBatch).  What the first needs of the second, buffers that are *)
(* apart, is a property of ReapThread; they share no other state.  A       *)
(* behaviour therefore runs one of them, which Start chooses; the others   *)
(* rest in an initial state.                                               *)
(*                                                                         *)
(* The cache has three addresses in two networks, and a store that goes    *)
(* through four contents of one service: grouped nodes near and far, an    *)
(* outage of the near one, a group id given out anew to other addresses,   *)
(* and set-enabled nodes after the last rule and priority were deleted.    *)
(***************************************************************************)
EXTENDS StoreCache, ReapThread, EtcdBatch

Near == 10
Far  == 20
Nets == 1 :> Near @@ 2 :> Near @@ 3 :> Far

Rule(id, name, allow) == [id |-> id, name |-> name, allow |-> allow]
Priority(station, gs) == [station |-> station, groups |-> gs]
Server(ip, group, enableGroup, state, set) ==
    [ip |-> ip, group |-> group, enableGroup |-> enableGroup, state |-> state, set |-> set]

TwoGroups == <<Rule(1, "near", {Near}), Rule(2, "far", {Far})>>
Regrouped == <<Rule(1, "near", {Near, 3}), Rule(2, "solo", {2})>>
Stations  == <<Priority("north", {1, 2}), Priority("south", {2})>>

Contents ==
    {[rules |-> TwoGroups, priority |-> Stations, servers |->
        {Server(1, NoName, TRUE, "active", NoSet), Server(3, NoName, TRUE, "active", NoSet)}],
     [rules |-> TwoGroups, priority |-> Stations, servers |->
        {Server(1, NoName, TRUE, "inactive", NoSet), Server(3, NoName, TRUE, "active", NoSet),
         Server(2, NoName, FALSE, "active", NoSet)}],
     [rules |-> Regrouped, priority |-> <<Priority("north", {1})>>, servers |->
        {Server(1, "solo", TRUE, "active", NoSet), Server(3, NoName, TRUE, "no_flow", NoSet),
         Server(2, NoName, FALSE, "active", NoSet)}],
     [rules |-> <<>>, priority |-> <<>>, servers |->
        {Server(1, NoName, TRUE, "active", <<"s", "a", "1">>),
         Server(2, NoName, TRUE, "inactive", <<"s", "a", "*">>),
         Server(3, NoName, FALSE, "active", <<"s", "b", "1">>)}]}

Questions ==
    {[kind |-> "group", ip |-> 1],
     [kind |-> "station", ip |-> 1, station |-> "south"],
     [kind |-> "set", ip |-> 3, set |-> <<"s", "a", "2">>],
     [kind |-> "set", ip |-> 2, set |-> <<"s", "b", "1">>],
     [kind |-> "set", ip |-> 1, set |-> <<"s", "a", "*">>],
     [kind |-> "set", ip |-> 1, set |-> <<"s", "c", "1">>]}

-----------------------------------------------------------------------------
VARIABLE active     \* the part that runs

all == <<active, vars, reapVars, etcdVars>>

Start ==
    /\ active \in {"cache", "reap", "etcd"}
    /\ Init /\ ReapInit /\ EtcdInit
    /\ active # "cache" => store = Down
    /\ active # "reap" => keyAge = 0 /\ ~unsent
    /\ active # "etcd" => op = "keepalive" /\ batch = {}

RunCache == active = "cache" /\ Next /\ UNCHANGED <<active, reapVars, etcdVars>>
RunReap  == active = "reap" /\ ReapNext /\ UNCHANGED <<active, vars, etcdVars>>
RunEtcd  == active = "etcd" /\ EtcdNext /\ UNCHANGED <<active, vars, reapVars>>

(* The fairness of StoreCache and of EtcdBatch, where they run.            *)
Registry ==
    /\ Start /\ [][RunCache \/ RunReap \/ RunEtcd]_all
    /\ WF_vars(active = "cache" /\ StartLoad)
    /\ WF_vars(active = "cache" /\ Load)
    /\ WF_etcdVars(active = "etcd" /\ EtcdNext)

-----------------------------------------------------------------------------
(* A query that no load interferes with gets the answer of the documents,  *)
(* one that a load interferes with still gets a node that lives, and none  *)
(* reads the buffer that a load fills, if the intervals fit each other.    *)
AnswersAreRight == AliveServiceAnswered /\ CalmAnswersAreExact /\ []BuffersApart

(* Once the store is left alone the cache becomes its image.               *)
CacheConverges == active = "cache" => ConvergesToStore

(* Whatever fails at etcd, the client gets an answer in the end, and only  *)
(* one.                                                                    *)
BatchIsAnswered == (active = "etcd" => EventuallyAnswered) /\ []AnsweredOnce
=============================================================================
