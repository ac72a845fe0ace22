------------------------------ MODULE EtcdBatch ------------------------------
(***************************************************************************)
(* A client's request about several nodes of a service, of which the       *)
(* registry makes as many requests to etcd (EtcdHandle::addServers,        *)
(* updateServers, deleteServers, keepServerAlive).  Callback threads count *)
(* them and the last one answers the client or sends all of them again, on *)
(* its own thread.  addServer first waits for the key of a service group.  *)
(***************************************************************************)
EXTENDS Integers, FiniteSets, Sequences

CONSTANTS
    Ops,            \* among "add", "update", "delete", "keepalive"
    Nodes,          \* what a client may list
    Callbacks,      \* the threads that call callbacks
    Caller,         \* the thread that serves the client
    MaxTry          \* maxRetryTime

ASSUME BatchAssumption ==
    /\ Ops \subseteq {"add", "update", "delete", "keepalive"}
    /\ IsFiniteSet(Nodes)
    /\ Caller \notin Callbacks
    /\ MaxTry \in Nat \ {0}

VARIABLES
    op, batch,      \* the client's request
    keyAsked,       \* the key of the service group is being read
    at,             \* where each thread is
    round,          \* the round of requests (its NotifyEvent) a thread is about
    todo,           \* nodes a thread has yet to send for
    ret, tried,     \* a callback's outcome, and the tries it has read
    count,          \* _atomic of each round; _run_times is the size of the batch
    flight,         \* requests under way, as <<round, node>>
    tries,          \* DOCKER_ETCD_RETRY_TIME in the client's context
    answers,        \* history: answers sent to the client
    dropped,        \* history: a retry has failed and nobody has looked
    overlap         \* history: two threads were about one round at once

Threads  == Callbacks \cup {Caller}
client   == <<op, batch>>
calls    == <<ret, tried>>
history  == <<answers, dropped, overlap>>
etcdVars == <<client, keyAsked, at, round, todo, calls, count, flight, tries, history>>

Rounds == DOMAIN count
Full(r) == count[r] = Cardinality(batch)

EtcdInit ==
    /\ op \in Ops
    /\ batch \in SUBSET Nodes /\ (op = "add" => batch # {})
    /\ keyAsked = FALSE
    /\ at = [t \in Threads |-> IF t = Caller THEN "begin" ELSE "idle"]
    /\ round = [t \in Threads |-> 0]
    /\ todo = [t \in Threads |-> {}]
    /\ ret = [t \in Threads |-> "ok"]
    /\ tried = [t \in Threads |-> 0]
    /\ count = <<>>
    /\ flight = {}
    /\ tries = 1
    /\ answers = 0 /\ dropped = FALSE /\ overlap = FALSE

(* The thread is done with a round.                                        *)
Leave(t) == /\ at' = [at EXCEPT ![t] = IF t = Caller THEN "done" ELSE "idle"]
            /\ round' = [round EXCEPT ![t] = 0]
            /\ todo' = [todo EXCEPT ![t] = {}]
            /\ ret' = [ret EXCEPT ![t] = "ok"]
            /\ tried' = [tried EXCEPT ![t] = 0]

(* The thread begins a round of requests.                                  *)
NewRound(t) == /\ at' = [at EXCEPT ![t] = "send"]
               /\ ret' = [ret EXCEPT ![t] = "ok"]
               /\ tried' = [tried EXCEPT ![t] = 0]
               /\ count' = Append(count, 0)
               /\ round' = [round EXCEPT ![t] = Len(count) + 1]
               /\ todo' = [todo EXCEPT ![t] = batch]

Begin == /\ at[Caller] = "begin"
         /\ IF op = "add"
            THEN /\ at' = [at EXCEPT ![Caller] = "key"]
                 /\ keyAsked' = TRUE
                 /\ UNCHANGED <<round, todo, calls, count>>
            ELSE NewRound(Caller) /\ UNCHANGED keyAsked
         /\ UNCHANGED <<client, flight, tries, history>>

(* The key is there, and wakes the thread.                                 *)
KeyFound == /\ keyAsked
            /\ keyAsked' = FALSE
            /\ NewRound(Caller)
            /\ UNCHANGED <<client, flight, tries, history>>

(* No key, no connection, no answer in time, or one that cannot be parsed. *)
KeyMissing == /\ keyAsked
              /\ keyAsked' = FALSE
              /\ Leave(Caller)
              /\ answers' = answers + 1
              /\ UNCHANGED <<client, count, flight, tries, dropped, overlap>>

(* etcd answers with an error other than "not found": responseClient       *)
(* writes the retry into a context, and this request has no client.  The   *)
(* null handle throws past the wake-up, if the tries allow a retry at all. *)
KeyRefused == /\ keyAsked
              /\ MaxTry > 1
              /\ keyAsked' = FALSE
              /\ UNCHANGED <<client, at, round, todo, calls, count, flight, tries, history>>

-----------------------------------------------------------------------------
StillSending(t, n) == /\ todo' = [todo EXCEPT ![t] = @ \ {n}]
                      /\ UNCHANGED <<at, round, calls, answers, dropped>>

Sent(t, n) ==
    /\ StillSending(t, n)
    /\ flight' = flight \cup {<<round[t], n>>}
    /\ UNCHANGED count

(* Mutant: a request that could not be sent is not counted.                *)
NotSentUncounted(t, n) == StillSending(t, n) /\ UNCHANGED <<count, flight>>

NotSent(t, n) ==
    /\ StillSending(t, n)
    /\ count' = [count EXCEPT ![round[t]] = @ + 1]
    /\ UNCHANGED flight

(* keepServerAlive passes over a node it does not know or that sends no    *)
(* heartbeats, and counts nothing.                                         *)
PassedOver(t, n) == /\ op = "keepalive"
                    /\ StillSending(t, n)
                    /\ UNCHANGED <<count, flight>>

(* The function that called for a round learns that it failed.  The caller *)
(* then answers; a callback that retries does not look.                    *)
Failed(t) == /\ Leave(t)
             /\ answers' = IF t = Caller THEN answers + 1 ELSE answers
             /\ dropped' = (dropped \/ t # Caller)
             /\ UNCHANGED <<count, flight>>

(* updateServers ends at a node it does not know.                          *)
Unknown(t) == op = "update" /\ Failed(t)

Send(t) ==
    /\ at[t] = "send"
    /\ \E n \in todo[t] : Sent(t, n) \/ NotSent(t, n) \/ PassedOver(t, n) \/ Unknown(t)
    /\ UNCHANGED <<client, keyAsked, tries, overlap>>

(* All are sent, and perhaps some have ended.  keepalive answers at once.  *)
SentAll(t) ==
    /\ at[t] = "send" /\ todo[t] = {}
    /\ IF Full(round[t])
       THEN Failed(t)
       ELSE /\ Leave(t)
            /\ answers' = IF t = Caller /\ op = "keepalive" THEN answers + 1 ELSE answers
            /\ UNCHANGED <<count, flight, dropped>>
    /\ UNCHANGED <<client, keyAsked, tries, overlap>>

-----------------------------------------------------------------------------
(* Mutant: a timeout is counted, and nobody looks whether it was the last.  *)
EndsUnweighed(t, q, outcome) ==
    /\ at[t] = "idle" /\ t # Caller
    /\ at' = [at EXCEPT ![t] = IF outcome = "fail" THEN "idle" ELSE "weigh"]
    /\ round' = [round EXCEPT ![t] = q[1]]
    /\ ret' = [ret EXCEPT ![t] = outcome]
    /\ count' = [count EXCEPT ![q[1]] = @ + 1]
    /\ flight' = flight \ {q}
    /\ overlap' = (overlap \/ \E u \in Threads : at[u] \notin {"idle", "done"} /\ round[u] = q[1])
    /\ UNCHANGED <<client, keyAsked, todo, tried, tries, answers, dropped>>

(* onResponse, onException or onTimeout counts the request; `fail' stands  *)
(* for the outcomes that are tried again, `bad' for those that are not.    *)
Ends(t, q, outcome) ==
    /\ at[t] = "idle" /\ t # Caller
    /\ at' = [at EXCEPT ![t] = "weigh"]
    /\ round' = [round EXCEPT ![t] = q[1]]
    /\ ret' = [ret EXCEPT ![t] = outcome]
    /\ count' = [count EXCEPT ![q[1]] = @ + 1]
    /\ flight' = flight \ {q}
    /\ overlap' = (overlap \/ \E u \in Threads : at[u] \notin {"idle", "done"} /\ round[u] = q[1])
    /\ UNCHANGED <<client, keyAsked, todo, tried, tries, answers, dropped>>

(* responseClient reads the tries ...                                      *)
Weigh(t) ==
    /\ at[t] = "weigh"
    /\ tried' = [tried EXCEPT ![t] = tries]
    /\ at' = [at EXCEPT ![t] = IF ret[t] = "fail" /\ tries < MaxTry THEN "bump" ELSE "answer"]
    /\ UNCHANGED <<client, keyAsked, round, todo, ret, count, flight, tries, history>>

(* ... writes them, whether or not it is the last of its round ...         *)
Bump(t) ==
    /\ at[t] = "bump"
    /\ tries' = tried[t] + 1
    /\ at' = [at EXCEPT ![t] = "retry"]
    /\ UNCHANGED <<client, keyAsked, round, todo, calls, count, flight, history>>

(* ... and, if all of its round are counted, answers the client ...        *)
Answer(t) ==
    /\ at[t] = "answer"
    /\ Leave(t)
    /\ answers' = IF Full(round[t]) THEN answers + 1 ELSE answers
    /\ UNCHANGED <<client, keyAsked, count, flight, tries, dropped, overlap>>

(* ... or sends them all again, those that succeeded too.                  *)
Retry(t) ==
    /\ at[t] = "retry"
    /\ IF Full(round[t]) THEN NewRound(t) ELSE Leave(t) /\ UNCHANGED count
    /\ UNCHANGED <<client, keyAsked, flight, tries, history>>

EtcdNext ==
    \/ Begin \/ KeyFound \/ KeyMissing \/ KeyRefused
    \/ \E t \in Threads :
          \/ Send(t) \/ SentAll(t)
          \/ \E q \in flight, outcome \in {"ok", "bad", "fail"} : Ends(t, q, outcome)
          \/ Weigh(t) \/ Bump(t) \/ Answer(t) \/ Retry(t)

EtcdSpec == EtcdInit /\ [][EtcdNext]_etcdVars

(* A request that was sent ends, at last by its timeout, and no thread     *)
(* stops between two steps.                                                *)
EtcdFairSpec == EtcdSpec /\ WF_etcdVars(EtcdNext)

-----------------------------------------------------------------------------
Places == {"begin", "key", "send", "idle", "weigh", "bump", "answer", "retry", "done"}

EtcdTypeOK ==
    /\ op \in Ops /\ batch \subseteq Nodes
    /\ keyAsked \in BOOLEAN
    /\ at \in [Threads -> Places]
    /\ round \in [Threads -> 0 .. Len(count)]
    /\ todo \in [Threads -> SUBSET batch]
    /\ ret \in [Threads -> {"ok", "bad", "fail"}]
    /\ tried \in [Threads -> 0 .. MaxTry]
    /\ count \in Seq(0 .. Cardinality(batch))
    /\ flight \subseteq Rounds \X batch
    /\ tries \in 1 .. MaxTry
    /\ answers \in Nat /\ dropped \in BOOLEAN /\ overlap \in BOOLEAN

Unsent(r)   == UNION {todo[t] : t \in {u \in Threads : at[u] = "send" /\ round[u] = r}}
Underway(r) == {q \in flight : q[1] = r}

(* The counter of a round is what its answer and its retry go by: while    *)
(* requests are sent and end in any order, on several threads, what is     *)
(* counted, under way and unsent never adds up to more than the batch, so  *)
(* that a full counter means that none is left; and to no less, where no   *)
(* node is passed over, so that it is full in the end.                     *)
CountsAreExact ==
    \A r \in Rounds :
       LET sum == count[r] + Cardinality(Underway(r)) + Cardinality(Unsent(r))
       IN  /\ sum <= Cardinality(batch)
           /\ op \in {"add", "delete"} => sum = Cardinality(batch)

(* The client is answered once, through partial failures and retries,      *)
(* unless two threads were about one round at once or it sent a heartbeat  *)
(* (which keepalive answers itself); and not while one of its requests is  *)
(* under way ("wait for all updates", EtcdHandle.cpp:700), unless a node   *)
(* is unknown to updateServers.                                            *)
AnsweredOnce ==
    ~overlap /\ op # "keepalive" /\ answers > 0 =>
       /\ answers = 1
       /\ op # "update" => flight = {}

(* Whatever fails, the client gets an answer in the end; excepted are      *)
(* retries that could not be sent and the caller that is not woken.        *)
EventuallyAnswered ==
    <>(answers > 0 \/ dropped \/ (at[Caller] = "key" /\ ~keyAsked))

-----------------------------------------------------------------------------
(* What a comment says and the code does not do.                           *)

(* RequestEtcdCallback.cpp:1193: an answer to a request of the registry's  *)
(* own wakes the thread that waits for it.                                 *)
WaiterIsWoken == at[Caller] = "key" ~> at[Caller] # "key"
=============================================================================
