# Tseer in TLA+

Tseer is a name service. Servers register in a **registry** (TseerServer, over
etcd or MySQL), clients look up the nodes of a service through a library
(`api/cplus`, `api/java`), either at the registry itself or at an **agent**
(TseerAgent) on their host, and report how their calls ended so that dead nodes
are shielded. A **website** (`web`, built on the
script libraries odfl and cloudJs) administers it. This directory holds models of the parts where that is hard to get
right, the runs that check them with TLC, and proofs checked by TLAPS.

Paths below are relative to `src/`. Times are in the units of the code
(seconds); a model's numbers are small stand-ins whose order is that of the
code's constants.

Contents: [inventory](#inventory), [modules](#modules) (what each models, how it
corresponds to the code), [runs](#runs) (what each checks, bounds, fairness),
[findings](#what-the-documents-say-and-the-code-does-not-do),
[proofs](#what-is-proved), [what is only model-checked](#what-is-only-model-checked),
[not modelled](#what-is-not-modelled), [use](#use).

## Inventory

### C++ client library (`api/cplus/src`)

One set of objects per calling thread, so no locks; what threads share is the
collector `GC`, the initialisation flag, the cache files and the library's
global parameters.

| part | state | operations | interacts with | hard behaviour | correct when |
|---|---|---|---|---|---|
| breaker (`lb_loop.cpp` `statResult`, `checkActive`, `router_stat.h`) | counters and three times per node | report a result, ask whether a node may be used | the balancers, `RegistryEpManager` | two rules (run of failures, ratio in a window) share counters and are reset by different events | dead nodes are shielded, only failures shield, probes keep their distance |
| loop balancer (`lb_loop.cpp`) | vector, position, record per node | clear/add/del/rebuild, `getRouter`, `statResult` | `Router` | refreshes under records, everything shielded | healthy nodes first, records outlive a refresh |
| `Router`, `RouterManager::getRouterNormal` | table of services, expiry, stale lists | one request | providers, cache file | expired, missing, failed and empty lists have different answers | a known service is always answered, answers are fresh while the registry is there |
| `RegistryProvider`, `RegistryEpManager` | addresses, record per address, position, time of the last resolution | choose an address, report, resolve the name | name servers, registry | addresses shielded for an outage, resolution in between | a live registry is found |
| `AgentProvider` | verdict on the agent, count of failures | request, `addFailedNumAndCheckAvailable`, `setAvailable` | all services of the thread | one verdict for all services; an agent given up is asked only when a list expires | the verdict has a reason and is never final |
| `getRouterSingle` (one node from the agent) | nodes the agent has named, rotation, hash table, files | one request | agent, files | sets only grow, fallback to the file | nodes are those of the agent or the file |
| other balancers | vector, weights, hash ring | as the loop balancer | `Router` | weights of shielded nodes, ring changes | share follows the weight, a key keeps its node |
| `GC` (`gc.cpp`) | lock-free list of per-thread objects, counter | `addObj`, `releaseExitThreadObj`, `deleteObj` | `/proc/<pid>/task` | threads start, exit and change the list while one collects | nothing of a running thread is freed, nothing is lost |
| `CacheManager` | a file per service, time of the last write | read, write | all threads and processes of a host | truncated and then written | a reader finds a whole list |
| `StatManager` | sums per service | add, report | agent | a report that fails | no call is counted twice |
| `Tseer_api.cpp` | initialisation flag, parameters | `Api*` calls | all of the above | first use by several threads | parameters are set before they are used |

### Registry (`TseerServer/src`)

| part | state | operations | interacts with | hard behaviour | correct when |
|---|---|---|---|---|---|
| `StoreCache` | rules, priorities, nodes, sets, each in a double buffer | load, four kinds of query | `ReapThread`, `QueryImp`, the store | queries between the swaps of a load; reads that fail | parts fit together, a client near no node is still given one |
| `QueryImp` | none | query any/group/station/set | `StoreCache` | fallbacks between kinds | answers follow Introduction.md |
| `ReapThread` | time of the last beat and load | loop | the store, `StoreCache` | slow stores, beats behind loads, slow queries | the registry stays listed, no buffer is filled under a query |
| `EtcdHandle`, `RequestEtcdCallback` | requests under way, a counter per batch | batches of writes, reads that a thread waits for | etcd, `TC_HttpAsync` threads | callbacks on several threads, retries, partial failures, waits without timeout | a client is answered once and at the end, a waiter is woken |
| `EtcdHost` | healthy hosts, position | health check, choice of a host | etcd | hosts replaced under the choice | a healthy host is used |
| `EtcdDataCache` | copy of the route table | load | etcd | failed or empty loads | the copy is etcd's or the former one |
| `StoreProxy`, `BaseHandle`, `MysqlHandle` | none of their own | one forwarded call per operation | the store | reads followed by writes | no registration is lost |
| `ApiRegImp` | none | JSON requests of the website and of servers | `StoreProxy` | read-then-write requests, batches | the client is answered, ids are unique |
| `RegistryImp`, `UpdateThread`, `FileWriterFactory` | packages on disk, gray lists | agents' heartbeats, download in chunks, check of packages | agents, the store | a new version in the middle of a download, clean-up | an agent runs what was released |
| `TSeerServer` | configuration | start | all | order of load and servants | queries meet a loaded cache |

### Agent (`TseerAgent/src`)

| part | state | operations | interacts with | hard behaviour | correct when |
|---|---|---|---|---|---|
| `ApiRouterManager`, `ApiRouter`, `ApiLb_*` | routers and balancers under a lock | requests of clients | `RouterManager` | shared by all clients of the host | as the client's |
| `RouterManager`, `SyncRouterThread`, `CacheManager` | route tables with visit times, files | fill, refresh every 10 s, expiry after five hours | registry, files | a refresh writes back what expired meanwhile | tables are the registry's or the last ones known |
| `HeartBeatReportThread` | keys of the clients' services | report once a minute | registry | keys are swapped out before a call that may fail | every key is reported |
| `SelfUpdateThread`, `UpdateImp` | version, package | update in chunks, restart | `RegistryImp` | version changes, restarts | whole packages only |
| `RouterImp`, `TseerAgentServer` | none, configuration | forwarding, start | the above | | |

### Website (`web/src/main/webapp`)

One thread per page: a handler runs to its end before the next event. What is
hard is the order of events: mouse, keys, timers, animations, answers of the
server, and calls of one widget by another.

| part | state | operations | interacts with | hard behaviour | correct when |
|---|---|---|---|---|---|
| `odfl.js` | who waits for which file, files per component | `force`, `remove`, load, failure | the browser's script elements | a file asked for again, by force, or removed while others wait for it | a call succeeds once, with all it named |
| `cloudjs.js` | queues of calls, count of busy components, deferred tasks | call, preload, `define`, `cloudjs(fn)` | `odfl.js`, all components | calls of components that are not there, functions that wait for them | calls run once and in order, tasks after them |
| `dialog.js` | dialogs, layer, stacking, one flag for animations, the page's overflow; alert, confirm, prompt | open, close, set options, raise, full screen, destroy, ask | mask, all pages | calls while an animation runs; options set after the close; one element used again for every question | layers have dialogs above them, a question is answered by its own callback |
| `message.js`, `mask.js`, `util.js` | messages, timers, masks and the classes of what they disable | show, hide, by id or all | all pages | masks over one element that are taken away in any order | messages go, what is masked is disabled |
| `tips.js` | tip per element, two timers of the page | mouse, `setData`, `destroy` | | timers that are overwritten | no tip stays behind |
| `validate.js` | messages beside fields, one timer | check, focus, write, remove | forms | forms that share the timer; a field checked while it is written in | a message is true, or known to be stale |
| `ctab.js`, `tab.js`, `menu.js` | tabs as items, elements and positions; timers; what is open | add, close, drag, hover, click | pages in frames | positions that shift, timers of what is gone | the tab used before follows, a choice stays, a menu follows the mouse |
| `combobox.js`, `cascade.js` | text, hidden value, selected value, data; levels and their options | type, search, click, set, refresh; choose, answer | server | a click is a blur first; answers in any order | what is read is what is posted; options follow the choices above |
| `calendar.js`, `monthpicker.js` | one panel for all fields, flags and days of each, options | show, click, focus, blur, time, today | forms | the panel moves while a range is half given; the focus comes by the keyboard | a closed range is whole |
| `table.js`, `paging.js` | page asked, page shown, rows held | go to a page, size, sort, answer | server | three numbers for one page | rows are those of the page named |
| `slide.js`, `progressbar.js` | picture, bar, timers | mouse, arrows, calls | | timers against calls | what moves is what is seen |
| `ipPortList.js`, `serviceGroupList.js` | rows, form, recorded list of groups | search, add, edit, delete | server | answers in any order, forms that are filled late | the page shows the store, a form posts what the user gave |
| `grayReleasedPage.js`, `manage.js`, `upload_back.js` | machines checked, question, mask, upload | release, take offline, upload, edit, delete | server, a frame | what was agreed to is read again | only what was agreed to happens |

The Java client is a second implementation of the C++ one. `Tars.h`, `tup.h`,
`tc_*`, the rapidjson headers and `*F.h` are vendored or generated; so are jQuery
and its plug-ins.

### How the parts interact

```
 client thread ── RouterManager ─┬─ AgentProvider ──────── agent ── (registry)
   │   Router/LBLoop (breaker)   └─ RegistryProvider ─┐
   │                                RegistryEpManager │ request
   └─ GC (shared by threads)        (breaker)         ▼
                                          QueryImp ── StoreCache ◄── ReapThread
 server ── ApiRegImp ── StoreProxy ── EtcdHandle ⇄ RequestEtcdCallback ── etcd

 browser: page ── cloudJs component ── cloudjs ── odfl ── files of the website
            └── servlet ── ApiRegImp (above)
```

## Modules

| module | models | extends / instantiates | run | proofs |
|---|---|---|---|---|
| `NodeStat` | the breaker as operators on one node's record | | (used below) | in itself |
| `NodeBreaker` | one node under all results, selections and pauses | `NodeStat` | `breaker` | `NodeBreakerProofs` |
| `RegistryEpManager` | the choice of a registry address and its request | `NodeStat` | `breaker` | `NodeBreakerProofs` |
| `RegistryRouter` | a client thread asking the registry, with the loop balancer | `NodeStat` | `routes`, `registry_retry` | `RoutesProofs` |
| `AgentRoutes` | a client thread asking its agent for lists | | `routes` | `RoutesProofs` |
| `GcPromise` | what the collector promises (abstract) | | | |
| `Gc` | the collector over sets | instance `GcPromise` | `collector` | `GcProofs` |
| `GcList` | the collector over nodes, pointers and compare-and-swap | instance `Gc` | `collector` | `GcProofs` |
| `StoreCache` | a load of the registry's cache and the queries next to it | | `registry`, `store_outage` | `RegistryProofs` |
| `ReapThread` | turns of the timer thread, one double buffer | | `registry` | `RegistryProofs` |
| `EtcdBatch` | a batched request, its callbacks and retries | | `registry`, `etcd_wait` | `RegistryProofs` |
| `OdflLoader` | loading of files | | `loader` | `LoaderProofs` |
| `CloudComponents` | calls of components | | `loader` | |
| `Dialog`, `Message` | what covers a page | | `loader` | `LoaderProofs` |
| `Ctab`, `Combobox`, `Slide`, `Tips`, `Placement`, `Validate`, `Calendar`, `Prompts`, `Mask`, `Monthpicker`, `Tab`, `Menu`, `Progressbar` | a widget each | | `widgets` (`Prompts` also `cross_answers`) | in `MCWidgets` |
| `PortList`, `PortRows`, `AgentRelease`, `Packages` | a page each | | `pages` (`PortList` also `list_asked`) | in `MCPages` |
| `Cascade`, `Paging` | the two widgets that ask the server | | `pages` | in `MCPages` |
| `MCBreaker`, `MCRoutes`, `MCGc`, `MCRegistry`, `MCLoader`, `MCWidgets`, `MCPages` | nothing: they put the modules above together | see below | | see below |

The breaker is stated once and used three times, as in the code, where
`RegistryEpManager` and the agent's balancers repeat `LBLoop`. `Gc` stands
between `GcPromise` and `GcList`: the lower refinement is about pointers, the
upper one about threads. Definitions whose comment begins with `Mutant:` are
plausible bugs, kept next to the definition they vary: each breaks one property,
which shows that the property depends on the code.

**The MC modules.** Parts that share no state cannot disturb each other, and the
product of their state spaces says no more than each of them. An MC module
therefore lets a behaviour run *one* of its parts, which the initial predicate
chooses (`active`), while the others rest in an initial state: TLC then explores
the sum of the parts. A property of a part is stated of the behaviours that run
it, or of all where resting satisfies it too; fairness is that of the part, in
its behaviours. `MCWidgets` and `MCPages` hold the variables of whichever widget or page
runs in `s1`, `s2`, ..., since only one has any. Where parts do interact they are in one
module: the queries and the load of `StoreCache`, the widgets' mouse, timers and
answers, and `Dialog` with the flag that all dialogs of a page share.

### NodeStat and NodeBreaker

*Correspondence.* `RouterNodeStat` is the code's struct. `StatResult` is one node's
part of `LBLoop::statResult` and `IsActive`/`Probed` that of `checkActive`.
The code stores absolute times and compares them with `now`; the model stores
the time left, which `Elapsed` counts down. The ratio of one half is in
`RatioTooHigh`. Actions: `Report` (a caller reports a result), `Select` (the node
is handed out), `Tick`.

### RegistryRouter

*Correspondence.* A balancer is the record `[vec, lastIndex, stat]`;
`_normalMap` has the keys of `_statMap` and is not kept apart. `Updated` is
`clear`, `del`, `addRouter` and the rebuild of `Router::updateRouterNodes`, `Get`
is `getRouter` with its random choice when all nodes are shielded. In
`RegistryRouter` every way through `RouterManager::getRouterNormal` is one action,
since the call runs to completion on its own thread: `FromMemory`, `Expired`,
`Stale`, `Fetch`, `FromDisk`, `NotFound`. `Expired` takes a node from the stale
list before it asks the registry and throws it away when that answers, as the code
does. `UpdateStatStray` is the report that an undefined `isAgent`
(`Tseer_inner_comm.h:44`) sends to the agent's port: nothing changes. `Publish` is
what happens to the registry. The counters of a shielded node are held at
zero (`Forgotten`); theorem `ForgettingIsSound` shows that this changes no later answer.

### RegistryEpManager

*Correspondence.* `Begin` is the first half of `RegistryProvider::getRouteInfo`: the
addresses, resolved again after `UpdateInterval` (60 s) unless they were given by
`setConsantIp`, and `getAvaliableIp`. `Finish` is the second half, a tick or more
later: `Answered`, `Failed`, or `Undecodable`, a reply that does not decode and is
not reported. `RequestResolved` replaces the addresses by what the name servers
say, which may be nothing; `RequestUnresolved` is a missing configuration.

### AgentRoutes

*Correspondence.* `getRouterNormal` over `_allRouterTable` with `AgentProvider`;
`available` and `failedNum` are its members, `mem`, `expireIn` and `disk` the list,
expiry and file of each service. The ways through the call are the actions
`FromMemory`, `Expired`, `Stale`, `Fetch`, `FetchFailed`, `NotFound`, `FromDisk`;
`Restart` is a new process, which has the files only; `AgentChanges` is the agent
going down, coming back or learning a different list.

### GcPromise, Gc and GcList

*Correspondence.* In `Gc` a list is a set and a compare-and-swap loop one step.
`AddObj` counts and decides whether to collect, `Push` inserts; `Detach`, `ReadTask`
(one entry of `/proc/<pid>/task`), `Listed`/`ListFailed`, `Sweep`, `Swept`, `Splice`
are `releaseExitThreadObj`; `DeleteObj`, `Delete` are `deleteObj`. Thread ids are
given out again after an exit (`Spawn`). `GcPromise` says only when an object may be
freed. `GcList` has nodes at addresses that are used again once freed, reads the
head and swaps it in separate steps, and walks and unlinks node by node. What is
reachable from an address is the least set that has it and is closed under the pointers
(`Chain`), so that it is defined, and reasoned about, without recursion.

### StoreCache

*Correspondence.* `LoadGroups`, `LoadPriority`, `LoadServers`, `UpdateObjectsCache` and
`UpdateDivisionCache` are the steps at whose end `StoreCache` swaps a buffer;
`LoadFailed` and `LoadServersFailed` are reads that fail. Rules and priorities are
swapped only if something was loaded into them. `Endpoint` gives a server its groups
under the rules *in use*. The queries run in between: `FindAny`, `FindGroup` →
`FindEntry` → `FindPriority`, `FindStation` → `FindMembers`, `FindSet`, with
`InGroupPriority`, `InStation` and `InSameSet` the selections. Entries of
other services do not mix with a service's own, so one service is modelled, and
queries do not write, so one query at a time is enough.

### ReapThread

*Correspondence.* `Turn` takes `now`; `BeatSent`/`BeatFailed` is `updateRegistryInfo`,
`Fill`, `Filled` and `Loaded` a load, in which the buffer not in use is cleared and filled and
perhaps swapped. A query (`BeginRead`, `EndRead`) holds the buffer it was
given. The clock counts seconds as `TNOW` does; the wait of 100 ms takes none, and
what is due begins before the next second. `MaxTurn` and `MaxRead` bound the
length of a turn and of a query.

### EtcdBatch

*Correspondence.* The caller is a thread of the servant in `addServer`,
`updateServer`, `deleteServer` or `keepalive`; a round is one `NotifyEvent` with its
counter `_atomic`; `_run_times` is the size of the batch. `Send` is one turn of
the loop over the nodes in `addServers`, `updateServers`, `keepServerAlive` or
`deleteServers`, with a request that is sent, cannot be sent, or is for a node
passed over or unknown; `SentAll` is what follows. `Ends` is the entry into
`onResponse`, `onException` or `onTimeout`; `Weigh`, `Bump`, `Answer` and `Retry` are the
steps of `responseClient`, which reads the client's context, writes it and compares the counter
without a lock, and sends a new round from the callback's thread. `KeyFound`, `KeyMissing` and
`KeyRefused` end the wait of `addServer` for the key of its service group. The
library's null handle throws on `->`; that and the number of threads on which
`TC_HttpAsync` calls back are facts of the Tars library.

### The website's modules

*Correspondence.* One action per handler, timer, answer and call of the component;
a handler runs to its end, as it does in a browser. What a handler reads of another
widget is part of its module. Every variable that is marked *history* in a module
records what happened and is never read by an action.

- `OdflLoader`: `handler` is `_loadHandler`, a list of waiters per file that is empty
  when the file is there; `Force` is `force`, whose `_loadRes` and callbacks are put on
  an agenda and taken one by one (`Turn`) before the next event. `Loaded`, `Failed`
  are what the browser reports, `RemoveComp` is `remove`. A failed style sheet counts as loaded.
- `CloudComponents`: `Use` is a call of a component or a preload of it, `Proxy` what
  `_add` puts in its place, `Run` the arrival of the version file, `FileCame` and `ScriptCame`
  those of the component and of its own files, `Tick` the next `setTimeout`. Odfl is seen
  through one file that comes once or is lost.
- `Dialog`: per dialog whether it is shown, its layer, its z-index and its queue of
  animations; `animating` is the flag `_animating` of the page, `over` the
  body's overflow. `SetOption` is the call `setOption`, which does all that an opening does but show
  the dialog (`_init(false)`: its layer is shown if it is modal), and `OpenTimer` the timer of 0 ms by which
  `open` calls it for a dialog that exceeds the window (`Large`), closed by then or not. Such a timer that
  comes to nothing (the dialog fits, or something is animated) has no step. A
  layer that came up in this way without its dialog is `alone`. `Prompts` is the use of dialogs for alerts, questions and
  prompts: one element each, whose text and callbacks are replaced.
- `Message`, `Mask`: messages with timers, fading and the listeners they leave; masks as
  numbers in the order of the page, classes `mask_<id>` as sets.
- `Tips`, `Validate`: the timers of a page are variables that hold one timer; a timer of tips whose
  variable is overwritten runs on (`strays`), one of messages is stopped by the next check,
  whose form may be another (`orphaned`). In `Validate` a message goes with the event of focus, not with what is
  written: `Edit` is the user in the field that has the focus, `Fill` a script in any field, and a field that was
  checked while it had the focus (`inside`) or was written by a script (`filled`) keeps its message beside a text that is right.
- `Placement`: the tests and offsets of `dialog.js`, `tips.js` and `validate.js` as operators
  on coordinates and on the widths of the file they stand in (`DialogEdges`, `TipsEdges`, `ErrmsgEdges`: arrow,
  spacing, edges); every geometry is an initial state.
- `Ctab`: a tab as item of `panels`, as element of `lis`, and as position in `selectedList`,
  with all renumbering. `Tab`, `Menu`: the mouse's place, timers, and what is shown.
- `Combobox`: text, hidden value, `selectValue`, panel and data; `Blur`, `ClickItem`,
  `SearchFun`, `Enter`, `Focus`, `Input` and the calls `setValue`, `refresh`, `addData`, `delData`.
  `Cascade`: levels with requests under way; an answer makes a field anew, and
  that field reports a change to the level below.
- `Calendar`, `Monthpicker`: one panel for all fields, and the flags each field keeps of
  it. Days and months are numbers; hours and formats are left out. The options `startDate` and `endDate` of a
  calendar are any, both, one or none (`NewCalendar`, `Text`: a first day alone is shown, a last day alone is only posted), and the
  focus comes by a click, which opens the panel, or by the keyboard, which does not (`Focus`); its blur
  hides the panel, whoever owns it (`Blur`).
- `Paging`: the pager's closure variables, what the pager was rendered for, and the rows held.
- `Slide`, `Progressbar`: timers, the mouse and calls.
- `PortList`, `PortRows`, `AgentRelease`, `Packages`: the rows of a page, its form or question, the
  mask, and the calls under way in any order. The server does what was asked, refuses, does a part of it (a batch is a
  request to etcd per row, `RequestEtcdCallback.cpp:1096`), or does it and the answer is lost: but for the first
  the page hears of an error (`Write` of `PortList`, `Deleted` of `AgentRelease`). Others change the store as well
  (`StoreChanges`). A load of a part of a page (`.load` of jQuery) runs its callback after an error too: the table of
  `AgentRelease` that is there is made anew (`Loaded`, `failed`), and the upload dialog of `Packages` opens
  without a form (`LoadCame`, `blank`), whose button masks the page and submits nothing (`Upload`, `stuck`).

## Runs

| run | module, configuration | expected | distinct states |
|---|---|---|---|
| `breaker` | `MCBreaker`, `MCBreaker.cfg` | pass | 232,373 |
| `routes` | `MCRoutes`, `MCRoutes.cfg` | pass | 274,460 |
| `collector` | `MCGc`, `MCGc.cfg` | pass | 138,831 |
| `registry` | `MCRegistry`, `MCRegistry.cfg` | pass | 562,640 |
| `loader` | `MCLoader`, `MCLoader.cfg` | pass | 511,135 |
| `widgets` | `MCWidgets`, `MCWidgets.cfg` | pass | 1,769,873 |
| `pages` | `MCPages`, `MCPages.cfg` | pass | 3,563,818 |
| `registry_retry` | `RegistryRouter`, `RegistryRouterRetry.cfg` | violation | |
| `store_outage` | `MCRegistry`, `StoreCacheOutage.cfg` | violation | |
| `etcd_wait` | `EtcdBatch`, `EtcdBatchWait.cfg` | violation | |
| `list_asked` | `PortList`, `PortListIdc.cfg` | violation | |
| `cross_answers` | `Prompts`, `PromptsCross.cfg` | violation | |

A property of a run is a conjunction where several statements are about one thing;
its parts are named in the module that defines them.

### breaker

`DeadNodeIsShielded`: a node that has failed often and long enough is out of use,
whichever of the two rules did it or interfered. `ProbesAreSpaced`: probes of a shielded
node keep their distance. `ShieldIsKept`: only a failure shields
(`ShieldedByFailure`), no request goes to a shielded address while another is in use
(`AsksActiveFirst`), and no new resolution of the registry's name brings a shielded
one back (`ShieldSurvivesResolution`). `LiveServerIsFound`: a server that stays up among fixed
addresses is found again and again; it excepts replies that never decode, and resolved
names, which may leave a live server out for ever.
*Bounds:* thresholds 2 calls, window 4, 3 failures lasting 2, retry 3 stand for the
code's 2, 60, 5, 5 and 30; `MaxCalls` = `MaxRun` = 6, twice the thresholds, so that both rules
can fire in either order and the window check can come late; histories of time stop at `Horizon`,
beyond which no comparison changes. Three addresses: one asked, one shielded, one in turn.
*Fairness:* asking, the end of a request (a connection has a timeout) and time.

### routes

`ShieldSurvivesRefresh`: while a node is in use or due no call goes to one that is
neither, and no refresh of the list brings a shielded node back. `AnswersAreFresh`: while the
registry answers no node comes out of a list older than the normal interval, and a
service with nodes in memory or on disk is answered whatever happens to registry or agent
(Introduction.md:135-147). `UnavailableHasReason`: the agent is given up only after the
threshold of unanswered requests in a row. `AgentIsFoundAgain`: an agent
given up is asked again only when a list in memory expires, so there must be one
(`UnavailableHasProbe`), and once it stays up its list is the one in memory.
*Bounds:* registry: two nodes (a healthy and a shielded one, or a list of which one leaves),
expiries 2 and 1 for 5 and 3 s, retry 2, two counted calls in a window, which is what the
ratio needs. Agent: two services, which is what couples failures; one node, as lists matter
only by being empty or not and old or new; the code's threshold 3; expiries 2/1/3 for 5/3/30.
*Fairness:* the client goes on asking for each of its services and time passes; without it
nothing asks an agent again. `registry_retry` assumes the same of the caller at the registry.

### collector

`NothingLost`: every object that is not freed is in the list, with a thread, or about to be
inserted, and in one place only. `KeepsPromise`: refinement of `GcPromise`. `ListKeepsNodes`:
refinement of `Gc` by `GcList`, no thread reaches a freed node, and nothing is lost there either.
*Bounds:* two thread ids, which are given out again after an exit, so that one
collects while the other is born, exits and is born again; four objects at three addresses, so that
an address is freed and reused between a read and a swap; limit 0, so that every object
after the first collects. Threads, objects and addresses are symmetric. No liveness: nobody promises
that an orphan is freed, and at 1024 threads none is.

### registry

`CacheFitsTogether`: between loads nodes and sets are those of the last load under the
rules in use. `AnswersAreRight`: whatever mixture of old and new a query meets, the
narrowing by group leaves it a node in use if there is one (`AliveServiceAnswered`); an
undisturbed answer is the one of Introduction.md:86-124, written down in `Expected`
independently of the code's order of tests (`CalmAnswersAreExact`); no load fills a
buffer that a query reads (`BuffersApart`). `CacheConverges`: a store left alone is mirrored
in the end. `StaysRegistered`: the registry's key is alive while beats are sent.
`CountsAreExact`: a round's counter, its requests under way and those not yet sent add up to the
batch. `BatchIsAnswered`: the client is answered, once, and when nothing is under way any
more. Excepted are rounds that two threads were about at once (two may then find the
counter full and both answer, `overlap`), heartbeats (`keepalive` answers itself, and a
callback once more), retries that could not be sent (nobody looks at their return code,
`RequestEtcdCallback.cpp:1119`) and the caller who is not woken.
*Bounds:* the store changes among four contents, and between them and an outage, at any moment,
even between two reads of one load: a near and a far group with a priority that joins them,
an outage of the near node, a group id given to other addresses, and set-enabled nodes after the
last rule was deleted. Six queries cover a group, a station, and sets that match exactly, generally, as a
wildcard, and not at all. Entries of other services do not mix with a service's own, so one service
is modelled, and queries do not write, so one query at a time is enough.
The intervals are the smallest that satisfy both conditions of the timer thread
(`MaxTurn + MaxRead < LoadInterval`: 2 + 2 < 5; `HeartBeatInterval + 2 * MaxTurn < Ttl` and `MaxTurn <
HeartBeatInterval`: 6 + 4 < 11), so that each is tight. With the code's defaults (load 10 s, beat
60 s, life 120 s) they read `MaxTurn + MaxRead < 10` and `MaxTurn < 30`; nothing in the
configuration enforces them, and a load from etcd alone may take 60 s (`EtcdDataCache.cpp:160`).
Batches have two nodes, two callback threads and one retry (`MaxTry` = 2 for the default
of 3): a partial failure, two callbacks at once and a second round all happen. A batch is one
request and then stops, so deadlock is not checked.
*Fairness:* the thread's steps, where a step that fails is a step, so nothing is assumed about
the store; a request to etcd ends, at last by its timeout, and no thread stops.

### loader

`SucceedsOnceWithAll`: a call of `force` succeeds at most once and only with all it named, and nobody waits
for what nobody loads (`SomebodyLoads`). `EveryCallSucceeds`: it does succeed if nothing it names
fails, is removed or makes it throw. `CallsRunInOrder`, `TasksRunAfterCalls`, `EveryCallRuns`: calls of a component run once, in
order, and functions given to `cloudjs` after the calls made before and in the end.
`LayersHaveDialogs`: no layer covers the page without a dialog above it, but for the layer of a dialog whose options
were set while it was closed: such a page is covered by a layer without a dialog, which the code does do (a modal
dialog that exceeds the window and is closed before its timer runs, `dialog.js:508` and `242`). The page has its scroll
bars back when no dialog fills it, unless a dialog was closed or made in the middle of a switch (`cut`), and the pages' messages
replace each other. `DialogsAnswerAgain`:
the flag that makes all calls of dialogs return is never left set, and messages go.
*Bounds:* two scripts and a style sheet for two components, and two calls, the second of which may be
made by force, for the same or another component; two components, one with files of its own, three
calls and a task; two dialogs, one of which may exceed the window, and z-indexes up to 6, so that each can be raised over the other and one be
opened, closed and given its options by the timer;
two messages of one id or none. The pages stop at the bounds, so deadlock is not checked.
*Fairness:* what was put on the agenda is done, files come or fail, timers and animations run. Users do
what they like, so nothing is assumed of them.

### widgets

- `RecentTabFollows`: the tab that follows a closed one is the one used before it, while there
  are tabs one is selected, each shows its own item. Three tabs, one move (a drag,
  or a hover timer of a closed tab), after which positions and items may disagree.
- `FieldsAgree`: what is read in a combobox is what its form posts and its listeners know. Two
  values and one other text.
- `MovesInSight`: pictures move exactly while the mouse is elsewhere; a progress bar moves only
  while it is shown. Three pictures; two bars.
- `NoTipStaysBehind`: a tip is shown while the mouse is over it or its element, or a timer is going to hide it.
  Two elements.
- `OpensInSight`: what opens beside an element does not cover it, and a dialog or a tip, each by its own widths, lies in the
  window if a side has room (unless a corner was asked for; for messages, whose test for the right forgets their
  width, only that they do not cover the field). A window of 120 with boxes up to 140: every side is too small for some.
- `MessagesAreTrue`: a message is beside a field that failed its last check, the focus takes it away, and the text beside it is right only
  if a script wrote it or the field was checked while it had the focus; a message that is to go has a timer, unless the check of
  another form stopped it. Two forms that share a field.
- `RangesAreWhole`: a range whose calendar was closed is as its options made it or has two days (months), in order, and the form posts what is
  shown. Two fields with one panel, two days of which the first is today. Not closed, in this sense, is a field
  that lost the panel to another field, or to a blur of one: its `shown` stays, and the next click elsewhere
  ends its range. A field that was given a last day and no first is excepted: `hide` empties its text over the range it posts,
  and the button of the panel posts "undefined" for the first day.
- `AnswersWhatWasRead`: a button answers the text the user has read. Three questions.
- `DisabledWhileMasked`: what lies under a mask is disabled, whoever takes masks away. Two elements, two ids,
  three masks.
- `HoverFollows`: when no timer runs a menu shows what is under the mouse, and a tab the user has chosen stays.
  Four items in two levels; three tabs.

The exceptions named in the properties are histories of orders of events in which the
code does otherwise; see [exceptions](#exceptions). Only invariants: nothing here has to happen.
Some widgets stop at a bound, so deadlock is not checked.

### pages

`PageShowsStore`: with nothing under way the page of ports shows what the server has, unless answers overtook each other or the
server changed and the page has heard of no success since (an error of a change does not read the table again:
`ipPortList.js:636`, `680`); the page of groups shows what the server had when the page last heard of a change, or later; the page
of agents shows what was asked for last, unless answers overtook each other or the last one was an error. `PostedAsGiven`: what is posted of a port is what its form was given,
though late answers make its combobox anew. `OnlyAgreedGoOffline`: machines that are taken offline are those
the user was asked about and has a right to, although the table is read again.
`MaskedWhileCalled`: a page is masked exactly while the server changes something for it, or after an upload that no answer
follows, of a dialog that came without its form or whose frame never called back (`stuck`): that mask stays, as in the code.
`ChildrenFollow`: once all is answered, in order, every level of a cascade offers what belongs
to the choices above it. `RowsMatchPage`: the rows of a table are those of the page its pager names, and the
numbers offered ascend from the first page to the last.
*Bounds:* two rows of ports and a group; two calls at once and three operations in `PortList`, changes elsewhere among them, two requests, a post and
one change in `PortRows`; three machines on two pages of a table, two searches under way, one of which
leaves machines out, and two calls (a locator's is not masked and could be sent again and again); two packages and two uploads; a cascade of three levels with two, one or no options and three requests under way; five
rows in pages of 1 and 3 (the last page is full or not), numbers past the end, two requests. Each is what it takes for
one answer to meet another's row.

### Exceptions

What the code does otherwise in some order of events is a *history* in the model, named in the property's premise. The
behaviours themselves are in the model; the property says nothing of them, and so does not cover the failure of its
hazard that they are.

| property | excepted | what the code does then |
|---|---|---|
| `CacheConverges` | the last rule or priority is deleted | it stays in use |
| `BatchIsAnswered` | `overlap`, `dropped`, a caller that is not woken | two threads may answer one round; a retry that cannot be sent is not looked at |
| `EveryCallSucceeds` | a file that failed or was removed, a call that threw (`Excused`) | who waits for it waits for ever |
| `EveryCallRuns`, `TasksRunAfterCalls` | `lost`, `mixed`, `mute`, `together` | a component that does not come, a preload that met a call, a call that returns nothing, files that clear each other's flag |
| `LayersHaveDialogs` | `alone`, `cut` | the layer of a closed dialog comes up with its options; a dialog leaves the page without scroll bars in the middle of a switch |
| `RecentTabFollows` | `moved` | after a drag, or a hover timer that outlived its tab, positions and items disagree |
| `FieldsAgree` | `odd` | text and value differ after an edit by mouse that follows a click on the panel, or a refresh under the focus |
| `MovesInSight` | `twice` | a call while another bar is due or moves |
| `NoTipStaysBehind` | `forced` | nothing hides a tip that `setData` has shown |
| `MessagesAreTrue` | `orphaned`, `inside`, `filled`, field by field | see [widgets](#widgets) |
| `RangesAreWhole` | a last day without a first; a field that lost the panel, until it is closed | see [widgets](#widgets) |
| `AnswersWhatWasRead` | `swallowed` | the text of a question is replaced although its dialog does not answer for an animation |
| `DisabledWhileMasked` | `freed`, `quiet` | an element under a mask is enabled with the id of an older one |
| `PostedAsGiven` | `touched`, `late` | a late answer makes a combobox anew with the value it began with |
| `PageShowsStore` | `overtaken`, `untold`, `failed` | the page shows an older answer, or what it had before a change it was not told of |
| `MaskedWhileCalled` | `hurried` (`stuck` is part of the statement) | the answer to one of two calls takes away the mask of both |
| `ChildrenFollow` | `disordered` | the level offers what belongs to an older choice |
| `RowsMatchPage` | `hurried` | the rows of one request under the number of another |

## What the documents say and the code does not do

Each of these is a run that TLC must find violated.

- `registry_retry`, `ShieldedIsRetried`: Introduction.md:84 says that a shielded node is tried
  again every 30 seconds. `RouterManager::getRouterNormal` takes a node from an
  expired list first (`router_manager.cpp:503`) and drops it when the
  registry answers. If that node is the shielded one whose probe is due, `checkActive`
  has already postponed its next probe. A caller slower than the expiry never
  tries it.
- `store_outage`, `OutageKeepsRoutes`: `ReapThread.h:71` says that the protection of the
  data is on by default. `StoreCache::loadObjectIdCache` looks neither at its
  parameters for it nor at the return code of `getAllServers` (`StoreCache.cpp:217`),
  so a failed read replaces the cache by an empty one.
- `etcd_wait`, `WaiterIsWoken`: `RequestEtcdCallback.cpp:1193` says that the thread
  that asked is woken. When etcd answers one of the registry's own requests with an error
  other than 100, `responseClient` throws before that (line 1060, `current` is
  null) and the wait has no timeout. It takes `MaxTry` > 1, that is, a retry
  that would be allowed.
- `list_asked`, `ListAskedOnce`: `ipPortList.js:560` says of the list of IDC groups that
  it is recorded and not asked for again. `getIdcGroupList` calls back with the recorded
  list (562-564) but does not return, so it asks again for every row that opens, and
  the late answer makes the row's combobox anew.
- `cross_answers`, `CrossAnswersOnce`: `dialog.js:291` says that `no` is called when Cancel or
  the cross of its question is clicked. The question's dialog is made once and
  every `_confirm` adds a handler to its cross (328): the cross of the n-th question
  calls `no` of all n.

Seen while modelling, and not stated as properties:

- Introduction.md:82 speaks of 5 failures *within* 5 seconds (as does the comment in
  `lb_loop.cpp`); the code shields after 5 or more failures that have *lasted* 5
  seconds or more. `DeadNodeIsShielded` states what the code does.
- The window check (`lb_loop.cpp:203`) is made by the first call after the
  window, and counts all calls since the last check, however long ago.
- The node taken first from an expired list also moves the rotation on, by two per
  refresh: with two nodes and a caller slower than the expiry it is always the same one.
- `StoreCache.cpp:155`: the deletion of the last rule or of the last priority has no
  effect until a restart (`ConvergesToStore` excepts it).
- `ApiRegImp::keepalive` has no `return` after a successful `keepServerAlive`, so it
  answers before etcd has, and a callback answers once more; `EtcdHandle.cpp:886`
  says that the answer waits for all updates.
- `odfl.js:391`: a file that was asked for before is noted in `_comRes` of the component
  that asks now, which does not exist if this is the component's first file: the call
  ends in a TypeError (`Throws` in `OdflLoader`, which `EveryCallSucceeds` excepts).
- `cloudjs.js:1064`: any component that arrives clears the one flag `_hasTask`, so a deferred
  task may overtake calls of components that are loaded together
  (`TasksRunAfterCalls` excepts that).
- `_preload` in the queue of a component calls the callback of the last call only, as
  all closures share `args` (`cloudjs.js:1074`).
- `ctab.js`: the hover timer of a tab that was closed meanwhile selects the last tab.
- `slide.js`: without arrows the first handler of the mouse throws, so the pictures go on
  moving under it.

## What is proved

The theorems hold for every value of the constants that satisfies the named assumptions
of the modules, which TLC evaluates in the runs: numbers are natural, what stands for
"none" is not one of the things it is told from, thresholds are positive, the
options of a cascade are reachable one above the other (`CascadeAssumption`), the pages of a table
have a size (`PagingAssumption`), a window's
places are in it and sizes are even (`PlacementAssumption`), the two inequalities of the
timer thread (`ReapAssumption`). They are about the specifications
the runs check, fairness unused. Each safety theorem has the same outline: an inductive
invariant, one lemma per action (or group of actions that change the same things), and a
temporal step. Invariants that are stronger than what is wanted say why in their comments.

- **`NodeBreakerProofs`**: `DeadNodesAreShielded`: shielding is decided by the code's
  counter and timer, so it is provable only together with the fact that these agree
  with what happened (`RunIsTracked`). `ProbesAreRare` (`RestIsTracked` ties the time left to the time that has
  passed), `OnlyFailuresShield`, and `ShieldsAreKept` for any addresses of the registry.
  `ForgettingIsSound` is about operators: a shielded node's
  counters are overwritten before they are read, so the models of several nodes may hold
  them at zero. What one report does to one record is in lemmas of `NodeStat` itself.
- **`RoutesProofs`**: `ProbeRemains`, `VerdictHasReason`, for any services,
  nodes, threshold and expiries. `NotCountedTwice` strengthens the invariant: the count of
  failures starts anew when the agent is given up, and without that the verdict's reason is not inductive.
  `RefreshesKeepShields` and `FreshAnswers` are the two action properties, of the client at the registry
  (`RouterInv`: which nodes a balancer knows and in what order) and at the agent.
- **`GcProofs`**: `NoObjectIsLost`, `CounterIsExact`,
  `Implements` (`Spec => Promise!Spec`, step by step). The heart is `SnapshotCovers`: because
  the list is detached *before* the threads are looked up, every detached object's
  owner is still to be looked at, has been found, or has exited. `Hands` says
  what a thread holds at each place and `OrphansKnown` ties thread ids to exits,
  although ids are reused. `NodesBehaveAsSet` is the lower refinement, `GcList` to `Gc`, for any number of addresses,
  which are used again. It needs a small theory of chains (`ChainBegins`, `ChainGoesOn`,
  `NotYetThere`, `WithoutNext`, `TwoInOne`, ...): a chain is the least closed set, and it is a list when no two
  addresses lead to the same one (`Straight`). `ListInv` says that the list, what each
  thread has detached and what each is about to insert share no address
  (`Apart`), that exactly these addresses are in use (`InUse`), and that a thread has passed only what
  stays (`PassedStay`). Then a comparison that finds an address again, freed and reused meanwhile, is
  harmless: what the new node points to is read before the comparison, and the list is what hangs on the head.
- **`RegistryProofs`**: `FitsTogether` (what was built and what is half published fits the rules in
  use during the load: `BuiltFits`, `HalfPublished`) and `AliveAnswered`, for any
  contents of the store. `ReapTypeCorrect`, `ReadersAreSafe`, `KeyOutlivesBeats`, for any intervals
  and number of queries: the two inequalities are sufficient. `ClocksFit`
  relates clocks to the thread's place, `OldReadersAreOld` bounds the age of a query that
  reads the old buffer from below, `KeyIsYoung` the age of the key from above.
  `EtcdTypeCorrect`, `CountsExact`, for any number of nodes,
  callback threads and tries. `PlacesFit` (one thread sends a round) and `SentOnce`
  (a node is not both unsent and under way) make the sums of `CountsAreExact` inductive.
- **`LoaderProofs`**: `LayersGoWithDialogs`, for any dialogs (of any size) and messages. `LayersBelow` keeps every layer that is not `alone` under its
  dialog, and all below the z-indexes to come; `Unhidden` names, at every moment, who will give the page
  its scroll bars back, though it may be an animation that has not begun; `OneShown` is about messages.
  `CallsSucceedOnceWithAll`, for any files, components and number of calls of `force`. A callback is a pair of a call
  and one of its items, and at each moment one place at most holds it: the list of its file (`Waiting`), the list that a forced
  call took over (`TakenOver`), or the agenda (`Planned`). That success does not run twice needs more, since every
  callback of a call finds all items there once the last has come. `Due` says what the rest
  of a running call can still reach: callbacks of one file only, each of which is answered after the forced call that
  holds it. Since a call names no file twice, one of its callbacks at most is among them, so a call that was
  answered is not reached again (`AnsweredOnce`). `ElementsInv` keeps an element for every file that was asked for, so that
  `_getRes` always finds one, and ties waiting callbacks to elements that are still loading.
- **`MCWidgets`** holds its proofs itself, since its widgets exist only as instances over shared
  variables: `OnlyTheSeenMoves`, `TipsAreLeft`,
  `MarkedFieldsFailed`, `ClosedRangesAreWhole`, `AnswersAreHeard`, `MasksDisable`, `ShownFollowsTheMouse`,
  `ComboboxesAgree`, `BoxesOpenInSight`, `UsedTabsFollow`. The invariant of each widget is the `Inv` of its module.
  That of the form checks adds to `MessagesAreTrue` that a marked field with the focus was checked there, that of the
  calendars how the options, the days picked and the hidden fields go together while a field is open (`Given`, `Begun`, `Ranged`).
  The longest are the combobox (what its listeners were told is the value its form posts, unless a blur, a
  search or a call is between the two), the geometry of what opens, by cases of the side that is chosen, and
  the tabs: `Orders` (the list of selections names each position once) is what `_doRemoveTab` renumbers, and
  `RankCountsDown`, `RankReachesAll` say that counting down past the removed positions names those that stay;
  both hold whatever was dragged, `InStep` only until then.
- **`MCPages`** likewise: `PagesShowTheStore`, `PostsAreAsGiven`, `AgreedGoOffline`, `MasksCoverCalls`, for any keys, groups,
  machines and numbers of calls under way. `RowsCome` says where the newest rows are: in the page, in an answer under way that no
  later one will overwrite, or still to be asked for by a success that was not heard yet. `LevelsFollow` rests on `Decides`: which answer under way will decide what a
  level of the cascade offers. `PagesAreShown` rests on `WaitsForLast`: unless requests overtook each other, only the one for
  the last page asked for is under way; its lemmas are about products and remainders of page sizes, and the window of
  numbers that a pager shows.

## What is only model-checked

- Liveness under fairness (`LiveServerIsFound`, `AgentIsFoundAgain`, `CacheConverges`,
  `BatchIsAnswered`, `EveryCallSucceeds`, `EveryCallRuns`, `DialogsAnswerAgain`): out of the prover's reach.
- `AnswersAreRight` in the part `CalmAnswersAreExact`: the priorities are gone through by a fold, of which the
  prover knows nothing without induction over data. `AliveServiceAnswered` and `BuffersApart` are proved
  (`AliveAnswered`, `ReadersAreSafe`).
- `CallsRunInOrder`, `TasksRunAfterCalls`: queues of calls are filtered and folded.

## What is not modelled

- **Client**: the other balancers (`lb_random`, `lb_static_weight`, `lb_consistenthash`, `lb_all`: random numbers and
  hashes over the same lists), `getRouterSingle`, `StatManager`, the entry points
  (`Tseer_api.cpp:68` marks the library initialised before its parameters are written, so a second thread may
  use them too early), and partial writes of cache files (`cache_manager.cpp:249`). In the collector: at 1024 threads
  or more the listing fails and nothing is collected (`gc.cpp:153`), and `deleteObj` misses its own objects while another
  thread has them detached (`gc.cpp:242`): both are in the model as behaviours (`ListFailed`, `DeleteObj`), and no
  property forbids them.
- **Agent** (`TseerAgent`): its answers are the lists that `AgentRoutes` receives. An entry of its route tables
  may expire while a refresh writes it back (`RouterManager.cpp:81`).
- **Registry**: `EtcdHost` (the counter that chooses a host is advanced by all threads without a lock, `EtcdHost.cpp`),
  packages (`UpdateThread.cpp:225`, `RegistryImp.cpp:210`: a version may change in the middle of a download), and
  the administrative requests, which read before they write (`StoreProxy.cpp:106`, `EtcdHandle.cpp:229`,
  `MysqlHandle.cpp:1207`): what is lost depends on what etcd or MySQL keeps of two writers.
- `EtcdDataCache`, `MysqlHandle`, `conn.cpp`, `dns_packer.cpp`: conversions and I/O. Their results and failures
  are inputs: an answer, none, or one that does not decode.
- **Website**: `draggable.js` and `resizable.js` (jQuery UI, adapted), `swfupload` (around a plug-in), jQuery
  and its plug-ins, helpers without state (`string.js`, `version.js`, `pinyinspell.js`, ...), pages that fill a table or
  send one form (`log_show.js`, `agentRouterInstall.js`, `api/js/upload.js`), the servlets, which pass requests on.
- The Java client, deployment scripts, examples, vendored and generated code.
- In the modelled widgets and pages: a timer of a dialog that comes to nothing, `addButton`; the call `validate('autoFit')` (it
  measures, and then checks as any other call); `update` and `destroy` of a calendar, and a value in the HTML of a
  range field; tables made over rows that are in the page already and cascades over data held by the page (variants of the same
  code without a server); rows deleted at the server while a pager shows them (the number of rows is a constant of `Paging`). The second
  timer of a dialog opened twice at once counts as one, and a timer of 0 ms may come after any number of
  events. Changes elsewhere are bounded with the user's operations (`MaxOps`, `MaxVersion`).
- In the modelled parts: formats and logs, layout and styles, ports and protocols of nodes (a node is a key), the MySQL variant of
  what `EtcdBatch` does, and times below a second.

`PROJECT.json` lists every part with its sources, the definitions with the lines they
model, and the hazards with the properties that cover them; a hazard without a property says why.

## Use

    tlc -workers 2 -config MCRoutes.cfg MCRoutes
    tlapm GcProofs.tla

A run takes between half a minute and three minutes.
