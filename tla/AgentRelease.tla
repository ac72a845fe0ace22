---------------------------- MODULE AgentRelease ----------------------------
(***************************************************************************)
(* The page of the agents: pages/ftl/package/js/grayReleasedPage.js.  The  *)
(* user searches for machines, checks some, and registers them for a       *)
(* release, takes them offline or gives their agents another locator.      *)
(* What is checked is read from the table at a click, and for taking       *)
(* machines offline once more when the user has agreed; an answer to a     *)
(* search replaces the table at any time between.                          *)
(***************************************************************************)
EXTENDS Naturals, Sequences, FiniteSets

CONSTANTS
    Machines,
    Os,             \* operating system of each machine
    Page,           \* page of the table each machine is on
    Charged,        \* machines the user is in charge of
    GrayVer,        \* machines with a gray version
    Queries,        \* what may be asked for: sets of machines
    Columns, DefaultHideTh,
    None,
    MaxLoads,       \* bound on searches under way
    MaxCalls        \* bound on calls under way, for one that is not masked

VARIABLES
    isAdmin, agents,    \* the user's role; machines with an agent
    query,              \* sIp, sBgName, ...: what was asked for last
    loads,              \* answers to searches under way, the oldest first
    table,              \* None, or its query, rows, page and checks
    cookie, hidden,     \* agent_hide_th and the columns that are hidden
    dialog,             \* None, or the question the user is asked and about what
    masked,             \* Util.showMask
    calls,              \* calls under way
    reload,             \* location.reload is due
    overtaken,          \* history: an answer to a search came after a later one
    failed              \* history: the last answer to a search was an error

vars == <<isAdmin, agents, query, loads, table, cookie, hidden, dialog, masked, calls,
          reload, overtaken, failed>>

Ops == {"release", "delete", "locator"}
Table == [query : Queries, rows : SUBSET Machines,
          page : {1} \cup {Page[m] : m \in Machines}, checked : SUBSET Machines]
Question == [op : {"delete", "locator"}, ips : SUBSET Machines, late : BOOLEAN]
TypeOK ==
    /\ isAdmin \in BOOLEAN /\ masked \in BOOLEAN /\ reload \in BOOLEAN /\ overtaken \in BOOLEAN
    /\ failed \in BOOLEAN
    /\ agents \subseteq Machines /\ query \in Queries /\ hidden \subseteq Columns
    /\ loads \in Seq(Queries) /\ cookie \in {None} \cup SUBSET Columns
    /\ table # None => /\ table \in Table
                       /\ table.checked \subseteq {m \in table.rows : Page[m] = table.page}
    /\ dialog # None => dialog \in Question
    /\ \A c \in calls : c.op \in Ops /\ c.ips \subseteq Machines

Ask(q) == Len(loads) < MaxLoads /\ loads' = Append(loads, q)
Checked == IF table = None THEN {} ELSE table.checked
Free == dialog = None /\ ~masked

(* filterTh: the columns in the cookie, or those of doFilterTh.            *)
FilterTh == IF cookie = None THEN DefaultHideTh ELSE cookie

Init ==
    /\ isAdmin \in BOOLEAN /\ agents = Machines
    /\ query \in Queries /\ loads = <<query>> /\ table = None
    /\ cookie \in {None} \cup SUBSET Columns /\ hidden = FilterTh
    /\ dialog = None /\ masked = FALSE /\ calls = {} /\ reload = FALSE
    /\ overtaken = FALSE /\ failed = FALSE

-----------------------------------------------------------------------------
(* search reads the form, doSearch asks.                                   *)
Search(q) ==
    /\ Free /\ query' = q /\ Ask(q)
    /\ UNCHANGED <<isAdmin, agents, table, cookie, hidden, dialog, masked, calls, reload, overtaken, failed>>

(* The answer: a new table, its first page, with nothing checked.  After   *)
(* an error the callback runs as well, and the table that is there is made *)
(* anew: its first page, with nothing checked.                             *)
Loaded ==
    /\ \E i \in DOMAIN loads, ok \in BOOLEAN :
          /\ loads' = [k \in 1 .. Len(loads) - 1 |-> IF k < i THEN loads[k] ELSE loads[k + 1]]
          /\ overtaken' = (overtaken \/ i > 1) /\ failed' = ~ok
          /\ table' = IF ok THEN [query |-> loads[i], rows |-> loads[i] \cap agents, page |-> 1,
                                  checked |-> {}]
                      ELSE IF table = None THEN None
                      ELSE [table EXCEPT !.page = 1, !.checked = {}]
    /\ hidden' = FilterTh
    /\ dialog' = IF dialog = None THEN None ELSE [dialog EXCEPT !.late = TRUE]
    /\ UNCHANGED <<isAdmin, agents, query, cookie, masked, calls, reload>>

(* The table's onBodyChange                                                *)
TurnPage ==
    /\ Free /\ table # None
    /\ \E p \in {Page[m] : m \in table.rows} \ {table.page} :
          table' = [table EXCEPT !.page = p, !.checked = {}]
    /\ hidden' = FilterTh
    /\ UNCHANGED <<isAdmin, agents, query, loads, cookie, dialog, masked, calls, reload, overtaken, failed>>

(* A box beside a machine, or the one for all that are visible             *)
Check ==
    /\ Free /\ table # None
    /\ LET visible == {m \in table.rows : Page[m] = table.page} IN
       \E c \in {visible, {}} \cup {(table.checked \ {m}) \cup ({m} \ table.checked) : m \in visible} :
          c # table.checked /\ table' = [table EXCEPT !.checked = c]
    /\ UNCHANGED <<isAdmin, agents, query, loads, cookie, hidden, dialog, masked, calls, reload, overtaken, failed>>

(* initFilterTalbeDiv: a box that says whether a column is hidden          *)
ChangeFilter ==
    /\ Free
    /\ \E c \in Columns : cookie' = (hidden \ {c}) \cup ({c} \ hidden)
    /\ hidden' = cookie'
    /\ UNCHANGED <<isAdmin, agents, query, loads, table, dialog, masked, calls, reload, overtaken, failed>>

-----------------------------------------------------------------------------
(* validateVer: "1" for a gray release, "2" to make it the formal one      *)
ValidateVer(type) ==
    /\ Checked # {}
    /\ \A m, n \in Checked : Os[m] = Os[n]
    /\ type = "2" => Checked \subseteq GrayVer

GrayPackage(type) ==
    /\ Free /\ ValidateVer(type)
    /\ masked' = TRUE
    /\ calls' = calls \cup {[op |-> "release", ips |-> Checked, agreed |-> Checked, late |-> FALSE]}
    /\ UNCHANGED <<isAdmin, agents, query, loads, table, cookie, hidden, dialog, reload, overtaken, failed>>

(* Mutant: whoever checks a machine may take it offline.                   *)
UndeployAny ==
    /\ Free /\ Checked # {}
    /\ dialog' = [op |-> "delete", ips |-> Checked, late |-> FALSE]
    /\ UNCHANGED <<isAdmin, agents, query, loads, table, cookie, hidden, masked, calls, reload, overtaken, failed>>

(* undeploy asks; what is checked when the user agrees goes.               *)
Undeploy ==
    /\ Free /\ Checked # {}
    /\ isAdmin \/ Checked \subseteq Charged
    /\ dialog' = [op |-> "delete", ips |-> Checked, late |-> FALSE]
    /\ UNCHANGED <<isAdmin, agents, query, loads, table, cookie, hidden, masked, calls, reload, overtaken, failed>>

ConfirmUndeploy ==
    /\ ~masked /\ dialog # None /\ dialog.op = "delete"
    /\ dialog' = None /\ masked' = TRUE
    /\ calls' = calls \cup {[op |-> "delete", ips |-> Checked, agreed |-> dialog.ips,
                             late |-> dialog.late]}
    /\ UNCHANGED <<isAdmin, agents, query, loads, table, cookie, hidden, reload, overtaken, failed>>

(* updateAgentLocator: the machines are those of the click, and the dialog *)
(* stays until the answer, without a mask.                                 *)
UpdateAgentLocator ==
    /\ Free /\ Checked # {}
    /\ dialog' = [op |-> "locator", ips |-> Checked, late |-> FALSE]
    /\ UNCHANGED <<isAdmin, agents, query, loads, table, cookie, hidden, masked, calls, reload, overtaken, failed>>

ConfirmLocator ==
    /\ ~masked /\ dialog # None /\ dialog.op = "locator" /\ Cardinality(calls) < MaxCalls
    /\ calls' = calls \cup {[op |-> "locator", ips |-> dialog.ips, agreed |-> dialog.ips,
                             late |-> FALSE]}
    /\ UNCHANGED <<isAdmin, agents, query, loads, table, cookie, hidden, dialog, masked, reload, overtaken, failed>>

Cancel ==
    /\ dialog # None /\ dialog' = None
    /\ UNCHANGED <<isAdmin, agents, query, loads, table, cookie, hidden, masked, calls, reload, overtaken, failed>>

(* The answers.  An error may have done nothing, a part, or all of what it *)
(* was asked.  The answer of a locator closes the dialog, whichever machines   *)
(* it is open for by now, and asks for the table.                          *)
Released ==
    /\ \E c \in calls : c.op = "release" /\ calls' = calls \ {c}
    /\ masked' = FALSE
    /\ UNCHANGED <<isAdmin, agents, query, loads, table, cookie, hidden, dialog, reload, overtaken, failed>>

Deleted ==
    /\ \E c \in calls, ok \in BOOLEAN, gone \in SUBSET Machines :
          /\ c.op = "delete" /\ calls' = calls \ {c}
          /\ gone \subseteq c.ips /\ (ok => gone = c.ips)
          /\ agents' = agents \ gone
          /\ reload' = (reload \/ ok)
    /\ masked' = FALSE
    /\ UNCHANGED <<isAdmin, query, loads, table, cookie, hidden, dialog, overtaken, failed>>

LocatorCame ==
    /\ \E c \in calls, ok \in BOOLEAN :
          /\ c.op = "locator" /\ calls' = calls \ {c}
          /\ IF ok THEN /\ Ask(query)
                        /\ dialog' = IF dialog # None /\ dialog.op = "locator" THEN None ELSE dialog
                   ELSE UNCHANGED <<loads, dialog>>
    /\ UNCHANGED <<isAdmin, agents, query, table, cookie, hidden, masked, reload, overtaken, failed>>

(* location.reload, 1.5 s after machines went offline: the page begins     *)
(* anew, and no answer finds it.                                           *)
Reload ==
    /\ reload /\ reload' = FALSE
    /\ loads' = <<query>> /\ table' = None /\ hidden' = FilterTh /\ dialog' = None /\ masked' = FALSE
    /\ calls' = {} /\ overtaken' = FALSE /\ failed' = FALSE
    /\ UNCHANGED <<isAdmin, agents, query, cookie>>

Next ==
    \/ \E q \in Queries : Search(q)
    \/ Loaded \/ TurnPage \/ Check \/ ChangeFilter
    \/ \E type \in {"1", "2"} : GrayPackage(type)
    \/ Undeploy \/ ConfirmUndeploy \/ UpdateAgentLocator \/ ConfirmLocator \/ Cancel
    \/ Released \/ Deleted \/ LocatorCame \/ Reload

Spec == Init /\ [][Next]_vars

-----------------------------------------------------------------------------
(* The machines that are taken offline are those the user was asked about, *)
(* fewer if an answer to a search came in between, and the user has a      *)
(* right to all of them, though the table is read again (undeploy).        *)
OnlyAgreedGoOffline ==
    \A c \in calls : c.op = "delete" =>
        /\ c.ips \subseteq c.agreed /\ (c.late \/ c.ips = c.agreed)
        /\ isAdmin \/ c.ips \subseteq Charged

(* The page is masked exactly while a release or a removal is under way:   *)
(* no other answer takes the mask away (showMask, hideMask).               *)
MaskedWhileChanging == masked = (\E c \in calls : c.op \in {"release", "delete"})

(* With no search under way the table is that of the last search, with the *)
(* columns the user has chosen, unless answers were out of order or the    *)
(* last one was an error, which leaves the table of another search.        *)
TableIsAsAsked ==
    /\ hidden = FilterTh
    /\ loads = <<>> /\ ~overtaken /\ ~failed => table # None /\ table.query = query

(* What every step keeps.  Whoever is asked about taking machines offline  *)
(* has them checked, or an answer came in between and nothing is checked;  *)
(* only one call needs the mask; and the last search is the newest.        *)
AskedAbout ==
    dialog # None /\ dialog.op = "delete" =>
        /\ Checked \subseteq dialog.ips /\ (dialog.late \/ Checked = dialog.ips)
        /\ isAdmin \/ dialog.ips \subseteq Charged
Inv ==
    /\ TypeOK /\ OnlyAgreedGoOffline /\ MaskedWhileChanging /\ AskedAbout
    /\ \A c, d \in calls : {c.op, d.op} \subseteq {"release", "delete"} => c = d
    /\ hidden = FilterTh
    /\ ~overtaken => IF loads = <<>> THEN failed \/ (table # None /\ table.query = query)
                     ELSE loads[Len(loads)] = query
=============================================================================
