------------------------------ MODULE PortList ------------------------------
(***************************************************************************)
(* The page of a server's ports: pages/ftl/router_manager/js/ipPortList.js.*)
(* A row is its key (port_name+ip+port) and the IDC group it belongs to,   *)
(* "" if it has none.  Every call goes to the server and its answer comes  *)
(* back when it likes; nothing tells an answer from a later one.  The form *)
(* of "edit" is one element for all rows, and the list its combobox offers *)
(* is asked from the server whenever a row is edited.                      *)
(***************************************************************************)
EXTENDS Naturals, Sequences, FiniteSets

CONSTANTS Keys, Groups, None,
          MaxOps,           \* what users do: clicks that open or send, changes elsewhere
          MaxCalls          \* bound on calls under way

VARIABLES
    store,          \* rows the server has: key -> group, None if no row
    ipPortData,     \* ipPortData: rows the page has
    shown,          \* the table shows rows, not an error
    idcGroupList,   \* None, "list", or "none": the list was lost
    edit,           \* the form of an edited row: see Init
    chosen,         \* rows a question about deleting is open for
    calls,          \* calls under way: op, served, ok, body
    ops,            \* number of things done
    odd             \* history: answers that came late or out of order, and changes of
                    \* the store that the page was not told of

vars == <<store, ipPortData, shown, idcGroupList, edit, chosen, calls, ops, odd>>

Rows == [Keys -> Groups \cup {"", None}]
Has(rows) == {k \in Keys : rows[k] # None}

(* The form of "edit"; and a call with its body: the rows a table call     *)
(* brings; the group a list was asked for and in which edit; the rows      *)
(* another call is about, as they are to be.                               *)
Form == [open : BOOLEAN, key : Keys \cup {None}, combo : BOOLEAN, enabled : BOOLEAN,
         group : Groups \cup {""}, want : Groups \cup {""}, n : 0 .. MaxOps, picked : BOOLEAN]
Asking == [row : Groups \cup {""}, n : 0 .. MaxOps]
Changes == UNION {[ks -> Groups \cup {"", None}] : ks \in SUBSET (Keys \cup {None})}
Call == [op : {"table"}, served : BOOLEAN, ok : BOOLEAN, body : Rows \cup {None}]
        \cup [op : {"idc"}, served : BOOLEAN, ok : BOOLEAN, body : Asking]
        \cup [op : {"update", "add", "del"}, served : BOOLEAN, ok : BOOLEAN, body : Changes]

TypeOK ==
    /\ store \in Rows /\ ipPortData \in Rows /\ shown \in BOOLEAN
    /\ idcGroupList \in {None, "list", "none"} /\ chosen \subseteq Keys
    /\ edit \in Form /\ calls \in Seq(Call) /\ Len(calls) <= MaxCalls
    /\ \A i \in DOMAIN calls : calls[i].op = "table" /\ calls[i].served => calls[i].body \in Rows
    /\ ops \in 0 .. MaxOps /\ odd \subseteq {"late", "overtaken", "untold"}

Send(cs, op, body) == Append(cs, [op |-> op, served |-> FALSE, ok |-> TRUE, body |-> body])
Without(cs, i) == SubSeq(cs, 1, i - 1) \o SubSeq(cs, i + 1, Len(cs))
Room(n) == Len(calls) + n <= MaxCalls /\ ops < MaxOps /\ ops' = ops + 1

Init ==
    /\ store \in Rows /\ Has(store) # {}
    /\ ipPortData = [k \in Keys |-> None] /\ shown = FALSE
    /\ idcGroupList = None /\ chosen = {} /\ ops = 0 /\ odd = {}
    /\ edit = [open |-> FALSE, key |-> None,
               combo |-> FALSE,     \* the combobox has been made
               enabled |-> FALSE,   \* enable_idc_group is Y
               group |-> "",        \* what the combobox holds
               want |-> "",         \* history: the row's group or the user's choice
               n |-> 0,             \* history: which edit this is
               picked |-> FALSE]    \* history: the user has chosen in it
    /\ calls = Send(<<>>, "table", None)

-----------------------------------------------------------------------------
(* Mutant: the combobox is made without the value.                         *)
ComboboxEmpty(e, list, value) == [e EXCEPT !.combo = TRUE, !.group = ""]

(* getIdcGroupList calls back at once with what is there, and asks again.  *)
(* The callback makes the combobox anew with the value of the row.         *)
Combobox(e, list, value) ==
    [e EXCEPT !.combo = TRUE, !.group = IF list = "list" THEN value ELSE ""]

(* showEditDialog                                                          *)
ShowEditDialog ==
    /\ Room(1) /\ shown /\ ~edit.open
    /\ \E k \in Has(ipPortData) :
          LET row == ipPortData[k]
              e   == [edit EXCEPT !.open = TRUE, !.key = k, !.enabled = row # "",
                                  !.want = row, !.n = @ + 1, !.picked = FALSE]
          IN  /\ edit' = IF idcGroupList = None THEN e ELSE Combobox(e, idcGroupList, row)
              /\ calls' = Send(calls, "idc", [row |-> row, n |-> e.n])
    /\ UNCHANGED <<store, ipPortData, shown, idcGroupList, chosen, odd>>

(* The user picks a group, or says whether the row has one.                *)
PickGroup ==
    /\ edit.open /\ edit.enabled /\ edit.combo /\ idcGroupList = "list"
    /\ \E g \in Groups : edit' = [edit EXCEPT !.group = g, !.want = g, !.picked = TRUE]
    /\ UNCHANGED <<store, ipPortData, shown, idcGroupList, chosen, calls, ops, odd>>

EnableIdcGroup ==
    /\ edit.open /\ edit.combo
    /\ edit' = [edit EXCEPT !.enabled = ~@, !.picked = TRUE,
                            !.group = IF edit.enabled THEN "" ELSE @,
                            !.want  = IF edit.enabled THEN "" ELSE edit.group]
    /\ UNCHANGED <<store, ipPortData, shown, idcGroupList, chosen, calls, ops, odd>>

(* OK: validate (idc_not_null), then submitPortData.  The form stays until *)
(* the answer, and so does its button.                                     *)
ConfirmEdit ==
    /\ Room(1) /\ edit.open
    /\ edit.enabled => edit.group # ""
    /\ calls' = Send(calls, "update",
                     [k \in {edit.key} |-> IF edit.enabled THEN edit.group ELSE ""])
    /\ UNCHANGED <<store, ipPortData, shown, idcGroupList, edit, chosen, odd>>

Cancel ==
    /\ \/ edit.open /\ edit' = [edit EXCEPT !.open = FALSE] /\ UNCHANGED chosen
       \/ chosen # {} /\ chosen' = {} /\ UNCHANGED edit
    /\ UNCHANGED <<store, ipPortData, shown, idcGroupList, calls, ops, odd>>

(* showAddDialog and its OK: one new row stands for those of the form      *)
(* (PortRows), which is as long open as its call is under way.             *)
AddPort ==
    /\ Room(1)
    /\ \E k \in Keys, g \in Groups : calls' = Send(calls, "add", [r \in {k} |-> g])
    /\ UNCHANGED <<store, ipPortData, shown, idcGroupList, edit, chosen, odd>>

(* doDel: the rows are chosen now, and looked up when the user agrees.     *)
DoDel ==
    /\ Room(0) /\ shown /\ chosen = {}
    /\ chosen' \in SUBSET Has(ipPortData) \ {{}}
    /\ UNCHANGED <<store, ipPortData, shown, idcGroupList, edit, calls, odd>>

ConfirmDel ==
    /\ Len(calls) < MaxCalls /\ chosen # {} /\ chosen' = {}
    /\ calls' = Send(calls, "del", [k \in chosen \cap Has(ipPortData) |-> None])
    /\ UNCHANGED <<store, ipPortData, shown, idcGroupList, edit, ops, odd>>

-----------------------------------------------------------------------------
(* The server reads.  The table asked for last makes good for all that the *)
(* page was not told of.                                                   *)
Read ==
    /\ \E i \in DOMAIN calls, ok \in BOOLEAN :
          /\ ~calls[i].served /\ calls[i].op \in {"table", "idc"}
          /\ calls' = [calls EXCEPT ![i].served = TRUE, ![i].ok = ok,
                           ![i].body = IF calls[i].op = "table" THEN store ELSE @]
          /\ odd' = odd \ {o \in {"untold"} : /\ calls[i].op = "table"
                                              /\ \A j \in DOMAIN calls : calls[j].op = "table" => j <= i}
    /\ UNCHANGED <<store, ipPortData, shown, idcGroupList, edit, chosen, ops>>

(* The server writes: all the rows, or some or none of them, or all and    *)
(* the answer gets lost; but for the first the page hears of an error.     *)
Written(rows, ks) == [k \in Keys |-> IF k \in ks THEN rows[k] ELSE store[k]]
Write ==
    /\ \E i \in DOMAIN calls, ok \in BOOLEAN, done \in SUBSET Keys :
          LET c == calls[i]
          IN  /\ ~c.served /\ c.op \in {"update", "add", "del"}
              /\ done \subseteq DOMAIN c.body /\ (ok => done = DOMAIN c.body \cap Keys)
              /\ store' = Written(c.body, done)
              /\ calls' = [calls EXCEPT ![i].served = TRUE, ![i].ok = ok]
              /\ odd' = odd \cup {o \in {"untold"} : ~ok /\ store' # store}
    /\ UNCHANGED <<ipPortData, shown, idcGroupList, edit, chosen, ops>>

(* Somebody else changes a row, or the server goes on with a change whose  *)
(* answer was lost.                                                        *)
StoreChanges ==
    /\ Room(0)
    /\ \E k \in Keys : \E row \in (Groups \cup {"", None}) \ {store[k]} :
          store' = [store EXCEPT ![k] = row]
    /\ odd' = odd \cup {"untold"}
    /\ UNCHANGED <<ipPortData, shown, idcGroupList, edit, chosen, calls>>

Answered(op, i) == calls[i].op = op /\ calls[i].served

(* getTableData and renderTable: an error hides the rows and keeps them.   *)
TableCame ==
    /\ \E i \in DOMAIN calls :
          /\ Answered("table", i)
          /\ calls' = Without(calls, i)
          /\ shown' = calls[i].ok
          /\ ipPortData' = IF calls[i].ok THEN calls[i].body ELSE ipPortData
          /\ odd' = odd \cup {o \in {"overtaken"} : \E j \in 1 .. i - 1 : calls[j].op = "table"}
    /\ UNCHANGED <<store, idcGroupList, edit, chosen, ops>>

(* getIdcGroupList, the answer: the list is kept, and the form that is     *)
(* there now gets a combobox for the row the list was asked for.           *)
ListCame ==
    /\ \E i \in DOMAIN calls : LET b == calls[i].body IN
          /\ Answered("idc", i)
          /\ calls' = Without(calls, i)
          /\ idcGroupList' = IF calls[i].ok THEN "list" ELSE "none"
          /\ edit' = Combobox(edit, idcGroupList', b.row)
          /\ odd' = odd \cup {o \in {"late"} : edit.open /\ (b.n # edit.n \/ edit.picked)}
    /\ UNCHANGED <<store, ipPortData, shown, chosen, ops>>

(* Mutant: the table is left as it is.                                     *)
SubmitCameQuietly ==
    /\ \E i \in DOMAIN calls :
          /\ calls[i].op \in {"update", "add", "del"} /\ calls[i].served
          /\ calls' = Without(calls, i)
          /\ edit' = [edit EXCEPT !.open = @ /\ ~(calls[i].ok /\ calls[i].op = "update")]
    /\ UNCHANGED <<store, ipPortData, shown, idcGroupList, chosen, ops, odd>>

(* submitPortData and doDel, the answer: the table is asked for anew, and  *)
(* the form is closed, whatever it is used for by now.                     *)
SubmitCame ==
    /\ \E i \in DOMAIN calls :
          /\ calls[i].op \in {"update", "add", "del"} /\ calls[i].served
          /\ LET ok == calls[i].ok IN
             /\ calls' = IF ok THEN Send(Without(calls, i), "table", None) ELSE Without(calls, i)
             /\ edit' = [edit EXCEPT !.open = @ /\ ~(ok /\ calls[i].op = "update")]
    /\ UNCHANGED <<store, ipPortData, shown, idcGroupList, chosen, ops, odd>>

Next ==
    \/ ShowEditDialog \/ PickGroup \/ EnableIdcGroup \/ ConfirmEdit \/ Cancel
    \/ AddPort \/ DoDel \/ ConfirmDel
    \/ Read \/ Write \/ StoreChanges \/ TableCame \/ ListCame \/ SubmitCame

Spec == Init /\ [][Next]_vars

-----------------------------------------------------------------------------
(* When no call is under way the rows in the page are those of the store,  *)
(* after any edits, additions and deletions, done, refused or partly done, *)
(* unless an answer with rows came before that of an earlier call, or the  *)
(* store changed since the last reading and the page heard of no success   *)
(* (submitPortData, doDel: an error does not read the table again).        *)
Told == {"overtaken", "untold"} \cap odd = {}
PageShowsStore ==
    calls = <<>> /\ shown /\ Told => ipPortData = store

(* What OK would save is the group the row had or the one the user chose,  *)
(* though the combobox is made again by every answer, unless an answer     *)
(* asked for earlier came late (showEditDialog, getIdcGroupList).          *)
EditKeepsItsRow ==
    edit.open /\ edit.combo /\ edit.enabled /\ idcGroupList = "list" /\ "late" \notin odd
        => edit.group = edit.want

(* The comment of getIdcGroupList: the list is asked for, the result is    *)
(* recorded and "下次不重复发起", it is not asked for again.               *)
Asked == Cardinality({i \in DOMAIN calls : calls[i].op = "idc"})
ListAskedOnce == [][idcGroupList = "list" => Asked' <= Asked]_vars

(* What every step keeps.  The page has the rows of the store, or the last *)
(* answer with rows will bring them, or a change asks for them; and a list *)
(* that was asked for in this edit is for the group the row has.           *)
Newest ==
    LET tables == {i \in DOMAIN calls : calls[i].op = "table"}
        Brings(c) == c.served /\ c.ok => c.body = store
        Last(i) == \A j \in tables : j <= i
    IN  \/ \E i \in DOMAIN calls : /\ calls[i].op \in {"update", "add", "del"}
                                   /\ calls[i].served /\ calls[i].ok
        \/ \E i \in tables : Last(i) /\ Brings(calls[i])
        \/ tables = {} /\ (shown => ipPortData = store)
Inv ==
    /\ TypeOK /\ PageShowsStore /\ EditKeepsItsRow
    /\ Told => Newest
    /\ edit.combo => idcGroupList # None
    /\ edit.n <= ops
    /\ \A i \in DOMAIN calls : calls[i].op = "idc" =>
          /\ calls[i].body.n <= edit.n
          /\ calls[i].body.n = edit.n /\ ~edit.picked => calls[i].body.row = edit.want
=============================================================================
