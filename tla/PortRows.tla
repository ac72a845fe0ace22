------------------------------ MODULE PortRows ------------------------------
(***************************************************************************)
(* The page of service groups and the form that adds a module to one:      *)
(* pages/ftl/router_manager/js/serviceGroupList.js.  The form has a row    *)
(* per port.  The input of a row's IDC group becomes a combobox when the   *)
(* list of groups is there, and becomes one again, with the value the row  *)
(* began with, whenever the answer to the row's own request comes.         *)
(* The page is the version of the store it shows.                          *)
(***************************************************************************)
EXTENDS Naturals, FiniteSets, Functions

CONSTANTS
    Keys,       \* port_name+ip+port of a row
    Groups,     \* IDC groups
    None,
    MaxRows,    \* rows made (count)
    MaxAsks,    \* bound on requests for the list under way
    MaxPosts,   \* bound on additions under way
    MaxVersion  \* bound on changes of the store

VARIABLES
    dialog,         \* None, "group" (addserviceGroup) or "module" (addModule)
    rows,           \* rows of the form: number of the row -> row
    count,          \* rows made so far
    idcGroupList,   \* None, or the groups of the last answer
    asks,           \* requests for the list: the row, and the value it began with
    posts,          \* additions under way: the rows posted
    searches,       \* search() under way: the version each began at
    store, page,    \* versions of the service groups: the server's and the page's
    known,          \* history: the version the page last heard of
    touched,        \* history: rows changed between a request and its answer
    overtaken       \* history: an answer of search came after a later one's

vars == <<dialog, rows, count, idcGroupList, asks, posts, searches, store, page, known,
          touched, overtaken>>
server == <<searches, store, page, known, overtaken>>

Ids == 1 .. MaxRows
Row == [key : Keys \cup {None}, on : BOOLEAN, made : BOOLEAN, disabled : BOOLEAN,
        text : Groups \cup {"", "free"}, group : Groups \cup {""}, want : Groups \cup {""}]

TypeOK ==
    /\ dialog \in {None, "group", "module"} /\ count \in 0 .. MaxRows
    /\ DOMAIN rows \subseteq Ids /\ \A i \in DOMAIN rows : rows[i] \in Row
    /\ idcGroupList \in {None} \cup SUBSET Groups
    /\ asks \subseteq [row : Ids, value : Groups \cup {""}] /\ touched \subseteq Ids
    /\ store \in 0 .. MaxVersion /\ page \in 0 .. store \cup {None} /\ overtaken \in BOOLEAN
    /\ searches \subseteq 0 .. MaxVersion /\ known \in 0 .. store

Init ==
    /\ dialog = None /\ rows = <<>> /\ count = 0 /\ idcGroupList = None
    /\ asks = {} /\ posts = {} /\ touched = {} /\ overtaken = FALSE
    /\ store = 0 /\ searches = {0} /\ page = None /\ known = 0

-----------------------------------------------------------------------------
(* The combobox is made, or made anew, with a value (checkValue: TRUE).    *)
Combobox(row, list, value) ==
    LET v == IF value \in list THEN value ELSE ""
    IN  [row EXCEPT !.made = TRUE, !.text = v, !.group = v]

(* addPortConfTr: a row, empty or as the row it is cloned from.  The list  *)
(* that is there is used, and the list is asked for all the same.          *)
AddPortConfTr(others, key, on, value) ==
    /\ count < MaxRows /\ Cardinality(asks) < MaxAsks
    /\ count' = count + 1
    /\ LET row == [key |-> key, on |-> on, made |-> FALSE, disabled |-> ~on,
                   text |-> "", group |-> "", want |-> value]
       IN  rows' = [i \in DOMAIN others \cup {count'} |->
                       IF i # count' THEN others[i]
                       ELSE IF idcGroupList = None THEN row
                       ELSE Combobox(row, idcGroupList, value)]
    /\ asks' = asks \cup {[row |-> count', value |-> value]}

(* addserviceGroup; both dialogs are modal.                                *)
AddServiceGroup ==
    /\ dialog = None /\ page # None /\ dialog' = "group"
    /\ UNCHANGED <<rows, count, idcGroupList, asks, posts, touched, server>>

AddModule ==
    /\ dialog = None /\ page # None /\ dialog' = "module"
    /\ AddPortConfTr(<<>>, None, FALSE, "")
    /\ UNCHANGED <<idcGroupList, posts, touched, server>>

(* copy_ip_port_btn: of a row without a combobox no group is copied.       *)
Copy(i) ==
    /\ AddPortConfTr(rows, rows[i].key, rows[i].on, rows[i].group)
    /\ touched' = touched \cup {j \in {count'} : i \in touched}
    /\ UNCHANGED <<dialog, idcGroupList, posts, server>>

(* del_ip_port_btn: one row stays.                                         *)
Del(i) ==
    /\ Cardinality(DOMAIN rows) > 1
    /\ rows' = Restrict(rows, DOMAIN rows \ {i})
    /\ UNCHANGED <<dialog, count, idcGroupList, asks, posts, touched, server>>

Asked(i) == \E a \in asks : a.row = i
Touch(i) == touched' = touched \cup {j \in {i} : Asked(i)}

(* enable_idc_group: a combobox that is not there yet hears nothing.       *)
EnableIdcGroup(i) ==
    /\ LET row == [rows[i] EXCEPT !.on = ~@]
       IN  rows' = [rows EXCEPT ![i] =
             CASE ~row.made -> [row EXCEPT !.want = IF row.on THEN @ ELSE ""]
               [] row.made /\ row.on -> [row EXCEPT !.disabled = FALSE]
               [] OTHER -> [row EXCEPT !.disabled = TRUE, !.text = "", !.group = "", !.want = ""]]
    /\ Touch(i)
    /\ UNCHANGED <<dialog, count, idcGroupList, asks, posts, server>>

(* The user fills in the key, or takes a group; before the combobox is     *)
(* made the input takes any text.                                          *)
Fill(i) ==
    /\ \/ \E k \in Keys \ {rows[i].key} :
             rows' = [rows EXCEPT ![i].key = k] /\ UNCHANGED touched
       \/ /\ rows[i].made /\ ~rows[i].disabled
          /\ \E g \in idcGroupList \ {rows[i].group} :
                rows' = [rows EXCEPT ![i].text = g, ![i].group = g, ![i].want = g]
          /\ Touch(i)
       \/ /\ ~rows[i].made /\ ~rows[i].disabled
          /\ rows' = [rows EXCEPT ![i].text = "free"] /\ Touch(i)
    /\ UNCHANGED <<dialog, count, idcGroupList, asks, posts, server>>

(* checkIsRepeated, where TRUE says that no two rows are the same          *)
CheckIsRepeated == \A i, j \in DOMAIN rows : i # j => rows[i].key # rows[j].key

(* OK: the rules (empty, idc_not_null), then the rows as they are now.     *)
Submit ==
    /\ dialog = "module" /\ Cardinality(posts) < MaxPosts
    /\ \A i \in DOMAIN rows : rows[i].key # None /\ (rows[i].on => rows[i].text # "")
    /\ CheckIsRepeated
    /\ posts' = posts \cup {rows}
    /\ UNCHANGED <<dialog, rows, count, idcGroupList, asks, touched, server>>

SubmitGroup ==
    /\ dialog = "group" /\ Cardinality(posts) < MaxPosts
    /\ posts' = posts \cup {<<>>}
    /\ UNCHANGED <<dialog, rows, count, idcGroupList, asks, touched, server>>

Cancel ==
    /\ dialog # None /\ dialog' = None
    /\ UNCHANGED <<rows, count, idcGroupList, asks, posts, touched, server>>

-----------------------------------------------------------------------------
(* getIdcGroupList, the answer: the list, or none if the request failed.   *)
(* A row that is gone is made a combobox where nobody sees it.             *)
ListCame ==
    /\ \E a \in asks, list \in {{}, Groups} :
          /\ asks' = asks \ {a}
          /\ idcGroupList' = list
          /\ rows' = [i \in DOMAIN rows |-> IF i = a.row THEN Combobox(rows[i], list, a.value)
                                            ELSE rows[i]]
    /\ UNCHANGED <<dialog, count, posts, touched, server>>

(* The store changes and the page does not hear of it: somebody else's     *)
(* addition, or one of its own that fails halfway, or whose answer is lost.*)
StoreChanges ==
    /\ store < MaxVersion /\ store' = store + 1
    /\ UNCHANGED <<dialog, rows, count, idcGroupList, asks, posts, searches, page, known,
                   touched, overtaken>>

(* The answer to an addition: the dialog of its kind is closed, whatever   *)
(* it is used for by now, and the page is asked for.  An error only tells. *)
PostCame ==
    /\ \E p \in posts, ok \in BOOLEAN :
          /\ posts' = posts \ {p}
          /\ IF ok
             THEN /\ store < MaxVersion /\ store' = store + 1
                  /\ searches' = searches \cup {store'} /\ known' = store'
                  /\ dialog' = IF dialog = (IF p = <<>> THEN "group" ELSE "module") THEN None
                               ELSE dialog
             ELSE UNCHANGED <<store, searches, known, dialog>>
    /\ UNCHANGED <<rows, count, idcGroupList, asks, page, touched, overtaken>>

(* search and renderTable: what the server has, or an error.               *)
SearchCame ==
    /\ \E s \in searches :
          /\ searches' = searches \ {s}
          /\ page' \in (s .. store) \cup {None}
          /\ overtaken' = (overtaken \/ \E r \in searches : r < s)
    /\ UNCHANGED <<dialog, rows, count, idcGroupList, asks, posts, store, known, touched>>

OnRow(i) == Copy(i) \/ Del(i) \/ EnableIdcGroup(i) \/ Fill(i)

Next ==
    \/ AddServiceGroup \/ AddModule \/ Submit \/ SubmitGroup \/ Cancel
    \/ dialog = "module" /\ \E i \in DOMAIN rows : OnRow(i)
    \/ ListCame \/ StoreChanges \/ PostCame \/ SearchCame

Spec == Init /\ [][Next]_vars

-----------------------------------------------------------------------------
(* What is posted of a module is what its form was given: no two ports are *)
(* the same, a port with an IDC group has the one it was cloned with or    *)
(* the one the user took, and a port without has none -- unless the row,   *)
(* or the one it is a copy of, was changed while its request for the list  *)
(* was under way (addModule, addPortConfTr, getIdcGroupList).              *)
PostedAsGiven ==
    \A p \in posts :
        /\ \A i, j \in DOMAIN p : i # j => p[i].key # p[j].key
        /\ \A i \in DOMAIN p \ touched :
              p[i].group = IF p[i].on THEN p[i].want ELSE ""

(* With no request under way the page shows an error, or service groups    *)
(* that the server had when the page last heard of a change, or later ones,*)
(* unless an answer was overtaken (search).                                *)
PageIsNewest == searches = {} /\ ~overtaken => page \in (known .. store) \cup {None}

(* What every step keeps.  A row that was left alone while it waited has   *)
(* the group it asked with, or none that the list knows, and a row without *)
(* a combobox waits.  The last known version is on the page or asked for.  *)
AsGiven(row) ==
    /\ row.disabled = ~row.on
    /\ ~row.on => row.group = "" /\ row.want = ""
    /\ row.made => row.text = row.group /\ row.group \in {row.want, ""}
    /\ ~row.made => row.text = "" /\ row.group = ""
Inv ==
    /\ TypeOK /\ PostedAsGiven /\ PageIsNewest
    /\ \A i \in DOMAIN rows :
          /\ i <= count /\ (~rows[i].made => Asked(i))
          /\ rows[i].made => idcGroupList # None
          /\ i \notin touched => /\ AsGiven(rows[i])
                                 /\ \A a \in asks : a.row = i => a.value = rows[i].want
    /\ \A a \in asks : a.row <= count
    /\ \A i \in touched : i <= count
    /\ searches \subseteq 0 .. known
    /\ ~overtaken => known \in searches \/ (searches = {} /\ page \in (known .. store) \cup {None})
=============================================================================
