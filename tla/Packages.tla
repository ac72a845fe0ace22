------------------------------ MODULE Packages ------------------------------
(***************************************************************************)
(* The page of the packages for agents: pages/ftl/package/js/manage.js and *)
(* the frame that takes the answer to an upload,                           *)
(* pages/iframe/js/upload_back.js.  One mask covers the page while the     *)
(* server works; each answer takes away whatever mask is there.            *)
(***************************************************************************)
EXTENDS Naturals, FiniteSets, Functions

CONSTANTS
    Packages, Types,
    None,
    MaxUploads  \* bound on clicks on the button that uploads

VARIABLES
    type,       \* the server's packages: their type, or None
    rows,       \* the rows of the page: package -> type
    mask,       \* Util.showMask
    calls,      \* requests under way
    question,   \* the package of the question "delete it?", or None
    edit,       \* the dialog that edits a package, or None
    uploadDlg,  \* $uploadDlg: the element made last
    loading,    \* elements whose content is under way
    blank,      \* elements that have no content: it is under way, or was not to be had
    open,       \* the dialog of $uploadDlg: None, "page", or "over" a mask
    reload,     \* the page is loaded again within a second
    hurried,    \* history: something was begun while a dialog's content was under way
    stuck       \* history: no answer will come that takes the mask away

vars == <<type, rows, mask, calls, question, edit, uploadDlg, loading, blank, open, reload,
          hurried, stuck>>

Call == [op : {"delete", "update", "upload"}, pkg : Packages, type : Types]

TypeOK ==
    /\ type \in [Packages -> Types \cup {None}]
    /\ DOMAIN rows \subseteq Packages /\ \A p \in DOMAIN rows : rows[p] \in Types
    /\ mask \in BOOLEAN /\ calls \subseteq Call
    /\ {question, edit} \subseteq [pkg : Packages, type : Types] \cup {None}
    /\ uploadDlg \in 0 .. MaxUploads /\ loading \subseteq blank /\ blank \subseteq 1 .. uploadDlg
    /\ open \in {None, "page", "over"}
    /\ reload \in BOOLEAN /\ hurried \in BOOLEAN /\ stuck \in BOOLEAN

(* The page is sent with the rows of what is stored, and begins anew.      *)
Fresh ==
    /\ rows' = Restrict(type', {p \in Packages : type'[p] # None})
    /\ mask' = FALSE /\ calls' = {} /\ question' = None /\ edit' = None
    /\ uploadDlg' = 0 /\ loading' = {} /\ blank' = {} /\ open' = None /\ reload' = FALSE
    /\ hurried' = FALSE /\ stuck' = FALSE

Init ==
    /\ type \in [Packages -> Types \cup {None}]
    /\ rows = Restrict(type, {p \in Packages : type[p] # None})
    /\ mask = FALSE /\ calls = {} /\ question = None /\ edit = None
    /\ uploadDlg = 0 /\ loading = {} /\ blank = {} /\ open = None /\ reload = FALSE
    /\ hurried = FALSE /\ stuck = FALSE

-----------------------------------------------------------------------------
(* What the user can reach: the page if nothing modal is over it (the      *)
(* question is not), and a dialog that came up after a mask.               *)
Free == ~mask /\ edit = None /\ open = None
UploadFree == open = "over" \/ (open = "page" /\ ~mask)

(* A mask lies over all that is open.                                      *)
Begin(op, p, t) ==
    /\ calls' = calls \cup {[op |-> op, pkg |-> p, type |-> t]}
    /\ mask' = TRUE
    /\ hurried' = (hurried \/ loading # {})

(* uploadPackage: the element is global, its content is asked for.         *)
UploadPackage ==
    /\ Free /\ uploadDlg < MaxUploads
    /\ uploadDlg' = uploadDlg + 1
    /\ loading' = loading \cup {uploadDlg'} /\ blank' = blank \cup {uploadDlg'}
    /\ hurried' = (hurried \/ loading # {})
    /\ UNCHANGED <<type, rows, mask, calls, question, edit, open, reload, stuck>>

(* Any content that comes, and any error instead of it, opens the dialog   *)
(* of the last element.                                                    *)
LoadCame ==
    /\ \E l \in loading, ok \in BOOLEAN :
          /\ loading' = loading \ {l}
          /\ blank' = IF ok THEN blank \ {l} ELSE blank
    /\ open' = IF mask THEN "over" ELSE "page"
    /\ UNCHANGED <<type, rows, mask, calls, question, edit, uploadDlg, reload, hurried, stuck>>

(* upload: without its content the form is not there, nothing is found     *)
(* wrong with it and nothing is sent, but the page is masked.              *)
Upload ==
    /\ UploadFree /\ open' = "page"
    /\ IF uploadDlg \in blank
       THEN mask' = TRUE /\ stuck' = TRUE /\ UNCHANGED <<calls, hurried>>
       ELSE /\ \E p \in Packages, t \in Types : Begin("upload", p, t)
            /\ UNCHANGED stuck
    /\ UNCHANGED <<type, rows, question, edit, uploadDlg, loading, blank, reload>>

CloseUpload ==
    /\ UploadFree /\ open' = None
    /\ UNCHANGED <<type, rows, mask, calls, question, edit, uploadDlg, loading, blank, reload, hurried, stuck>>

(* del_btn: the question stands beside the button and is not modal.        *)
AskDelete(p) ==
    /\ Free /\ question' = [pkg |-> p, type |-> rows[p]]
    /\ UNCHANGED <<type, rows, mask, calls, edit, uploadDlg, loading, blank, open, reload, hurried, stuck>>

Answer(yes) ==
    /\ Free /\ question # None /\ question' = None
    /\ IF yes THEN Begin("delete", question.pkg, question.type)
       ELSE UNCHANGED <<mask, calls, hurried>>
    /\ UNCHANGED <<type, rows, edit, uploadDlg, loading, blank, open, reload, stuck>>

(* editPackage: the form is filled from the row.                           *)
EditPackage(p) ==
    /\ Free /\ edit' = [pkg |-> p, type |-> rows[p]]
    /\ UNCHANGED <<type, rows, mask, calls, question, uploadDlg, loading, blank, open, reload, hurried, stuck>>

Edit ==
    /\ edit # None /\ ~mask
    /\ \/ \E t \in Types \ {edit.type} : edit' = [edit EXCEPT !.type = t]
       \/ edit' = None
    /\ UNCHANGED <<type, rows, mask, calls, question, uploadDlg, loading, blank, open, reload, hurried, stuck>>

SubmitEdit ==
    /\ edit # None /\ ~mask /\ Begin("update", edit.pkg, edit.type)
    /\ UNCHANGED <<type, rows, question, edit, uploadDlg, loading, blank, open, reload, stuck>>

-----------------------------------------------------------------------------
(* The server: a package of c as it is afterwards                          *)
After(c) ==
    CASE c.op = "delete" -> None
      [] c.op = "update" /\ type[c.pkg] = None -> None
      [] OTHER -> c.type

(* Mutant: after an error the mask stays.                                  *)
CameWell(c, ok, done) ==
    /\ calls' = calls \ {c}
    /\ mask' = (mask /\ ~ok) /\ stuck' = FALSE
    /\ type' = IF done THEN [type EXCEPT ![c.pkg] = After(c)] ELSE type

(* An answer: done, or an error, after which it may be done all the same.  *)
(* hideMask takes the mask away.                                           *)
Came(c, ok, done) ==
    /\ calls' = calls \ {c}
    /\ mask' = FALSE /\ stuck' = FALSE
    /\ type' = IF done THEN [type EXCEPT ![c.pkg] = After(c)] ELSE type

Under == IF open = None THEN None ELSE "page"

Deleted ==
    /\ \E c \in calls, ok \in BOOLEAN, done \in BOOLEAN :
          /\ c.op = "delete" /\ (ok => done) /\ Came(c, ok, done)
          /\ rows' = IF ok THEN Restrict(rows, DOMAIN rows \ {c.pkg}) ELSE rows
    /\ open' = Under
    /\ UNCHANGED <<question, edit, uploadDlg, loading, blank, reload, hurried>>

(* The dialog stays, and can be used again, until the page is loaded.      *)
Updated ==
    /\ \E c \in calls, ok \in BOOLEAN, done \in BOOLEAN :
          /\ c.op = "update" /\ (ok => done) /\ Came(c, ok, done)
          /\ reload' = (reload \/ ok)
    /\ open' = Under
    /\ UNCHANGED <<rows, question, edit, uploadDlg, loading, blank, hurried>>

UploadCallback ==
    /\ \E c \in calls, ok \in BOOLEAN, done \in BOOLEAN :
          /\ c.op = "upload" /\ (ok => done) /\ Came(c, ok, done)
          /\ reload' = (reload \/ ok) /\ open' = IF ok THEN None ELSE Under
    /\ UNCHANGED <<rows, question, edit, uploadDlg, loading, blank, hurried>>

(* The frame gets an error page, which calls nothing.                      *)
CallbackLost ==
    /\ \E c \in calls : c.op = "upload" /\ calls' = calls \ {c}
    /\ stuck' = TRUE
    /\ UNCHANGED <<type, rows, mask, question, edit, uploadDlg, loading, blank, open, reload, hurried>>

(* location.reload: the server may have done what was under way, or not.   *)
Reload ==
    /\ reload
    /\ type' \in {[p \in Packages |-> IF p \in {c.pkg : c \in done}
                     THEN After(CHOOSE c \in done : c.pkg = p) ELSE type[p]] : done \in SUBSET calls}
    /\ Fresh

OnRow(p) == AskDelete(p) \/ EditPackage(p)

Next ==
    \/ UploadPackage \/ LoadCame \/ Upload \/ CloseUpload
    \/ \E p \in DOMAIN rows : OnRow(p)
    \/ \E yes \in BOOLEAN : Answer(yes)
    \/ Edit \/ SubmitEdit
    \/ Deleted \/ Updated \/ UploadCallback \/ CallbackLost \/ Reload

Spec == Init /\ [][Next]_vars

-----------------------------------------------------------------------------
(* The page is masked exactly while the server works on something, and     *)
(* then on one thing: no mask stays and none goes early.  There are two    *)
(* masks that nothing takes away, that of an upload which was never        *)
(* answered and that of a dialog which has no form to upload; the user can *)
(* ask for two things at once only while the content of the dialog is      *)
(* under way (Util.showMask, hideMask and every answer).                   *)
MaskedWhileCalled ==
    \/ hurried
    \/ Cardinality(calls) <= 1 /\ mask = (calls # {} \/ stuck)

(* What every step keeps.  Content that is under way is that of a dialog   *)
(* which is not open, and nothing else is under way.                       *)
Inv ==
    /\ TypeOK /\ MaskedWhileCalled
    /\ ~hurried =>
          /\ IF mask /\ ~stuck THEN \E c \in calls : calls = {c} ELSE calls = {}
          /\ stuck => mask
          /\ loading # {} => loading = {uploadDlg} /\ open = None /\ ~mask
          /\ open # "over"
=============================================================================
