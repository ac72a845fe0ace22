------------------------------- MODULE Paging -------------------------------
(***************************************************************************)
(* Tables in pages: the pager of cloudJs/js/paging.js and the table of     *)
(* cloudJs/js/table.js, which holds a copy of it.  A page is asked from    *)
(* the server or cut from data that is there ("static").  The page asked   *)
(* last (_pageNum) and the page shown are two numbers, and the buttons     *)
(* count from the first but are enabled by the second.                     *)
(***************************************************************************)
EXTENDS Naturals, Integers, Sequences, FiniteSets, SequencesExt

CONSTANTS
    Count,          \* rows there are
    Sizes,          \* page sizes a user types
    MaxNum,         \* page numbers a user types are 0 .. MaxNum, and a bound
                    \* on those reached by the buttons
    VisiblePages,   \* option visiblePages
    MaxRequests     \* bound on requests under way

VARIABLES
    kind,       \* "paging", "table" or "static"
    pager,      \* pageSize, pageNum: the variables of the closure;
                \* visible: _visiblePages
    shown,      \* s, n: what the pager was rendered for; rows: positions of
                \* the rows in the table; alive: it has handlers
    held,       \* the page _dataList holds, for tables that are not static
    requests,   \* sizes and numbers asked for, in order
    hurried     \* history: a click before the answer to the last one, or an
                \* answer that never came

vars == <<kind, pager, shown, held, requests, hurried>>

Least(a, b) == IF a < b THEN a ELSE b
Pages(s) == (Count + s - 1) \div s
RowsOf(s, n) == {r \in 1 .. Count : (n - 1) * s < r /\ r <= n * s}

TypeOK ==
    /\ kind \in {"paging", "table", "static"} /\ hurried \in BOOLEAN
    /\ pager \in [pageSize : Sizes \cup {0}, pageNum : -1 .. MaxNum, visible : 0 .. VisiblePages]
    /\ shown \in [s : Sizes, n : 0 .. MaxNum, rows : SUBSET (1 .. Count), alive : BOOLEAN]
    /\ held \in [s : Sizes, n : 1 .. MaxNum]
    /\ requests \in Seq([s : Sizes, n : 1 .. MaxNum]) /\ Len(requests) <= MaxRequests

-----------------------------------------------------------------------------
(* _verify: a size below 1 is refused, a number below 1 is 1.              *)
Verify(s, n) == CASE s < 1 -> 0 [] s >= 1 /\ n < 1 -> 1 [] OTHER -> n

(* _getPagesArr: the numbers offered, 0 for the dots between them.         *)
Before(from) == CASE from > 2 -> <<1, 0>> [] from = 2 -> <<1>> [] OTHER -> <<>>
After(upto, total) ==
    CASE upto < total - 1 -> <<0, total>> [] upto = total - 1 -> <<total>> [] OTHER -> <<>>
GetPagesArr(n, total, visible) ==
    LET half == visible \div 2
        a    == n - half + 1 - (visible % 2)
        z    == IF a < 1 THEN visible ELSE n + half
        from == IF z > total THEN 1 + total - visible ELSE IF a < 1 THEN 1 ELSE a
        upto == IF z > total THEN total ELSE z
    IN  IF visible = 0 THEN <<>>
        ELSE Before(from) \o [i \in 1 .. upto - from + 1 |-> from + i - 1] \o After(upto, total)

(* _renderHtml of the pager: the number of visible pages only ever shrinks.*)
Shrunk(s) == [pager EXCEPT !.visible = Least(@, Pages(s))]

(* Mutant: pages are counted from zero.                                    *)
CutRowsFromZero(p) == (p.pageNum * p.pageSize + 1) .. (p.pageNum * p.pageSize + p.pageSize)

(* _getTbodyArray of a page cut from all data, and of a page received.     *)
CutRows(p) == LET start == (p.pageNum - 1) * p.pageSize
                  limit == IF Count < p.pageNum * p.pageSize THEN Count % p.pageSize
                           ELSE p.pageSize
              IN  (start + 1) .. (start + limit)
HeldRows(h, p) ==
    {r \in RowsOf(h.s, h.n) : Cardinality({q \in RowsOf(h.s, h.n) : q < r}) < p.pageSize}

(* _renderHtml of the table.  Rows that do not exist throw: the pager is   *)
(* new, the rows are old, and nothing gets a handler.                      *)
RenderHtml(p, s, n) ==
    LET rows == IF kind = "static" THEN CutRows(p) ELSE HeldRows(held', p) IN
    IF rows \subseteq 1 .. Count
    THEN shown' = [s |-> s, n |-> n, rows |-> rows, alive |-> TRUE]
    ELSE shown' = [shown EXCEPT !.s = s, !.n = n, !.alive = FALSE]

Init ==
    /\ kind \in {"paging", "table", "static"}
    /\ \E s \in Sizes :
          /\ pager = [pageSize |-> s, pageNum |-> 1, visible |-> Least(VisiblePages, Pages(s))]
          /\ shown = [s |-> s, n |-> 1, rows |-> RowsOf(s, 1), alive |-> TRUE]
          /\ held = [s |-> s, n |-> 1]
    /\ requests = <<>> /\ hurried = FALSE

-----------------------------------------------------------------------------
(* _init and _ajaxFunc: data that is there is rendered at once, anything   *)
(* else is asked for.                                                      *)
AjaxFunc(p) ==
    LET n == Verify(p.pageSize, p.pageNum) IN
    CASE n = 0 -> pager' = p /\ UNCHANGED <<shown, held, requests, hurried>>
      [] n # 0 /\ kind = "static" ->
            /\ pager' = [p EXCEPT !.visible = Least(@, Pages(p.pageSize))]
            /\ UNCHANGED <<held, requests, hurried>>
            /\ RenderHtml(p, p.pageSize, n)
      [] OTHER ->
            /\ pager' = p
            /\ n <= MaxNum /\ Len(requests) < MaxRequests
            /\ requests' = Append(requests, [s |-> p.pageSize, n |-> n])
            /\ hurried' = (hurried \/ requests # <<>>)
            /\ UNCHANGED <<shown, held>>

(* The buttons first, prev, next and last, and the numbers: the first two  *)
(* are dead on the first page shown, the other two on the last.            *)
Offered ==
    LET last == Pages(shown.s) IN
    (IF shown.n # 1 THEN {1, pager.pageNum - 1} ELSE {})
    \cup (IF shown.n # last THEN {last, pager.pageNum + 1} ELSE {})
    \cup (ToSet(GetPagesArr(shown.n, last, pager.visible)) \ {0, shown.n})

ClickPage ==
    /\ shown.alive
    /\ \E n \in Offered \cap (-1 .. MaxNum) : AjaxFunc([pager EXCEPT !.pageNum = n])
    /\ UNCHANGED kind

(* _reinit: size and number typed.  A table with a size of 0 is left out.  *)
Reinit ==
    /\ shown.alive
    /\ \E s \in Sizes \cup (IF kind = "paging" THEN {0} ELSE {}), n \in 0 .. MaxNum :
          AjaxFunc([pager EXCEPT !.pageSize = s, !.pageNum = n])
    /\ UNCHANGED kind

Answer ==
    /\ \E i \in DOMAIN requests : LET r == requests[i] IN
          /\ requests' = RemoveAt(requests, i)
          /\ held' = r
          /\ pager' = Shrunk(r.s)
          /\ IF kind = "paging" THEN shown' = [s |-> r.s, n |-> r.n, rows |-> RowsOf(r.s, r.n),
                                               alive |-> TRUE]
             ELSE RenderHtml(pager, r.s, r.n)
    /\ UNCHANGED <<kind, hurried>>

(* post has no handler of errors.                                          *)
Lost ==
    /\ requests # <<>> /\ requests' = Tail(requests) /\ hurried' = TRUE
    /\ UNCHANGED <<kind, pager, shown, held>>

(* _bindSortEvent: the rows there are change their order, and the table is *)
(* rendered for the page asked last.                                       *)
Sort ==
    /\ kind # "paging" /\ pager.pageNum >= 0
    /\ UNCHANGED <<kind, held, requests>>
    /\ pager' = Shrunk(pager.pageSize)
    /\ hurried' = (hurried \/ requests # <<>>)
    /\ RenderHtml(pager, pager.pageSize, pager.pageNum)

Next == ClickPage \/ Reinit \/ Answer \/ Lost \/ Sort

Spec == Init /\ [][Next]_vars

-----------------------------------------------------------------------------
(* The rows in the table are those of the page the pager names, and a user *)
(* who waits for the answers is on the page asked last, whatever sizes and *)
(* numbers are typed (_verify, _renderHtml, _reinit).                      *)
RowsMatchPage ==
    ~hurried /\ shown.alive =>
        /\ shown.rows = RowsOf(shown.s, IF shown.n = 0 THEN 1 ELSE shown.n)
        /\ requests = <<>> /\ pager.pageSize > 0 => shown.n \in {Verify(1, pager.pageNum),
                                                                 pager.pageNum}

(* The numbers offered ascend, begin with the first page, end with the     *)
(* last and have the current one among them; dots stand for what is left   *)
(* out (_getPagesArr, for every page, number of pages and option).         *)
NumbersLeadEverywhere ==
    LET total == Pages(shown.s)
        arr   == GetPagesArr(shown.n, total, Least(pager.visible, total))
    IN  shown.n \in 1 .. total /\ pager.visible > 0 =>
            /\ arr[1] = 1 /\ Last(arr) = total /\ shown.n \in ToSet(arr)
            /\ \A i \in 1 .. Len(arr) - 1 :
                  IF 0 \in {arr[i], arr[i + 1]} THEN arr[i] # arr[i + 1]
                  ELSE arr[i + 1] = arr[i] + 1
            /\ \A i \in DOMAIN arr : arr[i] = 0 => arr[i + 1] > arr[i - 1] + 1
=============================================================================
