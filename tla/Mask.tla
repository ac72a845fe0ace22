-------------------------------- MODULE Mask --------------------------------
(***************************************************************************)
(* Masks over the page or over an element: cloudJs/js/mask.js, and         *)
(* js/util.js, which masks the page.  A mask is numbered in the order in   *)
(* which it was appended to the page.  An element keeps the class          *)
(* mask_<id> of its mask until that id is destroyed, whoever destroyed the *)
(* mask.  A jQuery set is taken to be one element.                         *)
(***************************************************************************)
EXTENDS Naturals, FiniteSetsExt, Functions

CONSTANTS
    Eles,       \* elements of the page
    Ids, NoId,  \* option maskId, which may be missing
    MaxMasks    \* bound on the masks made

VARIABLES
    masks,      \* the masks in the page: number -> id
    made,       \* masks made so far
    disabled,   \* elements with the class mask_disabled
    label,      \* their classes mask_<id>
    maskEle,    \* the mask an element was given last (0: none)
    quiet,      \* history: elements disabled without a mask (modal: false)
    freed       \* history: elements under a mask when the id of an older one went

vars == <<masks, made, disabled, label, maskEle, quiet, freed>>

TypeOK ==
    /\ made \in 0 .. MaxMasks /\ DOMAIN masks \subseteq 1 .. made
    /\ \A m \in DOMAIN masks : masks[m] \in Ids \cup {NoId}
    /\ disabled \subseteq Eles /\ quiet \subseteq disabled /\ freed \subseteq Eles
    /\ label \in [Eles -> SUBSET Ids] /\ maskEle \in [Eles -> 0 .. made]

Init ==
    /\ masks = <<>> /\ made = 0 /\ disabled = {} /\ quiet = {} /\ freed = {}
    /\ label = [e \in Eles |-> {}] /\ maskEle = [e \in Eles |-> 0]

Taken(id) == \E m \in DOMAIN masks : masks[m] = id

(* A new mask at the end of a page that has those of ms                    *)
AppendMask(ms, id) ==
    /\ made < MaxMasks /\ made' = made + 1
    /\ masks' = [m \in DOMAIN ms \cup {made'} |-> IF m = made' THEN id ELSE ms[m]]

(* cloudjs.mask: over the page, whatever is there already                  *)
MaskPage(id) == AppendMask(masks, id) /\ UNCHANGED <<disabled, label, maskEle, quiet, freed>>

(* cloudjs(ele).mask: not if it is disabled, nor if the id is taken        *)
MaskEle(e, id, modal) ==
    /\ e \notin disabled /\ (id # NoId => ~Taken(id))
    /\ disabled' = disabled \cup {e}
    /\ label' = [label EXCEPT ![e] = @ \cup ({id} \ {NoId})]
    /\ IF modal
       THEN AppendMask(masks, id) /\ maskEle' = [maskEle EXCEPT ![e] = made'] /\ UNCHANGED quiet
       ELSE quiet' = quiet \cup {e} /\ UNCHANGED <<masks, made, maskEle>>
    /\ UNCHANGED freed

(* Mutant: the mask stays in the page.                                     *)
DestroyEleOnly(e) ==
    /\ disabled' = disabled \ {e} /\ quiet' = quiet \ {e}
    /\ UNCHANGED <<masks, made, label, maskEle, freed>>

(* cloudjs(ele).mask('destroy')                                            *)
DestroyEle(e) ==
    /\ masks' = Restrict(masks, DOMAIN masks \ {maskEle[e]})
    /\ disabled' = disabled \ {e} /\ quiet' = quiet \ {e}
    /\ UNCHANGED <<made, label, maskEle, freed>>

(* cloudjs.mask('destroy'), which is Util.hideMask                         *)
DestroyAll ==
    /\ masks' = <<>> /\ disabled' = {} /\ quiet' = {}
    /\ UNCHANGED <<made, label, maskEle, freed>>

(* cloudjs.mask('destroy', id): the first mask of that id, and all that    *)
(* bear its class                                                          *)
DestroyId(id) ==
    LET first == IF Taken(id) THEN {Min({m \in DOMAIN masks : masks[m] = id})} ELSE {}
        marked == {e \in Eles : id \in label[e]}
    IN  /\ masks' = Restrict(masks, DOMAIN masks \ first)
        /\ disabled' = disabled \ marked /\ quiet' = quiet \ marked
        /\ label' = [e \in Eles |-> label[e] \ {id}]
        /\ freed' = freed \cup {e \in marked : maskEle[e] \in DOMAIN masks'}
        /\ UNCHANGED <<made, maskEle>>

(* Util.showMask: one mask over the page, in place of all that are there   *)
ShowMask ==
    /\ AppendMask(<<>>, NoId) /\ disabled' = {} /\ quiet' = {}
    /\ UNCHANGED <<label, maskEle, freed>>

Next ==
    \/ \E id \in Ids \cup {NoId} : MaskPage(id)
    \/ \E e \in Eles, id \in Ids \cup {NoId}, modal \in BOOLEAN : MaskEle(e, id, modal)
    \/ \E e \in Eles : DestroyEle(e)
    \/ \E id \in Ids : DestroyId(id)
    \/ DestroyAll \/ ShowMask

Spec == Init /\ [][Next]_vars

-----------------------------------------------------------------------------
(* An element is disabled exactly while its mask is in the page, whichever *)
(* of the three ways took the mask away and whatever else was masked in    *)
(* the meantime -- unless it was freed by the id of an older mask of its   *)
(* own (_init, _destroy).                                                  *)
DisabledWhileMasked ==
    \A e \in Eles \ freed : maskEle[e] \in DOMAIN masks <=> e \in disabled \ quiet

(* What every step keeps.  No two elements have one mask, and an element   *)
(* has the class of its mask's id.                                         *)
Inv ==
    /\ TypeOK /\ DisabledWhileMasked
    /\ \A d, e \in Eles : maskEle[d] = maskEle[e] => d = e \/ maskEle[e] = 0
    /\ \A e \in Eles \ freed :
          maskEle[e] \in DOMAIN masks => masks[maskEle[e]] \in label[e] \cup {NoId}
=============================================================================
