----------------------------- MODULE LoaderProofs -----------------------------
(***************************************************************************)
(* Proofs about what covers the page of the website and has to go again,   *)
(* for any dialogs and any number of messages: dialogs with the layers     *)
(* under them and the scroll bars they take away (Dialog), and messages    *)
(* (Message).  Then about the callbacks of the loader of files             *)
(* (OdflLoader), for any files, components and number of calls.            *)
(***************************************************************************)
EXTENDS MCLoader, Sequences, FiniteSetTheorems, TLAPS

Has(d, kind) == \E i \in DOMAIN fx[d] : fx[d][i] = kind

(* A layer is shown under its dialog, but for that of a dialog which was   *)
(* given options after it was closed, and below all z-indexes to come.     *)
LayersBelow ==
    \A d \in Dialogs :
        /\ dlg[d].layer = "shown" /\ ~dlg[d].alone => dlg[d].vis /\ dlg[d].layerZ < dlg[d].z
        /\ dlg[d].layerZ <= zTop
        /\ dlg[d].full => dlg[d].vis
        /\ dlg[d].vis => dlg[d].made

(* Whoever hides the scroll bars of the page is still there to give them   *)
(* back: a dialog in full screen, or an animation on its way back.         *)
Unhidden ==
    ~cut => /\ \A d \in Dialogs : dlg[d].saved = "auto"
            /\ over = "hidden" => \E d \in Dialogs : dlg[d].full \/ Has(d, "back")
            /\ \A d \in Dialogs : \A i \in DOMAIN fx[d] :
                  fx[d][i] = "full" =>
                      \/ dlg[d].full
                      \/ \E j \in DOMAIN fx[d] : i < j /\ fx[d][j] = "back"

DialogInv == Dialog!TypeOK /\ LayersBelow /\ Unhidden

Msgs == [at : {"shown", "fading", "gone"}, id : Ids \cup {NoId},
         lasts : BOOLEAN, icon : BOOLEAN, _msgBox : BOOLEAN]

(* Of the messages of the pages one at most has not begun to go.           *)
OneShown == \A m, n \in shows :
                message[m].at = "shown" /\ message[n].at = "shown" => m = n

MessageInv ==
    /\ \E k \in 0 .. MaxMessages :
          /\ message \in [1 .. k -> Msgs]
          /\ timers \subseteq 1 .. k /\ triggers \subseteq 1 .. k
          /\ resizes \subseteq 1 .. k /\ shows \subseteq 1 .. k
    /\ OneShown

-----------------------------------------------------------------------------
(* A set of numbers with an upper bound has a largest.                     *)
LEMMA Largest ==
    ASSUME NEW M \in Nat, NEW S \in SUBSET (0 .. M), S # {}
    PROVE  \E n \in S : \A m \in S : m <= n
<1> DEFINE F == {n .. M : n \in S}
           U == UNION F
<1>1. F # {} /\ F \subseteq FiniteSubsetsOf(U)
    <2>1. \A n \in S : IsFiniteSet(n .. M)
        BY FS_Interval
    <2>2. \A A \in F : IsFiniteSet(A)
        BY <2>1
    <2> QED
        BY <2>2 DEF FiniteSubsetsOf
<1>2. PICK A \in F : \A T \in F : ~ (<<T, A>> \in StrictSubsetOrdering(U))
    BY <1>1, FS_StrictSubsetOrderingWellFounded, WFMin
<1>3. \A T \in F : T \subseteq A => T = A
    BY <1>1, <1>2 DEF StrictSubsetOrdering, FiniteSubsetsOf
<1>4. PICK n \in S : A = n .. M
    OBVIOUS
<1>5. ASSUME NEW m \in S, n < m
      PROVE  FALSE
    <2>1. m .. M \subseteq n .. M /\ n \in n .. M /\ n \notin m .. M
        BY <1>5
    <2> QED
        BY <1>3, <1>4, <2>1
<1> QED
    BY <1>5

(* What an animation that begins, and one that ends, do to those of one    *)
(* dialog.                                                                 *)
LEMMA Appended ==
    ASSUME NEW S, NEW q \in Seq(S), NEW x \in S
    PROVE  /\ Append(q, x) \in Seq(S)
           /\ DOMAIN q = 1 .. Len(q) /\ Len(q) \in Nat
           /\ DOMAIN Append(q, x) = 1 .. Len(q) + 1
           /\ \A i \in DOMAIN q : Append(q, x)[i] = q[i]
           /\ Append(q, x)[Len(q) + 1] = x
    OBVIOUS

LEMMA Ended ==
    ASSUME NEW S, NEW q \in Seq(S), q # <<>>
    PROVE  /\ Tail(q) \in Seq(S)
           /\ Head(q) = q[1] /\ Head(q) \in S
           /\ DOMAIN q = 1 .. Len(q) /\ Len(q) \in Nat \ {0}
           /\ DOMAIN Tail(q) = 1 .. Len(q) - 1
           /\ \A i \in DOMAIN Tail(q) : Tail(q)[i] = q[i + 1]
    OBVIOUS

Kinds == {"open", "full", "back"}
DialogObjs == [made : BOOLEAN, vis : BOOLEAN, full : BOOLEAN, z : 0 .. MaxZ,
               layer : {"none", "hidden", "shown"}, layerZ : 0 .. MaxZ,
               saved : {"auto", "hidden"}, modal : BOOLEAN, due : BOOLEAN, alone : BOOLEAN]

LEMMA NoDialogYet ==
    /\ Dialog!NoDialog \in DialogObjs
    /\ ~Dialog!NoDialog.full /\ ~Dialog!NoDialog.vis /\ ~Dialog!NoDialog.made
    /\ Dialog!NoDialog.layer = "none" /\ Dialog!NoDialog.layerZ = 0
    /\ Dialog!NoDialog.saved = "auto"
    BY LoaderAssumption DEF Dialog!NoDialog, DialogObjs

LEMMA DialogInit == Dialog!Init => DialogInv
<1> SUFFICES ASSUME Dialog!Init
             PROVE  DialogInv
    OBVIOUS
<1>1. dlg \in [Dialogs -> DialogObjs] /\ \A d \in Dialogs : dlg[d] = Dialog!NoDialog
    BY LoaderAssumption DEF Dialog!Init, Dialog!NoDialog, DialogObjs
<1>2. fx \in [Dialogs -> Seq(Kinds)] /\ \A d \in Dialogs : fx[d] = <<>>
    BY DEF Dialog!Init, Kinds
<1>0. /\ zTop \in 0 .. MaxZ /\ removed \in Nat /\ over \in {"auto", "hidden"}
      /\ animating = FALSE /\ cut = FALSE
    BY LoaderAssumption DEF Dialog!Init
<1>3. Dialog!TypeOK
    BY <1>0, <1>1, <1>2 DEF Dialog!TypeOK, DialogObjs, Kinds
<1>4. LayersBelow
    BY <1>1 DEF Dialog!Init, LayersBelow, Dialog!NoDialog
<1>5. Unhidden
    BY <1>1, <1>2 DEF Dialog!Init, Unhidden, Dialog!NoDialog
<1> QED
    BY <1>3, <1>4, <1>5 DEF DialogInv

(* What dialogs and animations are in every state of the invariant.        *)
LEMMA DialogTypes ==
    ASSUME DialogInv
    PROVE  /\ zTop \in 0 .. MaxZ /\ over \in {"auto", "hidden"}
           /\ dlg \in [Dialogs -> DialogObjs] /\ fx \in [Dialogs -> Seq(Kinds)]
    BY DEF DialogInv, Dialog!TypeOK, DialogObjs, Kinds

(* The type of the state after a step, from its parts.                     *)
LEMMA DialogTyped ==
    ASSUME zTop' \in 0 .. MaxZ, over' \in {"auto", "hidden"}, removed' \in Nat,
           animating' \in BOOLEAN, cut' \in BOOLEAN,
           dlg' \in [Dialogs -> DialogObjs], fx' \in [Dialogs -> Seq(Kinds)]
    PROVE  Dialog!TypeOK'
    BY DEF Dialog!TypeOK, DialogObjs, Kinds

(* _showLayer and _hideLayer: what becomes of a dialog and its layer.      *)
LEMMA Layered ==
    ASSUME NEW o \in DialogObjs, o.z \in 1 .. MaxZ, NEW modal \in BOOLEAN
    PROVE  LET q == Dialog!SetModal(o, modal)
           IN  /\ q \in DialogObjs
               /\ q.made = o.made /\ q.vis = o.vis /\ q.full = o.full /\ q.z = o.z
               /\ q.saved = o.saved /\ q.alone = o.alone
               /\ q.layerZ = o.layerZ \/ q.layerZ = o.z - 1
               /\ q.layer = "shown" => modal
<1> USE LoaderAssumption DEF DialogObjs
<1>1. CASE modal /\ o.layer = "none"
    <2>1. Dialog!SetModal(o, modal) = [o EXCEPT !.layer = "shown", !.layerZ = o.z - 1]
        BY <1>1 DEF Dialog!SetModal
    <2>2. o.z - 1 \in 0 .. MaxZ
        OBVIOUS
    <2> QED
        BY <1>1, <2>1, <2>2
<1>2. CASE modal /\ o.layer # "none"
    <2>1. Dialog!SetModal(o, modal) = [o EXCEPT !.layer = "shown"]
        BY <1>2 DEF Dialog!SetModal
    <2> QED
        BY <1>2, <2>1
<1>3. CASE ~modal
    <2>1. Dialog!SetModal(o, modal) =
              [o EXCEPT !.layer = IF @ = "none" THEN @ ELSE "hidden"]
        BY <1>3 DEF Dialog!SetModal
    <2> QED
        BY <1>3, <2>1
<1> QED
    BY <1>1, <1>2, <1>3

(* What a dialog has running after a call that shows it.                   *)
LEMMA Animated ==
    ASSUME DialogInv, NEW d \in Dialogs, NEW kind \in Kinds,
           Dialog!Animate(d, kind)
    PROVE  /\ animating' \in BOOLEAN /\ fx' \in [Dialogs -> Seq(Kinds)]
           /\ fx' = [fx EXCEPT ![d] = Append(fx[d], kind)]
    BY DialogTypes, Appended DEF Dialog!Animate

LEMMA OpenStep ==
    ASSUME DialogInv, NEW d \in Dialogs, NEW modal \in BOOLEAN, NEW animate \in BOOLEAN,
           Dialog!Open(d, modal, animate)
    PROVE  DialogInv'
<1> USE DialogTypes, LoaderAssumption
<1> DEFINE o == IF dlg[d].made THEN [dlg[d] EXCEPT !.full = FALSE] ELSE Dialog!GetDialogObj
           p == [o EXCEPT !.vis = TRUE, !.z = zTop + 2, !.modal = modal,
                          !.due = (d \in Large /\ ~animate), !.alone = FALSE]
           q == Dialog!SetModal(p, modal)
<1>1. /\ zTop' = zTop + 2 /\ zTop + 2 \in 0 .. MaxZ
      /\ over' = Dialog!Unfixed(d)
      /\ cut' = (cut \/ Dialog!Switching(d) \/ (~dlg[d].made /\ over = "hidden"))
      /\ removed' = removed
      /\ dlg' = [dlg EXCEPT ![d] = q]
    BY DEF Dialog!Open, Dialog!Called
<1>2. /\ o \in DialogObjs /\ o.full = FALSE /\ o.made /\ o.layerZ <= zTop
      /\ o.saved = IF dlg[d].made THEN dlg[d].saved ELSE over
    <2>1. CASE dlg[d].made
        BY <2>1, ZenonT(60) DEF DialogObjs, DialogInv, LayersBelow
    <2>2. CASE ~dlg[d].made
        <3>1. o = Dialog!GetDialogObj
            BY <2>2
        <3> HIDE DEF o
        <3>2. o.full = FALSE /\ o.layerZ = 0 /\ o.made = TRUE /\ o.saved = over
            BY <3>1, NoDialogYet DEF DialogObjs, Dialog!GetDialogObj
        <3>3. o \in DialogObjs
            BY <3>1, NoDialogYet DEF DialogObjs, Dialog!GetDialogObj
        <3> QED
            BY <2>2, <3>2, <3>3
    <2> QED
        BY <2>1, <2>2
<1> HIDE DEF o
<1>3. /\ p \in DialogObjs /\ p.full = FALSE /\ p.made /\ p.vis
      /\ p.layerZ <= zTop /\ p.z = zTop + 2 /\ p.saved = o.saved
    BY <1>1, <1>2 DEF DialogObjs
<1> HIDE DEF p
<1>4. /\ q \in DialogObjs /\ ~q.full /\ q.made /\ q.vis
      /\ q.layerZ < q.z /\ q.z = zTop + 2 /\ q.saved = o.saved
    <2>1. p.z \in 1 .. MaxZ
        BY <1>1, <1>3
    <2>2. /\ q \in DialogObjs /\ q.made = p.made /\ q.vis = p.vis /\ q.full = p.full
          /\ q.z = p.z /\ q.saved = p.saved
          /\ q.layerZ = p.layerZ \/ q.layerZ = p.z - 1
        BY <1>3, <2>1, Layered, Zenon
    <2> HIDE DEF q
    <2>3. p.layerZ \in Nat /\ zTop \in Nat
        BY <1>3 DEF DialogObjs
    <2> QED
        BY <1>3, <2>2, <2>3
<1> HIDE DEF q
<1>5. dlg' \in [Dialogs -> DialogObjs]
    BY <1>1, <1>4
<1>6. LayersBelow'
    BY <1>1, <1>4, <1>5 DEF LayersBelow, DialogInv, DialogObjs
<1>7. /\ animating' \in BOOLEAN /\ fx' \in [Dialogs -> Seq(Kinds)]
      /\ fx' = [fx EXCEPT ![d] = Append(fx[d], "open")] \/ fx' = fx
    <2>1. CASE animate
        BY <2>1, Animated DEF Dialog!Open, Kinds
    <2>2. CASE ~animate
        BY <2>2 DEF Dialog!Open, DialogInv, Dialog!TypeOK
    <2> QED
        BY <2>1, <2>2
<1>8. ASSUME ~cut' PROVE Unhidden'
    <2>1. /\ ~cut /\ (dlg[d].made \/ over # "hidden")
          /\ \A i \in DOMAIN fx[d] : fx[d][i] = "open"
        BY <1>1, <1>8 DEF Dialog!Switching
    <2>2. \A i \in DOMAIN fx'[d] : fx'[d][i] = "open"
        BY <1>7, <2>1, Appended, SMTT(60) DEF Kinds
    <2>3. \A e \in Dialogs : e # d => dlg'[e] = dlg[e] /\ fx'[e] = fx[e]
        BY <1>1, <1>7
    <2>4. o.saved = "auto" /\ dlg'[d].saved = "auto"
        BY <1>1, <1>2, <1>4, <2>1 DEF DialogInv, Unhidden
    <2>5. over' = "hidden" => over = "hidden" /\ ~dlg[d].full
        BY <1>1, <2>1 DEF Dialog!Unfixed, DialogInv, Unhidden
    <2>6. over' = "hidden" => \E e \in Dialogs \ {d} : dlg[e].full \/ Has(e, "back")
        BY <2>1, <2>5 DEF DialogInv, Unhidden, Has
    <2>7. \A e \in Dialogs : dlg'[e].saved = "auto"
        BY <2>1, <2>3, <2>4 DEF DialogInv, Unhidden
    <2>8. over' = "hidden" => \E e \in Dialogs : dlg'[e].full \/ Has(e, "back")'
        BY <2>3, <2>6 DEF Has
    <2>9. ASSUME NEW e \in Dialogs, NEW i \in DOMAIN fx'[e], fx'[e][i] = "full"
          PROVE  dlg'[e].full \/ \E j \in DOMAIN fx'[e] : i < j /\ fx'[e][j] = "back"
        <3>1. e # d
            BY <2>2, <2>9
        <3>2. dlg'[e] = dlg[e] /\ fx'[e] = fx[e]
            BY <2>3, <3>1
        <3> QED
            BY <2>1, <2>9, <3>2 DEF DialogInv, Unhidden
    <2> QED
        BY <2>7, <2>8, <2>9 DEF Unhidden
<1>9. Unhidden'
    BY <1>8 DEF Unhidden
<1>10. cut' \in BOOLEAN
    BY <1>1, Zenon
<1>11. over' \in {"auto", "hidden"}
    BY <1>1 DEF Dialog!Unfixed, DialogObjs
<1>12. removed' \in Nat
    BY <1>1 DEF DialogInv, Dialog!TypeOK
<1> QED
    BY <1>1, <1>5, <1>6, <1>7, <1>9, <1>10, <1>11, <1>12, DialogTyped DEF DialogInv

(* A dialog is given options, by the caller or by its timer.               *)
LEMMA GivenOptionsStep ==
    ASSUME DialogInv, NEW d \in Dialogs, NEW modal \in BOOLEAN, NEW b \in BOOLEAN, dlg[d].made \/ ~dlg[d].vis,
           Dialog!GivenOptions(d, [dlg[d] EXCEPT !.due = b], modal)
    PROVE  DialogInv'
<1> USE DialogTypes, LoaderAssumption
<1> DEFINE o == [dlg[d] EXCEPT !.due = b]
           p == [o EXCEPT !.full = FALSE, !.z = zTop + 2, !.modal = modal,
                          !.alone = modal /\ ~o.vis]
           q == Dialog!SetModal(p, modal)
<1>1. /\ zTop' = zTop + 2 /\ zTop + 2 \in 0 .. MaxZ
      /\ over' = Dialog!Unfixed(d) /\ cut' = (cut \/ Dialog!Switching(d))
      /\ UNCHANGED <<animating, fx, removed>>
      /\ dlg' = [dlg EXCEPT ![d] = q]
    BY DEF Dialog!GivenOptions, Dialog!Called
<1>2. /\ o \in DialogObjs /\ o.vis = dlg[d].vis /\ o.made = dlg[d].made
      /\ o.layerZ = dlg[d].layerZ /\ o.saved = dlg[d].saved
    BY DEF DialogObjs
<1>3. (modal /\ ~o.vis) \in BOOLEAN /\ dlg[d].layerZ <= zTop
    BY DEF DialogInv, LayersBelow
<1> HIDE DEF o
<1>4. /\ p \in DialogObjs /\ ~p.full /\ p.vis = dlg[d].vis /\ p.made = dlg[d].made
      /\ p.layerZ = dlg[d].layerZ /\ p.z = zTop + 2 /\ p.saved = dlg[d].saved
      /\ p.alone = (modal /\ ~o.vis)
    BY <1>1, <1>2, <1>3 DEF DialogObjs
<1> HIDE DEF p
<1>5. /\ q \in DialogObjs /\ ~q.full /\ q.vis = dlg[d].vis /\ q.made = dlg[d].made
      /\ q.saved = dlg[d].saved /\ q.z = zTop + 2
      /\ q.alone = (modal /\ ~o.vis) /\ (q.layer = "shown" => modal)
      /\ q.layerZ = dlg[d].layerZ \/ q.layerZ = zTop + 2 - 1
    <2>1. p.z \in 1 .. MaxZ
        BY <1>1, <1>4
    <2>2. /\ q \in DialogObjs /\ q.made = p.made /\ q.vis = p.vis /\ q.full = p.full
          /\ q.z = p.z /\ q.saved = p.saved /\ q.alone = p.alone
          /\ q.layerZ = p.layerZ \/ q.layerZ = p.z - 1
          /\ q.layer = "shown" => modal
        BY <1>4, <2>1, Layered, Zenon
    <2> HIDE DEF q
    <2> QED
        BY <1>4, <2>2
<1> HIDE DEF q
<1>6. /\ q.layerZ < q.z /\ q.layerZ <= zTop'
      /\ q.layer = "shown" /\ ~q.alone => q.vis
    <2>1. dlg[d].layerZ \in Nat /\ zTop \in Nat
        BY DEF DialogObjs
    <2> QED
        BY <1>1, <1>2, <1>3, <1>5, <2>1
<1>7. dlg' \in [Dialogs -> DialogObjs]
    BY <1>1, <1>5
<1>8. LayersBelow'
    <2>1. dlg[d].vis => dlg[d].made
        BY DEF DialogInv, LayersBelow
    <2> QED
        BY <1>1, <1>5, <1>6, <1>7, <2>1 DEF LayersBelow, DialogInv, DialogObjs
<1>9. ASSUME ~cut' PROVE Unhidden'
    <2>1. ~cut /\ \A i \in DOMAIN fx[d] : fx[d][i] = "open"
        BY <1>1, <1>9 DEF Dialog!Switching
    <2>2. \A e \in Dialogs : e # d => dlg'[e] = dlg[e]
        BY <1>1
    <2>3. \A e \in Dialogs : dlg'[e].saved = "auto"
        BY <1>1, <1>5, <2>1 DEF DialogInv, Unhidden
    <2>4. over' = "hidden" => over = "hidden" /\ ~dlg[d].full
        BY <1>1, <2>1 DEF Dialog!Unfixed, DialogInv, Unhidden
    <2>5. over' = "hidden" => \E e \in Dialogs : dlg'[e].full \/ Has(e, "back")'
        BY <1>1, <2>1, <2>2, <2>4 DEF DialogInv, Unhidden, Has
    <2>6. ASSUME NEW e \in Dialogs, NEW i \in DOMAIN fx[e], fx[e][i] = "full"
          PROVE  dlg'[e].full \/ \E j \in DOMAIN fx[e] : i < j /\ fx[e][j] = "back"
        BY <2>1, <2>2, <2>6 DEF DialogInv, Unhidden
    <2> QED
        BY <1>1, <2>3, <2>5, <2>6 DEF Unhidden
<1>10. Unhidden'
    BY <1>9 DEF Unhidden
<1>11. cut' \in BOOLEAN
    BY <1>1, Zenon
<1>12. over' \in {"auto", "hidden"}
    BY <1>1 DEF Dialog!Unfixed, DialogObjs
<1>13. removed' \in Nat /\ animating' \in BOOLEAN /\ fx' \in [Dialogs -> Seq(Kinds)]
    BY <1>1 DEF DialogInv, Dialog!TypeOK
<1> QED
    BY <1>1, <1>7, <1>8, <1>10, <1>11, <1>12, <1>13, DialogTyped DEF DialogInv

LEMMA OptionStep ==
    ASSUME DialogInv, NEW d \in Dialogs, Dialog!SetOption(d) \/ Dialog!OpenTimer(d)
    PROVE  DialogInv'
<1>0. dlg[d] \in DialogObjs /\ (dlg[d].made \/ ~dlg[d].vis)
    BY DialogTypes DEF DialogInv, LayersBelow
<1>1. CASE Dialog!SetOption(d)
    <2>1. PICK modal \in BOOLEAN : Dialog!GivenOptions(d, dlg[d], modal)
        BY <1>1 DEF Dialog!SetOption
    <2>2. dlg[d] = [dlg[d] EXCEPT !.due = dlg[d].due] /\ dlg[d].due \in BOOLEAN
        BY <1>0 DEF DialogObjs
    <2> QED
        BY <1>0, <2>1, <2>2, GivenOptionsStep
<1>2. CASE Dialog!OpenTimer(d)
    <2>1. dlg[d].modal \in BOOLEAN
        BY <1>0 DEF DialogObjs
    <2> QED
        BY <1>0, <1>2, <2>1, GivenOptionsStep DEF Dialog!OpenTimer
<1> QED
    BY <1>1, <1>2

(* A dialog that is closed, by the caller or by the user.                  *)
LEMMA ShutStep ==
    ASSUME DialogInv, NEW d \in Dialogs, Dialog!Shut(d),
           zTop' \in zTop .. MaxZ, UNCHANGED <<animating, fx, removed>>
    PROVE  DialogInv'
<1> USE DialogTypes, LoaderAssumption
<1>1. CASE dlg[d].vis
    <2> DEFINE q == Dialog!Hidden(d)
    <2>1. /\ over' = Dialog!Unfixed(d) /\ dlg' = [dlg EXCEPT ![d] = q]
          /\ cut' = (cut \/ Dialog!Switching(d))
        BY <1>1, Zenon DEF Dialog!Shut
    <2>2. /\ q \in DialogObjs /\ ~q.full /\ ~q.vis /\ q.layer # "shown"
          /\ q.layerZ = dlg[d].layerZ /\ q.saved = dlg[d].saved
        <3>1. dlg[d] \in DialogObjs /\ dlg[d].layer \in {"none", "hidden", "shown"}
            BY DEF DialogObjs
        <3>2. PICK l \in {"none", "hidden"} :
                  q = [dlg[d] EXCEPT !.vis = FALSE, !.full = FALSE, !.layer = l]
            BY <3>1 DEF Dialog!Hidden
        <3> HIDE DEF q
        <3> QED
            BY <3>1, <3>2 DEF DialogObjs
    <2> HIDE DEF q
    <2>3. LayersBelow'
        BY <2>1, <2>2 DEF LayersBelow, DialogInv, DialogObjs
    <2>4. ASSUME ~cut' PROVE Unhidden'
        <3>1. ~cut /\ \A i \in DOMAIN fx[d] : fx[d][i] = "open"
            BY <2>1, <2>4 DEF Dialog!Switching
        <3>2. \A e \in Dialogs : e # d => dlg'[e] = dlg[e]
            BY <2>1
        <3>3. \A e \in Dialogs : dlg'[e].saved = "auto"
            BY <2>1, <2>2, <3>1 DEF DialogInv, Unhidden
        <3>4. over' = "hidden" => over = "hidden" /\ ~dlg[d].full
            BY <2>1, <3>1 DEF Dialog!Unfixed, DialogInv, Unhidden
        <3>5. over' = "hidden" => \E e \in Dialogs : dlg'[e].full \/ Has(e, "back")'
            BY <3>1, <3>2, <3>4 DEF DialogInv, Unhidden, Has
        <3>6. ASSUME NEW e \in Dialogs, NEW i \in DOMAIN fx[e], fx[e][i] = "full"
              PROVE  dlg'[e].full \/ \E j \in DOMAIN fx[e] : i < j /\ fx[e][j] = "back"
            BY <3>1, <3>2, <3>6 DEF DialogInv, Unhidden
        <3> QED
            BY <3>3, <3>5, <3>6 DEF Unhidden
    <2>5. Unhidden'
        BY <2>4 DEF Unhidden
    <2>6. cut' \in BOOLEAN
        BY <2>1, Zenon
    <2>7. over' \in {"auto", "hidden"} /\ dlg' \in [Dialogs -> DialogObjs]
        BY <2>1, <2>2 DEF Dialog!Unfixed, DialogObjs
    <2>8. removed' \in Nat /\ animating' \in BOOLEAN /\ zTop' \in 0 .. MaxZ
        BY DEF DialogInv, Dialog!TypeOK
    <2> QED
        BY <2>3, <2>5, <2>6, <2>7, <2>8, DialogTyped DEF DialogInv
<1>2. CASE ~dlg[d].vis
    <2>1. UNCHANGED <<over, dlg, cut>>
        BY <1>2 DEF Dialog!Shut
    <2>2. LayersBelow'
        BY <2>1 DEF LayersBelow, DialogInv, DialogObjs
    <2>3. Unhidden'
        BY <2>1 DEF DialogInv, Unhidden, Has
    <2>4. zTop' \in 0 .. MaxZ
        OBVIOUS
    <2> QED
        BY <2>1, <2>2, <2>3, <2>4 DEF DialogInv, Dialog!TypeOK
<1> QED
    BY <1>1, <1>2

LEMMA CloseStep ==
    ASSUME DialogInv, NEW d \in Dialogs, Dialog!Close(d) \/ Dialog!CloseButton(d)
    PROVE  DialogInv'
<1>1. zTop' \in zTop .. MaxZ /\ Dialog!Shut(d) /\ UNCHANGED <<animating, fx, removed>>
    BY DialogTypes, LoaderAssumption DEF Dialog!Close, Dialog!CloseButton, Dialog!Called
<1> QED
    BY <1>1, ShutStep

LEMMA DestroyStep ==
    ASSUME DialogInv, NEW d \in Dialogs, Dialog!Destroy(d)
    PROVE  DialogInv'
<1> USE DialogTypes, LoaderAssumption
<1>1. /\ over' = Dialog!Unfixed(d) /\ dlg' = [dlg EXCEPT ![d] = Dialog!NoDialog]
      /\ cut' = (cut \/ Dialog!Switching(d)) /\ fx' = [fx EXCEPT ![d] = <<>>]
      /\ zTop' = zTop + 2 /\ zTop + 2 <= MaxZ /\ animating' = animating
      /\ removed' = removed \/ removed' = removed + 1
    BY DEF Dialog!Destroy, Dialog!Called
<1>2. LayersBelow'
    BY <1>1, NoDialogYet, SMTT(30) DEF LayersBelow, DialogInv, DialogObjs
<1>3. ASSUME ~cut' PROVE Unhidden'
    <2>1. ~cut /\ \A i \in DOMAIN fx[d] : fx[d][i] = "open"
        BY <1>1, <1>3 DEF Dialog!Switching
    <2>2. \A e \in Dialogs : e # d => dlg'[e] = dlg[e] /\ fx'[e] = fx[e]
        BY <1>1
    <2>3. \A e \in Dialogs : dlg'[e].saved = "auto"
        BY <1>1, <2>1, NoDialogYet DEF DialogInv, Unhidden
    <2>4. over' = "hidden" => over = "hidden" /\ ~dlg[d].full
        BY <1>1, <2>1 DEF Dialog!Unfixed, DialogInv, Unhidden
    <2>5. over' = "hidden" => \E e \in Dialogs : dlg'[e].full \/ Has(e, "back")'
        BY <2>1, <2>2, <2>4 DEF DialogInv, Unhidden, Has
    <2>6. ASSUME NEW e \in Dialogs, NEW i \in DOMAIN fx'[e], fx'[e][i] = "full"
          PROVE  dlg'[e].full \/ \E j \in DOMAIN fx'[e] : i < j /\ fx'[e][j] = "back"
        <3>1. e # d
            BY <1>1, <2>6
        <3> QED
            BY <2>1, <2>2, <2>6, <3>1 DEF DialogInv, Unhidden
    <2> QED
        BY <2>3, <2>5, <2>6 DEF Unhidden
<1>4. Unhidden'
    BY <1>3 DEF Unhidden
<1>5. cut' \in BOOLEAN
    BY <1>1, Zenon
<1>6. /\ over' \in {"auto", "hidden"} /\ dlg' \in [Dialogs -> DialogObjs]
      /\ fx' \in [Dialogs -> Seq(Kinds)]
    BY <1>1, NoDialogYet DEF Dialog!Unfixed, DialogObjs
<1>7. removed' \in Nat /\ animating' \in BOOLEAN /\ zTop' \in 0 .. MaxZ
    BY <1>1 DEF DialogInv, Dialog!TypeOK
<1> QED
    BY <1>2, <1>4, <1>5, <1>6, <1>7, DialogTyped DEF DialogInv

(* A dialog given another z-index, or told whether it fills the page, is   *)
(* a dialog still, and so are they all.                                    *)
LEMMA Refitted ==
    ASSUME NEW o \in DialogObjs, NEW n \in 0 .. MaxZ, NEW b \in BOOLEAN
    PROVE  /\ [o EXCEPT !.z = n] \in DialogObjs
           /\ [o EXCEPT !.full = b] \in DialogObjs
           /\ [o EXCEPT !.full = b].saved = o.saved
           /\ [o EXCEPT !.full = b].full = b
    BY DEF DialogObjs

LEMMA OneReplaced ==
    ASSUME NEW S, NEW f \in [Dialogs -> S], NEW d \in Dialogs, NEW o \in S
    PROVE  /\ [f EXCEPT ![d] = o] \in [Dialogs -> S]
           /\ [f EXCEPT ![d] = o][d] = o
           /\ \A e \in Dialogs : e # d => [f EXCEPT ![d] = o][e] = f[e]
    OBVIOUS

LEMMA RaiseStep ==
    ASSUME DialogInv, NEW d \in Dialogs, Dialog!Raise(d)
    PROVE  DialogInv'
<1> USE DialogTypes, LoaderAssumption
<1>1. /\ zTop' = zTop + 1 /\ zTop + 1 \in 0 .. MaxZ
      /\ dlg' = [dlg EXCEPT ![d].z = zTop + 1]
      /\ UNCHANGED <<animating, over, fx, removed, cut>>
    BY DEF Dialog!Raise
<1>2. dlg' \in [Dialogs -> DialogObjs]
    <2> DEFINE o == [dlg[d] EXCEPT !.z = zTop + 1]
    <2>1. o \in DialogObjs
        BY <1>1, Refitted
    <2>2. dlg' = [dlg EXCEPT ![d] = o]
        BY <1>1
    <2> HIDE DEF o
    <2> QED
        BY <2>1, <2>2, OneReplaced
<1>3. LayersBelow'
    BY <1>1, <1>2 DEF LayersBelow, DialogInv, DialogObjs
<1>4. Unhidden'
    BY <1>1 DEF DialogInv, Unhidden, Has, DialogObjs
<1> QED
    BY <1>1, <1>2, <1>3, <1>4 DEF DialogInv, Dialog!TypeOK, DialogObjs

LEMMA FullscreenStep ==
    ASSUME DialogInv, NEW d \in Dialogs, Dialog!Fullscreen(d)
    PROVE  DialogInv'
<1> USE DialogTypes, LoaderAssumption
<1>1. /\ dlg' = [dlg EXCEPT ![d].full = TRUE] /\ dlg[d].vis
      /\ UNCHANGED <<zTop, over, removed, cut>>
    BY DEF Dialog!Fullscreen, Dialog!Reachable
<1>2. /\ animating' \in BOOLEAN /\ fx' \in [Dialogs -> Seq(Kinds)]
      /\ fx' = [fx EXCEPT ![d] = Append(fx[d], "full")]
    BY Animated DEF Dialog!Fullscreen, Kinds
<1>3. /\ dlg' \in [Dialogs -> DialogObjs] /\ dlg'[d].full
      /\ \A e \in Dialogs : e # d => dlg'[e] = dlg[e] /\ fx'[e] = fx[e]
      /\ \A e \in Dialogs : dlg'[e].saved = dlg[e].saved
    <2> DEFINE o == [dlg[d] EXCEPT !.full = TRUE]
    <2>1. o \in DialogObjs /\ o.saved = dlg[d].saved /\ o.full
        BY Refitted, Zenon
    <2>2. dlg' = [dlg EXCEPT ![d] = o]
        BY <1>1
    <2> HIDE DEF o
    <2>3. /\ dlg' \in [Dialogs -> DialogObjs] /\ dlg'[d] = o
          /\ \A e \in Dialogs : e # d => dlg'[e] = dlg[e]
        BY <2>1, <2>2, OneReplaced
    <2>4. \A e \in Dialogs : e # d => fx'[e] = fx[e]
        BY <1>2
    <2> QED
        BY <2>1, <2>3, <2>4
<1>4. LayersBelow'
    BY <1>1, <1>3 DEF LayersBelow, DialogInv, DialogObjs
<1>5. ASSUME ~cut PROVE Unhidden'
    <2>1. \A e \in Dialogs : dlg'[e].saved = "auto"
        BY <1>1, <1>3, <1>5 DEF DialogInv, Unhidden
    <2>2. over' = "hidden" => \E e \in Dialogs : dlg'[e].full \/ Has(e, "back")'
        BY <1>1, <1>3, <1>5 DEF DialogInv, Unhidden, Has
    <2>3. ASSUME NEW e \in Dialogs, NEW i \in DOMAIN fx'[e], fx'[e][i] = "full"
          PROVE  dlg'[e].full \/ \E j \in DOMAIN fx'[e] : i < j /\ fx'[e][j] = "back"
        BY <1>1, <1>3, <1>5, <2>3 DEF DialogInv, Unhidden
    <2> QED
        BY <2>1, <2>2, <2>3 DEF Unhidden
<1>6. Unhidden'
    BY <1>1, <1>5 DEF Unhidden
<1>7. removed' \in Nat /\ cut' \in BOOLEAN /\ zTop' \in 0 .. MaxZ /\ over' \in {"auto", "hidden"}
    BY <1>1 DEF DialogInv, Dialog!TypeOK
<1> QED
    BY <1>2, <1>3, <1>4, <1>6, <1>7, DialogTyped DEF DialogInv

(* The ways back of one dialog, and of all that ESC reaches.               *)
LEMMA BackscreenStep ==
    ASSUME DialogInv, NEW d \in Dialogs, Dialog!Backscreen(d)
    PROVE  DialogInv'
<1> USE DialogTypes, LoaderAssumption
<1>1. /\ dlg' = [dlg EXCEPT ![d].full = FALSE] /\ over' = dlg[d].saved
      /\ UNCHANGED <<zTop, removed, cut>>
    BY DEF Dialog!Backscreen
<1>2. /\ animating' \in BOOLEAN /\ fx' \in [Dialogs -> Seq(Kinds)]
      /\ fx' = [fx EXCEPT ![d] = Append(fx[d], "back")]
    BY Animated DEF Dialog!Backscreen, Kinds
<1>3. /\ dlg' \in [Dialogs -> DialogObjs]
      /\ \A e \in Dialogs : e # d => dlg'[e] = dlg[e] /\ fx'[e] = fx[e]
      /\ \A e \in Dialogs : dlg'[e].saved = dlg[e].saved
    <2>1. dlg \in [Dialogs -> DialogObjs] /\ fx \in [Dialogs -> Seq(Kinds)]
        BY DEF DialogInv, Dialog!TypeOK, DialogObjs, Kinds
    <2> DEFINE o == [dlg[d] EXCEPT !.full = FALSE]
    <2>2. o \in DialogObjs /\ o.saved = dlg[d].saved
        BY <2>1, Refitted, Zenon
    <2>3. dlg' = [dlg EXCEPT ![d] = o]
        BY <1>1
    <2> HIDE DEF o
    <2>4. /\ dlg' \in [Dialogs -> DialogObjs] /\ dlg'[d] = o
          /\ \A e \in Dialogs : e # d => dlg'[e] = dlg[e]
        BY <2>1, <2>2, <2>3, OneReplaced
    <2>5. \A e \in Dialogs : e # d => fx'[e] = fx[e]
        BY <1>2, <2>1
    <2> QED
        BY <2>2, <2>4, <2>5
<1>4. LayersBelow'
    BY <1>1, <1>3 DEF LayersBelow, DialogInv, DialogObjs
<1>5. ASSUME ~cut PROVE Unhidden'
    <2>1. (\A e \in Dialogs : dlg'[e].saved = "auto") /\ over' # "hidden"
        BY <1>1, <1>3, <1>5 DEF DialogInv, Unhidden
    <2>2. ASSUME NEW e \in Dialogs, NEW i \in DOMAIN fx'[e], fx'[e][i] = "full"
          PROVE  dlg'[e].full \/ \E j \in DOMAIN fx'[e] : i < j /\ fx'[e][j] = "back"
        <3>1. CASE e = d
            <4>1. /\ DOMAIN fx'[d] = 1 .. Len(fx[d]) + 1
                  /\ fx'[d][Len(fx[d]) + 1] = "back" /\ Len(fx[d]) \in Nat
                BY <1>2, Appended DEF Kinds
            <4>2. i < Len(fx[d]) + 1
                BY <2>2, <3>1, <4>1
            <4> QED
                BY <3>1, <4>1, <4>2
        <3>2. CASE e # d
            BY <1>3, <1>5, <2>2, <3>2 DEF DialogInv, Unhidden
        <3> QED
            BY <3>1, <3>2
    <2> QED
        BY <2>1, <2>2 DEF Unhidden
<1>6. Unhidden'
    BY <1>1, <1>5 DEF Unhidden
<1>7. removed' \in Nat /\ cut' \in BOOLEAN /\ zTop' \in 0 .. MaxZ
    BY <1>1 DEF DialogInv, Dialog!TypeOK
<1>8. over' \in {"auto", "hidden"}
    BY <1>1 DEF DialogObjs
<1> QED
    BY <1>2, <1>3, <1>4, <1>6, <1>7, <1>8, DialogTyped DEF DialogInv

LEMMA EscapeStep ==
    ASSUME DialogInv, Dialog!Escape
    PROVE  DialogInv'
<1> USE DialogTypes, LoaderAssumption
<1> DEFINE full == {d \in Dialogs : dlg[d].full}
<1>1. /\ dlg' = [d \in Dialogs |-> [dlg[d] EXCEPT !.full = FALSE]]
      /\ \E d \in full : over' = dlg[d].saved
      /\ fx' = [d \in Dialogs |-> IF d \in full THEN Append(fx[d], "back") ELSE fx[d]]
      /\ animating' = TRUE
      /\ cut' = (cut \/ full \notin {{d} : d \in Dialogs})
      /\ UNCHANGED <<zTop, removed>>
    BY DEF Dialog!Escape
<1>2. /\ dlg' \in [Dialogs -> DialogObjs]
      /\ \A e \in Dialogs : dlg'[e].saved = dlg[e].saved /\ dlg'[e].layer = dlg[e].layer
                         /\ dlg'[e].z = dlg[e].z /\ dlg'[e].layerZ = dlg[e].layerZ
                         /\ dlg'[e].vis = dlg[e].vis /\ dlg'[e].made = dlg[e].made
                         /\ dlg'[e].alone = dlg[e].alone
                         /\ ~dlg'[e].full
    <2>1. ASSUME NEW o \in DialogObjs
          PROVE  LET p == [o EXCEPT !.full = FALSE]
                 IN  /\ p \in DialogObjs /\ ~p.full
                     /\ p.saved = o.saved /\ p.layer = o.layer /\ p.z = o.z
                     /\ p.layerZ = o.layerZ /\ p.vis = o.vis /\ p.made = o.made
                     /\ p.alone = o.alone
        BY DEF DialogObjs
    <2> QED
        BY <1>1, <2>1
<1>3. fx' \in [Dialogs -> Seq(Kinds)]
    BY <1>1, Appended DEF Kinds
<1>4. LayersBelow'
    <2>1. ASSUME NEW e \in Dialogs
          PROVE  /\ dlg[e].layer = "shown" /\ ~dlg[e].alone => dlg[e].vis /\ dlg[e].layerZ < dlg[e].z
                 /\ dlg[e].layerZ <= zTop /\ (dlg[e].vis => dlg[e].made)
        BY DEF LayersBelow, DialogInv
    <2>2. ASSUME NEW e \in Dialogs
          PROVE  /\ dlg'[e].layer = "shown" /\ ~dlg'[e].alone =>
                        dlg'[e].vis /\ dlg'[e].layerZ < dlg'[e].z
                 /\ dlg'[e].layerZ <= zTop' /\ (dlg'[e].vis => dlg'[e].made)
                 /\ ~dlg'[e].full
        BY <1>1, <1>2, <2>1, SMTT(60)
    <2> QED
        BY <2>2 DEF LayersBelow
<1>5. ASSUME ~cut' PROVE Unhidden'
    <2>1. ~cut
        BY <1>1, <1>5
    <2>2. (\A e \in Dialogs : dlg'[e].saved = "auto") /\ over' # "hidden"
        <3>1. \A e \in Dialogs : dlg[e].saved = "auto"
            BY <2>1 DEF DialogInv, Unhidden
        <3> QED
            BY <1>1, <1>2, <3>1
    <2>3. ASSUME NEW e \in Dialogs, NEW i \in DOMAIN fx'[e], fx'[e][i] = "full"
          PROVE  \E j \in DOMAIN fx'[e] : i < j /\ fx'[e][j] = "back"
        <3>1. CASE e \in full
            <4>1. /\ DOMAIN fx'[e] = 1 .. Len(fx[e]) + 1
                  /\ fx'[e][Len(fx[e]) + 1] = "back" /\ Len(fx[e]) \in Nat
                BY <1>1, <3>1, Appended DEF Kinds
            <4>2. i < Len(fx[e]) + 1
                BY <2>3, <3>1, <4>1
            <4> QED
                BY <4>1, <4>2
        <3>2. CASE e \notin full
            BY <1>1, <2>1, <2>3, <3>2 DEF DialogInv, Unhidden
        <3> QED
            BY <3>1, <3>2
    <2> QED
        BY <2>2, <2>3 DEF Unhidden
<1>6. Unhidden'
    BY <1>5 DEF Unhidden
<1>7. removed' \in Nat /\ zTop' \in 0 .. MaxZ /\ animating' \in BOOLEAN
    BY <1>1 DEF DialogInv, Dialog!TypeOK
<1>8. over' \in {"auto", "hidden"}
    BY <1>1 DEF DialogObjs
<1>9. cut' \in BOOLEAN
    BY <1>1, Zenon
<1> QED
    BY <1>2, <1>3, <1>4, <1>6, <1>7, <1>8, <1>9, DialogTyped DEF DialogInv

(* Whoever gives the scroll bars back last is heard last.                  *)
LEMMA AnimationEndStep ==
    ASSUME DialogInv, NEW d \in Dialogs, Dialog!AnimationEnd(d)
    PROVE  DialogInv'
<1> USE DialogTypes, LoaderAssumption
<1>1. /\ fx[d] # <<>> /\ animating' = FALSE
      /\ over' = CASE Head(fx[d]) = "full" -> "hidden"
                   [] Head(fx[d]) = "back" -> dlg[d].saved
                   [] OTHER -> over
      /\ fx' = [fx EXCEPT ![d] = Tail(fx[d])]
      /\ UNCHANGED <<zTop, dlg, removed, cut>>
    BY DEF Dialog!AnimationEnd
<1> DEFINE q == fx[d]
<1>2. /\ q \in Seq(Kinds) /\ Tail(q) \in Seq(Kinds) /\ Head(q) = q[1] /\ Head(q) \in Kinds
      /\ DOMAIN q = 1 .. Len(q) /\ Len(q) \in Nat \ {0}
      /\ DOMAIN Tail(q) = 1 .. Len(q) - 1
      /\ \A i \in DOMAIN Tail(q) : Tail(q)[i] = q[i + 1]
    BY <1>1, Ended
<1>3. /\ fx' \in [Dialogs -> Seq(Kinds)] /\ fx'[d] = Tail(q)
      /\ \A e \in Dialogs : e # d => fx'[e] = fx[e]
    BY <1>1, <1>2
<1>4. over' = IF q[1] = "full" THEN "hidden" ELSE IF q[1] = "back" THEN dlg[d].saved ELSE over
    BY <1>1, <1>2 DEF Kinds
<1> HIDE DEF q
<1>5. \A i \in DOMAIN q : i # 1 => i - 1 \in DOMAIN Tail(q) /\ Tail(q)[i - 1] = q[i]
    BY <1>2
<1>6. ASSUME ~cut PROVE Unhidden'
    <2>1. \A e \in Dialogs : dlg'[e].saved = "auto"
        BY <1>1, <1>6 DEF DialogInv, Unhidden
    <2>2. ASSUME NEW e \in Dialogs, NEW i \in DOMAIN fx'[e], fx'[e][i] = "full"
          PROVE  dlg'[e].full \/ \E j \in DOMAIN fx'[e] : i < j /\ fx'[e][j] = "back"
        <3>1. CASE e = d
            <4>1. i \in Nat /\ i + 1 \in DOMAIN q /\ q[i + 1] = "full"
                BY <1>2, <1>3, <2>2, <3>1
            <4>2. dlg[d].full \/ \E j \in DOMAIN q : i + 1 < j /\ q[j] = "back"
                BY <1>6, <4>1 DEF DialogInv, Unhidden, q
            <4>3. ASSUME NEW j \in DOMAIN q, i + 1 < j, q[j] = "back"
                  PROVE  j - 1 \in DOMAIN Tail(q) /\ i < j - 1 /\ Tail(q)[j - 1] = "back"
                BY <1>2, <1>5, <4>1, <4>3
            <4> QED
                BY <1>1, <1>3, <3>1, <4>2, <4>3
        <3>2. CASE e # d
            BY <1>1, <1>3, <1>6, <2>2, <3>2 DEF DialogInv, Unhidden
        <3> QED
            BY <3>1, <3>2
    <2>3. ASSUME over' = "hidden"
          PROVE  \E e \in Dialogs : dlg'[e].full \/ Has(e, "back")'
        <3>1. q[1] # "back"
            BY <1>1, <1>4, <2>1, <2>3
        <3>2. \A e \in Dialogs : Has(e, "back") => Has(e, "back")'
            <4>1. ASSUME Has(d, "back") PROVE Has(d, "back")'
                <5>1. PICK i \in DOMAIN q : q[i] = "back"
                    BY <4>1 DEF Has, q
                <5>2. i - 1 \in DOMAIN Tail(q) /\ Tail(q)[i - 1] = "back"
                    BY <1>5, <3>1, <5>1
                <5> QED
                    BY <1>3, <5>2 DEF Has
            <4>2. \A e \in Dialogs \ {d} : Has(e, "back") => Has(e, "back")'
                BY <1>3 DEF Has
            <4> QED
                BY <4>1, <4>2
        <3>3. CASE q[1] = "full"
            <4>1. dlg[d].full \/ Has(d, "back")
                BY <1>2, <1>6, <3>3 DEF DialogInv, Unhidden, Has, q
            <4> QED
                BY <1>1, <3>2, <4>1
        <3>4. CASE q[1] # "full"
            <4>1. over = "hidden"
                BY <1>4, <2>3, <3>1, <3>4
            <4> QED
                BY <1>1, <1>6, <3>2, <4>1 DEF DialogInv, Unhidden
        <3> QED
            BY <3>3, <3>4
    <2> QED
        BY <2>1, <2>2, <2>3 DEF Unhidden
<1>7. Unhidden'
    BY <1>1, <1>6 DEF Unhidden
<1>8. LayersBelow'
    BY <1>1 DEF DialogInv, LayersBelow
<1>9. /\ removed' \in Nat /\ cut' \in BOOLEAN /\ zTop' \in 0 .. MaxZ /\ animating' \in BOOLEAN
      /\ dlg' \in [Dialogs -> DialogObjs]
    BY <1>1 DEF DialogInv, Dialog!TypeOK
<1>10. over' \in {"auto", "hidden"}
    BY <1>4 DEF DialogObjs
<1> QED
    BY <1>3, <1>7, <1>8, <1>9, <1>10, DialogTyped DEF DialogInv

LEMMA LostEndStep ==
    ASSUME DialogInv, Dialog!LostEnd
    PROVE  DialogInv'
<1>1. /\ removed' \in Nat /\ animating' = FALSE
      /\ UNCHANGED <<zTop, over, dlg, fx, cut>>
    BY DEF Dialog!LostEnd, DialogInv, Dialog!TypeOK
<1>2. Dialog!TypeOK'
    BY <1>1 DEF DialogInv, Dialog!TypeOK
<1> QED
    BY <1>1, <1>2 DEF DialogInv, LayersBelow, Unhidden, Has

LEMMA DialogStep ==
    ASSUME DialogInv, Dialog!Next \/ UNCHANGED dialogVars
    PROVE  DialogInv'
<1>1. CASE UNCHANGED dialogVars
    BY <1>1 DEF dialogVars, DialogInv, Dialog!TypeOK, LayersBelow, Unhidden, Has
<1>2. CASE \E d \in Dialogs, modal, animate \in BOOLEAN : Dialog!Open(d, modal, animate)
    BY <1>2, OpenStep
<1>3. ASSUME NEW d \in Dialogs,
             \/ Dialog!SetOption(d) \/ Dialog!OpenTimer(d)
             \/ Dialog!Close(d) \/ Dialog!CloseButton(d) \/ Dialog!Destroy(d) \/ Dialog!Raise(d)
             \/ Dialog!Fullscreen(d) \/ Dialog!Backscreen(d) \/ Dialog!AnimationEnd(d)
      PROVE  DialogInv'
    BY <1>3, OptionStep, CloseStep, DestroyStep, RaiseStep, FullscreenStep, BackscreenStep,
       AnimationEndStep
<1> QED
    BY <1>1, <1>2, <1>3, EscapeStep, LostEndStep DEF Dialog!Next

(* Of the dialogs with a layer, the one whose layer lies highest is above  *)
(* all layers, but for those that are shown alone.                         *)
LEMMA DialogReached ==
    ASSUME DialogInv
    PROVE  Dialog!LayersHaveDialogs /\ Dialog!PageScrollsUnlessCut
<1> DEFINE layers == {d \in Dialogs : dlg[d].layer = "shown" /\ ~dlg[d].alone}
<1>1. ASSUME layers # {}
      PROVE  \E d \in Dialogs : dlg[d].vis /\ \A e \in layers : dlg[e].layerZ < dlg[d].z
    <2> DEFINE S == {dlg[d].layerZ : d \in layers}
    <2>1. S # {} /\ S \in SUBSET (0 .. MaxZ)
        <3>1. \A d \in Dialogs : dlg[d].layerZ \in 0 .. MaxZ
            BY DialogTypes DEF DialogObjs
        <3> QED
            BY <1>1, <3>1
    <2>2. \E n \in S : \A m \in S : m <= n
        <3> HIDE DEF S
        <3> QED
            BY <2>1, Largest, LoaderAssumption
    <2>3. PICK d \in layers : \A e \in layers : dlg[e].layerZ <= dlg[d].layerZ
        BY <2>2
    <2>4. dlg[d].vis /\ dlg[d].layerZ < dlg[d].z
        BY <2>3 DEF DialogInv, LayersBelow
    <2>5. \A e \in layers : dlg[e].layerZ \in Nat
        BY DialogTypes, LoaderAssumption DEF DialogObjs
    <2>6. dlg[d].z \in Nat
        BY <2>3, DialogTypes, LoaderAssumption DEF DialogObjs
    <2>7. \A e \in layers : dlg[e].layerZ < dlg[d].z
        <3> HIDE DEF layers
        <3> QED
            BY <2>3, <2>4, <2>5, <2>6
    <2> QED
        BY <2>3, <2>4, <2>7
<1>2. Dialog!PageScrollsUnlessCut
    BY DialogTypes
    DEF Dialog!PageScrollsUnlessCut, Dialog!Quiet, Dialog!Switching, DialogInv, Unhidden, Has
<1> QED
    BY <1>1, <1>2 DEF Dialog!LayersHaveDialogs

-----------------------------------------------------------------------------
LEMMA Counted ==
    ASSUME NEW k \in Nat
    PROVE  Message!Cardinality(1 .. k) = k
<1>1. Cardinality(1 .. k) = k
    BY FS_Interval
<1>2. Message!Cardinality(1 .. k) = Cardinality(1 .. k)
    BY Zenon DEF Message!Cardinality, Cardinality
<1> QED
    BY <1>1, <1>2

(* The messages and their number.                                          *)
LEMMA Numbered ==
    ASSUME MessageInv
    PROVE  \E k \in 0 .. MaxMessages :
              /\ message \in [1 .. k -> Msgs] /\ Message!Made = 1 .. k
              /\ Message!Cardinality(Message!Made) = k
              /\ timers \subseteq 1 .. k /\ triggers \subseteq 1 .. k
              /\ resizes \subseteq 1 .. k /\ shows \subseteq 1 .. k
              /\ OneShown
<1>1. PICK k \in 0 .. MaxMessages :
          /\ message \in [1 .. k -> Msgs]
          /\ timers \subseteq 1 .. k /\ triggers \subseteq 1 .. k
          /\ resizes \subseteq 1 .. k /\ shows \subseteq 1 .. k
    BY DEF MessageInv
<1>2. k \in Nat
    BY LoaderAssumption
<1>3. Message!Made = 1 .. k
    BY <1>1 DEF Message!Made
<1> QED
    BY <1>1, <1>2, <1>3, Counted DEF MessageInv

LEMMA MessageInit == Message!Init => MessageInv
<1> SUFFICES ASSUME Message!Init
             PROVE  MessageInv
    OBVIOUS
<1>1. message \in [1 .. 0 -> Msgs] /\ shows = {} /\ timers = {} /\ triggers = {} /\ resizes = {}
    BY DEF Message!Init
<1> QED
    BY <1>1, LoaderAssumption DEF MessageInv, OneShown

(* Messages that hide: none is shown that was not before.                  *)
LEMMA Hides ==
    ASSUME NEW k \in 0 .. MaxMessages, message \in [1 .. k -> Msgs],
           Message!Made = 1 .. k, NEW S
    PROVE  LET hidden == Message!DoHide(S)
           IN  /\ hidden \in [1 .. k -> Msgs]
               /\ \A m \in 1 .. k : hidden[m].at = "shown" =>
                     message[m].at = "shown" /\ m \notin S
<1> USE DEF Msgs
<1>1. \A m \in 1 .. k : [message[m] EXCEPT !.at = "fading"] \in Msgs
    OBVIOUS
<1> QED
    BY <1>1 DEF Message!DoHide, Message!Boxes

(* A step that makes no message and shows none anew.                       *)
LEMMA NoneShown ==
    ASSUME MessageInv, NEW k \in 0 .. MaxMessages, message \in [1 .. k -> Msgs],
           message' \in [1 .. k -> Msgs], shows' = shows, shows \subseteq 1 .. k,
           timers' \subseteq 1 .. k, triggers' \subseteq 1 .. k, resizes' \subseteq 1 .. k,
           \A m \in 1 .. k : message'[m].at = "shown" => message[m].at = "shown"
    PROVE  MessageInv'
    BY DEF MessageInv, OneShown

(* A step that makes one: it may be shown beside others of the pages only  *)
(* if these have begun to go.                                              *)
LEMMA OneMore ==
    ASSUME MessageInv, NEW before, NEW id \in Ids \cup {NoId}, NEW lasts \in BOOLEAN,
           NEW icon \in BOOLEAN, NEW trigger \in BOOLEAN,
           Message!Show(before, id, lasts, icon, trigger),
           before \in [Message!Made -> Msgs],
           \A m \in Message!Made : before[m].at = "shown" => message[m].at = "shown",
           \/ shows' = shows
           \/ /\ shows' = shows \cup {Message!Cardinality(Message!Made) + 1}
              /\ \A m \in Message!Made : before[m].at # "shown"
    PROVE  MessageInv'
<1>1. PICK k \in 0 .. MaxMessages :
              /\ message \in [1 .. k -> Msgs] /\ Message!Made = 1 .. k
              /\ Message!Cardinality(Message!Made) = k
              /\ timers \subseteq 1 .. k /\ triggers \subseteq 1 .. k
              /\ resizes \subseteq 1 .. k /\ shows \subseteq 1 .. k
              /\ OneShown
    BY Numbered
<1> DEFINE new == [at |-> "shown", id |-> id, lasts |-> lasts, icon |-> icon, _msgBox |-> TRUE]
<1>2. new \in Msgs
    BY DEF Msgs
<1> HIDE DEF new
<1>3. /\ k \in Nat /\ k + 1 \in 0 .. MaxMessages
      /\ message' = [m \in 1 .. k + 1 |-> IF m < k + 1 THEN before[m] ELSE new]
      /\ timers' \subseteq timers \cup {k + 1} /\ triggers' \subseteq triggers \cup {k + 1}
      /\ resizes' \subseteq resizes \cup {k + 1}
    BY <1>1, LoaderAssumption DEF Message!Show, new
<1>4. /\ message' \in [1 .. k + 1 -> Msgs]
      /\ \A m \in 1 .. k : message'[m] = before[m]
    BY <1>1, <1>2, <1>3
<1>5. shows' \subseteq 1 .. k + 1
    <2>1. Message!Cardinality(Message!Made) + 1 = k + 1
        BY <1>1
    <2>2. shows' = shows \/ shows' = shows \cup {k + 1}
        BY <2>1
    <2>3. shows \subseteq 1 .. k
        BY <1>1
    <2>4. 1 .. k \subseteq 1 .. k + 1 /\ k + 1 \in 1 .. k + 1
        BY <1>3
    <2> QED
        BY <2>2, <2>3, <2>4
<1>6. OneShown'
    BY <1>1, <1>3, <1>4 DEF OneShown
<1>7. timers' \subseteq 1 .. k + 1 /\ triggers' \subseteq 1 .. k + 1 /\ resizes' \subseteq 1 .. k + 1
    BY <1>1, <1>3
<1> QED
    BY <1>3, <1>4, <1>5, <1>6, <1>7 DEF MessageInv

LEMMA MessageStep ==
    ASSUME MessageInv, Message!Next \/ UNCHANGED messageVars
    PROVE  MessageInv'
<1>1. PICK k \in 0 .. MaxMessages :
              /\ message \in [1 .. k -> Msgs] /\ Message!Made = 1 .. k
              /\ Message!Cardinality(Message!Made) = k
              /\ timers \subseteq 1 .. k /\ triggers \subseteq 1 .. k
              /\ resizes \subseteq 1 .. k /\ shows \subseteq 1 .. k
              /\ OneShown
    BY Numbered
<1>2. CASE UNCHANGED messageVars
    BY <1>2 DEF messageVars, MessageInv, OneShown
<1>3. ASSUME NEW id \in Ids \cup {NoId}, NEW lasts \in BOOLEAN, NEW icon \in BOOLEAN,
             NEW trigger \in BOOLEAN, Message!Message(id, lasts, icon, trigger)
      PROVE  MessageInv'
    BY <1>1, <1>3, OneMore DEF Message!Message
<1>4. ASSUME NEW lasts \in BOOLEAN, NEW icon \in BOOLEAN, Message!ShowMsg(lasts, icon)
      PROVE  MessageInv'
    <2> DEFINE before == Message!DoHide(Message!Made)
    <2>1. /\ before \in [Message!Made -> Msgs]
          /\ \A m \in Message!Made : before[m].at # "shown"
        BY <1>1, Hides
    <2>2. /\ Message!Show(before, NoId, lasts, icon, FALSE)
          /\ shows' = shows \cup {Message!Cardinality(Message!Made) + 1}
        BY <1>4 DEF Message!ShowMsg
    <2> HIDE DEF before
    <2> QED
        BY <2>1, <2>2, OneMore
<1>5. ASSUME NEW S, Message!Close(S) PROVE MessageInv'
    BY <1>1, <1>5, Hides, NoneShown DEF Message!Close
<1>6. ASSUME NEW m \in Message!Made, Message!ClickIcon(m) \/ Message!Timeout(m)
      PROVE  MessageInv'
    <2>1. Message!HideSelf(m) /\ UNCHANGED <<triggers, resizes, shows>>
        BY <1>6 DEF Message!ClickIcon, Message!Timeout
    <2>2. timers' \subseteq timers
        BY <2>1 DEF Message!HideSelf
    <2>3. message' = Message!DoHide({m}) \/ message' = message
        BY <2>1 DEF Message!HideSelf
    <2>4. /\ message' \in [1 .. k -> Msgs]
          /\ \A n \in 1 .. k : message'[n].at = "shown" => message[n].at = "shown"
        BY <1>1, <2>3, Hides
    <2> QED
        BY <1>1, <2>1, <2>2, <2>4, NoneShown
<1>7. ASSUME NEW m, Message!ClickElsewhere(m) PROVE MessageInv'
    <2> DEFINE hide == (triggers \ {m}) \cap Message!Boxes
               h == Message!DoHide(hide)
    <2>1. /\ h \in [1 .. k -> Msgs]
          /\ \A n \in 1 .. k : h[n].at = "shown" => message[n].at = "shown"
        BY <1>1, Hides
    <2>2. /\ message' = [n \in Message!Made |-> IF n \in hide THEN [h[n] EXCEPT !._msgBox = FALSE]
                                                ELSE message[n]]
          /\ timers' = timers \ hide /\ triggers' = triggers \ hide
          /\ UNCHANGED <<resizes, shows>>
        BY <1>7 DEF Message!ClickElsewhere
    <2> HIDE DEF h, hide
    <2>3. /\ message' \in [1 .. k -> Msgs]
          /\ \A n \in 1 .. k : message'[n].at = "shown" => message[n].at = "shown"
        <3>1. \A x \in Msgs : [x EXCEPT !._msgBox = FALSE] \in Msgs
                            /\ [x EXCEPT !._msgBox = FALSE].at = x.at
            BY DEF Msgs
        <3>2. \A n \in 1 .. k : \/ message'[n] = message[n]
                              \/ message'[n] = [h[n] EXCEPT !._msgBox = FALSE]
            BY <1>1, <2>2
        <3>3. DOMAIN message' = 1 .. k /\ message' = [n \in 1 .. k |-> message'[n]]
            BY <1>1, <2>2
        <3>4. ASSUME NEW n \in 1 .. k
              PROVE  /\ message'[n] \in Msgs
                     /\ message'[n].at = "shown" => message[n].at = "shown"
            <4>1. h[n] \in Msgs /\ (h[n].at = "shown" => message[n].at = "shown")
                BY <2>1
            <4>2. message[n] \in Msgs
                BY <1>1
            <4> QED
                BY <3>1, <3>2, <4>1, <4>2
        <3> QED
            BY <3>3, <3>4
    <2> QED
        BY <1>1, <2>2, <2>3, NoneShown
<1>8. ASSUME NEW m \in Message!Made, Message!Removed(m) PROVE MessageInv'
    <2>1. /\ message' \in [1 .. k -> Msgs]
          /\ \A n \in 1 .. k : message'[n].at = "shown" => message[n].at = "shown"
        BY <1>1, <1>8 DEF Message!Removed, Msgs
    <2> QED
        BY <1>1, <1>8, <2>1, NoneShown DEF Message!Removed
<1>9. CASE Message!Resize
    BY <1>1, <1>9, NoneShown DEF Message!Resize
<1> QED
    BY <1>2, <1>3, <1>4, <1>5, <1>6, <1>7, <1>8, <1>9
    DEF Message!Next, Message!CloseAll, Message!CloseId, Message!Boxes

LEMMA MessageAlone ==
    ASSUME MessageInv
    PROVE  Message!TypeOK /\ Message!OneMessage
<1>1. PICK k \in 0 .. MaxMessages :
              /\ message \in [1 .. k -> Msgs] /\ Message!Made = 1 .. k
              /\ Message!Cardinality(Message!Made) = k
              /\ timers \subseteq 1 .. k /\ triggers \subseteq 1 .. k
              /\ resizes \subseteq 1 .. k /\ shows \subseteq 1 .. k
              /\ OneShown
    BY Numbered
<1>2. Message!TypeOK
    BY <1>1, LoaderAssumption DEF Message!TypeOK, Msgs
<1> DEFINE S == {m \in shows : message[m].at = "shown"}
<1>3. Cardinality(S) <= 1
    <2>1. CASE S = {}
        BY <2>1, FS_EmptySet
    <2>2. CASE S # {}
        <3>1. PICK m \in S : TRUE
            BY <2>2
        <3>2. S = {m}
            BY <1>1, <3>1 DEF OneShown
        <3> HIDE DEF S
        <3>3. Cardinality({m}) = 1
            BY FS_Singleton
        <3> QED
            BY <3>2, <3>3
    <2> QED
        BY <2>1, <2>2
<1>4. Message!Cardinality(S) = Cardinality(S)
    BY Zenon DEF Message!Cardinality, Cardinality
<1> HIDE DEF S
<1>5. Message!Cardinality(S) <= 1
    BY <1>3, <1>4
<1> QED
    BY <1>2, <1>5 DEF Message!OneMessage, S

-----------------------------------------------------------------------------
(***************************************************************************)
(* Files on demand (OdflLoader).  A callback is a call of force and one of *)
(* its items.  Whoever waits is held by one list: that of a resource, or   *)
(* that of a forced call that took the list over.                          *)
(***************************************************************************)
Names    == Odfl!Names
Cbs      == Nat \X Nat
ResState == {"none", "LOADING", "LOADED"}
Asks     == [items : Seq(Names), state : Seq(ResState), comp : Comps, again : BOOLEAN,
             then : Seq(Cbs)]
Entries  == [op : {"load", "call"}, r : Nat, i : Nat]

IsOnce(s)    == \A k, l \in DOMAIN s : s[k] = s[l] => k = l
In(s, b)     == \E k \in DOMAIN s : s[k] = b
Item(A, b)   == A[b[1]].items[b[2]]
Is(A, b)     == b[1] \in DOMAIN A /\ b[2] \in DOMAIN A[b[1]].items
Came(A, b)   == A[b[1]].state[b[2]] = "LOADED"
Under(A, b, q) == q \in DOMAIN A /\ In(A[q].then, b)

AsksFit(A) ==
    /\ A \in Seq(Asks)
    /\ \A r \in DOMAIN A : /\ Len(A[r].state) = Len(A[r].items) /\ IsOnce(A[r].items)
                           /\ IsOnce(A[r].then)

(* The rest of the call that runs: which callbacks it will call, and which *)
(* resources it will ask for; the former come first.                       *)
Cb(a, k)     == <<a[k].r, a[k].i>>
CallIn(a, b) == \E k \in DOMAIN a : a[k].op = "call" /\ Cb(a, k) = b
LoadIn(a, b) == \E k \in DOMAIN a : a[k].op = "load" /\ Cb(a, k) = b
AgendaFits(a) ==
    /\ a \in Seq(Entries)
    /\ \A k, l \in DOMAIN a : Cb(a, k) = Cb(a, l) => k = l
    /\ \A k, l \in DOMAIN a : k < l /\ a[l].op = "call" => a[k].op = "call"

-----------------------------------------------------------------------------
(* What is called goes in front of the rest of what is to be done.         *)
Fronts(z, s, a) ==
    /\ AgendaFits(z)
    /\ \A b \in Cbs : CallIn(z, b) => In(s, b) \/ (CallIn(a, b) /\ b # Cb(a, 1))
    /\ \A b \in Cbs : LoadIn(z, b) => LoadIn(a, b) /\ b # Cb(a, 1)
    /\ \A k \in DOMAIN z : z[k].op = "load" => \E l \in 2 .. Len(a) : z[k] = a[l]

LEMMA Joined ==
    ASSUME NEW s \in Seq(Cbs), NEW a \in Seq(Entries), a # <<>>
    PROVE  LET z == Odfl!Call(s) \o Tail(a)
           IN  /\ z \in Seq(Entries) /\ Len(z) = Len(s) + Len(a) - 1
               /\ DOMAIN z = 1 .. Len(s) + Len(a) - 1
               /\ \A k \in 1 .. Len(s) : z[k].op = "call" /\ Cb(z, k) = s[k]
               /\ \A k \in Len(s) + 1 .. Len(s) + Len(a) - 1 :
                     /\ k - Len(s) + 1 \in 2 .. Len(a)
                     /\ z[k] = a[k - Len(s) + 1]
<1> DEFINE c == Odfl!Call(s)
<1>1. /\ DOMAIN c = 1 .. Len(s) /\ Len(s) \in Nat
      /\ \A k \in 1 .. Len(s) : c[k] = [op |-> "call", r |-> s[k][1], i |-> s[k][2]]
    BY DEF Odfl!Call
<1>2. \A k \in 1 .. Len(s) : s[k] \in Cbs /\ c[k] \in Entries
    BY <1>1 DEF Cbs, Entries
<1>3. c \in Seq(Entries) /\ Len(c) = Len(s)
    <2>1. c \in [1 .. Len(s) -> Entries]
        BY <1>1, <1>2 DEF Odfl!Call
    <2> HIDE DEF c
    <2> QED
        BY <1>1, <2>1
<1>4. \A k \in 1 .. Len(s) : c[k].op = "call" /\ <<c[k].r, c[k].i>> = s[k]
    BY <1>1, <1>2 DEF Cbs
<1> HIDE DEF c
<1>5. /\ Tail(a) \in Seq(Entries) /\ Len(Tail(a)) = Len(a) - 1 /\ Len(a) \in Nat \ {0}
      /\ \A k \in 1 .. Len(a) - 1 : Tail(a)[k] = a[k + 1]
    OBVIOUS
<1> DEFINE t == Tail(a)
<1> HIDE DEF t
<1>6. /\ c \o t \in Seq(Entries) /\ Len(c \o t) = Len(s) + Len(a) - 1
      /\ DOMAIN (c \o t) = 1 .. Len(s) + Len(a) - 1
      /\ \A k \in 1 .. Len(s) : (c \o t)[k] = c[k]
      /\ \A k \in Len(s) + 1 .. Len(s) + Len(a) - 1 : (c \o t)[k] = t[k - Len(s)]
    BY <1>3, <1>5 DEF t
<1>7. \A k \in Len(s) + 1 .. Len(s) + Len(a) - 1 :
        k - Len(s) \in 1 .. Len(a) - 1 /\ k - Len(s) + 1 \in 2 .. Len(a)
    BY <1>1, <1>5
<1> QED
    BY <1>4, <1>5, <1>6, <1>7 DEF c, t, Cb

LEMMA CalledFirst ==
    ASSUME NEW s \in Seq(Cbs), NEW a, AgendaFits(a), a # <<>>, IsOnce(s),
           \A b \in Cbs : In(s, b) => \A l \in 2 .. Len(a) : Cb(a, l) # b
    PROVE  Fronts(Odfl!Call(s) \o Tail(a), s, a)
<1>1. PICK z : z = Odfl!Call(s) \o Tail(a)
    OBVIOUS
<1>2. a \in Seq(Entries) /\ DOMAIN a = 1 .. Len(a) /\ Len(a) \in Nat \ {0} /\ Len(s) \in Nat
      /\ DOMAIN s = 1 .. Len(s)
    BY DEF AgendaFits
<1>3. PICK m \in Nat, h \in Nat : m = Len(s) /\ h = Len(a) /\ h > 0
    <2>1. Len(s) \in Nat /\ Len(a) \in Nat /\ Len(a) > 0
        BY <1>2
    <2> QED
        BY <2>1
<1>4. /\ z \in Seq(Entries) /\ DOMAIN z = 1 .. m + h - 1
      /\ \A k \in 1 .. m : z[k].op = "call" /\ Cb(z, k) = s[k] /\ s[k] \in Cbs
      /\ \A k \in m + 1 .. m + h - 1 : k - m + 1 \in 2 .. h /\ z[k] = a[k - m + 1]
    BY <1>1, <1>2, <1>3, Joined
<1>5. \A k \in m + 1 .. m + h - 1 : Cb(z, k) = Cb(a, k - m + 1) /\ k - m + 1 \in DOMAIN a
                                    /\ k - m + 1 # 1 /\ 1 \in DOMAIN a
    BY <1>2, <1>3, <1>4 DEF Cb
<1>apart. \A k \in 1 .. m : \A l \in m + 1 .. m + h - 1 : Cb(z, k) # Cb(z, l)
    <2> SUFFICES ASSUME NEW k \in 1 .. m, NEW l \in m + 1 .. m + h - 1, Cb(z, k) = Cb(z, l)
                 PROVE  FALSE
        OBVIOUS
    <2>1. In(s, s[k]) /\ s[k] \in Cbs /\ Cb(z, k) = s[k]
        BY <1>2, <1>3, <1>4 DEF In
    <2>2. l - m + 1 \in 2 .. Len(a) /\ Cb(z, l) = Cb(a, l - m + 1)
        BY <1>3, <1>4, <1>5
    <2> QED
        BY <2>1, <2>2
<1>6. ASSUME NEW k \in DOMAIN z, NEW l \in DOMAIN z, Cb(z, k) = Cb(z, l)
      PROVE  k = l
    <2>1. CASE k \in 1 .. m /\ l \in 1 .. m
        BY <2>1, <1>2, <1>3, <1>4, <1>6 DEF IsOnce
    <2>2. CASE k \in 1 .. m /\ l \in m + 1 .. m + h - 1
        BY <2>2, <1>6, <1>apart
    <2>3. CASE l \in 1 .. m /\ k \in m + 1 .. m + h - 1
        BY <2>3, <1>6, <1>apart
    <2>4. CASE l \in m + 1 .. m + h - 1 /\ k \in m + 1 .. m + h - 1
        <3>1. k - m + 1 = l - m + 1
            BY <2>4, <1>5, <1>6 DEF AgendaFits
        <3> QED
            BY <2>4, <3>1
    <2> QED
        BY <1>4, <2>1, <2>2, <2>3, <2>4
<1>7. ASSUME NEW k \in DOMAIN z, NEW l \in DOMAIN z, k < l, z[l].op = "call"
      PROVE  z[k].op = "call"
    <2>1. CASE k \in 1 .. m
        BY <2>1, <1>4
    <2>2. CASE k \in m + 1 .. m + h - 1
        <3>1. l \in m + 1 .. m + h - 1 /\ k - m + 1 < l - m + 1
            BY <2>2, <1>4, <1>7
        <3> QED
            BY <3>1, <2>2, <1>4, <1>5, <1>7 DEF AgendaFits
    <2> QED
        BY <1>4, <2>1, <2>2
<1>8. AgendaFits(z)
    BY <1>4, <1>6, <1>7 DEF AgendaFits
<1>9. ASSUME NEW b \in Cbs, CallIn(z, b)
      PROVE  In(s, b) \/ (CallIn(a, b) /\ b # Cb(a, 1))
    <2>1. PICK k \in DOMAIN z : z[k].op = "call" /\ Cb(z, k) = b
        BY <1>9 DEF CallIn
    <2>2. CASE k \in 1 .. m
        BY <2>1, <2>2, <1>2, <1>3, <1>4 DEF In
    <2>3. CASE k \in m + 1 .. m + h - 1
        BY <2>1, <2>3, <1>4, <1>5 DEF CallIn, AgendaFits
    <2> QED
        BY <1>4, <2>2, <2>3
<1>10. ASSUME NEW b \in Cbs, LoadIn(z, b)
       PROVE  LoadIn(a, b) /\ b # Cb(a, 1)
    <2>1. PICK k \in DOMAIN z : z[k].op = "load" /\ Cb(z, k) = b
        BY <1>10 DEF LoadIn
    <2>2. k \in m + 1 .. m + h - 1
        BY <2>1, <1>4
    <2> QED
        BY <2>1, <2>2, <1>4, <1>5 DEF LoadIn, AgendaFits
<1>11. \A k \in DOMAIN z : z[k].op = "load" => \E l \in 2 .. Len(a) : z[k] = a[l]
    <2> SUFFICES ASSUME NEW k \in DOMAIN z, z[k].op = "load"
                 PROVE  \E l \in 2 .. Len(a) : z[k] = a[l]
        OBVIOUS
    <2>1. k \in m + 1 .. m + h - 1
        BY <1>4
    <2>2. k - m + 1 \in 2 .. Len(a) /\ z[k] = a[k - m + 1]
        BY <2>1, <1>3, <1>4
    <2> QED
        BY <2>2
<1> QED
    BY <1>1, <1>8, <1>9, <1>10, <1>11, Zenon DEF Fronts

(* Calls of force that differ in what is known of their items only.        *)
Same(A, B) ==
    /\ AsksFit(B) /\ DOMAIN B = DOMAIN A /\ Len(B) = Len(A)
    /\ \A q \in DOMAIN A : /\ B[q].items = A[q].items /\ B[q].then = A[q].then
                           /\ B[q].comp = A[q].comp /\ B[q].again = A[q].again
    /\ \A b \in Cbs : /\ Is(B, b) <=> Is(A, b)
                      /\ Item(B, b) = Item(A, b)  \/ ~Is(A, b)
                      /\ \A q \in DOMAIN A : Under(B, b, q) <=> Under(A, b, q)

LEMMA SameCalls ==
    ASSUME NEW A, NEW B, AsksFit(B), DOMAIN B = DOMAIN A, Len(B) = Len(A),
           \A q \in DOMAIN A : /\ B[q].items = A[q].items /\ B[q].then = A[q].then
                               /\ B[q].comp = A[q].comp /\ B[q].again = A[q].again
    PROVE  Same(A, B)
<1>1. ASSUME NEW b \in Cbs
      PROVE  /\ Is(B, b) <=> Is(A, b)
             /\ Item(B, b) = Item(A, b) \/ ~Is(A, b)
             /\ \A q \in DOMAIN A : Under(B, b, q) <=> Under(A, b, q)
    <2>1. (Is(B, b) <=> Is(A, b)) /\ (Item(B, b) = Item(A, b) \/ ~Is(A, b))
        BY Zenon DEF Is, Item
    <2>2. \A q \in DOMAIN A : Under(B, b, q) <=> Under(A, b, q)
        BY Zenon DEF Under, In
    <2> QED
        BY <2>1, <2>2
<1> QED
    BY <1>1, Zenon DEF Same

LEMMA AskParts ==
    ASSUME NEW A, AsksFit(A)
    PROVE  /\ DOMAIN A = 1 .. Len(A) /\ Len(A) \in Nat
           /\ \A r \in DOMAIN A :
                 /\ A[r] \in Asks /\ A[r].items \in Seq(Names) /\ A[r].state \in Seq(ResState)
                 /\ A[r].then \in Seq(Cbs) /\ A[r].comp \in Comps /\ A[r].again \in BOOLEAN
                 /\ Len(A[r].state) = Len(A[r].items) /\ Len(A[r].items) \in Nat
                 /\ DOMAIN A[r].items = 1 .. Len(A[r].items)
                 /\ DOMAIN A[r].state = DOMAIN A[r].items
                 /\ IsOnce(A[r].items) /\ IsOnce(A[r].then)
<1>1. A \in Seq(Asks)
    BY DEF AsksFit
<1>2. DOMAIN A = 1 .. Len(A) /\ Len(A) \in Nat /\ \A r \in DOMAIN A : A[r] \in Asks
    BY <1>1
<1> SUFFICES ASSUME NEW r \in DOMAIN A
             PROVE  /\ A[r] \in Asks /\ A[r].items \in Seq(Names) /\ A[r].state \in Seq(ResState)
                    /\ A[r].then \in Seq(Cbs) /\ A[r].comp \in Comps /\ A[r].again \in BOOLEAN
                    /\ Len(A[r].state) = Len(A[r].items) /\ Len(A[r].items) \in Nat
                    /\ DOMAIN A[r].items = 1 .. Len(A[r].items)
                    /\ DOMAIN A[r].state = DOMAIN A[r].items
                    /\ IsOnce(A[r].items) /\ IsOnce(A[r].then)
    BY <1>2
<1>3. /\ A[r].items \in Seq(Names) /\ A[r].state \in Seq(ResState)
      /\ A[r].then \in Seq(Cbs) /\ A[r].comp \in Comps /\ A[r].again \in BOOLEAN
    BY <1>2 DEF Asks
<1>4. Len(A[r].state) = Len(A[r].items) /\ IsOnce(A[r].items) /\ IsOnce(A[r].then)
    BY DEF AsksFit
<1>5. /\ DOMAIN A[r].items = 1 .. Len(A[r].items) /\ Len(A[r].items) \in Nat
      /\ DOMAIN A[r].state = 1 .. Len(A[r].state)
    BY <1>3
<1> QED
    BY <1>2, <1>3, <1>4, <1>5

(* One item of a call is marked, or all items that are one resource.       *)
Restated(A, f) == [q \in DOMAIN A |-> [A[q] EXCEPT !.state = f[q]]]
Restates(A, f) == \A q \in DOMAIN A : f[q] \in Seq(ResState) /\ Len(f[q]) = Len(A[q].items)
ReadsAs(B, A, f)   == Same(A, B) /\ \A q \in DOMAIN A : B[q].state = f[q]

LEMMA Remarked ==
    ASSUME NEW A, AsksFit(A), NEW f, Restates(A, f), NEW B, B = Restated(A, f)
    PROVE  ReadsAs(B, A, f)
<1>1. \A q \in DOMAIN A : A[q] \in Asks /\ B[q] = [A[q] EXCEPT !.state = f[q]]
    BY AskParts, Zenon DEF Restated
<1>2. ASSUME NEW q \in DOMAIN A
      PROVE  /\ B[q] \in Asks /\ B[q].items = A[q].items /\ B[q].then = A[q].then
             /\ B[q].comp = A[q].comp /\ B[q].again = A[q].again /\ B[q].state = f[q]
    BY <1>1 DEF Asks, Restates
<1>3. DOMAIN B = DOMAIN A /\ B \in [DOMAIN A -> Asks]
    BY <1>2, Zenon DEF Restated
<1>4. B \in Seq(Asks) /\ Len(B) = Len(A)
    <2>1. PICK m \in Nat : m = Len(A)
        BY AskParts
    <2>2. B \in [1 .. m -> Asks] /\ DOMAIN B = 1 .. m
        BY <1>3, <2>1, AskParts, Zenon
    <2> QED
        BY <2>1, <2>2
<1>5. AsksFit(B)
    BY <1>2, <1>3, <1>4, AskParts, ZenonT(60) DEF AsksFit, Restates
<1> QED
    BY <1>2, <1>3, <1>4, <1>5, SameCalls DEF ReadsAs

Marks(B, A, b, s) ==
    /\ Same(A, B)
    /\ \A c \in Cbs : Is(A, c) /\ c # b => (Came(B, c) <=> Came(A, c))
    /\ Came(B, b) <=> s = "LOADED"

LEMMA Marked ==
    ASSUME NEW A, AsksFit(A), NEW b \in Cbs, Is(A, b), NEW s \in ResState, NEW B,
           B = [A EXCEPT ![b[1]].state[b[2]] = s]
    PROVE  Marks(B, A, b, s)
<1> DEFINE r == b[1]
           i == b[2]
           g == [A[r].state EXCEPT ![i] = s]
           f == [q \in DOMAIN A |-> IF q = r THEN g ELSE A[q].state]
<1>1. /\ r \in DOMAIN A /\ i \in DOMAIN A[r].state /\ A[r].state \in Seq(ResState)
      /\ Len(A[r].state) = Len(A[r].items)
    BY AskParts DEF Is
<1>2. g \in Seq(ResState) /\ Len(g) = Len(A[r].items) /\ g[i] = s
      /\ \A j \in DOMAIN A[r].state : j # i => g[j] = A[r].state[j]
    BY <1>1
<1>3. \A q \in DOMAIN A : A[q] \in Asks
    BY AskParts
<1>4. B = Restated(A, f)
    <2>1. B = [A EXCEPT ![r] = [A[r] EXCEPT !.state = g]]
        BY Zenon
    <2>2. ASSUME NEW q \in DOMAIN A
          PROVE  B[q] = [A[q] EXCEPT !.state = f[q]]
        <3>1. CASE q = r
            BY <2>1, <3>1
        <3>2. CASE q # r
            <4>1. B[q] = A[q] /\ f[q] = A[q].state
                BY <2>1, <3>2, Zenon
            <4> QED
                BY <1>3, <4>1 DEF Asks
        <3> QED
            BY <3>1, <3>2
    <2> HIDE DEF f, g
    <2>3. DOMAIN B = DOMAIN A
        BY <2>1
    <2>4. B = [q \in DOMAIN A |-> B[q]]
        BY <2>1, <2>3
    <2> QED
        BY <2>2, <2>4 DEF Restated
<1>5. Restates(A, f)
    BY <1>2, AskParts DEF Restates
<1> HIDE DEF f, g
<1>6. Same(A, B) /\ \A q \in DOMAIN A : B[q].state = f[q]
    <2>1. ReadsAs(B, A, f)
        BY <1>4, <1>5, Remarked
    <2> QED
        BY <2>1, Zenon DEF ReadsAs
<1>7. ASSUME NEW c \in Cbs, Is(A, c), c # b
      PROVE  Came(B, c) <=> Came(A, c)
    <2>1. c[1] \in DOMAIN A /\ c[2] \in DOMAIN A[c[1]].state
        BY <1>7, AskParts DEF Is
    <2>2. B[c[1]].state[c[2]] = A[c[1]].state[c[2]]
        <3>1. CASE c[1] = r
            <4>1. c[2] # i
                BY <1>7, <3>1 DEF Cbs, r, i
            <4>2. f[c[1]] = g
                BY <1>1, <3>1 DEF f
            <4> QED
                BY <1>2, <1>6, <2>1, <3>1, <4>1, <4>2
        <3>2. CASE c[1] # r
            <4>1. f[c[1]] = A[c[1]].state
                BY <2>1, <3>2 DEF f
            <4> QED
                BY <1>6, <2>1, <4>1
        <3> QED
            BY <3>1, <3>2
    <2> QED
        BY <2>2 DEF Came
<1>8. Came(B, b) <=> s = "LOADED"
    <2>1. f[r] = g
        BY <1>1 DEF f
    <2> QED
        BY <1>1, <1>2, <1>6, <2>1 DEF Came, r, i
<1> QED
    BY <1>6, <1>7, <1>8 DEF Marks

Flags(B, A, n) ==
    /\ Same(A, B)
    /\ \A c \in Cbs : Is(A, c) => (Came(B, c) <=> Came(A, c) \/ Item(A, c) = n)

LEMMA Flagged ==
    ASSUME NEW A, AsksFit(A), NEW n, NEW B,
           B = [r \in DOMAIN A |-> [A[r] EXCEPT !.state =
                   [i \in DOMAIN @ |-> IF A[r].items[i] = n THEN "LOADED" ELSE @[i]]]]
    PROVE  Flags(B, A, n)
<1> DEFINE g(q) == [i \in DOMAIN A[q].state |->
                       IF A[q].items[i] = n THEN "LOADED" ELSE A[q].state[i]]
           f    == [q \in DOMAIN A |-> g(q)]
<1>1. ASSUME NEW q \in DOMAIN A
      PROVE  g(q) \in Seq(ResState) /\ Len(g(q)) = Len(A[q].items)
    <2>1. A[q].state \in Seq(ResState) /\ Len(A[q].state) = Len(A[q].items)
          /\ Len(A[q].items) \in Nat
        BY AskParts
    <2>2. PICK m \in Nat : m = Len(A[q].items)
        BY <2>1
    <2>3. DOMAIN A[q].state = 1 .. m /\ \A i \in 1 .. m : A[q].state[i] \in ResState
        BY <2>1, <2>2
    <2>4. DOMAIN g(q) = 1 .. m /\ g(q) \in [1 .. m -> ResState]
        BY <2>3 DEF ResState
    <2> HIDE DEF g
    <2> QED
        BY <2>2, <2>4, SMTT(60)
<1>2. \A q \in DOMAIN A : f[q] = g(q)
    OBVIOUS
<1>3. B = Restated(A, f)
    BY Zenon DEF Restated
<1>4. \A q \in DOMAIN A : \A i \in DOMAIN A[q].state :
         g(q)[i] = IF A[q].items[i] = n THEN "LOADED" ELSE A[q].state[i]
    OBVIOUS
<1> HIDE DEF f, g
<1>5. Same(A, B) /\ \A q \in DOMAIN A : B[q].state = g(q)
    <2>1. Restates(A, f)
        BY <1>1, <1>2 DEF Restates
    <2>2. Same(A, B) /\ \A q \in DOMAIN A : B[q].state = f[q]
        <3>1. ReadsAs(B, A, f)
            BY <1>3, <2>1, Remarked
        <3> QED
            BY <3>1, Zenon DEF ReadsAs
    <2> QED
        BY <1>2, <2>2
<1>6. ASSUME NEW c \in Cbs, Is(A, c)
      PROVE  Came(B, c) <=> Came(A, c) \/ Item(A, c) = n
    <2>1. c[1] \in DOMAIN A /\ c[2] \in DOMAIN A[c[1]].state
        BY <1>6, AskParts DEF Is
    <2> QED
        BY <1>4, <1>5, <2>1 DEF Came, Item
<1> QED
    BY <1>5, <1>6 DEF Flags

(* A new call of force, with those it calls back.                          *)
Grown(B, A, p, items, then) ==
    /\ AsksFit(B) /\ Len(B) = p /\ p \in Nat /\ p \notin DOMAIN A
    /\ DOMAIN B = DOMAIN A \cup {p} /\ \A q \in DOMAIN A : B[q] = A[q]
    /\ B[p].items = items /\ B[p].then = then
    /\ \A b \in Cbs : Is(A, b) =>
          /\ Is(B, b) /\ Item(B, b) = Item(A, b) /\ b[1] # p
          /\ Came(B, b) <=> Came(A, b)
    /\ \A b \in Cbs :
          /\ Is(B, b) /\ ~Is(A, b) => b[1] = p
          /\ Is(B, b) /\ b[1] = p => ~Came(B, b)
    /\ \A b \in Cbs : \A q \in DOMAIN A : Under(B, b, q) <=> Under(A, b, q)
    /\ \A b \in Cbs : Under(B, b, p) <=> In(then, b)

LEMMA OneMoreAsk ==
    ASSUME NEW A, AsksFit(A), NEW items \in Seq(Names), IsOnce(items), NEW comp \in Comps,
           NEW again \in BOOLEAN, NEW then \in Seq(Cbs), IsOnce(then), NEW B,
           B = Append(A, [items |-> items, state |-> [i \in DOMAIN items |-> "none"],
                          comp |-> comp, again |-> again, then |-> then]),
           NEW p, p = Len(A) + 1
    PROVE  Grown(B, A, p, items, then)
<1> DEFINE st == [i \in DOMAIN items |-> "none"]
           new == [items |-> items, state |-> st, comp |-> comp, again |-> again, then |-> then]
<1>1. st \in Seq(ResState) /\ Len(st) = Len(items)
    <2>1. PICK m \in Nat : m = Len(items) /\ DOMAIN items = 1 .. m
        OBVIOUS
    <2>2. st \in [1 .. m -> ResState] /\ DOMAIN st = 1 .. m
        BY <2>1 DEF ResState
    <2> HIDE DEF st
    <2> QED
        BY <2>1, <2>2, SMTT(60)
<1>2. \A i \in DOMAIN items : st[i] # "LOADED"
    OBVIOUS
<1> HIDE DEF st
<1>3. /\ new \in Asks /\ new.items = items /\ new.state = st /\ new.then = then
      /\ new.comp = comp /\ new.again = again
    BY <1>1 DEF Asks
<1>4. A \in Seq(Asks) /\ DOMAIN A = 1 .. Len(A) /\ Len(A) \in Nat
    BY AskParts DEF AsksFit
<1>5. B = Append(A, new)
    BY DEF st
<1> HIDE DEF new
<1>6. /\ B \in Seq(Asks) /\ Len(B) = p /\ p \in Nat /\ p \notin DOMAIN A
      /\ DOMAIN B = DOMAIN A \cup {p} /\ B[p] = new /\ \A q \in DOMAIN A : B[q] = A[q]
    BY <1>3, <1>4, <1>5
<1>7. AsksFit(B)
    <2>1. ASSUME NEW r \in DOMAIN B
          PROVE  /\ Len(B[r].state) = Len(B[r].items) /\ IsOnce(B[r].items)
                 /\ IsOnce(B[r].then)
        <3>1. CASE r = p
            BY <1>1, <1>3, <1>6, <3>1, Zenon
        <3>2. CASE r \in DOMAIN A
            BY <1>6, <3>2, Zenon DEF AsksFit
        <3> QED
            BY <1>6, <3>1, <3>2
    <2> QED
        BY <1>6, <2>1, Zenon DEF AsksFit
<1>8. ASSUME NEW b \in Cbs, Is(A, b)
      PROVE  /\ Is(B, b) /\ Item(B, b) = Item(A, b) /\ b[1] # p
             /\ Came(B, b) <=> Came(A, b)
    BY <1>6, <1>8, Zenon DEF Is, Item, Came
<1>9. ASSUME NEW b \in Cbs
      PROVE  /\ Is(B, b) /\ ~Is(A, b) => b[1] = p
             /\ Is(B, b) /\ b[1] = p => ~Came(B, b)
    BY <1>2, <1>3, <1>6, ZenonT(60) DEF Is, Came
<1>10. \A b \in Cbs : \A q \in DOMAIN A : Under(B, b, q) <=> Under(A, b, q)
    BY <1>6, Zenon DEF Under
<1>11. \A b \in Cbs : Under(B, b, p) <=> In(then, b)
    BY <1>3, <1>6, Zenon DEF Under
<1> QED
    BY <1>3, <1>6, <1>7, <1>8, <1>9, <1>10, <1>11 DEF Grown

(* The rest of the call without its first step, and with one put first.    *)
LEMMA Popped ==
    ASSUME NEW a, AgendaFits(a), a # <<>>
    PROVE  Fronts(Tail(a), <<>>, a)
<1>1. PICK t : t = Tail(a)
    OBVIOUS
<1>2. a \in Seq(Entries) /\ DOMAIN a = 1 .. Len(a) /\ Len(a) \in Nat /\ Len(a) > 0
    BY DEF AgendaFits
<1>3. /\ t \in Seq(Entries) /\ DOMAIN t = 1 .. Len(a) - 1
      /\ \A k \in 1 .. Len(a) - 1 : t[k] = a[k + 1] /\ k + 1 \in 2 .. Len(a)
    BY <1>1, <1>2
<1>4. \A k \in DOMAIN t : /\ Cb(t, k) = Cb(a, k + 1) /\ t[k] = a[k + 1] /\ k + 1 \in DOMAIN a
                          /\ k \in Nat /\ k + 1 # 1 /\ 1 \in DOMAIN a /\ k + 1 \in 2 .. Len(a)
    BY <1>2, <1>3 DEF Cb
<1>5. AgendaFits(t)
    <2>1. ASSUME NEW k \in DOMAIN t, NEW l \in DOMAIN t, Cb(t, k) = Cb(t, l)
          PROVE  k = l
        <3>1. k + 1 = l + 1
            BY <1>4, <2>1 DEF AgendaFits
        <3> QED
            BY <1>4, <3>1
    <2>2. ASSUME NEW k \in DOMAIN t, NEW l \in DOMAIN t, k < l, t[l].op = "call"
          PROVE  t[k].op = "call"
        <3>1. k + 1 < l + 1
            BY <1>4, <2>2
        <3> QED
            BY <1>4, <2>2, <3>1 DEF AgendaFits
    <2> QED
        BY <1>3, <2>1, <2>2 DEF AgendaFits
<1>6. \A b \in Cbs : CallIn(t, b) => In(<<>>, b) \/ (CallIn(a, b) /\ b # Cb(a, 1))
    BY <1>4 DEF CallIn, AgendaFits
<1>7. \A b \in Cbs : LoadIn(t, b) => LoadIn(a, b) /\ b # Cb(a, 1)
    BY <1>4 DEF LoadIn, AgendaFits
<1>8. \A k \in DOMAIN t : t[k].op = "load" => \E l \in 2 .. Len(a) : t[k] = a[l]
    BY <1>4, Zenon
<1> QED
    BY <1>1, <1>5, <1>6, <1>7, <1>8, Zenon DEF Fronts

Prepends(z, t, p) ==
    /\ AgendaFits(z) /\ \A k \in DOMAIN z : z[k].op = "load"
    /\ \A b \in Cbs : LoadIn(z, b) => LoadIn(t, b) \/ b = <<p, 1>>
    /\ \A k \in DOMAIN z : k # 1 => \E l \in DOMAIN t : z[k] = t[l]
    /\ Cb(z, 1) = <<p, 1>>

LEMMA Prepended ==
    ASSUME NEW t, AgendaFits(t), \A k \in DOMAIN t : t[k].op = "load",
           NEW p \in Nat, \A k \in DOMAIN t : t[k].r # p,
           NEW z, z = <<[op |-> "load", r |-> p, i |-> 1]>> \o t
    PROVE  Prepends(z, t, p)
<1> DEFINE x == [op |-> "load", r |-> p, i |-> 1]
<1>1. x \in Entries /\ x.op = "load" /\ x.r = p /\ <<x.r, x.i>> = <<p, 1>>
    BY DEF Entries
<1>2. t \in Seq(Entries) /\ DOMAIN t = 1 .. Len(t) /\ Len(t) \in Nat
    BY DEF AgendaFits
<1> HIDE DEF x
<1>3. /\ z \in Seq(Entries) /\ DOMAIN z = 1 .. Len(t) + 1 /\ z[1] = x
      /\ \A k \in 2 .. Len(t) + 1 : z[k] = t[k - 1] /\ k - 1 \in 1 .. Len(t)
    BY <1>1, <1>2 DEF x
<1>4. \A k \in DOMAIN z : k # 1 => /\ z[k] = t[k - 1] /\ k - 1 \in DOMAIN t /\ k \in Nat
                                   /\ Cb(z, k) = Cb(t, k - 1) /\ z[k].r # p /\ z[k].op = "load"
    BY <1>2, <1>3 DEF Cb
<1>5. Cb(z, 1) = <<p, 1>> /\ z[1].op = "load" /\ z[1].r = p
    BY <1>1, <1>3 DEF Cb
<1>6. ASSUME NEW k \in DOMAIN z, NEW l \in DOMAIN z, Cb(z, k) = Cb(z, l)
      PROVE  k = l
    <2>0. z[k].r = z[l].r
        BY <1>6 DEF Cb
    <2>1. CASE k # 1 /\ l # 1
        <3>1. k - 1 = l - 1
            BY <1>4, <1>6, <2>1, SMTT(60) DEF AgendaFits
        <3> QED
            BY <1>4, <2>1, <3>1
    <2>2. CASE k = 1 \/ l = 1
        BY <2>0, <2>2, <1>4, <1>5
    <2> QED
        BY <2>1, <2>2
<1>7. \A k \in DOMAIN z : z[k].op = "load"
    BY <1>4, <1>5
<1>8. AgendaFits(z)
    BY <1>3, <1>6, <1>7 DEF AgendaFits
<1>9. \A b \in Cbs : LoadIn(z, b) => LoadIn(t, b) \/ b = <<p, 1>>
    <2> SUFFICES ASSUME NEW b \in Cbs, NEW k \in DOMAIN z, Cb(z, k) = b
                 PROVE  LoadIn(t, b) \/ b = <<p, 1>>
        BY DEF LoadIn
    <2>1. CASE k = 1
        BY <1>5, <2>1
    <2>2. CASE k # 1
        BY <1>4, <2>2 DEF LoadIn
    <2> QED
        BY <2>1, <2>2
<1>10. \A k \in DOMAIN z : k # 1 => \E l \in DOMAIN t : z[k] = t[l]
    BY <1>4, Zenon
<1> QED
    BY <1>5, <1>7, <1>8, <1>9, <1>10 DEF Prepends

(* While the first step asks for a resource, nobody is to be called.       *)
LEMMA OnlyLoads ==
    ASSUME NEW a, AgendaFits(a), a # <<>>, a[1].op = "load"
    PROVE  /\ \A k \in DOMAIN a : a[k].op = "load"
           /\ \A b \in Cbs : ~CallIn(a, b)
           /\ 1 \in DOMAIN a /\ Cb(a, 1) \in Cbs /\ LoadIn(a, Cb(a, 1)) /\ Head(a) = a[1]
<1>1. a \in Seq(Entries) /\ DOMAIN a = 1 .. Len(a) /\ Len(a) \in Nat /\ Len(a) > 0
    BY DEF AgendaFits
<1>2. 1 \in DOMAIN a /\ Head(a) = a[1] /\ a[1] \in Entries
    BY <1>1
<1>3. \A k \in DOMAIN a : a[k] \in Entries /\ (k # 1 => 1 < k)
    BY <1>1
<1>4. \A k \in DOMAIN a : a[k].op = "load"
    <2> SUFFICES ASSUME NEW k \in DOMAIN a, a[k].op # "load"
                 PROVE  FALSE
        OBVIOUS
    <2>1. a[k].op = "call"
        BY <1>3 DEF Entries
    <2>2. k # 1
        OBVIOUS
    <2> QED
        BY <1>2, <1>3, <2>1, <2>2 DEF AgendaFits
<1>5. \A b \in Cbs : ~CallIn(a, b)
    BY <1>4 DEF CallIn
<1>6. Cb(a, 1) \in Cbs /\ LoadIn(a, Cb(a, 1))
    BY <1>2, <1>4 DEF Cb, Cbs, Entries, LoadIn
<1> QED
    BY <1>2, <1>4, <1>5, <1>6

LEMMA NothingToDo ==
    /\ AgendaFits(<<>>)
    /\ \A b \in Cbs : ~CallIn(<<>>, b) /\ ~LoadIn(<<>>, b)
    BY DEF AgendaFits, CallIn, LoadIn

-----------------------------------------------------------------------------
(* Who waits in the list of a resource: an item that has not come, and     *)
(* that nobody else has taken over.                                        *)
Held(b, n) == handler[n] # Absent /\ In(handler[n], b)

Waiting ==
    /\ \A n \in Names : handler[n] # Absent => handler[n] \in Seq(Cbs) /\ IsOnce(handler[n])
    /\ \A n \in Names : \A b \in Cbs : Held(b, n) =>
          /\ Is(asks, b) /\ Item(asks, b) = n /\ ~Came(asks, b)
          /\ \A q \in DOMAIN asks : ~Under(asks, b, q)

(* Who was taken over by a forced call: it asks for the same resource,     *)
(* which has come for it if and only if it has come for them.              *)
TakenOver ==
    \A q \in DOMAIN asks : \A b \in Cbs : Under(asks, b, q) =>
        /\ Is(asks, b) /\ Is(asks, <<q, 1>>) /\ Len(asks[q].items) = 1
        /\ Item(asks, b) = Item(asks, <<q, 1>>)
        /\ Came(asks, b) <=> Came(asks, <<q, 1>>)
        /\ \A p \in DOMAIN asks : Under(asks, b, p) => p = q

(* What is still to be done by the call that runs.                         *)
Planned ==
    /\ AgendaFits(agenda)
    /\ \A b \in Cbs : CallIn(agenda, b) =>
          /\ Is(asks, b) /\ Came(asks, b)
          /\ \A q \in DOMAIN asks : Under(asks, b, q) => answered[q] > 0
    /\ \A b \in Cbs : LoadIn(agenda, b) =>
          /\ Is(asks, b) /\ ~Came(asks, b)
          /\ \A n \in Names : ~Held(b, n)
          /\ \A q \in DOMAIN asks : ~Under(asks, b, q)
    /\ \A k \in DOMAIN agenda :
          agenda[k].op = "load" /\ asks[agenda[k].r].then # <<>> =>
              k = 1 /\ handler[Item(asks, Cb(agenda, k))] = Absent

(* Those that this call will reach, at once or through forced calls: all   *)
(* wait for one resource, and are answered after the forced call.          *)
Due(W) ==
    /\ \A b \in W : b \in Cbs /\ Is(asks, b)
    /\ \A b, c \in W : Item(asks, b) = Item(asks, c)
    /\ \A b \in Cbs : CallIn(agenda, b) => b \in W
    /\ \A q \in DOMAIN asks : \A b \in Cbs : <<q, 1>> \in W /\ Under(asks, b, q) =>
          b \in W /\ (answered[b[1]] > 0 => answered[q] > 0)

AnsweredOnce ==
    \A r \in DOMAIN asks : answered[r] > 0 =>
        /\ answered[r] = 1
        /\ \A i \in DOMAIN asks[r].items :
              Came(asks, <<r, i>>) /\ ~CallIn(agenda, <<r, i>>)

CallbacksInv ==
    /\ AsksFit(asks) /\ answered \in Seq(Nat) /\ DOMAIN answered = DOMAIN asks
    /\ Waiting /\ TakenOver /\ Planned /\ AnsweredOnce
    /\ \E W \in SUBSET Cbs : Due(W)
    /\ \A b \in Cbs : Is(asks, b) /\ Came(asks, b) => Item(asks, b) \in there

(* Names that have an element, for a component that is known.              *)
HasElement(n) == \E k \in DOMAIN known : comRes[known[k]][n] # 0

ElementsInv ==
    /\ handler \in [Names -> Seq(Cbs) \cup {Absent}]
    /\ \A l \in loads : l[1] \in Names /\ l[2] \in DOMAIN attr
    /\ attr \in Seq(SUBSET Comps) /\ known \in Seq(Comps)
    /\ comRes \in [Comps -> [Names -> 0 .. Len(attr)]]
    /\ there \subseteq Names /\ lost \subseteq Names /\ thrown \subseteq DOMAIN asks
    /\ \A n \in Names : handler[n] # Absent =>
          /\ handler[n] = <<>> => n \in there
          /\ handler[n] # <<>> /\ n \notin lost => \E l \in loads : l[1] = n
          /\ HasElement(n)

OdflInv == CallbacksInv /\ ElementsInv

LoaderInv == DialogInv /\ MessageInv /\ OdflInv

LEMMA NobodyDue ==
    ASSUME \A b \in Cbs : ~CallIn(agenda, b)'
    PROVE  \E W \in SUBSET Cbs : Due(W)'
<1>1. Due({})'
    BY Zenon DEF Due
<1> QED
    BY <1>1

-----------------------------------------------------------------------------
LEMMA ItemNames ==
    ASSUME AsksFit(asks), NEW b \in Cbs, Is(asks, b)
    PROVE  Item(asks, b) \in Names /\ b[1] \in DOMAIN asks /\ b = <<b[1], b[2]>>
           /\ b[2] \in Nat
<1>1. b[1] \in DOMAIN asks /\ b[2] \in DOMAIN asks[b[1]].items
    BY DEF Is
<1>2. asks[b[1]].items \in Seq(Names)
    BY <1>1, AskParts
<1>3. Item(asks, b) \in Names
    BY <1>1, <1>2 DEF Item
<1> QED
    BY <1>1, <1>3 DEF Cbs

(* A page asks: nobody waits for the new call yet.                         *)
LEMMA ForceCallbacks ==
    ASSUME OdflInv, Odfl!Force
    PROVE  CallbacksInv'
<1>1. PICK items \in Odfl!Lists, comp \in Comps, again \in BOOLEAN :
          /\ Odfl!IsInjective(items)
          /\ Odfl!Ask(items, comp, again, <<>>)
          /\ agenda' = [i \in DOMAIN items |-> [op |-> "load", r |-> Len(asks) + 1, i |-> i]]
    BY DEF Odfl!Force
<1>2. agenda = <<>> /\ UNCHANGED <<handler, there>>
    BY DEF Odfl!Force
<1>3. items \in Seq(Names) /\ IsOnce(items)
    BY <1>1 DEF Odfl!Lists, Names, Odfl!IsInjective, IsOnce
<1>4. PICK p : p = Len(asks) + 1
    OBVIOUS
<1>5. <<>> \in Seq(Cbs) /\ IsOnce(<<>>)
    BY DEF IsOnce
<1>h. AsksFit(asks) /\ answered \in Seq(Nat) /\ DOMAIN answered = DOMAIN asks
    BY DEF OdflInv, CallbacksInv
<1>6. /\ AsksFit(asks') /\ Len(asks') = p /\ p \in Nat /\ p \notin DOMAIN asks
      /\ DOMAIN asks' = DOMAIN asks \cup {p} /\ \A q \in DOMAIN asks : asks'[q] = asks[q]
      /\ asks'[p].items = items /\ asks'[p].then = <<>>
      /\ \A b \in Cbs : Is(asks, b) => /\ Is(asks', b) /\ Item(asks', b) = Item(asks, b)
                                       /\ b[1] # p
                                       /\ Came(asks', b) <=> Came(asks, b)
      /\ \A b \in Cbs : /\ Is(asks', b) /\ ~Is(asks, b) => b[1] = p
                        /\ Is(asks', b) /\ b[1] = p => ~Came(asks', b)
      /\ \A b \in Cbs : \A q \in DOMAIN asks : Under(asks', b, q) <=> Under(asks, b, q)
      /\ \A b \in Cbs : Under(asks', b, p) <=> In(<<>>, b)
    <2>1. Grown(asks', asks, p, items, <<>>)
        BY <1>h, <1>1, <1>3, <1>4, <1>5, OneMoreAsk DEF Odfl!Ask
    <2> QED
        BY <2>1, Zenon DEF Grown
<1>7. \A b \in Cbs : ~Under(asks', b, p)
    BY <1>6 DEF In
<1>8. /\ answered' \in Seq(Nat) /\ DOMAIN answered' = DOMAIN asks'
      /\ answered'[p] = 0 /\ \A q \in DOMAIN asks : answered'[q] = answered[q]
    BY <1>h, <1>1, <1>4, <1>6, AskParts DEF Odfl!Ask
<1>9. /\ AgendaFits(agenda') /\ \A b \in Cbs : ~CallIn(agenda', b)
      /\ \A b \in Cbs : LoadIn(agenda', b) => b[1] = p /\ Is(asks', b)
      /\ \A k \in DOMAIN agenda' : agenda'[k].r = p
    <2>1. PICK m \in Nat : DOMAIN items = 1 .. m
        BY <1>3
    <2>2. /\ DOMAIN agenda' = 1 .. m /\ agenda' \in [1 .. m -> Entries]
          /\ \A k \in 1 .. m : agenda'[k] = [op |-> "load", r |-> p, i |-> k]
        BY <1>1, <1>4, <1>6, <2>1 DEF Entries
    <2>3. agenda' \in Seq(Entries)
        BY <2>2
    <2>4. \A k \in 1 .. m : agenda'[k].op = "load" /\ agenda'[k].r = p /\ Cb(agenda', k) = <<p, k>>
        BY <2>2 DEF Cb
    <2>5. AgendaFits(agenda')
        BY <2>2, <2>3, <2>4 DEF AgendaFits
    <2>6. \A b \in Cbs : ~CallIn(agenda', b)
        BY <2>2, <2>4 DEF CallIn
    <2>7. \A b \in Cbs : LoadIn(agenda', b) => b[1] = p /\ Is(asks', b)
        BY <2>1, <2>2, <2>4, <1>6 DEF LoadIn, Is
    <2> QED
        BY <2>2, <2>4, <2>5, <2>6, <2>7
<1>10. \A b \in Cbs, n \in Names : Held(b, n)' <=> Held(b, n)
    BY <1>2 DEF Held
<1>11. Waiting'
    <2>1. \A n \in Names : handler'[n] # Absent => handler'[n] \in Seq(Cbs) /\ IsOnce(handler'[n])
        BY <1>2 DEF OdflInv, CallbacksInv, Waiting
    <2>2. ASSUME NEW n \in Names, NEW b \in Cbs, Held(b, n)
          PROVE  /\ Is(asks', b) /\ Item(asks', b) = n /\ ~Came(asks', b)
                 /\ \A q \in DOMAIN asks' : ~Under(asks', b, q)
        BY <2>2, <1>6, <1>7, ZenonT(60) DEF OdflInv, CallbacksInv, Waiting
    <2> QED
        BY <2>1, <2>2, <1>10 DEF Waiting
<1>12. TakenOver'
    <2> SUFFICES ASSUME NEW q \in DOMAIN asks', NEW b \in Cbs, Under(asks', b, q)
                 PROVE  /\ Is(asks', b) /\ Is(asks', <<q, 1>>) /\ Len(asks'[q].items) = 1
                        /\ Item(asks', b) = Item(asks', <<q, 1>>)
                        /\ Came(asks', b) <=> Came(asks', <<q, 1>>)
                        /\ \A u \in DOMAIN asks' : Under(asks', b, u) => u = q
        BY DEF TakenOver
    <2>1. q \in DOMAIN asks /\ Under(asks, b, q)
        BY <1>6, <1>7
    <2>2. <<q, 1>> \in Cbs
        BY <2>1, <1>h, AskParts DEF Cbs
    <2>3. /\ Is(asks, b) /\ Is(asks, <<q, 1>>) /\ Len(asks[q].items) = 1
          /\ Item(asks, b) = Item(asks, <<q, 1>>)
          /\ Came(asks, b) <=> Came(asks, <<q, 1>>)
          /\ \A u \in DOMAIN asks : Under(asks, b, u) => u = q
        BY <2>1 DEF OdflInv, CallbacksInv, TakenOver
    <2>4. /\ Is(asks', b) /\ Is(asks', <<q, 1>>) /\ asks'[q] = asks[q]
          /\ Item(asks', b) = Item(asks', <<q, 1>>)
          /\ Came(asks', b) <=> Came(asks', <<q, 1>>)
        BY <2>1, <2>2, <2>3, <1>6, Zenon
    <2>5. \A u \in DOMAIN asks' : Under(asks', b, u) => u = q
        BY <2>3, <1>6, <1>7, Zenon
    <2> QED
        BY <2>3, <2>4, <2>5
<1>13. Planned'
    <2>1. ASSUME NEW b \in Cbs, LoadIn(agenda', b)
          PROVE  /\ Is(asks', b) /\ ~Came(asks', b)
                 /\ \A n \in Names : ~Held(b, n)'
                 /\ \A q \in DOMAIN asks' : ~Under(asks', b, q)
        <3>1. b[1] = p /\ Is(asks', b) /\ ~Came(asks', b) /\ ~Is(asks, b)
            BY <2>1, <1>6, <1>9
        <3>2. \A n \in Names : ~Held(b, n)
            BY <3>1 DEF OdflInv, CallbacksInv, Waiting
        <3>3. \A q \in DOMAIN asks : ~Under(asks, b, q)
            BY <3>1 DEF OdflInv, CallbacksInv, TakenOver
        <3> QED
            BY <3>1, <3>2, <3>3, <1>6, <1>7, <1>10
    <2> QED
        BY <2>1, <1>6, <1>9 DEF Planned
<1>14. AnsweredOnce'
    <2> SUFFICES ASSUME NEW r \in DOMAIN asks', answered'[r] > 0
                 PROVE  /\ answered'[r] = 1
                        /\ \A i \in DOMAIN asks'[r].items :
                              Came(asks', <<r, i>>) /\ ~CallIn(agenda', <<r, i>>)
        BY DEF AnsweredOnce
    <2>1. r \in DOMAIN asks /\ answered[r] > 0
        BY <1>6, <1>8
    <2>2. answered[r] = 1 /\ \A i \in DOMAIN asks[r].items : Came(asks, <<r, i>>)
        BY <2>1 DEF OdflInv, CallbacksInv, AnsweredOnce
    <2>3. \A i \in DOMAIN asks[r].items : <<r, i>> \in Cbs /\ Is(asks, <<r, i>>)
        BY <2>1, <1>h, AskParts DEF Cbs, Is
    <2>4. asks'[r] = asks[r]
        BY <2>1, <1>6
    <2> QED
        BY <2>1, <2>2, <2>3, <2>4, <1>6, <1>8, <1>9
<1>15. \A b \in Cbs : Is(asks', b) /\ Came(asks', b) => Item(asks', b) \in there'
    BY <1>2, <1>6, Zenon DEF OdflInv, CallbacksInv
<1> QED
    BY <1>6, <1>8, <1>9, <1>11, <1>12, <1>13, <1>14, <1>15, NobodyDue DEF CallbacksInv

(* The resource that comes first in what is to be done.                    *)
Asked(b, n) ==
    /\ b \in Cbs /\ n \in Names /\ agenda # <<>> /\ AgendaFits(agenda)
    /\ b = Cb(agenda, 1) /\ Is(asks, b) /\ ~Came(asks, b) /\ n = Item(asks, b)
    /\ b[1] \in DOMAIN asks /\ b[2] \in DOMAIN asks[b[1]].items /\ b = <<b[1], b[2]>>
    /\ \A m \in Names : ~Held(b, m)
    /\ \A q \in DOMAIN asks : ~Under(asks, b, q)
    /\ ~(answered[b[1]] > 0)
    /\ \A c \in Cbs : ~CallIn(agenda, c)
    /\ \A k \in DOMAIN agenda : agenda[k].op = "load"
    /\ handler[n] # Absent => asks[b[1]].then = <<>>
    /\ \A k \in DOMAIN agenda : k # 1 => asks[agenda[k].r].then = <<>>

LEMMA LoadFirst ==
    ASSUME OdflInv, agenda # <<>>, Head(agenda).op = "load"
    PROVE  /\ Asked(Cb(agenda, 1), Item(asks, Cb(agenda, 1)))
           /\ Cb(agenda, 1) = <<Head(agenda).r, Head(agenda).i>>
           /\ Item(asks, Cb(agenda, 1)) = asks[Head(agenda).r].items[Head(agenda).i]
<1>0. PICK b : b = Cb(agenda, 1)
    OBVIOUS
<1>1. AgendaFits(agenda) /\ AsksFit(asks)
    BY DEF OdflInv, CallbacksInv, Planned
<1>2. Head(agenda) = agenda[1] /\ 1 \in DOMAIN agenda
    BY <1>1 DEF AgendaFits
<1>3. /\ \A k \in DOMAIN agenda : agenda[k].op = "load"
      /\ \A c \in Cbs : ~CallIn(agenda, c)
      /\ b \in Cbs /\ LoadIn(agenda, b)
    BY <1>0, <1>1, <1>2, OnlyLoads
<1>4. /\ Is(asks, b) /\ ~Came(asks, b) /\ \A m \in Names : ~Held(b, m)
      /\ \A q \in DOMAIN asks : ~Under(asks, b, q)
    BY <1>3 DEF OdflInv, CallbacksInv, Planned
<1>5. /\ Item(asks, b) \in Names /\ b[1] \in DOMAIN asks /\ b[2] \in DOMAIN asks[b[1]].items
      /\ b = <<b[1], b[2]>>
    BY <1>1, <1>3, <1>4, ItemNames DEF Is
<1>6. ~(answered[b[1]] > 0)
    BY <1>4, <1>5 DEF OdflInv, CallbacksInv, AnsweredOnce
<1>7. agenda[1].r = b[1] /\ agenda[1].i = b[2]
    BY <1>0 DEF Cb
<1>8. handler[Item(asks, b)] # Absent => asks[b[1]].then = <<>>
    BY <1>0, <1>2, <1>3, <1>7 DEF OdflInv, CallbacksInv, Planned
<1>9. \A k \in DOMAIN agenda : k # 1 => asks[agenda[k].r].then = <<>>
    BY <1>3 DEF OdflInv, CallbacksInv, Planned
<1>10. Asked(b, Item(asks, b))
    BY <1>0, <1>1, <1>3, <1>4, <1>5, <1>6, <1>8, <1>9 DEF Asked
<1>11. Item(asks, b) = asks[Head(agenda).r].items[Head(agenda).i]
    BY <1>2, <1>7 DEF Item
<1> QED
    BY <1>0, <1>2, <1>7, <1>10, <1>11 DEF Cb

(* What comes later is asked for by the pages, not by forced calls.        *)
LEMMA RestOfPages ==
    ASSUME OdflInv, NEW l \in 2 .. Len(agenda), agenda[l].op = "load"
    PROVE  agenda[l].r \in DOMAIN asks /\ asks[agenda[l].r].then = <<>>
<1>1. agenda \in Seq(Entries)
    BY DEF OdflInv, CallbacksInv, Planned, AgendaFits
<1>2. l \in DOMAIN agenda /\ l # 1 /\ agenda[l] \in Entries
    BY <1>1
<1>3. Cb(agenda, l) \in Cbs /\ LoadIn(agenda, Cb(agenda, l))
    BY <1>2 DEF Cb, Cbs, Entries, LoadIn
<1>4. Is(asks, Cb(agenda, l))
    BY <1>3 DEF OdflInv, CallbacksInv, Planned
<1>5. agenda[l].r \in DOMAIN asks
    BY <1>4 DEF Is, Cb
<1> QED
    BY <1>2, <1>5 DEF OdflInv, CallbacksInv, Planned

(* While only states change, whoever was taken over stays so.              *)
LEMMA StaysTakenOver ==
    ASSUME OdflInv, Same(asks, asks'),
           \A b \in Cbs : Is(asks, b) /\ Came(asks, b) => Came(asks', b),
           \A q \in DOMAIN asks : \A b \in Cbs :
              Under(asks, b, q) => (Came(asks', b) <=> Came(asks', <<q, 1>>))
    PROVE  TakenOver'
<1> SUFFICES ASSUME NEW q \in DOMAIN asks', NEW b \in Cbs, Under(asks', b, q)
             PROVE  /\ Is(asks', b) /\ Is(asks', <<q, 1>>) /\ Len(asks'[q].items) = 1
                    /\ Item(asks', b) = Item(asks', <<q, 1>>)
                    /\ Came(asks', b) <=> Came(asks', <<q, 1>>)
                    /\ \A u \in DOMAIN asks' : Under(asks', b, u) => u = q
    BY DEF TakenOver
<1>1. q \in DOMAIN asks /\ Under(asks, b, q) /\ DOMAIN asks' = DOMAIN asks
    BY DEF Same
<1>2. <<q, 1>> \in Cbs
    BY <1>1, AskParts DEF Cbs, OdflInv, CallbacksInv
<1>3. /\ Is(asks, b) /\ Is(asks, <<q, 1>>) /\ Len(asks[q].items) = 1
      /\ Item(asks, b) = Item(asks, <<q, 1>>)
      /\ \A u \in DOMAIN asks : Under(asks, b, u) => u = q
    BY <1>1 DEF OdflInv, CallbacksInv, TakenOver
<1>4. /\ Is(asks', b) /\ Is(asks', <<q, 1>>) /\ asks'[q].items = asks[q].items
      /\ Item(asks', b) = Item(asks, b) /\ Item(asks', <<q, 1>>) = Item(asks, <<q, 1>>)
    BY <1>1, <1>2, <1>3, Zenon DEF Same
<1>5. \A u \in DOMAIN asks' : Under(asks', b, u) => u = q
    BY <1>1, <1>3, Zenon DEF Same
<1> QED
    BY <1>1, <1>3, <1>4, <1>5

(* Who was answered stays answered once, if the items that had come stay   *)
(* so and no new call is planned for them.                                 *)
LEMMA StaysAnswered ==
    ASSUME OdflInv, Same(asks, asks'), answered' = answered,
           \A b \in Cbs : Is(asks, b) /\ Came(asks, b) => Came(asks', b),
           \A b \in Cbs : Is(asks, b) /\ answered[b[1]] > 0 /\ ~CallIn(agenda, b) =>
              ~CallIn(agenda', b)
    PROVE  AnsweredOnce' /\ answered' \in Seq(Nat) /\ DOMAIN answered' = DOMAIN asks'
<1> SUFFICES ASSUME NEW r \in DOMAIN asks', answered'[r] > 0
             PROVE  /\ answered'[r] = 1
                    /\ \A i \in DOMAIN asks'[r].items :
                          Came(asks', <<r, i>>) /\ ~CallIn(agenda', <<r, i>>)
    BY DEF AnsweredOnce, OdflInv, CallbacksInv, Same
<1>1. r \in DOMAIN asks /\ asks'[r].items = asks[r].items /\ answered[r] > 0
    BY DEF Same
<1>2. answered[r] = 1 /\ \A i \in DOMAIN asks[r].items :
                            Came(asks, <<r, i>>) /\ ~CallIn(agenda, <<r, i>>)
    BY <1>1 DEF OdflInv, CallbacksInv, AnsweredOnce
<1>3. ASSUME NEW i \in DOMAIN asks[r].items
      PROVE  <<r, i>> \in Cbs /\ Is(asks, <<r, i>>) /\ <<r, i>>[1] = r
    BY <1>1, AskParts DEF Cbs, Is, OdflInv, CallbacksInv
<1> QED
    BY <1>1, <1>2, <1>3

(* An item waits in the list of its resource.                              *)
LEMMA WaitCallbacks ==
    ASSUME OdflInv, NEW b, NEW n, Asked(b, n),
           asks' = [asks EXCEPT ![b[1]].state[b[2]] = "LOADING"],
           UNCHANGED <<answered, there>>, agenda' = Tail(agenda),
           \A m \in Names : m # n => handler'[m] = handler[m],
           handler'[n] \in Seq(Cbs) /\ IsOnce(handler'[n]),
           \A c \in Cbs : In(handler'[n], c) => Held(c, n) \/ c = b
    PROVE  CallbacksInv'
<1>h. AsksFit(asks) /\ answered \in Seq(Nat) /\ DOMAIN answered = DOMAIN asks
    BY DEF OdflInv, CallbacksInv
<1>b. b \in Cbs /\ Is(asks, b) /\ n \in Names /\ Item(asks, b) = n /\ ~Came(asks, b)
    BY DEF Asked
<1>1. /\ Same(asks, asks')
      /\ \A c \in Cbs : Is(asks, c) /\ c # b => (Came(asks', c) <=> Came(asks, c))
      /\ ~Came(asks', b)
    <2>1. Marks(asks', asks, b, "LOADING")
        BY <1>h, <1>b, Marked DEF ResState
    <2> QED
        BY <2>1 DEF Marks
<1>2. \A c \in Cbs : Is(asks, c) => (Came(asks', c) <=> Came(asks, c))
    BY <1>1, <1>b
<1>3. \A c \in Cbs, m \in Names : Held(c, m)' => Held(c, m) \/ (c = b /\ m = n)
    <2> SUFFICES ASSUME NEW c \in Cbs, NEW m \in Names, Held(c, m)'
                 PROVE  Held(c, m) \/ (c = b /\ m = n)
        OBVIOUS
    <2>1. CASE m = n
        BY <2>1 DEF Held
    <2>2. CASE m # n
        BY <2>2 DEF Held
    <2> QED
        BY <2>1, <2>2
<1>4. Waiting'
    <2>1. \A m \in Names : handler'[m] # Absent => handler'[m] \in Seq(Cbs) /\ IsOnce(handler'[m])
        BY DEF OdflInv, CallbacksInv, Waiting
    <2>2. ASSUME NEW m \in Names, NEW c \in Cbs, Held(c, m)'
          PROVE  /\ Is(asks', c) /\ Item(asks', c) = m /\ ~Came(asks', c)
                 /\ \A q \in DOMAIN asks' : ~Under(asks', c, q)
        <3>1. /\ Is(asks, c) /\ Item(asks, c) = m /\ ~Came(asks, c)
              /\ \A q \in DOMAIN asks : ~Under(asks, c, q)
            BY <2>2, <1>3 DEF OdflInv, CallbacksInv, Waiting, Asked
        <3> QED
            BY <3>1, <1>1, <1>2, Zenon DEF Same
    <2> QED
        BY <2>1, <2>2 DEF Waiting
<1>5. TakenOver'
    <2>1. \A q \in DOMAIN asks : \A c \in Cbs :
              Under(asks, c, q) => (Came(asks', c) <=> Came(asks', <<q, 1>>))
        <3> SUFFICES ASSUME NEW q \in DOMAIN asks, NEW c \in Cbs, Under(asks, c, q)
                     PROVE  Came(asks', c) <=> Came(asks', <<q, 1>>)
            OBVIOUS
        <3>1. <<q, 1>> \in Cbs /\ Is(asks, c) /\ Is(asks, <<q, 1>>)
              /\ (Came(asks, c) <=> Came(asks, <<q, 1>>))
            BY <1>h, AskParts DEF Cbs, OdflInv, CallbacksInv, TakenOver
        <3> QED
            BY <3>1, <1>2
    <2> QED
        BY <1>1, <1>2, <2>1, StaysTakenOver
<1>6. Fronts(agenda', <<>>, agenda)
    BY Popped DEF Asked
<1>7. /\ AgendaFits(agenda') /\ \A c \in Cbs : ~CallIn(agenda', c)
      /\ \A c \in Cbs : LoadIn(agenda', c) => LoadIn(agenda, c) /\ c # b
      /\ \A k \in DOMAIN agenda' : agenda'[k].op = "load" =>
            \E l \in 2 .. Len(agenda) : agenda'[k] = agenda[l]
    BY <1>6 DEF Fronts, Asked, In
<1>8. Planned'
    <2>1. ASSUME NEW c \in Cbs, LoadIn(agenda', c)
          PROVE  /\ Is(asks', c) /\ ~Came(asks', c)
                 /\ \A m \in Names : ~Held(c, m)'
                 /\ \A q \in DOMAIN asks' : ~Under(asks', c, q)
        <3>1. /\ c # b /\ Is(asks, c) /\ ~Came(asks, c) /\ \A m \in Names : ~Held(c, m)
              /\ \A q \in DOMAIN asks : ~Under(asks, c, q)
            BY <2>1, <1>7 DEF OdflInv, CallbacksInv, Planned
        <3>2. \A m \in Names : ~Held(c, m)'
            BY <3>1, <1>3
        <3>3. Is(asks', c) /\ ~Came(asks', c) /\ \A q \in DOMAIN asks' : ~Under(asks', c, q)
            BY <3>1, <1>1, <1>2, Zenon DEF Same
        <3> QED
            BY <3>2, <3>3
    <2>2. ASSUME NEW k \in DOMAIN agenda', agenda'[k].op = "load"
          PROVE  asks'[agenda'[k].r].then = <<>>
        <3>1. PICK l \in 2 .. Len(agenda) : agenda'[k] = agenda[l]
            BY <2>2, <1>7
        <3>2. agenda[l].r \in DOMAIN asks /\ asks[agenda[l].r].then = <<>>
            BY <2>2, <3>1, RestOfPages DEF Asked
        <3> QED
            BY <3>1, <3>2, <1>1 DEF Same
    <2> QED
        BY <2>1, <2>2, <1>7 DEF Planned
<1>9. AnsweredOnce' /\ answered' \in Seq(Nat) /\ DOMAIN answered' = DOMAIN asks'
    BY <1>1, <1>2, <1>7, StaysAnswered
<1>10. \A c \in Cbs : Is(asks', c) /\ Came(asks', c) => Item(asks', c) \in there'
    BY <1>1, <1>2, Zenon DEF OdflInv, CallbacksInv, Same
<1> QED
    BY <1>1, <1>4, <1>5, <1>7, <1>8, <1>9, <1>10, NobodyDue DEF CallbacksInv, Same

(* What was waited for is dropped, and the call ends: remove, a file that  *)
(* fails, an error.                                                        *)
LEMMA DropCallbacks ==
    ASSUME OdflInv, UNCHANGED <<asks, answered, there>>, agenda' = <<>>,
           \A n \in Names : handler'[n] \in {Absent, handler[n]}
    PROVE  CallbacksInv'
<1>1. \A b \in Cbs : \A n \in Names : Held(b, n)' => Held(b, n)
    BY DEF Held
<1>2. Waiting'
    BY <1>1 DEF Waiting, OdflInv, CallbacksInv
<1>3. TakenOver'
    BY DEF TakenOver, OdflInv, CallbacksInv
<1>4. Planned' /\ \A b \in Cbs : ~CallIn(agenda', b)
    BY NothingToDo DEF Planned
<1>5. AnsweredOnce'
    BY <1>4, AskParts, SMTT(60) DEF AnsweredOnce, OdflInv, CallbacksInv, Cbs
<1> QED
    BY <1>2, <1>3, <1>4, <1>5, NobodyDue DEF CallbacksInv, OdflInv

(* A resource that is there: the item is called back at once.              *)
LEMMA ReadyCallbacks ==
    ASSUME OdflInv, NEW b, NEW n, Asked(b, n), handler[n] # Absent, handler[n] = <<>>,
           asks' = [asks EXCEPT ![b[1]].state[b[2]] = "LOADED"],
           UNCHANGED <<answered, there, handler>>,
           agenda' = Odfl!Call(<<b>>) \o Tail(agenda)
    PROVE  CallbacksInv'
<1>h. AsksFit(asks) /\ answered \in Seq(Nat) /\ DOMAIN answered = DOMAIN asks
    BY DEF OdflInv, CallbacksInv
<1>b. /\ b \in Cbs /\ Is(asks, b) /\ n \in Names /\ Item(asks, b) = n /\ ~Came(asks, b)
      /\ asks[b[1]].then = <<>> /\ b[1] \in DOMAIN asks /\ b = <<b[1], b[2]>>
      /\ b = Cb(agenda, 1) /\ ~(answered[b[1]] > 0) /\ AgendaFits(agenda) /\ agenda # <<>>
      /\ \A m \in Names : ~Held(b, m)
      /\ \A q \in DOMAIN asks : ~Under(asks, b, q)
    BY DEF Asked
<1>1. /\ Same(asks, asks')
      /\ \A c \in Cbs : Is(asks, c) /\ c # b => (Came(asks', c) <=> Came(asks, c))
      /\ Came(asks', b)
    <2>1. Marks(asks', asks, b, "LOADED")
        BY <1>h, <1>b, Marked DEF ResState
    <2> QED
        BY <2>1 DEF Marks
<1>2. \A c \in Cbs : Is(asks, c) /\ Came(asks, c) => Came(asks', c)
    BY <1>1, <1>b
<1>3. Waiting'
    <2> SUFFICES ASSUME NEW m \in Names, NEW c \in Cbs, Held(c, m)
                 PROVE  /\ Is(asks', c) /\ Item(asks', c) = m /\ ~Came(asks', c)
                        /\ \A q \in DOMAIN asks' : ~Under(asks', c, q)
        BY DEF Waiting, Held, OdflInv, CallbacksInv
    <2>1. /\ Is(asks, c) /\ Item(asks, c) = m /\ ~Came(asks, c) /\ c # b
          /\ \A q \in DOMAIN asks : ~Under(asks, c, q)
        BY <1>b DEF OdflInv, CallbacksInv, Waiting
    <2> QED
        BY <2>1, <1>1, Zenon DEF Same
<1>4. TakenOver'
    <2>1. ASSUME NEW q \in DOMAIN asks, NEW c \in Cbs, Under(asks, c, q)
          PROVE  Came(asks', c) <=> Came(asks', <<q, 1>>)
        <3>1. /\ <<q, 1>> \in Cbs /\ Is(asks, c) /\ Is(asks, <<q, 1>>)
              /\ Came(asks, c) <=> Came(asks, <<q, 1>>)
            BY <2>1, <1>h, AskParts DEF Cbs, OdflInv, CallbacksInv, TakenOver
        <3>2. c # b
            BY <2>1, <1>b
        <3>3. <<q, 1>> # b
            BY <2>1, <1>b DEF Under, In
        <3> QED
            BY <3>1, <3>2, <3>3, <1>1
    <2> QED
        BY <1>1, <1>2, <2>1, StaysTakenOver
<1>5. Fronts(agenda', <<b>>, agenda)
    <2>1. <<b>> \in Seq(Cbs) /\ IsOnce(<<b>>) /\ \A c \in Cbs : In(<<b>>, c) => c = b
        BY <1>b DEF IsOnce, In
    <2>2. \A l \in 2 .. Len(agenda) : Cb(agenda, l) # b
        BY <1>b DEF AgendaFits
    <2>3. \A c \in Cbs : In(<<b>>, c) => \A l \in 2 .. Len(agenda) : Cb(agenda, l) # c
        BY <2>1, <2>2
    <2> QED
        BY <1>b, <2>1, <2>3, CalledFirst
<1>6. /\ AgendaFits(agenda') /\ \A c \in Cbs : CallIn(agenda', c) => c = b
      /\ \A c \in Cbs : LoadIn(agenda', c) => LoadIn(agenda, c) /\ c # b
      /\ \A k \in DOMAIN agenda' : agenda'[k].op = "load" =>
            \E l \in 2 .. Len(agenda) : agenda'[k] = agenda[l]
    BY <1>5 DEF Fronts, Asked, In
<1>7. Planned'
    <2>1. ASSUME NEW c \in Cbs, LoadIn(agenda', c)
          PROVE  /\ Is(asks', c) /\ ~Came(asks', c)
                 /\ \A m \in Names : ~Held(c, m)'
                 /\ \A q \in DOMAIN asks' : ~Under(asks', c, q)
        <3>1. /\ c # b /\ Is(asks, c) /\ ~Came(asks, c) /\ \A m \in Names : ~Held(c, m)
              /\ \A q \in DOMAIN asks : ~Under(asks, c, q)
            BY <2>1, <1>6 DEF OdflInv, CallbacksInv, Planned
        <3>2. \A m \in Names : ~Held(c, m)'
            BY <3>1 DEF Held
        <3>3. Is(asks', c) /\ ~Came(asks', c) /\ \A q \in DOMAIN asks' : ~Under(asks', c, q)
            BY <3>1, <1>1, Zenon DEF Same
        <3> QED
            BY <3>2, <3>3
    <2>2. ASSUME NEW k \in DOMAIN agenda', agenda'[k].op = "load"
          PROVE  asks'[agenda'[k].r].then = <<>>
        <3>1. PICK l \in 2 .. Len(agenda) : agenda'[k] = agenda[l]
            BY <2>2, <1>6
        <3>2. agenda[l].r \in DOMAIN asks /\ asks[agenda[l].r].then = <<>>
            BY <2>2, <3>1, RestOfPages
        <3> QED
            BY <3>1, <3>2, <1>1 DEF Same
    <2>3. Is(asks', b) /\ \A q \in DOMAIN asks' : ~Under(asks', b, q)
        BY <1>b, <1>1, Zenon DEF Same
    <2> QED
        BY <2>1, <2>2, <2>3, <1>1, <1>6 DEF Planned
<1>8. AnsweredOnce' /\ answered' \in Seq(Nat) /\ DOMAIN answered' = DOMAIN asks'
    <2>1. \A c \in Cbs : Is(asks, c) /\ answered[c[1]] > 0 /\ ~CallIn(agenda, c) =>
              ~CallIn(agenda', c)
        BY <1>b, <1>6
    <2> QED
        BY <1>1, <1>2, <2>1, StaysAnswered
<1>9. \A c \in Cbs : Is(asks', c) /\ Came(asks', c) => Item(asks', c) \in there'
    <2>1. n \in there
        BY <1>b DEF OdflInv, ElementsInv
    <2> SUFFICES ASSUME NEW c \in Cbs, Is(asks', c), Came(asks', c)
                 PROVE  Item(asks', c) \in there
        OBVIOUS
    <2>2. Is(asks, c) /\ Item(asks', c) = Item(asks, c)
        BY <1>1, Zenon DEF Same
    <2>3. CASE c = b
        BY <2>1, <2>2, <2>3, <1>b
    <2>4. CASE c # b
        BY <2>2, <2>4, <1>1 DEF OdflInv, CallbacksInv
    <2> QED
        BY <2>3, <2>4
<1>10. Due({b})'
    <2>1. Is(asks', b)
        BY <1>b, <1>1, Zenon DEF Same
    <2>2. \A q \in DOMAIN asks' : \A c \in Cbs : <<q, 1>> \in {b} => ~Under(asks', c, q)
        <3> SUFFICES ASSUME NEW q \in DOMAIN asks', NEW c \in Cbs, <<q, 1>> = b, Under(asks', c, q)
                     PROVE  FALSE
            OBVIOUS
        <3>1. q = b[1]
            OBVIOUS
        <3>2. asks'[q].then = <<>>
            BY <3>1, <1>b, <1>1 DEF Same
        <3> QED
            BY <3>2 DEF Under, In
    <2> QED
        BY <1>b, <1>6, <2>1, <2>2 DEF Due
<1>11. \E W \in SUBSET Cbs : Due(W)'
    BY <1>10, <1>b
<1> QED
    BY <1>1, <1>3, <1>4, <1>6, <1>7, <1>8, <1>9, <1>11 DEF CallbacksInv, Same

(* A resource is asked for again: a new call takes over who waits for it.  *)
LEMMA AgainCallbacks ==
    ASSUME OdflInv, NEW b, NEW n, Asked(b, n), handler[n] # Absent, NEW p, p = Len(asks) + 1,
           NEW comp \in Comps, Odfl!Ask(<<n>>, comp, TRUE, Append(handler[n], b)),
           UNCHANGED there, handler' = [handler EXCEPT ![n] = Absent],
           agenda' = <<[op |-> "load", r |-> p, i |-> 1]>> \o Tail(agenda)
    PROVE  CallbacksInv'
<1>h. AsksFit(asks) /\ answered \in Seq(Nat) /\ DOMAIN answered = DOMAIN asks
    BY DEF OdflInv, CallbacksInv
<1>b. /\ b \in Cbs /\ Is(asks, b) /\ n \in Names /\ Item(asks, b) = n /\ ~Came(asks, b)
      /\ b = Cb(agenda, 1) /\ AgendaFits(agenda) /\ agenda # <<>>
      /\ \A m \in Names : ~Held(b, m)
      /\ \A q \in DOMAIN asks : ~Under(asks, b, q)
    BY DEF Asked
<1>1. PICK then : then = Append(handler[n], b)
    OBVIOUS
<1>2. /\ then \in Seq(Cbs) /\ IsOnce(then)
      /\ \A c \in Cbs : In(then, c) => Held(c, n) \/ c = b
    <2>1. handler[n] \in Seq(Cbs) /\ IsOnce(handler[n])
        BY <1>b DEF OdflInv, CallbacksInv, Waiting
    <2>2. PICK h \in Seq(Cbs) : h = handler[n] /\ IsOnce(h)
        BY <2>1
    <2>3. \A k \in DOMAIN h : h[k] # b
        BY <2>2, <1>b DEF Held, In
    <2>4. /\ then \in Seq(Cbs) /\ DOMAIN then = 1 .. Len(h) + 1 /\ DOMAIN h = 1 .. Len(h)
          /\ then[Len(h) + 1] = b /\ \A k \in DOMAIN h : then[k] = h[k] /\ Len(h) \in Nat
        BY <1>1, <1>b, <2>2
    <2>5. \A k \in DOMAIN then : k = Len(h) + 1 \/ k \in DOMAIN h
        BY <2>4
    <2>6. ASSUME NEW k \in DOMAIN then, NEW l \in DOMAIN then, then[k] = then[l]
          PROVE  k = l
        <3>1. CASE k \in DOMAIN h /\ l \in DOMAIN h
            BY <2>2, <2>4, <2>6, <3>1 DEF IsOnce
        <3>2. CASE k = Len(h) + 1 \/ l = Len(h) + 1
            BY <2>3, <2>4, <2>5, <2>6, <3>2
        <3> QED
            BY <2>5, <3>1, <3>2
    <2>7. \A c \in Cbs : In(then, c) => In(h, c) \/ c = b
        BY <2>4, <2>5, Zenon DEF In
    <2> QED
        BY <2>2, <2>4, <2>6, <2>7 DEF Held, IsOnce
<1>3. <<n>> \in Seq(Names) /\ IsOnce(<<n>>) /\ Len(<<n>>) = 1 /\ <<n>>[1] = n /\ DOMAIN <<n>> = {1}
    BY <1>b DEF IsOnce
<1>4. Grown(asks', asks, p, <<n>>, then)
    BY <1>h, <1>1, <1>2, <1>3, OneMoreAsk DEF Odfl!Ask
<1>5. /\ AsksFit(asks') /\ Len(asks') = p /\ p \in Nat /\ p \notin DOMAIN asks
      /\ DOMAIN asks' = DOMAIN asks \cup {p} /\ \A q \in DOMAIN asks : asks'[q] = asks[q]
      /\ asks'[p].items = <<n>> /\ asks'[p].then = then
      /\ \A c \in Cbs : Is(asks, c) =>
            /\ Is(asks', c) /\ Item(asks', c) = Item(asks, c) /\ c[1] # p
            /\ Came(asks', c) <=> Came(asks, c)
      /\ \A c \in Cbs :
            /\ Is(asks', c) /\ ~Is(asks, c) => c[1] = p
            /\ Is(asks', c) /\ c[1] = p => ~Came(asks', c)
      /\ \A c \in Cbs : \A q \in DOMAIN asks : Under(asks', c, q) <=> Under(asks, c, q)
      /\ \A c \in Cbs : Under(asks', c, p) <=> In(then, c)
    BY <1>4, Zenon DEF Grown
<1>6. \A c \in Cbs : Under(asks', c, p) => Held(c, n) \/ c = b
    BY <1>2, <1>5
<1>7. <<p, 1>> \in Cbs /\ <<p, 1>>[1] = p /\ <<p, 1>>[2] = 1
    BY <1>5 DEF Cbs
<1>8. Is(asks', <<p, 1>>) /\ Item(asks', <<p, 1>>) = n /\ ~Came(asks', <<p, 1>>)
    BY <1>3, <1>5, <1>7 DEF Is, Item
<1>9. /\ answered' \in Seq(Nat) /\ DOMAIN answered' = DOMAIN asks'
      /\ answered'[p] = 0 /\ \A q \in DOMAIN asks : answered'[q] = answered[q]
    BY <1>h, <1>5, AskParts DEF Odfl!Ask
<1>10. \A c \in Cbs, m \in Names : Held(c, m)' => Held(c, m) /\ m # n
    BY <1>b DEF Held, OdflInv, ElementsInv
<1>11. \A c \in Cbs, m \in Names : Held(c, m) =>
          /\ Is(asks, c) /\ Item(asks, c) = m /\ ~Came(asks, c)
          /\ \A q \in DOMAIN asks : ~Under(asks, c, q)
    BY DEF OdflInv, CallbacksInv, Waiting
<1>12. Waiting'
    <2>1. \A m \in Names : handler'[m] # Absent => handler'[m] \in Seq(Cbs) /\ IsOnce(handler'[m])
        BY DEF OdflInv, CallbacksInv, Waiting, ElementsInv
    <2>2. ASSUME NEW m \in Names, NEW c \in Cbs, Held(c, m)'
          PROVE  /\ Is(asks', c) /\ Item(asks', c) = m /\ ~Came(asks', c)
                 /\ \A q \in DOMAIN asks' : ~Under(asks', c, q)
        <3>1. /\ Is(asks, c) /\ Item(asks, c) = m /\ ~Came(asks, c) /\ m # n
              /\ \A q \in DOMAIN asks : ~Under(asks, c, q)
            BY <2>2, <1>10, <1>11
        <3>2. c # b /\ ~Held(c, n)
            BY <2>2, <3>1, <1>b, <1>11
        <3> QED
            BY <3>1, <3>2, <1>5, <1>6
    <2> QED
        BY <2>1, <2>2 DEF Waiting
<1>13. \A c \in Cbs : Under(asks', c, p) =>
          /\ Is(asks, c) /\ Item(asks, c) = n /\ ~Came(asks, c)
          /\ \A q \in DOMAIN asks : ~Under(asks, c, q)
    BY <1>6, <1>11, <1>b
<1>14. TakenOver'
    <2> SUFFICES ASSUME NEW q \in DOMAIN asks', NEW c \in Cbs, Under(asks', c, q)
                 PROVE  /\ Is(asks', c) /\ Is(asks', <<q, 1>>) /\ Len(asks'[q].items) = 1
                        /\ Item(asks', c) = Item(asks', <<q, 1>>)
                        /\ Came(asks', c) <=> Came(asks', <<q, 1>>)
                        /\ \A u \in DOMAIN asks' : Under(asks', c, u) => u = q
        BY DEF TakenOver
    <2>1. CASE q = p
        <3>1. \A u \in DOMAIN asks' : Under(asks', c, u) => u = q
            BY <2>1, <1>5, <1>13
        <3>2. /\ Is(asks, c) /\ Item(asks, c) = n /\ ~Came(asks, c)
            BY <2>1, <1>13
        <3>3. Is(asks', c) /\ Item(asks', c) = n /\ ~Came(asks', c)
            BY <3>2, <1>5
        <3> QED
            BY <2>1, <3>1, <3>3, <1>3, <1>5, <1>8
    <2>2. CASE q # p
        <3>1. q \in DOMAIN asks /\ Under(asks, c, q)
            BY <2>2, <1>5
        <3>2. <<q, 1>> \in Cbs
            BY <3>1, <1>h, AskParts DEF Cbs
        <3>3. /\ Is(asks, c) /\ Is(asks, <<q, 1>>) /\ Len(asks[q].items) = 1
              /\ Item(asks, c) = Item(asks, <<q, 1>>)
              /\ Came(asks, c) <=> Came(asks, <<q, 1>>)
              /\ \A u \in DOMAIN asks : Under(asks, c, u) => u = q
            BY <3>1 DEF OdflInv, CallbacksInv, TakenOver
        <3>4. /\ Is(asks', c) /\ Is(asks', <<q, 1>>) /\ asks'[q] = asks[q]
              /\ Item(asks', c) = Item(asks', <<q, 1>>)
              /\ Came(asks', c) <=> Came(asks', <<q, 1>>)
            BY <3>1, <3>2, <3>3, <1>5, Zenon
        <3>5. \A u \in DOMAIN asks' : Under(asks', c, u) => u = q
            BY <3>1, <3>3, <1>5, <1>13
        <3> QED
            BY <3>3, <3>4, <3>5
    <2> QED
        BY <2>1, <2>2
<1>15. PICK t : t = Tail(agenda)
    OBVIOUS
<1>16. /\ AgendaFits(t) /\ \A c \in Cbs : LoadIn(t, c) => LoadIn(agenda, c) /\ c # b
       /\ \A k \in DOMAIN t : /\ t[k].op = "load" /\ t[k].r \in DOMAIN asks
                              /\ asks[t[k].r].then = <<>>
    <2>1. Fronts(t, <<>>, agenda)
        BY <1>b, <1>15, Popped
    <2>2. /\ AgendaFits(t) /\ \A c \in Cbs : LoadIn(t, c) => LoadIn(agenda, c) /\ c # b
          /\ \A c \in Cbs : ~CallIn(t, c)
          /\ \A k \in DOMAIN t : t[k].op = "load" => \E l \in 2 .. Len(agenda) : t[k] = agenda[l]
        BY <2>1, <1>b DEF Fronts, In, Asked
    <2>3. ASSUME NEW k \in DOMAIN t
          PROVE  t[k].op = "load"
        <3>1. t[k] \in Entries
            BY <2>2 DEF AgendaFits
        <3>2. Cb(t, k) \in Cbs
            BY <3>1 DEF Cb, Cbs, Entries
        <3> QED
            BY <2>2, <3>1, <3>2 DEF CallIn, Entries
    <2>4. ASSUME NEW k \in DOMAIN t
          PROVE  t[k].r \in DOMAIN asks /\ asks[t[k].r].then = <<>>
        <3>1. PICK l \in 2 .. Len(agenda) : t[k] = agenda[l]
            BY <2>2, <2>3
        <3> QED
            BY <2>3, <3>1, RestOfPages
    <2> QED
        BY <2>2, <2>3, <2>4
<1>17. /\ AgendaFits(agenda') /\ \A k \in DOMAIN agenda' : agenda'[k].op = "load"
       /\ \A c \in Cbs : LoadIn(agenda', c) => LoadIn(t, c) \/ c = <<p, 1>>
       /\ \A k \in DOMAIN agenda' : k # 1 => \E l \in DOMAIN t : agenda'[k] = t[l]
       /\ Cb(agenda', 1) = <<p, 1>>
    <2>1. \A k \in DOMAIN t : t[k].op = "load" /\ t[k].r # p
        BY <1>5, <1>16
    <2>2. agenda' = <<[op |-> "load", r |-> p, i |-> 1]>> \o t
        BY <1>15
    <2> QED
        BY <2>1, <2>2, <1>5, <1>16, Prepended, ZenonT(60) DEF Prepends
<1>18. \A c \in Cbs : ~CallIn(agenda', c)
    BY <1>17 DEF CallIn
<1>19. Planned'
    <2>1. ASSUME NEW c \in Cbs, LoadIn(agenda', c)
          PROVE  /\ Is(asks', c) /\ ~Came(asks', c)
                 /\ \A m \in Names : ~Held(c, m)'
                 /\ \A q \in DOMAIN asks' : ~Under(asks', c, q)
        <3>1. CASE c = <<p, 1>>
            <4>1. ~Is(asks, c)
                BY <3>1, <1>5, <1>7 DEF Is
            <4>2. \A m \in Names : ~Held(c, m)'
                BY <4>1, <1>10, <1>11
            <4>3. \A q \in DOMAIN asks : ~Under(asks, c, q)
                BY <4>1 DEF OdflInv, CallbacksInv, TakenOver
            <4>4. ~Under(asks', c, p)
                BY <4>1, <1>13
            <4> QED
                BY <3>1, <4>2, <4>3, <4>4, <1>5, <1>8
        <3>2. CASE c # <<p, 1>>
            <4>1. /\ c # b /\ Is(asks, c) /\ ~Came(asks, c) /\ \A m \in Names : ~Held(c, m)
                  /\ \A q \in DOMAIN asks : ~Under(asks, c, q)
                BY <2>1, <3>2, <1>16, <1>17 DEF OdflInv, CallbacksInv, Planned
            <4>2. \A m \in Names : ~Held(c, m)'
                BY <4>1, <1>10
            <4>3. ~Under(asks', c, p)
                BY <4>1, <1>6, <1>b
            <4> QED
                BY <4>1, <4>2, <4>3, <1>5
        <3> QED
            BY <3>1, <3>2
    <2>2. ASSUME NEW k \in DOMAIN agenda', asks'[agenda'[k].r].then # <<>>
          PROVE  k = 1 /\ handler'[Item(asks', Cb(agenda', k))] = Absent
        <3>1. k = 1
            <4>1. SUFFICES ASSUME k # 1 PROVE FALSE
                OBVIOUS
            <4>2. PICK l \in DOMAIN t : agenda'[k] = t[l]
                BY <4>1, <1>17
            <4>3. t[l].r \in DOMAIN asks /\ asks[t[l].r].then = <<>>
                BY <1>16
            <4> QED
                BY <2>2, <4>2, <4>3, <1>5
        <3>2. handler'[n] = Absent
            BY <1>b DEF OdflInv, ElementsInv
        <3> QED
            BY <3>1, <3>2, <1>8, <1>17
    <2> QED
        BY <2>1, <2>2, <1>17, <1>18 DEF Planned
<1>20. AnsweredOnce'
    <2> SUFFICES ASSUME NEW r \in DOMAIN asks', answered'[r] > 0
                 PROVE  /\ answered'[r] = 1
                        /\ \A i \in DOMAIN asks'[r].items :
                              Came(asks', <<r, i>>) /\ ~CallIn(agenda', <<r, i>>)
        BY DEF AnsweredOnce
    <2>1. r \in DOMAIN asks /\ answered[r] > 0
        BY <1>5, <1>9
    <2>2. answered[r] = 1 /\ \A i \in DOMAIN asks[r].items : Came(asks, <<r, i>>)
        BY <2>1 DEF OdflInv, CallbacksInv, AnsweredOnce
    <2>3. \A i \in DOMAIN asks[r].items : <<r, i>> \in Cbs /\ Is(asks, <<r, i>>)
        BY <2>1, <1>h, AskParts DEF Cbs, Is
    <2>4. asks'[r] = asks[r]
        BY <2>1, <1>5
    <2> QED
        BY <2>1, <2>2, <2>3, <2>4, <1>5, <1>9, <1>18
<1>21. \A c \in Cbs : Is(asks', c) /\ Came(asks', c) => Item(asks', c) \in there'
    BY <1>5 DEF OdflInv, CallbacksInv
<1> QED
    BY <1>5, <1>9, <1>12, <1>14, <1>18, <1>19, <1>20, <1>21, NobodyDue DEF CallbacksInv

(* A file has come: all its items have come, and who waits is called.      *)
LEMMA Answering ==
    ASSUME NEW s \in Seq(Cbs), IsOnce(s), NEW z, z = Odfl!Call(s)
    PROVE  /\ AgendaFits(z) /\ \A c \in Cbs : ~LoadIn(z, c)
           /\ \A c \in Cbs : CallIn(z, c) => In(s, c)
           /\ \A k \in DOMAIN z : z[k].op # "load"
<1>1. /\ DOMAIN z = DOMAIN s /\ DOMAIN s = 1 .. Len(s) /\ Len(s) \in Nat
      /\ \A k \in DOMAIN s : z[k] = [op |-> "call", r |-> s[k][1], i |-> s[k][2]]
    BY DEF Odfl!Call
<1>2. \A k \in DOMAIN s : s[k] \in Cbs /\ z[k] \in Entries
    BY <1>1 DEF Cbs, Entries
<1>3. \A k \in DOMAIN z : z[k].op = "call" /\ Cb(z, k) = s[k] /\ k \in DOMAIN s
    BY <1>1, <1>2 DEF Cb, Cbs
<1>4. z \in Seq(Entries)
    <2>1. PICK m \in Nat : m = Len(s)
        BY <1>1
    <2>2. z = [k \in 1 .. m |-> z[k]]
        BY <1>1, <2>1 DEF Odfl!Call
    <2>3. \A k \in 1 .. m : z[k] \in Entries
        BY <1>1, <1>2, <2>1
    <2> QED
        BY <2>2, <2>3
<1>5. AgendaFits(z)
    BY <1>3, <1>4 DEF AgendaFits, IsOnce
<1>6. \A c \in Cbs : CallIn(z, c) => In(s, c)
    BY <1>3, Zenon DEF CallIn, In
<1>7. \A c \in Cbs : ~LoadIn(z, c)
    BY <1>3 DEF LoadIn
<1> QED
    BY <1>3, <1>5, <1>6, <1>7

LEMMA LoadedCallbacks ==
    ASSUME OdflInv, NEW n \in Names, agenda = <<>>, Odfl!FlagState(n), Odfl!DealHandler(n),
           there' = there \cup {n}, UNCHANGED answered
    PROVE  CallbacksInv'
<1>h. AsksFit(asks) /\ answered \in Seq(Nat) /\ DOMAIN answered = DOMAIN asks
    BY DEF OdflInv, CallbacksInv
<1>1. /\ Same(asks, asks')
      /\ \A c \in Cbs : Is(asks, c) => (Came(asks', c) <=> Came(asks, c) \/ Item(asks, c) = n)
    <2>1. Flags(asks', asks, n)
        BY <1>h, Flagged DEF Odfl!FlagState
    <2> QED
        BY <2>1 DEF Flags
<1>2. \A c \in Cbs : Is(asks, c) /\ Came(asks, c) => Came(asks', c)
    BY <1>1
<1>3. \A c \in Cbs, m \in Names : Held(c, m)' => Held(c, m) /\ m # n
    <2>1. CASE handler[n] = Absent
        BY <2>1 DEF Odfl!DealHandler, Held
    <2>2. CASE handler[n] # Absent
        <3>1. handler' = [handler EXCEPT ![n] = <<>>]
            BY <2>2 DEF Odfl!DealHandler
        <3> QED
            BY <3>1 DEF Held, In, OdflInv, ElementsInv
    <2> QED
        BY <2>1, <2>2
<1>4. \A c \in Cbs, m \in Names : Held(c, m) =>
          /\ Is(asks, c) /\ Item(asks, c) = m /\ ~Came(asks, c)
          /\ \A q \in DOMAIN asks : ~Under(asks, c, q)
    BY DEF OdflInv, CallbacksInv, Waiting
<1>5. /\ AgendaFits(agenda') /\ \A c \in Cbs : ~LoadIn(agenda', c)
      /\ \A c \in Cbs : CallIn(agenda', c) => Held(c, n)
      /\ \A k \in DOMAIN agenda' : agenda'[k].op # "load"
    <2>1. CASE handler[n] = Absent
        BY <2>1, NothingToDo DEF Odfl!DealHandler
    <2>2. CASE handler[n] # Absent
        <3>1. handler[n] \in Seq(Cbs) /\ IsOnce(handler[n]) /\ agenda' = Odfl!Call(handler[n])
            BY <2>2 DEF Odfl!DealHandler, OdflInv, CallbacksInv, Waiting
        <3>2. PICK s \in Seq(Cbs) : s = handler[n] /\ IsOnce(s) /\ agenda' = Odfl!Call(s)
            BY <3>1
        <3>3. /\ AgendaFits(agenda') /\ \A c \in Cbs : ~LoadIn(agenda', c)
              /\ \A c \in Cbs : CallIn(agenda', c) => In(s, c)
              /\ \A k \in DOMAIN agenda' : agenda'[k].op # "load"
            BY <3>2, Answering
        <3> QED
            BY <2>2, <3>2, <3>3 DEF Held
    <2> QED
        BY <2>1, <2>2
<1>6. Waiting'
    <2>1. \A m \in Names : handler'[m] # Absent => handler'[m] \in Seq(Cbs) /\ IsOnce(handler'[m])
        <3> SUFFICES ASSUME NEW m \in Names, handler'[m] # Absent
                     PROVE  handler'[m] \in Seq(Cbs) /\ IsOnce(handler'[m])
            OBVIOUS
        <3>1. handler'[m] = handler[m] \/ handler'[m] = <<>>
            BY DEF Odfl!DealHandler, OdflInv, ElementsInv
        <3>2. <<>> \in Seq(Cbs) /\ IsOnce(<<>>)
            BY DEF IsOnce
        <3> QED
            BY <3>1, <3>2 DEF OdflInv, CallbacksInv, Waiting
    <2>2. ASSUME NEW m \in Names, NEW c \in Cbs, Held(c, m)'
          PROVE  /\ Is(asks', c) /\ Item(asks', c) = m /\ ~Came(asks', c)
                 /\ \A q \in DOMAIN asks' : ~Under(asks', c, q)
        <3>1. /\ Is(asks, c) /\ Item(asks, c) = m /\ ~Came(asks, c) /\ m # n
              /\ \A q \in DOMAIN asks : ~Under(asks, c, q)
            BY <2>2, <1>3, <1>4
        <3>2. ~Came(asks', c)
            BY <3>1, <1>1
        <3> QED
            BY <3>1, <3>2, <1>1, Zenon DEF Same
    <2> QED
        BY <2>1, <2>2 DEF Waiting
<1>7. \A q \in DOMAIN asks : \A c \in Cbs : Under(asks, c, q) =>
          /\ <<q, 1>> \in Cbs /\ Is(asks, c) /\ Is(asks, <<q, 1>>)
          /\ Item(asks, c) = Item(asks, <<q, 1>>)
          /\ Came(asks, c) <=> Came(asks, <<q, 1>>)
    BY <1>h, AskParts DEF Cbs, OdflInv, CallbacksInv, TakenOver
<1>8. TakenOver'
    <2>1. \A q \in DOMAIN asks : \A c \in Cbs :
              Under(asks, c, q) => (Came(asks', c) <=> Came(asks', <<q, 1>>))
        BY <1>1, <1>7
    <2> QED
        BY <1>1, <1>2, <2>1, StaysTakenOver
<1>9. ASSUME NEW c \in Cbs, CallIn(agenda', c)
      PROVE  /\ Is(asks', c) /\ Came(asks', c)
             /\ \A q \in DOMAIN asks' : ~Under(asks', c, q)
             /\ Is(asks, c) /\ Item(asks, c) = n /\ ~Came(asks, c)
    <2>1. /\ Is(asks, c) /\ Item(asks, c) = n /\ ~Came(asks, c)
          /\ \A q \in DOMAIN asks : ~Under(asks, c, q)
        BY <1>4, <1>5, <1>9
    <2>2. Came(asks', c)
        BY <2>1, <1>1
    <2> QED
        BY <2>1, <2>2, <1>1, Zenon DEF Same
<1>10. Planned'
    BY <1>5, <1>9 DEF Planned
<1>11. \A c \in Cbs : Is(asks, c) /\ answered[c[1]] > 0 => Came(asks, c)
    <2> SUFFICES ASSUME NEW c \in Cbs, Is(asks, c), answered[c[1]] > 0
                 PROVE  Came(asks, c)
        OBVIOUS
    <2>1. c[1] \in DOMAIN asks /\ c[2] \in DOMAIN asks[c[1]].items /\ c = <<c[1], c[2]>>
        BY <1>h, ItemNames DEF Is
    <2> QED
        BY <2>1 DEF OdflInv, CallbacksInv, AnsweredOnce
<1>12. AnsweredOnce' /\ answered' \in Seq(Nat) /\ DOMAIN answered' = DOMAIN asks'
    <2>1. \A c \in Cbs : Is(asks, c) /\ answered[c[1]] > 0 /\ ~CallIn(agenda, c) =>
              ~CallIn(agenda', c)
        BY <1>9, <1>11
    <2> QED
        BY <1>1, <1>2, <2>1, StaysAnswered
<1>13. \A c \in Cbs : Is(asks', c) /\ Came(asks', c) => Item(asks', c) \in there'
    <2> SUFFICES ASSUME NEW c \in Cbs, Is(asks', c), Came(asks', c)
                 PROVE  Item(asks', c) \in there'
        OBVIOUS
    <2>1. Is(asks, c) /\ Item(asks', c) = Item(asks, c)
        BY <1>1, Zenon DEF Same
    <2> QED
        BY <2>1, <1>1 DEF OdflInv, CallbacksInv
<1>14. \E W \in SUBSET Cbs : Due(W)'
    <2> DEFINE W == {c \in Cbs : Is(asks, c) /\ Item(asks, c) = n /\ ~Came(asks, c)}
    <2>1. \A c \in W : c \in Cbs /\ Is(asks', c) /\ Item(asks', c) = n
        BY <1>1, Zenon DEF Same
    <2>2. \A c \in Cbs : CallIn(agenda', c) => c \in W
        BY <1>9
    <2>3. \A q \in DOMAIN asks' : \A c \in Cbs : <<q, 1>> \in W /\ Under(asks', c, q) =>
              c \in W /\ ~(answered'[c[1]] > 0)
        <3> SUFFICES ASSUME NEW q \in DOMAIN asks, NEW c \in Cbs, <<q, 1>> \in W,
                            Under(asks, c, q)
                     PROVE  c \in W /\ ~(answered[c[1]] > 0)
            BY <1>1, Zenon DEF Same
        <3>1. c \in W
            BY <1>7
        <3> QED
            BY <3>1, <1>11
    <2> HIDE DEF W
    <2>4. PICK X : X = W
        OBVIOUS
    <2>5. Due(X)'
        BY <2>1, <2>2, <2>3, <2>4 DEF Due
    <2>6. X \in SUBSET Cbs
        BY <2>4 DEF W
    <2> QED
        BY <2>5, <2>6
<1> QED
    BY <1>1, <1>5, <1>6, <1>8, <1>10, <1>12, <1>13, <1>14 DEF CallbacksInv, Same

(* A callback runs: success, when all has come, calls back those that the  *)
(* call had taken over.                                                    *)
LEMMA CallFirst ==
    ASSUME OdflInv, agenda # <<>>, Head(agenda).op # "load"
    PROVE  /\ Cb(agenda, 1) \in Cbs /\ CallIn(agenda, Cb(agenda, 1))
           /\ Cb(agenda, 1) = <<Head(agenda).r, Head(agenda).i>>
           /\ Is(asks, Cb(agenda, 1)) /\ Came(asks, Cb(agenda, 1))
           /\ Head(agenda).r \in DOMAIN asks
<1>1. agenda \in Seq(Entries)
    BY DEF OdflInv, CallbacksInv, Planned, AgendaFits
<1>2. 1 \in DOMAIN agenda /\ Head(agenda) = agenda[1] /\ agenda[1] \in Entries
    BY <1>1
<1>3. Cb(agenda, 1) \in Cbs /\ CallIn(agenda, Cb(agenda, 1))
    BY <1>2 DEF Cb, Cbs, Entries, CallIn
<1>4. Is(asks, Cb(agenda, 1)) /\ Came(asks, Cb(agenda, 1))
    BY <1>3 DEF OdflInv, CallbacksInv, Planned
<1> QED
    BY <1>2, <1>3, <1>4 DEF Cb, Is

LEMMA RestPlanned ==
    ASSUME OdflInv, NEW s, Fronts(agenda', s, agenda), UNCHANGED <<asks, handler>>,
           \A q \in DOMAIN asks : answered[q] > 0 => answered'[q] > 0,
           \A c \in Cbs : In(s, c) =>
              /\ Is(asks, c) /\ Came(asks, c)
              /\ \A q \in DOMAIN asks : Under(asks, c, q) => answered'[q] > 0
    PROVE  Planned'
<1>1. /\ AgendaFits(agenda')
      /\ \A c \in Cbs : CallIn(agenda', c) => In(s, c) \/ CallIn(agenda, c)
      /\ \A c \in Cbs : LoadIn(agenda', c) => LoadIn(agenda, c)
      /\ \A k \in DOMAIN agenda' : agenda'[k].op = "load" =>
            \E l \in 2 .. Len(agenda) : agenda'[k] = agenda[l]
    BY DEF Fronts
<1>2. \A c \in Cbs : CallIn(agenda', c) =>
          /\ Is(asks, c) /\ Came(asks, c)
          /\ \A q \in DOMAIN asks : Under(asks, c, q) => answered'[q] > 0
    BY <1>1 DEF OdflInv, CallbacksInv, Planned
<1>3. \A c \in Cbs : LoadIn(agenda', c) =>
          /\ Is(asks, c) /\ ~Came(asks, c)
          /\ \A n \in Names : ~Held(c, n)'
          /\ \A q \in DOMAIN asks : ~Under(asks, c, q)
    BY <1>1 DEF OdflInv, CallbacksInv, Planned, Held
<1>4. ASSUME NEW k \in DOMAIN agenda', agenda'[k].op = "load"
      PROVE  asks[agenda'[k].r].then = <<>>
    <2>1. PICK l \in 2 .. Len(agenda) : agenda'[k] = agenda[l]
        BY <1>1, <1>4
    <2> QED
        BY <1>4, <2>1, RestOfPages
<1> QED
    BY <1>1, <1>2, <1>3, <1>4 DEF Planned

LEMMA CallBackCallbacks ==
    ASSUME OdflInv, agenda # <<>>, Head(agenda).op # "load",
           Odfl!CallBack(Head(agenda).r, Head(agenda).i), UNCHANGED there
    PROVE  CallbacksInv'
<1>h. /\ AsksFit(asks) /\ answered \in Seq(Nat) /\ DOMAIN answered = DOMAIN asks
      /\ AgendaFits(agenda)
    BY DEF OdflInv, CallbacksInv, Planned
<1>0. PICK b, r : b = Cb(agenda, 1) /\ r = Head(agenda).r
    OBVIOUS
<1>b. /\ b \in Cbs /\ Is(asks, b) /\ Came(asks, b) /\ CallIn(agenda, b)
      /\ r = b[1] /\ r \in DOMAIN asks /\ b = <<r, b[2]>> /\ b[2] \in DOMAIN asks[r].items
    <2>1. b = <<Head(agenda).r, Head(agenda).i>>
        BY <1>0, CallFirst
    <2>2. /\ b \in Cbs /\ Is(asks, b) /\ Came(asks, b) /\ CallIn(agenda, b)
          /\ r \in DOMAIN asks
        BY <1>0, CallFirst
    <2>3. r = b[1] /\ b = <<r, b[2]>>
        BY <1>0, <2>1
    <2> QED
        BY <2>2, <2>3 DEF Is
<1>1. PICK W \in SUBSET Cbs : Due(W)
    BY DEF OdflInv, CallbacksInv
<1>2. /\ \A c \in W : Is(asks, c)
      /\ \A c, d \in W : Item(asks, c) = Item(asks, d)
      /\ \A c \in Cbs : CallIn(agenda, c) => c \in W
      /\ \A q \in DOMAIN asks : \A c \in Cbs : <<q, 1>> \in W /\ Under(asks, c, q) =>
            c \in W /\ (answered[c[1]] > 0 => answered[q] > 0)
    BY <1>1 DEF Due
<1>3. UNCHANGED <<asks, handler>>
    BY DEF Odfl!CallBack
<1>4. Waiting' /\ TakenOver'
    BY <1>3 DEF Waiting, TakenOver, Held, OdflInv, CallbacksInv
<1>5. \A c \in Cbs : Is(asks', c) /\ Came(asks', c) => Item(asks', c) \in there'
    BY <1>3 DEF OdflInv, CallbacksInv
<1>6. \A c \in Cbs : CallIn(agenda, c) =>
          \A q \in DOMAIN asks : Under(asks, c, q) => answered[q] > 0
    BY DEF OdflInv, CallbacksInv, Planned
<1>7. CASE ~Odfl!Succeeds(r)
    <2>1. agenda' = Tail(agenda) /\ answered' = answered
        <3>1. agenda' = <<>> \o Tail(agenda) /\ answered' = answered
            BY <1>0, <1>7 DEF Odfl!CallBack
        <3>2. Tail(agenda) \in Seq(Entries)
            BY <1>h DEF AgendaFits
        <3> QED
            BY <3>1, <3>2
    <2>2. Fronts(agenda', <<>>, agenda)
        BY <1>h, <2>1, Popped
    <2>3. /\ AgendaFits(agenda')
          /\ \A c \in Cbs : CallIn(agenda', c) => CallIn(agenda, c)
        BY <2>2 DEF Fronts, In
    <2>4. Planned'
        <3>1. \A c \in Cbs : ~In(<<>>, c)
            BY DEF In
        <3> QED
            BY <1>3, <2>1, <2>2, <3>1, RestPlanned
    <2>5. AnsweredOnce'
        <3> SUFFICES ASSUME NEW u \in DOMAIN asks, answered[u] > 0
                     PROVE  /\ answered[u] = 1
                            /\ \A i \in DOMAIN asks[u].items :
                                  Came(asks, <<u, i>>) /\ ~CallIn(agenda', <<u, i>>)
            BY <1>3, <2>1 DEF AnsweredOnce
        <3>1. \A i \in DOMAIN asks[u].items : <<u, i>> \in Cbs
            BY <1>h, AskParts DEF Cbs
        <3> QED
            BY <2>3, <3>1 DEF OdflInv, CallbacksInv, AnsweredOnce
    <2>6. Due(W)'
        BY <1>2, <1>3, <2>1, <2>3, <1>1 DEF Due
    <2> QED
        BY <1>h, <1>1, <1>3, <1>4, <1>5, <2>1, <2>4, <2>5, <2>6 DEF CallbacksInv
<1>8. CASE Odfl!Succeeds(r)
    <2>1. PICK s : s = asks[r].then
        OBVIOUS
    <2>2. /\ agenda' = Odfl!Call(s) \o Tail(agenda)
          /\ answered' = [answered EXCEPT ![r] = answered[r] + 1]
        BY <1>0, <1>8, <2>1 DEF Odfl!CallBack
    <2>3. s \in Seq(Cbs) /\ IsOnce(s) /\ IsOnce(asks[r].items)
        BY <1>h, <1>b, <2>1, AskParts
    <2>4. \A c \in Cbs : In(s, c) <=> Under(asks, c, r)
        BY <1>b, <2>1 DEF Under
    <2>5. \A i \in DOMAIN asks[r].items : Came(asks, <<r, i>>)
        BY <1>8 DEF Odfl!Succeeds, Came
    <2>6. answered[r] = 0
        <3>1. ~(answered[r] > 0)
            BY <1>b DEF OdflInv, CallbacksInv, AnsweredOnce
        <3>2. answered[r] \in Nat
            BY <1>h, <1>b
        <3> QED
            BY <3>1, <3>2
    <2>7. /\ answered' \in Seq(Nat) /\ DOMAIN answered' = DOMAIN asks /\ answered'[r] = 1
          /\ \A q \in DOMAIN asks : q # r => answered'[q] = answered[q]
        BY <1>h, <1>b, <2>2, <2>6
    <2>8. \A c \in Cbs : In(s, c) =>
              /\ Is(asks, c) /\ Came(asks, c) /\ b = <<r, 1>> /\ Len(asks[r].items) = 1
              /\ c \in W /\ ~(answered[c[1]] > 0)
              /\ \A q \in DOMAIN asks : Under(asks, c, q) => q = r
        <3> SUFFICES ASSUME NEW c \in Cbs, Under(asks, c, r)
                     PROVE  /\ Is(asks, c) /\ Came(asks, c) /\ b = <<r, 1>>
                            /\ Len(asks[r].items) = 1
                            /\ c \in W /\ ~(answered[c[1]] > 0)
                            /\ \A q \in DOMAIN asks : Under(asks, c, q) => q = r
            BY <2>4
        <3>1. /\ Is(asks, c) /\ Is(asks, <<r, 1>>) /\ Len(asks[r].items) = 1
              /\ Came(asks, c) <=> Came(asks, <<r, 1>>)
              /\ \A q \in DOMAIN asks : Under(asks, c, q) => q = r
            BY <1>b DEF OdflInv, CallbacksInv, TakenOver
        <3>2. DOMAIN asks[r].items = {1}
            BY <3>1, <1>h, <1>b, AskParts
        <3>3. b = <<r, 1>>
            BY <3>2, <1>b
        <3>4. c \in W /\ (answered[c[1]] > 0 => answered[r] > 0)
            BY <3>3, <1>2, <1>b
        <3> QED
            BY <3>1, <3>2, <3>3, <3>4, <2>5, <2>6
    <2>9. Fronts(agenda', s, agenda)
        <3>1. ASSUME NEW c \in Cbs, In(s, c), NEW l \in 2 .. Len(agenda)
              PROVE  Cb(agenda, l) # c
            <4>1. SUFFICES ASSUME Cb(agenda, l) = c PROVE FALSE
                OBVIOUS
            <4>2. agenda \in Seq(Entries) /\ l \in DOMAIN agenda /\ agenda[l] \in Entries
                BY <1>h DEF AgendaFits
            <4>3. LoadIn(agenda, c) \/ CallIn(agenda, c)
                BY <4>1, <4>2 DEF LoadIn, CallIn, Entries
            <4>4. Under(asks, c, r)
                BY <3>1, <2>4
            <4>5. CASE LoadIn(agenda, c)
                BY <4>4, <4>5, <1>b DEF OdflInv, CallbacksInv, Planned
            <4>6. CASE CallIn(agenda, c)
                BY <4>4, <4>6, <1>6, <1>b, <2>6
            <4> QED
                BY <4>3, <4>5, <4>6
        <3> QED
            BY <1>h, <2>2, <2>3, <3>1, CalledFirst
    <2>10. /\ AgendaFits(agenda')
           /\ \A c \in Cbs : CallIn(agenda', c) => In(s, c) \/ (CallIn(agenda, c) /\ c # b)
        BY <1>0, <2>9 DEF Fronts
    <2>11. \A q \in DOMAIN asks : answered[q] > 0 => answered'[q] > 0
        BY <2>7
    <2>12. Planned'
        <3>1. \A c \in Cbs : In(s, c) =>
                /\ Is(asks, c) /\ Came(asks, c)
                /\ \A q \in DOMAIN asks : Under(asks, c, q) => answered'[q] > 0
            BY <2>7, <2>8
        <3> QED
            BY <1>3, <2>9, <2>11, <3>1, RestPlanned
    <2>13. ASSUME NEW c \in W, c[1] = r
           PROVE  c = b
        <3>1. c \in Cbs /\ Is(asks, c) /\ Item(asks, c) = Item(asks, b)
            BY <1>2, <1>b
        <3>2. c[2] \in DOMAIN asks[r].items /\ asks[r].items[c[2]] = asks[r].items[b[2]]
            BY <3>1, <2>13, <1>b DEF Is, Item
        <3>3. c[2] = b[2]
            BY <3>2, <2>3, <1>b DEF IsOnce
        <3> QED
            BY <3>1, <3>3, <2>13, <1>b DEF Cbs
    <2>14. AnsweredOnce'
        <3> SUFFICES ASSUME NEW u \in DOMAIN asks, answered'[u] > 0
                     PROVE  /\ answered'[u] = 1
                            /\ \A i \in DOMAIN asks[u].items :
                                  Came(asks, <<u, i>>) /\ ~CallIn(agenda', <<u, i>>)
            BY <1>3 DEF AnsweredOnce
        <3>1. \A i \in DOMAIN asks[u].items : <<u, i>> \in Cbs /\ <<u, i>>[1] = u
            BY <1>h, AskParts DEF Cbs
        <3>2. CASE u = r
            <4>1. ASSUME NEW i \in DOMAIN asks[u].items, CallIn(agenda', <<u, i>>)
                  PROVE  FALSE
                <5>1. CASE CallIn(agenda, <<u, i>>) /\ <<u, i>> # b
                    BY <5>1, <3>1, <3>2, <1>2, <2>13
                <5>2. CASE In(s, <<u, i>>)
                    <6>1. <<u, i>> = b
                        BY <5>2, <3>1, <3>2, <2>8, <2>13
                    <6>2. Under(asks, b, r)
                        BY <5>2, <6>1, <2>4, <1>b
                    <6> QED
                        BY <6>2, <1>6, <1>b, <2>6
                <5> QED
                    BY <4>1, <5>1, <5>2, <3>1, <2>10
            <4> QED
                BY <3>2, <4>1, <2>5, <2>7
        <3>3. CASE u # r
            <4>1. /\ answered[u] > 0 /\ answered'[u] = answered[u] /\ answered[u] = 1
                  /\ \A i \in DOMAIN asks[u].items :
                        Came(asks, <<u, i>>) /\ ~CallIn(agenda, <<u, i>>)
                BY <3>3, <2>7 DEF OdflInv, CallbacksInv, AnsweredOnce
            <4>2. \A i \in DOMAIN asks[u].items : ~In(s, <<u, i>>)
                BY <3>1, <4>1, <2>8
            <4> QED
                BY <3>1, <4>1, <4>2, <2>10
        <3> QED
            BY <3>2, <3>3
    <2>15. Due(W)'
        <3>1. \A c \in Cbs : CallIn(agenda', c) => c \in W
            BY <1>2, <2>8, <2>10
        <3>2. ASSUME NEW q \in DOMAIN asks, NEW c \in Cbs, <<q, 1>> \in W, Under(asks, c, q)
              PROVE  c \in W /\ (answered'[c[1]] > 0 => answered'[q] > 0)
            <4>1. c \in W /\ (answered[c[1]] > 0 => answered[q] > 0)
                BY <3>2, <1>2
            <4>2. CASE c[1] = r
                <5>1. answered[q] > 0
                    BY <3>2, <4>1, <4>2, <1>6, <1>b, <2>13
                <5> QED
                    BY <4>1, <5>1, <2>11
            <4>3. CASE c[1] # r
                <5>1. c[1] \in DOMAIN asks
                    BY <4>1, <1>2 DEF Is
                <5> QED
                    BY <4>1, <4>3, <5>1, <2>7, <2>11
            <4> QED
                BY <4>2, <4>3
        <3> QED
            BY <1>1, <1>2, <1>3, <3>1, <3>2 DEF Due
    <2> QED
        BY <1>h, <1>1, <1>3, <1>4, <1>5, <2>7, <2>12, <2>14, <2>15 DEF CallbacksInv
<1> QED
    BY <1>7, <1>8

-----------------------------------------------------------------------------
(* The element of a resource, as the first component that has one knows it.*)
LEMMA FirstElement ==
    ASSUME OdflInv, NEW n \in Names, HasElement(n)
    PROVE  Odfl!GetRes(n) \in 1 .. Len(attr)
<1> DEFINE has == {k \in DOMAIN known : comRes[known[k]][n] # 0}
<1>1. PICK m : m = Len(known)
    OBVIOUS
<1>2. m \in Nat /\ DOMAIN known = 1 .. m /\ \A k \in DOMAIN known : known[k] \in Comps
    BY <1>1 DEF OdflInv, ElementsInv
<1>3. PICK S : S = {m - k : k \in has}
    OBVIOUS
<1>4. S \in SUBSET (0 .. m) /\ S # {}
    BY <1>2, <1>3 DEF HasElement
<1>5. PICK s \in S : \A x \in S : x <= s
    BY <1>2, <1>4, Largest
<1>6. PICK k \in has : s = m - k
    BY <1>3
<1>7. \A j \in has : k <= j
    <2> SUFFICES ASSUME NEW j \in has
                 PROVE  k <= j
        OBVIOUS
    <2>1. m - j <= m - k
        BY <1>3, <1>5, <1>6
    <2> QED
        BY <1>2, <1>6, <2>1
<1>8. PICK c : c = CHOOSE x \in has : \A j \in has : x <= j
    OBVIOUS
<1>9. c \in has
    BY <1>7, <1>8
<1>10. Odfl!GetRes(n) = comRes[known[c]][n]
    BY <1>8 DEF Odfl!GetRes
<1>11. comRes[known[c]][n] \in 0 .. Len(attr) /\ comRes[known[c]][n] # 0
    BY <1>2, <1>9 DEF OdflInv, ElementsInv
<1> QED
    BY <1>10, <1>11

(* One more component uses the element e of a resource.                    *)
Furnished(n, e) ==
    /\ attr' \in Seq(SUBSET Comps) /\ known' \in Seq(Comps)
    /\ comRes' \in [Comps -> [Names -> 0 .. Len(attr')]]
    /\ DOMAIN attr \subseteq DOMAIN attr' /\ e \in DOMAIN attr'
    /\ HasElement(n)' /\ \A m \in Names : HasElement(m) => HasElement(m)'

LEMMA OneUses ==
    ASSUME OdflInv, NEW c \in Comps, NEW n \in Names, NEW e \in 1 .. Len(attr) + 1,
           Odfl!Uses(c, n, e)
    PROVE  Furnished(n, e)
<1>0. attr \in Seq(SUBSET Comps) /\ known \in Seq(Comps)
    BY DEF OdflInv, ElementsInv
<1>1. PICK L \in Nat : L = Len(attr) /\ DOMAIN attr = 1 .. L
    BY <1>0
<1>2. PICK L1 \in Nat : /\ attr' \in Seq(SUBSET Comps) /\ L1 = Len(attr')
                        /\ DOMAIN attr' = 1 .. L1 /\ L <= L1 /\ e \in 1 .. L1
    <2>1. CASE e \in DOMAIN attr
        <3>1. attr' = [attr EXCEPT ![e] = @ \cup {c}]
            BY <2>1 DEF Odfl!Uses
        <3>2. attr' \in [1 .. L -> SUBSET Comps]
            <4>1. attr \in [1 .. L -> SUBSET Comps]
                BY <1>0, <1>1
            <4>2. attr[e] \cup {c} \in SUBSET Comps
                BY <1>1, <2>1, <4>1
            <4> QED
                BY <3>1, <4>1, <4>2
        <3>3. attr' \in Seq(SUBSET Comps) /\ Len(attr') = L /\ DOMAIN attr' = 1 .. L
            BY <3>2
        <3> QED
            BY <1>1, <2>1, <3>3
    <2>2. CASE e \notin DOMAIN attr
        <3>1. attr' = Append(attr, {c})
            BY <2>2 DEF Odfl!Uses
        <3>2. /\ attr' \in Seq(SUBSET Comps) /\ Len(attr') = L + 1
              /\ DOMAIN attr' = 1 .. L + 1
            BY <1>0, <1>1, <3>1
        <3> QED
            BY <1>1, <3>2
    <2> QED
        BY <2>1, <2>2
<1>3. comRes \in [Comps -> [Names -> 0 .. L]]
    BY <1>1 DEF OdflInv, ElementsInv
<1>4. comRes' = [comRes EXCEPT ![c][n] = e]
    BY DEF Odfl!Uses
<1>5. \A d \in Comps : \A m \in Names :
          comRes'[d][m] = IF d = c /\ m = n THEN e ELSE comRes[d][m]
    BY <1>3, <1>4
<1>6. comRes' \in [Comps -> [Names -> 0 .. L1]]
    BY <1>2, <1>3, <1>4
<1>7. /\ known' \in Seq(Comps) /\ \E k \in DOMAIN known' : known'[k] = c
      /\ \A k \in DOMAIN known : k \in DOMAIN known' /\ known'[k] = known[k]
      /\ \A k \in DOMAIN known : known[k] \in Comps
    <2>1. CASE c \in Odfl!ToSet(known)
        BY <1>0, <2>1 DEF Odfl!Uses, Odfl!ToSet
    <2>2. CASE c \notin Odfl!ToSet(known)
        <3>1. known' = Append(known, c)
            BY <2>2 DEF Odfl!Uses
        <3>2. PICK m \in Nat : m = Len(known) /\ DOMAIN known = 1 .. m
            BY <1>0
        <3>3. /\ known' \in Seq(Comps) /\ DOMAIN known' = 1 .. m + 1 /\ known'[m + 1] = c
              /\ \A k \in 1 .. m : known'[k] = known[k] /\ known[k] \in Comps
            BY <1>0, <3>1, <3>2
        <3> QED
            BY <3>2, <3>3
    <2> QED
        BY <2>1, <2>2
<1>8. HasElement(n)'
    <2>1. PICK k \in DOMAIN known' : known'[k] = c
        BY <1>7
    <2>2. comRes'[known'[k]][n] # 0
        BY <1>2, <1>5, <2>1
    <2> QED
        BY <2>2 DEF HasElement
<1>9. ASSUME NEW m \in Names, HasElement(m)
      PROVE  HasElement(m)'
    <2>1. PICK k \in DOMAIN known : comRes[known[k]][m] # 0
        BY <1>9 DEF HasElement
    <2>2. k \in DOMAIN known' /\ known'[k] = known[k] /\ known[k] \in Comps
        BY <1>7
    <2>3. comRes'[known'[k]][m] # 0
        BY <1>2, <1>5, <2>1, <2>2
    <2> QED
        BY <2>2, <2>3 DEF HasElement
<1>10. DOMAIN attr \subseteq DOMAIN attr' /\ e \in DOMAIN attr'
    BY <1>1, <1>2
<1> QED
    BY <1>2, <1>6, <1>7, <1>8, <1>9, <1>10 DEF Furnished

(* What a step has to leave as it was for what it does not touch.          *)
LEMMA StillElements ==
    ASSUME OdflInv, NEW n \in Names, \A m \in Names : m # n => handler'[m] = handler[m],
           handler' \in [Names -> Seq(Cbs) \cup {Absent}],
           handler'[n] # Absent =>
              /\ handler'[n] = <<>> => n \in there'
              /\ handler'[n] # <<>> /\ n \notin lost' => \E l \in loads' : l[1] = n
              /\ HasElement(n)',
           \A l \in loads' : l \in loads \/ (l[1] \in Names /\ l[2] \in DOMAIN attr'),
           \A l \in loads : l[1] # n => l \in loads',
           DOMAIN attr \subseteq DOMAIN attr', attr' \in Seq(SUBSET Comps),
           known' \in Seq(Comps), comRes' \in [Comps -> [Names -> 0 .. Len(attr')]],
           \A m \in Names : HasElement(m) => HasElement(m)',
           there \subseteq there', there' \subseteq Names,
           lost \subseteq lost', lost' \subseteq Names,
           thrown' \subseteq DOMAIN asks'
    PROVE  ElementsInv'
<1>1. \A l \in loads' : l[1] \in Names /\ l[2] \in DOMAIN attr'
    BY DEF OdflInv, ElementsInv
<1>2. ASSUME NEW m \in Names, handler'[m] # Absent, m # n
      PROVE  /\ handler'[m] = <<>> => m \in there'
             /\ handler'[m] # <<>> /\ m \notin lost' => \E l \in loads' : l[1] = m
             /\ HasElement(m)'
    <2>1. handler'[m] = handler[m] /\ handler[m] # Absent
        BY <1>2
    <2>2. /\ handler[m] = <<>> => m \in there
          /\ handler[m] # <<>> /\ m \notin lost => \E l \in loads : l[1] = m
          /\ HasElement(m)
        BY <2>1 DEF OdflInv, ElementsInv
    <2>3. HasElement(m)'
        BY <2>2
    <2>4. ASSUME handler'[m] # <<>>, m \notin lost'
          PROVE  \E l \in loads' : l[1] = m
        <3>1. PICK l \in loads : l[1] = m
            BY <2>1, <2>2, <2>4
        <3> QED
            BY <1>2, <3>1
    <2> QED
        BY <2>1, <2>2, <2>3, <2>4
<1>3. \A m \in Names : handler'[m] # Absent =>
          /\ handler'[m] = <<>> => m \in there'
          /\ handler'[m] # <<>> /\ m \notin lost' => \E l \in loads' : l[1] = m
          /\ HasElement(m)'
    BY <1>2
<1> QED
    BY <1>1, <1>3 DEF ElementsInv

LEMMA LoadResStep ==
    ASSUME OdflInv, agenda # <<>>, Head(agenda).op = "load",
           Odfl!LoadRes(Head(agenda).r, Head(agenda).i), UNCHANGED <<there, lost>>
    PROVE  OdflInv'
<1>0. PICK r, i : r = Head(agenda).r /\ i = Head(agenda).i
    OBVIOUS
<1>1. PICK n : n = asks[r].items[i]
    OBVIOUS
<1>2. PICK b : b = <<r, i>>
    OBVIOUS
<1>3. Asked(b, n) /\ b[1] = r /\ b[2] = i
    BY <1>0, <1>1, <1>2, LoadFirst
<1>4. b \in Cbs /\ n \in Names /\ r \in DOMAIN asks
    BY <1>3 DEF Asked
<1>h. AsksFit(asks) /\ DOMAIN answered = DOMAIN asks
    BY DEF OdflInv, CallbacksInv
<1>5. asks[r].comp \in Comps
    BY <1>4, <1>h, AskParts
<1>6. PICK c \in Comps : c = asks[r].comp
    BY <1>5
<1>e. /\ handler \in [Names -> Seq(Cbs) \cup {Absent}] /\ attr \in Seq(SUBSET Comps)
      /\ known \in Seq(Comps) /\ comRes \in [Comps -> [Names -> 0 .. Len(attr)]]
      /\ there \subseteq Names /\ lost \subseteq Names /\ thrown \subseteq DOMAIN asks
      /\ Len(attr) \in Nat /\ DOMAIN attr = 1 .. Len(attr)
    BY DEF OdflInv, ElementsInv
<1>h2. handler[n] # Absent => handler[n] \in Seq(Cbs) /\ IsOnce(handler[n])
    BY <1>4 DEF OdflInv, CallbacksInv, Waiting
<1>t. asks' = [asks EXCEPT ![r].state[i] = "LOADING"] \/ asks' = [asks EXCEPT ![r].state[i] = "LOADED"]
          => DOMAIN asks' = DOMAIN asks
    OBVIOUS
<1>7. CASE /\ agenda' = <<>> /\ thrown' = thrown \cup {r}
           /\ UNCHANGED <<handler, asks, loads, attr, known, comRes, answered>>
    <2>1. CallbacksInv'
        BY <1>7, DropCallbacks
    <2>2. \A m \in Names : HasElement(m) => HasElement(m)'
        BY <1>7 DEF HasElement
    <2>3. ElementsInv'
        <3>1. thrown' \subseteq DOMAIN asks'
            BY <1>4, <1>7, <1>e
        <3> QED
            BY <1>7, <2>2, <3>1 DEF OdflInv, ElementsInv
    <2> QED
        BY <2>1, <2>3 DEF OdflInv
<1>8. CASE /\ handler[n] = Absent
           /\ Odfl!Uses(c, n, Len(attr) + 1)
           /\ handler' = [handler EXCEPT ![n] = <<b>>]
           /\ loads' = loads \cup {<<n, Len(attr) + 1>>}
           /\ asks' = [asks EXCEPT ![r].state[i] = "LOADING"] /\ UNCHANGED answered
           /\ agenda' = Tail(agenda) /\ UNCHANGED thrown
    <2>1. <<b>> \in Seq(Cbs) /\ IsOnce(<<b>>) /\ \A x \in Cbs : In(<<b>>, x) => x = b
        BY <1>4 DEF IsOnce, In
    <2>2. handler'[n] = <<b>> /\ \A m \in Names : m # n => handler'[m] = handler[m]
        BY <1>4, <1>8, <1>e
    <2>a. /\ handler'[n] \in Seq(Cbs) /\ IsOnce(handler'[n])
          /\ \A x \in Cbs : In(handler'[n], x) => Held(x, n) \/ x = b
        BY <2>1, <2>2
    <2>3. CallbacksInv'
        BY <1>3, <1>8, <2>2, <2>a, WaitCallbacks
    <2>4. Len(attr) + 1 \in 1 .. Len(attr) + 1
        BY <1>e
    <2>5. Furnished(n, Len(attr) + 1)
        BY <1>4, <1>8, <2>4, OneUses
    <2>6. handler' \in [Names -> Seq(Cbs) \cup {Absent}]
        BY <1>8, <1>e, <2>1
    <2>7. DOMAIN asks' = DOMAIN asks
        BY <1>8, <1>t
    <2>8. <<n, Len(attr) + 1>> \in loads' /\ <<n, Len(attr) + 1>>[1] = n
        BY <1>8
    <2>9. \A l \in loads' : l \in loads \/ (l[1] \in Names /\ l[2] \in DOMAIN attr')
        BY <1>4, <1>8, <2>5 DEF Furnished
    <2>10. <<b>> # <<>>
        OBVIOUS
    <2>11. ElementsInv'
        BY <1>4, <1>8, <1>e, <2>2, <2>5, <2>6, <2>7, <2>8, <2>9, <2>10, StillElements, ZenonT(60) DEF Furnished
    <2> QED
        BY <2>3, <2>11 DEF OdflInv
<1>9. CASE /\ handler[n] # Absent /\ Odfl!Uses(c, n, Odfl!GetRes(n))
           /\ UNCHANGED <<loads, thrown>>
           /\ \/ /\ handler' = [handler EXCEPT ![n] = Absent]
                 /\ Odfl!Ask(<<n>>, c, TRUE, Append(handler[n], b))
                 /\ agenda' = <<[op |-> "load", r |-> Len(asks) + 1, i |-> 1]>> \o Tail(agenda)
              \/ /\ handler[n] = <<>>
                 /\ asks' = [asks EXCEPT ![r].state[i] = "LOADED"] /\ UNCHANGED answered
                 /\ agenda' = Odfl!Call(<<b>>) \o Tail(agenda) /\ UNCHANGED handler
              \/ /\ handler[n] # <<>>
                 /\ handler' = [handler EXCEPT ![n] = Append(@, b)]
                 /\ asks' = [asks EXCEPT ![r].state[i] = "LOADING"] /\ UNCHANGED answered
                 /\ agenda' = Tail(agenda)
    <2>1. /\ HasElement(n)
          /\ handler[n] = <<>> => n \in there
          /\ handler[n] # <<>> /\ n \notin lost => \E l \in loads : l[1] = n
        BY <1>4, <1>9 DEF OdflInv, ElementsInv
    <2>g. Odfl!GetRes(n) \in 1 .. Len(attr)
        BY <1>4, <2>1, FirstElement
    <2>2. PICK e \in 1 .. Len(attr) : e = Odfl!GetRes(n)
        BY <2>g
    <2>3. Furnished(n, e)
        <3>1. e \in 1 .. Len(attr) + 1
            BY <1>e
        <3> QED
            BY <1>4, <1>9, <2>2, <3>1, OneUses
    <2>4. \A l \in loads' : l \in loads
        BY <1>9
    <2>5. CASE /\ handler' = [handler EXCEPT ![n] = Absent]
               /\ Odfl!Ask(<<n>>, c, TRUE, Append(handler[n], b))
               /\ agenda' = <<[op |-> "load", r |-> Len(asks) + 1, i |-> 1]>> \o Tail(agenda)
        <3>1. CallbacksInv'
            BY <1>3, <1>9, <2>5, AgainCallbacks
        <3>2. /\ handler'[n] = Absent /\ \A m \in Names : m # n => handler'[m] = handler[m]
              /\ handler' \in [Names -> Seq(Cbs) \cup {Absent}]
            BY <1>4, <1>e, <2>5
        <3>3. DOMAIN asks \subseteq DOMAIN asks'
            BY <2>5, <1>h, AskParts DEF Odfl!Ask
        <3>4. thrown' \subseteq DOMAIN asks'
            BY <3>3, <1>9, <1>e
        <3>5. ElementsInv'
            BY <1>4, <1>9, <1>e, <2>3, <2>4, <3>2, <3>4, StillElements DEF Furnished
        <3> QED
            BY <3>1, <3>5 DEF OdflInv
    <2>6. CASE /\ handler[n] = <<>>
               /\ asks' = [asks EXCEPT ![r].state[i] = "LOADED"] /\ UNCHANGED answered
               /\ agenda' = Odfl!Call(<<b>>) \o Tail(agenda) /\ UNCHANGED handler
        <3>1. CallbacksInv'
            BY <1>3, <1>9, <2>6, ReadyCallbacks
        <3>2. DOMAIN asks' = DOMAIN asks
            BY <2>6, <1>t
        <3>a. /\ handler'[n] = <<>> /\ n \in there'
              /\ \A m \in Names : m # n => handler'[m] = handler[m]
              /\ handler' \in [Names -> Seq(Cbs) \cup {Absent}]
            BY <1>9, <1>e, <2>1, <2>6
        <3>3. ElementsInv'
            BY <1>4, <1>9, <1>e, <2>3, <2>4, <3>2, <3>a, StillElements DEF Furnished
        <3> QED
            BY <3>1, <3>3 DEF OdflInv
    <2>7. CASE /\ handler[n] # <<>>
               /\ handler' = [handler EXCEPT ![n] = Append(@, b)]
               /\ asks' = [asks EXCEPT ![r].state[i] = "LOADING"] /\ UNCHANGED answered
               /\ agenda' = Tail(agenda)
        <3>1. /\ handler'[n] = Append(handler[n], b)
              /\ \A m \in Names : m # n => handler'[m] = handler[m]
            BY <1>4, <1>e, <2>7
        <3>2. ~In(handler[n], b)
            BY <1>3, <1>9 DEF Asked, Held
        <3>3. /\ Append(handler[n], b) \in Seq(Cbs) /\ IsOnce(Append(handler[n], b))
              /\ \A x \in Cbs : In(Append(handler[n], b), x) => In(handler[n], x) \/ x = b
              /\ Append(handler[n], b) # <<>>
            <4>1. PICK s \in Seq(Cbs) : s = handler[n]
                BY <1>9, <1>h2
            <4>2. PICK m \in Nat : m = Len(s) /\ DOMAIN s = 1 .. m
                OBVIOUS
            <4>3. /\ Append(s, b) \in Seq(Cbs) /\ DOMAIN Append(s, b) = 1 .. m + 1
                  /\ Append(s, b)[m + 1] = b /\ \A k \in 1 .. m : Append(s, b)[k] = s[k]
                BY <1>4, <4>2
            <4>4. IsOnce(s) /\ ~In(s, b)
                BY <4>1, <3>2, <1>9, <1>h2
            <4>5. IsOnce(Append(s, b))
                BY <4>2, <4>3, <4>4 DEF IsOnce, In
            <4>6. \A x \in Cbs : In(Append(s, b), x) => In(s, x) \/ x = b
                BY <4>2, <4>3 DEF In
            <4>7. Append(s, b) # <<>>
                BY <4>2, <4>3
            <4> QED
                BY <4>1, <4>3, <4>5, <4>6, <4>7
        <3>4. \A x \in Cbs : In(handler'[n], x) => Held(x, n) \/ x = b
            BY <3>1, <3>3, <1>9 DEF Held
        <3>5. CallbacksInv'
            BY <1>3, <1>9, <2>7, <3>1, <3>3, <3>4, WaitCallbacks
        <3>6. handler' \in [Names -> Seq(Cbs) \cup {Absent}]
            BY <1>e, <2>7, <3>3
        <3>7. DOMAIN asks' = DOMAIN asks
            BY <2>7, <1>t
        <3>8. ElementsInv'
            BY <1>4, <1>9, <1>e, <2>1, <2>3, <2>4, <2>7, <3>1, <3>3, <3>6, <3>7, StillElements
            DEF Furnished
        <3> QED
            BY <3>5, <3>8 DEF OdflInv
    <2> QED
        BY <1>9, <2>5, <2>6, <2>7
<1> QED
    BY <1>0, <1>1, <1>2, <1>6, <1>7, <1>8, <1>9, Zenon DEF Odfl!LoadRes

LEMMA LoadedStep ==
    ASSUME OdflInv, Odfl!Loaded
    PROVE  OdflInv'
<1>1. PICK l \in loads : /\ loads' = loads \ {l} /\ there' = there \cup {l[1]}
                         /\ Odfl!FlagState(l[1]) /\ Odfl!DealHandler(l[1])
    BY DEF Odfl!Loaded
<1>2. agenda = <<>> /\ UNCHANGED <<attr, known, comRes, answered, lost, thrown>>
    BY DEF Odfl!Loaded
<1>3. PICK n \in Names : n = l[1]
    BY DEF OdflInv, ElementsInv
<1>4. CallbacksInv'
    BY <1>1, <1>2, <1>3, LoadedCallbacks
<1>e. /\ handler \in [Names -> Seq(Cbs) \cup {Absent}] /\ attr \in Seq(SUBSET Comps)
      /\ known \in Seq(Comps) /\ comRes \in [Comps -> [Names -> 0 .. Len(attr)]]
      /\ there \subseteq Names /\ lost \subseteq Names /\ thrown \subseteq DOMAIN asks
      /\ handler[n] # Absent => HasElement(n)
    BY DEF OdflInv, ElementsInv
<1>5. \A m \in Names : HasElement(m) => HasElement(m)'
    BY <1>2 DEF HasElement
<1>6. /\ handler' \in [Names -> Seq(Cbs) \cup {Absent}]
      /\ \A m \in Names : m # n => handler'[m] = handler[m]
      /\ handler'[n] # Absent => handler'[n] = <<>> /\ handler[n] # Absent
    <2>1. CASE handler[n] = Absent
        BY <1>1, <1>3, <1>e, <2>1 DEF Odfl!DealHandler
    <2>2. CASE handler[n] # Absent
        <3>1. handler' = [handler EXCEPT ![n] = <<>>]
            BY <1>1, <1>3, <2>2 DEF Odfl!DealHandler
        <3>2. <<>> \in Seq(Cbs)
            OBVIOUS
        <3> QED
            BY <1>e, <2>2, <3>1, <3>2
    <2> QED
        BY <2>1, <2>2
<1>7. DOMAIN asks' = DOMAIN asks
    BY <1>1 DEF Odfl!FlagState
<1>8. /\ \A x \in loads' : x \in loads
      /\ \A x \in loads : x[1] # n => x \in loads'
      /\ n \in there' /\ there \subseteq there' /\ there' \subseteq Names
    BY <1>1, <1>3, <1>e
<1>9. ElementsInv'
    BY <1>2, <1>e, <1>5, <1>6, <1>7, <1>8, StillElements
<1> QED
    BY <1>4, <1>9 DEF OdflInv

LEMMA FailedStep ==
    ASSUME OdflInv, Odfl!Failed
    PROVE  OdflInv'
<1>1. PICK l \in loads : loads' = loads \ {l} /\ lost' = lost \cup {l[1]}
    BY DEF Odfl!Failed
<1>2. agenda = <<>> /\ UNCHANGED <<handler, asks, agenda, attr, known, comRes, answered, there, thrown>>
    BY DEF Odfl!Failed
<1>3. PICK n \in Names : n = l[1]
    BY DEF OdflInv, ElementsInv
<1>4. CallbacksInv'
    BY <1>2, DropCallbacks
<1>e. /\ handler \in [Names -> Seq(Cbs) \cup {Absent}] /\ attr \in Seq(SUBSET Comps)
      /\ known \in Seq(Comps) /\ comRes \in [Comps -> [Names -> 0 .. Len(attr)]]
      /\ there \subseteq Names /\ lost \subseteq Names /\ thrown \subseteq DOMAIN asks
      /\ handler[n] # Absent => HasElement(n) /\ (handler[n] = <<>> => n \in there)
    BY DEF OdflInv, ElementsInv
<1>5. \A m \in Names : HasElement(m) => HasElement(m)'
    BY <1>2 DEF HasElement
<1>8. /\ \A x \in loads' : x \in loads
      /\ \A x \in loads : x[1] # n => x \in loads'
      /\ n \in lost' /\ lost \subseteq lost' /\ lost' \subseteq Names
    BY <1>1, <1>3, <1>e
<1>9. ElementsInv'
    BY <1>2, <1>e, <1>5, <1>8, StillElements
<1> QED
    BY <1>4, <1>9 DEF OdflInv

(* What a component alone uses is forgotten, and counts as lost.           *)
LEMMA RemoveStep ==
    ASSUME OdflInv, Odfl!RemoveComp
    PROVE  OdflInv'
<1>1. PICK c \in Odfl!ToSet(known) :
          LET Its(e) == \E n \in Odfl!Names : comRes[c][n] = e
              own    == {n \in Odfl!Names : comRes[c][n] # 0 /\ attr[comRes[c][n]] = {c}}
              Gone(l) == l[1] \in own \cap Styles /\ l[2] = comRes[c][l[1]]
          IN
          /\ handler' = [n \in Odfl!Names |-> IF n \in own THEN Absent ELSE handler[n]]
          /\ loads' = {l \in loads : ~Gone(l)}
          /\ attr' = [e \in DOMAIN attr |-> IF Its(e) /\ attr[e] # {c} THEN attr[e] \ {c}
                                             ELSE attr[e]]
          /\ lost' = lost \cup own
    BY Zenon DEF Odfl!RemoveComp
<1>2. PICK own \in SUBSET Names :
          /\ handler' = [n \in Names |-> IF n \in own THEN Absent ELSE handler[n]]
          /\ \A l \in loads' : l \in loads
          /\ \A l \in loads : l[1] \notin own => l \in loads'
          /\ lost' = lost \cup own
    <2> DEFINE U == {n \in Names : comRes[c][n] # 0 /\ attr[comRes[c][n]] = {c}}
    <2>1. U \in SUBSET Names
        OBVIOUS
    <2>2. /\ handler' = [n \in Names |-> IF n \in U THEN Absent ELSE handler[n]]
          /\ \A l \in loads' : l \in loads
          /\ \A l \in loads : l[1] \notin U => l \in loads'
          /\ lost' = lost \cup U
        BY <1>1 DEF Names
    <2> QED
        BY <2>1, <2>2
<1>3. UNCHANGED <<asks, agenda, known, comRes, answered, there, thrown>> /\ agenda = <<>>
    BY DEF Odfl!RemoveComp
<1>e. /\ handler \in [Names -> Seq(Cbs) \cup {Absent}] /\ attr \in Seq(SUBSET Comps)
      /\ comRes \in [Comps -> [Names -> 0 .. Len(attr)]] /\ lost \subseteq Names
    BY DEF OdflInv, ElementsInv
<1>4. attr' \in Seq(SUBSET Comps) /\ Len(attr') = Len(attr) /\ DOMAIN attr' = DOMAIN attr
    <2>1. PICK m \in Nat : m = Len(attr) /\ DOMAIN attr = 1 .. m
        BY <1>e
    <2>2. DOMAIN attr' = 1 .. m /\ \A e \in 1 .. m : attr'[e] \in {attr[e], attr[e] \ {c}}
        BY <1>1, <2>1
    <2>3. \A e \in 1 .. m : attr[e] \in SUBSET Comps
        BY <1>e, <2>1
    <2>4. attr' \in [1 .. m -> SUBSET Comps]
        <3>1. attr' = [e \in 1 .. m |-> attr'[e]]
            BY <1>1, <2>1
        <3>2. \A e \in 1 .. m : attr'[e] \in SUBSET Comps
            BY <2>2, <2>3
        <3> QED
            BY <3>1, <3>2
    <2> QED
        BY <2>1, <2>2, <2>4
<1>5. \A n \in Names : handler'[n] = IF n \in own THEN Absent ELSE handler[n]
    BY <1>2
<1>6. CallbacksInv'
    <2>1. \A n \in Names : handler'[n] \in {Absent, handler[n]}
        BY <1>5
    <2>2. UNCHANGED <<asks, answered, there>> /\ agenda' = <<>>
        BY <1>3
    <2> QED
        BY <2>1, <2>2, DropCallbacks
<1>7. handler' \in [Names -> Seq(Cbs) \cup {Absent}]
    BY <1>2, <1>e
<1>8. \A m \in Names : HasElement(m) => HasElement(m)'
    BY <1>3 DEF HasElement
<1>9. ASSUME NEW n \in Names, handler'[n] # Absent
      PROVE  /\ handler'[n] = <<>> => n \in there'
             /\ handler'[n] # <<>> /\ n \notin lost' => \E l \in loads' : l[1] = n
             /\ HasElement(n)'
    <2>1. n \notin own /\ handler'[n] = handler[n]
        BY <1>5, <1>9
    <2>2. /\ handler[n] = <<>> => n \in there
          /\ handler[n] # <<>> /\ n \notin lost => \E l \in loads : l[1] = n
          /\ HasElement(n)
        BY <1>9, <2>1 DEF OdflInv, ElementsInv
    <2>3. ASSUME handler'[n] # <<>>, n \notin lost'
          PROVE  \E l \in loads' : l[1] = n
        <3>1. PICK l \in loads : l[1] = n
            BY <1>2, <2>1, <2>2, <2>3
        <3> QED
            BY <1>2, <2>1, <3>1
    <2> QED
        BY <1>3, <1>8, <2>1, <2>2, <2>3
<1>10. \A l \in loads' : l[1] \in Names /\ l[2] \in DOMAIN attr'
    BY <1>2, <1>4 DEF OdflInv, ElementsInv
<1>11. /\ known' \in Seq(Comps) /\ comRes' \in [Comps -> [Names -> 0 .. Len(attr')]]
       /\ there' \subseteq Names /\ lost' \subseteq Names /\ thrown' \subseteq DOMAIN asks'
    BY <1>2, <1>3, <1>4 DEF OdflInv, ElementsInv
<1>12. ElementsInv'
    BY <1>4, <1>7, <1>9, <1>10, <1>11 DEF ElementsInv
<1> QED
    BY <1>6, <1>12 DEF OdflInv

LEMMA ForceStep ==
    ASSUME OdflInv, Odfl!Force
    PROVE  OdflInv'
<1>1. UNCHANGED <<handler, loads, attr, known, comRes, there, lost, thrown>>
    BY DEF Odfl!Force
<1>2. CallbacksInv'
    BY ForceCallbacks
<1>3. DOMAIN asks \subseteq DOMAIN asks'
    <2>1. AsksFit(asks)
        BY DEF OdflInv, CallbacksInv
    <2>2. PICK x : asks' = Append(asks, x)
        BY DEF Odfl!Force, Odfl!Ask
    <2> QED
        BY <2>1, <2>2, AskParts
<1>4. ElementsInv'
    <2>1. \A m \in Names : HasElement(m) => HasElement(m)'
        BY <1>1 DEF HasElement
    <2>2. thrown' \subseteq DOMAIN asks'
        BY <1>1, <1>3 DEF OdflInv, ElementsInv
    <2> QED
        BY <1>1, <2>1, <2>2 DEF OdflInv, ElementsInv
<1> QED
    BY <1>2, <1>4 DEF OdflInv

LEMMA CallBackStep ==
    ASSUME OdflInv, agenda # <<>>, Head(agenda).op # "load",
           Odfl!CallBack(Head(agenda).r, Head(agenda).i), UNCHANGED <<there, lost>>
    PROVE  OdflInv'
<1>1. UNCHANGED <<handler, asks, loads, attr, known, comRes, there, lost, thrown>>
    BY DEF Odfl!CallBack
<1>2. CallbacksInv'
    BY CallBackCallbacks
<1>3. ElementsInv'
    <2>1. \A m \in Names : HasElement(m) => HasElement(m)'
        BY <1>1 DEF HasElement
    <2> QED
        BY <1>1, <2>1 DEF OdflInv, ElementsInv
<1> QED
    BY <1>2, <1>3 DEF OdflInv

LEMMA OdflStep ==
    ASSUME OdflInv, Odfl!Next \/ UNCHANGED odflVars
    PROVE  OdflInv'
<1>1. CASE Odfl!Turn
    <2>1. agenda # <<>> /\ UNCHANGED <<there, lost>>
        BY <1>1 DEF Odfl!Turn
    <2>2. CASE Head(agenda).op = "load"
        BY <1>1, <2>1, <2>2, LoadResStep DEF Odfl!Turn
    <2>3. CASE Head(agenda).op # "load"
        BY <1>1, <2>1, <2>3, CallBackStep DEF Odfl!Turn
    <2> QED
        BY <2>2, <2>3
<1>2. CASE UNCHANGED odflVars
    <2>1. UNCHANGED <<handler, asks, loads, agenda, attr, known, comRes, answered, there,
                      lost, thrown>>
        BY <1>2 DEF odflVars
    <2>2. CallbacksInv'
        BY <2>1, Zenon DEF OdflInv, CallbacksInv, Waiting, Held, TakenOver, Planned, AnsweredOnce, Due
    <2>3. ElementsInv'
        BY <2>1, Zenon DEF OdflInv, ElementsInv, HasElement
    <2> QED
        BY <2>2, <2>3 DEF OdflInv
<1> QED
    BY <1>1, <1>2, ForceStep, LoadedStep, FailedStep, RemoveStep DEF Odfl!Next

LEMMA OdflInit ==
    ASSUME Odfl!Init
    PROVE  OdflInv
<1>1. /\ handler = [n \in Names |-> Absent] /\ there = {} /\ asks = <<>> /\ loads = {}
      /\ agenda = <<>> /\ answered = <<>> /\ comRes = [c \in Comps |-> [n \in Names |-> 0]]
      /\ attr = <<>> /\ known = <<>> /\ lost = {} /\ thrown = {}
    BY DEF Odfl!Init, Names
<1>2. DOMAIN asks = {} /\ DOMAIN answered = {} /\ Len(attr) = 0
    BY <1>1
<1>3. AsksFit(asks) /\ answered \in Seq(Nat)
    BY <1>1, <1>2 DEF AsksFit
<1>4. \A b \in Cbs : ~Is(asks, b) /\ ~CallIn(agenda, b) /\ ~LoadIn(agenda, b)
    BY <1>1, <1>2, NothingToDo DEF Is
<1>5. Waiting /\ TakenOver /\ AnsweredOnce
    <2>1. \A n \in Names : handler[n] = Absent
        BY <1>1
    <2> QED
        BY <1>2, <2>1 DEF Waiting, Held, TakenOver, AnsweredOnce
<1>6. Planned
    BY <1>1, <1>4, NothingToDo DEF Planned
<1>7. Due({})
    BY <1>4 DEF Due
<1>8. CallbacksInv
    BY <1>2, <1>3, <1>4, <1>5, <1>6, <1>7 DEF CallbacksInv
<1>9. ElementsInv
    <2>1. /\ handler \in [Names -> Seq(Cbs) \cup {Absent}]
          /\ \A n \in Names : handler[n] = Absent
        BY <1>1
    <2>2. comRes \in [Comps -> [Names -> 0 .. Len(attr)]]
        BY <1>1, <1>2
    <2> QED
        BY <1>1, <2>1, <2>2 DEF ElementsInv
<1> QED
    BY <1>8, <1>9 DEF OdflInv

(* A resource that waits was asked for by its name.                        *)
LEMMA OdflHolds ==
    ASSUME OdflInv
    PROVE  SucceedsOnceWithAll
<1>h. AsksFit(asks) /\ DOMAIN answered = DOMAIN asks
    BY DEF OdflInv, CallbacksInv
<1>1. ASSUME NEW n \in Names, handler[n] # Absent, NEW k \in DOMAIN handler[n]
      PROVE  /\ handler[n][k] \in Cbs /\ Held(handler[n][k], n)
             /\ Is(asks, handler[n][k]) /\ Item(asks, handler[n][k]) = n
    <2>1. PICK b \in Cbs : b = handler[n][k]
        BY <1>1 DEF OdflInv, CallbacksInv, Waiting
    <2>2. Held(b, n)
        BY <1>1, <2>1 DEF Held, In
    <2>3. Is(asks, b) /\ Item(asks, b) = n
        BY <2>2 DEF OdflInv, CallbacksInv, Waiting
    <2> QED
        BY <2>1, <2>2, <2>3
<1>2. Odfl!TypeOK
    <2>1. \A n \in Names : handler[n] = Absent
                           \/ \A k \in DOMAIN handler[n] : handler[n][k][1] \in DOMAIN asks
        BY <1>1 DEF Is
    <2> QED
        BY <1>h, <2>1 DEF OdflInv, ElementsInv, Odfl!TypeOK, Names
<1>3. Odfl!SucceedsOnceWithAll
    <2> SUFFICES ASSUME NEW r \in DOMAIN asks, answered[r] > 0
                 PROVE  answered[r] = 1 /\ Odfl!ToSet(asks[r].items) \subseteq there
        BY DEF Odfl!SucceedsOnceWithAll
    <2>1. /\ answered[r] = 1
          /\ \A i \in DOMAIN asks[r].items : Came(asks, <<r, i>>)
        BY DEF OdflInv, CallbacksInv, AnsweredOnce
    <2>2. ASSUME NEW i \in DOMAIN asks[r].items
          PROVE  asks[r].items[i] \in there
        <3>1. <<r, i>> \in Cbs
            BY <1>h, AskParts DEF Cbs
        <3>2. Is(asks, <<r, i>>) /\ Item(asks, <<r, i>>) = asks[r].items[i]
            BY DEF Is, Item
        <3> QED
            BY <2>1, <3>1, <3>2 DEF OdflInv, CallbacksInv
    <2> QED
        BY <2>1, <2>2 DEF Odfl!ToSet
<1>4. Odfl!SomebodyLoads
    <2> SUFFICES ASSUME NEW n \in Names, handler[n] # Absent
                 PROVE  /\ handler[n] = <<>> => n \in there
                        /\ \A k \in DOMAIN handler[n] : ~Odfl!Excused(handler[n][k][1]) =>
                              \E l \in loads : l[1] = n
        BY DEF Odfl!SomebodyLoads, Names
    <2>1. /\ handler[n] = <<>> => n \in there
          /\ handler[n] # <<>> /\ n \notin lost => \E l \in loads : l[1] = n
        BY DEF OdflInv, ElementsInv
    <2>2. ASSUME NEW k \in DOMAIN handler[n], ~Odfl!Excused(handler[n][k][1])
          PROVE  handler[n] # <<>> /\ n \notin lost
        <3>1. PICK b \in Cbs : b = handler[n][k]
            BY <1>1
        <3>2. b[2] \in DOMAIN asks[b[1]].items /\ asks[b[1]].items[b[2]] = n
            BY <1>1, <3>1 DEF Is, Item
        <3>3. n \in Odfl!ToSet(asks[b[1]].items)
            BY <3>2 DEF Odfl!ToSet
        <3>4. n \notin lost
            BY <2>2, <3>1, <3>3 DEF Odfl!Excused
        <3> QED
            BY <3>4
    <2> QED
        BY <2>1, <2>2
<1> QED
    BY <1>2, <1>3, <1>4 DEF SucceedsOnceWithAll

-----------------------------------------------------------------------------
(* Whichever part runs, all three stay in order.                           *)
LEMMA LoaderBegin == Begin => LoaderInv
    BY DialogInit, MessageInit, OdflInit DEF Begin, LoaderInv

LEMMA LoaderStep ==
    ASSUME LoaderInv, [Move]_all
    PROVE  LoaderInv'
<1>1. Dialog!Next \/ UNCHANGED dialogVars
    BY DEF Move, Only, all
<1>2. Message!Next \/ UNCHANGED messageVars
    BY DEF Move, Only, all
<1>3. Odfl!Next \/ UNCHANGED odflVars
    BY DEF Move, Only, all
<1> QED
    BY <1>1, <1>2, <1>3, DialogStep, MessageStep, OdflStep DEF LoaderInv

LEMMA LoaderAlways == Loader => []LoaderInv
    BY LoaderBegin, LoaderStep, PTL DEF Loader

LEMMA LoaderHolds == LoaderInv => LayersHaveDialogs
    BY DialogReached, MessageAlone DEF LoaderInv, DialogInv, LayersHaveDialogs

(* Dialogs may be opened, closed, given options, raised, switched and      *)
(* destroyed in any order and in the middle of each other's animations:    *)
(* while a layer covers the page there is a dialog above it, but for the   *)
(* layer of a dialog whose options were set after it was closed (as the    *)
(* timer of open() does), the page gets its scroll bars back, and the      *)
(* messages of the pages replace each other.                               *)
THEOREM LayersGoWithDialogs == Loader => []LayersHaveDialogs
    BY LoaderAlways, LoaderHolds, PTL

LEMMA OdflAgrees == LoaderInv => SucceedsOnceWithAll
    BY OdflHolds DEF LoaderInv

(* Calls of force may share resources, ask for them again while others     *)
(* wait, and see them fail or be removed: success of each runs at most     *)
(* once and only when all it names has been loaded, a list of callbacks is *)
(* empty only when the resource is there, and what is waited for is being  *)
(* loaded unless it was lost (_loadRes, _dealHandler, _flagState).         *)
THEOREM CallsSucceedOnceWithAll == Loader => []SucceedsOnceWithAll
    BY LoaderAlways, OdflAgrees, PTL
=============================================================================
