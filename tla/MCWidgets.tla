----------------------------- MODULE MCWidgets ------------------------------
(***************************************************************************)
(* The widgets on the pages of the website (cloudJs), for TLC, and what is *)
(* proved of them.  Each has the variables of its own module and shares    *)
(* none with another; what two widgets share, the page under them, is part *)
(* of each module.  A behaviour runs one of them, which BeginWidget        *)
(* chooses, in the variables s1, s2, ..., as the INSTANCEs below say.      *)
(***************************************************************************)
EXTENDS Integers, Sequences, FiniteSetTheorems, SequenceTheorems, TLC, TLAPS

CONSTANTS
    None,               \* also for the other empty values of the modules
    Undef,              \* "undefined" as the text of a hidden field
    Tabs, MaxTabs, MaxMoves,
    Choices, Words,     \* values and other texts of a combobox
    MaxAsked,
    Pictures,
    Eles,               \* elements of the page
    Screen, Places, EleSizes, BoxSizes,
    Forms,
    Fields, LastDay, Today,
    Multi, PerYear, BeginYear, EndYear, MinDate, MaxDate, Now,
    Ids, MaxMasks,
    Items, Parent,
    Full, MaxBars

VARIABLES
    active,     \* the module whose program runs
    s1, s2, s3, s4, s5, s6, s7, s8, s9, s10, s11
                \* its variables, and Nothing where it has fewer

all == <<active, s1, s2, s3, s4, s5, s6, s7, s8, s9, s10, s11>>

Ctab == INSTANCE Ctab WITH
    MaxNum <- MaxTabs, panels <- s1, lis <- s2, selList <- s3, selected <- s4,
    content <- s5, hover <- s6, recent <- s7, moved <- s8
Combobox == INSTANCE Combobox WITH
    Items <- Choices, Free <- Words, Empty <- None, checkValue <- s1, hasDefault <- s2,
    cObj <- s3, focused <- s4, searchTimeout <- s5, odd <- s6
Slide == INSTANCE Slide WITH
    Count <- Pictures, slideOpt <- s1, activeIndex <- s2, slideInterval <- s3,
    slideMouse <- s4, isMouseEnter <- s5, arrows <- s6
Tips == INSTANCE Tips WITH
    Nobody <- None, hoverTips <- s1, tipsMouse <- s2, visible <- s3, timeout1 <- s4,
    strays <- s5, timeout2 <- s6, title <- s7, forced <- s8
Placement == INSTANCE Placement WITH
    NoPosition <- None, geometry <- s1, box <- s2
Validate == INSTANCE Validate WITH
    NoTimer <- None, valid <- s1, marked <- s2, failed <- s3, bound <- s4, timer <- s5,
    focused <- s6, delayed <- s7, orphaned <- s8, inside <- s9, filled <- s10
Calendar == INSTANCE Calendar WITH
    Nobody <- None, fields <- s1, cal <- s2, owner <- s3, visible <- s4,
    overPanel <- s5, caret <- s6, opts <- s7
Prompts == INSTANCE Prompts WITH
    box <- s1, _animating <- s2, asked <- s3, swallowed <- s4, heard <- s5
Mask == INSTANCE Mask WITH
    NoId <- None, masks <- s1, made <- s2, disabled <- s3, label <- s4, maskEle <- s5,
    quiet <- s6, freed <- s7
Monthpicker == INSTANCE Monthpicker WITH
    panel <- s1, visible <- s2, inside <- s3, focus <- s4, shown <- s5,
    mouseover <- s6, leavers <- s7, months <- s8, text <- s9, hidden <- s10,
    rangeArr <- s11
Tab == INSTANCE Tab WITH
    length <- s1, enableHover <- s2, isAuto <- s3, selectIndex <- s4, mouse <- s5,
    hoverTimeout <- s6, switchInteval <- s7, chosen <- s8
Menu == INSTANCE Menu WITH
    kind <- s1, isHideOther <- s2, mouse <- s3, onPanel <- s4, mIndex <- s5,
    shown <- s6, hover <- s7, showing <- s8, hiding <- s9
Progressbar == INSTANCE Progressbar WITH
    bar <- s1, timeouts <- s2, interval <- s3, value <- s4, _paused <- s5,
    options <- s6, open <- s7, destroyed <- s8, twice <- s9

-----------------------------------------------------------------------------
(* What the values must be for the proofs.                                 *)
ASSUME TabAssumption == MaxTabs \in Nat \ {0} /\ MaxMoves \in Nat

(* A menu has two levels.                                                  *)
ASSUME MenuAssumption ==
    /\ None \notin Items /\ Parent \in [Items -> Items \cup {None}]
    /\ \A i \in Items : Parent[i] = None \/ Parent[Parent[i]] = None

ASSUME ValidateAssumption == \A S \in SUBSET UNION Forms : S # None

ASSUME TipsAssumption == None \notin Eles \cup ({"ele", "tips"} \X Eles)

ASSUME MaskAssumption == None \notin Ids /\ MaxMasks \in Nat

ASSUME PromptsAssumption == MaxAsked \in Nat

(* What opens is placed beside an element of the window, by halves.        *)
ASSUME PlacementAssumption ==
    /\ Screen \in Nat /\ Places \subseteq 0 .. Screen
    /\ \A n \in EleSizes \cup BoxSizes : n \in Nat /\ n % 2 = 0
    /\ \A i \in DOMAIN Placement!Positions : Placement!Positions[i] # None

ASSUME CalendarAssumption == LastDay \in Nat /\ Today \in 1 .. LastDay /\ None \notin Fields

ASSUME MonthpickerAssumption ==
    /\ PerYear \in Nat \ {0} /\ BeginYear \in Nat \ {0} /\ EndYear \in Nat
    /\ None \notin Fields /\ Multi \subseteq Fields
    /\ {MinDate, MaxDate, Now} \subseteq Monthpicker!Month /\ MinDate <= MaxDate
    /\ Undef \notin Monthpicker!Month /\ None \notin Monthpicker!Month /\ Undef # None

ASSUME SlideAssumption == Pictures \in Nat \ {0}

ASSUME ProgressbarAssumption == Full \in Nat \ {0} /\ MaxBars \in Nat

-----------------------------------------------------------------------------
(* For the configurations: a menu of two items, the first with two         *)
(* children.                                                               *)
Tree == "a" :> None @@ "b" :> "a" @@ "c" :> "a" @@ "d" :> None

-----------------------------------------------------------------------------
Nothing == 0

(* The variables after the first k have no value, and keep none.           *)
Blank(k) ==
    /\ k < 3 => s3 = Nothing
    /\ k < 4 => s4 = Nothing
    /\ k < 5 => s5 = Nothing
    /\ k < 6 => s6 = Nothing
    /\ k < 7 => s7 = Nothing
    /\ k < 8 => s8 = Nothing
    /\ k < 9 => s9 = Nothing
    /\ k < 10 => s10 = Nothing
    /\ k < 11 => s11 = Nothing
Idle(k) ==
    /\ k < 3 => UNCHANGED s3
    /\ k < 4 => UNCHANGED s4
    /\ k < 5 => UNCHANGED s5
    /\ k < 6 => UNCHANGED s6
    /\ k < 7 => UNCHANGED s7
    /\ k < 8 => UNCHANGED s8
    /\ k < 9 => UNCHANGED s9
    /\ k < 10 => UNCHANGED s10
    /\ k < 11 => UNCHANGED s11

BeginWidget ==
    \/ active = "Ctab" /\ Ctab!Init /\ Blank(8)
    \/ active = "Combobox" /\ Combobox!Init /\ Blank(6)
    \/ active = "Slide" /\ Slide!Init /\ Blank(6)
    \/ active = "Tips" /\ Tips!Init /\ Blank(8)
    \/ active = "Placement" /\ Placement!Init /\ Blank(2)
    \/ active = "Validate" /\ Validate!Init /\ Blank(10)
    \/ active = "Calendar" /\ Calendar!Init /\ Blank(7)
    \/ active = "Prompts" /\ Prompts!Init /\ Blank(5)
    \/ active = "Mask" /\ Mask!Init /\ Blank(7)
    \/ active = "Monthpicker" /\ Monthpicker!Init /\ Blank(11)
    \/ active = "Tab" /\ Tab!Init /\ Blank(8)
    \/ active = "Menu" /\ Menu!Init /\ Blank(9)
    \/ active = "Progressbar" /\ Progressbar!Init /\ Blank(9)

MoveWidget ==
    /\ UNCHANGED active
    /\ \/ active = "Ctab" /\ Ctab!Next /\ Idle(8)
       \/ active = "Combobox" /\ Combobox!Next /\ Idle(6)
       \/ active = "Slide" /\ Slide!Next /\ Idle(6)
       \/ active = "Tips" /\ Tips!Next /\ Idle(8)
       \/ active = "Placement" /\ Placement!Next /\ Idle(2)
       \/ active = "Validate" /\ Validate!Next /\ Idle(10)
       \/ active = "Calendar" /\ Calendar!Next /\ Idle(7)
       \/ active = "Prompts" /\ Prompts!Next /\ Idle(5)
       \/ active = "Mask" /\ Mask!Next /\ Idle(7)
       \/ active = "Monthpicker" /\ Monthpicker!Next /\ Idle(11)
       \/ active = "Tab" /\ Tab!Next /\ Idle(8)
       \/ active = "Menu" /\ Menu!Next /\ Idle(9)
       \/ active = "Progressbar" /\ Progressbar!Next /\ Idle(9)

Widgets == BeginWidget /\ [][MoveWidget]_all

-----------------------------------------------------------------------------
(* The tab that follows a closed one is the one used before it, while      *)
(* there are tabs one is selected, and each shows what it was made for.    *)
RecentTabFollows ==
    active = "Ctab" => /\ Ctab!TypeOK /\ Ctab!SomeTabIsSelected
                       /\ Ctab!RecentTabFollows /\ Ctab!TabShowsItsItem

(* What the user reads in a combobox is what its form posts.               *)
FieldsAgree == active = "Combobox" => Combobox!TypeOK /\ Combobox!FieldsAgree

(* What moves by itself moves when it should: pictures while the mouse is  *)
(* elsewhere, and only the progress bar that is shown.                     *)
MovesInSight ==
    /\ active = "Slide" => Slide!TypeOK /\ Slide!PlaysWhileAway
    /\ active = "Progressbar" => Progressbar!TypeOK /\ Progressbar!MovesInSight

(* No tip stays behind.                                                    *)
NoTipStaysBehind == active = "Tips" => Tips!TypeOK /\ Tips!NoTipStaysBehind

(* What opens beside an element does not cover it and is in the window.    *)
OpensInSight == active = "Placement" => Placement!OpensInSight

(* A message is only beside a field that failed its last check, and only   *)
(* one that was put there under the cursor, or beside a text that a script *)
(* wrote, outlasts its error.                                              *)
MessagesAreTrue == active = "Validate" => Validate!TypeOK /\ Validate!MessagesAreTrue

(* A range of days or months that was closed is a whole one, or the given. *)
RangesAreWhole ==
    /\ active = "Calendar" => Calendar!TypeOK /\ Calendar!RangeIsWhole
    /\ active = "Monthpicker" => Monthpicker!TypeOK /\ Monthpicker!MonthsAreWhole

(* The answer to a question is an answer to what the user has read.        *)
AnswersWhatWasRead == active = "Prompts" => Prompts!TypeOK /\ Prompts!AnswersWhatWasRead

(* What lies under a mask is disabled.                                     *)
DisabledWhileMasked == active = "Mask" => Mask!TypeOK /\ Mask!DisabledWhileMasked

(* A menu follows the mouse, and a tab the user has chosen stays.          *)
HoverFollows ==
    /\ active = "Menu" => Menu!TypeOK /\ Menu!MenuFollows
    /\ active = "Tab" => Tab!TypeOK /\ Tab!ChosenStays
-----------------------------------------------------------------------------
(* Proofs: a tab, and the validation of forms                              *)
LEMMA TabInit == Tab!Init => Tab!Inv
    BY TabAssumption DEF Tab!Init, Tab!Inv, Tab!TypeOK, Tab!ChosenStays, Tab!Indices, Tab!NoTab, Tab!Out, Tab!In

LEMMA TabStep ==
    ASSUME Tab!Inv, Tab!Next \/ UNCHANGED Tab!vars
    PROVE  Tab!Inv'
<1> USE TabAssumption DEF Tab!Inv, Tab!TypeOK, Tab!ChosenStays, Tab!Indices, Tab!NoTab, Tab!Out, Tab!In
<1>1. CASE UNCHANGED Tab!vars
    BY <1>1 DEF Tab!vars
<1>2. ASSUME NEW to \in Tab!Indices \cup {Tab!In, Tab!Out}, Tab!Move(to)
      PROVE  Tab!Inv'
    <2>1. /\ s5' = to /\ s6' = Tab!TimeoutOn(to) /\ s7' = (s3 /\ to = Tab!Out)
          /\ UNCHANGED <<s1, s2, s3, s4, s8>>
        BY <1>2 DEF Tab!Move, Tab!options
    <2>2. s7' \in BOOLEAN
        BY <2>1, Zenon
    <2>3. s6' \in Tab!Indices \cup {Tab!NoTab} /\ (s6' # Tab!NoTab => s2 /\ s6' = to)
        BY <2>1 DEF Tab!TimeoutOn
    <2>4. to # Tab!Out => ~s7'
        BY <2>1
    <2>5. Tab!TypeOK'
        BY <2>1, <2>2, <2>3
    <2>6. Tab!ChosenStays'
        BY <2>1, <2>3, <2>4
    <2> QED
        BY <2>1, <2>3, <2>4, <2>5, <2>6
<1>3. CASE Tab!HoverTimer
    BY <1>3 DEF Tab!HoverTimer, Tab!SwitchTo, Tab!options
<1>4. CASE Tab!Click
    BY <1>4 DEF Tab!Click, Tab!SwitchTo, Tab!options
<1>5. CASE Tab!Interval
    BY <1>5 DEF Tab!Interval, Tab!SwitchTo, Tab!options
<1> QED
    BY <1>1, <1>2, <1>3, <1>4, <1>5 DEF Tab!Next

LEMMA ValidateInit == Validate!Init => Validate!Inv
    BY DEF Validate!Init, Validate!TypeOK, Validate!MessagesAreTrue, Validate!Inv

(* What is kept when the messages of some fields go                        *)
LEMMA ValidateWithout ==
    ASSUME Validate!Inv, NEW fields, Validate!Without(fields),
           UNCHANGED <<s1, s3, s4>>, s5' = s5 \/ (s5' = None /\ s7' = {}),
           s6' = s6 \/ s6' = {} \/ \E f \in Validate!FormFields :
                                      s6' = {f} /\ (f \in s4 => f \in fields)
    PROVE  Validate!Inv'
<1> USE DEF Validate!Inv, Validate!TypeOK, Validate!MessagesAreTrue, Validate!Without
<1>1. s6' \subseteq Validate!FormFields /\ \A f, g \in s6' : f = g
    OBVIOUS
<1>2. s6' \cap s2' \subseteq s9'
    OBVIOUS
<1> QED
    BY <1>1, <1>2

LEMMA ValidateStep ==
    ASSUME Validate!Inv, Validate!Next \/ UNCHANGED Validate!vars
    PROVE  Validate!Inv'
<1> USE ValidateAssumption
<1>1. CASE UNCHANGED Validate!vars
    BY <1>1 DEF Validate!vars, Validate!Inv, Validate!TypeOK, Validate!MessagesAreTrue
<1>2. ASSUME NEW form \in Forms, Validate!RemoveErrmsg(form)
      PROVE  Validate!Inv'
    <2>1. Validate!Without(form) /\ s1' = s1 /\ s3' = s3 /\ s4' = s4 /\ s5' = s5 /\ s6' = s6
        BY <1>2 DEF Validate!RemoveErrmsg
    <2> QED
        BY <2>1, ValidateWithout, Zenon
<1>3. ASSUME NEW form \in Forms, NEW warn \in BOOLEAN, NEW delay \in BOOLEAN,
             Validate!Validate(form, warn, delay)
      PROVE  Validate!Inv'
    <2> DEFINE errors == form \ s1
               shown == IF warn THEN errors ELSE {}
               late == IF delay THEN shown ELSE {}
               running == IF s5 = None THEN {} ELSE s7 \cap s5
    <2>1. /\ s3' = (s3 \ form) \cup errors /\ s2' = (s2 \ form) \cup shown
          /\ s4' = s4 \cup shown /\ s1' = s1 /\ s6' = s6
        BY <1>3 DEF Validate!Validate
    <2>2. s7' = (s7 \ form) \cup late /\ s8' = (s8 \cup running) \ form
        BY <1>3, Zenon DEF Validate!Validate
    <2>3. s9' = (s9 \ form) \cup (shown \cap s6) /\ s10' = s10 \ form
        BY <1>3 DEF Validate!Validate
    <2>4. s5' = IF delay /\ shown # {} THEN shown ELSE None
        BY <1>3 DEF Validate!Validate, Validate!TimerOf
    <2>5. shown \subseteq form \ s1 /\ form \subseteq Validate!FormFields
        BY DEF Validate!FormFields
    <2>6. /\ (late # {} => s5' = shown /\ late = shown) /\ late \subseteq shown
          /\ (s5' # None => s5' \subseteq shown)
        BY <2>4
    <2>7. s7 \ s8 \subseteq running
        BY DEF Validate!Inv, Validate!MessagesAreTrue
    <2>8. shown # None
        BY <2>5 DEF Validate!FormFields
    <2> HIDE DEF shown, late, running
    <2> USE DEF Validate!Inv, Validate!TypeOK, Validate!MessagesAreTrue
    <2>9. Validate!TypeOK'
        <3>1. s1' \subseteq Validate!FormFields /\ s2' \subseteq Validate!FormFields
            BY <2>1, <2>5
        <3>2. s3' \subseteq Validate!FormFields /\ s4' \subseteq Validate!FormFields
            BY <2>1, <2>5
        <3>3. s7' \subseteq Validate!FormFields
            BY <2>2, <2>5, <2>6
        <3>4. s5' # None => s5' \subseteq Validate!FormFields
            BY <2>5, <2>6
        <3>5. s6' \subseteq Validate!FormFields /\ \A f, g \in s6' : f = g
            BY <2>1
        <3> QED
            BY <3>1, <3>2, <3>3, <3>4, <3>5, Zenon
    <2>10. s2' \subseteq s3' \cap s4'
        BY <2>1, <2>5
    <2>11. s2' \cap s1' \subseteq s9' \cup s10'
        BY <2>1, <2>3, <2>5
    <2>12. s7' \ s8' \subseteq late
        BY <2>2, <2>7
    <2>13. s7' \ s8' # {} => s5' # None /\ s7' \ s8' \subseteq s5'
        <3>1. late # {} => s5' = late /\ late # None
            BY <2>6, <2>8
        <3> QED
            BY <2>12, <3>1
    <2>14. s9' \cup s10' \subseteq s2'
        BY <2>1, <2>3
    <2>15. s6' \cap s2' \subseteq s9'
        BY <2>1, <2>3
    <2> QED
        BY <2>9, <2>10, <2>11, <2>13, <2>14, <2>15, Zenon
<1>4. ASSUME NEW f \in Validate!FormFields, Validate!Focus(f)
      PROVE  Validate!Inv'
    <2>1. Validate!Without({f} \cap s4) /\ s1' = s1 /\ s3' = s3 /\ s4' = s4 /\ s5' = s5 /\ s6' = {f}
        BY <1>4 DEF Validate!Focus
    <2>2. f \in s4 => f \in {f} \cap s4
        OBVIOUS
    <2> QED
        BY <2>1, <2>2, ValidateWithout, Zenon
<1>5. ASSUME NEW f \in Validate!FormFields, Validate!Edit(f)
      PROVE  Validate!Inv'
    <2>1. /\ f \in s6 /\ s1' \subseteq Validate!FormFields /\ (s1' \ {f}) \subseteq s1
          /\ s2' = s2 /\ s3' = s3 /\ s4' = s4 /\ s5' = s5 /\ s6' = s6 /\ s7' = s7
          /\ s8' = s8 /\ s9' = s9 /\ s10' = s10
        BY <1>5 DEF Validate!Edit, Validate!Rewritten, Validate!messages, Validate!Inv, Validate!TypeOK
    <2> QED
        BY <2>1 DEF Validate!Inv, Validate!TypeOK, Validate!MessagesAreTrue
<1>6. ASSUME NEW f \in Validate!FormFields, Validate!Fill(f)
      PROVE  Validate!Inv'
    <2>1. /\ s1' \subseteq Validate!FormFields /\ (s1' \ {f}) \subseteq s1
          /\ s2' = s2 /\ s3' = s3 /\ s4' = s4 /\ s5' = s5 /\ s6' = s6 /\ s7' = s7
          /\ s8' = s8 /\ s9' = s9 /\ s10' = s10 \cup ({f} \cap s2)
        BY <1>6 DEF Validate!Fill, Validate!Rewritten, Validate!Inv, Validate!TypeOK
    <2> QED
        BY <2>1 DEF Validate!Inv, Validate!TypeOK, Validate!MessagesAreTrue
<1>7. CASE Validate!Blur
    <2>1. /\ s1' = s1 /\ s2' = s2 /\ s3' = s3 /\ s4' = s4 /\ s5' = s5 /\ s6' = {} /\ s7' = s7
          /\ s8' = s8 /\ s9' = s9 /\ s10' = s10
        BY <1>7 DEF Validate!Blur, Validate!messages
    <2> QED
        BY <2>1 DEF Validate!Inv, Validate!TypeOK, Validate!MessagesAreTrue
<1>8. CASE Validate!Timeout \/ Validate!RemoveErrmsgs
    <2>1. /\ Validate!Without(Validate!FormFields) /\ s1' = s1 /\ s3' = s3 /\ s4' = s4 /\ s6' = s6
          /\ (s5' = s5 \/ s5' = None)
        BY <1>8 DEF Validate!Timeout, Validate!RemoveErrmsgs
    <2>2. s7' = {}
        BY <2>1 DEF Validate!Without, Validate!Inv, Validate!TypeOK
    <2> QED
        BY <2>1, <2>2, ValidateWithout, Zenon
<1> QED
    BY <1>1, <1>2, <1>3, <1>4, <1>5, <1>6, <1>7, <1>8 DEF Validate!Next
-----------------------------------------------------------------------------
(* Closable tabs                                                           *)
(* Positions among those that are kept.                                    *)
LEMMA RankGrows ==
    ASSUME NEW n \in Nat, NEW K \in SUBSET (1 .. n)
    PROVE  /\ IsFiniteSet(K) /\ Cardinality(K) \in Nat /\ Ctab!Cardinality(K) = Cardinality(K)
           /\ \A i \in K : Ctab!Rank(K, i) \in 1 .. Cardinality(K)
           /\ \A i, j \in K : i < j => Ctab!Rank(K, i) < Ctab!Rank(K, j)
<1> DEFINE Low(i) == {j \in K : j <= i}
<1>1. IsFiniteSet(K) /\ Cardinality(K) \in Nat
    BY FS_Interval, FS_Subset, FS_CardinalityType, 1 \in Int, n \in Int
<1>2. ASSUME NEW S PROVE Ctab!Cardinality(S) = Cardinality(S)
    BY Zenon DEF Ctab!Cardinality, Cardinality
<1>3. \A i \in K : Ctab!Rank(K, i) = Cardinality(Low(i))
    BY <1>2, Zenon DEF Ctab!Rank
<1>4. \A i \in K : Low(i) \in SUBSET K /\ i \in Low(i)
    OBVIOUS
<1>5. ASSUME NEW i \in K, NEW j \in K, i < j
      PROVE  Low(i) \in SUBSET Low(j) /\ j \notin Low(i)
    <2>1. \A k \in K : k \in Int
        OBVIOUS
    <2>2. \A k \in K : k <= i => k <= j
        BY <1>5, <2>1
    <2>3. ~(j <= i)
        BY <1>5, <2>1
    <2> QED
        BY <2>2, <2>3, Zenon
<1> HIDE DEF Low
<1>6. \A i \in K : IsFiniteSet(Low(i)) /\ Cardinality(Low(i)) \in Nat
                   /\ Cardinality(Low(i)) <= Cardinality(K)
    BY <1>1, <1>4, FS_Subset, FS_CardinalityType, Zenon
<1>7. \A i \in K : Cardinality(Low(i)) # 0
    BY <1>4, <1>6, FS_EmptySet, Zenon
<1>8. \A i \in K : Ctab!Rank(K, i) \in 1 .. Cardinality(K)
    BY <1>1, <1>3, <1>6, <1>7
<1>9. ASSUME NEW i \in K, NEW j \in K, i < j
      PROVE  Ctab!Rank(K, i) < Ctab!Rank(K, j)
    <2>1. Low(i) \in SUBSET Low(j) /\ Low(i) # Low(j)
        BY <1>4, <1>5, <1>9, Zenon
    <2>2. Cardinality(Low(i)) <= Cardinality(Low(j)) /\ Cardinality(Low(i)) # Cardinality(Low(j))
        BY <1>6, <2>1, FS_Subset, Zenon
    <2> QED
        BY <1>3, <1>6, <2>2
<1> QED
    BY <1>1, <1>2, <1>8, <1>9

LEMMA RankReachesAll ==
    ASSUME NEW n \in Nat, NEW K \in SUBSET (1 .. n)
    PROVE  /\ \A i, j \in K : Ctab!Rank(K, i) = Ctab!Rank(K, j) => i = j
           /\ \A k \in 1 .. Cardinality(K) : \E i \in K : Ctab!Rank(K, i) = k
<1>1. /\ IsFiniteSet(K) /\ Cardinality(K) \in Nat
      /\ \A i \in K : Ctab!Rank(K, i) \in 1 .. Cardinality(K)
      /\ \A i, j \in K : i < j => Ctab!Rank(K, i) < Ctab!Rank(K, j)
    BY RankGrows
<1>2. ASSUME NEW i \in K, NEW j \in K, Ctab!Rank(K, i) = Ctab!Rank(K, j)
      PROVE  i = j
    <2>1. ~(Ctab!Rank(K, i) < Ctab!Rank(K, j)) /\ ~(Ctab!Rank(K, j) < Ctab!Rank(K, i))
        BY <1>1, <1>2
    <2>2. ~(i < j) /\ ~(j < i) /\ i \in Int /\ j \in Int
        BY <1>1, <2>1
    <2> QED
        BY <2>2
<1> DEFINE f == [i \in K |-> Ctab!Rank(K, i)]
<1>3. f \in Injection(K, 1 .. Cardinality(K))
    <2>1. f \in [K -> 1 .. Cardinality(K)]
        BY <1>1
    <2>2. \A a, b \in K : f[a] = f[b] => a = b
        BY <1>2
    <2> QED
        BY <2>1, <2>2, Zenon DEF Injection, IsInjective
<1>4. /\ IsFiniteSet(1 .. Cardinality(K))
      /\ Cardinality(1 .. Cardinality(K)) = Cardinality(K)
    <2>1. PICK c \in Nat : c = Cardinality(K)
        BY <1>1
    <2>2. IsFiniteSet(1 .. c) /\ Cardinality(1 .. c) = c
        BY FS_Interval, 1 \in Int, c \in Int
    <2> QED
        BY <2>1, <2>2
<1>5. f \in Surjection(K, 1 .. Cardinality(K))
    BY <1>3, <1>4, FS_Injection, Zenon
<1>6. \A k \in 1 .. Cardinality(K) : \E i \in K : f[i] = k
    BY <1>5, Zenon DEF Surjection
<1> QED
    BY <1>2, <1>6

(* What is left of s, in order, when only the positions of K stay.        *)
Leaves(w, s, K, T) ==
    /\ w \in Seq(T) /\ Cardinality(K) \in Nat /\ Len(w) = Cardinality(K)
    /\ \A i \in K : Ctab!Rank(K, i) \in 1 .. Cardinality(K) /\ w[Ctab!Rank(K, i)] = s[i]

LEMMA WithoutKeeps ==
    ASSUME NEW T, NEW s \in Seq(T), NEW S, NEW K, K = (DOMAIN s) \ S
    PROVE  Leaves(Ctab!Without(s, S), s, K, T)
<1> DEFINE D == (DOMAIN s) \ S
           At(k) == CHOOSE i \in D : Ctab!Rank(D, i) = k
           w == [k \in 1 .. Ctab!Cardinality(D) |-> s[At(k)]]
<1>1. Len(s) \in Nat /\ DOMAIN s = 1 .. Len(s) /\ D \in SUBSET (1 .. Len(s))
    BY LenProperties
<1>4. Ctab!Without(s, S) = w
    BY Zenon DEF Ctab!Without
<1> HIDE DEF D
<1>2. /\ Cardinality(D) \in Nat /\ Ctab!Cardinality(D) = Cardinality(D)
      /\ \A i \in D : Ctab!Rank(D, i) \in 1 .. Cardinality(D)
    BY <1>1, RankGrows, Zenon
<1>3. /\ \A i, j \in D : Ctab!Rank(D, i) = Ctab!Rank(D, j) => i = j
      /\ \A k \in 1 .. Cardinality(D) : \E i \in D : Ctab!Rank(D, i) = k
    BY <1>1, RankReachesAll, Zenon
<1>5. \A k \in 1 .. Cardinality(D) : At(k) \in D /\ Ctab!Rank(D, At(k)) = k
    BY <1>3, Zenon
<1>6. \A i \in D : At(Ctab!Rank(D, i)) = i
    BY <1>2, <1>3, <1>5, Zenon
<1> HIDE DEF At
<1>7. PICK c \in Nat : c = Cardinality(D) /\ c = Ctab!Cardinality(D)
    BY <1>2
<1>8. w = [k \in 1 .. c |-> s[At(k)]]
    BY <1>7, Zenon
<1> HIDE DEF w
<1>9. \A k \in 1 .. c : s[At(k)] \in T
    <2> TAKE k \in 1 .. c
    <2>1. At(k) \in 1 .. Len(s)
        BY <1>1, <1>5, <1>7, Zenon
    <2> QED
        BY <2>1, ElementOfSeq, Zenon
<1>10. w \in Seq(T) /\ Len(w) = c
    BY <1>8, <1>9
<1>11. ASSUME NEW i \in D
       PROVE  Ctab!Rank(D, i) \in 1 .. c /\ w[Ctab!Rank(D, i)] = s[i]
    <2>1. Ctab!Rank(D, i) \in 1 .. c
        BY <1>2, <1>7, Zenon
    <2>2. w[Ctab!Rank(D, i)] = s[At(Ctab!Rank(D, i))]
        BY <1>8, <2>1, Zenon
    <2> QED
        BY <1>6, <2>1, <2>2, Zenon
<1>12. K = D
    BY DEF D
<1> QED
    BY <1>4, <1>7, <1>10, <1>11, <1>12, Zenon DEF Leaves

(* A position moves down by the number of those below it that go.          *)
LEMMA RankCountsDown ==
    ASSUME NEW n \in Nat, NEW S \in SUBSET (1 .. n), NEW p \in (1 .. n) \ S
    PROVE  p - Ctab!Cardinality({q \in S : q < p}) = Ctab!Rank((1 .. n) \ S, p)
<1> DEFINE A == {q \in S : q < p}
           B == {j \in (1 .. n) \ S : j <= p}
<1>1. A \cup B = 1 .. p /\ A \cap B = {}
    <2>1. p \in Int /\ 1 <= p /\ p <= n /\ p \notin S
        OBVIOUS
    <2>2. ASSUME NEW x
          PROVE  x \in A \cup B <=> x \in 1 .. p
        <3>1. x \in S => x \in 1 .. n
            OBVIOUS
        <3>2. x \in A \cup B => x \in 1 .. p
            BY <2>1, <3>1
        <3>3. x \in 1 .. p /\ x \in S => x \in A
            BY <2>1
        <3>4. x \in 1 .. p /\ x \notin S => x \in B
            BY <2>1
        <3> QED
            BY <3>2, <3>3, <3>4, Zenon
    <2>3. A \cap B = {}
        OBVIOUS
    <2> QED
        BY <2>2, <2>3, Zenon
<1>2. IsFiniteSet(1 .. p) /\ Cardinality(1 .. p) = p
    BY FS_Interval, 1 \in Int, p \in Int
<1>3. IsFiniteSet(A) /\ IsFiniteSet(B)
    BY <1>1, <1>2, FS_Subset
<1>4. Cardinality(A) \in Nat /\ Cardinality(B) \in Nat /\ Cardinality({}) = 0
    BY <1>3, FS_CardinalityType, FS_EmptySet
<1>5. Cardinality(A \cup B) = Cardinality(A) + Cardinality(B) - Cardinality(A \cap B)
    BY <1>3, FS_Union
<1>6. /\ Ctab!Cardinality(A) = Cardinality(A)
      /\ Ctab!Rank((1 .. n) \ S, p) = Cardinality(B)
    BY Zenon DEF Ctab!Cardinality, Cardinality, Ctab!Rank
<1> HIDE DEF A, B
<1>7. p = Cardinality(A) + Cardinality(B)
    <2>1. PICK a \in Nat, b \in Nat : a = Cardinality(A) /\ b = Cardinality(B)
        BY <1>4
    <2>2. p = a + b - 0
        BY <1>1, <1>2, <1>4, <1>5, <2>1, Zenon
    <2>3. a + b - 0 = a + b
        OBVIOUS
    <2> QED
        BY <2>1, <2>2, <2>3, Zenon
<1>8. p - Ctab!Cardinality(A) = Ctab!Rank((1 .. n) \ S, p)
    BY <1>4, <1>6, <1>7
<1> QED
    BY <1>8 DEF A

(* Orders: each of n positions once.                                       *)
Orders(sl, n) ==
    /\ sl \in Seq(1 .. n) /\ Len(sl) = n
    /\ \A j, k \in 1 .. n : sl[j] = sl[k] => j = k
    /\ \A p \in 1 .. n : \E k \in 1 .. n : sl[k] = p
NoneTwice(s) == \A j, k \in 1 .. Len(s) : s[j] = s[k] => j = k
Follows(ls, sl, rec) ==
    Len(rec) = Len(sl) /\ \A k \in 1 .. Len(sl) : rec[k] = ls[sl[k]]

(* x in front of what is left of s without it.                             *)
Fronts(f, s, x, K, T) ==
    /\ f \in Seq(T) /\ Cardinality(K) \in Nat /\ Len(f) = Cardinality(K) + 1 /\ f[1] = x
    /\ \A i \in K : Ctab!Rank(K, i) \in 1 .. Cardinality(K) /\ f[Ctab!Rank(K, i) + 1] = s[i]

LEMMA Fronted ==
    ASSUME NEW T, NEW s \in Seq(T), NEW x \in T, NEW K,
           K = {k \in 1 .. Len(s) : s[k] # x}
    PROVE  Fronts(Ctab!ToFront(s, x), s, x, K, T)
<1> DEFINE S == {k \in DOMAIN s : s[k] = x}
           w == Ctab!Without(s, S)
<1>1. K = (DOMAIN s) \ S
    BY LenProperties
<1> HIDE DEF S
<1>2. Leaves(w, s, K, T)
    BY <1>1, WithoutKeeps, Zenon
<1>3. Ctab!ToFront(s, x) = <<x>> \o w
    BY Zenon DEF Ctab!ToFront, S
<1> HIDE DEF w
<1> USE DEF Leaves
<1>4. <<x>> \in Seq(T) /\ Len(<<x>>) = 1 /\ <<x>>[1] = x
    OBVIOUS
<1>5. /\ <<x>> \o w \in Seq(T) /\ Len(<<x>> \o w) = Len(<<x>>) + Len(w)
      /\ \A i \in 1 .. Len(<<x>>) + Len(w) : (<<x>> \o w)[i] =
            IF i <= Len(<<x>>) THEN <<x>>[i] ELSE w[i - Len(<<x>>)]
    BY <1>2, <1>4, ConcatProperties, ZenonT(60)
<1>6. PICK c \in Nat : c = Cardinality(K)
    BY <1>2
<1>7. /\ Len(<<x>> \o w) = c + 1
      /\ \A i \in 1 .. c + 1 : (<<x>> \o w)[i] = IF i <= 1 THEN <<x>>[i] ELSE w[i - 1]
    <2>1. 1 + c = c + 1
        OBVIOUS
    <2> QED
        BY <1>2, <1>4, <1>5, <1>6, <2>1, Zenon
<1>8. (<<x>> \o w)[1] = x
    BY <1>4, <1>7
<1>9. \A k \in 1 .. c : (<<x>> \o w)[k + 1] = w[k]
    <2> TAKE k \in 1 .. c
    <2>1. k + 1 \in 1 .. c + 1 /\ ~(k + 1 <= 1) /\ (k + 1) - 1 = k
        OBVIOUS
    <2> QED
        BY <1>7, <2>1, Zenon
<1>10. Len(<<x>> \o w) = Cardinality(K) + 1
    BY <1>6, <1>7, Zenon
<1>11. ASSUME NEW i \in K
       PROVE  /\ Ctab!Rank(K, i) \in 1 .. Cardinality(K)
              /\ (<<x>> \o w)[Ctab!Rank(K, i) + 1] = s[i]
    <2>1. Ctab!Rank(K, i) \in 1 .. Cardinality(K) /\ w[Ctab!Rank(K, i)] = s[i]
        BY <1>2, Zenon
    <2>2. Ctab!Rank(K, i) \in 1 .. c
        BY <1>6, <2>1, Zenon
    <2> QED
        BY <1>9, <2>1, <2>2, Zenon
<1> QED
    BY <1>2, <1>3, <1>5, <1>8, <1>10, <1>11, Zenon DEF Fronts

Covers(w, s, K) == \A j \in 1 .. Len(w) : \E i \in K : Ctab!Rank(K, i) = j /\ w[j] = s[i]

LEMMA RanksCover ==
    ASSUME NEW n \in Nat, NEW K \in SUBSET (1 .. n), NEW w, NEW s, NEW T, Leaves(w, s, K, T)
    PROVE  Covers(w, s, K)
<1> SUFFICES ASSUME NEW j \in 1 .. Len(w)
             PROVE  \E i \in K : Ctab!Rank(K, i) = j /\ w[j] = s[i]
    BY DEF Covers
<1>1. j \in 1 .. Cardinality(K)
    BY DEF Leaves
<1>2. PICK i \in K : Ctab!Rank(K, i) = j
    BY <1>1, RankReachesAll, Zenon
<1>3. w[Ctab!Rank(K, i)] = s[i]
    BY Zenon DEF Leaves
<1> QED
    BY <1>2, <1>3

LEMMA WithoutCovers ==
    ASSUME NEW T, NEW s \in Seq(T), NEW S
    PROVE  Covers(Ctab!Without(s, S), s, (DOMAIN s) \ S)
<1> DEFINE K == (DOMAIN s) \ S
           w == Ctab!Without(s, S)
<1>1. Leaves(w, s, K, T)
    BY WithoutKeeps, Zenon
<1>2. PICK n \in Nat : n = Len(s)
    BY LenProperties
<1>3. K \in SUBSET (1 .. n)
    BY <1>2, LenProperties
<1> HIDE DEF K, w
<1>4. Covers(w, s, K)
    BY <1>1, <1>3, RanksCover, Zenon
<1> QED
    BY <1>4 DEF w, K

LEMMA FrontOrders ==
    ASSUME NEW n \in Nat, NEW sl, Orders(sl, n), NEW i \in 1 .. n
    PROVE  Orders(Ctab!ToFront(sl, i), n)
<1> DEFINE f == Ctab!ToFront(sl, i)
<1>1. /\ sl \in Seq(1 .. n) /\ Len(sl) = n
      /\ \A j, k \in 1 .. n : sl[j] = sl[k] => j = k
      /\ \A p \in 1 .. n : \E k \in 1 .. n : sl[k] = p
    BY DEF Orders
<1>2. PICK K : K = {k \in 1 .. Len(sl) : sl[k] # i}
    OBVIOUS
<1>3. /\ f \in Seq(1 .. n) /\ Cardinality(K) \in Nat /\ Len(f) = Cardinality(K) + 1 /\ f[1] = i
      /\ \A k \in K : Ctab!Rank(K, k) \in 1 .. Cardinality(K) /\ f[Ctab!Rank(K, k) + 1] = sl[k]
    <2>1. Fronts(f, sl, i, K, 1 .. n)
        BY <1>1, <1>2, Fronted, Zenon
    <2> QED
        BY <2>1, Zenon DEF Fronts
<1> HIDE DEF f
<1>4. PICK o \in 1 .. n : sl[o] = i
    BY <1>1
<1>5. K = (1 .. n) \ {o} /\ K \in SUBSET (1 .. n)
    BY <1>1, <1>2, <1>4
<1>6. Cardinality(K) = n - 1
    <2>1. IsFiniteSet(1 .. n) /\ Cardinality(1 .. n) = n
        BY FS_Interval, 1 \in Int, n \in Int
    <2> QED
        BY <1>5, <2>1, FS_RemoveElement
<1>7. Len(f) = n
    BY <1>3, <1>6
<1>8. /\ \A j, k \in K : Ctab!Rank(K, j) = Ctab!Rank(K, k) => j = k
      /\ \A j \in 1 .. n - 1 : \E k \in K : Ctab!Rank(K, k) = j
    <2>1. /\ \A j, k \in K : Ctab!Rank(K, j) = Ctab!Rank(K, k) => j = k
          /\ \A j \in 1 .. Cardinality(K) : \E k \in K : Ctab!Rank(K, k) = j
        <3>1. K \in SUBSET (1 .. n)
            BY <1>5
        <3> HIDE DEF f
        <3> QED
            BY <3>1, RankReachesAll, Zenon
    <2> QED
        BY <1>6, <2>1
<1>9. \A j \in 2 .. n : \E k \in K : Ctab!Rank(K, k) + 1 = j /\ f[j] = sl[k]
    <2> TAKE j \in 2 .. n
    <2>1. j - 1 \in 1 .. n - 1 /\ (j - 1) + 1 = j
        OBVIOUS
    <2>2. PICK k \in K : Ctab!Rank(K, k) = j - 1
        BY <1>8, <2>1
    <2> QED
        BY <1>3, <2>1, <2>2
<1>10. \A j \in 2 .. n : f[j] # i
    BY <1>2, <1>9
<1>11. ASSUME NEW j \in 1 .. n, NEW k \in 1 .. n, f[j] = f[k]
       PROVE  j = k
    <2>1. CASE j = 1
        BY <1>3, <1>10, <1>11, <2>1
    <2>2. CASE k = 1
        BY <1>3, <1>10, <1>11, <2>2
    <2>3. CASE j # 1 /\ k # 1
        <3>1. j \in 2 .. n /\ k \in 2 .. n
            BY <2>3
        <3>2. PICK u \in K : Ctab!Rank(K, u) + 1 = j /\ f[j] = sl[u]
            BY <1>9, <3>1
        <3>3. PICK v \in K : Ctab!Rank(K, v) + 1 = k /\ f[k] = sl[v]
            BY <1>9, <3>1
        <3>4. u \in 1 .. n /\ v \in 1 .. n
            BY <1>5, Zenon
        <3>5. sl[u] = sl[v]
            BY <1>11, <3>2, <3>3, Zenon
        <3>6. u = v
            BY <1>1, <3>4, <3>5, Zenon
        <3> QED
            BY <3>2, <3>3, <3>6
    <2> QED
        BY <2>1, <2>2, <2>3
<1>12. ASSUME NEW p \in 1 .. n
       PROVE  \E k \in 1 .. n : f[k] = p
    <2>1. CASE p = i
        BY <1>3, <2>1
    <2>2. CASE p # i
        <3>1. PICK k \in 1 .. n : sl[k] = p
            BY <1>1
        <3>2. k \in K
            BY <1>1, <1>2, <2>2, <3>1
        <3>3. PICK r \in Nat : r = Ctab!Rank(K, k) /\ r \in 1 .. n - 1
            BY <1>3, <1>6, <3>2
        <3>4. f[r + 1] = p
            BY <1>3, <3>1, <3>2, <3>3
        <3> QED
            BY <3>3, <3>4
    <2> QED
        BY <2>1, <2>2
<1> QED
    BY <1>3, <1>7, <1>11, <1>12, Zenon DEF f, Orders

LEMMA FrontFollows ==
    ASSUME NEW T, NEW ls \in Seq(T), NEW n \in Nat, n = Len(ls), NEW sl, Orders(sl, n),
           NoneTwice(ls), NEW rec \in Seq(T), Follows(ls, sl, rec), NEW i \in 1 .. n
    PROVE  Follows(ls, Ctab!ToFront(sl, i), Ctab!ToFront(rec, ls[i]))
<1> DEFINE f == Ctab!ToFront(sl, i)
           g == Ctab!ToFront(rec, ls[i])
<1>1. /\ sl \in Seq(1 .. n) /\ Len(sl) = n
      /\ Len(rec) = n /\ \A k \in 1 .. n : sl[k] \in 1 .. n /\ rec[k] = ls[sl[k]]
    BY ElementOfSeq DEF Orders, Follows
<1>2. ls[i] \in T
    BY ElementOfSeq
<1>3. PICK K : K = {k \in 1 .. Len(sl) : sl[k] # i}
    OBVIOUS
<1>4. \A k \in 1 .. n : ls[sl[k]] = ls[i] <=> sl[k] = i
    BY <1>1 DEF NoneTwice
<1>5. K = {k \in 1 .. Len(rec) : rec[k] # ls[i]}
    BY <1>1, <1>3, <1>4
<1>6. /\ f \in Seq(1 .. n) /\ Cardinality(K) \in Nat /\ Len(f) = Cardinality(K) + 1 /\ f[1] = i
      /\ \A k \in K : Ctab!Rank(K, k) \in 1 .. Cardinality(K) /\ f[Ctab!Rank(K, k) + 1] = sl[k]
    <2>1. Fronts(f, sl, i, K, 1 .. n)
        BY <1>1, <1>3, Fronted, Zenon
    <2> QED
        BY <2>1, Zenon DEF Fronts
<1>7. /\ Len(g) = Cardinality(K) + 1 /\ g[1] = ls[i]
      /\ \A k \in K : g[Ctab!Rank(K, k) + 1] = rec[k]
    <2>1. Fronts(g, rec, ls[i], K, T)
        BY <1>2, <1>5, Fronted, Zenon
    <2> QED
        BY <2>1, Zenon DEF Fronts
<1> HIDE DEF f, g
<1>8. K \in SUBSET (1 .. n)
    BY <1>1, <1>3
<1>9. PICK c \in Nat : c = Cardinality(K)
    BY <1>6
<1>10. \A j \in 1 .. c : \E k \in K : Ctab!Rank(K, k) = j
    BY <1>8, <1>9, RankReachesAll, ZenonT(60)
<1>11. ASSUME NEW j \in 1 .. c + 1
       PROVE  g[j] = ls[f[j]]
    <2>1. CASE j = 1
        BY <1>6, <1>7, <2>1
    <2>2. CASE j # 1
        <3>1. j - 1 \in 1 .. c /\ (j - 1) + 1 = j
            BY <2>2
        <3>2. PICK k \in K : Ctab!Rank(K, k) = j - 1
            BY <1>10, <3>1
        <3>3. f[j] = sl[k] /\ g[j] = rec[k]
            BY <1>6, <1>7, <3>1, <3>2
        <3> QED
            BY <1>1, <1>8, <3>3
    <2> QED
        BY <2>1, <2>2
<1>12. Len(g) = c + 1 /\ Len(f) = c + 1
    BY <1>6, <1>7, <1>9
<1>13. Follows(ls, f, g)
    BY <1>11, <1>12 DEF Follows
<1> QED
    BY <1>13 DEF f, g

(* The places in sl of the positions K.                                    *)
Entries(sl, n, K) == {k \in 1 .. n : sl[k] \in K}

(* r names, for the entries of sl that stay (L), the ranks of what they    *)
(* name among the positions that stay (K).                                 *)
Renumbers(r, sl, L, K) ==
    /\ r \in Seq(1 .. Cardinality(K)) /\ Len(r) = Cardinality(K)
    /\ \A k \in L : /\ Ctab!Rank(L, k) \in 1 .. Cardinality(K)
                    /\ sl[k] \in K /\ r[Ctab!Rank(L, k)] = Ctab!Rank(K, sl[k])
    /\ \A j \in 1 .. Cardinality(K) : \E k \in L : Ctab!Rank(L, k) = j
    /\ \A p \in K : \E k \in L : sl[k] = p

LEMMA AsManyStay ==
    ASSUME NEW n \in Nat, NEW sl, Orders(sl, n), NEW K \in SUBSET (1 .. n),
           NEW L, L = Entries(sl, n, K)
    PROVE  Cardinality(L) = Cardinality(K) /\ Cardinality(K) \in Nat
<1> DEFINE f == [k \in L |-> sl[k]]
<1>1. L \in SUBSET (1 .. n)
    BY DEF Entries
<1>2. IsFiniteSet(L) /\ IsFiniteSet(K) /\ Cardinality(K) \in Nat
    BY <1>1, RankGrows, Zenon
<1>3. \A k \in L : k \in 1 .. n /\ sl[k] \in K
    BY DEF Entries
<1>4. \A p \in K : \E k \in L : sl[k] = p
    BY DEF Orders, Entries
<1>5. \A j, k \in L : sl[j] = sl[k] => j = k
    BY <1>3, Zenon DEF Orders
<1>6. f \in [L -> K]
    BY <1>3, Zenon
<1>7. f \in Injection(L, K) /\ f \in Surjection(L, K)
    BY <1>4, <1>5, <1>6, Zenon DEF Injection, IsInjective, Surjection
<1> HIDE DEF f
<1>8. Cardinality(L) = Cardinality(K)
    BY <1>2, <1>7, FS_Injection, Zenon
<1> QED
    BY <1>2, <1>8

LEMMA RenumberedKeeps ==
    ASSUME NEW n \in Nat, NEW sl, Orders(sl, n), NEW S \in SUBSET (1 .. n),
           NEW K, K = (1 .. n) \ S, NEW L, L = Entries(sl, n, K)
    PROVE  Renumbers(Ctab!Renumbered(sl, S), sl, L, K)
<1> DEFINE Z == {k \in DOMAIN sl : sl[k] \in S}
           left == Ctab!Without(sl, Z)
           r == Ctab!Renumbered(sl, S)
<1>1. /\ sl \in Seq(1 .. n) /\ Len(sl) = n /\ DOMAIN sl = 1 .. n
      /\ \A k \in 1 .. n : sl[k] \in 1 .. n
    BY LenProperties, ElementOfSeq DEF Orders
<1>2. L = (DOMAIN sl) \ Z
    BY <1>1 DEF Entries
<1> HIDE DEF Z
<1>3. Leaves(left, sl, L, 1 .. n)
    BY <1>1, <1>2, WithoutKeeps, Zenon
<1>4. r = [k \in DOMAIN left |-> left[k] - Ctab!Cardinality({p \in S : p < left[k]})]
    BY Zenon DEF Ctab!Renumbered, Z
<1> HIDE DEF left, r
<1>5. K \in SUBSET (1 .. n) /\ L \in SUBSET (1 .. n)
    BY DEF Entries
<1>6. PICK c \in Nat : c = Cardinality(K) /\ c = Cardinality(L)
    <2>1. K \in SUBSET (1 .. n)
        BY <1>5
    <2>2. Cardinality(L) = Cardinality(K) /\ Cardinality(K) \in Nat
        BY <2>1, AsManyStay
    <2> QED
        BY <2>2
<1>7. left \in Seq(1 .. n) /\ Len(left) = c /\ DOMAIN left = 1 .. c
    BY <1>3, <1>6, LenProperties DEF Leaves
<1>8. ASSUME NEW k \in L
      PROVE  /\ Ctab!Rank(L, k) \in 1 .. c /\ sl[k] \in K
             /\ r[Ctab!Rank(L, k)] = Ctab!Rank(K, sl[k])
    <2>1. Ctab!Rank(L, k) \in 1 .. c /\ left[Ctab!Rank(L, k)] = sl[k]
        BY <1>3, <1>6, Zenon DEF Leaves
    <2>2. sl[k] \in (1 .. n) \ S
        BY DEF Entries
    <2>3. r[Ctab!Rank(L, k)] = sl[k] - Ctab!Cardinality({p \in S : p < sl[k]})
        BY <1>4, <1>7, <2>1, Zenon
    <2>4. sl[k] - Ctab!Cardinality({q \in S : q < sl[k]}) = Ctab!Rank((1 .. n) \ S, sl[k])
        BY <2>2, RankCountsDown, Zenon
    <2>5. sl[k] \in K
        BY DEF Entries
    <2> QED
        BY <2>1, <2>3, <2>4, <2>5, Zenon
<1>9. \A j \in 1 .. c : \E k \in L : Ctab!Rank(L, k) = j
    <2>1. Covers(left, sl, L)
        BY <1>1, <1>2, WithoutCovers, ZenonT(60) DEF left
    <2> QED
        BY <1>7, <2>1, Zenon DEF Covers
<1>10. \A p \in K : Ctab!Rank(K, p) \in 1 .. c
    <2>1. \A p \in K : Ctab!Rank(K, p) \in 1 .. Cardinality(K)
        BY <1>5, RankGrows, Zenon
    <2> QED
        BY <1>6, <2>1, Zenon
<1>11. ASSUME NEW j \in 1 .. c PROVE r[j] \in 1 .. c
    <2>1. PICK k \in L : Ctab!Rank(L, k) = j
        BY <1>9, Zenon
    <2>2. r[j] = Ctab!Rank(K, sl[k]) /\ sl[k] \in K
        BY <1>8, <2>1, Zenon
    <2> QED
        BY <1>10, <2>2, Zenon
<1>12. DOMAIN r = 1 .. c /\ r = [k \in 1 .. c |-> r[k]]
    BY <1>4, <1>7, Zenon
<1>13. r \in Seq(1 .. c) /\ Len(r) = c
    <2> SUFFICES [k \in 1 .. c |-> r[k]] \in Seq(1 .. c) /\ Len([k \in 1 .. c |-> r[k]]) = c
        BY <1>12, Zenon
    <2> QED
        BY <1>11
<1>14. ASSUME NEW p \in K PROVE \E k \in L : sl[k] = p
    <2>1. p \in 1 .. n
        OBVIOUS
    <2>2. PICK k \in 1 .. n : sl[k] = p
        BY <2>1, Zenon DEF Orders
    <2> QED
        BY <2>2 DEF Entries
<1> QED
    BY <1>6, <1>8, <1>9, <1>13, <1>14, Zenon DEF Renumbers, r

LEMMA RenumberedOrders ==
    ASSUME NEW n \in Nat, NEW sl, Orders(sl, n), NEW K \in SUBSET (1 .. n), NEW L,
           L \in SUBSET (1 .. n), NEW r, Renumbers(r, sl, L, K)
    PROVE  Orders(r, Cardinality(K))
<1>1. PICK c \in Nat : c = Cardinality(K)
    BY RankGrows, Zenon
<1>2. /\ r \in Seq(1 .. c) /\ Len(r) = c
      /\ \A k \in L : Ctab!Rank(L, k) \in 1 .. c /\ sl[k] \in K
                      /\ r[Ctab!Rank(L, k)] = Ctab!Rank(K, sl[k])
      /\ \A j \in 1 .. c : \E k \in L : Ctab!Rank(L, k) = j
      /\ \A p \in K : \E k \in L : sl[k] = p
    BY <1>1, Zenon DEF Renumbers
<1>3. \A p, q \in K : Ctab!Rank(K, p) = Ctab!Rank(K, q) => p = q
    BY RankReachesAll, Zenon
<1>4. \A v \in 1 .. c : \E p \in K : Ctab!Rank(K, p) = v
    <2>1. \A v \in 1 .. Cardinality(K) : \E p \in K : Ctab!Rank(K, p) = v
        BY RankReachesAll, Zenon
    <2> QED
        BY <1>1, <2>1, Zenon
<1>5. ASSUME NEW j \in 1 .. c, NEW k \in 1 .. c, r[j] = r[k]
      PROVE  j = k
    <2>1. PICK u \in L : Ctab!Rank(L, u) = j
        BY <1>2, Zenon
    <2>2. PICK v \in L : Ctab!Rank(L, v) = k
        BY <1>2, Zenon
    <2>3. sl[u] \in K /\ sl[v] \in K /\ Ctab!Rank(K, sl[u]) = Ctab!Rank(K, sl[v])
        BY <1>2, <1>5, <2>1, <2>2, Zenon
    <2>4. sl[u] = sl[v]
        BY <1>3, <2>3, Zenon
    <2>5. u \in 1 .. n /\ v \in 1 .. n
        OBVIOUS
    <2>6. u = v
        BY <2>4, <2>5, Zenon DEF Orders
    <2> QED
        BY <2>1, <2>2, <2>6, Zenon
<1>6. ASSUME NEW v \in 1 .. c
      PROVE  \E j \in 1 .. c : r[j] = v
    <2>1. PICK p \in K : Ctab!Rank(K, p) = v
        BY <1>4, Zenon
    <2>2. PICK k \in L : sl[k] = p
        BY <1>2, Zenon
    <2> QED
        BY <1>2, <2>1, <2>2, Zenon
<1> QED
    BY <1>1, <1>2, <1>5, <1>6, Zenon DEF Orders

(* What a removal leaves: the positions of K.                              *)
LEMMA LeftDistinct ==
    ASSUME NEW n \in Nat, NEW T, NEW ls \in Seq(T), Len(ls) = n, NoneTwice(ls),
           NEW K \in SUBSET (1 .. n), NEW w, Leaves(w, ls, K, T), Covers(w, ls, K)
    PROVE  NoneTwice(w)
<1> SUFFICES ASSUME NEW j \in 1 .. Len(w), NEW k \in 1 .. Len(w), w[j] = w[k]
             PROVE  j = k
    BY DEF NoneTwice
<1>1. PICK u \in K : Ctab!Rank(K, u) = j /\ w[j] = ls[u]
    BY Zenon DEF Covers
<1>2. PICK v \in K : Ctab!Rank(K, v) = k /\ w[k] = ls[v]
    BY Zenon DEF Covers
<1>3. u \in 1 .. Len(ls) /\ v \in 1 .. Len(ls)
    OBVIOUS
<1>4. ls[u] = ls[v]
    BY <1>1, <1>2, Zenon
<1>5. u = v
    BY <1>3, <1>4, Zenon DEF NoneTwice
<1> QED
    BY <1>1, <1>2, <1>5, Zenon

LEMMA LeftFollows ==
    ASSUME NEW n \in Nat, NEW T, NEW ls \in Seq(T), Len(ls) = n, NoneTwice(ls),
           NEW K \in SUBSET (1 .. n), NEW w, Leaves(w, ls, K, T),
           NEW sl, Orders(sl, n), NEW rec, Follows(ls, sl, rec),
           NEW L \in SUBSET (1 .. n), NEW r, Renumbers(r, sl, L, K),
           NEW v, Leaves(v, rec, L, T), Cardinality(L) = Cardinality(K)
    PROVE  Follows(w, r, v)
<1>1. PICK c \in Nat : c = Cardinality(K)
    BY RankGrows, Zenon
<1>2. /\ Len(r) = c /\ Len(v) = c
      /\ \A k \in L : sl[k] \in K /\ r[Ctab!Rank(L, k)] = Ctab!Rank(K, sl[k])
      /\ \A j \in 1 .. c : \E k \in L : Ctab!Rank(L, k) = j
      /\ \A k \in L : v[Ctab!Rank(L, k)] = rec[k]
    BY <1>1, Zenon DEF Renumbers, Leaves
<1>3. \A p \in K : w[Ctab!Rank(K, p)] = ls[p]
    BY Zenon DEF Leaves
<1>4. \A k \in L : rec[k] = ls[sl[k]]
    BY DEF Follows, Orders
<1>5. ASSUME NEW j \in 1 .. c PROVE v[j] = w[r[j]]
    <2>1. PICK k \in L : Ctab!Rank(L, k) = j
        BY <1>2, Zenon
    <2>2. v[j] = rec[k] /\ rec[k] = ls[sl[k]] /\ r[j] = Ctab!Rank(K, sl[k]) /\ sl[k] \in K
        BY <1>2, <1>4, <2>1, Zenon
    <2> QED
        BY <1>3, <2>2, Zenon
<1> QED
    BY <1>2, <1>5 DEF Follows

(* w is s, of length n, with t behind it, of length m.                     *)
Joins(w, s, t, n, m) ==
    /\ Len(w) = n + m
    /\ \A k \in 1 .. n : w[k] = s[k]
    /\ \A k \in 1 .. m : w[n + k] = t[k]
    /\ \A k \in 1 .. n + m : k \in 1 .. n \/ \E j \in 1 .. m : k = n + j

LEMMA Joined ==
    ASSUME NEW T, NEW s \in Seq(T), NEW t \in Seq(T), NEW n \in Nat, NEW m \in Nat,
           Len(s) = n, Len(t) = m
    PROVE  s \o t \in Seq(T) /\ Joins(s \o t, s, t, n, m)
<1>1. /\ s \o t \in Seq(T) /\ Len(s \o t) = n + m
      /\ \A i \in 1 .. n + m : (s \o t)[i] = IF i <= n THEN s[i] ELSE t[i - n]
    BY ConcatProperties, Zenon
<1>2. ASSUME NEW k \in 1 .. n PROVE (s \o t)[k] = s[k]
    BY <1>1
<1>3. ASSUME NEW k \in 1 .. m PROVE (s \o t)[n + k] = t[k]
    <2>1. n + k \in 1 .. n + m /\ ~(n + k <= n) /\ (n + k) - n = k
        OBVIOUS
    <2> QED
        BY <1>1, <2>1, Zenon
<1>4. ASSUME NEW k \in 1 .. n + m, k \notin 1 .. n
      PROVE  \E j \in 1 .. m : k = n + j
    <2>1. k - n \in 1 .. m /\ k = n + (k - n)
        BY <1>4
    <2> QED
        BY <2>1, Zenon
<1> QED
    BY <1>1, <1>2, <1>3, <1>4, Zenon DEF Joins

LEMMA WiderRange ==
    ASSUME NEW n \in Nat, NEW k \in Nat, n <= k, NEW s \in Seq(1 .. n)
    PROVE  s \in Seq(1 .. k) /\ Len(s) \in Nat /\ \A i \in 1 .. Len(s) : s[i] \in 1 .. n
<1>1. PICK c \in Nat : c = Len(s)
    BY LenProperties
<1>2. s = [i \in 1 .. c |-> s[i]] /\ \A i \in 1 .. c : s[i] \in 1 .. n
    BY <1>1, LenProperties, ElementOfSeq
<1>3. \A i \in 1 .. c : s[i] \in 1 .. k
    BY <1>2
<1>4. [i \in 1 .. c |-> s[i]] \in Seq(1 .. k)
    BY <1>3
<1> QED
    BY <1>1, <1>2, <1>4

LEMMA AddedOrders ==
    ASSUME NEW n \in Nat, NEW m \in Nat, NEW sl, Orders(sl, n),
           NEW more, more = [k \in 1 .. m |-> n + k]
    PROVE  Orders(sl \o more, n + m)
<1> DEFINE w == sl \o more
<1>1. sl \in Seq(1 .. n + m) /\ Len(sl) = n /\ \A k \in 1 .. n : sl[k] \in 1 .. n
    <2>1. n + m \in Nat /\ n <= n + m
        OBVIOUS
    <2> QED
        BY <2>1, WiderRange, Zenon DEF Orders
<1>2. more \in Seq(1 .. n + m) /\ Len(more) = m /\ \A k \in 1 .. m : more[k] = n + k
    OBVIOUS
<1>3. w \in Seq(1 .. n + m) /\ Joins(w, sl, more, n, m)
    BY <1>1, <1>2, Joined, Zenon
<1> USE DEF Joins
<1> HIDE DEF w
<1>4. ASSUME NEW j \in 1 .. n + m, NEW k \in 1 .. n + m, w[j] = w[k]
      PROVE  j = k
    <2>1. CASE j \in 1 .. n /\ k \in 1 .. n
        <3>1. sl[j] = sl[k]
            BY <1>3, <1>4, <2>1
        <3> QED
            BY <2>1, <3>1, Zenon DEF Orders
    <2>2. CASE j \in 1 .. n /\ k \notin 1 .. n
        <3>1. PICK u \in 1 .. m : k = n + u
            BY <1>3, <2>2, Zenon
        <3>2. w[j] \in 1 .. n
            BY <1>1, <1>3, <2>2
        <3>3. w[k] = n + u
            BY <1>2, <1>3, <3>1
        <3> QED
            BY <1>4, <2>2, <3>2, <3>3
    <2>3. CASE j \notin 1 .. n /\ k \in 1 .. n
        <3>1. PICK u \in 1 .. m : j = n + u
            BY <1>3, <2>3, Zenon
        <3>2. w[k] \in 1 .. n
            BY <1>1, <1>3, <2>3
        <3>3. w[j] = n + u
            BY <1>2, <1>3, <3>1
        <3> QED
            BY <1>4, <2>3, <3>2, <3>3
    <2>4. CASE j \notin 1 .. n /\ k \notin 1 .. n
        <3>1. PICK u \in 1 .. m : j = n + u
            BY <1>3, <2>4, Zenon
        <3>2. PICK v \in 1 .. m : k = n + v
            BY <1>3, <2>4, Zenon
        <3> QED
            BY <1>2, <1>3, <1>4, <3>1, <3>2
    <2> QED
        BY <2>1, <2>2, <2>3, <2>4, Zenon
<1>5. ASSUME NEW p \in 1 .. n + m
      PROVE  \E k \in 1 .. n + m : w[k] = p
    <2>1. CASE p \in 1 .. n
        <3>1. PICK k \in 1 .. n : sl[k] = p
            BY <2>1, Zenon DEF Orders
        <3>2. k \in 1 .. n + m
            OBVIOUS
        <3> QED
            BY <1>3, <3>1, <3>2, Zenon
    <2>2. CASE p \notin 1 .. n
        <3>1. PICK u \in 1 .. m : p = n + u
            BY <1>3, <2>2, Zenon
        <3> QED
            BY <1>2, <1>3, <3>1, Zenon
    <2> QED
        BY <2>1, <2>2, Zenon
<1> QED
    BY <1>3, <1>4, <1>5, Zenon DEF Orders, w

LEMMA AddedFollows ==
    ASSUME NEW n \in Nat, NEW m \in Nat, NEW T, NEW ls \in Seq(T), Len(ls) = n,
           NEW sl, Orders(sl, n), NEW rec \in Seq(T), Follows(ls, sl, rec),
           NEW more, more = [k \in 1 .. m |-> n + k], NEW new \in Seq(T), Len(new) = m
    PROVE  Follows(ls \o new, sl \o more, rec \o new)
<1> DEFINE a == ls \o new
           b == sl \o more
           c == rec \o new
<1>1. sl \in Seq(1 .. n + m) /\ Len(sl) = n /\ \A k \in 1 .. n : sl[k] \in 1 .. n
    <2>1. n + m \in Nat /\ n <= n + m
        OBVIOUS
    <2> QED
        BY <2>1, WiderRange, Zenon DEF Orders
<1>2. more \in Seq(1 .. n + m) /\ Len(more) = m /\ \A k \in 1 .. m : more[k] = n + k
    OBVIOUS
<1>3. Len(rec) = n /\ \A k \in 1 .. n : rec[k] = ls[sl[k]]
    BY <1>1 DEF Follows
<1>4. Joins(b, sl, more, n, m)
    BY <1>1, <1>2, Joined, Zenon
<1>5. Joins(a, ls, new, n, m)
    BY Joined, Zenon
<1>6. Joins(c, rec, new, n, m)
    BY <1>3, Joined, Zenon
<1> USE DEF Joins
<1> HIDE DEF a, b, c
<1>7. ASSUME NEW k \in 1 .. n + m PROVE c[k] = a[b[k]]
    <2>1. CASE k \in 1 .. n
        <3>1. sl[k] \in 1 .. n /\ rec[k] = ls[sl[k]]
            BY <1>1, <1>3, <2>1
        <3>2. c[k] = rec[k] /\ b[k] = sl[k] /\ a[sl[k]] = ls[sl[k]]
            BY <1>4, <1>5, <1>6, <2>1, <3>1
        <3> QED
            BY <3>1, <3>2
    <2>2. CASE k \notin 1 .. n
        <3>1. PICK u \in 1 .. m : k = n + u
            BY <1>4, <2>2, Zenon
        <3> QED
            BY <1>2, <1>4, <1>5, <1>6, <3>1
    <2> QED
        BY <2>1, <2>2
<1> QED
    BY <1>4, <1>6, <1>7 DEF Follows, a, b, c

LEMMA AddedDistinct ==
    ASSUME NEW T, NEW ls \in Seq(T), NEW new \in Seq(T), NoneTwice(ls), NoneTwice(new),
           \A j \in 1 .. Len(ls), k \in 1 .. Len(new) : ls[j] # new[k]
    PROVE  NoneTwice(ls \o new)
<1> DEFINE w == ls \o new
<1>1. PICK n \in Nat, m \in Nat : n = Len(ls) /\ m = Len(new)
    BY LenProperties
<1>2. Joins(w, ls, new, n, m)
    BY <1>1, Joined, Zenon
<1> USE DEF Joins
<1> HIDE DEF w
<1>3. ASSUME NEW j \in 1 .. n + m, NEW k \in 1 .. n + m, w[j] = w[k]
      PROVE  j = k
    <2>1. CASE j \in 1 .. n /\ k \in 1 .. n
        <3>1. ls[j] = ls[k]
            BY <1>2, <1>3, <2>1
        <3> QED
            BY <1>1, <2>1, <3>1, Zenon DEF NoneTwice
    <2>2. CASE j \in 1 .. n /\ k \notin 1 .. n
        <3>1. PICK u \in 1 .. m : k = n + u
            BY <1>2, <2>2, Zenon
        <3>2. w[j] = ls[j] /\ w[k] = new[u]
            BY <1>2, <2>2, <3>1
        <3> QED
            BY <1>1, <1>3, <2>2, <3>2
    <2>3. CASE j \notin 1 .. n /\ k \in 1 .. n
        <3>1. PICK u \in 1 .. m : j = n + u
            BY <1>2, <2>3, Zenon
        <3>2. w[k] = ls[k] /\ w[j] = new[u]
            BY <1>2, <2>3, <3>1
        <3> QED
            BY <1>1, <1>3, <2>3, <3>2
    <2>4. CASE j \notin 1 .. n /\ k \notin 1 .. n
        <3>1. PICK u \in 1 .. m : j = n + u
            BY <1>2, <2>4, Zenon
        <3>2. PICK v \in 1 .. m : k = n + v
            BY <1>2, <2>4, Zenon
        <3>3. new[u] = new[v]
            BY <1>2, <1>3, <3>1, <3>2
        <3>4. u = v
            BY <1>1, <3>3, Zenon DEF NoneTwice
        <3> QED
            BY <3>1, <3>2, <3>4, Zenon
    <2> QED
        BY <2>1, <2>2, <2>3, <2>4, Zenon
<1> QED
    BY <1>2, <1>3 DEF NoneTwice, w

(* w is s from a to b.                                                     *)
Piece(w, s, a, b, T) ==
    /\ w \in Seq(T) /\ Len(w) = b + 1 - a
    /\ \A k \in a .. b : \E j \in 1 .. b + 1 - a : w[j] = s[k]

LEMMA Part ==
    ASSUME NEW T, NEW s \in Seq(T), NEW a \in Nat \ {0}, NEW b \in Nat,
           a <= b + 1, b <= Len(s)
    PROVE  Piece(SubSeq(s, a, b), s, a, b, T)
<1>1. \A j \in 1 .. b + 1 - a : a + j - 1 \in 1 .. Len(s)
    BY LenProperties
<1>2. /\ SubSeq(s, a, b) \in Seq(T) /\ Len(SubSeq(s, a, b)) = b + 1 - a
      /\ \A j \in 1 .. b + 1 - a : SubSeq(s, a, b)[j] = s[a + j - 1]
    BY LenProperties, SubSeqProperties
<1>3. ASSUME NEW k \in a .. b
      PROVE  \E j \in 1 .. b + 1 - a : SubSeq(s, a, b)[j] = s[k]
    <2>1. k + 1 - a \in 1 .. b + 1 - a /\ a + (k + 1 - a) - 1 = k
        OBVIOUS
    <2> QED
        BY <1>2, <2>1
<1> QED
    BY <1>2, <1>3 DEF Piece

(* Every item of s is in w.                                                *)
Holds(w, s) == \A k \in 1 .. Len(s) : \E j \in 1 .. Len(w) : w[j] = s[k]

Spans(w, s, t, T) ==
    w \in Seq(T) /\ Len(w) = Len(s) + Len(t) /\ Holds(w, s) /\ Holds(w, t)

LEMMA JoinHolds ==
    ASSUME NEW T, NEW s \in Seq(T), NEW t \in Seq(T)
    PROVE  Spans(s \o t, s, t, T)
<1> DEFINE w == s \o t
<1>1. PICK n \in Nat, m \in Nat : n = Len(s) /\ m = Len(t)
    BY LenProperties
<1>2. w \in Seq(T) /\ Joins(w, s, t, n, m)
    BY <1>1, Joined, Zenon
<1> HIDE DEF w
<1>3. \A k \in 1 .. n : k \in 1 .. n + m
    OBVIOUS
<1>4. \A k \in 1 .. m : n + k \in 1 .. n + m
    OBVIOUS
<1>5. Holds(w, s) /\ Holds(w, t) /\ Len(w) = n + m
    BY <1>1, <1>2, <1>3, <1>4, Zenon DEF Joins, Holds
<1> QED
    BY <1>1, <1>2, <1>5 DEF w, Spans

LEMMA MovedKeeps ==
    ASSUME NEW T, NEW s \in Seq(T), NEW i \in 1 .. Len(s), NEW at \in 1 .. Len(s)
    PROVE  /\ Ctab!MovedTo(s, i, at) \in Seq(T) /\ Len(Ctab!MovedTo(s, i, at)) = Len(s)
           /\ Holds(Ctab!MovedTo(s, i, at), s)
<1> DEFINE rest == Ctab!RemoveAt(s, i)
<1>1. PICK n \in Nat : n = Len(s)
    BY LenProperties
<1>2. rest = SubSeq(s, 1, i - 1) \o SubSeq(s, i + 1, Len(s))
    BY Zenon DEF Ctab!RemoveAt
<1>3. PICK a, b : a = SubSeq(s, 1, i - 1) /\ b = SubSeq(s, i + 1, Len(s))
    OBVIOUS
<1>4. /\ a \in Seq(T) /\ Len(a) = i - 1
      /\ \A k \in 1 .. i - 1 : \E j \in 1 .. i - 1 : a[j] = s[k]
    <2>1. i - 1 \in Nat /\ 1 <= (i - 1) + 1 /\ i - 1 <= Len(s) /\ (i - 1) + 1 - 1 = i - 1 /\ 1 \in Nat \ {0}
        BY <1>1
    <2>2. a = SubSeq(s, 1, i - 1)
        BY <1>3
    <2>3. Piece(SubSeq(s, 1, i - 1), s, 1, i - 1, T)
        BY <2>1, Part
    <2> QED
        BY <2>1, <2>2, <2>3 DEF Piece
<1>5. /\ b \in Seq(T) /\ Len(b) = n - i
      /\ \A k \in i + 1 .. n : \E j \in 1 .. n - i : b[j] = s[k]
    <2>1. i + 1 \in Nat \ {0} /\ n \in Nat /\ i + 1 <= n + 1 /\ n <= Len(s) /\ n + 1 - (i + 1) = n - i
        BY <1>1
    <2>2. b = SubSeq(s, i + 1, n)
        BY <1>1, <1>3
    <2>3. Piece(SubSeq(s, i + 1, n), s, i + 1, n, T)
        BY <2>1, Part
    <2> QED
        BY <2>1, <2>2, <2>3 DEF Piece
<1>6. rest \in Seq(T) /\ Len(rest) = Len(a) + Len(b) /\ Holds(rest, a) /\ Holds(rest, b)
    <2>1. Spans(a \o b, a, b, T)
        BY <1>4, <1>5, JoinHolds, Zenon
    <2> QED
        BY <1>2, <1>3, <2>1, Zenon DEF Spans
<1> HIDE DEF rest
<1>7. Len(rest) = n - 1
    BY <1>1, <1>4, <1>5, <1>6
<1>8. \A k \in 1 .. n : k = i \/ \E j \in 1 .. n - 1 : rest[j] = s[k]
    <2> TAKE k \in 1 .. n
    <2>1. CASE k < i
        <3>1. PICK j \in 1 .. i - 1 : a[j] = s[k]
            BY <1>1, <1>4, <2>1
        <3> QED
            BY <1>4, <1>6, <1>7, <3>1 DEF Holds
    <2>2. CASE i < k
        <3>1. PICK j \in 1 .. n - i : b[j] = s[k]
            BY <1>1, <1>5, <2>2
        <3> QED
            BY <1>5, <1>6, <1>7, <3>1 DEF Holds
    <2> QED
        BY <1>1, <2>1, <2>2
<1>9. PICK c, d : c = SubSeq(rest, 1, at - 1) /\ d = SubSeq(rest, at, Len(rest))
    OBVIOUS
<1>10. /\ c \in Seq(T) /\ Len(c) = at - 1
       /\ \A k \in 1 .. at - 1 : \E j \in 1 .. at - 1 : c[j] = rest[k]
    <2>1. at - 1 \in Nat /\ 1 <= (at - 1) + 1 /\ at - 1 <= Len(rest) /\ (at - 1) + 1 - 1 = at - 1 /\ 1 \in Nat \ {0}
        BY <1>1, <1>7
    <2>2. c = SubSeq(rest, 1, at - 1)
        BY <1>6, <1>9
    <2>3. Piece(SubSeq(rest, 1, at - 1), rest, 1, at - 1, T)
        BY <1>6, <2>1, Part
    <2> QED
        BY <2>1, <2>2, <2>3 DEF Piece
<1>11. /\ d \in Seq(T) /\ Len(d) = n - at
       /\ \A k \in at .. n - 1 : \E j \in 1 .. n - at : d[j] = rest[k]
    <2>1. at \in Nat \ {0} /\ n - 1 \in Nat /\ at <= (n - 1) + 1 /\ n - 1 <= Len(rest) /\ (n - 1) + 1 - at = n - at
        BY <1>1, <1>7
    <2>2. d = SubSeq(rest, at, n - 1)
        BY <1>6, <1>7, <1>9
    <2>3. Piece(SubSeq(rest, at, n - 1), rest, at, n - 1, T)
        BY <1>6, <2>1, Part
    <2> QED
        BY <2>1, <2>2, <2>3 DEF Piece
<1>12. Ctab!MovedTo(s, i, at) = c \o <<s[i]>> \o d
    BY <1>9, Zenon DEF Ctab!MovedTo, Ctab!InsertAt, rest
<1>13. s[i] \in T /\ <<s[i]>> \in Seq(T) /\ Len(<<s[i]>>) = 1 /\ <<s[i]>>[1] = s[i]
    BY ElementOfSeq
<1>14. PICK e : e = c \o <<s[i]>>
    OBVIOUS
<1>15. e \in Seq(T) /\ Len(e) = at /\ Holds(e, c) /\ Holds(e, <<s[i]>>)
    <2>1. Spans(c \o <<s[i]>>, c, <<s[i]>>, T)
        BY <1>10, <1>13, JoinHolds, Zenon
    <2>2. Spans(e, c, <<s[i]>>, T)
        BY <1>14, <2>1, Zenon
    <2> QED
        BY <1>1, <1>10, <1>13, <2>2 DEF Spans
<1>16. PICK w : w = e \o d
    OBVIOUS
<1>17. w \in Seq(T) /\ Len(w) = Len(e) + Len(d) /\ Holds(w, e) /\ Holds(w, d)
    <2>1. Spans(e \o d, e, d, T)
        BY <1>11, <1>15, JoinHolds, Zenon
    <2> QED
        BY <1>16, <2>1, Zenon DEF Spans
<1>18. Len(w) = n
    BY <1>1, <1>11, <1>15, <1>17
<1>19. \A k \in 1 .. n - 1 : \E j \in 1 .. n : w[j] = rest[k]
    <2> TAKE k \in 1 .. n - 1
    <2>1. CASE k < at
        <3>1. k \in 1 .. at - 1
            BY <1>1, <2>1
        <3>2. PICK j \in 1 .. at - 1 : c[j] = rest[k]
            BY <1>10, <3>1, Zenon
        <3>3. PICK u \in 1 .. Len(e) : e[u] = c[j]
            BY <1>10, <1>15, Zenon DEF Holds
        <3>4. PICK v \in 1 .. Len(w) : w[v] = e[u]
            BY <1>17, Zenon DEF Holds
        <3> QED
            BY <1>18, <3>2, <3>3, <3>4, Zenon
    <2>2. CASE at <= k
        <3>1. PICK j \in 1 .. n - at : d[j] = rest[k]
            BY <1>1, <1>11, <2>2
        <3> QED
            BY <1>11, <1>17, <1>18, <3>1 DEF Holds
    <2> QED
        BY <1>1, <2>1, <2>2
<1>20. \E j \in 1 .. n : w[j] = s[i]
    <2>1. PICK u \in 1 .. at : e[u] = s[i]
        BY <1>13, <1>15 DEF Holds
    <2> QED
        BY <1>15, <1>17, <1>18, <2>1 DEF Holds
<1>21. Holds(w, s)
    BY <1>1, <1>8, <1>18, <1>19, <1>20 DEF Holds
<1>22. w = Ctab!MovedTo(s, i, at)
    BY <1>12, <1>14, <1>16
<1> QED
    BY <1>1, <1>17, <1>18, <1>21, <1>22

-----------------------------------------------------------------------------
(* The tabs: the list of selections names each position once; as long as   *)
(* nothing was moved, items and tabs stand side by side and the list       *)
(* follows the selections.                                                 *)
InStep ==
    /\ s1 = s2 /\ NoneTwice(s2) /\ Follows(s2, s3, s7)
    /\ \A t \in Tabs : s5[t] \in {t, None}
CtabCore ==
    /\ Ctab!TypeOK /\ Ctab!SomeTabIsSelected
    /\ Len(s1) = Len(s2) /\ Len(s2) <= MaxTabs /\ Orders(s3, Len(s2))
    /\ s8 = 0 => InStep

LEMMA TabSelected ==
    ASSUME NEW n \in Nat, NEW ps \in Seq(Tabs), NEW ls \in Seq(Tabs), Len(ps) = n, Len(ls) = n,
           NEW sl, Orders(sl, n), NEW rec \in Seq(Tabs), NEW c \in [Tabs -> Tabs \cup {None}],
           NEW i \in 1 .. n, Ctab!DoSelectTab(ps, ls, sl, rec, c, i)
    PROVE  /\ Orders(s3', n) /\ s7' \in Seq(Tabs) /\ s4' = ls[i]
           /\ s5' \in [Tabs -> Tabs \cup {None}]
           /\ NoneTwice(ls) /\ Follows(ls, sl, rec) => Follows(ls, s3', s7')
           /\ ps = ls /\ (\A t \in Tabs : c[t] \in {t, None}) => \A t \in Tabs : s5'[t] \in {t, None}
<1>1. i \in DOMAIN ls
    BY LenProperties
<1>2. /\ s3' = Ctab!ToFront(sl, i) /\ s7' = Ctab!ToFront(rec, ls[i]) /\ s4' = ls[i]
      /\ s5' = IF c[ls[i]] = None THEN [c EXCEPT ![ls[i]] = ps[i]] ELSE c
    BY <1>1, Zenon DEF Ctab!DoSelectTab, Ctab!DoLoadPanel
<1>3. ls[i] \in Tabs /\ ps[i] \in Tabs
    BY ElementOfSeq
<1>4. Orders(s3', n)
    BY <1>2, FrontOrders
<1>5. s7' \in Seq(Tabs)
    <2>1. PICK K : K = {k \in 1 .. Len(rec) : rec[k] # ls[i]}
        OBVIOUS
    <2>2. Fronts(Ctab!ToFront(rec, ls[i]), rec, ls[i], K, Tabs)
        BY <1>3, <2>1, Fronted, Zenon
    <2> QED
        BY <1>2, <2>2, Zenon DEF Fronts
<1>6. s5' \in [Tabs -> Tabs \cup {None}]
    BY <1>2, <1>3, Zenon
<1>7. ASSUME NoneTwice(ls), Follows(ls, sl, rec)
      PROVE  Follows(ls, s3', s7')
    BY <1>2, <1>7, FrontFollows
<1>8. ASSUME ps = ls, \A t \in Tabs : c[t] \in {t, None}, NEW t \in Tabs
      PROVE  s5'[t] \in {t, None}
    BY <1>2, <1>3, <1>8
<1> QED
    BY <1>2, <1>4, <1>5, <1>6, <1>7, <1>8, Zenon

LEMMA CtabInit == Ctab!Init => CtabCore
<1> SUFFICES ASSUME Ctab!Init PROVE CtabCore
    OBVIOUS
<1> USE TabAssumption DEF Ctab!Init
<1>1. Ctab!TypeOK
    BY DEF Ctab!TypeOK
<1>2. Len(s1) = Len(s2) /\ Len(s2) = 0 /\ Orders(s3, 0) /\ Len(s2) <= MaxTabs
    BY DEF Orders
<1>3. InStep
    BY <1>2 DEF InStep, NoneTwice, Follows
<1>4. Ctab!SomeTabIsSelected
    BY Zenon DEF Ctab!SomeTabIsSelected
<1> QED
    BY <1>1, <1>2, <1>3, <1>4, Zenon DEF CtabCore

(* What a step must show of what it changes.                               *)
LEMMA CtabThere ==
    ASSUME NEW n \in Nat, n <= MaxTabs, s1' \in Seq(Tabs), s2' \in Seq(Tabs),
           Len(s1') = n, Len(s2') = n, Orders(s3', n), s7' \in Seq(Tabs),
           s4' \in Tabs \cup {None}, s5' \in [Tabs -> Tabs \cup {None}],
           s6' \in Tabs \cup {None}, s8' \in 0 .. MaxMoves,
           n > 0 => \E k \in 1 .. n : s4' = s2'[k], s8' = 0 => InStep'
    PROVE  CtabCore'
<1>1. s3' \in Seq(1 .. MaxTabs)
    BY TabAssumption, WiderRange DEF Orders
<1>2. Ctab!TypeOK'
    BY <1>1, Zenon DEF Ctab!TypeOK
<1>3. Ctab!SomeTabIsSelected'
    <2>1. DOMAIN s2' = 1 .. n /\ (s2' # <<>> => n > 0)
        BY LenProperties, EmptySeq
    <2> QED
        BY <2>1, Zenon DEF Ctab!SomeTabIsSelected, Ctab!ToSet
<1> QED
    BY <1>2, <1>3, Zenon DEF CtabCore

LEMMA CtabNow ==
    ASSUME CtabCore
    PROVE  /\ Len(s2) \in Nat /\ Len(s2) <= MaxTabs /\ Len(s1) = Len(s2) /\ Orders(s3, Len(s2))
           /\ s1 \in Seq(Tabs) /\ s2 \in Seq(Tabs) /\ s7 \in Seq(Tabs)
           /\ s4 \in Tabs \cup {None} /\ s5 \in [Tabs -> Tabs \cup {None}]
           /\ s6 \in Tabs \cup {None} /\ s8 \in 0 .. MaxMoves
           /\ DOMAIN s1 = 1 .. Len(s2) /\ DOMAIN s2 = 1 .. Len(s2)
           /\ Len(s2) > 0 => \E k \in 1 .. Len(s2) : s4 = s2[k]
           /\ s8 = 0 => InStep
<1>1. s1 \in Seq(Tabs) /\ s2 \in Seq(Tabs)
    BY Zenon DEF CtabCore, Ctab!TypeOK
<1>2. Len(s2) \in Nat /\ DOMAIN s2 = 1 .. Len(s2) /\ DOMAIN s1 = 1 .. Len(s1)
    BY <1>1, LenProperties
<1>3. ASSUME Len(s2) > 0
      PROVE  \E k \in 1 .. Len(s2) : s4 = s2[k]
    <2>1. s2 # <<>>
        BY <1>3
    <2> QED
        BY <1>2, <2>1, Zenon DEF CtabCore, Ctab!SomeTabIsSelected, Ctab!ToSet
<1> QED
    BY <1>1, <1>2, <1>3, Zenon DEF CtabCore, Ctab!TypeOK

LEMMA TabMouse ==
    ASSUME CtabCore,
           \/ \E t \in Tabs : Ctab!MouseEnter(t)
           \/ Ctab!MouseLeave
           \/ UNCHANGED Ctab!vars
    PROVE  CtabCore'
<1>1. UNCHANGED <<s1, s2, s3, s4, s5, s7, s8>> /\ s6' \in Tabs \cup {None}
    BY CtabNow DEF Ctab!MouseEnter, Ctab!MouseLeave, Ctab!vars
<1> QED
    BY <1>1, CtabNow, CtabThere DEF InStep

LEMMA TabSelects ==
    ASSUME CtabCore, NEW i \in 1 .. MaxTabs, Ctab!SelectTab(i)
    PROVE  CtabCore'
<1>1. i \in 1 .. Len(s2) /\ UNCHANGED <<s1, s2, s6, s8>> /\ Ctab!DoSelectTab(s1, s2, s3, s7, s5, i)
    BY CtabNow DEF Ctab!SelectTab
<1>2. PICK ps, ls, sl, rec, c : ps = s1 /\ ls = s2 /\ sl = s3 /\ rec = s7 /\ c = s5
    OBVIOUS
<1>3. PICK n \in Nat : n = Len(s2)
    BY CtabNow
<1>4. /\ ps \in Seq(Tabs) /\ ls \in Seq(Tabs) /\ Len(ps) = n /\ Len(ls) = n /\ Orders(sl, n)
      /\ rec \in Seq(Tabs) /\ c \in [Tabs -> Tabs \cup {None}] /\ i \in 1 .. n
      /\ Ctab!DoSelectTab(ps, ls, sl, rec, c, i) /\ n <= MaxTabs
    BY <1>1, <1>2, <1>3, CtabNow
<1>5. /\ Orders(s3', n) /\ s7' \in Seq(Tabs) /\ s4' = ls[i]
      /\ s5' \in [Tabs -> Tabs \cup {None}]
      /\ NoneTwice(ls) /\ Follows(ls, sl, rec) => Follows(ls, s3', s7')
      /\ ps = ls /\ (\A t \in Tabs : c[t] \in {t, None}) => \A t \in Tabs : s5'[t] \in {t, None}
    BY <1>4, TabSelected
<1>6. s1' = ps /\ s2' = ls
    BY <1>1, <1>2
<1>7. ASSUME s8' = 0 PROVE InStep'
    <2>1. InStep
        BY <1>1, <1>7, CtabNow
    <2> QED
        BY <1>2, <1>5, <1>6, <2>1 DEF InStep
<1>8. s4' \in Tabs \cup {None} /\ s6' \in Tabs \cup {None} /\ s8' \in 0 .. MaxMoves
    BY <1>1, <1>4, <1>5, CtabNow, ElementOfSeq
<1>9. s4' = s2'[i] /\ i \in 1 .. n
    BY <1>4, <1>5, <1>6
<1> QED
    BY <1>4, <1>5, <1>6, <1>7, <1>8, <1>9, CtabThere

LEMMA TabRefreshes ==
    ASSUME CtabCore, NEW i \in 1 .. MaxTabs, Ctab!DoRefreshTab(i)
    PROVE  CtabCore'
<1>1. /\ i \in 1 .. Len(s2) /\ UNCHANGED <<s1, s2, s3, s4, s6, s7, s8>>
      /\ s5' = [s5 EXCEPT ![s2[i]] = s1[i]]
    BY CtabNow DEF Ctab!DoRefreshTab, Ctab!DoLoadPanel
<1>2. s2[i] \in Tabs /\ s1[i] \in Tabs
    BY <1>1, CtabNow, ElementOfSeq
<1>3. s5' \in [Tabs -> Tabs \cup {None}]
    BY <1>1, <1>2, CtabNow, Zenon
<1>4. ASSUME s8' = 0 PROVE InStep'
    <2>1. InStep
        BY <1>1, <1>4, CtabNow
    <2>2. \A t \in Tabs : s5'[t] \in {t, None}
        BY <1>1, <1>2, <2>1, CtabNow DEF InStep
    <2> QED
        BY <1>1, <2>1, <2>2 DEF InStep
<1> QED
    BY <1>1, <1>3, <1>4, CtabNow, CtabThere

LEMMA TabIsDragged ==
    ASSUME CtabCore, NEW i \in 1 .. MaxTabs, NEW p \in 0 .. MaxTabs, Ctab!DragTab(i, p)
    PROVE  CtabCore'
<1>1. PICK ps, ls : ps = s1 /\ ls = s2
    OBVIOUS
<1>2. PICK n \in Nat : n = Len(s2)
    BY CtabNow
<1>3. /\ i \in 1 .. n /\ p \in 0 .. n /\ p # i
      /\ s1' = Ctab!MovedTo(ps, i, IF p < n THEN p + 1 ELSE p)
      /\ s2' = Ctab!MovedTo(ls, i, IF i < p THEN p ELSE p + 1)
      /\ s8 < MaxMoves /\ s8' = s8 + 1 /\ UNCHANGED <<s3, s4, s5, s6, s7>>
    BY <1>1, <1>2, CtabNow DEF Ctab!DragTab
<1>4. PICK u \in 1 .. n, v \in 1 .. n :
         u = (IF p < n THEN p + 1 ELSE p) /\ v = (IF i < p THEN p ELSE p + 1)
    BY <1>3
<1>5. ps \in Seq(Tabs) /\ ls \in Seq(Tabs) /\ Len(ps) = n /\ Len(ls) = n
    BY <1>1, <1>2, CtabNow
<1>6. s1' \in Seq(Tabs) /\ Len(s1') = n
    <2>1. s1' = Ctab!MovedTo(ps, i, u)
        BY <1>3, <1>4
    <2>2. Ctab!MovedTo(ps, i, u) \in Seq(Tabs) /\ Len(Ctab!MovedTo(ps, i, u)) = Len(ps)
        BY <1>3, <1>5, MovedKeeps
    <2> QED
        BY <1>5, <2>1, <2>2
<1>7. s2' \in Seq(Tabs) /\ Len(s2') = n /\ Holds(s2', ls)
    <2>1. s2' = Ctab!MovedTo(ls, i, v)
        BY <1>3, <1>4
    <2>2. /\ Ctab!MovedTo(ls, i, v) \in Seq(Tabs) /\ Len(Ctab!MovedTo(ls, i, v)) = Len(ls)
          /\ Holds(Ctab!MovedTo(ls, i, v), ls)
        BY <1>3, <1>5, MovedKeeps
    <2> QED
        BY <1>5, <2>1, <2>2
<1>8. ASSUME n > 0 PROVE \E k \in 1 .. n : s4' = s2'[k]
    <2>1. PICK k \in 1 .. n : s4 = ls[k]
        BY <1>1, <1>2, <1>8, CtabNow
    <2> QED
        BY <1>3, <1>5, <1>7, <2>1 DEF Holds
<1>9. /\ Orders(s3', n) /\ n <= MaxTabs /\ s7' \in Seq(Tabs) /\ s4' \in Tabs \cup {None}
      /\ s5' \in [Tabs -> Tabs \cup {None}] /\ s6' \in Tabs \cup {None}
      /\ s8' \in 0 .. MaxMoves /\ s8' # 0
    BY <1>2, <1>3, CtabNow, TabAssumption
<1> QED
    BY <1>6, <1>7, <1>8, <1>9, CtabThere

LEMMA TabsAreAdded ==
    ASSUME CtabCore, Ctab!AddTab
    PROVE  CtabCore'
<1>1. PICK t \in Tabs \ Ctab!ToSet(s2), u \in Tabs \ Ctab!ToSet(s2) :
         \E i \in 0 .. Len(IF t = u THEN <<t>> ELSE <<t, u>>) :
            Ctab!DoAddTab(IF t = u THEN <<t>> ELSE <<t, u>>, i)
    BY Zenon DEF Ctab!AddTab
<1>2. PICK new : new = IF t = u THEN <<t>> ELSE <<t, u>>
    OBVIOUS
<1>3. PICK i \in 0 .. Len(new) : Ctab!DoAddTab(new, i)
    BY <1>1, <1>2, Zenon
<1>4. /\ new \in Seq(Tabs) /\ NoneTwice(new) /\ Len(new) \in Nat
      /\ \A k \in 1 .. Len(new) : new[k] \in {t, u}
    BY <1>2 DEF NoneTwice
<1>5. PICK n \in Nat : n = Len(s2) /\ n <= MaxTabs
    BY CtabNow
<1>6. PICK m \in Nat :
         /\ m = IF Len(new) <= MaxTabs - n THEN Len(new) ELSE MaxTabs - n
         /\ m <= Len(new) /\ n + m <= MaxTabs
    <2>1. PICK l \in Nat, x \in Nat : l = Len(new) /\ x = MaxTabs /\ n <= x
        BY <1>4, <1>5, TabAssumption
    <2>2. CASE l <= x - n
        <3>1. l = (IF l <= x - n THEN l ELSE x - n) /\ n + l <= x
            BY <2>1, <2>2
        <3> QED
            BY <2>1, <3>1
    <2>3. CASE ~(l <= x - n)
        <3>1. PICK m \in Nat : m = x - n
            BY <2>1
        <3>2. m = (IF l <= x - n THEN l ELSE x - n) /\ m <= l /\ n + m <= x
            BY <2>1, <2>3, <3>1
        <3> QED
            BY <2>1, <3>2
    <2> QED
        BY <2>2, <2>3
<1>7. PICK tk : tk = SubSeq(new, 1, m)
    OBVIOUS
<1>8. /\ tk \in Seq(Tabs) /\ Len(tk) = m /\ DOMAIN tk = 1 .. m
      /\ \A k \in 1 .. m : tk[k] = new[k]
    <2>1. \A k \in 1 .. m : new[k] \in Tabs
        BY <1>4, <1>6
    <2>2. /\ SubSeq(new, 1, m) \in Seq(Tabs)
          /\ Len(SubSeq(new, 1, m)) = IF 1 <= m THEN m - 1 + 1 ELSE 0
          /\ \A k \in 1 .. m - 1 + 1 : SubSeq(new, 1, m)[k] = new[1 + k - 1]
        BY <2>1, SubSeqProperties, 1 \in Int, m \in Int
    <2>3. Len(SubSeq(new, 1, m)) = m /\ \A k \in 1 .. m : SubSeq(new, 1, m)[k] = new[k]
        BY <2>2
    <2> QED
        BY <1>7, <2>2, <2>3, LenProperties
<1>9. PICK ps, ls, sl, rec, c, a :
         /\ a = IF i \in DOMAIN tk THEN i + n ELSE Len(s2 \o tk) + n
         /\ ps = s1 \o tk /\ ls = s2 \o tk /\ sl = s3 \o [k \in DOMAIN tk |-> n + k]
         /\ rec = s7 \o tk /\ c = s5
    OBVIOUS
<1>10. /\ tk # <<>> /\ s2' = ls /\ s1' = ps /\ Ctab!DoSelectTab(ps, ls, sl, rec, c, a)
       /\ UNCHANGED <<s6, s8>>
    BY <1>3, <1>5, <1>6, <1>7, <1>9, Zenon DEF Ctab!DoAddTab
<1>11. m > 0
    BY <1>8, <1>10, EmptySeq
<1>12. /\ ps \in Seq(Tabs) /\ Joins(ps, s1, tk, n, m) /\ ls \in Seq(Tabs) /\ Joins(ls, s2, tk, n, m)
    BY <1>5, <1>8, <1>9, CtabNow, Joined
<1>13. rec \in Seq(Tabs)
    BY <1>8, <1>9, CtabNow, ConcatProperties
<1>14. PICK more : more = [k \in 1 .. m |-> n + k]
    OBVIOUS
<1>15. sl = s3 \o more /\ Orders(s3, n) /\ Orders(sl, n + m)
    BY <1>5, <1>8, <1>9, <1>14, AddedOrders, CtabNow
<1>16. Len(ps) = n + m /\ Len(ls) = n + m /\ n + m \in Nat /\ DOMAIN ls = 1 .. n + m
    BY <1>12, LenProperties DEF Joins
<1>17. c \in [Tabs -> Tabs \cup {None}]
    BY <1>9, CtabNow
<1>18. ASSUME s8 = 0
       PROVE  /\ ps = ls /\ NoneTwice(ls) /\ Follows(ls, sl, rec)
              /\ \A x \in Tabs : c[x] \in {x, None}
    <2>1. InStep
        BY <1>18, CtabNow
    <2>2. ps = ls /\ \A x \in Tabs : c[x] \in {x, None}
        BY <1>9, <2>1 DEF InStep
    <2>3. NoneTwice(tk)
        BY <1>4, <1>6, <1>8 DEF NoneTwice
    <2>4. ASSUME NEW j \in 1 .. Len(s2), NEW k \in 1 .. Len(tk)
          PROVE  s2[j] # tk[k]
        <3>1. s2[j] \in Ctab!ToSet(s2)
            BY CtabNow, Zenon DEF Ctab!ToSet
        <3>2. tk[k] \in {t, u}
            BY <1>4, <1>6, <1>8
        <3> QED
            BY <3>1, <3>2, Zenon
    <2>5. NoneTwice(s2 \o tk)
        BY <1>8, <2>1, <2>3, <2>4, CtabNow, AddedDistinct DEF InStep
    <2>6. Follows(s2 \o tk, s3 \o more, s7 \o tk)
        BY <1>5, <1>8, <1>14, <1>15, <2>1, CtabNow, AddedFollows DEF InStep
    <2> QED
        BY <1>9, <1>15, <2>2, <2>5, <2>6
<1>19. s6' \in Tabs \cup {None} /\ s8' \in 0 .. MaxMoves /\ n + m <= MaxTabs /\ n + m > 0
    BY <1>6, <1>10, <1>11, CtabNow
<1>20. CASE a \in 1 .. n + m
    <2>1. /\ Orders(s3', n + m) /\ s7' \in Seq(Tabs) /\ s4' = ls[a]
          /\ s5' \in [Tabs -> Tabs \cup {None}]
          /\ NoneTwice(ls) /\ Follows(ls, sl, rec) => Follows(ls, s3', s7')
          /\ ps = ls /\ (\A x \in Tabs : c[x] \in {x, None}) => \A x \in Tabs : s5'[x] \in {x, None}
        <3>1. PICK N \in Nat : N = n + m
            BY <1>16
        <3>2. /\ Len(ps) = N /\ Len(ls) = N /\ Orders(sl, N) /\ a \in 1 .. N
              /\ Ctab!DoSelectTab(ps, ls, sl, rec, c, a)
            BY <1>10, <1>15, <1>16, <1>20, <3>1
        <3>3. ps \in Seq(Tabs) /\ ls \in Seq(Tabs)
            BY <1>12
        <3>4. /\ Orders(s3', N) /\ s7' \in Seq(Tabs) /\ s4' = ls[a]
              /\ s5' \in [Tabs -> Tabs \cup {None}]
              /\ NoneTwice(ls) /\ Follows(ls, sl, rec) => Follows(ls, s3', s7')
              /\ ps = ls /\ (\A x \in Tabs : c[x] \in {x, None}) => \A x \in Tabs : s5'[x] \in {x, None}
            BY <1>13, <1>17, <3>2, <3>3, TabSelected
        <3> QED
            BY <3>1, <3>4
    <2>2. ASSUME s8' = 0 PROVE InStep'
        BY <1>10, <1>18, <2>1, <2>2 DEF InStep
    <2>3. s4' \in Tabs \cup {None} /\ s4' = s2'[a]
        BY <1>10, <1>12, <1>16, <1>20, <2>1, ElementOfSeq
    <2> QED
        BY <1>10, <1>12, <1>16, <1>19, <1>20, <2>1, <2>2, <2>3, CtabThere
<1>21. CASE a \notin 1 .. n + m
    <2>1. s3' = sl /\ s7' = rec /\ s5' = c /\ s4' = s4
        BY <1>10, <1>16, <1>21, Zenon DEF Ctab!DoSelectTab
    <2>2. n > 0
        <3>1. i \in DOMAIN tk => a \in 1 .. n + m
            BY <1>8, <1>9
        <3>2. a = Len(ls) + n
            BY <1>9, <1>21, <3>1
        <3> QED
            BY <1>11, <1>16, <1>21, <3>2
    <2>3. PICK k \in 1 .. n : s4 = s2[k]
        BY <1>5, <2>2, CtabNow
    <2>4. k \in 1 .. n + m /\ s4' = s2'[k]
        BY <1>10, <1>12, <2>1, <2>3 DEF Joins
    <2>5. ASSUME s8' = 0 PROVE InStep'
        BY <1>10, <1>18, <2>1, <2>5 DEF InStep
    <2>6. s4' \in Tabs \cup {None}
        BY <2>1, CtabNow
    <2> QED
        BY <1>10, <1>12, <1>13, <1>15, <1>16, <1>17, <1>19, <2>1, <2>4, <2>5, <2>6, CtabThere
<1> QED
    BY <1>20, <1>21

(* Removing the positions of S from everything keeps the list of           *)
(* selections in step with the tabs.                                       *)
LEMMA RemovedFollow ==
    ASSUME NEW n \in Nat, NEW ls \in Seq(Tabs), Len(ls) = n, NEW sl, Orders(sl, n), NoneTwice(ls),
           NEW rec \in Seq(Tabs), Follows(ls, sl, rec), NEW S \in SUBSET (1 .. n),
           NEW gone, gone = {ls[i] : i \in S},
           NEW Z, Z = {k \in DOMAIN rec : rec[k] \in gone}
    PROVE  Follows(Ctab!Without(ls, S), Ctab!Renumbered(sl, S), Ctab!Without(rec, Z))
<1>1. PICK K : K = (1 .. n) \ S
    OBVIOUS
<1>2. PICK L : L = Entries(sl, n, K)
    OBVIOUS
<1>3. K \in SUBSET (1 .. n)
    BY <1>1
<1>4. L \in SUBSET (1 .. n)
    BY <1>2 DEF Entries
<1>5. Cardinality(L) = Cardinality(K)
    BY <1>2, <1>3, AsManyStay
<1>6. Renumbers(Ctab!Renumbered(sl, S), sl, L, K)
    BY <1>1, <1>2, RenumberedKeeps
<1>7. Leaves(Ctab!Without(ls, S), ls, K, Tabs)
    <2>1. K = (DOMAIN ls) \ S
        BY <1>1, LenProperties
    <2> QED
        BY <2>1, WithoutKeeps, Zenon
<1>8. DOMAIN rec = 1 .. n /\ \A k \in 1 .. n : sl[k] \in 1 .. n /\ rec[k] = ls[sl[k]]
    BY LenProperties, ElementOfSeq DEF Follows, Orders
<1>9. \A k \in 1 .. n : rec[k] \in gone <=> sl[k] \in S
    <2> TAKE k \in 1 .. n
    <2>1. sl[k] \in 1 .. n /\ rec[k] = ls[sl[k]]
        BY <1>8
    <2>2. ASSUME NEW i \in S, ls[i] = ls[sl[k]]
          PROVE  i = sl[k]
        BY <2>1, <2>2 DEF NoneTwice
    <2>3. ASSUME rec[k] \in gone PROVE sl[k] \in S
        <3>1. PICK i \in S : rec[k] = ls[i]
            BY <2>3
        <3>2. i = sl[k]
            BY <2>1, <2>2, <3>1, Zenon
        <3> QED
            BY <3>2
    <2>4. ASSUME sl[k] \in S PROVE rec[k] \in gone
        BY <2>1, <2>4
    <2> QED
        BY <2>3, <2>4
<1>10. L = (DOMAIN rec) \ Z
    BY <1>1, <1>2, <1>8, <1>9 DEF Entries
<1>11. Leaves(Ctab!Without(rec, Z), rec, L, Tabs)
    BY <1>10, WithoutKeeps, Zenon
<1> QED
    BY <1>3, <1>4, <1>5, <1>6, <1>7, <1>11, LeftFollows, Zenon

LEMMA TabsAreRemoved ==
    ASSUME CtabCore, NEW S \in SUBSET (1 .. Len(s2)), Ctab!DoRemoveTab(S)
    PROVE  CtabCore'
<1>1. PICK n \in Nat : n = Len(s2) /\ n <= MaxTabs
    BY CtabNow
<1>2. PICK gone : gone = {s2[i] : i \in S}
    OBVIOUS
<1>3. PICK ps, ls, sl, rec, c :
         /\ ls = Ctab!Without(s2, S) /\ ps = Ctab!Without(s1, S) /\ sl = Ctab!Renumbered(s3, S)
         /\ rec = Ctab!Without(s7, {k \in DOMAIN s7 : s7[k] \in gone})
         /\ c = [t \in Tabs |-> IF t \in gone THEN None ELSE s5[t]]
    OBVIOUS
<1>4. /\ s2' = ls /\ s1' = ps /\ UNCHANGED <<s6, s8>>
      /\ \/ s4 \notin gone /\ s3' = sl /\ s7' = rec /\ s5' = c /\ s4' = s4
         \/ s4 \in gone /\ sl # <<>> /\ Ctab!DoSelectTab(ps, ls, sl, rec, c, sl[1])
         \/ s4 \in gone /\ sl = <<>> /\ s3' = sl /\ s7' = rec /\ s5' = c /\ s4' = None
    BY <1>2, <1>3, Zenon DEF Ctab!DoRemoveTab
<1>5. PICK K : K = (1 .. n) \ S
    OBVIOUS
<1>6. K \in SUBSET (1 .. n) /\ DOMAIN s1 = 1 .. n /\ DOMAIN s2 = 1 .. n
    BY <1>1, <1>5, CtabNow
<1>7. Leaves(ls, s2, K, Tabs) /\ Covers(ls, s2, K) /\ Leaves(ps, s1, K, Tabs)
    <2>1. K = (DOMAIN s1) \ S /\ K = (DOMAIN s2) \ S /\ s1 \in Seq(Tabs) /\ s2 \in Seq(Tabs)
        BY <1>5, <1>6, CtabNow
    <2>2. Leaves(ls, s2, K, Tabs) /\ Leaves(ps, s1, K, Tabs)
        BY <1>3, <2>1, WithoutKeeps, Zenon
    <2>3. Covers(ls, s2, (DOMAIN s2) \ S)
        BY <1>3, <2>1, WithoutCovers, Zenon
    <2> QED
        BY <2>1, <2>2, <2>3, Zenon
<1>8. PICK m \in Nat : m = Cardinality(K)
    BY <1>7, Zenon DEF Leaves
<1>9. ls \in Seq(Tabs) /\ ps \in Seq(Tabs) /\ Len(ls) = m /\ Len(ps) = m
    BY <1>7, <1>8, Zenon DEF Leaves
<1>10. m <= n
    <2>1. IsFiniteSet(1 .. n) /\ Cardinality(1 .. n) = n
        BY FS_Interval, 1 \in Int, n \in Int
    <2> QED
        <3>1. K \in SUBSET (1 .. n)
            BY <1>6
        <3>2. Cardinality(K) <= Cardinality(1 .. n)
            BY <2>1, <3>1, FS_Subset
        <3> QED
            BY <1>8, <2>1, <3>2
<1>11. Orders(sl, m)
    <2>1. PICK L : L = Entries(s3, n, K)
        OBVIOUS
    <2>2. L \in SUBSET (1 .. n)
        BY <2>1 DEF Entries
    <2>3. Orders(s3, n) /\ S \in SUBSET (1 .. n)
        BY <1>1, CtabNow
    <2>4. Renumbers(sl, s3, L, K)
        BY <1>3, <1>5, <2>1, <2>3, RenumberedKeeps
    <2>5. Orders(sl, Cardinality(K))
        BY <1>6, <2>2, <2>3, <2>4, RenumberedOrders
    <2> QED
        BY <1>8, <2>5
<1>12. rec \in Seq(Tabs)
    <2>1. PICK Z, Y : Z = {k \in DOMAIN s7 : s7[k] \in gone} /\ Y = (DOMAIN s7) \ Z
        OBVIOUS
    <2>2. s7 \in Seq(Tabs)
        BY CtabNow
    <2>3. Leaves(Ctab!Without(s7, Z), s7, Y, Tabs)
        BY <2>1, <2>2, WithoutKeeps, Zenon
    <2> QED
        BY <1>3, <2>1, <2>3, Zenon DEF Leaves
<1>13. c \in [Tabs -> Tabs \cup {None}]
    BY <1>3, CtabNow
<1>14. ASSUME s8 = 0
       PROVE  /\ ps = ls /\ NoneTwice(ls) /\ Follows(ls, sl, rec)
              /\ \A t \in Tabs : c[t] \in {t, None}
    <2>1. InStep
        BY <1>14, CtabNow
    <2>2. ps = ls /\ \A t \in Tabs : c[t] \in {t, None}
        BY <1>3, <2>1 DEF InStep
    <2>3. s2 \in Seq(Tabs) /\ Len(s2) = n /\ NoneTwice(s2) /\ Orders(s3, n) /\ Follows(s2, s3, s7)
          /\ s7 \in Seq(Tabs) /\ S \in SUBSET (1 .. n)
        BY <1>1, <2>1, CtabNow DEF InStep
    <2>4. NoneTwice(ls)
        BY <1>6, <1>7, <2>3, LeftDistinct
    <2>5. Follows(ls, sl, rec)
        <3>1. PICK Z : Z = {k \in DOMAIN s7 : s7[k] \in gone}
            OBVIOUS
        <3>2. Follows(Ctab!Without(s2, S), Ctab!Renumbered(s3, S), Ctab!Without(s7, Z))
            BY <1>2, <2>3, <3>1, RemovedFollow, Zenon
        <3> QED
            BY <1>3, <3>1, <3>2, Zenon
    <2> QED
        BY <2>2, <2>4, <2>5
<1>15. ASSUME s5' = c, s7' = rec, s3' = sl, s8' = 0
       PROVE  InStep'
    BY <1>4, <1>14, <1>15 DEF InStep
<1>16. s6' \in Tabs \cup {None} /\ s8' \in 0 .. MaxMoves /\ m <= MaxTabs
    BY <1>1, <1>4, <1>10, CtabNow, TabAssumption
<1>17. CASE s4 \notin gone /\ s3' = sl /\ s7' = rec /\ s5' = c /\ s4' = s4
    <2>1. ASSUME m > 0
          PROVE  \E k \in 1 .. m : s4' = s2'[k]
        <3>1. PICK k \in 1 .. n : s4 = s2[k]
            BY <1>1, <1>10, <2>1, CtabNow
        <3>2. k \in K
            BY <1>2, <1>5, <1>17, <3>1
        <3>3. Ctab!Rank(K, k) \in 1 .. m /\ ls[Ctab!Rank(K, k)] = s2[k]
            BY <1>7, <1>8, <3>2, Zenon DEF Leaves
        <3> QED
            BY <1>4, <1>17, <3>1, <3>3, Zenon
    <2>2. s4' \in Tabs \cup {None}
        BY <1>17, CtabNow
    <2> QED
        BY <1>4, <1>9, <1>11, <1>12, <1>13, <1>15, <1>16, <1>17, <2>1, <2>2, CtabThere
<1>18. CASE s4 \in gone /\ sl = <<>> /\ s3' = sl /\ s7' = rec /\ s5' = c /\ s4' = None
    <2>1. m = 0
        BY <1>11, <1>18 DEF Orders
    <2> QED
        BY <1>4, <1>9, <1>11, <1>12, <1>13, <1>15, <1>16, <1>18, <2>1, CtabThere
<1>19. CASE s4 \in gone /\ sl # <<>> /\ Ctab!DoSelectTab(ps, ls, sl, rec, c, sl[1])
    <2>1. PICK i : i = sl[1]
        OBVIOUS
    <2>2. i \in 1 .. m
        <3>1. sl \in Seq(1 .. m) /\ Len(sl) = m
            BY <1>11 DEF Orders
        <3>2. m # 0
            BY <1>19, <3>1, EmptySeq
        <3>3. 1 \in 1 .. Len(sl)
            BY <3>1, <3>2
        <3> QED
            BY <2>1, <3>1, <3>3, ElementOfSeq
    <2>3. Ctab!DoSelectTab(ps, ls, sl, rec, c, i)
        BY <1>19, <2>1
    <2>4. /\ Orders(s3', m) /\ s7' \in Seq(Tabs) /\ s4' = ls[i]
          /\ s5' \in [Tabs -> Tabs \cup {None}]
          /\ NoneTwice(ls) /\ Follows(ls, sl, rec) => Follows(ls, s3', s7')
          /\ ps = ls /\ (\A x \in Tabs : c[x] \in {x, None}) => \A x \in Tabs : s5'[x] \in {x, None}
        BY <1>9, <1>11, <1>12, <1>13, <2>2, <2>3, TabSelected
    <2>5. ASSUME s8' = 0 PROVE InStep'
        BY <1>4, <1>14, <2>4, <2>5 DEF InStep
    <2>6. s4' \in Tabs \cup {None} /\ s4' = s2'[i]
        BY <1>4, <1>9, <2>2, <2>4, ElementOfSeq
    <2> QED
        BY <1>4, <1>9, <1>16, <2>2, <2>4, <2>5, <2>6, CtabThere
<1> QED
    BY <1>4, <1>17, <1>18, <1>19, Zenon

LEMMA TabIsHovered ==
    ASSUME CtabCore, Ctab!HoverTimer
    PROVE  CtabCore'
<1>1. PICK n \in Nat : n = Len(s2) /\ n <= MaxTabs
    BY CtabNow
<1>2. s1' = s1 /\ s2' = s2 /\ s6' = None
    BY DEF Ctab!HoverTimer
<1>3. CASE s6 \in Ctab!ToSet(s2)
    <2>1. PICK i : i = CHOOSE k \in DOMAIN s2 : s2[k] = s6
        OBVIOUS
    <2>2. i \in 1 .. n
        BY <1>1, <1>3, <2>1, CtabNow DEF Ctab!ToSet
    <2>3. Ctab!DoSelectTab(s1, s2, s3, s7, s5, i) /\ s8' = s8
        BY <1>3, <2>1, Zenon DEF Ctab!HoverTimer
    <2>4. PICK ps, ls, sl, rec, c : ps = s1 /\ ls = s2 /\ sl = s3 /\ rec = s7 /\ c = s5
        OBVIOUS
    <2>5. /\ ps \in Seq(Tabs) /\ ls \in Seq(Tabs) /\ Len(ps) = n /\ Len(ls) = n /\ Orders(sl, n)
          /\ rec \in Seq(Tabs) /\ c \in [Tabs -> Tabs \cup {None}]
          /\ Ctab!DoSelectTab(ps, ls, sl, rec, c, i)
        BY <1>1, <2>3, <2>4, CtabNow
    <2>6. /\ Orders(s3', n) /\ s7' \in Seq(Tabs) /\ s4' = ls[i]
          /\ s5' \in [Tabs -> Tabs \cup {None}]
          /\ NoneTwice(ls) /\ Follows(ls, sl, rec) => Follows(ls, s3', s7')
          /\ ps = ls /\ (\A t \in Tabs : c[t] \in {t, None}) => \A t \in Tabs : s5'[t] \in {t, None}
        BY <2>2, <2>5, TabSelected
    <2>7. ASSUME s8' = 0 PROVE InStep'
        <3>1. InStep
            BY <2>3, <2>7, CtabNow
        <3> QED
            BY <1>2, <2>4, <2>6, <3>1 DEF InStep
    <2>8. s4' \in Tabs \cup {None} /\ s8' \in 0 .. MaxMoves /\ s4' = s2'[i]
        BY <1>2, <2>2, <2>3, <2>4, <2>5, <2>6, CtabNow, ElementOfSeq
    <2> QED
        BY <1>1, <1>2, <2>2, <2>4, <2>5, <2>6, <2>7, <2>8, CtabThere
<1>4. CASE s6 \notin Ctab!ToSet(s2)
    <2>1. /\ s3' = s3 /\ s7' = s7 /\ s8 < MaxMoves /\ s8' = s8 + 1
          /\ IF s2 = <<>> THEN s4' = s4 /\ s5' = s5
             ELSE /\ s4' = Ctab!Last(s2)
                  /\ s5' = IF s5[Ctab!Last(s2)] = None
                           THEN [s5 EXCEPT ![Ctab!Last(s2)] = Ctab!Last(s1)] ELSE s5
        BY <1>4, Zenon DEF Ctab!HoverTimer
    <2>2. s8' \in 0 .. MaxMoves /\ s8' # 0
        BY <2>1, CtabNow, TabAssumption
    <2>3. CASE s2 = <<>>
        <3>1. n = 0
            BY <1>1, <2>3
        <3>2. s4' = s4 /\ s5' = s5
            BY <2>1, <2>3, Zenon
        <3> QED
            BY <1>1, <1>2, <2>1, <2>2, <3>1, <3>2, CtabNow, CtabThere
    <2>4. CASE s2 # <<>>
        <3>1. n \in 1 .. n
            BY <1>1, <2>4, CtabNow, EmptySeq
        <3>2. Ctab!Last(s2) = s2[n] /\ Ctab!Last(s1) = s1[n]
            BY <1>1, CtabNow DEF Ctab!Last
        <3>3. s2[n] \in Tabs /\ s1[n] \in Tabs
            BY <1>1, <3>1, CtabNow, ElementOfSeq
        <3>4. /\ s4' = s2[n]
              /\ s5' = IF s5[s2[n]] = None THEN [s5 EXCEPT ![s2[n]] = s1[n]] ELSE s5
            BY <2>1, <2>4, <3>2, Zenon
        <3>5. s5' \in [Tabs -> Tabs \cup {None}]
            BY <3>3, <3>4, CtabNow, Zenon
        <3>6. s4' \in Tabs \cup {None} /\ s4' = s2'[n]
            BY <1>2, <3>3, <3>4
        <3> QED
            BY <1>1, <1>2, <2>1, <2>2, <3>1, <3>5, <3>6, CtabNow, CtabThere
    <2> QED
        BY <2>3, <2>4
<1> QED
    BY <1>3, <1>4

LEMMA CtabStep ==
    ASSUME CtabCore, Ctab!Next \/ UNCHANGED Ctab!vars
    PROVE  CtabCore'
<1>1. CASE UNCHANGED Ctab!vars
    BY <1>1, TabMouse
<1>2. CASE Ctab!AddTab
    BY <1>2, TabsAreAdded
<1>3. CASE Ctab!RemoveTab
    BY <1>3, CtabNow, TabsAreRemoved DEF Ctab!RemoveTab
<1>4. CASE Ctab!CloseOtherTabs
    <2>1. PICK S : S = {i \in DOMAIN s2 : s2[i] # s4}
        OBVIOUS
    <2>2. Ctab!DoRemoveTab(S)
        BY <1>4, <2>1, Zenon DEF Ctab!CloseOtherTabs
    <2>3. S \in SUBSET (1 .. Len(s2))
        BY <2>1, CtabNow
    <2> QED
        BY <2>2, <2>3, TabsAreRemoved
<1>5. CASE Ctab!MouseLeave
    BY <1>5, TabMouse
<1>6. CASE Ctab!HoverTimer
    BY <1>6, TabIsHovered
<1>7. CASE \E i \in 1 .. MaxTabs : Ctab!SelectTab(i) \/ Ctab!DoRefreshTab(i)
    BY <1>7, TabSelects, TabRefreshes
<1>8. CASE \E i \in 1 .. MaxTabs, p \in 0 .. MaxTabs : Ctab!DragTab(i, p)
    BY <1>8, TabIsDragged
<1>9. CASE \E t \in Tabs : Ctab!MouseEnter(t)
    BY <1>9, TabMouse
<1> QED
    BY <1>1, <1>2, <1>3, <1>4, <1>5, <1>6, <1>7, <1>8, <1>9, Zenon DEF Ctab!Next

(* The list of selections and the tabs.                                    *)
LEMMA CtabCoreImplies ==
    ASSUME CtabCore
    PROVE  Ctab!TypeOK /\ Ctab!SomeTabIsSelected /\ Ctab!RecentTabFollows /\ Ctab!TabShowsItsItem
<1>1. ASSUME s8 = 0
      PROVE  /\ Len(s3) = Len(s7)
             /\ \A k \in DOMAIN s7 : s3[k] \in DOMAIN s2 /\ s2[s3[k]] = s7[k]
    <2>1. Follows(s2, s3, s7) /\ Orders(s3, Len(s2)) /\ DOMAIN s2 = 1 .. Len(s2)
          /\ s7 \in Seq(Tabs) /\ Len(s2) \in Nat
        BY <1>1, CtabNow DEF InStep
    <2>2. Len(s3) = Len(s2) /\ Len(s7) = Len(s2) /\ DOMAIN s7 = 1 .. Len(s2)
          /\ \A k \in 1 .. Len(s2) : s3[k] \in 1 .. Len(s2)
        BY <2>1, LenProperties, ElementOfSeq DEF Follows, Orders
    <2> QED
        BY <2>1, <2>2 DEF Follows
<1>2. ASSUME s8 = 0, NEW t \in Ctab!ToSet(s2)
      PROVE  s5[t] \in {t, None}
    <2>1. t \in Tabs
        BY CtabNow, ElementOfSeq DEF Ctab!ToSet
    <2> QED
        BY <1>2, <2>1, CtabNow DEF InStep
<1> QED
    BY <1>1, <1>2, Zenon DEF CtabCore, Ctab!RecentTabFollows, Ctab!TabShowsItsItem
-----------------------------------------------------------------------------
(* Pictures, and progress bars                                             *)
LEMMA SlideInit == Slide!Init => Slide!Inv
<1> SUFFICES ASSUME Slide!Init
             PROVE  Slide!Inv
    OBVIOUS
<1> USE SlideAssumption DEF Slide!Init, Slide!TypeOK, Slide!PlaysWhileAway, Slide!SetStyle
<1>1. Slide!TypeOK
    <2>1. s1 \in Slide!Options /\ s2 \in 1 .. Pictures /\ s6 \subseteq {"prev", "next"}
        OBVIOUS
    <2>2. s4 \in BOOLEAN /\ s5 \in BOOLEAN
        OBVIOUS
    <2>3. s3 \in BOOLEAN
        BY Zenon DEF Slide!Options
    <2> QED
        BY <2>1, <2>2, <2>3
<1>2. Slide!PlaysWhileAway
    BY DEF Slide!Options
<1> QED
    BY <1>1, <1>2 DEF Slide!Inv

LEMMA SlideTurns ==
    ASSUME Slide!Inv, NEW i \in 1 .. Pictures, NEW autoFlag \in BOOLEAN, Slide!ToIndex(i, autoFlag)
    PROVE  Slide!Inv'
<1> USE SlideAssumption DEF Slide!Inv, Slide!TypeOK, Slide!PlaysWhileAway
<1>1. s2' = i /\ UNCHANGED <<s1, s4, s5>> /\ s6' = Slide!Arrows(i)
    BY DEF Slide!ToIndex
<1>2. s3' \in BOOLEAN
    BY Zenon DEF Slide!ToIndex, Slide!SetInterval
<1>3. /\ s6' \subseteq {"prev", "next"}
      /\ ~s1.isCycle /\ Pictures > 1 =>
            s6' = {a \in {"prev", "next"} : s2' # IF a = "prev" THEN 1 ELSE Pictures}
    BY <1>1 DEF Slide!Arrows, Slide!Options
<1>4. s1.isAuto /\ s1.enableMouseEnter /\ s1.isShowArrow => (s3' <=> ~s4')
    BY <1>1 DEF Slide!ToIndex, Slide!SetInterval
<1>5. Slide!TypeOK'
    BY <1>1, <1>2, <1>3
<1>6. Slide!PlaysWhileAway'
    BY <1>1, <1>3, <1>4
<1> QED
    BY <1>1, <1>5, <1>6

LEMMA SlideStep ==
    ASSUME Slide!Inv, Slide!Next \/ UNCHANGED Slide!vars
    PROVE  Slide!Inv'
<1> USE SlideAssumption DEF Slide!Inv, Slide!TypeOK, Slide!PlaysWhileAway
<1>1. CASE UNCHANGED Slide!vars
    BY <1>1 DEF Slide!vars
<1>2. ASSUME NEW autoFlag \in BOOLEAN, Slide!ToPrev(autoFlag) \/ Slide!ToNext(autoFlag)
      PROVE  Slide!Inv'
    <2>1. PICK i \in 1 .. Pictures : Slide!ToIndex(i, autoFlag)
        BY <1>2 DEF Slide!ToPrev, Slide!ToNext
    <2> QED
        BY <2>1, SlideTurns
<1>3. CASE Slide!Tick
    BY <1>2, <1>3, Zenon DEF Slide!Tick
<1>4. CASE Slide!MouseMove
    <2>1. s4' = ~s4 /\ UNCHANGED <<s1, s2, s6>>
        BY <1>4 DEF Slide!MouseMove
    <2>2. s3' \in BOOLEAN /\ s5' \in BOOLEAN /\ s4' \in BOOLEAN
        BY <1>4, Zenon DEF Slide!MouseMove, Slide!SetInterval
    <2>3. /\ s1.enableMouseEnter /\ s1.isShowArrow => s5' = s4'
          /\ s1.isAuto /\ s1.enableMouseEnter /\ s1.isShowArrow => (s3' <=> ~s4')
        BY <1>4, Zenon DEF Slide!MouseMove, Slide!SetInterval
    <2> QED
        BY <2>1, <2>2, <2>3
<1>5. CASE Slide!Click
    BY <1>2, <1>5, Zenon DEF Slide!Click
<1>6. CASE Slide!Call
    <2>1. ASSUME NEW i \in 1 .. Pictures, Slide!ToIndex(i, FALSE)
          PROVE  Slide!Inv'
        BY <2>1, SlideTurns
    <2> QED
        BY <1>2, <1>6, <2>1, Zenon DEF Slide!Call
<1> QED
    BY <1>1, <1>3, <1>4, <1>5, <1>6 DEF Slide!Next

LEMMA ProgressbarInit == Progressbar!Init => Progressbar!Inv
<1> USE ProgressbarAssumption
    DEF Progressbar!Init, Progressbar!TypeOK, Progressbar!MovesInSight, Progressbar!Bars
<1>1. Progressbar!Init => s4 \in [Progressbar!Bars -> 0 .. Full] /\ s5 \in [Progressbar!Bars -> BOOLEAN]
    OBVIOUS
<1>2. Progressbar!Init => s7 \in BOOLEAN /\ s9 \in BOOLEAN
    OBVIOUS
<1>3. Progressbar!Init => Progressbar!TypeOK
    BY <1>1, <1>2
<1> QED
    BY <1>3 DEF Progressbar!Inv

(* The value of a bar, and the timer of one that gets complete.            *)
LEMMA ProgressbarSet ==
    ASSUME Progressbar!Inv, NEW b \in Progressbar!Bars, NEW v \in 0 .. Full,
           Progressbar!SetValue(b, v), UNCHANGED <<s1, s2, s5, s6, s8, s9>>
    PROVE  Progressbar!Inv'
<1> USE ProgressbarAssumption
    DEF Progressbar!Inv, Progressbar!TypeOK, Progressbar!MovesInSight
<1>1. s4' \in [Progressbar!Bars -> 0 .. Full] /\ s4'[b] = v
      /\ \A c \in Progressbar!Bars \ {b} : s4'[c] = s4[c]
    BY DEF Progressbar!SetValue
<1>2. v = Full => s3' = 0
    BY DEF Progressbar!SetValue, Progressbar!Close
<1>3. v # Full => s3' = s3 /\ s7' = s7
    BY DEF Progressbar!SetValue
<1>4. s7' \in BOOLEAN
    BY Zenon DEF Progressbar!SetValue, Progressbar!Close
<1>5. s3' # 0 => s3' \in Progressbar!Bars /\ v < Full
    BY <1>2, <1>3 DEF Progressbar!Bars
<1>6. Progressbar!TypeOK'
    BY <1>1, <1>2, <1>3, <1>4
<1>7. s3' # 0 => s4'[s3'] < Full
    BY <1>1, <1>3, <1>5
<1>8. Progressbar!MovesInSight'
    BY <1>1, <1>3, <1>5, <1>7
<1> QED
    BY <1>6, <1>7, <1>8

LEMMA ProgressbarStep ==
    ASSUME Progressbar!Inv, Progressbar!Next \/ UNCHANGED Progressbar!vars
    PROVE  Progressbar!Inv'
<1> USE ProgressbarAssumption
    DEF Progressbar!Inv, Progressbar!TypeOK, Progressbar!MovesInSight, Progressbar!Bars
<1>1. CASE UNCHANGED Progressbar!vars
    BY <1>1 DEF Progressbar!vars
<1>2. CASE Progressbar!Call
    <2>1. s9' \in BOOLEAN
        BY <1>2, Zenon DEF Progressbar!Call
    <2>2. ~s9' => ~s9 /\ s2 = {} /\ s3 = 0
        BY <1>2 DEF Progressbar!Call
    <2>3. s1' \in Progressbar!Bars /\ s2' = s2 \cup {s1'} /\ s7' = FALSE
          /\ UNCHANGED <<s3, s4, s5, s6, s8>>
        BY <1>2 DEF Progressbar!Call
    <2>4. s7' \in BOOLEAN
        BY <2>3, Zenon
    <2>5. s1' \in 0 .. MaxBars /\ s2' \subseteq Progressbar!Bars
        BY <2>3
    <2>6. Progressbar!TypeOK'
        BY <2>1, <2>3, <2>4, <2>5, Zenon
    <2> QED
        BY <2>2, <2>3, <2>6
<1>3. CASE Progressbar!Delayed
    BY <1>3 DEF Progressbar!Delayed, Progressbar!Run
<1>4. CASE Progressbar!Tick
    <2>1. s3 \in Progressbar!Bars /\ s4[s3] + 1 \in 0 .. Full
        BY <1>4 DEF Progressbar!Tick
    <2>2. Progressbar!SetValue(s3, s4[s3] + 1) /\ UNCHANGED <<s1, s2, s5, s6, s8, s9>>
        BY <1>4, Zenon DEF Progressbar!Tick
    <2> HIDE DEF Progressbar!Inv
    <2> QED
        BY <2>1, <2>2, ProgressbarSet
<1>5. CASE Progressbar!CallOpen
    BY <1>5 DEF Progressbar!CallOpen, Progressbar!Run
<1>6. CASE Progressbar!Destroy
    <2>1. s7' = FALSE /\ s8' = s8 \cup {s1} /\ s2' = s2 \ {s1} /\ s1 \in Progressbar!Bars
          /\ UNCHANGED <<s1, s3, s4, s5, s6, s9>>
        BY <1>6 DEF Progressbar!Destroy
    <2>2. Progressbar!TypeOK'
        BY <2>1
    <2> QED
        BY <2>1, <2>2
<1>7. ASSUME NEW v \in 0 .. Full, Progressbar!CallSetValue(v)
      PROVE  Progressbar!Inv'
    <2>1. s1 \in Progressbar!Bars
        BY <1>7 DEF Progressbar!CallSetValue
    <2>2. Progressbar!SetValue(s1, v) /\ UNCHANGED <<s1, s2, s5, s6, s8, s9>>
        BY <1>7, Zenon DEF Progressbar!CallSetValue
    <2> HIDE DEF Progressbar!Inv
    <2> QED
        BY <2>1, <2>2, ProgressbarSet
<1>8. ASSUME NEW p \in BOOLEAN, Progressbar!Pause(p)
      PROVE  Progressbar!Inv'
    BY <1>8 DEF Progressbar!Pause
<1>9. ASSUME NEW p \in BOOLEAN, Progressbar!CallClose(p)
      PROVE  Progressbar!Inv'
    <2>1. s7' = FALSE /\ s3' = 0 /\ s2' \subseteq s2 /\ UNCHANGED <<s1, s4, s5, s6, s8, s9>>
        BY <1>9 DEF Progressbar!CallClose, Progressbar!Close
    <2>2. s7' \in BOOLEAN
        BY <2>1, Zenon
    <2>3. s3' \in 0 .. MaxBars /\ s2' \subseteq Progressbar!Bars
        BY <2>1
    <2>4. Progressbar!TypeOK'
        BY <2>1, <2>2, <2>3, Zenon
    <2> QED
        BY <2>1, <2>4
<1> QED
    BY <1>1, <1>2, <1>3, <1>4, <1>5, <1>6, <1>7, <1>8, <1>9 DEF Progressbar!Next
-----------------------------------------------------------------------------
(* Menus, and tips                                                         *)
LEMMA MenuInit == Menu!Init => Menu!Inv
<1> SUFFICES ASSUME Menu!Init
             PROVE  Menu!Inv
    OBVIOUS
<1> USE MenuAssumption DEF Menu!Init
<1>1. s6 \subseteq Items /\ s7 = s6 /\ (s1 # "tree" => s6 = {}) /\ Menu!Path(s3) = {}
    BY DEF Menu!Path
<1>2. \A i, j \in s6 : i = j
    OBVIOUS
<1>3. Menu!TypeOK
    BY <1>1 DEF Menu!TypeOK
<1>4. Menu!MenuFollows
    BY <1>1, <1>2 DEF Menu!MenuFollows, Menu!Siblings
<1> QED
    BY <1>1, <1>3, <1>4 DEF Menu!Inv, Menu!Timed

(* The items around the mouse                                              *)
LEMMA MenuPath ==
    ASSUME NEW i \in Items \cup {None}
    PROVE  /\ Menu!Path(i) \subseteq Items
           /\ i = None => Menu!Path(i) = {}
           /\ i \in Items => i \in Menu!Path(i)
           /\ i \in Items /\ Parent[i] = None => Menu!Path(i) = {i}
    BY MenuAssumption DEF Menu!Path

LEMMA MenuStep ==
    ASSUME Menu!Inv, Menu!Next \/ UNCHANGED Menu!vars
    PROVE  Menu!Inv'
<1> USE MenuAssumption DEF Menu!Inv, Menu!TypeOK, Menu!Timed
<1>1. CASE UNCHANGED Menu!vars
    BY <1>1 DEF Menu!vars, Menu!MenuFollows, Menu!Path, Menu!Siblings, Menu!Leaf
<1>2. ASSUME NEW to \in Items \cup {None}, Menu!Move(to)
      PROVE  Menu!Inv'
    <2> DEFINE P == Menu!Path(s3)
               Q == Menu!Path(to)
    <2>1. /\ s1 \in {"data", "simple"} /\ s3' = to
          /\ s8' = (s8 \ (P \ Q)) \cup (Q \ P) /\ s9' = (s9 \cup (P \ Q)) \ (Q \ P)
          /\ UNCHANGED <<s1, s2, s4, s5, s6, s7>>
        BY <1>2 DEF Menu!Move
    <2>2. Q' = Q /\ Menu!Path(s3)' = Q
        BY <2>1 DEF Menu!Path
    <2>3. P \subseteq Items /\ Q \subseteq Items
        BY MenuPath
    <2>4. s8 \subseteq P /\ P \ s8 \subseteq s6 /\ s9 \cap P = {} /\ s6 \ s9 \subseteq P
        BY <2>1
    <2> HIDE DEF P, Q
    <2>5. s8' \subseteq Q /\ Q \ s8' \subseteq s6 /\ s9' \cap Q = {} /\ s6 \ s9' \subseteq Q
        BY <2>1, <2>4
    <2>6. Menu!TypeOK'
        BY <2>1, <2>3
    <2>7. Menu!MenuFollows'
        BY <2>1, <2>2, <2>5 DEF Menu!MenuFollows
    <2> QED
        BY <2>1, <2>2, <2>5, <2>6, <2>7
<1>3. ASSUME NEW to \in Items \cup {None}, NEW panel \in BOOLEAN, Menu!MoveFixed(to, panel)
      PROVE  Menu!Inv'
    <2>1. s1 = "fixed" /\ s3' = to /\ UNCHANGED <<s1, s2, s8, s9>>
          /\ (to # None => Parent[to] = None)
        BY <1>3 DEF Menu!MoveFixed
    <2>2. s4' \in BOOLEAN /\ (s4' => to # None /\ to \in s6)
          /\ (to # None /\ ~s4' => s5' = to) /\ (to = None \/ s4' => s5' = s5)
        BY <1>3, Zenon DEF Menu!MoveFixed
    <2>3. s8 = {} /\ s9 = {} /\ s6 = Menu!Path(s3) /\ s7 = s6
          /\ (s3 # None => s5 = s3 /\ Parent[s3] = None) /\ (s4 => s3 # None)
        BY <2>1
    <2>4. s6 = IF s3 = None THEN {} ELSE {s3}
        BY <2>3, MenuPath
    <2>5. to # None => s5' = to
        <3>1. CASE s4'
            BY <2>2, <2>3, <2>4, <3>1
        <3>2. CASE ~s4'
            BY <2>2, <3>2
        <3> QED
            BY <3>1, <3>2
    <2>6. s6' = IF to = None THEN {} ELSE {to}
        BY <1>3, <2>3, <2>4, <2>5 DEF Menu!MoveFixed
    <2>7. s7' = s6'
        BY <1>3, <2>3, <2>4, <2>5, <2>6 DEF Menu!MoveFixed
    <2>8. s6' = Menu!Path(to)
        BY <2>1, <2>6, MenuPath
    <2>9. s5' \in Items \cup {None}
        BY <2>2
    <2>10. Menu!TypeOK'
        BY <2>1, <2>2, <2>6, <2>7, <2>9
    <2>11. Menu!Path(s3)' = Menu!Path(to)
        BY <2>1 DEF Menu!Path
    <2> QED
        BY <2>1, <2>2, <2>3, <2>5, <2>7, <2>8, <2>10, <2>11 DEF Menu!MenuFollows
<1>4. ASSUME NEW i \in Items, Menu!ShowObj(i) \/ Menu!HideObj(i)
      PROVE  Menu!Inv'
    <2>1. s1 \in {"data", "simple"}
        BY <1>4 DEF Menu!ShowObj, Menu!HideObj
    <2>2. Menu!Path(s3)' = Menu!Path(s3)
        BY <1>4 DEF Menu!ShowObj, Menu!HideObj, Menu!Path
    <2>3. Menu!Inv /\ s1' = s1 => Menu!TypeOK'
        BY <1>4 DEF Menu!ShowObj, Menu!HideObj
    <2> QED
        BY <1>4, <2>1, <2>2, <2>3 DEF Menu!ShowObj, Menu!HideObj, Menu!MenuFollows
<1>5. ASSUME NEW i \in Items, Menu!ClickTree(i)
      PROVE  Menu!Inv'
    <2>1. s1 = "tree" /\ UNCHANGED <<s1, s2, s3, s4, s5, s8, s9>> /\ s7' = s6' /\ s7 = s6
        BY <1>5 DEF Menu!ClickTree
    <2>2. s6' = IF i \in s6 THEN s6 \ {i}
                ELSE (s6 \cup {i}) \ IF s2 /\ ~Menu!Leaf(i) THEN Menu!Siblings(i) ELSE {}
        BY <1>5, <2>1 DEF Menu!ClickTree
    <2>3. Menu!TypeOK'
        BY <2>1, <2>2
    <2>4. Menu!MenuFollows'
        BY <2>1, <2>2 DEF Menu!MenuFollows, Menu!Siblings, Menu!Leaf
    <2> QED
        BY <2>1, <2>3, <2>4
<1> QED
    BY <1>1, <1>2, <1>3, <1>4, <1>5 DEF Menu!Next

LEMMA TipsInit == Tips!Init => Tips!Inv
<1> SUFFICES ASSUME Tips!Init
             PROVE  Tips!Inv
    OBVIOUS
<1>1. Tips!Cardinality({}) = 0
    BY FS_EmptySet, Zenon DEF Tips!Cardinality, Cardinality
<1>2. s7 \in [Eles -> {"own", ""}] /\ \A e \in Eles : s7[e] = "own"
    BY DEF Tips!Init
<1>3. s1 \in BOOLEAN /\ s8 \in BOOLEAN
    BY DEF Tips!Init
<1>4. Tips!TypeOK
    BY <1>2, <1>3 DEF Tips!Init, Tips!TypeOK
<1>5. Tips!NoTipStaysBehind
    BY <1>1, <1>2 DEF Tips!Init, Tips!NoTipStaysBehind
<1> QED
    BY <1>4, <1>5, TipsAssumption DEF Tips!Init, Tips!Inv

(* At most one tip                                                         *)
LEMMA OneTip ==
    ASSUME NEW S, \A d, e \in S : d = e
    PROVE  Tips!Cardinality(S) <= 1
<1>1. Cardinality(S) <= 1
    <2>1. CASE S = {}
        BY <2>1, FS_EmptySet
    <2>2. ASSUME NEW e \in S
          PROVE  Cardinality(S) <= 1
        <3>1. S = {e}
            OBVIOUS
        <3>2. Cardinality({e}) = 1
            BY FS_Singleton
        <3> QED
            BY <3>1, <3>2
    <2> QED
        BY <2>1, <2>2
<1>2. Tips!Cardinality(S) = Cardinality(S)
    BY Zenon DEF Tips!Cardinality, Cardinality
<1> QED
    BY <1>1, <1>2

(* What the mouse can be over                                              *)
On(e) == <<"ele", e>>
At(e) == <<"tips", e>>

LEMMA TipsStep ==
    ASSUME Tips!Inv, Tips!Next \/ UNCHANGED Tips!vars
    PROVE  Tips!Inv'
<1> DEFINE Sure == \A e \in s3 : s2 = On(e) \/ s2 = At(e) \/ s4 = e
           Own == \A e \in Eles : s2 # On(e) => s7[e] = "own"
           One == \A d, e \in s3 : d = e
           Due == \A e \in Eles : s6 = e => s2 = On(e) /\ s3 = {}
           Under == \A e \in Eles : s2 = On(e) => s3 \subseteq {e}
           Goes == \A e \in s3 : ~s1 /\ s2 = At(e) => s4 = e
           Distinct == None \notin Eles
                     /\ \A d, e \in Eles : /\ On(d) = On(e) => d = e
                                           /\ At(d) = At(e) => d = e
                                           /\ On(d) # At(e) /\ On(d) # None /\ At(e) # None
           Typed == /\ s1 \in BOOLEAN /\ s8 \in BOOLEAN /\ s3 \subseteq Eles /\ s5 \subseteq Eles
                    /\ s4 \in Eles \cup {None} /\ s6 \in Eles \cup {None}
                    /\ s7 \in [Eles -> {"own", ""}]
                    /\ (s2 = None \/ \E e \in Eles : s2 = On(e) \/ s2 = At(e))
<1>1. Distinct
    BY TipsAssumption DEF On, At
<1>2. Typed
    <2>1. s2 = None \/ \E e \in Eles : s2 = On(e) \/ s2 = At(e)
        <3>1. s2 = None \/ s2 \in {"ele", "tips"} \X Eles
            BY DEF Tips!Inv, Tips!TypeOK
        <3>2. ASSUME s2 \in {"ele", "tips"} \X Eles
              PROVE  \E e \in Eles : s2 = On(e) \/ s2 = At(e)
            <4>1. PICK k \in {"ele", "tips"}, e \in Eles : s2 = <<k, e>>
                BY <3>2
            <4> QED
                BY <4>1 DEF On, At
        <3> QED
            BY <3>1, <3>2
    <2> QED
        BY <2>1, Zenon DEF Tips!Inv, Tips!TypeOK
<1>3. Own
    BY DEF Tips!Inv, Tips!NoTipStaysBehind, On
<1>4. ~s8 => Sure
    BY DEF Tips!Inv, Tips!NoTipStaysBehind, On, At
<1>5. ~s8 => One
    BY Zenon DEF Tips!Inv
<1>6. ~s8 => Due
    BY Zenon DEF Tips!Inv, On
<1>7. ~s8 => Goes
    BY Zenon DEF Tips!Inv, At
<1>8. ~s8 => Under
    BY Zenon DEF Tips!Inv, On
<1> SUFFICES /\ Typed' /\ Own'
             /\ ~s8' => Sure' /\ One' /\ Due' /\ Goes' /\ Under'
    <2>1. Typed' => Tips!TypeOK'
        <3>2. \A e \in Eles : On(e) \in {"ele", "tips"} \X Eles /\ At(e) \in {"ele", "tips"} \X Eles
            BY DEF On, At
        <3>3. ASSUME Typed'
              PROVE  s2' \in ({"ele", "tips"} \X Eles) \cup {None}
            <4>1. CASE s2' = None
                BY <4>1
            <4>2. CASE s2' # None
                <5>1. PICK e \in Eles : s2' = On(e) \/ s2' = At(e)
                    BY <3>3, <4>2, Zenon
                <5>2. On(e) \in {"ele", "tips"} \X Eles /\ At(e) \in {"ele", "tips"} \X Eles
                    BY <3>2, Zenon
                <5>3. CASE s2' = On(e)
                    BY <5>2, <5>3, Zenon
                <5>4. CASE s2' = At(e)
                    BY <5>2, <5>4, Zenon
                <5> QED
                    BY <5>1, <5>3, <5>4, Zenon
            <4> QED
                BY <4>1, <4>2, Zenon
        <3> QED
            BY <3>3, Zenon DEF Tips!TypeOK
    <2>2. Own' /\ (~s8' => Sure' /\ One') => Tips!NoTipStaysBehind'
        BY OneTip DEF Tips!NoTipStaysBehind, On, At
    <2> QED
        BY <2>1, <2>2 DEF Tips!Inv, On, At
<1>9. CASE UNCHANGED Tips!vars
    <2>1. UNCHANGED <<s1, s2, s3, s4, s5, s6, s7, s8>>
        BY <1>9, Zenon DEF Tips!vars
    <2>2. Typed'
        BY <2>1, <1>1, <1>2
    <2>3. Own'
        BY <2>1, <1>1, <1>2, <1>3
    <2>4. ~s8' => Sure'
        BY <2>1, <1>1, <1>2, <1>4
    <2>5. ~s8' => One'
        BY <2>1, <1>2, <1>5
    <2>6. ~s8' => Due'
        BY <2>1, <1>1, <1>2, <1>6
    <2>7. ~s8' => Goes'
        BY <2>1, <1>1, <1>2, <1>7
    <2>8. ~s8' => Under'
        BY <2>1, <1>1, <1>2, <1>8
    <2> HIDE DEF Own, Sure, One, Due, Goes, Under
    <2> QED
        BY <2>2, <2>3, <2>4, <2>5, <2>6, <2>7, <2>8, Zenon
<1>10. CASE Tips!ShowTimer
    <2>1. s6 # None /\ s6' = None /\ s3' = s3 \cup {s6} /\ UNCHANGED <<s1, s2, s4, s5, s7, s8>>
        BY <1>10, Zenon DEF Tips!ShowTimer
    <2>2. Typed'
        BY <2>1, <1>1, <1>2
    <2>3. Own'
        BY <2>1, <1>1, <1>2, <1>3
    <2>4. ~s8' => Sure'
        BY <2>1, <1>1, <1>2, <1>4, <1>6
    <2>5. ~s8' => One'
        BY <2>1, <1>2, <1>5, <1>6
    <2>6. ~s8' => Due'
        BY <2>1, <1>1, <1>2, <1>6
    <2>7. ~s8' => Goes'
        BY <2>1, <1>1, <1>2, <1>7, <1>6
    <2>8. ~s8' => Under'
        BY <2>1, <1>1, <1>2, <1>8, <1>6
    <2> HIDE DEF Own, Sure, One, Due, Goes, Under
    <2> QED
        BY <2>2, <2>3, <2>4, <2>5, <2>6, <2>7, <2>8, Zenon
<1>11. CASE Tips!HideTimer
    <2>1. PICK e \in s5 \cup ({s4} \ {None}) :
             /\ s3' = s3 \ {e}
             /\ \/ e \in s5 /\ s5' = s5 \ {e} /\ UNCHANGED s4
                \/ e = s4 /\ s4' = None /\ UNCHANGED s5
        BY <1>11 DEF Tips!HideTimer
    <2>2. UNCHANGED <<s1, s2, s6, s7, s8>>
        BY <1>11 DEF Tips!HideTimer
    <2> QED
        BY <2>1, <2>2, <1>1, <1>2, <1>3, <1>4, <1>5, <1>6, <1>7, <1>8
<1>12. CASE Tips!Mousedown
    <2>1. s3' = {} /\ s6' = None /\ UNCHANGED <<s1, s2, s4, s5, s7, s8>>
        BY <1>12, Zenon DEF Tips!Mousedown
    <2>2. Typed'
        BY <2>1, <1>1, <1>2
    <2>3. Own'
        BY <2>1, <1>1, <1>2, <1>3
    <2>4. ~s8' => Sure'
        BY <2>1, <1>1, <1>2, <1>4
    <2>5. ~s8' => One'
        BY <2>1, <1>2, <1>5
    <2>6. ~s8' => Due'
        BY <2>1, <1>1, <1>2, <1>6
    <2>7. ~s8' => Goes'
        BY <2>1, <1>1, <1>2, <1>7
    <2>8. ~s8' => Under'
        BY <2>1, <1>1, <1>2, <1>8
    <2> HIDE DEF Own, Sure, One, Due, Goes, Under
    <2> QED
        BY <2>2, <2>3, <2>4, <2>5, <2>6, <2>7, <2>8, Zenon
<1>13. ASSUME NEW e \in Eles, Tips!MouseEnter(e)
      PROVE  /\ Typed' /\ Own' /\ (~s8' => Sure' /\ One' /\ Due' /\ Goes' /\ Under')
    <2>1. s2 = None /\ s2' = On(e) /\ s3' = s3 \cap {e} /\ s4' = None
          /\ s6' = (IF e \in s3 THEN None ELSE e) /\ s7' = [s7 EXCEPT ![e] = ""]
          /\ UNCHANGED <<s1, s5, s8>>
        BY <1>13, Zenon DEF Tips!MouseEnter, On
    <2>2. Typed'
        BY <2>1, <1>1, <1>2
    <2>3. Own'
        BY <2>1, <1>1, <1>2, <1>3
    <2>4. ~s8' => Sure'
        BY <2>1, <1>1, <1>2, <1>4
    <2>5. ~s8' => One'
        BY <2>1, <1>2, <1>5
    <2>6. ~s8' => Due'
        <3>1. CASE e \in s3
            BY <1>1, <2>1, <3>1
        <3>2. CASE e \notin s3
            <4>1. s6' = e /\ s2' = On(e) /\ s3' = s3 \cap {e}
                BY <2>1, <3>2, Zenon
            <4>2. s3' = {}
                BY <3>2, <4>1
            <4> QED
                BY <4>1, <4>2
        <3> QED
            BY <3>1, <3>2
    <2>7. ~s8' => Goes'
        BY <2>1, <1>1, <1>2, <1>7
    <2>8. ~s8' => Under'
        BY <2>1, <1>1, <1>2, <1>8
    <2> HIDE DEF Own, Sure, One, Due, Goes, Under
    <2> QED
        BY <2>2, <2>3, <2>4, <2>5, <2>6, <2>7, <2>8, Zenon
<1>14. ASSUME NEW e \in Eles, Tips!MouseLeave(e)
      PROVE  /\ Typed' /\ Own' /\ (~s8' => Sure' /\ One' /\ Due' /\ Goes' /\ Under')
    <2>1. s2 = On(e) /\ s2' = None /\ s6' = None /\ s4' = e
          /\ s5' = (s5 \cup {s4}) \ {None} /\ s7' = [s7 EXCEPT ![e] = "own"]
          /\ UNCHANGED <<s1, s3, s8>>
        BY <1>14, Zenon DEF Tips!MouseLeave, Tips!HideTips, On
    <2>2. Typed'
        BY <2>1, <1>1, <1>2
    <2>3. Own'
        BY <2>1, <1>1, <1>2, <1>3
    <2>4. ~s8' => Sure'
        BY <2>1, <1>1, <1>2, <1>4, <1>8
    <2>5. ~s8' => One'
        BY <2>1, <1>2, <1>5
    <2>6. ~s8' => Due'
        BY <2>1, <1>1, <1>2, <1>6
    <2>7. ~s8' => Goes'
        BY <2>1, <1>1, <1>2, <1>7
    <2>8. ~s8' => Under'
        BY <2>1, <1>1, <1>2, <1>8
    <2> HIDE DEF Own, Sure, One, Due, Goes, Under
    <2> QED
        BY <2>2, <2>3, <2>4, <2>5, <2>6, <2>7, <2>8, Zenon
<1>15. ASSUME NEW e \in Eles, Tips!TipsEnter(e)
      PROVE  /\ Typed' /\ Own' /\ (~s8' => Sure' /\ One' /\ Due' /\ Goes' /\ Under')
    <2>1. s2 = None /\ e \in s3 /\ s2' = At(e) /\ s4' = (IF s1 THEN None ELSE s4)
          /\ UNCHANGED <<s1, s3, s5, s6, s7, s8>>
        BY <1>15, Zenon DEF Tips!TipsEnter, At
    <2>2. Typed'
        BY <2>1, <1>1, <1>2
    <2>3. Own'
        BY <2>1, <1>1, <1>2, <1>3
    <2>4. ~s8' => Sure'
        BY <2>1, <1>1, <1>2, <1>4
    <2>5. ~s8' => One'
        BY <2>1, <1>2, <1>5
    <2>6. ~s8' => Due'
        BY <2>1, <1>1, <1>2, <1>6
    <2>7. ~s8' => Goes'
        BY <2>1, <1>1, <1>2, <1>7, <1>4
    <2>8. ~s8' => Under'
        BY <2>1, <1>1, <1>2, <1>8
    <2> HIDE DEF Own, Sure, One, Due, Goes, Under
    <2> QED
        BY <2>2, <2>3, <2>4, <2>5, <2>6, <2>7, <2>8, Zenon
<1>16. ASSUME NEW e \in Eles, Tips!TipsLeave(e)
      PROVE  /\ Typed' /\ Own' /\ (~s8' => Sure' /\ One' /\ Due' /\ Goes' /\ Under')
    <2>1. s2 = At(e) /\ s2' = None
          /\ (s1 /\ e \in s3 => s4' = e /\ s5' = (s5 \cup {s4}) \ {None})
          /\ (~(s1 /\ e \in s3) => UNCHANGED <<s4, s5>>)
          /\ UNCHANGED <<s1, s3, s6, s7, s8>>
        BY <1>16, Zenon DEF Tips!TipsLeave, Tips!HideTips, At
    <2>2. Typed'
        BY <2>1, <1>1, <1>2
    <2>3. Own'
        BY <2>1, <1>1, <1>2, <1>3
    <2>4. ~s8' => Sure'
        BY <2>1, <1>1, <1>2, <1>4, <1>5, <1>7, ZenonT(60)
    <2>5. ~s8' => One'
        BY <2>1, <1>2, <1>5
    <2>6. ~s8' => Due'
        BY <2>1, <1>1, <1>2, <1>6
    <2>7. ~s8' => Goes'
        BY <2>1, <1>1, <1>2, <1>7
    <2>8. ~s8' => Under'
        BY <2>1, <1>1, <1>2, <1>8
    <2> HIDE DEF Own, Sure, One, Due, Goes, Under
    <2> QED
        BY <2>2, <2>3, <2>4, <2>5, <2>6, <2>7, <2>8, Zenon
<1>17. ASSUME NEW e \in Eles, Tips!SetData(e)
      PROVE  /\ Typed' /\ Own' /\ (~s8' => Sure' /\ One' /\ Due' /\ Goes' /\ Under')
    <2>1. s8' = TRUE /\ s3' = s3 \cup {e} /\ s4' = e /\ s5' = (s5 \cup {s4}) \ {None}
          /\ UNCHANGED <<s1, s2, s6, s7>>
        BY <1>17, Zenon DEF Tips!SetData, Tips!HideTips
    <2>2. Typed'
        BY <2>1, <1>1, <1>2
    <2>3. Own'
        BY <2>1, <1>1, <1>2, <1>3
    <2>4. ~s8' => Sure'
        BY <2>1, <1>1, <1>2, <1>4
    <2>5. ~s8' => One'
        BY <2>1, <1>2, <1>5
    <2>6. ~s8' => Due'
        BY <2>1, <1>1, <1>2, <1>6
    <2>7. ~s8' => Goes'
        BY <2>1, <1>1, <1>2, <1>7
    <2>8. ~s8' => Under'
        BY <2>1, <1>1, <1>2, <1>8
    <2> HIDE DEF Own, Sure, One, Due, Goes, Under
    <2> QED
        BY <2>2, <2>3, <2>4, <2>5, <2>6, <2>7, <2>8, Zenon
<1>18. ASSUME NEW e \in Eles, Tips!DestroyTips(e)
      PROVE  /\ Typed' /\ Own' /\ (~s8' => Sure' /\ One' /\ Due' /\ Goes' /\ Under')
    <2>1. s3' = s3 \ {e} /\ s7' = [s7 EXCEPT ![e] = "own"]
          /\ s6' = (IF s6 = e THEN None ELSE s6)
          /\ s2' = (IF s2 \in {On(e), At(e)} THEN None ELSE s2)
          /\ s4' = (IF s4 = e THEN None ELSE s4)
          /\ s5' = s5 \ {e} /\ UNCHANGED <<s1, s8>>
        BY <1>18, Zenon DEF Tips!DestroyTips, On, At
    <2>9. s6' = None \/ (s6' = s6 /\ s6 # e)
        BY <1>18, SMT DEF Tips!DestroyTips
    <2>10. \/ s2' = None /\ (s2 = On(e) \/ s2 = At(e))
           \/ s2' = s2 /\ s2 # On(e) /\ s2 # At(e)
        <3>1. CASE s2 \in {On(e), At(e)}
            BY <2>1, <3>1, Zenon
        <3>2. CASE s2 \notin {On(e), At(e)}
            BY <2>1, <3>2, Zenon
        <3> QED
            BY <3>1, <3>2, Zenon
    <2>11. (s4' = None /\ s4 = e) \/ (s4' = s4 /\ s4 # e)
        BY <1>18, SMT DEF Tips!DestroyTips
    <2>12. /\ s3' = s3 \ {e} /\ s5' = s5 \ {e} /\ s1' = s1 /\ s8' = s8
           /\ s7' = [s7 EXCEPT ![e] = "own"]
        BY <2>1, Zenon
    <2>2. Typed'
        BY <2>9, <2>10, <2>11, <2>12, <1>1, <1>2
    <2>3. Own'
        BY <2>9, <2>10, <2>11, <2>12, <1>1, <1>2, <1>3
    <2>4. ~s8' => Sure'
        BY <2>9, <2>10, <2>11, <2>12, <1>1, <1>2, <1>4, ZenonT(60)
    <2>5. ~s8' => One'
        BY <2>9, <2>10, <2>11, <2>12, <1>2, <1>5
    <2>6. ~s8' => Due'
        BY <2>9, <2>10, <2>11, <2>12, <1>1, <1>2, <1>6
    <2>7. ~s8' => Goes'
        BY <2>9, <2>10, <2>11, <2>12, <1>1, <1>2, <1>7
    <2>8. ~s8' => Under'
        BY <2>9, <2>10, <2>11, <2>12, <1>1, <1>2, <1>8
    <2> HIDE DEF Own, Sure, One, Due, Goes, Under
    <2> QED
        BY <2>2, <2>3, <2>4, <2>5, <2>6, <2>7, <2>8, Zenon
<1> QED
    BY <1>9, <1>10, <1>11, <1>12, <1>13, <1>14, <1>15, <1>16, <1>17, <1>18, Zenon DEF Tips!Next
-----------------------------------------------------------------------------
(* Masks                                                                   *)
(* A set of numbers has a smallest one.                                    *)
LEMMA SmallestNumber ==
    ASSUME NEW S \in SUBSET Nat, S # {}
    PROVE  \E n \in S : \A m \in S : n <= m
<1> DEFINE F == {0 .. n : n \in S}
<1>1. PICK A \in F : \A B \in F : ~ (<<B, A>> \in StrictSubsetOrdering(Nat))
    <2>1. \A n \in S : IsFiniteSet(0 .. n)
        BY FS_Interval
    <2>2. F # {}
        OBVIOUS
    <2>3. F \subseteq FiniteSubsetsOf(Nat)
        <3>1. ASSUME NEW n \in S
              PROVE  0 .. n \in FiniteSubsetsOf(Nat)
            BY <2>1 DEF FiniteSubsetsOf
        <3> QED
            BY <3>1
    <2> HIDE DEF F
    <2> QED
        BY <2>2, <2>3, FS_StrictSubsetOrderingWellFounded, WFMin
<1>2. PICK n \in S : A = 0 .. n
    OBVIOUS
<1>3. ASSUME NEW m \in S, m < n
      PROVE  FALSE
    <2>1. 0 .. m \in F
        OBVIOUS
    <2>2. ~ (<<0 .. m, 0 .. n>> \in StrictSubsetOrdering(Nat))
        BY <1>1, <1>2, <2>1
    <2>3. 0 .. m \subseteq 0 .. n /\ 0 .. n \subseteq Nat /\ n \notin 0 .. m /\ n \in 0 .. n
        BY <1>3
    <2>4. 0 .. m # 0 .. n
        BY <2>3, Zenon
    <2> HIDE DEF F
    <2>5. <<0 .. m, 0 .. n>> \in StrictSubsetOrdering(Nat)
        BY <2>3, <2>4 DEF StrictSubsetOrdering
    <2> QED
        BY <2>2, <2>5
<1> QED
    BY <1>3

LEMMA MaskInit == Mask!Init => Mask!Inv
    BY MaskAssumption DEF Mask!Init, Mask!Inv, Mask!TypeOK, Mask!DisabledWhileMasked

(* One more mask at the end of the page                                    *)
LEMMA MaskAppends ==
    ASSUME Mask!TypeOK, NEW ms, NEW id \in Ids \cup {None}, Mask!AppendMask(ms, id),
           DOMAIN ms \subseteq DOMAIN s1
    PROVE  /\ s2' = s2 + 1 /\ s2' \in 1 .. MaxMasks
           /\ DOMAIN s1' = DOMAIN ms \cup {s2'} /\ s1'[s2'] = id
           /\ \A m \in DOMAIN ms : m # s2' /\ s1'[m] = ms[m]
<1>1. s2' = s2 + 1 /\ s2' \in 1 .. MaxMasks
    BY MaskAssumption DEF Mask!AppendMask, Mask!TypeOK
<1>2. \A m \in DOMAIN ms : m # s2'
    BY <1>1, MaskAssumption DEF Mask!TypeOK
<1> QED
    BY <1>1, <1>2 DEF Mask!AppendMask

LEMMA MaskStep ==
    ASSUME Mask!Inv, Mask!Next \/ UNCHANGED Mask!vars
    PROVE  Mask!Inv'
<1> USE MaskAssumption DEF Mask!Inv, Mask!TypeOK, Mask!DisabledWhileMasked
<1>1. CASE UNCHANGED Mask!vars
    BY <1>1 DEF Mask!vars
<1>2. ASSUME NEW id \in Ids \cup {None}, Mask!MaskPage(id)
      PROVE  Mask!Inv'
    <2>1. /\ s2' = s2 + 1 /\ s2' \in 1 .. MaxMasks
          /\ DOMAIN s1' = DOMAIN s1 \cup {s2'} /\ s1'[s2'] = id
          /\ \A m \in DOMAIN s1 : m # s2' /\ s1'[m] = s1[m]
        BY <1>2, MaskAppends DEF Mask!MaskPage
    <2>2. UNCHANGED <<s3, s4, s5, s6, s7>>
        BY <1>2 DEF Mask!MaskPage
    <2>3. Mask!TypeOK'
        BY <2>1, <2>2
    <2>4. \A e \in Eles : s5'[e] \in DOMAIN s1' <=> s5[e] \in DOMAIN s1
        BY <2>1, <2>2
    <2> QED
        BY <2>1, <2>2, <2>3, <2>4
<1>3. ASSUME NEW e \in Eles, NEW id \in Ids \cup {None}, NEW modal \in BOOLEAN,
             Mask!MaskEle(e, id, modal)
      PROVE  Mask!Inv'
    <2>1. /\ e \notin s3 /\ s3' = s3 \cup {e} /\ s7' = s7
          /\ s4' = [s4 EXCEPT ![e] = @ \cup ({id} \ {None})]
        BY <1>3 DEF Mask!MaskEle
    <2>2. CASE modal
        <3>1. /\ s2' = s2 + 1 /\ s2' \in 1 .. MaxMasks
              /\ DOMAIN s1' = DOMAIN s1 \cup {s2'} /\ s1'[s2'] = id
              /\ \A m \in DOMAIN s1 : m # s2' /\ s1'[m] = s1[m]
            BY <1>3, <2>2, MaskAppends DEF Mask!MaskEle
        <3>2. s6' = s6 /\ s5' = [s5 EXCEPT ![e] = s2']
            BY <1>3, <2>2 DEF Mask!MaskEle
        <3>3. Mask!TypeOK'
            BY <2>1, <3>1, <3>2
        <3>4. \A d \in Eles \ {e} : s5'[d] = s5[d] /\ (s5'[d] \in DOMAIN s1' <=> s5[d] \in DOMAIN s1)
            BY <3>1, <3>2
        <3>5. s5'[e] = s2' /\ id \in s4'[e] \cup {None} /\ \A d \in Eles \ {e} : s4'[d] = s4[d]
            BY <2>1, <3>2
        <3>6. Mask!DisabledWhileMasked'
            BY <2>1, <3>1, <3>2, <3>4, <3>5
        <3>7. \A d \in Eles : s5[d] < s2'
            BY <3>1
        <3> QED
            BY <2>1, <3>1, <3>2, <3>3, <3>4, <3>5, <3>6, <3>7
    <2>3. CASE ~modal
        <3>1. s6' = s6 \cup {e} /\ UNCHANGED <<s1, s2, s5>>
            BY <1>3, <2>3 DEF Mask!MaskEle
        <3> QED
            BY <2>1, <3>1
    <2> QED
        BY <2>2, <2>3
<1>4. ASSUME NEW e \in Eles, Mask!DestroyEle(e)
      PROVE  Mask!Inv'
    <2>1. /\ DOMAIN s1' = DOMAIN s1 \ {s5[e]} /\ \A m \in DOMAIN s1' : s1'[m] = s1[m]
          /\ s3' = s3 \ {e} /\ s6' = s6 \ {e} /\ UNCHANGED <<s2, s4, s5, s7>>
        BY <1>4 DEF Mask!DestroyEle, Mask!Restrict
    <2>2. \A d \in Eles \ {e} : s5[d] \in DOMAIN s1' <=> s5[d] \in DOMAIN s1
        BY <2>1
    <2> QED
        BY <2>1, <2>2
<1>5. ASSUME NEW id \in Ids, Mask!DestroyId(id)
      PROVE  Mask!Inv'
    <2> DEFINE bear == {m \in DOMAIN s1 : s1[m] = id}
               first == IF Mask!Taken(id) THEN {Mask!Min(bear)} ELSE {}
               marked == {e \in Eles : id \in s4[e]}
    <2>1. /\ DOMAIN s1' = DOMAIN s1 \ first /\ \A m \in DOMAIN s1' : s1'[m] = s1[m]
          /\ s3' = s3 \ marked /\ s6' = s6 \ marked /\ UNCHANGED <<s2, s5>>
          /\ s4' = [e \in Eles |-> s4[e] \ {id}]
          /\ s7' = s7 \cup {e \in marked : s5[e] \in DOMAIN s1'}
        BY <1>5 DEF Mask!DestroyId, Mask!Restrict
    <2>2. first \subseteq bear
        <3>1. ASSUME bear # {}
              PROVE  Mask!Min(bear) \in bear
            <4>1. bear \in SUBSET Nat
                OBVIOUS
            <4> HIDE DEF bear
            <4>2. \E n \in bear : \A m \in bear : n <= m
                BY <3>1, <4>1, SmallestNumber
            <4> QED
                BY <4>2 DEF Mask!Min
        <3> QED
            BY <3>1 DEF Mask!Taken
    <2> HIDE DEF first
    <2>3. Mask!TypeOK'
        BY <2>1
    <2>4. ASSUME NEW e \in Eles \ s7'
          PROVE  /\ s5'[e] \in DOMAIN s1' <=> e \in s3' \ s6'
                 /\ s5'[e] \in DOMAIN s1' => s1'[s5'[e]] \in s4'[e] \cup {None}
        <3>1. CASE e \in marked
            BY <2>1, <3>1
        <3>2. CASE e \notin marked
            BY <2>1, <2>2, <3>2
        <3> QED
            BY <3>1, <3>2
    <2> QED
        BY <2>1, <2>3, <2>4
<1>6. CASE Mask!DestroyAll
    BY <1>6 DEF Mask!DestroyAll
<1>7. CASE Mask!ShowMask
    <2>1. /\ s2' = s2 + 1 /\ s2' \in 1 .. MaxMasks /\ DOMAIN s1' = {s2'} /\ s1'[s2'] = None
        <3>1. Mask!AppendMask(<<>>, None) /\ DOMAIN <<>> = {}
            BY <1>7 DEF Mask!ShowMask
        <3>2. DOMAIN <<>> \subseteq DOMAIN s1
            BY <3>1
        <3> QED
            BY <3>1, <3>2, MaskAppends
    <2>2. s3' = {} /\ s6' = {} /\ UNCHANGED <<s4, s5, s7>>
        BY <1>7 DEF Mask!ShowMask
    <2> QED
        BY <2>1, <2>2
<1> QED
    BY <1>1, <1>2, <1>3, <1>4, <1>5, <1>6, <1>7 DEF Mask!Next
-----------------------------------------------------------------------------
(* Where things open                                                       *)
PlaceGeometry ==
    [x : Places, y : Places, w : EleSizes, h : EleSizes, bw : BoxSizes, bh : BoxSizes]
PlaceNames == {Placement!Positions[i] : i \in DOMAIN Placement!Positions}

LEMMA PlaceNumbers ==
    ASSUME NEW g \in PlaceGeometry
    PROVE  /\ g.x \in 0 .. Screen /\ g.y \in 0 .. Screen
           /\ g.w \in Nat /\ g.h \in Nat /\ g.bw \in Nat /\ g.bh \in Nat
           /\ g.w \div 2 \in Nat /\ g.h \div 2 \in Nat /\ g.bw \div 2 \in Nat /\ g.bh \div 2 \in Nat
           /\ g.bw = 2 * (g.bw \div 2) /\ g.bh = 2 * (g.bh \div 2)
<1>1. /\ g.x \in Places /\ g.y \in Places /\ g.w \in EleSizes /\ g.h \in EleSizes
      /\ g.bw \in BoxSizes /\ g.bh \in BoxSizes
    BY DEF PlaceGeometry
<1>2. \A n \in EleSizes \cup BoxSizes : n \in Nat /\ n \div 2 \in Nat /\ n = 2 * (n \div 2)
    BY PlacementAssumption
<1> QED
    BY <1>1, <1>2, PlacementAssumption

(* The eight positions, of which the first four are the sides              *)
LEMMA PlacePositions ==
    /\ DOMAIN Placement!Positions = 1 .. 8
    /\ Placement!Positions[1] = "up" /\ Placement!Positions[2] = "down"
    /\ Placement!Positions[3] = "left" /\ Placement!Positions[4] = "right"
    /\ PlaceNames = {"up", "down", "left", "right", "up_left", "up_right", "down_left", "down_right"}
    /\ None \notin PlaceNames /\ Placement!Wanted = PlaceNames \cup {None}
    /\ Placement!Sides \subseteq PlaceNames
<1>1. /\ DOMAIN Placement!Positions = 1 .. 8
      /\ Placement!Positions[1] = "up" /\ Placement!Positions[2] = "down"
      /\ Placement!Positions[3] = "left" /\ Placement!Positions[4] = "right"
      /\ Placement!Positions[5] = "up_left" /\ Placement!Positions[6] = "up_right"
      /\ Placement!Positions[7] = "down_left" /\ Placement!Positions[8] = "down_right"
    BY DEF Placement!Positions
<1>2. PlaceNames = {Placement!Positions[1], Placement!Positions[2], Placement!Positions[3],
                    Placement!Positions[4], Placement!Positions[5], Placement!Positions[6],
                    Placement!Positions[7], Placement!Positions[8]}
    <2>1. DOMAIN Placement!Positions = {1, 2, 3, 4, 5, 6, 7, 8}
        BY <1>1
    <2> QED
        BY <2>1, Zenon DEF PlaceNames
<1>3. PlaceNames = {"up", "down", "left", "right", "up_left", "up_right", "down_left", "down_right"}
    BY <1>1, <1>2, Zenon
<1>4. None \notin PlaceNames
    BY PlacementAssumption, Zenon DEF PlaceNames
<1>5. Placement!Wanted = PlaceNames \cup {None}
    BY Zenon DEF Placement!Wanted, PlaceNames
<1>6. Placement!Sides \subseteq PlaceNames
    BY <1>3, Zenon DEF Placement!Sides
<1> QED
    BY <1>1, <1>3, <1>4, <1>5, <1>6, Zenon

(* The edges of the three files                                            *)
PlaceEdges == {Placement!DialogEdges, Placement!TipsEdges, Placement!ErrmsgEdges}

LEMMA PlaceGap == \A e \in PlaceEdges : Placement!Gap(e) \in Nat
    BY DEF PlaceEdges, Placement!Gap, Placement!DialogEdges, Placement!TipsEdges, Placement!ErrmsgEdges

LEMMA PlaceOffsets ==
    ASSUME NEW e, NEW g
    PROVE  /\ \A p \in {"up", "down"} :
                 Placement!OffsetLeft(e, g, p) = g.x + g.w \div 2 - g.bw \div 2
           /\ \A p \in {"left", "right"} :
                 Placement!OffsetTop(e, g, p) = g.y + g.h \div 2 - g.bh \div 2
           /\ Placement!OffsetLeft(e, g, "left") = g.x - g.bw - Placement!Gap(e)
           /\ Placement!OffsetLeft(e, g, "right") = g.x + g.w + Placement!Gap(e)
           /\ \A p \in {"up", "up_left", "up_right"} :
                 Placement!OffsetTop(e, g, p) = g.y - g.bh - Placement!Gap(e)
           /\ \A p \in {"down", "down_left", "down_right"} :
                 Placement!OffsetTop(e, g, p) = g.y + g.h + Placement!Gap(e)
    BY Zenon DEF Placement!OffsetLeft, Placement!OffsetTop

LEMMA PlacePasses ==
    ASSUME NEW e, NEW g
    PROVE  /\ Placement!Passes(e, g, "up") <=> Placement!UU(e, g) /\ Placement!LR(g)
           /\ Placement!Passes(e, g, "down") <=> Placement!DD(e, g) /\ Placement!LR(g)
           /\ Placement!Passes(e, g, "left") <=> Placement!LL(e, g) /\ Placement!UD(g)
           /\ Placement!Passes(e, g, "right") <=> Placement!RR(e, g) /\ Placement!UD(g)
    BY Zenon DEF Placement!Passes

(* At no position is the element covered.                                  *)
LEMMA PlaceBeside ==
    ASSUME NEW e \in PlaceEdges, NEW g \in PlaceGeometry, NEW p \in PlaceNames
    PROVE  ~Placement!Covers(g, Placement!Offset(e, g, p))
<1> DEFINE at == Placement!Offset(e, g, p)
<1>0. at.left = Placement!OffsetLeft(e, g, p) /\ at.top = Placement!OffsetTop(e, g, p)
    BY DEF Placement!Offset
<1> SUFFICES ~Placement!Covers(g, at)
    OBVIOUS
<1> HIDE DEF at
<1>1. /\ g.x \in Int /\ g.y \in Int /\ g.w \in Nat /\ g.h \in Nat /\ g.bw \in Nat /\ g.bh \in Nat
    BY PlaceNumbers
<1> PICK n \in Nat : n = Placement!Gap(e)
    BY PlaceGap
<1>2. CASE p = "left"
    <2>1. at.left = g.x - g.bw - n
        BY <1>0, <1>2, PlaceOffsets
    <2> QED
        BY <1>1, <2>1 DEF Placement!Covers
<1>3. CASE p = "right"
    <2>1. at.left = g.x + g.w + n
        BY <1>0, <1>3, PlaceOffsets
    <2> QED
        BY <1>1, <2>1 DEF Placement!Covers
<1>4. CASE p \in {"up", "up_left", "up_right"}
    <2>1. at.top = g.y - g.bh - n
        BY <1>0, <1>4, PlaceOffsets
    <2> QED
        BY <1>1, <2>1 DEF Placement!Covers
<1>5. CASE p \in {"down", "down_left", "down_right"}
    <2>1. at.top = g.y + g.h + n
        BY <1>0, <1>5, PlaceOffsets
    <2> QED
        BY <1>1, <2>1 DEF Placement!Covers
<1>6. p \in {"left", "right"} \cup {"up", "up_left", "up_right"}
           \cup {"down", "down_left", "down_right"}
    BY PlacePositions, Zenon
<1> QED
    BY <1>2, <1>3, <1>4, <1>5, <1>6, Zenon

(* A side passes its test when it has room, and what passes is inside.     *)
LEMMA PlaceRoom ==
    ASSUME NEW e \in PlaceEdges, NEW g \in PlaceGeometry, NEW p \in Placement!Sides
    PROVE  /\ Placement!HasRoom(g, Placement!Offset(e, g, p)) => Placement!Passes(e, g, p)
           /\ Placement!Passes(e, g, p) => Placement!Inside(g, Placement!Offset(e, g, p))
<1> DEFINE at == Placement!Offset(e, g, p)
           a == Placement!OffsetLeft(e, g, p)
           b == Placement!OffsetTop(e, g, p)
<1>1. at.left = a /\ at.top = b
    BY DEF Placement!Offset
<1> HIDE DEF at, a, b
<1> DEFINE rooms == a > 0 /\ a + g.bw < Screen /\ b > 0 /\ b + g.bh < Screen
           ins == a >= 0 /\ a + g.bw <= Screen /\ b >= 0 /\ b + g.bh <= Screen
<1>2. /\ g.x \in 0 .. Screen /\ g.y \in 0 .. Screen
      /\ g.w \in Nat /\ g.h \in Nat /\ g.bw \in Nat /\ g.bh \in Nat
      /\ g.w \div 2 \in Nat /\ g.h \div 2 \in Nat /\ g.bw \div 2 \in Nat /\ g.bh \div 2 \in Nat
      /\ g.bw = 2 * (g.bw \div 2) /\ g.bh = 2 * (g.bh \div 2) /\ Screen \in Nat
      /\ Placement!Gap(e) \in Nat
    BY PlaceNumbers, PlacementAssumption, PlaceGap
<1>3. ASSUME p = "up"
      PROVE  (rooms => Placement!Passes(e, g, p)) /\ (Placement!Passes(e, g, p) => ins)
    <2>1. a = g.x + g.w \div 2 - g.bw \div 2 /\ b = g.y - g.bh - Placement!Gap(e)
        BY <1>3, PlaceOffsets DEF a, b
    <2>2. Placement!Passes(e, g, p) <=> Placement!UU(e, g) /\ Placement!LR(g)
        BY <1>3, PlacePasses
    <2> QED
        BY <1>2, <2>1, <2>2
        DEF Placement!UU, Placement!LR
<1>4. ASSUME p = "down"
      PROVE  (rooms => Placement!Passes(e, g, p)) /\ (Placement!Passes(e, g, p) => ins)
    <2>1. a = g.x + g.w \div 2 - g.bw \div 2 /\ b = g.y + g.h + Placement!Gap(e)
        BY <1>4, PlaceOffsets DEF a, b
    <2>2. Placement!Passes(e, g, p) <=> Placement!DD(e, g) /\ Placement!LR(g)
        BY <1>4, PlacePasses
    <2> QED
        BY <1>2, <2>1, <2>2
        DEF Placement!DD, Placement!LR
<1>5. ASSUME p = "left"
      PROVE  (rooms => Placement!Passes(e, g, p)) /\ (Placement!Passes(e, g, p) => ins)
    <2>1. a = g.x - g.bw - Placement!Gap(e) /\ b = g.y + g.h \div 2 - g.bh \div 2
        BY <1>5, PlaceOffsets DEF a, b
    <2>2. Placement!Passes(e, g, p) <=> Placement!LL(e, g) /\ Placement!UD(g)
        BY <1>5, PlacePasses
    <2> QED
        BY <1>2, <2>1, <2>2
        DEF Placement!LL, Placement!UD
<1>6. ASSUME p = "right"
      PROVE  (rooms => Placement!Passes(e, g, p)) /\ (Placement!Passes(e, g, p) => ins)
    <2>1. a = g.x + g.w + Placement!Gap(e) /\ b = g.y + g.h \div 2 - g.bh \div 2
        BY <1>6, PlaceOffsets DEF a, b
    <2>2. Placement!Passes(e, g, p) <=> Placement!RR(e, g) /\ Placement!UD(g)
        BY <1>6, PlacePasses
    <2> QED
        BY <1>2, <2>1, <2>2
        DEF Placement!RR, Placement!UD
<1>7. (rooms => Placement!Passes(e, g, p)) /\ (Placement!Passes(e, g, p) => ins)
    BY <1>3, <1>4, <1>5, <1>6 DEF Placement!Sides
<1>8. (Placement!HasRoom(g, at) => rooms) /\ (ins => Placement!Inside(g, at))
    BY <1>1 DEF Placement!HasRoom, Placement!Inside
<1> QED
    BY <1>7, <1>8, Zenon DEF at

(* The position that is chosen                                             *)
LEMMA PlaceChosen ==
    ASSUME NEW e, NEW g, NEW wanted \in Placement!Wanted, NEW other,
           wanted = None => other \in PlaceNames, wanted # None => other \in {"down", wanted}
    PROVE  LET p == Placement!FirstOf(e, g, wanted, other)
           IN  /\ p \in PlaceNames
               /\ /\ wanted \in Placement!Sides \cup {None}
                  /\ \E q \in Placement!Sides : Placement!Passes(e, g, q)
                  => p \in Placement!Sides /\ Placement!Passes(e, g, p)
<1> DEFINE p == Placement!FirstOf(e, g, wanted, other)
           S == {i \in DOMAIN Placement!Positions : Placement!Passes(e, g, Placement!Positions[i])}
           m == CHOOSE i \in S : \A j \in S : i <= j
<1>1. p = CASE wanted # None /\ Placement!Passes(e, g, wanted) -> wanted
            [] S = {} -> other
            [] OTHER -> Placement!Positions[m]
    BY Zenon DEF Placement!FirstOf
<1>2. wanted \in PlaceNames \cup {None} /\ other \in PlaceNames
    <2>1. "down" \in PlaceNames /\ Placement!Wanted = PlaceNames \cup {None}
        BY PlacePositions, Zenon
    <2> QED
        BY <2>1, Zenon
<1>3. S # {} => m \in S /\ \A j \in S : m <= j
    <2>1. S \subseteq 1 .. 8
        BY PlacePositions
    <2> HIDE DEF S
    <2> SUFFICES ASSUME S # {}
                 PROVE  m \in S /\ \A j \in S : m <= j
        OBVIOUS
    <2>2. S \in SUBSET Nat
        BY <2>1
    <2>3. \E i \in S : \A j \in S : i <= j
        BY <2>2, SmallestNumber
    <2> QED
        BY <2>3, Zenon
<1>4. m \in S => Placement!Positions[m] \in PlaceNames /\ Placement!Passes(e, g, Placement!Positions[m])
    BY Zenon DEF PlaceNames
<1>5. ASSUME NEW q \in Placement!Sides, Placement!Passes(e, g, q)
      PROVE  \E i \in S : i \in 1 .. 4
    <2>1. \E i \in 1 .. 4 : Placement!Positions[i] = q
        BY PlacePositions, SMT DEF Placement!Sides
    <2>2. PICK i \in 1 .. 4 : Placement!Positions[i] = q
        BY <2>1
    <2>3. i \in DOMAIN Placement!Positions
        BY PlacePositions
    <2> QED
        BY <1>5, <2>2, <2>3
<1> HIDE DEF S, m, p
<1>6. p \in PlaceNames
    BY <1>1, <1>2, <1>3, <1>4, Zenon
<1>7. ASSUME wanted \in Placement!Sides \cup {None},
             NEW q \in Placement!Sides, Placement!Passes(e, g, q)
      PROVE  p \in Placement!Sides /\ Placement!Passes(e, g, p)
    <2>1. CASE wanted # None /\ Placement!Passes(e, g, wanted)
        <3>0. S # {}
            <4>1. wanted \in PlaceNames
                BY <1>2, <2>1
            <4> QED
                BY <2>1, <4>1, Zenon DEF PlaceNames, S
        <3>1. p = wanted
            BY <1>1, <2>1, <3>0, Zenon
        <3> QED
            BY <1>7, <2>1, <3>1, Zenon
    <2>2. CASE ~(wanted # None /\ Placement!Passes(e, g, wanted))
        <3>1. PICK i \in S : i \in 1 .. 4
            BY <1>5, <1>7
        <3>2. p = Placement!Positions[m]
            BY <1>1, <2>2, <3>1, Zenon
        <3>3. m \in S /\ m <= i
            BY <1>3, <3>1, Zenon
        <3>4. m \in 1 .. 8
            BY <3>3, PlacePositions DEF S
        <3>5. m \in 1 .. 4
            BY <3>1, <3>3, <3>4
        <3>6. Placement!Positions[m] \in Placement!Sides
            BY <3>5, PlacePositions, SMT DEF Placement!Sides
        <3> QED
            BY <1>4, <3>2, <3>3, <3>6, Zenon
    <2> QED
        BY <2>1, <2>2
<1> QED
    BY <1>6, <1>7, Zenon DEF p

PlaceCore == s1 \in PlaceGeometry /\ Placement!OpensInSight

LEMMA PlacementInit == Placement!Init => PlaceCore
<1> SUFFICES ASSUME Placement!Init
             PROVE  PlaceCore
    OBVIOUS
<1>1. s1 \in PlaceGeometry
    BY Zenon DEF Placement!Init, PlaceGeometry
<1>2. s2.who = "none"
    BY DEF Placement!Init
<1> QED
    BY <1>1, <1>2 DEF PlaceCore, Placement!OpensInSight

(* Where a dialog and a tip open                                           *)
LEMMA PlaceOpens ==
    ASSUME s1 \in PlaceGeometry, s1' = s1, NEW e \in PlaceEdges,
           NEW wanted \in Placement!Wanted, NEW other,
           wanted = None => other \in PlaceNames, wanted # None => other \in {"down", wanted},
           \/ s2'.who = "dialog" /\ e = Placement!DialogEdges
           \/ s2'.who = "tips" /\ e = Placement!TipsEdges,
           s2'.wanted = wanted,
           s2'.at = Placement!Offset(e, s1, Placement!FirstOf(e, s1, wanted, other))
    PROVE  PlaceCore'
<1> DEFINE p == Placement!FirstOf(e, s1, wanted, other)
           at == Placement!Offset(e, s1, p)
<1>1. /\ p \in PlaceNames
      /\ /\ wanted \in Placement!Sides \cup {None}
         /\ \E q \in Placement!Sides : Placement!Passes(e, s1, q)
         => p \in Placement!Sides /\ Placement!Passes(e, s1, p)
    BY PlaceChosen, Zenon
<1> HIDE DEF p
<1>2. ~Placement!Covers(s1, at)
    BY <1>1, PlaceBeside
<1>3. ASSUME wanted \in Placement!Sides \cup {None}, NEW q \in Placement!Sides,
             Placement!HasRoom(s1, Placement!Offset(e, s1, q))
      PROVE  Placement!Inside(s1, at)
    <2>1. Placement!Passes(e, s1, q)
        BY <1>3, PlaceRoom
    <2>2. p \in Placement!Sides /\ Placement!Passes(e, s1, p)
        BY <1>1, <1>3, <2>1
    <2> QED
        BY <2>2, PlaceRoom
<1>4. s2'.at = at
    BY DEF p
<1> HIDE DEF at
<1>5. s1' \in PlaceGeometry /\ s2'.who # "middle" /\ s2'.who # "errmsg"
    <2>1. "dialog" # "middle" /\ "tips" # "middle" /\ "dialog" # "errmsg" /\ "tips" # "errmsg"
        OBVIOUS
    <2> QED
        BY <2>1, Zenon
<1>6. /\ s2'.who = "dialog" => e = Placement!DialogEdges
      /\ s2'.who = "tips" => e = Placement!TipsEdges
    <2>1. "dialog" # "tips"
        OBVIOUS
    <2> QED
        BY <2>1, Zenon
<1>7. ~Placement!Covers(s1', s2'.at)
    BY <1>2, <1>4, Zenon
<1>8. /\ s2'.wanted \in Placement!Sides \cup {None}
      /\ \E q \in Placement!Sides : Placement!HasRoom(s1', Placement!Offset(e, s1', q))
      => Placement!Inside(s1', s2'.at)
    BY <1>3, <1>4, Zenon
<1> QED
    BY <1>5, <1>6, <1>7, <1>8, Zenon DEF PlaceCore, Placement!OpensInSight, Placement!RoomIsUsed

LEMMA PlacementStep ==
    ASSUME PlaceCore, Placement!Next \/ UNCHANGED Placement!vars
    PROVE  PlaceCore'
<1>1. s1 \in PlaceGeometry
    BY DEF PlaceCore
<1>2. ASSUME s1' = s1, NEW wanted \in Placement!Wanted, Placement!RelativePosition(wanted)
      PROVE  PlaceCore'
    <2> DEFINE e == Placement!DialogEdges
               o == Placement!Offset(e, s1, Placement!FirstOf(e, s1, wanted, "down"))
    <2>1. s2' = [who |-> "dialog", wanted |-> wanted, at |-> o]
        BY <1>2, Zenon DEF Placement!RelativePosition, Placement!CalculatePosition, Placement!GetOffset
    <2>2. s2'.who = "dialog" /\ s2'.wanted = wanted /\ s2'.at = o
        <3> HIDE DEF o
        <3> QED
            BY <2>1
    <2>3. "down" \in PlaceNames
        BY PlacePositions
    <2>4. e \in PlaceEdges
        BY Zenon DEF PlaceEdges
    <2> QED
        BY <1>1, <1>2, <2>2, <2>3, <2>4, PlaceOpens, Zenon
<1>3. ASSUME s1' = s1, NEW wanted \in Placement!Wanted, Placement!ResetTipsPosition(wanted)
      PROVE  PlaceCore'
    <2> DEFINE other == IF wanted = None THEN "down" ELSE wanted
               e == Placement!TipsEdges
               o == Placement!Offset(e, s1, Placement!FirstOf(e, s1, wanted, other))
    <2>1. s2' = [who |-> "tips", wanted |-> wanted, at |-> o]
        BY <1>3, Zenon DEF Placement!ResetTipsPosition, Placement!CalculateTipsPosition,
           Placement!GetTipsOffset
    <2>2. s2'.who = "tips" /\ s2'.wanted = wanted /\ s2'.at = o
        <3> HIDE DEF o
        <3> QED
            BY <2>1
    <2>3. (wanted = None => other \in PlaceNames) /\ (wanted # None => other \in {"down", wanted})
        BY PlacePositions
    <2>4. e \in PlaceEdges
        BY Zenon DEF PlaceEdges
    <2> HIDE DEF other
    <2> QED
        BY <1>1, <1>3, <2>2, <2>3, <2>4, PlaceOpens, Zenon
<1>4. ASSUME s1' = s1, NEW wanted \in Placement!Sides \cup {None}, Placement!ShowErrmsg(wanted)
      PROVE  PlaceCore'
    <2> DEFINE p == Placement!ValidatePosition(s1, wanted)
               at == Placement!ValidateOffset(s1, p)
    <2>1. s2' = [who |-> "errmsg", wanted |-> wanted, at |-> at]
        BY <1>4, Zenon DEF Placement!ShowErrmsg
    <2>2. p \in Placement!Sides
        <3> DEFINE order == <<"down", "up", "right", "left">>
                   S == {i \in DOMAIN order : Placement!ValidateFits(s1, order[i])}
                   m == CHOOSE i \in S : \A j \in S : i <= j
        <3>1. p = CASE wanted \in Placement!Sides -> wanted
                    [] wanted \notin Placement!Sides /\ S = {} -> "up"
                    [] OTHER -> order[m]
            BY Zenon DEF Placement!ValidatePosition
        <3>2. S \in SUBSET (1 .. 4) /\ S \in SUBSET Nat
            OBVIOUS
        <3>3. \A i \in 1 .. 4 : order[i] \in Placement!Sides
            BY DEF Placement!Sides
        <3>4. "up" \in Placement!Sides
            BY DEF Placement!Sides
        <3> HIDE DEF order, S
        <3>5. S # {} => m \in S
            <4> SUFFICES ASSUME S # {}
                         PROVE  m \in S
                OBVIOUS
            <4>1. \E i \in S : \A j \in S : i <= j
                BY <3>2, SmallestNumber
            <4> QED
                BY <4>1, Zenon
        <3> HIDE DEF m, p
        <3>6. S # {} => order[m] \in Placement!Sides
            BY <3>2, <3>3, <3>5
        <3> QED
            BY <3>1, <3>4, <3>6, Zenon
    <2> HIDE DEF p
    <2>4. s2'.who = "errmsg" /\ s2'.at = at
        <3> HIDE DEF at
        <3> QED
            BY <2>1
    <2>5. ~Placement!Covers(s1, at)
        <3>1. p \in PlaceNames
            BY <2>2, PlacePositions
        <3>2. Placement!ErrmsgEdges \in PlaceEdges
            BY Zenon DEF PlaceEdges
        <3> QED
            BY <1>1, <3>1, <3>2, PlaceBeside, Zenon DEF Placement!ValidateOffset
    <2> HIDE DEF at
    <2>6. "errmsg" # "middle" /\ "errmsg" # "dialog" /\ "errmsg" # "tips"
        OBVIOUS
    <2> QED
        BY <1>1, <1>4, <2>4, <2>5, <2>6, Zenon DEF PlaceCore, Placement!OpensInSight
<1>5. ASSUME s1' = s1, Placement!MiddlePosition
      PROVE  PlaceCore'
    <2> DEFINE a == Placement!Cut(Screen - s1.bw, 2)
               b == Placement!Cut(Screen - s1.bh, 3)
    <2>1. s2' = [who |-> "middle", wanted |-> None, at |-> [left |-> a, top |-> b]]
        BY <1>5, Zenon DEF Placement!MiddlePosition
    <2>2. s2'.who = "middle" /\ s2'.at.left = a /\ s2'.at.top = b
        <3> HIDE DEF a, b
        <3> QED
            BY <2>1
    <2>3. s1.bw <= Screen /\ s1.bh <= Screen =>
             a >= 0 /\ a + s1.bw <= Screen /\ b >= 0 /\ b + s1.bh <= Screen
        BY <1>1, PlaceNumbers, PlacementAssumption DEF Placement!Cut
    <2> HIDE DEF a, b
    <2>4. s1.bw <= Screen /\ s1.bh <= Screen => Placement!Inside(s1, s2'.at)
        BY <2>2, <2>3, Zenon DEF Placement!Inside
    <2>5. "middle" # "errmsg" /\ "middle" # "dialog" /\ "middle" # "tips"
        OBVIOUS
    <2> QED
        BY <1>1, <1>5, <2>2, <2>4, <2>5, Zenon DEF PlaceCore, Placement!OpensInSight
<1>6. CASE UNCHANGED Placement!vars
    <2>1. s1' = s1 /\ s2' = s2
        BY <1>6 DEF Placement!vars
    <2> QED
        BY <2>1, Zenon DEF PlaceCore, Placement!OpensInSight, Placement!RoomIsUsed
<1> QED
    BY <1>2, <1>3, <1>4, <1>5, <1>6, Zenon DEF Placement!Next
-----------------------------------------------------------------------------
(* Questions                                                               *)
(* The dialogs of the three kinds, as everything but Init sees them        *)
LEMMA PromptsTypes ==
    ASSUME Prompts!Inv
    PROVE  /\ Prompts!TypeOK
           /\ \A k \in Prompts!Kinds :
                 /\ s1[k].made \in BOOLEAN /\ s1[k].vis \in BOOLEAN /\ s1[k].empty \in BOOLEAN
                 /\ s1[k].typed \in BOOLEAN /\ s1[k].text \in Prompts!Asked \cup {0}
                 /\ s1[k].ok \in Prompts!Asked \cup {0} /\ s1[k].cross \subseteq Prompts!Asked
    BY DEF Prompts!Inv, Prompts!TypeOK, Prompts!NoneYet

LEMMA PromptsInit == Prompts!Init => Prompts!Inv
<1> SUFFICES ASSUME Prompts!Init
             PROVE  Prompts!Inv
    OBVIOUS
<1> USE PromptsAssumption DEF Prompts!Init
<1>1. \A k \in Prompts!Kinds : s1[k].vis = FALSE /\ s1[k].empty = FALSE
    OBVIOUS
<1>2. Prompts!TypeOK
    <2>1. s2 \in BOOLEAN
        OBVIOUS
    <2>2. s3 \in 0 .. MaxAsked /\ s4 \subseteq Prompts!Asked
        OBVIOUS
    <2> QED
        BY <2>1, <2>2 DEF Prompts!TypeOK, Prompts!NoneYet
<1> QED
    BY <1>1, <1>2 DEF Prompts!Inv, Prompts!Kinds, Prompts!AnswersWhatWasRead

(* A question that is asked                                                *)
LEMMA PromptsAsk ==
    ASSUME Prompts!Inv, Prompts!Ask, NEW k \in Prompts!Kinds, NEW b, Prompts!Open(k, b),
           b \in [made : BOOLEAN, vis : BOOLEAN, text : Prompts!Asked \cup {0},
                  empty : BOOLEAN, typed : BOOLEAN, ok : Prompts!Asked \cup {0},
                  cross : SUBSET Prompts!Asked],
           b.text = s3 + 1, b.ok = s1[k].ok, b.vis = s1[k].vis, k = "confirm" => ~b.empty
    PROVE  Prompts!Inv'
<1> USE PromptsAssumption
<1>1. s3 + 1 \in Prompts!Asked /\ s3' = s3 + 1 /\ s2' = s2 /\ s5' = s5
    BY DEF Prompts!Inv, Prompts!TypeOK, Prompts!Ask, Prompts!Asked
<1>2. PICK c : /\ s1' = [s1 EXCEPT ![k] = c]
               /\ c \in [made : BOOLEAN, vis : BOOLEAN, text : Prompts!Asked \cup {0},
                         empty : BOOLEAN, typed : BOOLEAN, ok : Prompts!Asked \cup {0},
                         cross : SUBSET Prompts!Asked]
               /\ c.text = s3 + 1 /\ (k = "confirm" => ~c.empty)
               /\ \/ s4' = s4 /\ c.ok = c.text
                  \/ s4' = s4 \cup {s3 + 1} /\ c.ok = s1[k].ok /\ c.vis = s1[k].vis
    <2>1. CASE s2
        BY <2>1 DEF Prompts!Open
    <2>2. CASE ~s2
        <3> DEFINE c == [b EXCEPT !.made = TRUE, !.vis = TRUE, !.ok = s3 + 1]
        <3>1. s1' = [s1 EXCEPT ![k] = c] /\ s4' = s4
            BY <2>2 DEF Prompts!Open
        <3>2. c \in [made : BOOLEAN, vis : BOOLEAN, text : Prompts!Asked \cup {0},
                     empty : BOOLEAN, typed : BOOLEAN, ok : Prompts!Asked \cup {0},
                     cross : SUBSET Prompts!Asked]
              /\ c.text = s3 + 1 /\ c.ok = s3 + 1 /\ c.empty = b.empty
            BY <1>1
        <3> HIDE DEF c
        <3> QED
            BY <3>1, <3>2
    <2> QED
        BY <2>1, <2>2
<1>3. Prompts!TypeOK'
    <2>1. s1' \in [Prompts!Kinds -> [made : BOOLEAN, vis : BOOLEAN, text : Prompts!Asked \cup {0},
                                    empty : BOOLEAN, typed : BOOLEAN, ok : Prompts!Asked \cup {0},
                                    cross : SUBSET Prompts!Asked]]
        BY <1>2 DEF Prompts!Inv, Prompts!TypeOK, Prompts!NoneYet
    <2>2. s4' \subseteq Prompts!Asked
        BY <1>1, <1>2 DEF Prompts!Inv, Prompts!TypeOK
    <2>3. s3' \in 0 .. MaxAsked
        BY <1>1 DEF Prompts!Asked
    <2> QED
        BY <1>1, <2>1, <2>2, <2>3, Zenon DEF Prompts!Inv, Prompts!TypeOK, Prompts!NoneYet
<1>4. s1'[k] = c /\ \A j \in Prompts!Kinds \ {k} : s1'[j] = s1[j]
    BY <1>2 DEF Prompts!Inv, Prompts!TypeOK
<1>5. s4 \subseteq s4'
    BY <1>2
<1>6. Prompts!AnswersWhatWasRead'
    BY <1>1, <1>5 DEF Prompts!Inv, Prompts!AnswersWhatWasRead
<1>7. c.vis => c.ok \in Prompts!Asked /\ (c.ok = c.text \/ c.text \in s4')
    BY <1>1, <1>2 DEF Prompts!Inv
<1>8. ~s1'["confirm"].empty
    BY <1>2, <1>4 DEF Prompts!Inv, Prompts!Kinds
<1> QED
    BY <1>3, <1>4, <1>5, <1>6, <1>7, <1>8 DEF Prompts!Inv

(* A dialog that is answered, or that the user writes in                   *)
LEMMA PromptsHear ==
    ASSUME Prompts!Inv, NEW k \in Prompts!Kinds, NEW how \in {"button", "cancel", "cross"},
           NEW whose, Prompts!Shut(k), Prompts!Hear(k, whose, how),
           UNCHANGED <<s2, s3, s4>>, whose \subseteq Prompts!Asked,
           how # "cross" => whose = {s1[k].ok} /\ ~(s1[k].empty /\ ~s1[k].typed)
    PROVE  Prompts!Inv'
<1>1. s1[k].vis /\ s1' = [s1 EXCEPT ![k] = [s1[k] EXCEPT !.vis = FALSE]]
    BY DEF Prompts!Shut
<1>2. /\ s1'[k] = [s1[k] EXCEPT !.vis = FALSE] /\ \A j \in Prompts!Kinds \ {k} : s1'[j] = s1[j]
      /\ s1' \in [Prompts!Kinds -> [made : BOOLEAN, vis : BOOLEAN, text : Prompts!Asked \cup {0},
                                    empty : BOOLEAN, typed : BOOLEAN, ok : Prompts!Asked \cup {0},
                                    cross : SUBSET Prompts!Asked]]
    BY <1>1, ZenonT(60) DEF Prompts!Inv, Prompts!TypeOK, Prompts!NoneYet
<1>3. \A h \in s5' : h \in s5 \/ \E q \in whose : /\ h.whose = q /\ h.how = how
                                                /\ h.saw = s1[k].text
                                                /\ h.blank = (s1[k].empty /\ ~s1[k].typed)
    BY DEF Prompts!Hear
<1>4. Prompts!TypeOK'
    BY <1>2, <1>3 DEF Prompts!Inv, Prompts!TypeOK, Prompts!NoneYet
<1>5. Prompts!AnswersWhatWasRead'
    BY <1>1, <1>3 DEF Prompts!Inv, Prompts!AnswersWhatWasRead
<1>6. ~s1'[k].vis /\ s1'[k].empty = s1[k].empty
    BY <1>2 DEF Prompts!Inv, Prompts!TypeOK
<1> QED
    BY <1>2, <1>4, <1>5, <1>6 DEF Prompts!Inv, Prompts!Kinds

LEMMA PromptsStep ==
    ASSUME Prompts!Inv, Prompts!Next \/ UNCHANGED Prompts!vars
    PROVE  Prompts!Inv'
<1> DEFINE R == [made : BOOLEAN, vis : BOOLEAN, text : Prompts!Asked \cup {0},
                 empty : BOOLEAN, typed : BOOLEAN, ok : Prompts!Asked \cup {0},
                 cross : SUBSET Prompts!Asked]
<1>1. CASE UNCHANGED Prompts!vars
    BY <1>1 DEF Prompts!vars, Prompts!Inv, Prompts!TypeOK, Prompts!AnswersWhatWasRead
<1>2. ASSUME NEW k \in Prompts!Kinds, NEW empty \in BOOLEAN, Prompts!Ask
      PROVE  LET b == Prompts!Content(k, empty)
             IN  b \in R /\ b.text = s3 + 1 /\ b.ok = s1[k].ok /\ b.vis = s1[k].vis /\ b.empty = empty
                 /\ b.cross = s1[k].cross /\ s3 + 1 \in Prompts!Asked
    <2>1. s1[k] \in R
        BY DEF Prompts!Inv, Prompts!TypeOK, Prompts!NoneYet
    <2>2. s3 + 1 \in Prompts!Asked
        BY <1>2, PromptsAssumption DEF Prompts!Inv, Prompts!TypeOK, Prompts!Ask, Prompts!Asked
    <2> QED
        BY <2>1, <2>2 DEF Prompts!Content
<1>3. CASE Prompts!Alert
    BY <1>2, <1>3, PromptsAsk DEF Prompts!Alert, Prompts!Kinds
<1>4. CASE Prompts!Confirm
    <2> DEFINE b == Prompts!Content("confirm", FALSE)
               d == [b EXCEPT !.cross = @ \cup {s3 + 1}]
    <2>1. b \in R /\ b.text = s3 + 1 /\ b.ok = s1["confirm"].ok /\ b.vis = s1["confirm"].vis
          /\ b.empty = FALSE /\ s3 + 1 \in Prompts!Asked /\ Prompts!Ask
        BY <1>2, <1>4 DEF Prompts!Confirm, Prompts!Kinds
    <2>2. Prompts!Open("confirm", b) \/ Prompts!Open("confirm", d)
        BY <1>4, Zenon DEF Prompts!Confirm
    <2> HIDE DEF b
    <2>3. d \in R /\ d.text = b.text /\ d.ok = b.ok /\ d.vis = b.vis /\ d.empty = b.empty
        BY <2>1
    <2> HIDE DEF d
    <2> QED
        BY <2>1, <2>2, <2>3, PromptsAsk DEF Prompts!Kinds
<1>5. CASE Prompts!Prompt
    BY <1>2, <1>5, PromptsAsk DEF Prompts!Prompt, Prompts!Kinds
<1>6. CASE Prompts!ClickCancel
    BY <1>6, PromptsHear DEF Prompts!ClickCancel, Prompts!Kinds, Prompts!Shut, Prompts!Inv
<1>7. CASE Prompts!Type
    BY <1>7 DEF Prompts!Type, Prompts!Kinds, Prompts!Inv, Prompts!TypeOK, Prompts!NoneYet, Prompts!AnswersWhatWasRead
<1>8. CASE Prompts!Animate
    BY <1>8 DEF Prompts!Animate, Prompts!Inv, Prompts!TypeOK, Prompts!AnswersWhatWasRead
<1>9. ASSUME NEW k \in Prompts!Kinds, Prompts!ClickOk(k)
      PROVE  Prompts!Inv'
    BY <1>9, PromptsHear DEF Prompts!ClickOk, Prompts!Shut, Prompts!Inv
<1>10. ASSUME NEW k \in Prompts!Kinds, Prompts!ClickCross(k)
       PROVE  Prompts!Inv'
    <2> DEFINE whose == CASE k = "alert" -> {s1[k].ok} [] k = "confirm" -> s1[k].cross
                          [] k = "prompt" -> {}
    <2>1. Prompts!Shut(k) /\ Prompts!Hear(k, whose, "cross") /\ UNCHANGED <<s2, s3, s4>>
        BY <1>10, Zenon DEF Prompts!ClickCross
    <2>2. s1[k].ok \in Prompts!Asked /\ s1[k].cross \subseteq Prompts!Asked
        BY <2>1, PromptsTypes DEF Prompts!Shut, Prompts!Inv
    <2>3. whose \subseteq Prompts!Asked
        BY <2>2 DEF Prompts!Kinds
    <2> HIDE DEF whose
    <2> QED
        BY <2>1, <2>3, PromptsHear
<1> QED
    BY <1>1, <1>3, <1>4, <1>5, <1>6, <1>7, <1>8, <1>9, <1>10 DEF Prompts!Next
-----------------------------------------------------------------------------
(* Calendars                                                               *)
(* Sequences of one element and of two                                     *)
LEMMA PairOf ==
    ASSUME NEW S, NEW d \in S, NEW e \in S
    PROVE  /\ <<d>> \in Seq(S) /\ Len(<<d>>) = 1 /\ <<d>>[1] = d
           /\ <<d, e>> \in Seq(S) /\ Len(<<d, e>>) = 2 /\ <<d, e>>[1] = d /\ <<d, e>>[2] = e
           /\ Append(<<d>>, e) = <<d, e>> /\ <<d>> # <<>> /\ <<d, e>> # <<>>
<1>1. <<d>> \in Seq(S) /\ Len(<<d>>) = 1 /\ <<d>>[1] = d
    OBVIOUS
<1>2. <<d, e>> \in Seq(S) /\ Len(<<d, e>>) = 2 /\ <<d, e>>[1] = d /\ <<d, e>>[2] = e
    OBVIOUS
<1>3. /\ Append(<<d>>, e) \in Seq(S) /\ Len(Append(<<d>>, e)) = 2
      /\ Append(<<d>>, e)[1] = d /\ Append(<<d>>, e)[2] = e
    BY <1>1, AppendProperties
<1>4. \A i \in 1 .. 2 : Append(<<d>>, e)[i] = <<d, e>>[i]
    BY <1>2, <1>3
<1>5. \A s, t \in Seq(S) : Len(s) = Len(t) /\ (\A i \in 1 .. Len(s) : s[i] = t[i]) => s = t
    BY SeqEqual
<1>6. Append(<<d>>, e) = <<d, e>>
    BY <1>2, <1>3, <1>4, <1>5, Zenon
<1>7. <<d>> # <<>> /\ <<d, e>> # <<>>
    OBVIOUS
<1> QED
    BY <1>1, <1>2, <1>6, <1>7, Zenon


(* The object of a field that has a day or a range                         *)
CalendarObject ==
    [shown : BOOLEAN, mouseover : BOOLEAN, rangeArr : Seq(Calendar!Days),
     val : Seq(Calendar!Days \cup {Calendar!Bad}), date : Calendar!Days \cup {0},
     startDate : Calendar!Days \cup {0, Calendar!Bad}, endDate : Calendar!Days \cup {0}]
CalendarFits(c, kind, o) ==
    c \in CalendarObject /\ o \in Calendar!Options /\ Calendar!Fits(c, kind, o)

(* A range that is whole fits whatever was given.                          *)
LEMMA CalendarWhole ==
    ASSUME NEW c \in CalendarObject, NEW d \in Calendar!Days, NEW e \in Calendar!Days
    PROVE  LET w == Calendar!Whole(c, Calendar!Sorted(d, e))
           IN  /\ w \in CalendarObject /\ Calendar!Ranged(w) /\ Len(w.rangeArr) = 2
               /\ w.shown = c.shown /\ w.rangeArr # <<>>
<1> DEFINE r == Calendar!Sorted(d, e)
           w == Calendar!Whole(c, r)
<1>1. PICK a \in Calendar!Days, b \in Calendar!Days : a <= b /\ r = <<a, b>>
    BY CalendarAssumption DEF Calendar!Sorted, Calendar!Days
<1> HIDE DEF r
<1>2. r \in Seq(Calendar!Days) /\ r \in Seq(Calendar!Days \cup {Calendar!Bad})
      /\ Len(r) = 2 /\ r[1] = a /\ r[2] = b
    BY <1>1
<1>3. /\ w \in CalendarObject /\ w.rangeArr = r /\ w.val = r /\ w.startDate = a /\ w.endDate = b
      /\ w.shown = c.shown
    BY <1>2 DEF Calendar!Whole, CalendarObject
<1> HIDE DEF w
<1>4. Calendar!Ranged(w)
    BY <1>1, <1>3, Zenon DEF Calendar!Ranged
<1>5. w.rangeArr # <<>>
    BY <1>1, <1>3, PairOf
<1>6. w \in CalendarObject /\ Calendar!Ranged(w) /\ Len(w.rangeArr) = 2 /\ w.shown = c.shown
      /\ w.rangeArr # <<>>
    BY <1>2, <1>3, <1>4, <1>5
<1> QED
    BY <1>6 DEF w, r

(* The three forms of a range that was given                               *)
LEMMA CalendarGiven ==
    ASSUME NEW c, NEW o \in Calendar!Options, ~Calendar!EndOnly(o), Calendar!AsGiven(c, o)
    PROVE  \/ c.val = <<>> /\ c.startDate = 0 /\ c.endDate = 0 /\ {o} \cap (Calendar!Days \X Calendar!Days) = {}
           \/ \E d \in Calendar!Days : /\ c.val = <<d>> /\ c.startDate = d /\ c.endDate = 0
                                       /\ {o} \cap (Calendar!Days \X Calendar!Days) = {}
           \/ \E d, e \in Calendar!Days : /\ c.val = <<d, e>> /\ c.startDate = d /\ c.endDate = e
                                          /\ o = <<d, e>>
<1>1. 0 \notin Calendar!Days
    BY DEF Calendar!Days
<1>2. PICK d \in Calendar!Days \cup {0}, e \in Calendar!Days \cup {0} : o = <<d, e>>
    BY DEF Calendar!Options, Calendar!NoDay
<1>3. o[1] = d /\ o[2] = e
    BY <1>2
<1>4. /\ d = 0 => e = 0
      /\ c.startDate = d /\ c.endDate = e
      /\ d # 0 /\ e # 0 => c.val = <<d, e>>
      /\ d # 0 /\ e = 0 => c.val = <<d>>
      /\ d = 0 /\ e = 0 => c.val = <<>>
    BY <1>2, <1>3 DEF Calendar!EndOnly, Calendar!AsGiven, Calendar!Text, Calendar!NoDay
<1>5. d = 0 \/ e = 0 => {o} \cap (Calendar!Days \X Calendar!Days) = {}
    BY <1>1, <1>2
<1>6. CASE d # 0 /\ e # 0
    BY <1>2, <1>4, <1>6, Zenon
<1>7. CASE d # 0 /\ e = 0
    BY <1>4, <1>5, <1>7, Zenon
<1>8. CASE d = 0
    BY <1>4, <1>5, <1>8
<1> QED
    BY <1>6, <1>7, <1>8

(* A range that is not begun has no day in its list, or two.               *)
LEMMA CalendarLengths ==
    ASSUME NEW c, NEW kind, NEW o, CalendarFits(c, kind, o)
    PROVE  /\ Len(c.rangeArr) = 1 => kind = "range"
           /\ kind = "range" /\ ~Calendar!EndOnly(o) =>
                 /\ Len(c.rangeArr) = 1 <=> Calendar!Begun(c)
                 /\ c.val # <<>> => c.val[1] # Calendar!Bad
                 /\ Len(c.rangeArr) = 1 => c.val # <<>>
<1>1. c \in CalendarObject /\ o \in Calendar!Options /\ Calendar!Fits(c, kind, o)
    BY DEF CalendarFits
<1>2. Calendar!Bad \notin Calendar!Days
    BY CalendarAssumption DEF Calendar!Days, Calendar!Bad
<1>3. ASSUME NEW d \in Calendar!Days, NEW e \in Calendar!Days
      PROVE  /\ Len(<<d>>) = 1 /\ Len(<<d, e>>) = 2 /\ Len(<<>>) = 0 /\ <<d>> # <<>>
             /\ <<d>>[1] = d /\ <<d, e>>[1] = d
    OBVIOUS
<1>4. Calendar!Begun(c) => /\ Len(c.rangeArr) = 1 /\ c.val # <<>> /\ c.val[1] # Calendar!Bad
    BY <1>2, <1>3 DEF Calendar!Begun
<1>5. Calendar!Ranged(c) => /\ Len(c.rangeArr) # 1 /\ c.val[1] # Calendar!Bad
    <2>1. SUFFICES ASSUME NEW d \in Calendar!Days, NEW e \in Calendar!Days,
                          c.val = <<d, e>>, c.rangeArr = <<d, e>>
                   PROVE  Len(c.rangeArr) # 1 /\ c.val[1] # Calendar!Bad
        BY Zenon DEF Calendar!Ranged
    <2> QED
        BY <1>2, <1>3, <2>1
<1>6. ASSUME Calendar!Given(c, o), ~Calendar!EndOnly(o)
      PROVE  Len(c.rangeArr) # 1 /\ (c.val # <<>> => c.val[1] # Calendar!Bad)
    <2>1. Calendar!AsGiven(c, o) /\ c.rangeArr \in {<<>>} \cup ({o} \cap (Calendar!Days \X Calendar!Days))
        BY <1>6 DEF Calendar!Given
    <2>2. CASE c.val = <<>> /\ {o} \cap (Calendar!Days \X Calendar!Days) = {}
        <3>1. c.rangeArr = <<>>
            BY <2>1, <2>2
        <3> QED
            BY <2>2, <3>1
    <2>3. CASE \E d \in Calendar!Days : c.val = <<d>> /\ {o} \cap (Calendar!Days \X Calendar!Days) = {}
        <3>1. c.rangeArr = <<>>
            BY <2>1, <2>3
        <3> QED
            BY <1>2, <1>3, <2>3, <3>1
    <2>4. CASE \E d, e \in Calendar!Days : c.val = <<d, e>> /\ o = <<d, e>>
        <3>1. PICK d \in Calendar!Days, e \in Calendar!Days : c.val = <<d, e>> /\ o = <<d, e>>
            BY <2>4
        <3>2. c.rangeArr = <<>> \/ c.rangeArr = <<d, e>>
            BY <2>1, <3>1
        <3>3. Len(<<>>) # 1 /\ Len(<<d, e>>) # 1
            BY <1>3
        <3>4. Len(c.rangeArr) # 1
            BY <3>2, <3>3, Zenon
        <3> QED
            BY <1>2, <1>3, <3>1, <3>4
    <2> QED
        BY <1>1, <1>6, <2>1, <2>2, <2>3, <2>4, CalendarGiven
<1>7. kind # "range" => Len(c.rangeArr) # 1
    <2>1. Len(<<>>) # 1
        OBVIOUS
    <2> QED
        BY <1>1, <2>1, Zenon DEF Calendar!Fits
<1> QED
    BY <1>1, <1>4, <1>5, <1>6, <1>7 DEF Calendar!Fits

LEMMA CalendarHidden ==
    ASSUME NEW c, NEW kind, NEW o, CalendarFits(c, kind, o)
    PROVE  LET h == Calendar!Hidden(c, kind)
           IN  CalendarFits(h, kind, o) /\ Len(h.rangeArr) # 1 /\ ~h.shown
<1> DEFINE t == IF kind = "range" /\ Len(c.rangeArr) = 1
                THEN Calendar!Whole(c, Calendar!Sorted(c.rangeArr[1], Today)) ELSE c
           h == [t EXCEPT !.shown = FALSE,
                          !.val = IF c.val = <<>> \/ c.val[1] = Calendar!Bad THEN <<>> ELSE @]
<1>0. c \in CalendarObject /\ o \in Calendar!Options /\ Calendar!Fits(c, kind, o)
    BY DEF CalendarFits
<1>1. /\ t \in CalendarObject /\ Len(t.rangeArr) # 1
      /\ \/ t = c
         \/ Calendar!Ranged(t) /\ t.rangeArr # <<>> /\ kind = "range" /\ Len(c.rangeArr) = 1
    <2>1. CASE kind = "range" /\ Len(c.rangeArr) = 1
        <3>1. c.rangeArr[1] \in Calendar!Days /\ Today \in Calendar!Days
            BY <1>0, <2>1, CalendarAssumption DEF Calendar!Days, CalendarObject
        <3>2. t = Calendar!Whole(c, Calendar!Sorted(c.rangeArr[1], Today))
            BY <2>1
        <3> HIDE DEF t
        <3>3. t \in CalendarObject /\ Calendar!Ranged(t) /\ Len(t.rangeArr) = 2 /\ t.rangeArr # <<>>
            BY <1>0, <3>1, <3>2, CalendarWhole
        <3> QED
            BY <2>1, <3>3
    <2>2. CASE ~(kind = "range" /\ Len(c.rangeArr) = 1)
        BY <1>0, <2>2, CalendarLengths
    <2> QED
        BY <2>1, <2>2
<1> HIDE DEF t
<1>2. h \in CalendarObject /\ h.rangeArr = t.rangeArr /\ ~h.shown
      /\ h.startDate = t.startDate /\ h.endDate = t.endDate
      /\ (c.val # <<>> /\ c.val[1] # Calendar!Bad => h.val = t.val) /\ (c.val = <<>> => h.val = <<>>)
    <2> DEFINE v == IF c.val = <<>> \/ c.val[1] = Calendar!Bad THEN <<>> ELSE t.val
    <2>2. <<>> \in Seq(Calendar!Days \cup {Calendar!Bad})
        OBVIOUS
    <2>3. v \in Seq(Calendar!Days \cup {Calendar!Bad})
        BY <1>1, <2>2 DEF CalendarObject
    <2>4. h = [t EXCEPT !.shown = FALSE, !.val = v]
        OBVIOUS
    <2>5. (c.val # <<>> /\ c.val[1] # Calendar!Bad => v = t.val) /\ (c.val = <<>> => v = <<>>)
        OBVIOUS
    <2> HIDE DEF v, h
    <2> QED
        BY <1>1, <2>3, <2>4, <2>5 DEF CalendarObject
<1> HIDE DEF h
<1>3. ASSUME kind = "range", ~Calendar!EndOnly(o)
      PROVE  Calendar!Given(h, o) \/ Calendar!Begun(h) \/ Calendar!Ranged(h)
    <2>1. h.val = t.val
        BY <1>0, <1>1, <1>2, <1>3, CalendarLengths
    <2>2. CASE t = c
        <3>1. Calendar!Given(c, o) \/ Calendar!Begun(c) \/ Calendar!Ranged(c)
            BY <1>0, <1>3, Zenon DEF Calendar!Fits
        <3> QED
            BY <1>2, <2>1, <2>2, <3>1 DEF Calendar!Given, Calendar!AsGiven, Calendar!Begun, Calendar!Ranged
    <2>3. CASE Calendar!Ranged(t)
        BY <1>2, <2>1, <2>3 DEF Calendar!Ranged
    <2> QED
        BY <1>1, <2>2, <2>3
<1>4. kind = "range" /\ Calendar!EndOnly(o) => Calendar!Loose(h)
    BY <1>0, <1>1, <1>2, Zenon DEF Calendar!Fits, Calendar!Loose
<1>5. kind # "range" => h.rangeArr = <<>>
    BY <1>0, <1>1, <1>2, Zenon DEF Calendar!Fits
<1>6. CalendarFits(h, kind, o) /\ Len(h.rangeArr) # 1 /\ ~h.shown
    BY <1>0, <1>1, <1>2, <1>3, <1>4, <1>5, Zenon DEF CalendarFits, Calendar!Fits
<1> QED
    BY <1>6 DEF h, t, Calendar!Hidden

LEMMA CalendarDrawn ==
    ASSUME NEW c, NEW kind, NEW o, CalendarFits(c, kind, o)
    PROVE  LET t == Calendar!DrawTimeBox(c, kind)
           IN  /\ CalendarFits(t, kind, o) /\ t.shown = c.shown
               /\ kind = "range" => Calendar!Drawn(t)
<1>0. c \in CalendarObject /\ o \in Calendar!Options /\ Calendar!Fits(c, kind, o)
    BY DEF CalendarFits
<1> DEFINE t == Calendar!DrawTimeBox(c, kind)
           r == IF c.startDate # 0 /\ c.rangeArr = <<>> THEN <<c.startDate>> ELSE c.rangeArr
           a == IF c.endDate # 0 /\ Len(r) < 2 THEN Append(r, c.endDate) ELSE r
<1>1. CASE kind # "range"
    <2>1. t = c
        BY <1>1 DEF Calendar!DrawTimeBox
    <2> QED
        BY <1>1, <2>1
<1>2. CASE kind = "range"
    <2>1. t = [c EXCEPT !.rangeArr = a]
        BY <1>2, Zenon DEF Calendar!DrawTimeBox, Calendar!NoDay
    <2>2. c.startDate = Calendar!Bad => c.rangeArr # <<>>
        <3>1. CASE Calendar!EndOnly(o)
            BY <1>0, <1>2, <3>1 DEF Calendar!Fits, Calendar!Loose
        <3>2. CASE ~Calendar!EndOnly(o)
            <4>1. Calendar!Bad \notin Calendar!Days \cup {0}
                BY CalendarAssumption DEF Calendar!Days, Calendar!Bad
            <4>2. Calendar!Given(c, o) => c.startDate \in Calendar!Days \cup {0}
                BY <1>0, <3>2, CalendarGiven DEF Calendar!Given
            <4>3. Calendar!Begun(c) \/ Calendar!Ranged(c) => c.startDate \in Calendar!Days
                BY DEF Calendar!Begun, Calendar!Ranged
            <4> QED
                BY <1>0, <1>2, <3>2, <4>1, <4>2, <4>3 DEF Calendar!Fits
        <3> QED
            BY <3>1, <3>2
    <2>3. r \in Seq(Calendar!Days) /\ (c.startDate # 0 \/ c.rangeArr # <<>> => r # <<>>)
        <3>1. CASE c.startDate # 0 /\ c.rangeArr = <<>>
            <4>1. c.startDate \in Calendar!Days
                BY <1>0, <2>2, <3>1 DEF CalendarObject
            <4> QED
                BY <3>1, <4>1, PairOf
        <3>2. CASE ~(c.startDate # 0 /\ c.rangeArr = <<>>)
            BY <1>0, <3>2 DEF CalendarObject
        <3> QED
            BY <3>1, <3>2
    <2>4. (c.rangeArr # <<>> => r = c.rangeArr) /\ (c.startDate = 0 => r = c.rangeArr)
        OBVIOUS
    <2>5. c.startDate # 0 /\ c.rangeArr = <<>> => r = <<c.startDate>>
        OBVIOUS
    <2> HIDE DEF r
    <2>6. a \in Seq(Calendar!Days) /\ (r # <<>> => a # <<>>) /\ (c.endDate = 0 \/ Len(r) >= 2 => a = r)
          /\ (c.endDate # 0 => a # <<>>)
        <3>1. CASE c.endDate # 0 /\ Len(r) < 2
            <4>1. c.endDate \in Calendar!Days /\ a = Append(r, c.endDate)
                BY <1>0, <3>1 DEF CalendarObject
            <4>2. Append(r, c.endDate) \in Seq(Calendar!Days) /\ Append(r, c.endDate) # <<>>
                  /\ Len(r) \in Nat
                BY <2>3, <4>1, AppendProperties
            <4> QED
                BY <3>1, <4>1, <4>2
        <3>2. CASE ~(c.endDate # 0 /\ Len(r) < 2)
            <4>1. a = r
                BY <3>2
            <4>2. Len(r) >= 2 => r # <<>>
                BY <2>3
            <4> QED
                BY <2>3, <3>2, <4>1, <4>2
        <3> QED
            BY <3>1, <3>2
    <2>7. c.endDate # 0 /\ Len(r) < 2 => a = Append(r, c.endDate)
        OBVIOUS
    <2> HIDE DEF a, t
    <2>8. /\ t \in CalendarObject /\ t.rangeArr = a /\ t.shown = c.shown /\ t.val = c.val
          /\ t.startDate = c.startDate /\ t.endDate = c.endDate
        BY <1>0, <2>1, <2>6 DEF CalendarObject
    <2>9. Calendar!Drawn(t)
        BY <2>3, <2>6, <2>8 DEF Calendar!Drawn, Calendar!NoDay
    <2>10. Calendar!Loose(c) => Calendar!Loose(t)
        BY <2>3, <2>6, <2>8, Zenon DEF Calendar!Loose
    <2>11. Calendar!Begun(c) => Calendar!Begun(t)
        <3>1. SUFFICES ASSUME NEW d \in Calendar!Days, c.rangeArr = <<d>>, c.val = <<d>>,
                              c.startDate = d, c.endDate = 0
                       PROVE  Calendar!Begun(t)
            BY Zenon DEF Calendar!Begun, Calendar!NoDay
        <3>2. <<d>> # <<>>
            OBVIOUS
        <3>3. a = <<d>>
            BY <2>4, <2>6, <3>1, <3>2, Zenon
        <3> QED
            BY <2>8, <3>1, <3>3, Zenon DEF Calendar!Begun, Calendar!NoDay
    <2>12. Calendar!Ranged(c) => Calendar!Ranged(t)
        <3>1. SUFFICES ASSUME NEW d \in Calendar!Days, NEW e \in Calendar!Days, d <= e,
                              c.val = <<d, e>>, c.rangeArr = <<d, e>>, c.startDate = d, c.endDate = e
                       PROVE  Calendar!Ranged(t)
            BY Zenon DEF Calendar!Ranged
        <3>2. <<d, e>> # <<>> /\ Len(<<d, e>>) >= 2
            OBVIOUS
        <3>3. a = <<d, e>>
            BY <2>4, <2>6, <3>1, <3>2, Zenon
        <3> QED
            BY <2>8, <3>1, <3>3, Zenon DEF Calendar!Ranged
    <2>13. ASSUME Calendar!Given(c, o), ~Calendar!EndOnly(o)
           PROVE  Calendar!Given(t, o) \/ Calendar!Begun(t)
        <3>1. Calendar!AsGiven(c, o) /\ c.rangeArr \in {<<>>} \cup ({o} \cap (Calendar!Days \X Calendar!Days))
            BY <2>13 DEF Calendar!Given
        <3>2. Calendar!AsGiven(t, o)
            BY <2>8, <3>1, Zenon DEF Calendar!AsGiven
        <3>3. CASE c.startDate = 0 /\ c.endDate = 0 /\ {o} \cap (Calendar!Days \X Calendar!Days) = {}
            <4>1. c.rangeArr = <<>>
                BY <3>1, <3>3
            <4>2. a = <<>>
                BY <2>4, <2>6, <3>3, <4>1, Zenon
            <4> QED
                BY <2>8, <3>2, <4>2, Zenon DEF Calendar!Given
        <3>4. CASE \E d \in Calendar!Days : /\ c.val = <<d>> /\ c.startDate = d /\ c.endDate = 0
                                            /\ {o} \cap (Calendar!Days \X Calendar!Days) = {}
            <4>1. PICK d \in Calendar!Days : /\ c.val = <<d>> /\ c.startDate = d /\ c.endDate = 0
                                             /\ {o} \cap (Calendar!Days \X Calendar!Days) = {}
                BY <3>4, Zenon
            <4>2. c.rangeArr = <<>> /\ d # 0
                BY <3>1, <4>1 DEF Calendar!Days
            <4>3. a = <<d>>
                BY <2>5, <2>6, <4>1, <4>2, Zenon
            <4> QED
                BY <2>8, <4>1, <4>3, Zenon DEF Calendar!Begun, Calendar!NoDay
        <3>5. CASE \E d, e \in Calendar!Days : c.startDate = d /\ c.endDate = e /\ o = <<d, e>>
            <4>1. PICK d \in Calendar!Days, e \in Calendar!Days :
                     c.startDate = d /\ c.endDate = e /\ o = <<d, e>>
                BY <3>5, Zenon
            <4>2. d # 0 /\ e # 0
                BY DEF Calendar!Days
            <4>3. Append(<<d>>, e) = <<d, e>> /\ Len(<<d>>) = 1 /\ Len(<<d, e>>) = 2 /\ <<d, e>> # <<>>
                BY PairOf
            <4>4. c.rangeArr = <<>> \/ c.rangeArr = <<d, e>>
                BY <3>1, <4>1
            <4>5. CASE c.rangeArr = <<>>
                <5>0. r = <<d>>
                    BY <2>5, <4>1, <4>2, <4>5, Zenon
                <5>1. r = <<d>> /\ Len(r) < 2
                    BY <4>3, <5>0
                <5>2. a = <<d, e>>
                    BY <2>7, <4>1, <4>2, <4>3, <5>1
                <5> QED
                    BY <2>8, <3>2, <4>1, <5>2 DEF Calendar!Given
            <4>6. CASE c.rangeArr = <<d, e>>
                <5>1. r = <<d, e>> /\ Len(r) >= 2
                    BY <2>4, <4>3, <4>6
                <5>2. a = <<d, e>>
                    BY <2>6, <5>1
                <5> QED
                    BY <2>8, <3>2, <4>1, <5>2 DEF Calendar!Given
            <4> QED
                BY <4>4, <4>5, <4>6
        <3> QED
            BY <1>0, <2>13, <3>1, <3>3, <3>4, <3>5, CalendarGiven
    <2>14. CalendarFits(t, kind, o)
        BY <1>0, <1>2, <2>8, <2>10, <2>11, <2>12, <2>13, Zenon DEF CalendarFits, Calendar!Fits
    <2> QED
        BY <2>8, <2>9, <2>14 DEF t
<1> QED
    BY <1>1, <1>2

LEMMA CalendarPicked ==
    ASSUME NEW c, NEW o, CalendarFits(c, "range", o), NEW d \in Calendar!Days
    PROVE  LET p == Calendar!Picked(c, d)
           IN  CalendarFits(p, "range", o) /\ p.shown = c.shown /\ p.rangeArr # <<>>
<1>0. c \in CalendarObject /\ o \in Calendar!Options
    BY DEF CalendarFits
<1> DEFINE p == Calendar!Picked(c, d)
<1>1. CASE Len(c.rangeArr) = 1
    <2>1. c.rangeArr[1] \in Calendar!Days
        BY <1>0, <1>1 DEF CalendarObject
    <2>2. p = Calendar!Whole(c, Calendar!Sorted(c.rangeArr[1], d))
        BY <1>1, Zenon DEF Calendar!Picked
    <2> HIDE DEF p
    <2>3. p \in CalendarObject /\ Calendar!Ranged(p) /\ p.shown = c.shown /\ p.rangeArr # <<>>
        BY <1>0, <2>1, <2>2, CalendarWhole
    <2> QED
        BY <1>0, <2>3, Zenon DEF CalendarFits, Calendar!Fits, Calendar!Loose, p
<1>2. CASE Len(c.rangeArr) # 1
    <2>0. p = [c EXCEPT !.rangeArr = <<d>>, !.val = <<d>>, !.startDate = d, !.endDate = 0]
        BY <1>2, Zenon DEF Calendar!Picked, Calendar!NoDay
    <2> HIDE DEF p
    <2>1. <<d>> \in Seq(Calendar!Days) /\ <<d>> \in Seq(Calendar!Days \cup {Calendar!Bad}) /\ <<d>> # <<>>
        OBVIOUS
    <2>2. p \in CalendarObject /\ p.rangeArr = <<d>> /\ p.val = <<d>> /\ p.startDate = d
          /\ p.endDate = 0 /\ p.shown = c.shown
        BY <1>0, <2>0, <2>1 DEF CalendarObject
    <2>3. Calendar!Begun(p)
        BY <2>2, Zenon DEF Calendar!Begun, Calendar!NoDay
    <2> QED
        BY <1>0, <2>1, <2>2, <2>3, Zenon DEF CalendarFits, Calendar!Fits, Calendar!Loose, p
<1> QED
    BY <1>1, <1>2

(* The button of a range, when its panel has been drawn                    *)
LEMMA CalendarSubmits ==
    ASSUME NEW c, NEW o, CalendarFits(c, "range", o), Calendar!Drawn(c),
           c.startDate \in Calendar!Days \/ c.endDate # Calendar!NoDay, NEW first,
           first = IF c.startDate = Calendar!NoDay THEN Calendar!Bad ELSE c.startDate,
           NEW p, p = IF c.endDate = Calendar!NoDay
                      THEN Calendar!Whole(c, Calendar!Sorted(c.rangeArr[1], Today))
                      ELSE [c EXCEPT !.val = <<first, c.endDate>>, !.startDate = first]
    PROVE  CalendarFits(p, "range", o)
<1>0. c \in CalendarObject /\ o \in Calendar!Options /\ Calendar!Fits(c, "range", o)
    BY DEF CalendarFits
<1>1. 0 \notin Calendar!Days /\ Today \in Calendar!Days
    BY CalendarAssumption DEF Calendar!Days
<1>2. CASE c.endDate = 0
    <2>1. c.rangeArr # <<>>
        BY <1>1, <1>2 DEF Calendar!Drawn, Calendar!NoDay
    <2>2. c.rangeArr[1] \in Calendar!Days
        BY <1>0, <2>1 DEF CalendarObject
    <2>3. p = Calendar!Whole(c, Calendar!Sorted(c.rangeArr[1], Today))
        BY <1>2, Zenon DEF Calendar!NoDay
    <2> DEFINE w == Calendar!Whole(c, Calendar!Sorted(c.rangeArr[1], Today))
    <2>4. w \in CalendarObject /\ Calendar!Ranged(w) /\ w.rangeArr # <<>>
        BY <1>0, <1>1, <2>2, CalendarWhole, Zenon
    <2> HIDE DEF w
    <2>5. p = w
        BY <2>3 DEF w
    <2>6. p \in CalendarObject /\ Calendar!Ranged(p) /\ p.rangeArr # <<>>
        BY <2>4, <2>5
    <2> QED
        BY <1>0, <2>6, Zenon DEF CalendarFits, Calendar!Fits, Calendar!Loose
<1>3. CASE c.endDate # 0
    <2>1. p = [c EXCEPT !.val = <<first, c.endDate>>, !.startDate = first]
        BY <1>3, Zenon DEF Calendar!NoDay
    <2>2. first \in Calendar!Days \cup {Calendar!Bad} /\ c.endDate \in Calendar!Days
        BY <1>0, <1>3 DEF CalendarObject, Calendar!NoDay
    <2>3. <<first, c.endDate>> \in Seq(Calendar!Days \cup {Calendar!Bad})
        BY <2>2
    <2>4. p \in CalendarObject /\ p.rangeArr = c.rangeArr /\ p.endDate = c.endDate
          /\ p.val = <<first, c.endDate>> /\ p.startDate = first
        BY <1>0, <2>1, <2>2, <2>3 DEF CalendarObject
    <2>5. CASE Calendar!EndOnly(o)
        <3>1. p.rangeArr # <<>>
            BY <1>3, <2>4 DEF Calendar!Drawn, Calendar!NoDay
        <3> QED
            BY <1>0, <2>4, <2>5, <3>1, Zenon DEF CalendarFits, Calendar!Fits, Calendar!Loose
    <2>6. CASE ~Calendar!EndOnly(o)
        <3>1. c.val = <<c.startDate, c.endDate>> /\ c.startDate \in Calendar!Days
            <4>1. Calendar!Given(c, o) => c.val = <<c.startDate, c.endDate>> /\ c.startDate \in Calendar!Days
                BY <1>0, <1>3, <2>6, CalendarGiven DEF Calendar!Given
            <4>2. Calendar!Ranged(c) => c.val = <<c.startDate, c.endDate>> /\ c.startDate \in Calendar!Days
                BY Zenon DEF Calendar!Ranged
            <4>3. ~Calendar!Begun(c)
                BY <1>3 DEF Calendar!Begun, Calendar!NoDay
            <4> QED
                BY <1>0, <2>6, <4>1, <4>2, <4>3, Zenon DEF Calendar!Fits
        <3>2. first = c.startDate
            BY <1>1, <3>1 DEF Calendar!NoDay
        <3>3. p = c
            BY <1>0, <2>1, <3>1, <3>2 DEF CalendarObject
        <3> QED
            BY <3>3
    <2> QED
        BY <2>5, <2>6
<1> QED
    BY <1>2, <1>3
LEMMA CalendarInit == Calendar!Init => Calendar!Inv
<1> SUFFICES ASSUME Calendar!Init
             PROVE  Calendar!Inv
    OBVIOUS
<1> USE CalendarAssumption
<1>1. /\ s1 \in [Fields -> {"day", "time", "range"}] /\ s7 \in [Fields -> Calendar!Options]
      /\ s2 = [f \in Fields |-> Calendar!NewCalendar(s1[f], s7[f])]
      /\ s3 = None /\ s4 = FALSE /\ s5 = FALSE /\ s6 = None
    BY Zenon DEF Calendar!Init
<1>2. ASSUME NEW k, NEW o \in Calendar!Options
      PROVE  LET c == Calendar!NewCalendar(k, o)
             IN  /\ CalendarFits(c, k, o) /\ c.rangeArr = <<>> /\ c.shown = FALSE
                 /\ k = "range" => Calendar!AsGiven(c, o)
    <2> DEFINE c == Calendar!NewCalendar(k, o)
               v == Calendar!Text(k, o)
               a == IF k = "range" THEN o[1] ELSE 0
               b == IF k = "range" THEN o[2] ELSE 0
    <2>1. PICK d \in Calendar!Days \cup {0}, e \in Calendar!Days \cup {0} : o = <<d, e>>
        BY DEF Calendar!Options, Calendar!NoDay
    <2>2. v \in Seq(Calendar!Days \cup {Calendar!Bad})
        <3>1. CASE d = 0
            BY <2>1, <3>1 DEF Calendar!Text, Calendar!NoDay
        <3>2. CASE d # 0
            <4>1. <<d>> \in Seq(Calendar!Days \cup {Calendar!Bad})
                BY <3>2
            <4>2. e # 0 => <<d, e>> \in Seq(Calendar!Days \cup {Calendar!Bad})
                BY <3>2
            <4>3. v = <<d>> \/ (e # 0 /\ v = <<d, e>>)
                BY <2>1, <3>2 DEF Calendar!Text, Calendar!NoDay
            <4> QED
                BY <4>1, <4>2, <4>3
        <3> QED
            BY <3>1, <3>2
    <2>3. a \in Calendar!Days \cup {0} /\ b \in Calendar!Days \cup {0} /\ o[1] \in Calendar!Days \cup {0}
        BY <2>1
    <2>4. c = [shown |-> FALSE, mouseover |-> FALSE, rangeArr |-> <<>>, val |-> v, date |-> o[1],
               startDate |-> a, endDate |-> b]
        BY Zenon DEF Calendar!NewCalendar, Calendar!NoDay
    <2>5. k = "range" => v = Calendar!Text("range", o) /\ a = o[1] /\ b = o[2]
        BY Zenon
    <2>6. <<>> \in Seq(Calendar!Days)
        OBVIOUS
    <2> HIDE DEF c, v, a, b
    <2>7. /\ c \in CalendarObject /\ c.rangeArr = <<>> /\ c.shown = FALSE
          /\ c.val = v /\ c.startDate = a /\ c.endDate = b
        BY <2>2, <2>3, <2>4, <2>6 DEF CalendarObject
    <2>8. k = "range" => Calendar!AsGiven(c, o)
        BY <2>5, <2>7, Zenon DEF Calendar!AsGiven
    <2>9. k = "range" /\ Calendar!EndOnly(o) => Calendar!Loose(c)
        BY <2>1, <2>5, <2>7, <2>3 DEF Calendar!EndOnly, Calendar!Loose, Calendar!NoDay, Calendar!Bad, Calendar!Days
    <2>10. CalendarFits(c, k, o)
        BY <2>7, <2>8, <2>9, Zenon DEF CalendarFits, Calendar!Fits, Calendar!Given
    <2> QED
        BY <2>7, <2>8, <2>10 DEF c
<1>3. ASSUME NEW f \in Fields
      PROVE  /\ CalendarFits(s2[f], s1[f], s7[f]) /\ s2[f].rangeArr = <<>> /\ s2[f].shown = FALSE
             /\ s1[f] = "range" => Calendar!AsGiven(s2[f], s7[f])
    BY <1>1, <1>2
<1>4. Calendar!TypeOK
    <2>1. s2 \in [Fields -> CalendarObject]
        BY <1>1, <1>3, Zenon DEF CalendarFits
    <2> QED
        BY <1>1, <2>1, Zenon DEF Calendar!TypeOK, CalendarObject, Calendar!NoDay
<1>5. Calendar!RangeIsWhole
    BY <1>3, Zenon DEF Calendar!RangeIsWhole
<1>6. Len(<<>>) # 1
    OBVIOUS
<1> QED
    BY <1>1, <1>3, <1>4, <1>5, <1>6, Zenon DEF Calendar!Inv, CalendarFits

(* The invariant, object by object                                         *)
CalendarObjectOK(c, kind, o) ==
    /\ CalendarFits(c, kind, o)
    /\ Len(c.rangeArr) = 1 => c.shown
    /\ kind = "range" /\ c.shown => Calendar!Drawn(c)
CalendarCore ==
    /\ s1 \in [Fields -> {"day", "time", "range"}] /\ s2 \in [Fields -> CalendarObject]
    /\ s7 \in [Fields -> Calendar!Options]
    /\ s3 \in Fields \cup {None} /\ s6 \in Fields \cup {None}
    /\ s4 \in BOOLEAN /\ s5 \in BOOLEAN
    /\ \A f \in Fields : CalendarObjectOK(s2[f], s1[f], s7[f])
    /\ s4 <=> s3 # None
    /\ s3 # None => s2[s3].shown

(* A panel that closes for a field, whoever owns it                        *)
LEMMA CalendarHides ==
    ASSUME CalendarCore, NEW o \in Fields,
           NEW p, CalendarFits(p, s1[o], s7[o]), Calendar!Hide(o, p),
           s1' = s1, s7' = s7, s6' \in {s6, None}
    PROVE  CalendarCore'
<1> USE CalendarAssumption
<1> DEFINE h == Calendar!Hidden(p, s1[o])
<1>1. CalendarFits(h, s1[o], s7[o]) /\ Len(h.rangeArr) # 1 /\ ~h.shown
    BY CalendarHidden
<1>2. s2' = [s2 EXCEPT ![o] = h] /\ s4' = FALSE /\ s3' = None /\ s5' = FALSE
    BY Zenon DEF Calendar!Hide, Calendar!Close
<1> HIDE DEF h
<1>3. s2' \in [Fields -> CalendarObject]
    BY <1>1, <1>2 DEF CalendarCore, CalendarFits
<1>4. CalendarObjectOK(h, s1[o], s7[o])
    BY <1>1, Zenon DEF CalendarObjectOK
<1>5. \A f \in Fields : CalendarObjectOK(s2'[f], s1'[f], s7'[f])
    BY <1>2, <1>4, Zenon DEF CalendarCore
<1>6. /\ s6' \in Fields \cup {None} /\ s3' \in Fields \cup {None}
      /\ s4' \in BOOLEAN /\ s5' \in BOOLEAN
      /\ s1' \in [Fields -> {"day", "time", "range"}] /\ s7' \in [Fields -> Calendar!Options]
    BY <1>2 DEF CalendarCore
<1>7. (s4' <=> s3' # None) /\ (s3' # None => s2'[s3'].shown)
    BY <1>2, Zenon
<1> QED
    BY <1>3, <1>5, <1>6, <1>7, Zenon DEF CalendarCore

(* An object that changes while the panel stays                            *)
LEMMA CalendarStays ==
    ASSUME CalendarCore, NEW o \in Fields,
           NEW p, CalendarObjectOK(p, s1[o], s7[o]), p.shown = s2[o].shown,
           s2' = [s2 EXCEPT ![o] = p], s5' \in BOOLEAN,
           UNCHANGED <<s1, s3, s4, s6, s7>>
    PROVE  CalendarCore'
<1> USE CalendarAssumption
<1>0. s1' = s1 /\ s3' = s3 /\ s4' = s4 /\ s6' = s6 /\ s7' = s7
    OBVIOUS
<1>1. s2' \in [Fields -> CalendarObject]
    BY DEF CalendarCore, CalendarObjectOK, CalendarFits
<1>2. \A f \in Fields : CalendarObjectOK(s2'[f], s1'[f], s7'[f]) /\ s2'[f].shown = s2[f].shown
    BY <1>0, Zenon DEF CalendarCore
<1>3. s3' # None => s2'[s3'].shown
    BY <1>0, <1>2, Zenon DEF CalendarCore
<1>4. /\ s6' \in Fields \cup {None} /\ s3' \in Fields \cup {None}
      /\ s4' \in BOOLEAN /\ s5' \in BOOLEAN
      /\ s1' \in [Fields -> {"day", "time", "range"}] /\ s7' \in [Fields -> Calendar!Options]
    BY <1>0 DEF CalendarCore
<1>5. s4' <=> s3' # None
    <2>1. s4 <=> s3 # None
        BY Zenon DEF CalendarCore
    <2> QED
        BY <1>0, <2>1
<1> QED
    BY <1>1, <1>2, <1>3, <1>4, <1>5, Zenon DEF CalendarCore

LEMMA CalendarCoreStep ==
    ASSUME CalendarCore, Calendar!Next \/ UNCHANGED Calendar!vars
    PROVE  CalendarCore'
<1> USE CalendarAssumption
<1>1. CalendarCore
    OBVIOUS
<1>2. \A f \in Fields : /\ CalendarFits(s2[f], s1[f], s7[f]) /\ CalendarObjectOK(s2[f], s1[f], s7[f])
                        /\ s2[f] \in CalendarObject
    BY <1>1 DEF CalendarCore, CalendarObjectOK
<1>3. CASE \E f \in Fields, isIcon \in BOOLEAN : Calendar!Show(f, isIcon)
    <2>1. PICK f \in Fields, isIcon \in BOOLEAN : Calendar!Show(f, isIcon)
        BY <1>3
    <2> DEFINE d == Calendar!DrawTimeBox(s2[f], s1[f])
               e == [d EXCEPT !.shown = TRUE]
    <2>2. CalendarFits(d, s1[f], s7[f]) /\ (s1[f] = "range" => Calendar!Drawn(d))
        BY <1>2, CalendarDrawn
    <2>3. /\ s2' = [s2 EXCEPT ![f] = e] /\ s3' = f /\ s4' = TRUE
          /\ s6' = (IF isIcon THEN None ELSE f) /\ s1' = s1 /\ s5' = s5 /\ s7' = s7
        BY <2>1 DEF Calendar!Show
    <2> HIDE DEF d
    <2>4. /\ e \in CalendarObject /\ e.shown /\ e.rangeArr = d.rangeArr /\ e.val = d.val
          /\ e.startDate = d.startDate /\ e.endDate = d.endDate
        BY <2>2 DEF CalendarFits, CalendarObject
    <2> HIDE DEF e
    <2>5. CalendarObjectOK(e, s1[f], s7[f])
        <3>1. CalendarFits(e, s1[f], s7[f])
            BY <2>2, <2>4 DEF CalendarFits, Calendar!Fits, Calendar!Loose, Calendar!Given,
               Calendar!AsGiven, Calendar!Begun, Calendar!Ranged
        <3>2. s1[f] = "range" => Calendar!Drawn(e)
            BY <2>2, <2>4, Zenon DEF Calendar!Drawn
        <3> QED
            BY <2>4, <3>1, <3>2, Zenon DEF CalendarObjectOK
    <2>6. s2' \in [Fields -> CalendarObject]
        BY <1>1, <2>3, <2>4 DEF CalendarCore
    <2>7. (\A g \in Fields : CalendarObjectOK(s2'[g], s1'[g], s7'[g])) /\ s2'[f].shown
        BY <1>1, <2>3, <2>4, <2>5, Zenon DEF CalendarCore
    <2>8. s3' \in Fields \cup {None} /\ s6' \in Fields \cup {None} /\ s3' # None
        BY <2>3
    <2> QED
        BY <1>1, <2>3, <2>6, <2>7, <2>8, Zenon DEF CalendarCore
<1>4. CASE Calendar!Blur
    <2>1. s6 \in Fields /\ s6' = None /\ s1' = s1 /\ s7' = s7
        BY <1>1, <1>4, Zenon DEF CalendarCore, Calendar!Blur
    <2>2. CASE s2[s6].mouseover
        <3>1. s2' = s2 /\ s3' = s3 /\ s4' = s4 /\ s5' = s5
            BY <1>4, <2>1, <2>2 DEF Calendar!Blur
        <3> QED
            BY <1>1, <2>1, <3>1, Zenon DEF CalendarCore
    <2>3. CASE ~s2[s6].mouseover
        <3>1. Calendar!Hide(s6, s2[s6])
            BY <1>4, <2>3, Zenon DEF Calendar!Blur
        <3> QED
            BY <1>1, <1>2, <2>1, <3>1, CalendarHides
    <2> QED
        BY <2>2, <2>3
<1>5. CASE Calendar!DocumentHandle
    <2>1. /\ s2' = [f \in Fields |-> IF s2[f].shown THEN Calendar!Hidden(s2[f], s1[f]) ELSE s2[f]]
          /\ s4' = FALSE /\ s3' = None /\ s5' = FALSE /\ UNCHANGED <<s1, s6, s7>>
        BY <1>5, Zenon DEF Calendar!DocumentHandle, Calendar!Close
    <2>2. ASSUME NEW f \in Fields
          PROVE  CalendarObjectOK(s2'[f], s1'[f], s7'[f])
        <3>0. s1' = s1 /\ s7' = s7
            BY <2>1
        <3>1. CASE s2[f].shown
            <4>1. s2'[f] = Calendar!Hidden(s2[f], s1[f])
                BY <2>1, <3>1
            <4>2. CalendarFits(s2'[f], s1[f], s7[f]) /\ Len(s2'[f].rangeArr) # 1 /\ ~s2'[f].shown
                BY <1>2, <4>1, CalendarHidden
            <4> QED
                BY <3>0, <4>2, Zenon DEF CalendarObjectOK
        <3>2. CASE ~s2[f].shown
            <4>1. s2'[f] = s2[f]
                BY <2>1, <3>2
            <4> QED
                BY <1>2, <3>0, <4>1, Zenon
        <3> QED
            BY <3>1, <3>2
    <2>3. s2' \in [Fields -> CalendarObject]
        BY <2>1, <2>2, Zenon DEF CalendarFits, CalendarObjectOK
    <2> QED
        BY <1>1, <2>1, <2>2, <2>3, Zenon DEF CalendarCore
<1>6. CASE Calendar!MousePanel
    <2>1. s3 \in Fields
        BY <1>1, <1>6, Zenon DEF CalendarCore, Calendar!MousePanel
    <2> DEFINE c == s2[s3]
               p == [c EXCEPT !.mouseover = ~s5]
    <2>2. s2' = [s2 EXCEPT ![s3] = p] /\ s5' = ~s5 /\ UNCHANGED <<s1, s3, s4, s6, s7>>
        BY <1>6 DEF Calendar!MousePanel
    <2>3. c \in CalendarObject /\ CalendarObjectOK(c, s1[s3], s7[s3])
        BY <1>2, <2>1
    <2> HIDE DEF c
    <2>4. /\ p \in CalendarObject /\ p.shown = c.shown /\ p.rangeArr = c.rangeArr /\ p.val = c.val
          /\ p.startDate = c.startDate /\ p.endDate = c.endDate
        BY <2>3 DEF CalendarObject
    <2> HIDE DEF p
    <2>5. CalendarObjectOK(p, s1[s3], s7[s3])
        BY <2>3, <2>4 DEF CalendarObjectOK, CalendarFits, Calendar!Fits, Calendar!Loose, Calendar!Given,
           Calendar!AsGiven, Calendar!Begun, Calendar!Ranged, Calendar!Drawn
    <2>6. s5' \in BOOLEAN
        BY <2>2, Zenon
    <2>7. p.shown = s2[s3].shown
        BY <2>4 DEF c
    <2> QED
        BY <1>1, <2>1, <2>2, <2>5, <2>6, <2>7, CalendarStays
<1>7. CASE Calendar!FillPanel
    <2>1. s3 \in Fields /\ s2[s3].shown
        BY <1>1, <1>7, Zenon DEF CalendarCore, Calendar!FillPanel
    <2> DEFINE p == Calendar!DrawTimeBox(s2[s3], s1[s3])
    <2>2. CalendarFits(p, s1[s3], s7[s3]) /\ p.shown = s2[s3].shown /\ (s1[s3] = "range" => Calendar!Drawn(p))
        BY <1>2, <2>1, CalendarDrawn
    <2>3. s2' = [s2 EXCEPT ![s3] = p] /\ UNCHANGED <<s1, s3, s4, s5, s6, s7>>
        BY <1>7 DEF Calendar!FillPanel
    <2> HIDE DEF p
    <2>4. s5' \in BOOLEAN
        BY <1>1, <2>3, Zenon DEF CalendarCore
    <2>5. CalendarObjectOK(p, s1[s3], s7[s3])
        BY <2>1, <2>2, Zenon DEF CalendarObjectOK
    <2> QED
        BY <1>1, <2>1, <2>2, <2>3, <2>4, <2>5, CalendarStays
<1>8. ASSUME NEW c, NEW kind, NEW o, kind # "range", CalendarFits(c, kind, o),
             NEW d \in Calendar!Days \cup {Calendar!Bad}
      PROVE  LET p == [c EXCEPT !.val = <<d>>]
             IN  CalendarFits(p, kind, o) /\ p.shown = c.shown
    <2> DEFINE p == [c EXCEPT !.val = <<d>>]
    <2>1. <<d>> \in Seq(Calendar!Days \cup {Calendar!Bad})
        OBVIOUS
    <2>2. c \in CalendarObject /\ o \in Calendar!Options /\ c.rangeArr = <<>>
        BY <1>8 DEF CalendarFits, Calendar!Fits
    <2>3. p \in CalendarObject /\ p.rangeArr = <<>> /\ p.shown = c.shown
        BY <2>1, <2>2 DEF CalendarObject
    <2> HIDE DEF p
    <2>4. CalendarFits(p, kind, o)
        BY <1>8, <2>2, <2>3, Zenon DEF CalendarFits, Calendar!Fits
    <2> QED
        BY <2>3, <2>4 DEF p
<1>9. CASE \E d \in Calendar!Days : Calendar!ClickDay(d)
    <2>1. PICK d \in Calendar!Days : Calendar!ClickDay(d)
        BY <1>9
    <2>2. s3 \in Fields /\ s2[s3].shown /\ s1' = s1 /\ s6' = s6 /\ s7' = s7
        BY <1>1, <2>1, Zenon DEF CalendarCore, Calendar!ClickDay
    <2> DEFINE c == s2[s3]
               p == IF s1[s3] = "range" THEN Calendar!Picked(c, d)
                    ELSE [c EXCEPT !.val = <<d>>, !.date = d]
    <2>3. /\ CalendarFits(p, s1[s3], s7[s3]) /\ p.shown = s2[s3].shown
          /\ s1[s3] = "range" => p.rangeArr # <<>>
        <3>1. CASE s1[s3] = "range"
            BY <1>2, <2>2, <3>1, CalendarPicked
        <3>2. CASE s1[s3] # "range"
            <4>1. <<d>> \in Seq(Calendar!Days \cup {Calendar!Bad})
                OBVIOUS
            <4>2. c \in CalendarObject /\ s7[s3] \in Calendar!Options /\ c.rangeArr = <<>>
                BY <1>2, <2>2, <3>2 DEF CalendarFits, Calendar!Fits
            <4>3. p = [c EXCEPT !.val = <<d>>, !.date = d]
                BY <3>2
            <4> HIDE DEF c, p
            <4>4. p \in CalendarObject /\ p.rangeArr = <<>> /\ p.shown = c.shown
                BY <4>1, <4>2, <4>3 DEF CalendarObject
            <4>5. CalendarFits(p, s1[s3], s7[s3])
                BY <3>2, <4>2, <4>4, Zenon DEF CalendarFits, Calendar!Fits
            <4> QED
                BY <3>2, <4>4, <4>5, Zenon DEF c
        <3> QED
            BY <3>1, <3>2
    <2>4. \/ s2' = [s2 EXCEPT ![s3] = p] /\ s3' = s3 /\ s4' = s4 /\ s5' = s5
          \/ Calendar!Hide(s3, p)
        BY <2>1, Zenon DEF Calendar!ClickDay
    <2> HIDE DEF p, c
    <2>5. CASE s2' = [s2 EXCEPT ![s3] = p] /\ s3' = s3 /\ s4' = s4 /\ s5' = s5
        <3>1. s5' \in BOOLEAN
            BY <1>1, <2>5, Zenon DEF CalendarCore
        <3>2. CalendarObjectOK(p, s1[s3], s7[s3])
            BY <2>2, <2>3, Zenon DEF CalendarObjectOK, Calendar!Drawn
        <3> QED
            BY <1>1, <2>2, <2>3, <2>5, <3>1, <3>2, CalendarStays
    <2>6. CASE Calendar!Hide(s3, p)
        BY <1>1, <2>2, <2>3, <2>6, CalendarHides
    <2> QED
        BY <2>4, <2>5, <2>6
<1>10. CASE Calendar!TimeSubmit \/ Calendar!TodaySubmit
    <2>1. PICK d \in Calendar!Days : /\ Calendar!Hide(s3, [s2[s3] EXCEPT !.val = <<d>>])
                                     /\ s4 /\ s1[s3] # "range" /\ UNCHANGED <<s1, s6, s7>>
        <3>1. Today \in Calendar!Days
            BY DEF Calendar!Days
        <3>2. s4 => s3 \in Fields /\ s2[s3].date \in Calendar!Days \cup {0}
            BY <1>1 DEF CalendarCore, CalendarObject
        <3>3. CASE Calendar!TodaySubmit
            BY <3>1, <3>3, Zenon DEF Calendar!TodaySubmit
        <3>4. CASE Calendar!TimeSubmit
            <4> DEFINE d == IF s2[s3].date = Calendar!NoDay THEN Today ELSE s2[s3].date
            <4>1. d \in Calendar!Days
                BY <3>1, <3>2, <3>4 DEF Calendar!TimeSubmit, Calendar!NoDay
            <4>2. /\ Calendar!Hide(s3, [s2[s3] EXCEPT !.val = <<d>>])
                  /\ s4 /\ s1[s3] = "time" /\ UNCHANGED <<s1, s6, s7>>
                BY <3>4, Zenon DEF Calendar!TimeSubmit
            <4> HIDE DEF d
            <4>3. "time" # "range"
                OBVIOUS
            <4> QED
                BY <4>1, <4>2, <4>3, Zenon
        <3> QED
            BY <1>10, <3>3, <3>4
    <2>2. s3 \in Fields
        BY <1>1, <2>1, Zenon DEF CalendarCore
    <2>3. CalendarFits([s2[s3] EXCEPT !.val = <<d>>], s1[s3], s7[s3])
        BY <1>2, <1>8, <2>1, <2>2
    <2> QED
        BY <1>1, <2>1, <2>2, <2>3, CalendarHides
<1>11. CASE Calendar!MultiSubmit
    <2> DEFINE c == s2[s3]
               first == IF c.startDate = Calendar!NoDay THEN Calendar!Bad ELSE c.startDate
               p == IF c.endDate = Calendar!NoDay
                    THEN Calendar!Whole(c, Calendar!Sorted(c.rangeArr[1], Today))
                    ELSE [c EXCEPT !.val = <<first, c.endDate>>, !.startDate = first]
    <2>1. /\ s4 /\ s1[s3] = "range" /\ (c.startDate \in Calendar!Days \/ c.endDate # Calendar!NoDay)
          /\ Calendar!Hide(s3, p) /\ UNCHANGED <<s1, s6, s7>>
        BY <1>11, Zenon DEF Calendar!MultiSubmit
    <2>2. s3 \in Fields /\ CalendarFits(c, "range", s7[s3]) /\ Calendar!Drawn(c)
        BY <1>1, <2>1, Zenon DEF CalendarCore, CalendarObjectOK
    <2>3. CalendarFits(p, "range", s7[s3])
        <3> HIDE DEF c
        <3> QED
            BY <2>1, <2>2, CalendarSubmits
    <2> HIDE DEF p, c, first
    <2> QED
        BY <1>1, <2>1, <2>2, <2>3, CalendarHides
<1>12. CASE \E d \in Calendar!Days \cup {Calendar!Bad} : Calendar!Type(d)
    <2>1. PICK d \in Calendar!Days \cup {Calendar!Bad} : Calendar!Type(d)
        BY <1>12
    <2> DEFINE c == s2[s6]
               p == [c EXCEPT !.val = <<d>>]
    <2>2. /\ s6 # None /\ s1[s6] # "range" /\ s2' = [s2 EXCEPT ![s6] = p]
          /\ s1' = s1 /\ s3' = s3 /\ s4' = s4 /\ s5' = s5 /\ s6' = s6 /\ s7' = s7
        BY <2>1 DEF Calendar!Type
    <2>3. s6 \in Fields
        BY <1>1, <2>2, Zenon DEF CalendarCore
    <2>4. CalendarFits(p, s1[s6], s7[s6]) /\ p.shown = s2[s6].shown
        BY <1>2, <1>8, <2>2, <2>3
    <2> HIDE DEF p, c
    <2>5. Len(p.rangeArr) # 1
        BY <2>2, <2>4, CalendarLengths
    <2>6. CalendarObjectOK(p, s1[s6], s7[s6])
        BY <2>2, <2>4, <2>5, Zenon DEF CalendarObjectOK
    <2>7. s5' \in BOOLEAN
        BY <1>1, <2>2, Zenon DEF CalendarCore
    <2> QED
        BY <1>1, <2>2, <2>3, <2>4, <2>6, <2>7, CalendarStays
<1>13. CASE \E f \in Fields : Calendar!Focus(f)
    <2>1. PICK f \in Fields : Calendar!Focus(f)
        BY <1>13
    <2>2. /\ s1' = s1 /\ s2' = s2 /\ s3' = s3 /\ s4' = s4 /\ s5' = s5 /\ s6' = f /\ s7' = s7
        BY <2>1 DEF Calendar!Focus
    <2> QED
        BY <1>1, <2>2, Zenon DEF CalendarCore
<1>14. CASE UNCHANGED Calendar!vars
    <2>1. /\ s1' = s1 /\ s2' = s2 /\ s3' = s3 /\ s4' = s4 /\ s5' = s5 /\ s6' = s6 /\ s7' = s7
        BY <1>14 DEF Calendar!vars
    <2> QED
        BY <1>1, <2>1, Zenon DEF CalendarCore
<1> QED
    BY <1>3, <1>4, <1>5, <1>6, <1>7, <1>9, <1>10, <1>11, <1>12, <1>13, <1>14, Zenon DEF Calendar!Next

(* What the form posts for an object whose range is not begun              *)
LEMMA CalendarReads ==
    ASSUME NEW c, NEW o, CalendarFits(c, "range", o), Len(c.rangeArr) # 1, ~Calendar!EndOnly(o)
    PROVE  \/ Calendar!AsGiven(c, o)
           \/ c.val = <<c.startDate, c.endDate>> /\ c.val \in Calendar!Ranges
<1>1. Calendar!Given(c, o) \/ Calendar!Ranged(c)
    BY CalendarLengths, Zenon DEF CalendarFits, Calendar!Fits
<1>2. CASE Calendar!Given(c, o)
    BY <1>2 DEF Calendar!Given
<1>3. CASE Calendar!Ranged(c)
    <2>1. PICK d \in Calendar!Days, e \in Calendar!Days :
             d <= e /\ c.val = <<d, e>> /\ c.startDate = d /\ c.endDate = e
        BY <1>3, Zenon DEF Calendar!Ranged
    <2>2. <<d, e>> \in Calendar!Ranges
        BY <2>1 DEF Calendar!Ranges
    <2> QED
        BY <2>1, <2>2
<1> QED
    BY <1>1, <1>2, <1>3

LEMMA CalendarStep ==
    ASSUME Calendar!Inv, Calendar!Next \/ UNCHANGED Calendar!vars
    PROVE  Calendar!Inv'
<1> USE CalendarAssumption
<1>1. CalendarCore
    <2>1. s2 \in [Fields -> CalendarObject]
        BY Zenon DEF Calendar!Inv, Calendar!TypeOK, CalendarObject, Calendar!NoDay
    <2>2. \A f \in Fields : s2[f] \in CalendarObject /\ s7[f] \in Calendar!Options
        BY <2>1, Zenon DEF Calendar!Inv, Calendar!TypeOK
    <2> QED
        BY <2>1, <2>2, Zenon DEF Calendar!Inv, Calendar!TypeOK, CalendarCore, CalendarFits, CalendarObjectOK
<1>2. CalendarCore'
    BY <1>1, CalendarCoreStep
<1>3. Calendar!TypeOK'
    BY <1>2, Zenon DEF CalendarCore, Calendar!TypeOK, CalendarObject, Calendar!NoDay
<1>4. Calendar!RangeIsWhole'
    <2>1. ASSUME NEW f \in Fields, s1'[f] = "range", ~s2'[f].shown
          PROVE  CalendarFits(s2'[f], "range", s7'[f]) /\ Len(s2'[f].rangeArr) # 1
        BY <1>2, <2>1, Zenon DEF CalendarCore, CalendarObjectOK
    <2> QED
        BY <2>1, CalendarReads DEF Calendar!RangeIsWhole
<1> QED
    BY <1>2, <1>3, <1>4, Zenon DEF CalendarCore, CalendarFits, CalendarObjectOK, Calendar!Inv
-----------------------------------------------------------------------------
(* A range of months: as it was given, begun, or whole                     *)
MonthsGiven(t, h, r) ==
    /\ r = <<>> /\ h \in {Undef, MinDate} \X {Undef, MaxDate}
    /\ Undef \notin {h[1], h[2]} => t = h
MonthsBegun(shown, r) == shown /\ \E m \in Monthpicker!Enabled : r = <<m>>
MonthsWhole(t, h, r) ==
    \E a, b \in Monthpicker!Month \cup {Undef} :
       /\ r = <<a, b>> /\ h = <<a, b>>
       /\ Undef \notin {a, b} => /\ t = <<a, b>> /\ a <= b
                                 /\ {a, b} \subseteq Monthpicker!Enabled \cup {Now}
MonthsFit(multi, shown, t, h, r) ==
    IF multi THEN MonthsGiven(t, h, r) \/ MonthsBegun(shown, r) \/ MonthsWhole(t, h, r)
    ELSE r = <<>>

MonthsCore ==
    /\ s1 \in Fields \cup {None} /\ s4 \in Fields \cup {None}
    /\ s2 \in BOOLEAN /\ s3 \in BOOLEAN
    /\ s5 \in [Fields -> BOOLEAN] /\ s6 \in [Fields -> BOOLEAN]
    /\ s7 \subseteq Fields /\ s8 \in [Fields -> Nat]
    /\ s9 \in [Fields -> Monthpicker!Texts]
    /\ s10 \in [Fields -> Monthpicker!Stored \X Monthpicker!Stored]
    /\ DOMAIN s11 = Fields
    /\ \A f \in Fields : MonthsFit(f \in Multi, s5[f], s9[f], s10[f], s11[f])
    /\ s2 => s1 \in Fields /\ s5[s1]

(* Two months in order                                                     *)
LEMMA MonthsSorted ==
    ASSUME NEW m \in Monthpicker!Enabled \cup {Now}, NEW n \in Monthpicker!Enabled \cup {Now}
    PROVE  LET r == Monthpicker!Sorted(Append(<<m>>, n))
           IN  /\ r \in Monthpicker!Texts /\ r \in Monthpicker!Stored \X Monthpicker!Stored
               /\ Len(r) = 2 /\ r # <<>> /\ MonthsWhole(r, r, r)
<1> DEFINE r == Monthpicker!Sorted(Append(<<m>>, n))
<1>1. m \in Monthpicker!Month /\ n \in Monthpicker!Month
    BY MonthpickerAssumption DEF Monthpicker!Enabled
<1>2. m \in Int /\ n \in Int
    BY <1>1, MonthpickerAssumption DEF Monthpicker!Month
<1>3. Append(<<m>>, n) = <<m, n>>
    <2>1. m \in {m, n} /\ n \in {m, n}
        OBVIOUS
    <2> QED
        BY <2>1, PairOf, Zenon
<1>4. PICK a \in Monthpicker!Enabled \cup {Now}, b \in Monthpicker!Enabled \cup {Now} :
         r = <<a, b>> /\ a <= b /\ a \in Monthpicker!Month /\ b \in Monthpicker!Month
    <2>1. CASE m <= n
        <3>1. r = <<m, n>>
            BY <1>3, <2>1 DEF Monthpicker!Sorted
        <3> QED
            BY <1>1, <2>1, <3>1, Zenon
    <2>2. CASE ~(m <= n)
        <3>1. r = <<n, m>> /\ n <= m
            BY <1>2, <1>3, <2>2 DEF Monthpicker!Sorted
        <3> QED
            BY <1>1, <3>1, Zenon
    <2> QED
        BY <2>1, <2>2
<1> HIDE DEF r
<1>5. r \in Monthpicker!Texts
    <2>1. <<a, b>> \in {<<x, y>> : x, y \in Monthpicker!Month}
        BY <1>4
    <2> QED
        BY <1>4, <2>1 DEF Monthpicker!Texts
<1>6. r \in Monthpicker!Stored \X Monthpicker!Stored
    BY <1>4 DEF Monthpicker!Stored
<1>7. Len(r) = 2 /\ r # <<>>
    BY <1>4
<1>8. MonthsWhole(r, r, r)
    <2>1. {a, b} \subseteq Monthpicker!Enabled \cup {Now}
        BY <1>4
    <2>2. a \in Monthpicker!Month \cup {Undef} /\ b \in Monthpicker!Month \cup {Undef}
        BY <1>4
    <2> QED
        BY <1>4, <2>1, <2>2, Zenon DEF MonthsWhole
<1>9. /\ r \in Monthpicker!Texts /\ r \in Monthpicker!Stored \X Monthpicker!Stored
      /\ Len(r) = 2 /\ r # <<>> /\ MonthsWhole(r, r, r)
    BY <1>5, <1>6, <1>7, <1>8
<1> QED
    BY <1>9 DEF r

(* How long a range is                                                     *)
LEMMA MonthsLength ==
    ASSUME NEW t, NEW h, NEW r, NEW shown
    PROVE  /\ MonthsGiven(t, h, r) => Len(r) = 0 /\ r = <<>>
           /\ MonthsBegun(shown, r) => Len(r) = 1 /\ r # <<>>
           /\ MonthsWhole(t, h, r) => Len(r) = 2 /\ r # <<>>
<1>1. MonthsGiven(t, h, r) => Len(r) = 0 /\ r = <<>>
    BY DEF MonthsGiven
<1>2. MonthsBegun(shown, r) => Len(r) = 1 /\ r # <<>>
    BY DEF MonthsBegun
<1>3. MonthsWhole(t, h, r) => Len(r) = 2 /\ r # <<>>
    BY DEF MonthsWhole
<1> QED
    BY <1>1, <1>2, <1>3

(* hide, for the fields of S                                               *)
LEMMA MonthsHide ==
    ASSUME MonthsCore, NEW S \in SUBSET Fields, Monthpicker!Hide(S),
           UNCHANGED <<s1, s6, s8>>, s4' \in Fields \cup {None}
    PROVE  MonthsCore'
<1> USE MonthpickerAssumption
<1> DEFINE half == {f \in S \cap Multi : Len(s11[f]) = 1}
           w(f) == Monthpicker!Sorted(Append(s11[f], Now))
<1>1. /\ s5' = [f \in Fields |-> s5[f] /\ f \notin S]
      /\ s11' = [f \in Fields |-> IF f \in half THEN w(f) ELSE s11[f]]
      /\ s9' = [f \in Fields |-> IF f \in half THEN w(f) ELSE s9[f]]
      /\ s10' = [f \in Fields |-> IF f \in half THEN w(f) ELSE s10[f]]
    BY Zenon DEF Monthpicker!Hide
<1>2. \/ S = {} /\ UNCHANGED <<s2, s3, s7>>
      \/ s2' = FALSE /\ s3' = FALSE /\ s7' = {}
    BY Zenon DEF Monthpicker!Hide
<1>3. ASSUME NEW f \in half
      PROVE  /\ w(f) \in Monthpicker!Texts /\ w(f) \in Monthpicker!Stored \X Monthpicker!Stored
             /\ MonthsWhole(w(f), w(f), w(f))
    <2>1. f \in Multi /\ f \in Fields /\ Len(s11[f]) = 1
        BY <1>3
    <2>2. MonthsBegun(s5[f], s11[f])
        <3>1. MonthsFit(TRUE, s5[f], s9[f], s10[f], s11[f])
            BY <2>1 DEF MonthsCore, MonthsFit
        <3>2. ~MonthsGiven(s9[f], s10[f], s11[f]) /\ ~MonthsWhole(s9[f], s10[f], s11[f])
            <4>1. MonthsGiven(s9[f], s10[f], s11[f]) => Len(s11[f]) = 0
                BY MonthsLength, Zenon
            <4>2. MonthsWhole(s9[f], s10[f], s11[f]) => Len(s11[f]) = 2
                BY MonthsLength, Zenon
            <4> QED
                BY <2>1, <4>1, <4>2
        <3> QED
            BY <3>1, <3>2, Zenon DEF MonthsFit
    <2>3. PICK m \in Monthpicker!Enabled : s11[f] = <<m>>
        BY <2>2, Zenon DEF MonthsBegun
    <2> QED
        BY <2>3, MonthsSorted
<1>4. ASSUME NEW f \in Fields
      PROVE  /\ s9'[f] \in Monthpicker!Texts /\ s10'[f] \in Monthpicker!Stored \X Monthpicker!Stored
             /\ MonthsFit(f \in Multi, s5'[f], s9'[f], s10'[f], s11'[f])
    <2>1. CASE f \in half
        <3> DEFINE v == w(f)
        <3>1. s9'[f] = v /\ s10'[f] = v /\ s11'[f] = v /\ f \in Multi
            BY <1>1, <2>1
        <3>2. v \in Monthpicker!Texts /\ v \in Monthpicker!Stored \X Monthpicker!Stored
              /\ MonthsWhole(v, v, v)
            BY <1>3, <2>1
        <3> HIDE DEF v
        <3> QED
            BY <3>1, <3>2, Zenon DEF MonthsFit
    <2>2. CASE f \notin half
        <3>1. s9'[f] = s9[f] /\ s10'[f] = s10[f] /\ s11'[f] = s11[f]
              /\ s5'[f] = (s5[f] /\ f \notin S)
            BY <1>1, <2>2
        <3>2. s9[f] \in Monthpicker!Texts /\ s10[f] \in Monthpicker!Stored \X Monthpicker!Stored
              /\ MonthsFit(f \in Multi, s5[f], s9[f], s10[f], s11[f])
            BY DEF MonthsCore
        <3>3. f \in Multi /\ MonthsBegun(s5[f], s11[f]) => f \notin S
            BY <2>2, MonthsLength
        <3>4. f \in Multi /\ MonthsBegun(s5[f], s11[f]) => MonthsBegun(s5'[f], s11'[f])
            BY <3>1, <3>3, Zenon DEF MonthsBegun
        <3>5. MonthsFit(f \in Multi, s5'[f], s9'[f], s10'[f], s11'[f])
            BY <3>1, <3>2, <3>4, Zenon DEF MonthsFit
        <3> QED
            BY <3>1, <3>2, <3>5, Zenon
    <2> QED
        BY <2>1, <2>2
<1> HIDE DEF half, w
<1>5. DOMAIN s11' = Fields /\ s5' \in [Fields -> BOOLEAN]
    BY <1>1, Zenon
<1>6. s9' \in [Fields -> Monthpicker!Texts]
      /\ s10' \in [Fields -> Monthpicker!Stored \X Monthpicker!Stored]
    BY <1>1, <1>4, Zenon
<1>7. /\ s2' \in BOOLEAN /\ s3' \in BOOLEAN /\ s7' \subseteq Fields
      /\ s2' => s1' \in Fields /\ s5'[s1']
    <2>1. CASE S = {} /\ UNCHANGED <<s2, s3, s7>>
        BY <1>1, <2>1 DEF MonthsCore
    <2>2. CASE s2' = FALSE /\ s3' = FALSE /\ s7' = {}
        BY <2>2
    <2> QED
        BY <1>2, <2>1, <2>2
<1>8. s1' \in Fields \cup {None} /\ s6' \in [Fields -> BOOLEAN] /\ s8' \in [Fields -> Nat]
    BY DEF MonthsCore
<1> QED
    BY <1>4, <1>5, <1>6, <1>7, <1>8, Zenon DEF MonthsCore

(* A field that is worked on while its panel is there                      *)
LEMMA MonthsTake ==
    ASSUME MonthsCore, s1 \in Fields, s2,
           NEW t \in Monthpicker!Texts, NEW h \in Monthpicker!Stored \X Monthpicker!Stored, NEW r,
           NEW shown \in BOOLEAN, MonthsFit(s1 \in Multi, shown, t, h, r),
           s9' = [s9 EXCEPT ![s1] = t], s10' = [s10 EXCEPT ![s1] = h],
           s11' = [s11 EXCEPT ![s1] = r], s5' = [s5 EXCEPT ![s1] = shown],
           s2' \in BOOLEAN, s2' => shown, s3' \in BOOLEAN, s7' \subseteq Fields,
           s8' \in [Fields -> Nat], s4' \in Fields \cup {None}, UNCHANGED <<s1, s6>>
    PROVE  MonthsCore'
<1>1. s9' \in [Fields -> Monthpicker!Texts]
      /\ s10' \in [Fields -> Monthpicker!Stored \X Monthpicker!Stored]
      /\ DOMAIN s11' = Fields /\ s5' \in [Fields -> BOOLEAN]
    BY Zenon DEF MonthsCore
<1>2. ASSUME NEW f \in Fields
      PROVE  MonthsFit(f \in Multi, s5'[f], s9'[f], s10'[f], s11'[f])
    <2>1. CASE f = s1
        <3>1. s5'[f] = shown /\ s9'[f] = t /\ s10'[f] = h /\ s11'[f] = r
            BY <2>1, Zenon DEF MonthsCore
        <3> QED
            BY <2>1, <3>1
    <2>2. CASE f # s1
        <3>1. s5'[f] = s5[f] /\ s9'[f] = s9[f] /\ s10'[f] = s10[f] /\ s11'[f] = s11[f]
            BY <2>2, Zenon DEF MonthsCore
        <3> QED
            BY <3>1 DEF MonthsCore
    <2> QED
        BY <2>1, <2>2
<1>3. s1' \in Fields \cup {None} /\ s6' \in [Fields -> BOOLEAN]
      /\ s2' => s1' \in Fields /\ s5'[s1']
    BY DEF MonthsCore
<1> QED
    BY <1>1, <1>2, <1>3, Zenon DEF MonthsCore

(* What the hidden inputs hold becomes the range.                          *)
LEMMA MonthsFill ==
    ASSUME MonthsCore, NEW f \in Fields, Monthpicker!FillPanel(f)
    PROVE  /\ DOMAIN s11' = Fields /\ s1' = f /\ s7' \subseteq Fields
           /\ \A g \in Fields : MonthsFit(g \in Multi, s5[g], s9[g], s10[g], s11'[g])
<1> USE MonthpickerAssumption
<1>1. s1' = f /\ s7' \subseteq Fields
    BY DEF Monthpicker!FillPanel, MonthsCore
<1>2. CASE f \in Multi /\ s11[f] = <<>> /\ s10[f][2] # None
    <2>1. s11' = [s11 EXCEPT ![f] = s10[f]]
        BY <1>2 DEF Monthpicker!FillPanel
    <2>2. MonthsGiven(s9[f], s10[f], s11[f])
        <3>1. MonthsFit(TRUE, s5[f], s9[f], s10[f], s11[f])
            BY <1>2 DEF MonthsCore, MonthsFit
        <3>2. ~MonthsBegun(s5[f], s11[f]) /\ ~MonthsWhole(s9[f], s10[f], s11[f])
            BY <1>2, MonthsLength
        <3> QED
            BY <3>1, <3>2, Zenon DEF MonthsFit
    <2>3. MonthsWhole(s9[f], s10[f], s10[f])
        <3>1. PICK a \in {Undef, MinDate} : \E b \in {Undef, MaxDate} : s10[f] = <<a, b>>
            BY <2>2 DEF MonthsGiven
        <3>2. PICK b \in {Undef, MaxDate} : s10[f] = <<a, b>>
            BY <3>1
        <3>3. a \in Monthpicker!Month \cup {Undef} /\ b \in Monthpicker!Month \cup {Undef}
            OBVIOUS
        <3>4. Undef \notin {a, b} => /\ s9[f] = <<a, b>> /\ a <= b
                                     /\ {a, b} \subseteq Monthpicker!Enabled \cup {Now}
            <4>1. ASSUME Undef \notin {a, b}
                  PROVE  a = MinDate /\ b = MaxDate /\ s9[f] = s10[f]
                BY <2>2, <3>2, <4>1 DEF MonthsGiven
            <4>2. {MinDate, MaxDate} \subseteq Monthpicker!Enabled
                BY DEF Monthpicker!Enabled, Monthpicker!Month
            <4> QED
                BY <3>2, <4>1, <4>2
        <3> QED
            BY <3>2, <3>3, <3>4, Zenon DEF MonthsWhole
    <2>4. DOMAIN s11' = Fields
        BY <2>1, Zenon DEF MonthsCore
    <2>5. ASSUME NEW g \in Fields
          PROVE  MonthsFit(g \in Multi, s5[g], s9[g], s10[g], s11'[g])
        <3>1. CASE g = f
            <4>1. s11'[g] = s10[f]
                BY <2>1, <3>1, Zenon DEF MonthsCore
            <4> QED
                BY <1>2, <2>3, <3>1, <4>1 DEF MonthsFit
        <3>2. CASE g # f
            <4>1. s11'[g] = s11[g]
                BY <2>1, <3>2, Zenon DEF MonthsCore
            <4> QED
                BY <4>1 DEF MonthsCore
        <3> QED
            BY <3>1, <3>2
    <2> QED
        BY <1>1, <2>4, <2>5
<1>3. CASE ~(f \in Multi /\ s11[f] = <<>> /\ s10[f][2] # None)
    <2>1. s11' = s11
        BY <1>3 DEF Monthpicker!FillPanel
    <2> QED
        BY <1>1, <2>1 DEF MonthsCore
<1> QED
    BY <1>2, <1>3

LEMMA MonthsCoreStep ==
    ASSUME MonthsCore, Monthpicker!Next \/ UNCHANGED Monthpicker!vars
    PROVE  MonthsCore'
<1> USE MonthpickerAssumption
<1>1. (\A f \in Fields : MonthsFit(f \in Multi, s5[f], s9[f], s10[f], s11[f]))
      /\ s9 \in [Fields -> Monthpicker!Texts]
      /\ s10 \in [Fields -> Monthpicker!Stored \X Monthpicker!Stored]
    BY DEF MonthsCore
<1>2. CASE \E f \in Fields : Monthpicker!ShowCalendar(f)
    <2>1. PICK f \in Fields : Monthpicker!ShowCalendar(f)
        BY <1>2
    <2>2. /\ DOMAIN s11' = Fields /\ s1' = f /\ s7' \subseteq Fields
          /\ \A g \in Fields : MonthsFit(g \in Multi, s5[g], s9[g], s10[g], s11'[g])
        BY <2>1, MonthsFill DEF Monthpicker!ShowCalendar
    <2>3. /\ s2' = TRUE /\ s5' = [s5 EXCEPT ![f] = TRUE] /\ s4' \in {f, None}
          /\ UNCHANGED <<s3, s6, s8, s9, s10>>
        BY <2>1, Zenon DEF Monthpicker!ShowCalendar
    <2>4. ASSUME NEW g \in Fields
          PROVE  MonthsFit(g \in Multi, s5'[g], s9'[g], s10'[g], s11'[g])
        <3>1. s9' = s9 /\ s10' = s10 /\ MonthsFit(g \in Multi, s5[g], s9[g], s10[g], s11'[g])
            BY <2>2, <2>3
        <3>2. s5[g] => s5'[g]
            BY <2>3 DEF MonthsCore
        <3>3. MonthsBegun(s5[g], s11'[g]) => MonthsBegun(s5'[g], s11'[g])
            BY <3>2, Zenon DEF MonthsBegun
        <3> QED
            BY <3>1, <3>3, Zenon DEF MonthsFit
    <2>5. s5' \in [Fields -> BOOLEAN] /\ s5'[f] /\ s3' \in BOOLEAN
        BY <2>3 DEF MonthsCore
    <2> QED
        BY <2>2, <2>3, <2>4, <2>5, Zenon DEF MonthsCore
<1>3. CASE \E f \in Fields \cup {None} : Monthpicker!Focus(f)
    <2>1. PICK f \in Fields \cup {None} : Monthpicker!Focus(f)
        BY <1>3
    <2>2. Monthpicker!Hide(Monthpicker!Blurred) /\ s4' = f /\ UNCHANGED <<s1, s6, s8>>
        BY <2>1 DEF Monthpicker!Focus
    <2>3. Monthpicker!Blurred \in SUBSET Fields
        BY DEF Monthpicker!Blurred, MonthsCore
    <2> QED
        BY <2>2, <2>3, MonthsHide
<1>4. CASE \E resized \in BOOLEAN : Monthpicker!DocumentHandle(resized)
    <2>1. PICK resized \in BOOLEAN : Monthpicker!DocumentHandle(resized)
        BY <1>4
    <2> DEFINE S == {f \in Fields : s5[f]} \cup IF resized THEN {} ELSE Monthpicker!Blurred
    <2>2. Monthpicker!Hide(S) /\ s4' \in {s4, None} /\ UNCHANGED <<s1, s6, s8>>
        BY <2>1 DEF Monthpicker!DocumentHandle
    <2>3. S \in SUBSET Fields
        BY DEF Monthpicker!Blurred, MonthsCore
    <2>4. s4' \in Fields \cup {None}
        BY <2>2 DEF MonthsCore
    <2> HIDE DEF S
    <2> QED
        BY <2>2, <2>3, <2>4, MonthsHide
<1>5. CASE Monthpicker!MouseEnter \/ Monthpicker!MouseLeave
    <2>1. /\ UNCHANGED <<s1, s2, s4, s5, s7, s8, s9, s10, s11>> /\ s3' \in BOOLEAN
          /\ s6' \in [Fields -> BOOLEAN]
        <3>1. CASE Monthpicker!MouseEnter
            BY <3>1 DEF Monthpicker!MouseEnter, Monthpicker!values, MonthsCore
        <3>2. CASE Monthpicker!MouseLeave
            BY <3>2 DEF Monthpicker!MouseLeave, Monthpicker!values, MonthsCore
        <3> QED
            BY <1>5, <3>1, <3>2
    <2> QED
        BY <2>1 DEF MonthsCore
<1>6. CASE Monthpicker!TurnYear
    <2>1. /\ s2 /\ Monthpicker!FillPanel(s1) /\ s4' = None
          /\ Monthpicker!GoPrevYear(s1) \/ Monthpicker!GoNextYear(s1) \/ Monthpicker!YearSelect(s1)
          /\ UNCHANGED <<s2, s3, s5, s6, s9, s10>>
        BY <1>6 DEF Monthpicker!TurnYear, Monthpicker!InPanel
    <2>2. s1 \in Fields /\ s5[s1]
        BY <2>1 DEF MonthsCore
    <2>3. /\ DOMAIN s11' = Fields /\ s1' = s1 /\ s7' \subseteq Fields
          /\ \A g \in Fields : MonthsFit(g \in Multi, s5[g], s9[g], s10[g], s11'[g])
        BY <2>1, <2>2, MonthsFill
    <2>4. s8' \in [Fields -> Nat]
        <3>1. s8 \in [Fields -> Nat]
            BY DEF MonthsCore
        <3>2. CASE Monthpicker!GoPrevYear(s1)
            <4>1. s8[s1] > BeginYear * PerYear /\ s8' = [s8 EXCEPT ![s1] = s8[s1] - PerYear]
                BY <3>2 DEF Monthpicker!GoPrevYear
            <4>2. BeginYear * PerYear \in Nat /\ BeginYear * PerYear >= PerYear
                OBVIOUS
            <4>3. s8[s1] - PerYear \in Nat
                BY <2>2, <3>1, <4>1, <4>2
            <4> QED
                BY <3>1, <4>1, <4>3
        <3>3. CASE Monthpicker!GoNextYear(s1)
            BY <2>2, <3>1, <3>3 DEF Monthpicker!GoNextYear
        <3>4. CASE Monthpicker!YearSelect(s1)
            <4>1. PICK y \in BeginYear .. EndYear : s8' = [s8 EXCEPT ![s1] = y * PerYear]
                BY <3>4 DEF Monthpicker!YearSelect
            <4>2. y * PerYear \in Nat
                BY <4>1
            <4> QED
                BY <3>1, <4>1, <4>2
        <3> QED
            BY <2>1, <3>2, <3>3, <3>4
    <2> QED
        BY <2>1, <2>2, <2>3, <2>4 DEF MonthsCore
<1>7. ASSUME Monthpicker!InPanel, NEW m \in Monthpicker!Picked(s1)
      PROVE  /\ s1 \in Fields /\ s2 /\ s5[s1] /\ s4' = None /\ m \in Monthpicker!Enabled
             /\ m \in Monthpicker!Month /\ m \in Int
    BY <1>7 DEF Monthpicker!InPanel, Monthpicker!Picked, Monthpicker!Enabled, Monthpicker!Month, MonthsCore
<1>8. CASE Monthpicker!PickFirst
    <2>1. PICK m \in Monthpicker!Picked(s1) : Monthpicker!Take(s1, <<m>>)
        BY <1>8 DEF Monthpicker!PickFirst
    <2>2. /\ Monthpicker!InPanel /\ s1 \in Multi
          /\ UNCHANGED <<s1, s2, s3, s5, s6, s7, s8>>
        BY <1>8 DEF Monthpicker!PickFirst
    <2>3. /\ s1 \in Fields /\ s2 /\ s5[s1] /\ s4' = None /\ m \in Monthpicker!Enabled
          /\ m \in Monthpicker!Month
        BY <1>7, <2>1, <2>2
    <2>4. /\ s11' = [s11 EXCEPT ![s1] = <<m>>] /\ s9' = [s9 EXCEPT ![s1] = <<m>>]
          /\ s10' = [s10 EXCEPT ![s1] = <<m, None>>]
        <3>1. Len(<<m>>) # 2 /\ <<m>>[1] = m
            OBVIOUS
        <3> QED
            BY <2>1, <3>1 DEF Monthpicker!Take
    <2>5. <<m>> \in Monthpicker!Texts
        <3>1. <<m>> \in {<<n>> : n \in Monthpicker!Month}
            BY <2>3
        <3> QED
            BY <3>1 DEF Monthpicker!Texts
    <2>6. <<m, None>> \in Monthpicker!Stored \X Monthpicker!Stored
        BY <2>3 DEF Monthpicker!Stored
    <2>7. MonthsFit(s1 \in Multi, TRUE, <<m>>, <<m, None>>, <<m>>)
        BY <2>2, <2>3 DEF MonthsFit, MonthsBegun
    <2>8. s5' = [s5 EXCEPT ![s1] = TRUE] /\ s2' \in BOOLEAN /\ s3' \in BOOLEAN
          /\ s7' \subseteq Fields /\ s8' \in [Fields -> Nat] /\ s4' \in Fields \cup {None}
        BY <2>2, <2>3 DEF MonthsCore
    <2> QED
        BY <2>2, <2>3, <2>4, <2>5, <2>6, <2>7, <2>8, MonthsTake
<1>9. CASE Monthpicker!PickLast
    <2>1. PICK m \in Monthpicker!Picked(s1) :
             IF s1 \in Multi
             THEN /\ Len(s11[s1]) = 1
                  /\ Monthpicker!Take(s1, Monthpicker!Sorted(Append(s11[s1], m)))
             ELSE s9' = [s9 EXCEPT ![s1] = <<m>>] /\ UNCHANGED <<s10, s11>>
        BY <1>9 DEF Monthpicker!PickLast
    <2>2. /\ Monthpicker!InPanel /\ s2' = FALSE /\ s3' = FALSE /\ s7' = {}
          /\ s5' = [s5 EXCEPT ![s1] = FALSE] /\ UNCHANGED <<s1, s6, s8>>
        BY <1>9 DEF Monthpicker!PickLast
    <2>3. /\ s1 \in Fields /\ s2 /\ s4' = None /\ m \in Monthpicker!Enabled
          /\ m \in Monthpicker!Month
        BY <1>7, <2>1, <2>2
    <2>4. s2' \in BOOLEAN /\ s3' \in BOOLEAN /\ ~s2' /\ s8' \in [Fields -> Nat]
          /\ s7' \subseteq Fields /\ s4' \in Fields \cup {None}
        BY <2>2, <2>3 DEF MonthsCore
    <2>5. CASE s1 \in Multi
        <3> DEFINE r == Monthpicker!Sorted(Append(s11[s1], m))
        <3>1. PICK n \in Monthpicker!Enabled : s11[s1] = <<n>>
            <4>1. MonthsFit(TRUE, s5[s1], s9[s1], s10[s1], s11[s1])
                BY <1>1, <2>3, <2>5 DEF MonthsFit
            <4>2. MonthsGiven(s9[s1], s10[s1], s11[s1]) => Len(s11[s1]) = 0
                BY MonthsLength, Zenon
            <4>3. MonthsWhole(s9[s1], s10[s1], s11[s1]) => Len(s11[s1]) = 2
                BY MonthsLength, Zenon
            <4>4. MonthsBegun(s5[s1], s11[s1])
                BY <2>1, <2>5, <4>1, <4>2, <4>3, SMTT(30) DEF MonthsFit
            <4> QED
                BY <4>4 DEF MonthsBegun
        <3>2. /\ r \in Monthpicker!Texts /\ r \in Monthpicker!Stored \X Monthpicker!Stored
              /\ Len(r) = 2 /\ MonthsWhole(r, r, r)
            BY <2>3, <3>1, MonthsSorted
        <3>3. Monthpicker!Take(s1, r)
            BY <2>1, <2>5
        <3> HIDE DEF r
        <3>4. /\ s11' = [s11 EXCEPT ![s1] = r] /\ s9' = [s9 EXCEPT ![s1] = r]
              /\ s10' = [s10 EXCEPT ![s1] = r]
            BY <3>2, <3>3 DEF Monthpicker!Take
        <3>5. MonthsFit(s1 \in Multi, FALSE, r, r, r)
            BY <2>5, <3>2, Zenon DEF MonthsFit
        <3> QED
            BY <2>2, <2>3, <2>4, <3>2, <3>4, <3>5, MonthsTake
    <2>6. CASE s1 \notin Multi
        <3>1. s9' = [s9 EXCEPT ![s1] = <<m>>] /\ s10' = s10 /\ s11' = s11
            BY <2>1, <2>6
        <3>2. <<m>> \in Monthpicker!Texts
            <4>1. <<m>> \in {<<n>> : n \in Monthpicker!Month}
                BY <2>3
            <4> QED
                BY <4>1 DEF Monthpicker!Texts
        <3>3. s9' \in [Fields -> Monthpicker!Texts] /\ s5' \in [Fields -> BOOLEAN]
            BY <1>1, <2>2, <2>3, <3>1, <3>2 DEF MonthsCore
        <3>4. ASSUME NEW f \in Fields
              PROVE  MonthsFit(f \in Multi, s5'[f], s9'[f], s10'[f], s11'[f])
            <4>1. CASE f = s1
                BY <1>1, <2>6, <3>1, <4>1 DEF MonthsFit
            <4>2. CASE f # s1
                <5>1. s5'[f] = s5[f] /\ s9'[f] = s9[f]
                    BY <1>1, <2>2, <3>1, <4>2 DEF MonthsCore
                <5> QED
                    BY <1>1, <3>1, <5>1
            <4> QED
                BY <4>1, <4>2
        <3> QED
            BY <2>2, <2>4, <3>1, <3>3, <3>4 DEF MonthsCore
    <2> QED
        BY <2>5, <2>6
<1>10. CASE UNCHANGED Monthpicker!vars
    BY <1>10 DEF Monthpicker!vars, MonthsCore
<1> QED
    BY <1>2, <1>3, <1>4, <1>5, <1>6, <1>8, <1>9, <1>10, Zenon DEF Monthpicker!Next

(* What the form posts                                                     *)
LEMMA MonthsHold == MonthsCore => Monthpicker!Inv
<1> SUFFICES ASSUME MonthsCore
             PROVE  Monthpicker!Inv
    OBVIOUS
<1>1. ASSUME NEW f \in Fields
      PROVE  /\ Len(s9[f]) <= 2 /\ \A i \in DOMAIN s9[f] : s9[f][i] \in Monthpicker!Month
             /\ Len(s11[f]) <= 2
    <2>1. s9[f] \in Monthpicker!Texts
        BY DEF MonthsCore
    <2>2. Len(s9[f]) <= 2 /\ \A i \in DOMAIN s9[f] : s9[f][i] \in Monthpicker!Month
        <3>1. CASE s9[f] = <<>>
            BY <3>1
        <3>2. ASSUME NEW m \in Monthpicker!Month, s9[f] = <<m>>
              PROVE  Len(s9[f]) <= 2 /\ \A i \in DOMAIN s9[f] : s9[f][i] \in Monthpicker!Month
            BY <3>2
        <3>3. ASSUME NEW m \in Monthpicker!Month, NEW n \in Monthpicker!Month, s9[f] = <<m, n>>
              PROVE  Len(s9[f]) <= 2 /\ \A i \in DOMAIN s9[f] : s9[f][i] \in Monthpicker!Month
            BY <3>3
        <3>4. \/ s9[f] = <<>>
              \/ \E m \in Monthpicker!Month : s9[f] = <<m>>
              \/ \E m \in Monthpicker!Month, n \in Monthpicker!Month : s9[f] = <<m, n>>
            BY <2>1 DEF Monthpicker!Texts
        <3> QED
            BY <3>1, <3>2, <3>3, <3>4, Zenon
    <2>3. Len(s11[f]) <= 2
        <3>1. MonthsFit(f \in Multi, s5[f], s9[f], s10[f], s11[f])
            BY DEF MonthsCore
        <3>2. s11[f] = <<>> => Len(s11[f]) = 0
            OBVIOUS
        <3>3. MonthsBegun(s5[f], s11[f]) => Len(s11[f]) = 1
            BY MonthsLength, Zenon
        <3>4. MonthsWhole(s9[f], s10[f], s11[f]) => Len(s11[f]) = 2
            BY MonthsLength, Zenon
        <3>5. s11[f] = <<>> \/ MonthsBegun(s5[f], s11[f]) \/ MonthsWhole(s9[f], s10[f], s11[f])
            BY <3>1, Zenon DEF MonthsFit, MonthsGiven
        <3>6. Len(s11[f]) = 0 \/ Len(s11[f]) = 1 \/ Len(s11[f]) = 2
            BY <3>2, <3>3, <3>4, <3>5, Zenon
        <3>7. \A k : k = 0 \/ k = 1 \/ k = 2 => k <= 2
            OBVIOUS
        <3> QED
            BY <3>6, <3>7, Zenon
    <2> QED
        BY <2>2, <2>3
<1>2. Monthpicker!TypeOK
    BY <1>1, Zenon DEF MonthsCore, Monthpicker!TypeOK
<1>3. Monthpicker!MonthsAreWhole
    <2>1. ASSUME NEW f \in Multi, ~s5[f], s11[f] # <<>>
          PROVE  /\ Len(s11[f]) = 2 /\ s10[f] = s11[f]
                 /\ Undef \notin {s11[f][1], s11[f][2]} =>
                       /\ s9[f] = s11[f] /\ s11[f][1] <= s11[f][2]
                       /\ {s11[f][1], s11[f][2]} \subseteq Monthpicker!Enabled \cup {Now}
        <3>1. MonthsFit(f \in Multi, s5[f], s9[f], s10[f], s11[f])
            BY <2>1, MonthpickerAssumption DEF MonthsCore
        <3>2. MonthsWhole(s9[f], s10[f], s11[f])
            BY <2>1, <3>1, Zenon DEF MonthsFit, MonthsGiven, MonthsBegun
        <3>3. PICK a \in Monthpicker!Month \cup {Undef} : \E b \in Monthpicker!Month \cup {Undef} :
                 /\ s11[f] = <<a, b>> /\ s10[f] = <<a, b>>
                 /\ Undef \notin {a, b} => /\ s9[f] = <<a, b>> /\ a <= b
                                           /\ {a, b} \subseteq Monthpicker!Enabled \cup {Now}
            BY <3>2, Zenon DEF MonthsWhole
        <3>4. PICK b \in Monthpicker!Month \cup {Undef} :
                 /\ s11[f] = <<a, b>> /\ s10[f] = <<a, b>>
                 /\ Undef \notin {a, b} => /\ s9[f] = <<a, b>> /\ a <= b
                                           /\ {a, b} \subseteq Monthpicker!Enabled \cup {Now}
            BY <3>3, Zenon
        <3>5. s11[f][1] = a /\ s11[f][2] = b /\ Len(s11[f]) = 2
            BY <3>4
        <3> QED
            BY <3>4, <3>5, Zenon
    <2> QED
        BY <2>1, Zenon DEF Monthpicker!MonthsAreWhole
<1>4. \A f \in Fields : IF f \in Multi
                        THEN Monthpicker!Given(f) \/ Monthpicker!Begun(f) \/ Monthpicker!Whole(f)
                        ELSE s11[f] = <<>>
    BY Zenon DEF MonthsCore, MonthsFit, MonthsGiven, MonthsBegun, MonthsWhole,
                 Monthpicker!Given, Monthpicker!Begun, Monthpicker!Whole
<1> QED
    BY <1>2, <1>3, <1>4, Zenon DEF MonthsCore, Monthpicker!Inv

LEMMA MonthpickerInit == Monthpicker!Init => Monthpicker!Inv
<1> SUFFICES ASSUME Monthpicker!Init
             PROVE  MonthsCore
    BY MonthsHold
<1> USE MonthpickerAssumption
<1>1. s10 \in [Fields -> {Undef, MinDate} \X {Undef, MaxDate}]
    BY DEF Monthpicker!Init
<1>2. ASSUME NEW f \in Fields
      PROVE  /\ s9[f] \in Monthpicker!Texts /\ s10[f] \in Monthpicker!Stored \X Monthpicker!Stored
             /\ Len(s9[f]) = 2 => s9[f][1] \in Monthpicker!Month
             /\ f \in Multi => MonthsGiven(s9[f], s10[f], <<>>)
    <2>1. PICK a \in {Undef, MinDate} : \E b \in {Undef, MaxDate} : s10[f] = <<a, b>>
        BY <1>1
    <2>2. PICK b \in {Undef, MaxDate} : s10[f] = <<a, b>>
        BY <2>1
    <2>3. /\ a = Undef => s9[f] = <<>>
          /\ a # Undef /\ f \in Multi /\ b # Undef => s9[f] = <<a, b>>
          /\ a # Undef /\ ~(f \in Multi /\ b # Undef) => s9[f] = <<a>>
        BY <2>2 DEF Monthpicker!Init
    <2>4. s10[f] \in Monthpicker!Stored \X Monthpicker!Stored
        BY <2>2 DEF Monthpicker!Stored
    <2>5. CASE a = Undef
        <3>1. s9[f] = <<>> /\ s10[f][1] = Undef /\ s10[f] \in {Undef, MinDate} \X {Undef, MaxDate}
            <4>1. s9[f] = <<>>
                BY <2>3, <2>5
            <4>2. s10[f][1] = Undef /\ s10[f] \in {Undef, MinDate} \X {Undef, MaxDate}
                BY <2>2, <2>5
            <4> QED
                BY <4>1, <4>2
        <3>2. Len(<<>>) # 2 /\ <<>> \in Monthpicker!Texts
            BY DEF Monthpicker!Texts
        <3>3. MonthsGiven(<<>>, s10[f], <<>>)
            BY <3>1 DEF MonthsGiven
        <3> QED
            BY <2>4, <3>1, <3>2, <3>3
    <2>6. CASE a # Undef /\ f \in Multi /\ b # Undef
        <3>1. s9[f] = <<a, b>> /\ a \in Monthpicker!Month /\ b \in Monthpicker!Month
            BY <2>3, <2>6
        <3>2. <<a, b>> \in {<<m, n>> : m, n \in Monthpicker!Month} /\ <<a, b>>[1] = a
            BY <3>1
        <3> QED
            BY <2>2, <2>4, <3>1, <3>2 DEF Monthpicker!Texts, MonthsGiven
    <2>7. CASE a # Undef /\ ~(f \in Multi /\ b # Undef)
        <3>1. s9[f] = <<a>> /\ a \in Monthpicker!Month
            BY <2>3, <2>7
        <3>2. <<a>> \in {<<m>> : m \in Monthpicker!Month} /\ Len(<<a>>) = 1
            BY <3>1
        <3> QED
            BY <2>2, <2>4, <2>7, <3>1, <3>2 DEF Monthpicker!Texts, MonthsGiven
    <2> QED
        BY <2>5, <2>6, <2>7
<1>3. s9 \in [Fields -> Monthpicker!Texts]
      /\ s10 \in [Fields -> Monthpicker!Stored \X Monthpicker!Stored]
    BY <1>1, <1>2 DEF Monthpicker!Init
<1>4. Monthpicker!Month \subseteq Nat
    BY DEF Monthpicker!Month
<1>5. s8 \in [Fields -> Nat]
    BY <1>2, <1>4 DEF Monthpicker!Init
<1>6. \A f \in Fields : MonthsFit(f \in Multi, s5[f], s9[f], s10[f], s11[f])
    BY <1>2 DEF Monthpicker!Init, MonthsFit
<1> QED
    BY <1>3, <1>5, <1>6 DEF Monthpicker!Init, MonthsCore

LEMMA MonthpickerStep ==
    ASSUME Monthpicker!Inv, Monthpicker!Next \/ UNCHANGED Monthpicker!vars
    PROVE  Monthpicker!Inv'
<1>1. MonthsCore
    BY Zenon DEF MonthsCore, MonthsFit, MonthsGiven, MonthsBegun, MonthsWhole, Monthpicker!Inv,
       Monthpicker!TypeOK, Monthpicker!Given, Monthpicker!Begun, Monthpicker!Whole
<1>2. MonthsCore'
    BY <1>1, MonthsCoreStep
<1> QED
    BY <1>2, MonthsHold, PTL
-----------------------------------------------------------------------------
(* Comboboxes                                                              *)
(* The object of a field, what its listeners were told, and what is seen   *)
ComboObj ==
    [data : SUBSET Choices, strData : SUBSET Choices, lastData : SUBSET Choices,
     panel : SUBSET Choices, open : BOOLEAN, isFirst : BOOLEAN,
     isSelectBlur : BOOLEAN, text : Combobox!Texts, value : Combobox!Values,
     selectValue : Combobox!Values, selectText : Combobox!Texts]
ComboIs(v, t) == v \in {t, Combobox!Raw(t)}
ComboTold(c) ==
    /\ s1 => c.value \in Choices \cup {None}
    /\ s2 => c.selectValue = c.value /\ ComboIs(c.selectValue, c.selectText)
ComboCore ==
    /\ s1 \in BOOLEAN /\ s2 \in BOOLEAN /\ s4 \in BOOLEAN /\ s5 \in BOOLEAN /\ s6 \in BOOLEAN
    /\ s3 \in ComboObj /\ ComboTold(s3)
    /\ s2 /\ ~s6 /\ (~s4 \/ s3.isSelectBlur) => ComboIs(s3.value, s3.text)

LEMMA ComboSame == ComboCore <=> Combobox!Inv
<1>1. Combobox!TypeOK <=>
         /\ s1 \in BOOLEAN /\ s2 \in BOOLEAN /\ s4 \in BOOLEAN /\ s5 \in BOOLEAN /\ s6 \in BOOLEAN
         /\ s3 \in ComboObj
    BY Zenon DEF Combobox!TypeOK, ComboObj
<1> QED
    BY <1>1, Zenon DEF ComboCore, Combobox!Inv, Combobox!FieldsAgree, ComboTold, ComboIs

(* Items, texts and values                                                 *)
LEMMA ComboValues ==
    /\ \A i \in Choices \cup {None} : i \in Combobox!Values /\ i \in Combobox!Texts
    /\ \A t \in Combobox!Texts : Combobox!Raw(t) \in Combobox!Values
    /\ \A t : ComboIs(t, t) /\ ComboIs(Combobox!Raw(t), t)
<1>1. ASSUME NEW t \in Combobox!Texts
      PROVE  Combobox!Raw(t) \in Combobox!Values
    BY Zenon DEF Combobox!Values
<1>2. None \in Combobox!Texts /\ Combobox!Raw(None) = None
    BY Zenon DEF Combobox!Texts, Combobox!Raw
<1>3. None \in Combobox!Values
    BY <1>1, <1>2, Zenon
<1>4. ASSUME NEW i \in Choices
      PROVE  i \in Combobox!Values /\ i \in Combobox!Texts
    BY Zenon DEF Combobox!Values, Combobox!Texts
<1>5. \A t : ComboIs(t, t) /\ ComboIs(Combobox!Raw(t), t)
    BY Zenon DEF ComboIs
<1> QED
    BY <1>1, <1>2, <1>3, <1>4, <1>5, Zenon

(* The fields that are only kept                                           *)
ComboLike(c, d) ==
    /\ c \in ComboObj /\ d.value = c.value /\ d.text = c.text /\ d.isSelectBlur = c.isSelectBlur
    /\ d.selectValue = c.selectValue /\ d.selectText = c.selectText

LEMMA ComboShown ==
    ASSUME NEW c \in ComboObj, NEW v \in Combobox!Values, NEW t \in Combobox!Texts
    PROVE  LET d == Combobox!Shown(c, v, t)
           IN  /\ d \in ComboObj /\ d.value = v /\ d.text = t /\ d.isSelectBlur = c.isSelectBlur
               /\ d.selectValue = c.selectValue /\ d.selectText = c.selectText
    BY DEF Combobox!Shown, ComboObj

LEMMA ComboSelected ==
    ASSUME NEW c \in ComboObj, NEW v \in Combobox!Values, NEW t \in Combobox!Texts,
           c.value = v, ComboIs(v, t), s1 => v \in Choices \cup {None},
           s2 => ComboIs(c.selectValue, c.selectText)
    PROVE  LET d == Combobox!Selected(c, v, t)
           IN  /\ d \in ComboObj /\ ComboTold(d) /\ d.value = c.value /\ d.text = c.text
               /\ d.isSelectBlur = c.isSelectBlur
<1>1. CASE v = c.selectValue
    <2>1. Combobox!Selected(c, v, t) = c
        BY <1>1, Zenon DEF Combobox!Selected
    <2> QED
        BY <1>1, <2>1, Zenon DEF ComboTold
<1>2. CASE v # c.selectValue
    <2> DEFINE d == Combobox!Selected(c, v, t)
    <2>1. /\ d \in ComboObj /\ d.value = c.value /\ d.text = c.text
          /\ d.isSelectBlur = c.isSelectBlur /\ d.selectValue = v /\ d.selectText = t
        BY <1>2 DEF Combobox!Selected, ComboObj
    <2> HIDE DEF d
    <2>2. ComboTold(d)
        BY <2>1, Zenon DEF ComboTold
    <2> QED
        BY <2>1, <2>2 DEF d
<1> QED
    BY <1>1, <1>2

(* Both: the field is filled and its listeners are told.                   *)
LEMMA ComboTell ==
    ASSUME NEW c \in ComboObj, ComboTold(c), NEW v \in Combobox!Values, NEW t \in Combobox!Texts,
           ComboIs(v, t), s1 => v \in Choices \cup {None}
    PROVE  LET d == Combobox!Selected(Combobox!Shown(c, v, t), v, t)
           IN  /\ d \in ComboObj /\ ComboTold(d) /\ d.value = v /\ d.text = t
               /\ d.isSelectBlur = c.isSelectBlur
<1> DEFINE e == Combobox!Shown(c, v, t)
<1>1. /\ e \in ComboObj /\ e.value = v /\ e.text = t /\ e.isSelectBlur = c.isSelectBlur
      /\ e.selectValue = c.selectValue /\ e.selectText = c.selectText
    BY ComboShown
<1>2. s2 => ComboIs(c.selectValue, c.selectText)
    BY Zenon DEF ComboTold
<1> HIDE DEF e
<1>3. /\ Combobox!Selected(e, v, t) \in ComboObj /\ ComboTold(Combobox!Selected(e, v, t))
      /\ Combobox!Selected(e, v, t).value = e.value /\ Combobox!Selected(e, v, t).text = e.text
      /\ Combobox!Selected(e, v, t).isSelectBlur = e.isSelectBlur
    BY <1>1, <1>2, ComboSelected
<1> QED
    BY <1>1, <1>3 DEF e

LEMMA ComboKeeps ==
    ASSUME NEW c, NEW d, ComboLike(c, d), ComboTold(c)
    PROVE  ComboTold(d)
    BY Zenon DEF ComboLike, ComboTold

(* The default value                                                       *)
LEMMA ComboDefault ==
    ASSUME NEW c \in ComboObj, ComboTold(c), NEW v, s2 \in BOOLEAN
    PROVE  LET d == Combobox!SetDefaultValue(c, v)
           IN  d \in ComboObj /\ ComboTold(d) /\ (s2 => ComboIs(d.value, d.text))
<1> DEFINE w == IF v \in c.data THEN v ELSE None
           d == Combobox!SetDefaultValue(c, v)
<1>1. w \in Choices \cup {None} /\ c.data \subseteq Choices
    BY DEF ComboObj
<1>2. w \in Combobox!Values /\ w \in Combobox!Texts /\ ComboIs(w, w)
    BY <1>1, ComboValues, Zenon
<1>3. CASE s2
    <2>1. d = Combobox!Selected(Combobox!Shown(c, w, w), w, w)
        BY <1>3, Zenon DEF Combobox!SetDefaultValue
    <2> HIDE DEF w, d
    <2>2. d \in ComboObj /\ ComboTold(d) /\ d.value = w /\ d.text = w
        BY <1>1, <1>2, <2>1, ComboTell
    <2> QED
        BY <1>2, <2>2 DEF d
<1>4. CASE ~s2
    <2>1. d = [c EXCEPT !.value = None]
        BY <1>4, Zenon DEF Combobox!SetDefaultValue
    <2>2. None \in Combobox!Values
        BY ComboValues
    <2> HIDE DEF w, d
    <2>3. d \in ComboObj /\ d.value = None
        BY <2>1, <2>2 DEF ComboObj
    <2> QED
        BY <1>4, <2>3, Zenon DEF ComboTold, d
<1> QED
    BY <1>3, <1>4

(* The panel                                                               *)
LEMMA ComboPanel ==
    ASSUME NEW c \in ComboObj, NEW data \in SUBSET Choices, NEW isSearch \in BOOLEAN
    PROVE  LET d == Combobox!InitSearchPanel(c, data, isSearch)
           IN  d \in ComboObj /\ ComboLike(c, d)
<1> DEFINE anew == isSearch \/ c.isFirst
           p == IF c.isFirst THEN [c EXCEPT !.panel = {}, !.open = FALSE] ELSE c
           q == [p EXCEPT !.lastData = data,
                          !.strData = IF p.isFirst THEN @ \cup data ELSE @]
           f == IF anew \/ c.lastData # data THEN q ELSE p
           d == Combobox!InitSearchPanel(c, data, isSearch)
<1>1. p \in ComboObj /\ ComboLike(c, p)
    <2>1. CASE c.isFirst
        BY <2>1 DEF ComboObj, ComboLike
    <2>2. CASE ~c.isFirst
        BY <2>2 DEF ComboLike
    <2> QED
        BY <2>1, <2>2
<1> HIDE DEF p
<1>2. q \in ComboObj /\ ComboLike(c, q)
    BY <1>1 DEF ComboObj, ComboLike
<1>3. f = q \/ f = p
    BY Zenon
<1>4. d \in {p, [f EXCEPT !.open = FALSE],
             [f EXCEPT !.open = TRUE, !.isFirst = FALSE,
                       !.panel = IF anew \/ c.lastData # data THEN data ELSE @]}
    <2> DEFINE e == [f EXCEPT !.open = FALSE]
               g == [f EXCEPT !.open = TRUE, !.isFirst = FALSE,
                              !.panel = IF anew \/ c.lastData # data THEN data ELSE @]
    <2>1. d = CASE data = {} /\ ~anew -> p
                [] data = {} /\ anew  -> e
                [] OTHER -> g
        BY Zenon DEF Combobox!InitSearchPanel, Combobox!FormatDataToHtml, p
    <2> HIDE DEF e, g, d, anew, f
    <2>2. d = p \/ d = e \/ d = g
        <3>1. CASE data = {} /\ ~anew
            BY <2>1, <3>1, Zenon
        <3>2. CASE data = {} /\ anew
            BY <2>1, <3>2, Zenon
        <3>3. CASE data # {}
            BY <2>1, <3>3, Zenon
        <3> QED
            BY <3>1, <3>2, <3>3, Zenon
    <2> QED
        BY <2>2, Zenon DEF e, g
<1>5. f \in ComboObj /\ ComboLike(c, f)
    BY <1>1, <1>2, <1>3
<1> HIDE DEF f, d, anew
<1>6. [f EXCEPT !.open = FALSE] \in ComboObj /\ ComboLike(c, [f EXCEPT !.open = FALSE])
    BY <1>5 DEF ComboObj, ComboLike
<1> DEFINE g == [f EXCEPT !.open = TRUE, !.isFirst = FALSE,
                          !.panel = IF anew \/ c.lastData # data THEN data ELSE @]
<1>7. g \in ComboObj /\ ComboLike(c, g)
    BY <1>5 DEF ComboObj, ComboLike
<1> QED
    BY <1>1, <1>4, <1>6, <1>7 DEF d

(* An item of the panel                                                    *)
LEMMA ComboChange ==
    ASSUME NEW c \in ComboObj, ComboTold(c), NEW i \in Choices
    PROVE  LET d == Combobox!ChangeSelect(c, i)
           IN  /\ d \in ComboObj /\ ComboTold(d) /\ ComboIs(d.value, d.text)
               /\ d.isSelectBlur = c.isSelectBlur
<1> DEFINE e == Combobox!Shown(c, i, i)
           s == [e EXCEPT !.open = FALSE]
<1>1. i \in Combobox!Values /\ i \in Combobox!Texts /\ ComboIs(i, i)
    BY ComboValues
<1>2. /\ e \in ComboObj /\ e.value = i /\ e.text = i /\ e.isSelectBlur = c.isSelectBlur
      /\ e.selectValue = c.selectValue /\ e.selectText = c.selectText
    BY <1>1, ComboShown
<1> HIDE DEF e
<1>3. /\ s \in ComboObj /\ s.value = i /\ s.text = i /\ s.isSelectBlur = c.isSelectBlur
      /\ s.selectValue = c.selectValue /\ s.selectText = c.selectText
    BY <1>2 DEF ComboObj
<1>4. Combobox!ChangeSelect(c, i) = IF c.value = i THEN s ELSE Combobox!Selected(s, i, i)
    BY Zenon DEF Combobox!ChangeSelect, e
<1> HIDE DEF s
<1>5. CASE c.value = i
    BY <1>1, <1>3, <1>4, <1>5, Zenon DEF ComboTold
<1>6. CASE c.value # i
    <2> DEFINE d == Combobox!Selected(s, i, i)
    <2>1. s2 => ComboIs(s.selectValue, s.selectText)
        BY <1>3, Zenon DEF ComboTold
    <2>2. d \in ComboObj /\ ComboTold(d) /\ d.value = s.value /\ d.text = s.text
          /\ d.isSelectBlur = s.isSelectBlur
        BY <1>1, <1>3, <2>1, ComboSelected
    <2> HIDE DEF d
    <2>3. d = Combobox!ChangeSelect(c, i)
        BY <1>4, <1>6 DEF d
    <2> QED
        BY <1>1, <1>3, <2>2, <2>3, Zenon
<1> QED
    BY <1>5, <1>6

(* The field is left.                                                      *)
LEMMA ComboBlurred ==
    ASSUME NEW c \in ComboObj, ComboTold(c), s1 \in BOOLEAN
    PROVE  LET d == Combobox!Blurred(c)
           IN  /\ d \in ComboObj /\ ComboTold(d) /\ ~d.isSelectBlur
               /\ s2 /\ (c.isSelectBlur => ComboIs(c.value, c.text)) => ComboIs(d.value, d.text)
<1> DEFINE d == Combobox!Blurred(c)
           v == CASE ~s1 -> Combobox!Raw(c.text)
                  [] s1 /\ c.text \in c.strData -> c.text
                  [] OTHER -> None
           t == IF ~s1 \/ v # None THEN c.text ELSE None
<1>1. d = CASE c.isSelectBlur -> [c EXCEPT !.isSelectBlur = FALSE]
            [] ~c.isSelectBlur /\ ~s1 /\ c.text = c.selectText -> c
            [] OTHER -> IF v = c.value THEN [c EXCEPT !.text = t]
                        ELSE Combobox!Selected(Combobox!Shown(c, v, t), v, t)
    BY Zenon DEF Combobox!Blurred
<1>2. /\ c.isSelectBlur \in BOOLEAN /\ c.text \in Combobox!Texts /\ c.strData \subseteq Choices
    BY DEF ComboObj
<1>3. v \in Combobox!Values /\ t \in Combobox!Texts /\ ComboIs(v, t)
      /\ (s1 => v \in Choices \cup {None})
    <2>1. CASE ~s1
        <3>1. v = Combobox!Raw(c.text)
            BY <2>1, Zenon
        <3>2. t = c.text
            BY <2>1, Zenon
        <3> HIDE DEF v, t
        <3> QED
            BY <1>2, <2>1, <3>1, <3>2, ComboValues, Zenon
    <2>2. CASE s1 /\ c.text \in c.strData
        <3>1. v = c.text
            BY <2>2, Zenon
        <3> HIDE DEF v
        <3>2. t = v
            BY <2>2, <3>1, Zenon
        <3>3. v \in Choices \cup {None}
            BY <1>2, <2>2, <3>1
        <3> HIDE DEF t
        <3> QED
            BY <3>2, <3>3, ComboValues, Zenon
    <2>3. CASE s1 /\ c.text \notin c.strData
        <3>1. v = None
            BY <2>3, Zenon
        <3> HIDE DEF v
        <3>2. t = None
            BY <2>3, <3>1, Zenon
        <3>3. None \in Choices \cup {None}
            OBVIOUS
        <3> HIDE DEF t
        <3> QED
            BY <3>1, <3>2, <3>3, ComboValues, Zenon
    <2> QED
        BY <2>1, <2>2, <2>3, Zenon
<1> HIDE DEF v, t, d
<1>4. CASE c.isSelectBlur
    <2> DEFINE e == [c EXCEPT !.isSelectBlur = FALSE]
    <2>1. d = e
        BY <1>1, <1>4, Zenon
    <2>2. e \in ComboObj /\ ~e.isSelectBlur /\ e.value = c.value /\ e.text = c.text
          /\ e.selectValue = c.selectValue /\ e.selectText = c.selectText
        BY DEF ComboObj
    <2> HIDE DEF e
    <2> QED
        BY <1>4, <2>1, <2>2, Zenon DEF ComboTold, d
<1>5. CASE ~c.isSelectBlur /\ ~s1 /\ c.text = c.selectText
    <2>1. d = c
        BY <1>1, <1>5, Zenon
    <2> QED
        BY <1>5, <2>1, Zenon DEF ComboTold, d
<1>6. CASE ~c.isSelectBlur /\ ~(~s1 /\ c.text = c.selectText)
    <2>1. d = IF v = c.value THEN [c EXCEPT !.text = t]
              ELSE Combobox!Selected(Combobox!Shown(c, v, t), v, t)
        BY <1>1, <1>6, Zenon
    <2>2. CASE v = c.value
        <3> DEFINE e == [c EXCEPT !.text = t]
        <3>1. e \in ComboObj /\ e.isSelectBlur = c.isSelectBlur /\ e.value = c.value /\ e.text = t
              /\ e.selectValue = c.selectValue /\ e.selectText = c.selectText
            BY <1>3 DEF ComboObj
        <3> HIDE DEF e
        <3>2. d = e
            BY <2>1, <2>2, Zenon DEF e
        <3> QED
            BY <1>3, <1>6, <2>2, <3>1, <3>2, Zenon DEF ComboTold, d
    <2>3. CASE v # c.value
        <3> DEFINE e == Combobox!Selected(Combobox!Shown(c, v, t), v, t)
        <3>1. /\ e \in ComboObj /\ ComboTold(e) /\ e.value = v /\ e.text = t
              /\ e.isSelectBlur = c.isSelectBlur
            BY <1>3, ComboTell
        <3> HIDE DEF e
        <3>2. d = e
            BY <2>1, <2>3, Zenon DEF e
        <3> QED
            BY <1>3, <1>6, <3>1, <3>2, Zenon DEF d
    <2> QED
        BY <2>2, <2>3
<1> QED
    BY <1>2, <1>4, <1>5, <1>6, Zenon DEF d

LEMMA ComboInit == Combobox!Init => Combobox!Inv
<1> SUFFICES ASSUME Combobox!Init
             PROVE  ComboCore
    BY ComboSame
<1>1. /\ s1 \in BOOLEAN /\ s2 \in BOOLEAN /\ s4 \in BOOLEAN /\ s5 \in BOOLEAN /\ s6 \in BOOLEAN
    <2>1. s1 \in BOOLEAN /\ s2 \in BOOLEAN /\ s4 = FALSE /\ s5 = FALSE /\ s6 = FALSE
        BY DEF Combobox!Init
    <2> QED
        BY <2>1, Zenon
<1>2. PICK data \in SUBSET Choices, v \in Choices \cup {None} :
         s3 = Combobox!SetDefaultValue(Combobox!GetComboObj(data), v)
    BY DEF Combobox!Init
<1> DEFINE c == Combobox!GetComboObj(data)
<1>3. None \in Combobox!Values /\ None \in Combobox!Texts /\ ComboIs(None, None)
    BY ComboValues, Zenon
<1>4. c \in ComboObj /\ c.value = None /\ c.selectValue = None /\ c.selectText = None
    BY <1>3 DEF Combobox!GetComboObj, ComboObj
<1> HIDE DEF c
<1>5. ComboTold(c)
    BY <1>3, <1>4, Zenon DEF ComboTold
<1>6. s3 \in ComboObj /\ ComboTold(s3) /\ (s2 => ComboIs(s3.value, s3.text))
    BY <1>1, <1>2, <1>4, <1>5, ComboDefault DEF c
<1> QED
    BY <1>1, <1>6, Zenon DEF ComboCore

(* The parts of the invariant after a step                                 *)
LEMMA ComboCoreNext ==
    ASSUME s1' \in BOOLEAN, s2' \in BOOLEAN, s4' \in BOOLEAN, s5' \in BOOLEAN, s6' \in BOOLEAN,
           s1' = s1, s2' = s2, s3' \in ComboObj, ComboTold(s3'),
           s2 /\ ~s6' /\ (~s4' \/ s3'.isSelectBlur) => ComboIs(s3'.value, s3'.text)
    PROVE  ComboCore'
    BY Zenon DEF ComboCore, ComboTold

LEMMA ComboRefresh ==
    ASSUME ComboCore, NEW data \in SUBSET Choices, Combobox!Refresh(data)
    PROVE  ComboCore'
<1> DEFINE c == [s3 EXCEPT !.data = data, !.strData = {}, !.isFirst = TRUE,
                           !.panel = {}, !.open = FALSE]
<1>1. s3' = Combobox!SetDefaultValue(c, s3.value) /\ s6' = (s6 \/ s4)
      /\ UNCHANGED <<s1, s2, s4, s5>>
    BY Zenon DEF Combobox!Refresh, Combobox!Config
<1>2. s3 \in ComboObj /\ ComboTold(s3) /\ s2 \in BOOLEAN
      /\ s1 \in BOOLEAN /\ s4 \in BOOLEAN /\ s5 \in BOOLEAN
    BY Zenon DEF ComboCore
<1>3. c \in ComboObj /\ ComboLike(s3, c)
    BY <1>2 DEF ComboObj, ComboLike
<1> HIDE DEF c
<1>4. ComboTold(c)
    BY <1>2, <1>3, ComboKeeps
<1>5. s3' \in ComboObj /\ ComboTold(s3') /\ (s2 => ComboIs(s3'.value, s3'.text))
    BY <1>1, <1>2, <1>3, <1>4, ComboDefault
<1>6. s6' \in BOOLEAN
    BY <1>1, Zenon
<1> QED
    BY <1>1, <1>2, <1>5, <1>6, ComboCoreNext, Zenon

LEMMA ComboCoreStep ==
    ASSUME ComboCore, Combobox!Next \/ UNCHANGED Combobox!vars
    PROVE  ComboCore'
<1>0. s3 \in ComboObj /\ ComboTold(s3) /\ s2 \in BOOLEAN /\ s6 \in BOOLEAN
      /\ s1 \in BOOLEAN /\ s4 \in BOOLEAN /\ s5 \in BOOLEAN
      /\ (s2 /\ ~s6 /\ (~s4 \/ s3.isSelectBlur) => ComboIs(s3.value, s3.text))
    BY Zenon DEF ComboCore
<1>1. s3.data \subseteq Choices /\ s3.strData \subseteq Choices /\ s3.panel \subseteq Choices
      /\ s3.text \in Combobox!Texts
    BY <1>0 DEF ComboObj
(* A step that keeps value, text and what was told                         *)
<1>2. ASSUME ComboLike(s3, s3'), s3' \in ComboObj, UNCHANGED <<s1, s2, s6>>,
             s4' \in BOOLEAN, s5' \in BOOLEAN, s4 => s4'
      PROVE  ComboCore'
    <2>1. ComboTold(s3')
        BY <1>0, <1>2, ComboKeeps, Zenon
    <2> QED
        BY <1>0, <1>2, <2>1, ComboCoreNext, Zenon DEF ComboLike
(* A step after which the field shows its value                            *)
<1>3. ASSUME s3' \in ComboObj, ComboTold(s3'), s2 => ComboIs(s3'.value, s3'.text),
             UNCHANGED <<s1, s2>>, s4' \in BOOLEAN, s5' \in BOOLEAN, s6' \in BOOLEAN
      PROVE  ComboCore'
    BY <1>0, <1>3, ComboCoreNext, Zenon
<1>4. CASE Combobox!Focus
    <2>1. s3' = Combobox!InitSearchPanel(s3, s3.data, FALSE) /\ s4' = TRUE
          /\ UNCHANGED <<s1, s2, s5, s6>>
        BY <1>4, Zenon DEF Combobox!Focus, Combobox!Config
    <2>2. s3' \in ComboObj /\ ComboLike(s3, s3')
        BY <1>0, <1>1, <2>1, ComboPanel
    <2> QED
        BY <1>0, <1>2, <2>1, <2>2, Zenon
<1>5. CASE Combobox!Blur
    <2>1. s3' = Combobox!Blurred(s3) /\ s4' = FALSE /\ s4 /\ UNCHANGED <<s1, s2, s5, s6>>
        BY <1>5, Zenon DEF Combobox!Blur, Combobox!Config
    <2>2. /\ s3' \in ComboObj /\ ComboTold(s3') /\ ~s3'.isSelectBlur
          /\ s2 /\ (s3.isSelectBlur => ComboIs(s3.value, s3.text)) => ComboIs(s3'.value, s3'.text)
        BY <1>0, <2>1, ComboBlurred
    <2> QED
        BY <1>0, <2>1, <2>2, ComboCoreNext, Zenon
<1>6. CASE Combobox!SearchFun
    <2>1. PICK found \in CASE s3.text \in Choices -> {{s3.text} \cap s3.strData}
                           [] s3.text = None -> {s3.strData}
                           [] OTHER -> SUBSET s3.strData :
             s3' = Combobox!InitSearchPanel(s3, found, s3.text # None)
        BY <1>6, Zenon DEF Combobox!SearchFun
    <2>2. found \subseteq s3.strData
        BY <2>1, Zenon
    <2>3. found \in SUBSET Choices /\ (s3.text # None) \in BOOLEAN
        BY <1>1, <2>2, Zenon
    <2>4. s3' \in ComboObj /\ ComboLike(s3, s3')
        BY <1>0, <2>1, <2>3, ComboPanel, Zenon
    <2>5. s5' = FALSE /\ UNCHANGED <<s1, s2, s4, s6>>
        BY <1>6, Zenon DEF Combobox!SearchFun, Combobox!Config
    <2> QED
        BY <1>0, <1>2, <2>4, <2>5, Zenon
<1>7. CASE Combobox!Enter
    <2> DEFINE c == [s3 EXCEPT !.isSelectBlur = FALSE]
    <2>1. s4' = FALSE /\ UNCHANGED <<s1, s2, s5, s6>>
          /\ (s3' = Combobox!Blurred(c)
              \/ \E i \in s3.panel : s3' = Combobox!Blurred(Combobox!ChangeSelect(c, i)))
        BY <1>7, Zenon DEF Combobox!Enter, Combobox!Config
    <2>2. c \in ComboObj /\ ~c.isSelectBlur /\ c.value = s3.value
          /\ c.selectValue = s3.selectValue /\ c.selectText = s3.selectText
        BY <1>0 DEF ComboObj
    <2> HIDE DEF c
    <2>3. ComboTold(c)
        BY <1>0, <2>2, Zenon DEF ComboTold
    <2>4. \E e \in ComboObj : ComboTold(e) /\ ~e.isSelectBlur /\ s3' = Combobox!Blurred(e)
        <3>1. CASE s3' = Combobox!Blurred(c)
            BY <2>2, <2>3, <3>1, Zenon
        <3>2. CASE \E i \in s3.panel : s3' = Combobox!Blurred(Combobox!ChangeSelect(c, i))
            <4>1. PICK i \in s3.panel : s3' = Combobox!Blurred(Combobox!ChangeSelect(c, i))
                BY <3>2
            <4>2. i \in Choices
                BY <1>1
            <4>3. /\ Combobox!ChangeSelect(c, i) \in ComboObj
                  /\ ComboTold(Combobox!ChangeSelect(c, i))
                  /\ ~Combobox!ChangeSelect(c, i).isSelectBlur
                BY <2>2, <2>3, <4>2, ComboChange
            <4> QED
                BY <4>1, <4>3, Zenon
        <3> QED
            BY <2>1, <3>1, <3>2, Zenon
    <2>5. PICK e \in ComboObj : ComboTold(e) /\ ~e.isSelectBlur /\ s3' = Combobox!Blurred(e)
        BY <2>4
    <2>6. s3' \in ComboObj /\ ComboTold(s3') /\ (s2 => ComboIs(s3'.value, s3'.text))
        BY <1>0, <2>5, ComboBlurred
    <2> QED
        BY <1>0, <1>3, <2>1, <2>6, Zenon
<1>8. CASE Combobox!ClickElsewhere
    <2>1. s3' = [s3 EXCEPT !.open = FALSE] /\ UNCHANGED <<s1, s2, s4, s5, s6>>
        BY <1>8, Zenon DEF Combobox!ClickElsewhere, Combobox!Config
    <2>2. s3' \in ComboObj /\ ComboLike(s3, s3')
        BY <1>0, <2>1 DEF ComboObj, ComboLike
    <2> QED
        BY <1>0, <1>2, <2>1, <2>2, Zenon
<1>9. ASSUME NEW t \in Combobox!Texts, Combobox!Keydown(t) \/ Combobox!Input(t)
      PROVE  ComboCore'
    <2>1. /\ s4' \in BOOLEAN /\ s4' /\ s5' \in BOOLEAN /\ s6' \in BOOLEAN /\ UNCHANGED <<s1, s2>>
          /\ \/ s3' = [s3 EXCEPT !.isSelectBlur = FALSE, !.text = t]
             \/ s3' = [s3 EXCEPT !.text = t] /\ (s3.isSelectBlur => s6')
        BY <1>0, <1>9, Zenon DEF Combobox!Keydown, Combobox!Input, Combobox!Config
    <2>2. /\ s3' \in ComboObj /\ (s3'.isSelectBlur => s6') /\ s3'.value = s3.value
          /\ s3'.selectValue = s3.selectValue /\ s3'.selectText = s3.selectText
        BY <1>0, <2>1 DEF ComboObj
    <2>3. ComboTold(s3')
        BY <1>0, <2>2, Zenon DEF ComboTold
    <2> QED
        BY <1>0, <2>1, <2>2, <2>3, ComboCoreNext, Zenon
<1>10. ASSUME NEW i \in Choices, Combobox!ClickItem(i)
       PROVE  ComboCore'
    <2> DEFINE c == [s3 EXCEPT !.isSelectBlur = TRUE]
    <2>1. s3' = Combobox!ChangeSelect(c, i) /\ UNCHANGED <<s1, s2, s4, s5, s6>>
        BY <1>10, Zenon DEF Combobox!ClickItem, Combobox!Config
    <2>2. c \in ComboObj /\ c.value = s3.value
          /\ c.selectValue = s3.selectValue /\ c.selectText = s3.selectText
        BY <1>0 DEF ComboObj
    <2> HIDE DEF c
    <2>3. ComboTold(c)
        BY <1>0, <2>2, Zenon DEF ComboTold
    <2>4. s3' \in ComboObj /\ ComboTold(s3') /\ ComboIs(s3'.value, s3'.text)
        BY <2>1, <2>2, <2>3, ComboChange
    <2> QED
        BY <1>0, <1>3, <2>1, <2>4, Zenon
<1>11. ASSUME NEW v \in Choices \cup {None}, Combobox!SetValue(v)
       PROVE  ComboCore'
    <2> DEFINE h == Combobox!Shown(s3, v, v)
               c == [h EXCEPT !.isFirst = TRUE]
    <2>1. s3' = Combobox!Selected(c, v, v) /\ UNCHANGED <<s1, s2, s4, s5, s6>>
        BY <1>11, Zenon DEF Combobox!SetValue, Combobox!Config
    <2>2. v \in Combobox!Values /\ v \in Combobox!Texts /\ ComboIs(v, v)
        BY ComboValues, Zenon
    <2>3. /\ h \in ComboObj /\ h.value = v /\ h.text = v
          /\ h.selectValue = s3.selectValue /\ h.selectText = s3.selectText
        BY <1>0, <2>2, ComboShown
    <2> HIDE DEF h
    <2>4. /\ c \in ComboObj /\ c.value = v /\ c.text = v
          /\ c.selectValue = s3.selectValue /\ c.selectText = s3.selectText
        BY <2>3 DEF ComboObj
    <2> HIDE DEF c
    <2>5. s2 => ComboIs(c.selectValue, c.selectText)
        BY <1>0, <2>4, Zenon DEF ComboTold
    <2>6. s3' \in ComboObj /\ ComboTold(s3) /\ ComboTold(s3') /\ s3'.value = v /\ s3'.text = v
        BY <1>0, <2>1, <2>2, <2>4, <2>5, ComboSelected
    <2> QED
        BY <1>0, <1>3, <2>1, <2>2, <2>6, Zenon
<1>12. ASSUME NEW i \in Choices, Combobox!DelData(i)
       PROVE  ComboCore'
    <2>1. s3.data \ {i} \in SUBSET Choices
        BY <1>1
    <2> QED
        BY <1>12, <2>1, ComboRefresh DEF Combobox!DelData
<1>13. ASSUME NEW i \in Choices, NEW j \in Choices, Combobox!AddData(<<i, j>>)
       PROVE  ComboCore'
    <2> DEFINE new == <<i, j>>
               first == {k \in DOMAIN new : \A l \in 1 .. k : new[l] \notin s3.data}
    <2>1. Combobox!Refresh(s3.data \cup {new[k] : k \in first})
        BY <1>13, Zenon DEF Combobox!AddData
    <2>2. {new[k] : k \in first} \subseteq Choices
        <3>1. first \subseteq {1, 2}
            OBVIOUS
        <3> HIDE DEF first
        <3> QED
            BY <3>1
    <2>3. s3.data \cup {new[k] : k \in first} \in SUBSET Choices
        BY <1>1, <2>2
    <2> QED
        BY <2>1, <2>3, ComboRefresh
<1>14. CASE UNCHANGED Combobox!vars
    <2>1. s1' = s1 /\ s2' = s2 /\ s3' = s3 /\ s4' = s4 /\ s5' = s5 /\ s6' = s6
        BY <1>14 DEF Combobox!vars
    <2> QED
        BY <2>1, Zenon DEF ComboCore, ComboTold
<1> QED
    BY <1>4, <1>5, <1>6, <1>7, <1>8, <1>9, <1>10, <1>11, <1>12, <1>13, <1>14, Zenon
    DEF Combobox!Next

LEMMA ComboStep ==
    Combobox!Inv /\ (Combobox!Next \/ UNCHANGED Combobox!vars) => Combobox!Inv'
<1>1. ComboCore /\ (Combobox!Next \/ UNCHANGED Combobox!vars) => ComboCore'
    BY ComboCoreStep
<1> QED
    BY <1>1, ComboSame, PTL
-----------------------------------------------------------------------------
(* All together: whichever widget runs, its invariant holds.               *)
WidgetsInv ==
    /\ active = "Slide" => Slide!Inv
    /\ active = "Progressbar" => Progressbar!Inv
    /\ active = "Tips" => Tips!Inv
    /\ active = "Validate" => Validate!Inv
    /\ active = "Calendar" => Calendar!Inv
    /\ active = "Prompts" => Prompts!Inv
    /\ active = "Mask" => Mask!Inv
    /\ active = "Monthpicker" => Monthpicker!Inv
    /\ active = "Tab" => Tab!Inv
    /\ active = "Menu" => Menu!Inv
    /\ active = "Combobox" => Combobox!Inv
    /\ active = "Placement" => PlaceCore
    /\ active = "Ctab" => CtabCore

LEMMA WidgetBegins == BeginWidget => WidgetsInv
<1> SUFFICES ASSUME BeginWidget
             PROVE  WidgetsInv
    OBVIOUS
<1>1. active = "Slide" => Slide!Inv
    BY SlideInit DEF BeginWidget
<1>2. active = "Progressbar" => Progressbar!Inv
    BY ProgressbarInit DEF BeginWidget
<1>3. active = "Tips" => Tips!Inv
    BY TipsInit DEF BeginWidget
<1>4. active = "Validate" => Validate!Inv
    BY ValidateInit DEF BeginWidget
<1>5. active = "Calendar" => Calendar!Inv
    BY CalendarInit DEF BeginWidget
<1>6. active = "Prompts" => Prompts!Inv
    BY PromptsInit DEF BeginWidget
<1>7. active = "Mask" => Mask!Inv
    BY MaskInit DEF BeginWidget
<1>8. active = "Monthpicker" => Monthpicker!Inv
    BY MonthpickerInit DEF BeginWidget
<1>9. active = "Tab" => Tab!Inv
    BY TabInit DEF BeginWidget
<1>10. active = "Menu" => Menu!Inv
    BY MenuInit DEF BeginWidget
<1>11. active = "Combobox" => Combobox!Inv
    BY ComboInit DEF BeginWidget
<1>12. active = "Placement" => PlaceCore
    BY PlacementInit DEF BeginWidget
<1>13. active = "Ctab" => CtabCore
    BY CtabInit DEF BeginWidget
<1> QED
    BY <1>1, <1>2, <1>3, <1>4, <1>5, <1>6, <1>7, <1>8,
       <1>9, <1>10, <1>11, <1>12, <1>13, Zenon DEF WidgetsInv

LEMMA WidgetMoves == WidgetsInv /\ [MoveWidget]_all => WidgetsInv'
<1> SUFFICES ASSUME WidgetsInv, [MoveWidget]_all
             PROVE  WidgetsInv'
    OBVIOUS
<1>1. active' = active
    BY DEF MoveWidget, all
<1>2. ASSUME active = "Slide"
      PROVE  Slide!Inv'
    <2>1. Slide!Next \/ UNCHANGED Slide!vars
        BY <1>2 DEF MoveWidget, all, Slide!vars
    <2> QED
        BY <1>2, <2>1, SlideStep, Zenon DEF WidgetsInv
<1>3. ASSUME active = "Progressbar"
      PROVE  Progressbar!Inv'
    <2>1. Progressbar!Next \/ UNCHANGED Progressbar!vars
        BY <1>3 DEF MoveWidget, all, Progressbar!vars
    <2> QED
        BY <1>3, <2>1, ProgressbarStep, Zenon DEF WidgetsInv
<1>4. ASSUME active = "Tips"
      PROVE  Tips!Inv'
    <2>1. Tips!Next \/ UNCHANGED Tips!vars
        BY <1>4 DEF MoveWidget, all, Tips!vars
    <2> QED
        BY <1>4, <2>1, TipsStep, Zenon DEF WidgetsInv
<1>5. ASSUME active = "Validate"
      PROVE  Validate!Inv'
    <2>1. Validate!Next \/ UNCHANGED Validate!vars
        BY <1>5 DEF MoveWidget, all, Validate!vars
    <2> QED
        BY <1>5, <2>1, ValidateStep, Zenon DEF WidgetsInv
<1>6. ASSUME active = "Calendar"
      PROVE  Calendar!Inv'
    <2>1. Calendar!Next \/ UNCHANGED Calendar!vars
        BY <1>6 DEF MoveWidget, all, Calendar!vars
    <2> QED
        BY <1>6, <2>1, CalendarStep, Zenon DEF WidgetsInv
<1>7. ASSUME active = "Prompts"
      PROVE  Prompts!Inv'
    <2>1. Prompts!Next \/ UNCHANGED Prompts!vars
        BY <1>7 DEF MoveWidget, all, Prompts!vars
    <2> QED
        BY <1>7, <2>1, PromptsStep, Zenon DEF WidgetsInv
<1>8. ASSUME active = "Mask"
      PROVE  Mask!Inv'
    <2>1. Mask!Next \/ UNCHANGED Mask!vars
        BY <1>8 DEF MoveWidget, all, Mask!vars
    <2> QED
        BY <1>8, <2>1, MaskStep, Zenon DEF WidgetsInv
<1>9. ASSUME active = "Monthpicker"
      PROVE  Monthpicker!Inv'
    <2>1. Monthpicker!Next \/ UNCHANGED Monthpicker!vars
        BY <1>9 DEF MoveWidget, all, Monthpicker!vars
    <2> QED
        BY <1>9, <2>1, MonthpickerStep, Zenon DEF WidgetsInv
<1>10. ASSUME active = "Tab"
       PROVE  Tab!Inv'
    <2>1. Tab!Next \/ UNCHANGED Tab!vars
        BY <1>10 DEF MoveWidget, all, Tab!vars
    <2> QED
        BY <1>10, <2>1, TabStep, Zenon DEF WidgetsInv
<1>11. ASSUME active = "Menu"
       PROVE  Menu!Inv'
    <2>1. Menu!Next \/ UNCHANGED Menu!vars
        BY <1>11 DEF MoveWidget, all, Menu!vars
    <2> QED
        BY <1>11, <2>1, MenuStep, Zenon DEF WidgetsInv
<1>12. ASSUME active = "Combobox"
       PROVE  Combobox!Inv'
    <2>1. Combobox!Next \/ UNCHANGED Combobox!vars
        BY <1>12 DEF MoveWidget, all, Combobox!vars
    <2> QED
        BY <1>12, <2>1, ComboStep, Zenon DEF WidgetsInv
<1>13. ASSUME active = "Placement"
       PROVE  PlaceCore'
    <2>1. Placement!Next \/ UNCHANGED Placement!vars
        BY <1>13 DEF MoveWidget, all, Placement!vars
    <2> QED
        BY <1>13, <2>1, PlacementStep, Zenon DEF WidgetsInv
<1>14. ASSUME active = "Ctab"
       PROVE  CtabCore'
    <2>1. Ctab!Next \/ UNCHANGED Ctab!vars
        BY <1>14 DEF MoveWidget, all, Ctab!vars
    <2> QED
        BY <1>14, <2>1, CtabStep, Zenon DEF WidgetsInv
<1> QED
    BY <1>1, <1>2, <1>3, <1>4, <1>5, <1>6, <1>7, <1>8, <1>9, <1>10, <1>11, <1>12, <1>13, <1>14,
       ZenonT(60) DEF WidgetsInv

(* Every step of every widget keeps its invariant.                         *)
THEOREM WidgetsKeepInv == Widgets => []WidgetsInv
    BY WidgetBegins, WidgetMoves, PTL DEF Widgets

(* No picture moves by itself under the mouse, and only the progress bar   *)
(* that is shown advances, however many pictures and bars there are        *)
(* (slide.js, progressbar.js).                                             *)
THEOREM OnlyTheSeenMoves == Widgets => []MovesInSight
<1>1. WidgetsInv => MovesInSight
    BY Zenon DEF WidgetsInv, MovesInSight, Slide!Inv, Progressbar!Inv
<1> QED
    BY <1>1, WidgetsKeepInv, PTL

(* A tip that is seen belongs to the element under the mouse, or waits to  *)
(* be hidden, on a page with any elements (tips.js).                       *)
THEOREM TipsAreLeft == Widgets => []NoTipStaysBehind
<1>1. WidgetsInv => NoTipStaysBehind
    BY Zenon DEF WidgetsInv, NoTipStaysBehind, Tips!Inv
<1> QED
    BY <1>1, WidgetsKeepInv, PTL

(* Whatever order checks, delays, new texts and the focus come in, a field *)
(* with a message failed its last check and loses the message when it gets *)
(* the focus; its text is right only if a script wrote it or if the field  *)
(* was checked while it had the focus; and a message that is to go has a   *)
(* timer, unless another form's check stopped it (validate.js).            *)
THEOREM MarkedFieldsFailed == Widgets => []MessagesAreTrue
<1>1. WidgetsInv => MessagesAreTrue
    BY Zenon DEF WidgetsInv, MessagesAreTrue, Validate!Inv
<1> QED
    BY <1>1, WidgetsKeepInv, PTL

(* A range whose calendar was closed is as its options made it, or has     *)
(* both its ends, in order, as the form posts them, for calendars of every *)
(* length, any options but a last day alone, and a focus that comes by the *)
(* mouse or by the keyboard (calendar.js); likewise a range of months      *)
(* whose field is not being edited (monthpicker.js).                       *)
THEOREM ClosedRangesAreWhole == Widgets => []RangesAreWhole
<1>1. WidgetsInv => RangesAreWhole
    BY Zenon DEF WidgetsInv, RangesAreWhole, Calendar!Inv, Monthpicker!Inv
<1> QED
    BY <1>1, WidgetsKeepInv, PTL

(* The callback that hears an answer is the one of the question that was   *)
(* read, through any number of questions on top of each other (dialog.js). *)
THEOREM AnswersAreHeard == Widgets => []AnswersWhatWasRead
<1>1. WidgetsInv => AnswersWhatWasRead
    BY Zenon DEF WidgetsInv, AnswersWhatWasRead, Prompts!Inv
<1> QED
    BY <1>1, WidgetsKeepInv, PTL

(* An element is disabled exactly while a mask that was made for it is     *)
(* there, for any elements and masks (mask.js).                            *)
THEOREM MasksDisable == Widgets => []DisabledWhileMasked
<1>1. WidgetsInv => DisabledWhileMasked
    BY Zenon DEF WidgetsInv, DisabledWhileMasked, Mask!Inv
<1> QED
    BY <1>1, WidgetsKeepInv, PTL

(* With no timer due a menu of any size shows the items around the mouse,  *)
(* and the tab the user has chosen stays under the mouse (menu.js, tab.js). *)
THEOREM ShownFollowsTheMouse == Widgets => []HoverFollows
<1>1. WidgetsInv => HoverFollows
    BY Zenon DEF WidgetsInv, HoverFollows, Menu!Inv, Tab!Inv
<1> QED
    BY <1>1, WidgetsKeepInv, PTL

(* Outside a combobox the user reads what the form posts and what the      *)
(* listeners were told, through every order of keys, clicks, blurs, search *)
(* timers and calls, for any data (combobox.js).                           *)
THEOREM ComboboxesAgree == Widgets => []FieldsAgree
<1>1. WidgetsInv => FieldsAgree
    BY Zenon DEF WidgetsInv, FieldsAgree, Combobox!Inv
<1> QED
    BY <1>1, WidgetsKeepInv, PTL

(* Nothing that opens covers the element it belongs to; a dialog and a tip *)
(* are inside a window of any size if a side has room, with the widths of  *)
(* arrow, spacing and edges of their own files (dialog.js, tips.js,        *)
(* validate.js).                                                           *)
THEOREM BoxesOpenInSight == Widgets => []OpensInSight
<1>1. WidgetsInv => OpensInSight
    BY Zenon DEF WidgetsInv, OpensInSight, PlaceCore
<1> QED
    BY <1>1, WidgetsKeepInv, PTL

(* However many tabs are opened, used and closed, the one that follows a   *)
(* closed tab is the one that was used before it, there is no moment with  *)
(* tabs and none selected, and each tab shows its own item (ctab.js).      *)
THEOREM UsedTabsFollow == Widgets => []RecentTabFollows
<1>1. WidgetsInv => RecentTabFollows
    BY CtabCoreImplies, Zenon DEF WidgetsInv, RecentTabFollows
<1> QED
    BY <1>1, WidgetsKeepInv, PTL
=============================================================================
