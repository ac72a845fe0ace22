------------------------------ MODULE Combobox ------------------------------
(***************************************************************************)
(* An input with a list to choose from (cloudJs/js/combobox.js), of one    *)
(* choice and local data.  What is chosen is kept five times: as the text  *)
(* of the field, as the hidden value the form posts, as selectValue and    *)
(* selectText, which decide whether listeners hear of a change, and as     *)
(* default value, from which a refresh begins again.  The browser's events *)
(* arrive one by one: a click on an item is a blur of the field and, later,*)
(* the click.                                                              *)
(***************************************************************************)
EXTENDS Naturals, Sequences, FiniteSets

CONSTANTS
    Items,      \* values of the data; an item's text stands for its value
    Free,       \* other texts a user types
    Empty       \* the empty text and the empty value

VARIABLES
    checkValue,     \* option: only values of the data are values
    hasDefault,     \* option defaultValue was given
    cObj,           \* the object of the field
    focused,        \* the field has the focus
    searchTimeout,  \* the timer of a search runs
    odd             \* history: the field was edited by mouse after a click on
                    \* the panel, or refreshed while it had the focus

vars == <<checkValue, hasDefault, cObj, focused, searchTimeout, odd>>

Texts == Items \cup Free \cup {Empty}

(* A typed text that becomes the value as it is.                           *)
Raw(t) == IF t = Empty THEN Empty ELSE <<t>>
Values == Items \cup {Raw(t) : t \in Texts}

TypeOK ==
    /\ {checkValue, hasDefault, focused, searchTimeout, odd} \subseteq BOOLEAN
    /\ cObj \in [data : SUBSET Items, strData : SUBSET Items, lastData : SUBSET Items,
                 panel : SUBSET Items, open : BOOLEAN, isFirst : BOOLEAN,
                 isSelectBlur : BOOLEAN, text : Texts, value : Values,
                 selectValue : Values, selectText : Texts]

-----------------------------------------------------------------------------
(* select: listeners are told of a value that differs from selectValue.    *)
Selected(c, v, t) ==
    IF v = c.selectValue THEN c ELSE [c EXCEPT !.selectValue = v, !.selectText = t]

Shown(c, v, t) == [c EXCEPT !.text = t, !.value = v]

(* _setDefaultValue looks the default value up in the data; without that   *)
(* option the new hidden field is empty and the text stays.                *)
SetDefaultValue(c, defaultValue) ==
    LET v == IF defaultValue \in c.data THEN defaultValue ELSE Empty IN
    IF hasDefault THEN Selected(Shown(c, v, v), v, v) ELSE [c EXCEPT !.value = Empty]

(* _formatDataToHtml collects the texts that _blur will look for the first *)
(* time only.                                                              *)
FormatDataToHtml(c, data) ==
    [c EXCEPT !.lastData = data, !.strData = IF c.isFirst THEN @ \cup data ELSE @]

(* _initSearchPanel with the data or the items a search has found.         *)
InitSearchPanel(c, data, isSearch) ==
    LET anew == isSearch \/ c.isFirst
        p    == IF c.isFirst THEN [c EXCEPT !.panel = {}, !.open = FALSE] ELSE c
        f    == IF anew \/ c.lastData # data THEN FormatDataToHtml(p, data) ELSE p
    IN  CASE data = {} /\ ~anew -> p
          [] data = {} /\ anew  -> [f EXCEPT !.open = FALSE]
          [] OTHER -> [f EXCEPT !.open = TRUE, !.isFirst = FALSE,
                                !.panel = IF anew \/ c.lastData # data THEN data ELSE @]

(* Mutant: the listeners are not told.                                     *)
ChangeSelectSilent(c, i) == [Shown(c, i, i) EXCEPT !.open = FALSE]

(* _changeSelect with an item of the panel.                                *)
ChangeSelect(c, i) ==
    LET s == [Shown(c, i, i) EXCEPT !.open = FALSE]
    IN  IF c.value = i THEN s ELSE Selected(s, i, i)

(* The handler of blur.                                                    *)
Blurred(c) ==
    LET free  == ~checkValue
        v     == CASE free -> Raw(c.text)
                   [] ~free /\ c.text \in c.strData -> c.text
                   [] OTHER -> Empty
        t     == IF free \/ v # Empty THEN c.text ELSE Empty
    IN  CASE c.isSelectBlur -> [c EXCEPT !.isSelectBlur = FALSE]
          [] ~c.isSelectBlur /\ free /\ c.text = c.selectText -> c
          [] OTHER -> IF v = c.value THEN [c EXCEPT !.text = t]
                      ELSE Selected(Shown(c, v, t), v, t)

(* _getComboObj and _init                                                  *)
GetComboObj(data) ==
    [data |-> data, strData |-> {}, lastData |-> {}, panel |-> {}, open |-> FALSE,
     isFirst |-> TRUE, isSelectBlur |-> FALSE, text |-> Empty, value |-> Empty,
     selectValue |-> Empty, selectText |-> Empty]

Init ==
    /\ checkValue \in BOOLEAN /\ hasDefault \in BOOLEAN
    /\ cObj \in {SetDefaultValue(GetComboObj(data), v) :
                 data \in SUBSET Items, v \in Items \cup {Empty}}
    /\ focused = FALSE /\ searchTimeout = FALSE /\ odd = FALSE

-----------------------------------------------------------------------------
Config == UNCHANGED <<checkValue, hasDefault>>

Focus ==
    /\ ~focused /\ focused' = TRUE
    /\ cObj' = InitSearchPanel(cObj, cObj.data, FALSE)
    /\ Config /\ UNCHANGED <<searchTimeout, odd>>

Blur ==
    /\ focused /\ focused' = FALSE
    /\ cObj' = Blurred(cObj)
    /\ Config /\ UNCHANGED <<searchTimeout, odd>>

(* keydown resets isSelectBlur, the letter arrives, keyup starts the timer.*)
Keydown(t) ==
    /\ focused
    /\ cObj' = [cObj EXCEPT !.isSelectBlur = FALSE, !.text = t]
    /\ searchTimeout' = TRUE
    /\ Config /\ UNCHANGED <<focused, odd>>

(* Cut or paste by mouse is only an input event.                           *)
Input(t) ==
    /\ focused /\ t # cObj.text
    /\ cObj' = [cObj EXCEPT !.text = t]
    /\ searchTimeout' = TRUE /\ odd' = (odd \/ cObj.isSelectBlur)
    /\ Config /\ UNCHANGED focused

(* The timer of 300 ms, whether or not the field still has the focus.  A   *)
(* text that is no item may be the beginning of some.                      *)
SearchFun ==
    /\ searchTimeout /\ searchTimeout' = FALSE
    /\ \E found \in CASE cObj.text \in Items -> {{cObj.text} \cap cObj.strData}
                      [] cObj.text = Empty   -> {cObj.strData}
                      [] OTHER               -> SUBSET cObj.strData :
          cObj' = InitSearchPanel(cObj, found, cObj.text # Empty)
    /\ Config /\ UNCHANGED <<focused, odd>>

(* The return key takes the item the arrow keys point at and blurs.        *)
Enter ==
    /\ focused /\ focused' = FALSE
    /\ LET c == [cObj EXCEPT !.isSelectBlur = FALSE] IN
       \/ cObj' = Blurred(c)
       \/ \E i \in cObj.panel : cObj' = Blurred(ChangeSelect(c, i))
    /\ Config /\ UNCHANGED <<searchTimeout, odd>>

(* A click on an item; the field was blurred when the button went down.    *)
ClickItem(i) ==
    /\ ~focused /\ cObj.open /\ i \in cObj.panel
    /\ cObj' = ChangeSelect([cObj EXCEPT !.isSelectBlur = TRUE], i)
    /\ Config /\ UNCHANGED <<focused, searchTimeout, odd>>

ClickElsewhere ==
    /\ ~focused /\ cObj.open
    /\ cObj' = [cObj EXCEPT !.open = FALSE]
    /\ Config /\ UNCHANGED <<focused, searchTimeout, odd>>

(* combobox('setValue'): a value that is not in the data is refused.       *)
SetValue(v) ==
    /\ v \in cObj.data \cup {Empty}
    /\ cObj' = Selected([Shown(cObj, v, v) EXCEPT !.isFirst = TRUE], v, v)
    /\ Config /\ UNCHANGED <<focused, searchTimeout, odd>>

(* combobox('refresh'): _init again, from the hidden value.                *)
Refresh(data) ==
    /\ cObj' = SetDefaultValue([cObj EXCEPT !.data = data, !.strData = {}, !.isFirst = TRUE,
                                            !.panel = {}, !.open = FALSE], cObj.value)
    /\ odd' = (odd \/ focused)
    /\ Config /\ UNCHANGED <<focused, searchTimeout>>

(* combobox('addData'): isExist is not reset, so nothing behind an item    *)
(* that exists is added.                                                   *)
AddData(new) ==
    LET first == {k \in DOMAIN new : \A j \in 1 .. k : new[j] \notin cObj.data}
    IN  first # {} /\ Refresh(cObj.data \cup {new[k] : k \in first})

(* combobox('delData')                                                     *)
DelData(v) == Refresh(cObj.data \ {v})

Next ==
    \/ Focus \/ Blur \/ SearchFun \/ Enter \/ ClickElsewhere
    \/ \E t \in Texts : Keydown(t) \/ Input(t)
    \/ \E i \in Items : ClickItem(i) \/ SetValue(i) \/ DelData(i)
    \/ SetValue(Empty)
    \/ \E i, j \in Items : AddData(<<i, j>>)

Spec == Init /\ [][Next]_vars

-----------------------------------------------------------------------------
(* Outside the field what the user reads is what the form posts and what   *)
(* the listeners of onSelect were last told, through every order of blur,  *)
(* click, search timer, key and call of the component.                     *)
FieldsAgree ==
    hasDefault /\ ~focused /\ ~odd =>
        /\ cObj.value \in {cObj.text, Raw(cObj.text)}
        /\ cObj.selectValue = cObj.value
        /\ checkValue => cObj.value \in Items \cup {Empty}

(* What every step keeps.  The value the listeners were told is the value, *)
(* and a field that does not have the focus, or whose next blur counts for *)
(* nothing, shows it.                                                      *)
Inv ==
    /\ TypeOK /\ FieldsAgree
    /\ checkValue => cObj.value \in Items \cup {Empty}
    /\ hasDefault => /\ cObj.selectValue = cObj.value
                     /\ cObj.selectValue \in {cObj.selectText, Raw(cObj.selectText)}
    /\ hasDefault /\ ~odd /\ (~focused \/ cObj.isSelectBlur) =>
          cObj.value \in {cObj.text, Raw(cObj.text)}
=============================================================================
