------------------------------ MODULE Placement ------------------------------
(***************************************************************************)
(* Where something opens beside an element: the eight positions of         *)
(* cloudJs/js/dialog.js and tips.js and the four of the error messages of  *)
(* validate.js, the tests that choose and the coordinates that follow.     *)
(* Coordinates are those of the window (what is scrolled away is taken off *)
(* on both sides).                                                         *)
(***************************************************************************)
EXTENDS Integers, Sequences

CONSTANTS
    Screen,     \* width and height of the window
    Places,     \* where the element may begin
    EleSizes,   \* its widths and heights, even
    BoxSizes,   \* widths and heights of what opens, even
    NoPosition  \* no position wanted

VARIABLES
    geometry,   \* x, y: where the element begins; w, h: its size;
                \* bw, bh: the size of the box
    box         \* what was placed last: who, where and the position wanted

vars == <<geometry, box>>

(* ARROW_WIDTH, SPACING, LEFT_EDG and RIGHT_EDG of the three files; the    *)
(* messages of validate.js open at no corner.                              *)
DialogEdges == [arrow |-> 8, spacing |-> 2, left |-> 6, right |-> 10]
TipsEdges   == [arrow |-> 5, spacing |-> 10, left |-> 14, right |-> 10]
ErrmsgEdges == [arrow |-> 5, spacing |-> 2]
Gap(e) == e.arrow + e.spacing

Positions == <<"up", "down", "left", "right",
               "up_left", "up_right", "down_left", "down_right">>
Sides == {"up", "down", "left", "right"}
Wanted == {Positions[i] : i \in DOMAIN Positions} \cup {NoPosition}

Init ==
    /\ geometry \in [x : Places, y : Places, w : EleSizes, h : EleSizes,
                     bw : BoxSizes, bh : BoxSizes]
    /\ box = [who |-> "none"]

-----------------------------------------------------------------------------
(* Mutant: the width of the box is forgotten.                              *)
RRNarrow(e, g) == g.x + g.w + Gap(e) < Screen

(* The tests _uu, _dd, _ll, _rr, _lr, _ud, _cl and _cr, for the edges of   *)
(* the file they stand in.                                                 *)
UU(e, g) == g.y - g.bh - Gap(e) > 0
DD(e, g) == g.y + g.h + g.bh + Gap(e) < Screen
LL(e, g) == g.x - g.bw - Gap(e) > 0
RR(e, g) == g.x + g.w + g.bw + Gap(e) < Screen
LR(g) == g.x + g.w \div 2 - g.bw \div 2 > 0 /\ g.x + g.w \div 2 + g.bw \div 2 < Screen
UD(g) == g.y + g.h \div 2 - g.bh \div 2 > 0 /\ g.y + g.h \div 2 + g.bh \div 2 < Screen
CL(e, g) == g.x + g.w \div 2 - g.bw + e.arrow > 0
CR(e, g) == g.x + g.w \div 2 + g.bw - e.arrow < Screen

Passes(e, g, p) ==
    CASE p = "up"         -> UU(e, g) /\ LR(g)
      [] p = "down"       -> DD(e, g) /\ LR(g)
      [] p = "left"       -> LL(e, g) /\ UD(g)
      [] p = "right"      -> RR(e, g) /\ UD(g)
      [] p = "up_left"    -> UU(e, g) /\ CL(e, g)
      [] p = "up_right"   -> UU(e, g) /\ CR(e, g)
      [] p = "down_left"  -> DD(e, g) /\ CL(e, g)
      [] p = "down_right" -> DD(e, g) /\ CR(e, g)

(* The wanted position, the first that passes, or the given one.           *)
FirstOf(e, g, wanted, otherwise) ==
    LET passing == {i \in DOMAIN Positions : Passes(e, g, Positions[i])} IN
    CASE wanted # NoPosition /\ Passes(e, g, wanted) -> wanted
      [] passing = {} -> otherwise
      [] OTHER -> Positions[CHOOSE i \in passing : \A j \in passing : i <= j]

(* _calculatePosition of the two: when nothing passes a dialog opens       *)
(* below, a tip where it was wanted.                                       *)
CalculatePosition(g, wanted) == FirstOf(DialogEdges, g, wanted, "down")
CalculateTipsPosition(g, wanted) ==
    FirstOf(TipsEdges, g, wanted, IF wanted = NoPosition THEN "down" ELSE wanted)

(* _getOffset of the three files.                                          *)
OffsetLeft(e, g, p) ==
    CASE p = "left"  -> g.x - g.bw - Gap(e)
      [] p = "right" -> g.x + g.w + Gap(e)
      [] p \in {"up", "down"} -> g.x + g.w \div 2 - g.bw \div 2
      [] p \in {"up_left", "down_left"} -> g.x + g.w \div 2 - g.bw + e.arrow + e.left
      [] p \in {"up_right", "down_right"} -> g.x + g.w \div 2 - e.arrow - e.right
OffsetTop(e, g, p) ==
    CASE p \in {"left", "right"} -> g.y + g.h \div 2 - g.bh \div 2
      [] p \in {"up", "up_left", "up_right"} -> g.y - g.bh - Gap(e)
      [] p \in {"down", "down_left", "down_right"} -> g.y + g.h + Gap(e)
Offset(e, g, p) == [left |-> OffsetLeft(e, g, p), top |-> OffsetTop(e, g, p)]
GetOffset(g, p) == Offset(DialogEdges, g, p)
GetTipsOffset(g, p) == Offset(TipsEdges, g, p)

(* The error message of a field (validate.js). Its test for the right does *)
(* not count the width of the message.                                     *)
ValidateFits(g, p) ==
    CASE p = "down"  -> DD(ErrmsgEdges, g) /\ LR(g)
      [] p = "up"    -> UU(ErrmsgEdges, g) /\ LR(g)
      [] p = "right" -> g.x + g.w + Gap(ErrmsgEdges) < Screen /\ UD(g)
      [] p = "left"  -> LL(ErrmsgEdges, g) /\ UD(g)
ValidatePosition(g, wanted) ==
    LET order   == <<"down", "up", "right", "left">>
        passing == {i \in DOMAIN order : ValidateFits(g, order[i])}
    IN  CASE wanted \in Sides -> wanted
          [] wanted \notin Sides /\ passing = {} -> "up"
          [] OTHER -> order[CHOOSE i \in passing : \A j \in passing : i <= j]
ValidateOffset(g, p) == Offset(ErrmsgEdges, g, p)

(* _relativePosiiton                                                       *)
RelativePosition(wanted) ==
    box' = [who |-> "dialog", wanted |-> wanted,
            at |-> GetOffset(geometry, CalculatePosition(geometry, wanted))]
(* _resetTipsPosition                                                      *)
ResetTipsPosition(wanted) ==
    box' = [who |-> "tips", wanted |-> wanted,
            at |-> GetTipsOffset(geometry, CalculateTipsPosition(geometry, wanted))]
(* _showTips of validate.js                                                *)
ShowErrmsg(wanted) ==
    box' = [who |-> "errmsg", wanted |-> wanted,
            at |-> ValidateOffset(geometry, ValidatePosition(geometry, wanted))]
(* _getMiddleOffset: half way across, a third of the way down, the         *)
(* quotients cut towards zero.                                             *)
Cut(a, n) == IF a >= 0 THEN a \div n ELSE -((-a) \div n)
MiddlePosition ==
    box' = [who |-> "middle", wanted |-> NoPosition,
            at |-> [left |-> Cut(Screen - geometry.bw, 2), top |-> Cut(Screen - geometry.bh, 3)]]

Next == /\ \/ \E wanted \in Wanted : RelativePosition(wanted) \/ ResetTipsPosition(wanted)
           \/ \E wanted \in Sides \cup {NoPosition} : ShowErrmsg(wanted)
           \/ MiddlePosition
        /\ UNCHANGED geometry

Spec == Init /\ [][Next]_vars

-----------------------------------------------------------------------------
(* With a pixel to spare, as the tests want it, and without.               *)
HasRoom(g, at) == /\ at.left > 0 /\ at.left + g.bw < Screen
                  /\ at.top > 0 /\ at.top + g.bh < Screen
Inside(g, at) == /\ at.left >= 0 /\ at.left + g.bw <= Screen
                 /\ at.top >= 0 /\ at.top + g.bh <= Screen
Covers(g, at) == /\ at.left < g.x + g.w /\ g.x < at.left + g.bw
                 /\ at.top < g.y + g.h /\ g.y < at.top + g.bh

RoomIsUsed(e) ==
    /\ box.wanted \in Sides \cup {NoPosition}
    /\ \E p \in Sides : HasRoom(geometry, Offset(e, geometry, p))
    => Inside(geometry, box.at)

(* What opens beside an element never covers it; it lies within the window *)
(* if one of the four sides has room, unless a corner was asked for; and a *)
(* dialog in the middle of the page has its head in the window if it fits. *)
OpensInSight ==
    /\ box.who \in {"dialog", "tips", "errmsg"} => ~Covers(geometry, box.at)
    /\ box.who = "dialog" => RoomIsUsed(DialogEdges)
    /\ box.who = "tips" => RoomIsUsed(TipsEdges)
    /\ box.who = "middle" /\ geometry.bw <= Screen /\ geometry.bh <= Screen =>
          Inside(geometry, box.at)

=============================================================================
