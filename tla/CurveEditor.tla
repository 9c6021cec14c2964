----------------------------- MODULE CurveEditor -----------------------------
(***************************************************************************)
(* The curve of one fan on the Thermal page: the editor with its drag and its  *)
(* context menu (ui/widgets/FanCurveEditor.cpp), the page that shows a         *)
(* read-only reference for every mode but Custom and saves what is edited      *)
(* (ui/pages/ThermalPage.cpp), and the rules by which a curve is kept          *)
(* (core/FanCurve.cpp, core/ConfigStore.cpp).  An adopted profile may change   *)
(* the mode shown while a button is held or the menu is open.                  *)
(***************************************************************************)
EXTENDS Naturals, Sequences, FiniteSets, SequencesExt

CONSTANTS
  CustomMode, FactoryModes,   \* the modes a curve is shown for
  DefaultCurve, Reference,    \* the default custom curve, the factory modes' curve
  MaxTemp, MaxPercent         \* 105 and 100; both axes start at MinTemp = 0 here

Points == (0 .. MaxTemp) \X (0 .. MaxPercent)

\* FanCurve::setPoints keeps a list of two points or more with distinct temperatures.
Valid(pts) ==
  Len(pts) >= 2 /\ \A i, j \in DOMAIN pts : i # j => pts[i][1] # pts[j][1]

ASSUME CurveAssumption ==
  /\ MaxTemp \in Nat /\ MaxPercent \in Nat /\ CustomMode \notin FactoryModes
  /\ DefaultCurve \in Seq(Points) /\ Valid(DefaultCurve)
  /\ \A i, j \in DOMAIN DefaultCurve : i < j => DefaultCurve[i][1] < DefaultCurve[j][1]

VARIABLES
  shown,    \* the mode of m_curveMode
  points,   \* m_points, pairs of a temperature and a percentage
  drag,     \* m_dragIndex + 1, 0 for none
  held,     \* the left button went down on the editor and is not up yet
  menu,     \* the open context menu
  curve,    \* the custom curve of the configuration
  live      \* the one the baseline policy uses

curveVars == <<shown, points, drag, held, menu, curve, live>>

NoMenu == [item |-> "none", hit |-> 0, point |-> <<0, 0>>]

\* std::sort by temperature: the point of rank k comes k-th.
Rank(pts, i) ==
  Cardinality({j \in DOMAIN pts : pts[j][1] < pts[i][1] \/ (pts[j][1] = pts[i][1] /\ j <= i)})
Sorted(pts) == [k \in DOMAIN pts |-> pts[CHOOSE i \in DOMAIN pts : Rank(pts, i) = k]]

EditableAlways(m) == TRUE                                          \* mutant
\* "Presets are read-only, custom is adjustable": a disabled editor gets no mouse
\* events, and neither does its open menu.
EditableIn(m) == m = CustomMode
Editable == EditableIn(shown)

\* FanCurveEditor::setPoints ends a drag.
SetPoints(pts) == points' = pts /\ drag' = 0

\* ThermalPage::onCurveModeChanged.
ShowCurve(m, saved) == shown' = m /\ SetPoints(IF m = CustomMode THEN saved ELSE Reference)

\* ThermalPage::onCurveEdited: an invalid list is not saved, and empties the live curve.
Edited(pts) ==
  /\ curve' = IF Valid(pts) THEN pts ELSE curve
  /\ live' = IF Valid(pts) THEN pts ELSE <<>>

Commit(pts) == points' = Sorted(pts) /\ Edited(points')

\* The page is built for the saved mode and curve.
BuildCurve(m, saved) ==
  /\ ShowCurve(m, saved) /\ held' = FALSE /\ menu' = NoMenu
  /\ curve' = saved /\ live' = saved

CurveInit ==
  /\ shown \in FactoryModes \cup {CustomMode} /\ curve = DefaultCurve /\ live = curve
  /\ points = (IF shown = CustomMode THEN curve ELSE Reference)
  /\ drag = 0 /\ held = FALSE /\ menu = NoMenu

-----------------------------------------------------------------------------
\* The mouse.

\* mousePressEvent: hitTest finds a point or none.
Press(i) ==
  /\ Editable /\ ~held /\ menu = NoMenu
  /\ held' = TRUE /\ drag' = i
  /\ UNCHANGED <<shown, points, menu, curve, live>>

UnclampedTemp(t) == t                                              \* mutant
\* "Keep x strictly ordered between the neighbours."
ClampedTemp(t) ==
  LET low == IF drag > 1 THEN points[drag - 1][1] + 1 ELSE 0
      above == IF t < low THEN low ELSE t
  IN IF drag < Len(points) /\ above >= points[drag + 1][1]
     THEN points[drag + 1][1] - 1 ELSE above

\* mouseMoveEvent.  After a removal the point of a drag that was going on may lie behind
\* the end of the list, where the code writes all the same: undefined, and if the program
\* goes on then with the list as it was, so that such a move is no step here.
Move(p) ==
  /\ Editable /\ held /\ menu = NoMenu /\ drag \in DOMAIN points
  /\ ClampedTemp(p[1]) \in 0 .. MaxTemp
  /\ points' = [points EXCEPT ![drag] = <<ClampedTemp(p[1]), p[2]>>]
  /\ UNCHANGED <<shown, drag, held, menu, curve, live>>

\* mouseReleaseEvent, unless the menu or nobody receives it.
Release ==
  /\ held /\ held' = FALSE
  /\ IF Editable /\ menu = NoMenu /\ drag # 0
     THEN drag' = 0 /\ Commit(points)
     ELSE UNCHANGED <<points, drag, curve, live>>
  /\ UNCHANGED <<shown, menu>>

\* contextMenuEvent: the last two points cannot be removed.
OpenMenu ==
  /\ Editable /\ menu = NoMenu
  /\ \/ \E i \in DOMAIN points :
          Len(points) > 2 /\ menu' = [NoMenu EXCEPT !.item = "remove", !.hit = i]
     \/ \E p \in Points : menu' = [NoMenu EXCEPT !.item = "add", !.point = p]
  /\ UNCHANGED <<shown, points, drag, held, curve, live>>

\* The item captured the point when the menu was opened, and acts on the list of now.
TriggerItem ==
  /\ Editable /\ menu # NoMenu /\ menu' = NoMenu
  /\ \/ menu.item = "remove" /\ Commit(RemoveAt(points, menu.hit))
     \/ /\ menu.item = "add"
        /\ IF \E i \in DOMAIN points : points[i][1] = menu.point[1]
           THEN UNCHANGED <<points, curve, live>>
           ELSE Commit(Append(points, menu.point))
  /\ UNCHANGED <<shown, drag, held>>

CloseMenu == menu # NoMenu /\ menu' = NoMenu /\ UNCHANGED <<shown, points, drag, held, curve, live>>

\* The mode shown changes: by the combo box, a selected mode or an adopted one.
ShowMode(m) == m # shown /\ ShowCurve(m, curve) /\ UNCHANGED <<held, menu, curve, live>>

\* "Reset to default", offered for Custom.
ResetCurve ==
  /\ Editable /\ ~held /\ menu = NoMenu
  /\ SetPoints(DefaultCurve) /\ Edited(DefaultCurve)
  /\ UNCHANGED <<shown, held, menu>>

CurveStep ==
  \/ \E i \in 0 .. Len(points) : Press(i)
  \/ \E p \in Points : Move(p)
  \/ Release \/ OpenMenu \/ TriggerItem \/ CloseMenu
  \/ \E m \in FactoryModes \cup {CustomMode} : ShowMode(m)
  \/ ResetCurve

-----------------------------------------------------------------------------
\* However points are dragged, added and removed while modes change, the curve that is
\* saved is valid and the one the fans follow.
CurveSound == live = curve /\ Valid(curve)

\* A factory mode shows its reference, whatever was being dragged.  (In Custom the
\* editor may show a drag that was never committed: one whose release the menu got.)
CurveShown == shown # CustomMode => points = Reference
=============================================================================
