------------------------------ MODULE Tooltip ------------------------------
(***************************************************************************)
(* The tooltips of the labels in the sidebar ("Failed", "Successful",      *)
(* "Running"): Bootstrap's tooltip plugin, set up once on the body for     *)
(* every label.  A label cannot have the focus, so that the mouse alone    *)
(* shows and hides its tip, to the right of it, with no delay but with a   *)
(* fade of 150 ms whose end the browser or a timer tells.                  *)
(*                                                                         *)
(* Lengths are in half pixels, so that a middle is a whole number.         *)
(***************************************************************************)
EXTENDS Integers, Sequences, SequencesExt

CONSTANTS
  Labels,       \* the labels of the sidebar
  LabelTop,     \* where each of them is in the document
  LabelHeight,
  WindowHeight,
  Scrolls,      \* how far the document may be scrolled
  TipHeights,   \* the heights of a tip: until it has the class "in", and then,
                \* when its padding is there and its arrow gets a share of it
  NoLabel,      \* the mouse is elsewhere
  MaxHandlers   \* bound: handlers that wait on one tip before the next enter

ASSUME TooltipAssumption ==
  /\ NoLabel \notin Labels
  /\ LabelTop \in [Labels -> Nat]
  /\ {LabelHeight, WindowHeight, MaxHandlers} \cup Scrolls \subseteq Nat
  /\ TipHeights \subseteq [hidden : Nat, shown : Nat \ {0}]

VARIABLES
  mouse, \* the label under the mouse
  tips,  \* for each label its instance of the plugin and its tip
  calm   \* history: the labels whose fades were over before the mouse came or went

vars == <<mouse, tips, calm>>

-----------------------------------------------------------------------------
\* Where a tip is put

\* getViewportAdjustedDelta for a tip at the right: how far it has to go down to be
\* inside the window.
ViewportDelta(top, height, scroll) ==
  LET edge == top - scroll
  IN  IF edge < 0 THEN -edge
        ELSE IF edge + height > WindowHeight THEN WindowHeight - (edge + height)
        ELSE 0

\* Faulty variant: the arrow is not told that the tip has grown.
ApplyPlacement_arrow(l, size, scroll) ==
  LET top == LabelTop[l] + LabelHeight \div 2 - size.hidden \div 2
      delta == ViewportDelta(top, size.shown, scroll)
  IN  [top |-> top + delta, height |-> size.shown, scroll |-> scroll,
       arrow |-> (size.shown - 2 * delta) \div 2]

\* getCalculatedOffset and applyPlacement: the tip is centred for the height it had
\* before it got the class "in", moved into the window for the height it has then,
\* and its arrow put at a percentage of that height.
ApplyPlacement(l, size, scroll) ==
  LET top == LabelTop[l] + LabelHeight \div 2 - size.hidden \div 2
      delta == ViewportDelta(top, size.shown, scroll)
      arrowDelta == 2 * delta - size.hidden + size.shown
  IN  [top |-> top + delta, height |-> size.shown, scroll |-> scroll,
       arrow |-> (size.shown - arrowDelta) \div 2]

NoPlace == [top |-> 0, height |-> 0, scroll |-> 0, arrow |-> 0]

-----------------------------------------------------------------------------
\* An instance of the plugin and its tip

\* What a label has before the mouse comes, and what init makes of it.
NoTip == [made |-> FALSE, hover |-> FALSE, hoverState |-> "null", in |-> FALSE,
          fade |-> FALSE, attached |-> FALSE, described |-> FALSE,
          place |-> NoPlace, handlers |-> <<>>]

Instance(tip) == [tip EXCEPT !.made = TRUE]

\* Faulty variant: the tip goes only if the mouse has just left.
Hidden_out(tip) ==
  [tip EXCEPT !.attached = @ /\ tip.hoverState # "out",
              !.place = IF tip.hoverState # "out" THEN @ ELSE NoPlace,
              !.described = FALSE]

\* Faulty variant: the label still names the tip.
Hidden_named(tip) ==
  [tip EXCEPT !.attached = @ /\ tip.hoverState = "in",
              !.place = IF tip.hoverState = "in" THEN @ ELSE NoPlace]

\* The handler of hide, when the tip has faded out.
Hidden(tip) ==
  [tip EXCEPT !.attached = @ /\ tip.hoverState = "in",
              !.place = IF tip.hoverState = "in" THEN @ ELSE NoPlace,
              !.described = FALSE]

\* Faulty variant: the tip fades out with the class "in".
Hide_in(tip) ==
  LET hiding == IF tip.fade THEN [tip EXCEPT !.handlers = Append(@, "hidden")]
                  ELSE Hidden(tip)
  IN  [hiding EXCEPT !.hoverState = "null"]

\* hide: an instance that has never shown a tip is done at once.
Hide(tip) ==
  LET out == [tip EXCEPT !.in = FALSE]
      hiding == IF tip.fade THEN [out EXCEPT !.handlers = Append(@, "hidden")]
                  ELSE Hidden(out)
  IN  [hiding EXCEPT !.hoverState = "null"]

\* leave, once the event is noted in inState.
LeaveSelf(tip) == IF tip.hover THEN tip ELSE Hide([tip EXCEPT !.hoverState = "out"])

\* The handler of show, when the tip has faded in.
Shown(tip) ==
  LET shown == [tip EXCEPT !.hoverState = "null"]
  IN  IF tip.hoverState = "out" THEN LeaveSelf(shown) ELSE shown

\* show: the classes of the last time are dropped, the tip is put after the label
\* and placed.
Show(tip, place) ==
  [tip EXCEPT !.fade = TRUE, !.in = TRUE, !.attached = TRUE, !.described = TRUE,
              !.place = place, !.handlers = Append(@, "shown")]

\* enter, once the event is noted in inState.
EnterSelf(tip, place) ==
  LET entered == [tip EXCEPT !.hoverState = "in"]
  IN  IF tip.in \/ tip.hoverState = "in" THEN entered ELSE Show(entered, place)

-----------------------------------------------------------------------------
\* The mouse and the transitions

\* The mouse comes over a label: the first time, the body's instance makes one for it.
Enter(l) ==
  /\ mouse = NoLabel /\ mouse' = l
  /\ Len(tips[l].handlers) < MaxHandlers
  /\ \E size \in TipHeights, scroll \in Scrolls :
       tips' = [tips EXCEPT ![l] =
         EnterSelf([Instance(@) EXCEPT !.hover = TRUE], ApplyPlacement(l, size, scroll))]
  /\ calm' = IF tips[l].handlers = <<>> THEN calm \cup {l} ELSE calm \ {l}

\* The mouse leaves a label, which may have been under it since before init.
Leave(l) ==
  /\ mouse = l /\ mouse' = NoLabel
  /\ tips' = [tips EXCEPT ![l] = LeaveSelf([Instance(@) EXCEPT !.hover = FALSE])]
  /\ calm' = IF tips[l].handlers = <<>> THEN calm ELSE calm \ {l}

RunHandler(tip, handler) == IF handler = "shown" THEN Shown(tip) ELSE Hidden(tip)

\* The end of a fade, whether the browser tells it or emulateTransitionEnd: it runs
\* the handlers of every fade of the tip, and not those they leave.
TransitionEnd(l) ==
  /\ tips[l].handlers # <<>>
  /\ tips' = [tips EXCEPT ![l] =
       FoldLeft(RunHandler, [@ EXCEPT !.handlers = <<>>], @.handlers)]
  /\ UNCHANGED <<mouse, calm>>

-----------------------------------------------------------------------------
Init ==
  /\ mouse \in Labels \cup {NoLabel}
  /\ tips = [l \in Labels |-> NoTip]
  /\ calm = {}

Next == \E l \in Labels : Enter(l) \/ Leave(l) \/ TransitionEnd(l)

\* The timer of each fade fires.
Spec ==
  /\ Init /\ [][Next]_vars
  /\ \A l \in Labels : WF_vars(TransitionEnd(l))

-----------------------------------------------------------------------------
\* Properties

\* Every variable has its type; a tip that is seen fades, the instance knows where
\* the mouse is once it has been told, and a label that is described by a tip, to a
\* screen reader, has it on the page, however the handlers of several fades run
\* (bootstrap.js:1444, 1575-1579).
TypeOK ==
  /\ mouse \in Labels \cup {NoLabel}
  /\ calm \subseteq Labels
  /\ tips \in [Labels ->
       [made : BOOLEAN, hover : BOOLEAN, hoverState : {"null", "in", "out"}, in : BOOLEAN,
        fade : BOOLEAN, attached : BOOLEAN, described : BOOLEAN,
        place : [top : Int, height : Nat, scroll : Nat, arrow : Int],
        handlers : Seq({"shown", "hidden"})]]
  /\ \A l \in Labels :
       /\ tips[l].in => tips[l].fade
       /\ tips[l].described => tips[l].attached
       /\ tips[l].made => tips[l].hover = (mouse = l)

\* Whoever lets a fade end before the mouse comes or goes sees the tip of the label
\* under the mouse, for as long as it stays there (bootstrap.js:1380, 1492, 1575).
ThePatientSeeTheTip ==
  \A l \in calm : mouse = l /\ tips[l].made =>
    tips[l].attached /\ tips[l].in /\ tips[l].described

\* The arrow of a tip points at the middle of its label, wherever the window's edges
\* have pushed the tip and whether or not it grew; and a tip that fits in the window
\* is inside it (bootstrap.js:1533-1552, 1648-1655).
ArrowPointsAtLabel ==
  \A l \in Labels : LET p == tips[l].place IN tips[l].attached =>
    /\ p.top + p.arrow = LabelTop[l] + LabelHeight \div 2
    /\ p.height <= WindowHeight =>
         p.scroll <= p.top /\ p.top + p.height <= p.scroll + WindowHeight

\* The tip of a label that the mouse left goes away, or the mouse comes back: no tip
\* is stranded by fades that cross (bootstrap.js:1403-1418, 1569-1596).
TipsGoAway ==
  \A l \in Labels : mouse # l ~> (~tips[l].attached \/ mouse = l)
=============================================================================
