------------------------------ MODULE Collapse ------------------------------
(***************************************************************************)
(* The panels of the schedule editor as an accordion: Bootstrap's collapse *)
(* plugin, which opens the panel whose header is clicked and closes the    *)
(* one that was open, each in a CSS transition of 350 ms that ends with an *)
(* event of the browser or of a timer.                                     *)
(*                                                                         *)
(* Panels are numbered as they come on the page.  An instance of the       *)
(* plugin is an object in a panel's data: it can be dropped there while a  *)
(* transition still has a handler of it.                                   *)
(***************************************************************************)
EXTENDS Integers, Sequences, SequencesExt, FiniteSetsExt

CONSTANTS
  N,      \* number of panels
  Opened, \* the panel that the page is rendered with
  MaxHandlers \* bound: handlers that wait on one panel before another click

ASSUME CollapseAssumption == {N, MaxHandlers} \subseteq Nat /\ Opened \in 1..N

Panels == 1..N

VARIABLES
  panels,   \* for each panel its classes, the instance in its data, whether its
            \* header has the class "collapsed", and the handlers of its next
            \* end of a transition
  animates, \* $.support.transition: set once the page is ready
  used,     \* a header has been clicked
  calm      \* history: no header was clicked while a panel was moving

vars == <<panels, animates, used, calm>>

-----------------------------------------------------------------------------
\* One panel

NoInstance == [made |-> FALSE, transitioning |-> FALSE, parent |-> FALSE]
Instance(parent) == [made |-> TRUE, transitioning |-> FALSE, parent |-> parent]

Open(panel) == "in" \in panel.classes
Moving(panel) == "collapsing" \in panel.classes

\* addAriaAndCollapsedClass
AddCollapsedClass(panel) == [panel EXCEPT !.collapsed = ~Open(panel)]

\* Faulty variant: the instance stays in transition.
Complete_locked(panel, handler) ==
  [panel EXCEPT !.classes = (@ \ {"collapsing"}) \cup
                  IF handler.shows THEN {"collapse", "in"} ELSE {"collapse"}]

\* Faulty variant: a handler without its instance does nothing.
Complete_mine(panel, handler) ==
  IF ~handler.mine THEN panel
    ELSE [panel EXCEPT !.classes = (@ \ {"collapsing"}) \cup
                         IF handler.shows THEN {"collapse", "in"} ELSE {"collapse"},
                       !.data.transitioning = FALSE]

\* Faulty variant: an opened panel keeps the class of one that moves.
Complete_moving(panel, handler) ==
  [panel EXCEPT !.classes = IF handler.shows THEN @ \cup {"collapse", "in"}
                              ELSE (@ \ {"collapsing"}) \cup {"collapse"},
                !.data.transitioning = @ /\ ~handler.mine]

\* The handler complete of a show or a hide.  One whose instance has been dropped
\* only turns the classes.
Complete(panel, handler) ==
  [panel EXCEPT !.classes = (@ \ {"collapsing"}) \cup
                  IF handler.shows THEN {"collapse", "in"} ELSE {"collapse"},
                !.data.transitioning = @ /\ ~handler.mine]

\* A transition begins, or is over at once where there are none.
Begin(panel, classes, shows) ==
  LET handler == [shows |-> shows, mine |-> TRUE]
      begun == [panel EXCEPT !.classes = classes, !.collapsed = ~shows,
                             !.data.transitioning = TRUE]
  IN  IF animates THEN [begun EXCEPT !.handlers = Append(@, handler)]
        ELSE Complete(begun, handler)

Hide(panel) ==
  IF panel.data.transitioning \/ ~Open(panel) THEN panel
    ELSE Begin(panel, {"collapsing"}, FALSE)

\* Faulty variant: a panel nobody has clicked yet is not closed.
CallHide_known(panel) == IF panel.data.made THEN Hide(panel) ELSE panel

\* Plugin.call(panel, 'hide'): an instance that is made for it has no parent.
CallHide(panel) ==
  Hide(IF panel.data.made THEN panel
         ELSE AddCollapsedClass([panel EXCEPT !.data = Instance(FALSE)]))

\* The instance leaves the panel's data; its handlers stay.
Drop(panel) ==
  [panel EXCEPT !.data = NoInstance,
                !.handlers = [i \in DOMAIN @ |-> [@[i] EXCEPT !.mine = FALSE]]]

-----------------------------------------------------------------------------
\* The panels of the accordion

Actives == {q \in Panels : Open(panels[q]) \/ Moving(panels[q])}

\* show of the instance in panel p.  Only the data of the first of the active panels
\* is looked at; where it has none, all of them lose theirs.  An instance that is
\* new is not in the data of its panel before show returns.
Show(all, p, new) ==
  LET self == all[p]
      actives == IF self.data.parent THEN Actives ELSE {}
      first == Min(actives)
      known == all[first].data.made /\ ~(new /\ first = p)
      hidden == [q \in Panels |-> IF q \in actives THEN CallHide(all[q]) ELSE all[q]]
      left == [q \in Panels |->
                 IF actives # {} /\ ~known /\ q \in actives /\ ~(new /\ q = p)
                   THEN Drop(hidden[q]) ELSE hidden[q]]
      shown == Begin([left[p] EXCEPT !.data = self.data],
                     (left[p].classes \ {"collapse"}) \cup {"collapsing"}, TRUE)
      dropped == actives # {} /\ ~known /\ p \in actives /\ ~new
  IN  IF \/ self.data.transitioning \/ Open(self)
         \/ actives # {} /\ known /\ all[first].data.transitioning
        THEN all
        ELSE [left EXCEPT ![p] = IF dropped THEN Drop(shown) ELSE shown]

\* A click on a header, at most one of them by the editor's script before the page
\* is ready.  A panel without an instance gets one, which marks every header.
Toggle(p) ==
  LET new == ~panels[p].data.made
      all == IF ~new THEN panels
               ELSE [q \in Panels |-> AddCollapsedClass(
                       IF q = p THEN [panels[q] EXCEPT !.data = Instance(TRUE)]
                                ELSE panels[q])]
  IN  IF Open(panels[p]) THEN [all EXCEPT ![p] = Hide(@)] ELSE Show(all, p, new)

Click(p) ==
  /\ animates \/ ~used
  /\ \A q \in Panels : Len(panels[q].handlers) < MaxHandlers
  /\ panels' = Toggle(p)
  /\ used' = TRUE
  /\ calm' = (calm /\ \A q \in Panels : ~Moving(panels[q]))
  /\ UNCHANGED animates

\* The editor's script has clicked a header or none by the time the page is ready.
Ready ==
  /\ ~animates /\ animates' = TRUE
  /\ UNCHANGED <<panels, used, calm>>

\* The end of a transition, whether the browser tells it or emulateTransitionEnd:
\* it runs the handlers of every transition of the panel.
TransitionEnd(p) ==
  /\ panels[p].handlers # <<>>
  /\ panels' = [panels EXCEPT
       ![p] = [FoldLeft(Complete, @, @.handlers) EXCEPT !.handlers = <<>>]]
  /\ UNCHANGED <<animates, used, calm>>

-----------------------------------------------------------------------------
Init ==
  /\ panels = [p \in Panels |->
       [classes |-> IF p = Opened THEN {"collapse", "in"} ELSE {"collapse"},
        data |-> NoInstance, collapsed |-> FALSE, handlers |-> <<>>]]
  /\ animates = FALSE /\ used = FALSE /\ calm = TRUE

Next ==
  \/ \E p \in Panels : Click(p)
  \/ Ready
  \/ \E p \in Panels : TransitionEnd(p)

\* The timer of each transition fires.
Spec ==
  /\ Init /\ [][Next]_vars
  /\ \A p \in Panels : WF_vars(TransitionEnd(p))

-----------------------------------------------------------------------------
\* Properties

\* Every variable has its type; a panel is open, closed or moving and no two of
\* these, whichever handlers ran in whichever order.
TypeOK ==
  /\ panels \in [Panels ->
       [classes : {{"collapse"}, {"collapse", "in"}, {"collapsing"}},
        data : [made : BOOLEAN, transitioning : BOOLEAN, parent : BOOLEAN],
        collapsed : BOOLEAN, handlers : Seq([shows : BOOLEAN, mine : BOOLEAN])]]
  /\ {animates, used, calm} \subseteq BOOLEAN

\* No header goes dead: an instance that refuses clicks because it is in transition
\* has a handler to come that lets it go, though instances are dropped and made in
\* between (bootstrap.js:584, 614-620).
NoneIsLocked ==
  \A p \in Panels : panels[p].data.transitioning =>
    Moving(panels[p]) /\ \E i \in DOMAIN panels[p].handlers : panels[p].handlers[i].mine

\* Whoever waits for one transition before the next click has an accordion: at most
\* one panel is open and each header says which (bootstrap.js:587-600).
OnePanelIsOpen ==
  calm /\ used /\ (\A p \in Panels : ~Moving(panels[p])) =>
    /\ \A p \in Panels : panels[p].collapsed = ~Open(panels[p])
    /\ \A p, q \in Panels : Open(panels[p]) /\ Open(panels[q]) => p = q

\* Every panel that moves comes to rest, even if headers are clicked in a hurry
\* (bootstrap.js:54-61, 625-631).
PanelsSettle ==
  \A p \in Panels : Moving(panels[p]) ~> ~Moving(panels[p])
=============================================================================
