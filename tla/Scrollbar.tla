------------------------------ MODULE Scrollbar ------------------------------
(***************************************************************************)
(* The scroll bars of the hub's sidebar and main panel: perfect-scrollbar  *)
(* hides the browser's bars, draws its own from sizes it measures and      *)
(* keeps, and scrolls for the wheel, the keys, the rail and the thumb.     *)
(*                                                                         *)
(* One element is modelled; lengths are pixels.  The text runs from left   *)
(* to right and the rails have no margins, so a rail is as long as its     *)
(* container.  The events the plugin announces have no listener here.      *)
(***************************************************************************)
EXTENDS Integers, FiniteSets

CONSTANTS
  Sizes,       \* for each axis, the sizes its container and content may have
  RailStart,   \* for each axis, where its rail begins on the page
  Pages,       \* positions of the mouse on the page, along one axis
  WheelSteps,  \* how far a turn of the wheel goes
  Line, Page,  \* how far an arrow key and a page key go: 30 and 90
  Children,    \* what may lie under the mouse: text areas that scroll
  MaxPresses   \* bound: presses of the mouse before a release is delivered

Axes == {"x", "y"}

ASSUME ScrollbarAssumption ==
  /\ DOMAIN Sizes = Axes
  /\ \A a \in Axes : Sizes[a] \subseteq
       {s \in [view : Nat \ {0}, content : Nat] : s.view <= s.content}
  /\ RailStart \in [Axes -> Nat] /\ WheelSteps \subseteq Int /\ 0 \in WheelSteps
  /\ Pages \subseteq Nat /\ {Line, Page} \subseteq Nat /\ MaxPresses \in Nat \ {0}

VARIABLES
  live,      \* the plugin is initialized
  size,      \* clientHeight, scrollHeight and the same of the width
  scroll,    \* scrollTop and scrollLeft
  pending,   \* the browser has a scroll event to deliver
  measured,  \* the sizes the plugin knows
  bar,       \* for each axis, whether there is a bar, and its thumb
  drag,      \* for each axis, the handlers bound to the document by a press
             \* and what the press remembered
  held,      \* the classes that show a bar as held
  attended,  \* the mouse is over the element or a thumb has the focus
  button,    \* the mouse button is down
  missed     \* history: the last release was not delivered

mouseVars == <<drag, held, button, missed>>
scrollVars == <<live, size, scroll, pending, measured, bar>>
vars == <<scrollVars, mouseVars, attended>>

-----------------------------------------------------------------------------
\* Scrolling and drawing

Span(s) == s.content - s.view

\* The browser keeps a scroll position within the content.
Clamp(v, s) == IF v < 0 THEN 0 ELSE IF v > Span(s) THEN Span(s) ELSE v

\* updateScroll: where a position ends up that is set to v.  The end of the
\* content is the one last measured; a pixel from it is near enough.
ScrollTo(now, known, real, v) ==
  LET from == IF v <= 0 THEN 0 ELSE now
      to == IF v <= 0 THEN 0 ELSE v
  IN  Clamp(IF to < Span(known) THEN to
              ELSE IF Span(known) - from <= 1 THEN from ELSE Span(known),
            real)

NewBar == [active |-> FALSE, thumb |-> 0, pos |-> 0]

\* Faulty variant: the thumb's own length is forgotten.
Thumb_long(now, s) ==
  IF s.view = s.content THEN NewBar
    ELSE [active |-> TRUE, thumb |-> (s.view * s.view) \div s.content,
          pos |-> (now * s.view) \div Span(s)]

\* The bar of one axis, as updateGeometry draws it.
Thumb(now, s) ==
  LET thumb == (s.view * s.view) \div s.content
  IN  IF s.view = s.content THEN NewBar
        ELSE [active |-> TRUE, thumb |-> thumb,
              pos |-> (now * (s.view - thumb)) \div Span(s)]

\* Faulty variant: a bar is drawn anew only when the content has moved.
UpdateGeometry_lazy(position) ==
  /\ measured' = size
  /\ bar' = IF position # scroll
              THEN [a \in Axes |-> Thumb(position[a], size[a])] ELSE bar
  /\ scroll' = position

\* updateGeometry, after the content has been moved to a position: what does not
\* overflow is moved back to its start.
UpdateGeometry(position) ==
  /\ measured' = size
  /\ bar' = [a \in Axes |-> Thumb(position[a], size[a])]
  /\ scroll' = [a \in Axes |-> IF bar'[a].active THEN position[a] ELSE 0]

Redraw(position) ==
  /\ UpdateGeometry(position)
  /\ pending' = (pending \/ scroll' # scroll)

MoveTo(v) ==
  Redraw([a \in Axes |-> ScrollTo(scroll[a], measured[a], size[a], v[a])])

MoveBy(d) == MoveTo([a \in Axes |-> scroll[a] + d[a]])

Along(a, n) == [b \in Axes |-> IF b = a THEN n ELSE 0]

-----------------------------------------------------------------------------
\* The page

\* init.js: the plugin is set up; the main panel is moved to its top and its
\* bars are updated.
Load(mainPanel) ==
  /\ ~live /\ live' = TRUE
  /\ Redraw([a \in Axes |-> IF mainPanel /\ a = "y" THEN 0 ELSE scroll[a]])
  /\ UNCHANGED <<size, mouseVars, attended>>

\* A panel opens or closes, or the window is resized.
Resize(a, s) ==
  /\ live /\ s # size[a]
  /\ size' = [size EXCEPT ![a] = s]
  /\ scroll' = [scroll EXCEPT ![a] = Clamp(@, s)]
  /\ pending' = (pending \/ scroll' # scroll)
  /\ UNCHANGED <<live, measured, bar, mouseVars, attended>>

\* The browser scrolls by itself, to a field that gets the focus or to an anchor.
NativeScroll(a, v) ==
  /\ live /\ v # scroll[a]
  /\ scroll' = [scroll EXCEPT ![a] = v] /\ pending' = TRUE
  /\ UNCHANGED <<live, size, measured, bar, mouseVars, attended>>

\* The handler of the scroll event.
ScrollEvent ==
  /\ live /\ pending
  /\ UpdateGeometry(scroll)
  /\ pending' = (scroll' # scroll)
  /\ UNCHANGED <<live, size, mouseVars, attended>>

-----------------------------------------------------------------------------
\* The wheel and the keys

WheelPropagation == FALSE

\* Faulty variant: both bars must be there.
Prevents_both(d) == \A a \in Axes : bar[a].active

\* shouldPreventDefault, which the handlers of the wheel and of the keys call once
\* they have moved the content: whether the event is kept from the rest of the
\* page.  At an end of the content it is, unless the settings let it through.
Prevents(d) ==
  LET AtEnd(a) == \/ d[a] < 0 /\ scroll[a] = 0
                  \/ d[a] > 0 /\ scroll[a] >= Span(measured[a])
      Keeps(a, other) == d[other] = 0 =>
                           bar[a].active /\ (WheelPropagation => ~AtEnd(a))
  IN  Keeps("y", "x") /\ Keeps("x", "y")

\* shouldBeConsumedByChild: sideways, a child counts as scrollable only when it is
\* scrolled by more than its own width.
ConsumedByChild(child, d) ==
  LET Takes(pos, last, n) ==
        last > 0 /\ ~(pos = 0 /\ n < 0) /\ ~(pos = last /\ n > 0)
  IN  \/ Takes(child.top, child.height - child.view, d["y"])
      \/ Takes(child.left, child.left - child.width, d["x"])

Wheel(d, child) ==
  /\ live /\ ~ConsumedByChild(child, d)
  /\ MoveBy(d)
  /\ UNCHANGED <<live, size, mouseVars, attended>>

\* How far the keys move the content: arrows, page up and down, space, home, end,
\* with and without the keys that modify them.
KeySteps(a) ==
  LET far == {Line, measured[a].view, measured[a].content}
               \cup IF a = "y" THEN {Page} ELSE {}
  IN  far \cup {-n : n \in far} \cup IF a = "y" THEN {-scroll[a]} ELSE {}

KeyDown(d) ==
  /\ live /\ attended
  /\ MoveBy(d)
  /\ UNCHANGED <<live, size, mouseVars, attended>>

\* mouseenter, mouseleave, and focus and blur of a thumb.
Attend(on) ==
  /\ live /\ attended # on
  /\ attended' = on
  /\ UNCHANGED <<scrollVars, mouseVars>>

-----------------------------------------------------------------------------
\* The rail and the thumb

\* Faulty variant: the end of the thumb decides, so a click before it may go on.
ClickRail_end(a, p) ==
  /\ live /\ bar[a].active
  /\ p \in 0..(measured[a].view - 1)
  /\ p \notin bar[a].pos..(bar[a].pos + bar[a].thumb - 1)
  /\ MoveBy(Along(a, IF p + bar[a].thumb > bar[a].pos
                       THEN measured[a].view ELSE -measured[a].view))
  /\ UNCHANGED <<live, size, mouseVars, attended>>

\* A click at p, beside the thumb, moves the content by the length of a page.
ClickRail(a, p) ==
  /\ live /\ bar[a].active
  /\ p \in 0..(measured[a].view - 1)
  /\ p \notin bar[a].pos..(bar[a].pos + bar[a].thumb - 1)
  /\ MoveBy(Along(a, IF p > bar[a].pos THEN measured[a].view ELSE -measured[a].view))
  /\ UNCHANGED <<live, size, mouseVars, attended>>

NoDrag == [moves |-> 0, ups |-> 0, from |-> 0, at |-> 0]

\* EventManager: bind and once add one more entry, unbind drops every entry of
\* the handler it is given.
Bind(n) == n + 1
Once(n) == n + 1

\* Faulty variant: unbind drops one entry.
Unbind_one(n) == n - 1

Unbind(n) == 0

startScrolling(a) == held' = held \cup {"in-scrolling", a}

\* The mouse is pressed on a thumb, at the page position p.
Press(a, p) ==
  /\ live /\ bar[a].active /\ ~button
  /\ drag[a].ups < MaxPresses
  /\ p - RailStart[a] \in bar[a].pos..(bar[a].pos + bar[a].thumb - 1)
  /\ button' = TRUE
  /\ drag' = [drag EXCEPT ![a] = [moves |-> Bind(@.moves), ups |-> Once(@.ups),
                                  from |-> p, at |-> bar[a].pos]]
  /\ startScrolling(a)
  /\ UNCHANGED <<scrollVars, attended, missed>>

\* Faulty variant: the thumb moves on from where it is, not from where it was held.
Dragged_again(a, p) == bar[a].pos + p - drag[a].from

\* Where a mouse at p has dragged the thumb to.
Dragged(a, p) == drag[a].at + p - drag[a].from

\* The handler of mousemove.  Its limit is too far down the rail by the place of
\* the rail on the page: the content stops at its end before the thumb does.
Drag(a, p) ==
  LET free == measured[a].view - bar[a].thumb
      limit == RailStart[a] + free
      at == IF Dragged(a, p) < 0 THEN 0
              ELSE IF Dragged(a, p) > limit THEN limit ELSE Dragged(a, p)
  IN  /\ live /\ drag[a].moves > 0
      /\ MoveTo([scroll EXCEPT ![a] = (at * Span(measured[a])) \div free])
      /\ UNCHANGED <<live, size, mouseVars, attended>>

\* The handlers of mouseup: every axis that was pressed has one for each press.
Release ==
  LET pressed == {a \in Axes : drag[a].ups > 0}
  IN  /\ button /\ button' = FALSE /\ missed' = FALSE
      /\ drag' = [a \in Axes |-> IF a \notin pressed THEN drag[a]
                    ELSE [NoDrag EXCEPT !.moves = Unbind(drag[a].moves)]]
      /\ held' = held \ (IF pressed = {} THEN {} ELSE pressed \cup {"in-scrolling"})
      /\ UNCHANGED <<scrollVars, attended>>

\* The button is released over a dialog or another window.
MissRelease ==
  /\ button /\ button' = FALSE /\ missed' = TRUE
  /\ UNCHANGED <<scrollVars, attended, drag, held>>

-----------------------------------------------------------------------------
Init ==
  /\ live = FALSE /\ pending = FALSE
  /\ \E w \in Sizes["x"], h \in Sizes["y"] :
       /\ size = [x |-> w, y |-> h]
       /\ \E left \in 0..Span(w), top \in 0..Span(h) : scroll = [x |-> left, y |-> top]
  /\ measured = [a \in Axes |-> [view |-> 0, content |-> 0]]
  /\ bar = [a \in Axes |-> NewBar] /\ drag = [a \in Axes |-> NoDrag]
  /\ held = {} /\ attended = FALSE /\ button = FALSE /\ missed = FALSE

Turns == [Axes -> WheelSteps]

Browser ==
  \/ \E mainPanel \in BOOLEAN : Load(mainPanel)
  \/ \E a \in Axes : \E s \in Sizes[a] : Resize(a, s)
  \/ \E a \in Axes : \E v \in 0..Span(size[a]) : NativeScroll(a, v)
  \/ ScrollEvent

User ==
  \/ \E d \in Turns, child \in Children : Wheel(d, child)
  \/ \E a \in Axes : \E n \in KeySteps(a) : KeyDown(Along(a, n))
  \/ \E on \in BOOLEAN : Attend(on)
  \/ \E a \in Axes : \E p \in 0..(measured[a].view - 1) : ClickRail(a, p)
  \/ \E a \in Axes, p \in Pages : Press(a, p) \/ Drag(a, p)
  \/ Release
  \/ MissRelease

Next == Browser \/ User

Spec == Init /\ [][Next]_vars

-----------------------------------------------------------------------------
\* Properties

\* Every variable has its type. For bar and scroll that says more: a thumb never
\* leaves its rail, and the content never its container, wherever the mouse goes
\* and whatever the content does meanwhile (perfect-scrollbar.js:1412-1417).
TypeOK ==
  /\ {live, pending, attended, button, missed} \subseteq BOOLEAN
  /\ \A a \in Axes :
       /\ size[a] \in Sizes[a] /\ scroll[a] \in 0..Span(size[a])
       /\ measured[a] \in Sizes[a] \/ ~live
       /\ bar[a].active \in BOOLEAN /\ {bar[a].pos, bar[a].thumb} \subseteq Nat
       /\ bar[a].pos + bar[a].thumb <= measured[a].view
       /\ drag[a].moves \in Nat /\ drag[a].ups \in 0..MaxPresses
       /\ {drag[a].from, drag[a].at} \subseteq Nat
  /\ held \subseteq Axes \cup {"in-scrolling"}

\* The bars show where the content is, unless the browser still owes the plugin a
\* scroll event or the content has another size than when the plugin measured it:
\* no other handler may leave a bar behind (perfect-scrollbar.js:1364-1436).
BarsAreAccurate ==
  live /\ ~pending /\ measured = size =>
    \A a \in Axes : bar[a] = Thumb(scroll[a], size[a])

\* A thumb that is dragged stays under the mouse: wherever the mouse is, the thumb
\* is where it would be had it been moved as far as the mouse since the press, off
\* by no more than one pixel, however long the drag has been
\* (perfect-scrollbar.js:502-516). Content whose size has changed since the
\* plugin measured it is left out.
ThumbFollowsMouse ==
  [][\A a \in Axes, p \in Pages :
       measured = size /\ bar[a].active /\ Drag(a, p) =>
         LET free == size[a].view - bar[a].thumb
             wanted == drag[a].at + p - drag[a].from
         IN  bar[a].pos' - (IF wanted < 0 THEN 0 ELSE IF wanted > free THEN free
                              ELSE wanted) \in {-1, 0}]_vars

\* A click on the rail brings the thumb towards the mouse and not past it, but for
\* two pixels of rounding: clicks in one place end there, they do not make the
\* content leap to and fro (perfect-scrollbar.js:417-425). A thumb of length zero
\* that is clicked is left out, and a container whose length has changed since the
\* plugin measured it; the content may have changed.
RailLeadsToMouse ==
  [][\A a \in Axes : \A p \in 0..(measured[a].view - 1) :
       /\ bar[a] = Thumb(scroll[a], size[a]) /\ measured[a].view = size[a].view
       /\ ClickRail(a, p)
       => /\ p < bar[a].pos => /\ bar[a].pos' <= bar[a].pos
                              /\ p <= bar[a].pos' + bar[a].thumb' + 1
          /\ p > bar[a].pos => bar[a].pos' \in bar[a].pos..(p + 2)]_vars

\* An event that scrolls the element is kept from the rest of the page: one turn of
\* the wheel or one key never scrolls two things. Whether it is kept is decided
\* after the content has moved and the bars were drawn for sizes that may have
\* changed since they were last measured (perfect-scrollbar.js:715-736, 568-589).
EventsScrollOnce ==
  [][scroll' # scroll =>
       /\ \A d \in Turns, child \in Children : Wheel(d, child) => Prevents(d)'
       /\ \A a \in Axes : \A n \in KeySteps(a) :
            KeyDown(Along(a, n)) => Prevents(Along(a, n))']_vars

\* Once the button is up no handler follows the mouse and no bar looks held, unless
\* the release never came; then the next release ends every drag, even after more
\* than one press (perfect-scrollbar.js:480-491, 525-536).
DragsEnd ==
  /\ \A a \in Axes : drag[a].moves > 0 <=> a \in held
  /\ "in-scrolling" \in held <=> \E a \in Axes : drag[a].moves > 0
  /\ held # {} => button \/ missed
=============================================================================
