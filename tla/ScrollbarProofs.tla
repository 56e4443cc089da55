--------------------------- MODULE ScrollbarProofs ---------------------------
(***************************************************************************)
(* What Scrollbar promises for all sizes, turns, keys and presses, and     *)
(* ScrollTouch for all fingers.                                            *)
(***************************************************************************)
EXTENDS ScrollTouch, TLAPS

-----------------------------------------------------------------------------
\* Drags

\* Each press has bound one handler of each kind, and a release ends them all.
DragsInv ==
  /\ drag = [a \in Axes |-> drag[a]]
  /\ \A a \in Axes : drag[a].moves \in Nat /\ drag[a].ups = drag[a].moves
  /\ held \subseteq Axes \cup {"in-scrolling"}
  /\ DragsEnd

LEMMA DragsInit == Init => DragsInv
BY DEF Init, DragsInv, DragsEnd, NoDrag, Axes

LEMMA DragsPress ==
  ASSUME DragsInv, NEW a \in Axes, NEW p, Press(a, p)
  PROVE  DragsInv'
<1>1. /\ drag'[a].moves = drag[a].moves + 1 /\ drag'[a].ups = drag[a].ups + 1
      /\ \A b \in Axes \ {a} : drag'[b] = drag[b]
      /\ drag' = [b \in Axes |-> drag'[b]]
  BY DEF DragsInv, Press, Bind, Once
<1>2. held' = held \cup {"in-scrolling", a} /\ button'
  BY DEF Press, startScrolling
<1>3. \A b \in Axes : drag'[b].moves \in Nat /\ drag'[b].ups = drag'[b].moves
  BY <1>1 DEF DragsInv
<1>4. \A b \in Axes : drag'[b].moves > 0 <=> b \in held'
  BY <1>1, <1>2 DEF DragsInv, DragsEnd, Axes
<1>5. held' \subseteq Axes \cup {"in-scrolling"}
  BY <1>2 DEF DragsInv
<1>6. "in-scrolling" \in held' /\ drag'[a].moves > 0
  BY <1>1, <1>2 DEF DragsInv
<1> QED
  BY <1>1, <1>2, <1>3, <1>4, <1>5, <1>6 DEF DragsInv, DragsEnd

LEMMA DragsRelease ==
  ASSUME DragsInv, Release
  PROVE  DragsInv'
<1> DEFINE pressed == {a \in Axes : drag[a].ups > 0}
<1>1. /\ drag' = [a \in Axes |-> IF a \notin pressed THEN drag[a]
                    ELSE [NoDrag EXCEPT !.moves = Unbind(drag[a].moves)]]
      /\ held' = held \ (IF pressed = {} THEN {} ELSE pressed \cup {"in-scrolling"})
  BY DEF Release
<1>2. \A a \in Axes : drag'[a].moves = 0 /\ drag'[a].ups = 0
  BY <1>1 DEF DragsInv, NoDrag, Unbind
<1>3. \A a \in Axes : a \in held => a \in pressed
  BY DEF DragsInv, DragsEnd
<1>4. "in-scrolling" \in held => pressed # {}
  BY DEF DragsInv, DragsEnd
<1>5. held' = {}
  BY <1>1, <1>3, <1>4 DEF DragsInv
<1> HIDE DEF pressed
<1> QED
  BY <1>1, <1>2, <1>5 DEF DragsInv, DragsEnd, Axes

\* Every other step leaves the handlers and the classes alone, and a button that
\* comes up without them has missed its release.
LEMMA DragsOther ==
  ASSUME DragsInv, UNCHANGED <<drag, held>>,
         (button \/ missed) => (button' \/ missed')
  PROVE  DragsInv'
BY DEF DragsInv, DragsEnd

LEMMA DragsStep == DragsInv /\ [Next]_vars => DragsInv'
<1> SUFFICES ASSUME DragsInv, [Next]_vars PROVE DragsInv'
  OBVIOUS
<1>1. CASE UNCHANGED vars
  BY <1>1, DragsOther DEF vars, mouseVars
<1>2. CASE Browser
  <2>1. UNCHANGED mouseVars
    BY <1>2 DEF Browser, Load, Resize, NativeScroll, ScrollEvent
  <2> QED
    BY <2>1, DragsOther DEF mouseVars
<1>3. ASSUME NEW d, NEW child, Wheel(d, child) PROVE DragsInv'
  BY <1>3, DragsOther DEF Wheel, mouseVars
<1>4. ASSUME NEW d, KeyDown(d) PROVE DragsInv'
  BY <1>4, DragsOther DEF KeyDown, mouseVars
<1>5. ASSUME NEW on, Attend(on) PROVE DragsInv'
  BY <1>5, DragsOther DEF Attend, mouseVars
<1>6. ASSUME NEW a, NEW p, ClickRail(a, p) \/ Drag(a, p) PROVE DragsInv'
  BY <1>6, DragsOther DEF ClickRail, Drag, mouseVars
<1>7. CASE MissRelease
  BY <1>7, DragsOther DEF MissRelease
<1> QED
  BY <1>1, <1>2, <1>3, <1>4, <1>5, <1>6, <1>7, DragsPress, DragsRelease DEF Next, User

\* For every size of the content and every number of presses: no handler of a drag
\* and no class outlives the release that is delivered
\* (perfect-scrollbar.js:480-491, 525-536).
THEOREM DragsAlwaysEnd == Spec => []DragsEnd
<1>1. DragsInv => DragsEnd
  BY DEF DragsInv
<1> QED
  BY <1>1, DragsInit, DragsStep, PTL DEF Spec

-----------------------------------------------------------------------------
\* Geometry

\* The bars are right for the sizes they were drawn with, whatever they are now.
BarsInv == live /\ ~pending => \A a \in Axes : bar[a] = Thumb(scroll[a], measured[a])

LEMMA BarsDrawn ==
  ASSUME NEW position, UpdateGeometry(position)
  PROVE  \A a \in Axes : bar'[a] = Thumb(scroll'[a], measured'[a])
<1> SUFFICES ASSUME NEW a \in Axes
             PROVE  bar'[a] = Thumb(scroll'[a], measured'[a])
  OBVIOUS
<1>1. /\ bar'[a] = Thumb(position[a], size[a]) /\ measured' = size
      /\ scroll'[a] = IF bar'[a].active THEN position[a] ELSE 0
  BY DEF UpdateGeometry
<1>2. CASE size[a].view = size[a].content
  BY <1>1, <1>2 DEF Thumb
<1>3. CASE size[a].view # size[a].content
  <2>1. bar'[a].active
    BY <1>1, <1>3 DEF Thumb
  <2> QED
    BY <1>1, <2>1
<1> QED
  BY <1>2, <1>3

LEMMA BarsMoved ==
  ASSUME NEW v, MoveTo(v)
  PROVE  BarsInv'
<1>1. PICK position : UpdateGeometry(position)
  BY DEF MoveTo, Redraw
<1> QED
  BY <1>1, BarsDrawn DEF BarsInv

\* A step that draws nothing either moves nothing or leaves a scroll event.
LEMMA BarsLeft ==
  ASSUME BarsInv, UNCHANGED <<live, measured, bar>>,
         pending' = TRUE \/ UNCHANGED <<scroll, pending>>
  PROVE  BarsInv'
BY DEF BarsInv

LEMMA BarsStep == BarsInv /\ [Next]_vars => BarsInv'
<1> SUFFICES ASSUME BarsInv, [Next]_vars PROVE BarsInv'
  OBVIOUS
<1>1. CASE UNCHANGED vars
  BY <1>1, BarsLeft DEF vars, scrollVars
<1>2. ASSUME NEW mainPanel, Load(mainPanel) PROVE BarsInv'
  <2>1. PICK position : UpdateGeometry(position)
    BY <1>2 DEF Load, Redraw
  <2> QED
    BY <2>1, BarsDrawn DEF BarsInv
<1>3. ASSUME NEW a, NEW s, Resize(a, s) PROVE BarsInv'
  <2>1. CASE scroll' = scroll
    BY <1>3, <2>1, BarsLeft DEF Resize, BarsInv
  <2>2. CASE scroll' # scroll
    BY <1>3, <2>2, BarsLeft DEF Resize
  <2> QED
    BY <2>1, <2>2
<1>4. ASSUME NEW a, NEW v, NativeScroll(a, v) PROVE BarsInv'
  BY <1>4, BarsLeft DEF NativeScroll
<1>5. CASE ScrollEvent
  BY <1>5, BarsDrawn DEF ScrollEvent, BarsInv
<1>6. ASSUME NEW d, MoveBy(d) PROVE BarsInv'
  BY <1>6, BarsMoved DEF MoveBy
<1>7. ASSUME NEW a, NEW p, Drag(a, p) PROVE BarsInv'
  BY <1>7, BarsMoved DEF Drag
<1>8. CASE Release \/ MissRelease
  BY <1>8, BarsLeft DEF Release, MissRelease, scrollVars
<1>9. ASSUME NEW on, Attend(on) PROVE BarsInv'
  BY <1>9, BarsLeft DEF Attend, scrollVars
<1>10. ASSUME NEW a, NEW p, Press(a, p) PROVE BarsInv'
  BY <1>10, BarsLeft DEF Press, scrollVars
<1>11. ASSUME NEW d, NEW child, Wheel(d, child) PROVE BarsInv'
  BY <1>6, <1>11 DEF Wheel
<1>12. ASSUME NEW d, KeyDown(d) PROVE BarsInv'
  BY <1>6, <1>12 DEF KeyDown
<1>13. ASSUME NEW a, NEW p, ClickRail(a, p) PROVE BarsInv'
  BY <1>6, <1>13 DEF ClickRail
<1>14. CASE Browser
  BY <1>14, <1>2, <1>3, <1>4, <1>5 DEF Browser
<1>15. CASE User
  BY <1>15, <1>7, <1>8, <1>9, <1>10, <1>11, <1>12, <1>13 DEF User
<1> QED
  BY <1>1, <1>14, <1>15 DEF Next

\* For every size of window and content and however they change: bars that owe
\* nothing to an event or a measurement show where the content is
\* (perfect-scrollbar.js:1364-1436).
THEOREM BarsAreAlwaysAccurate == Spec => []BarsAreAccurate
<1>1. Init => BarsInv
  BY DEF Init, BarsInv
<1>2. BarsInv => BarsAreAccurate
  BY DEF BarsInv, BarsAreAccurate
<1> QED
  BY <1>1, <1>2, BarsStep, PTL DEF Spec
-----------------------------------------------------------------------------
\* Sizes and positions

\* A size an axis may have is one of a container within its content.
LEMMA SizesFit ==
  ASSUME NEW a \in Axes, NEW s \in Sizes[a]
  PROVE  /\ s.view \in Nat \ {0} /\ s.content \in Nat /\ s.view <= s.content
         /\ Span(s) \in Nat /\ Span(s) = s.content - s.view
         /\ s = [view |-> s.view, content |-> s.content]
BY ScrollbarAssumption DEF Span

\* The quotient of numbers that are not negative.
LEMMA DivBounds ==
  ASSUME NEW n \in Nat, NEW d \in Nat \ {0}
  PROVE  n \div d \in Nat /\ (n \div d) * d <= n /\ n < (n \div d) * d + d
<1>1. n \div d \in Int /\ n % d \in 0..(d - 1) /\ n = (n \div d) * d + (n % d)
  OBVIOUS
<1>2. n \div d >= 0
  <2> SUFFICES ASSUME n \div d < 0 PROVE FALSE
    BY <1>1
  <2>1. (n \div d) * d <= (-1) * d
    BY <1>1
  <2> QED
    BY <1>1, <2>1
<1> QED
  BY <1>1, <1>2

LEMMA DivAtMost ==
  ASSUME NEW n \in Nat, NEW d \in Nat \ {0}, NEW q \in Nat, n <= q * d
  PROVE  n \div d <= q
<1> DEFINE r == n \div d
<1>1. r \in Nat /\ r * d <= n
  BY DivBounds
<1> HIDE DEF r
<1> SUFFICES ASSUME r >= q + 1 PROVE FALSE
  BY <1>1 DEF r
<1>2. r * d >= (q + 1) * d
  BY <1>1
<1> QED
  BY <1>1, <1>2

\* A thumb is within its rail, and shorter than it.
LEMMA ThumbFits ==
  ASSUME NEW a \in Axes, NEW s \in Sizes[a], NEW now \in 0..Span(s)
  PROVE  /\ Thumb(now, s).active \in BOOLEAN
         /\ Thumb(now, s).active <=> s.view # s.content
         /\ Thumb(now, s).pos \in Nat /\ Thumb(now, s).thumb \in Nat
         /\ Thumb(now, s).pos + Thumb(now, s).thumb <= s.view
         /\ Thumb(now, s).thumb < s.view
<1>1. CASE s.view = s.content
  <2>1. Thumb(now, s) = [active |-> FALSE, thumb |-> 0, pos |-> 0]
    BY <1>1 DEF Thumb, NewBar
  <2>2. s.view \in Nat \ {0}
    BY SizesFit
  <2>3. /\ Thumb(now, s).active = FALSE
        /\ Thumb(now, s).pos = 0 /\ Thumb(now, s).thumb = 0
    BY <2>1
  <2>4. /\ Thumb(now, s).active \in BOOLEAN
        /\ Thumb(now, s).active <=> s.view # s.content
    BY <1>1, <2>3, Zenon
  <2>5. /\ Thumb(now, s).pos \in Nat /\ Thumb(now, s).thumb \in Nat
        /\ Thumb(now, s).pos + Thumb(now, s).thumb <= s.view
        /\ Thumb(now, s).thumb < s.view
    BY <2>2, <2>3
  <2> QED
    BY <2>4, <2>5
<1>2. CASE s.view # s.content
  <2> DEFINE v == s.view
             c == s.content
             thumb == (v * v) \div c
             free == v - thumb
             pos == (now * free) \div (c - v)
  <2>1. v \in Nat \ {0} /\ c \in Nat \ {0} /\ v < c /\ now \in 0..(c - v)
    BY <1>2, SizesFit
  <2>2. Thumb(now, s) = [active |-> TRUE, thumb |-> thumb, pos |-> pos]
    BY <1>2 DEF Thumb, Span
  <2> HIDE DEF v, c
  <2>3. thumb \in Nat /\ thumb * c <= v * v
    <3>1. v * v \in Nat
      BY <2>1
    <3> QED
      BY <2>1, <3>1, DivBounds
  <2> HIDE DEF thumb
  <2>4. thumb < v
    <3> SUFFICES ASSUME thumb >= v PROVE FALSE
      BY <2>1, <2>3
    <3>1. thumb * c >= v * c
      BY <2>1, <2>3
    <3>2. v * c > v * v
      BY <2>1
    <3>3. v * c \in Int /\ v * v \in Int /\ thumb * c \in Int
      BY <2>1, <2>3
    <3> QED
      BY <2>3, <3>1, <3>2, <3>3
  <2>5. pos \in Nat /\ pos <= free
    <3>1. free \in Nat /\ c - v \in Nat \ {0} /\ now \in Nat
      BY <2>1, <2>3, <2>4
    <3> HIDE DEF free
    <3>2. now * free \in Nat
      BY <3>1
    <3>3. now * free <= free * (c - v)
      BY <2>1, <3>1
    <3> QED
      BY <3>1, <3>2, <3>3, DivBounds, DivAtMost
  <2> HIDE DEF pos
  <2>6. /\ Thumb(now, s).pos = pos /\ Thumb(now, s).thumb = thumb
        /\ Thumb(now, s).active = TRUE
    BY <2>2
  <2>7. pos + thumb <= v
    BY <2>1, <2>3, <2>5
  <2>8. s.view = v
    BY DEF v
  <2> QED
    BY <1>2, <2>3, <2>4, <2>5, <2>6, <2>7, <2>8
<1> QED
  BY <1>1, <1>2

\* Wherever a position is set to, it ends up within the content.
LEMMA ScrollToFits ==
  ASSUME NEW a \in Axes, NEW known \in Sizes[a], NEW real \in Sizes[a],
         NEW now \in Int, NEW v \in Int
  PROVE  ScrollTo(now, known, real, v) \in 0..Span(real)
<1>1. Span(known) \in Nat /\ Span(real) \in Nat
  BY SizesFit
<1>2. \A n \in Int : Clamp(n, real) \in 0..Span(real)
  BY <1>1 DEF Clamp
<1> QED
  BY <1>1, <1>2 DEF ScrollTo

-----------------------------------------------------------------------------
\* Type correctness

\* TypeOK is inductive once the variables are functions and no thumb fills its rail,
\* so that a drag never divides by the zero pixels it would have to move in.
Shape ==
  /\ TypeOK
  /\ size = [a \in Axes |-> size[a]]
  /\ scroll = [a \in Axes |-> scroll[a]]
  /\ drag = [a \in Axes |-> drag[a]]
  /\ \A a \in Axes : live => bar[a].thumb < measured[a].view

LEMMA ShapeInit == Init => Shape
<1> SUFFICES ASSUME Init PROVE Shape
  OBVIOUS
<1>1. PICK w \in Sizes["x"], h \in Sizes["y"] :
        /\ size = [x |-> w, y |-> h]
        /\ \E left \in 0..Span(w), top \in 0..Span(h) : scroll = [x |-> left, y |-> top]
  BY DEF Init
<1>2. PICK left \in 0..Span(w), top \in 0..Span(h) : scroll = [x |-> left, y |-> top]
  BY <1>1
<1>3. /\ size = [a \in Axes |-> size[a]] /\ scroll = [a \in Axes |-> scroll[a]]
      /\ \A a \in Axes : size[a] \in Sizes[a] /\ scroll[a] \in 0..Span(size[a])
  BY <1>1, <1>2 DEF Axes
<1>4. ASSUME NEW a \in Axes
      PROVE  /\ bar[a].active \in BOOLEAN
             /\ bar[a].pos = 0 /\ bar[a].thumb = 0 /\ measured[a].view = 0
             /\ drag[a].moves = 0 /\ drag[a].ups = 0 /\ drag[a].from = 0 /\ drag[a].at = 0
  BY DEF Init, NewBar, NoDrag
<1>5. drag = [a \in Axes |-> drag[a]]
  BY DEF Init
<1>6. ~live /\ ~pending /\ ~attended /\ ~button /\ ~missed /\ held = {}
      /\ {live, pending, attended, button, missed} \subseteq BOOLEAN
  BY DEF Init
<1>7. MaxPresses \in Nat
  BY ScrollbarAssumption
<1>8. \A a \in Axes : drag[a].ups \in 0..MaxPresses
  BY <1>4, <1>7
<1>9. \A a \in Axes : bar[a].pos + bar[a].thumb <= measured[a].view
  BY <1>4
<1> QED
  BY <1>3, <1>4, <1>5, <1>6, <1>8, <1>9 DEF Shape, TypeOK

\* What a drawing leaves: positions within the content and thumbs within the rails.
Redrawn ==
  /\ measured' = size /\ pending' \in BOOLEAN
  /\ scroll' = [a \in Axes |-> scroll'[a]]
  /\ \A a \in Axes :
       /\ scroll'[a] \in 0..Span(size[a])
       /\ bar'[a].active \in BOOLEAN /\ bar'[a].pos \in Nat /\ bar'[a].thumb \in Nat
       /\ bar'[a].pos + bar'[a].thumb <= size[a].view
       /\ bar'[a].thumb < size[a].view

LEMMA Drawn ==
  ASSUME Shape, NEW position, \A a \in Axes : position[a] \in 0..Span(size[a]),
         UpdateGeometry(position), pending' \in BOOLEAN
  PROVE  Redrawn
<1> SUFFICES ASSUME NEW a \in Axes
             PROVE  /\ scroll'[a] \in 0..Span(size[a])
                    /\ bar'[a].active \in BOOLEAN
                    /\ bar'[a].pos \in Nat /\ bar'[a].thumb \in Nat
                    /\ bar'[a].pos + bar'[a].thumb <= size[a].view
                    /\ bar'[a].thumb < size[a].view
  BY DEF UpdateGeometry, Redrawn
<1>1. size[a] \in Sizes[a]
  BY DEF Shape, TypeOK
<1>2. bar'[a] = Thumb(position[a], size[a])
  BY DEF UpdateGeometry
<1>3. Span(size[a]) \in Nat
  BY <1>1, SizesFit
<1>4. scroll'[a] = position[a] \/ scroll'[a] = 0
  BY DEF UpdateGeometry
<1> QED
  BY <1>1, <1>2, <1>3, <1>4, ThumbFits

LEMMA Moved ==
  ASSUME Shape, live, NEW v, \A a \in Axes : v[a] \in Int, MoveTo(v)
  PROVE  Redrawn
<1> DEFINE position == [a \in Axes |-> ScrollTo(scroll[a], measured[a], size[a], v[a])]
<1>1. UpdateGeometry(position) /\ pending' \in BOOLEAN
  BY DEF MoveTo, Redraw
<1>2. ASSUME NEW a \in Axes PROVE position[a] \in 0..Span(size[a])
  <2>1. size[a] \in Sizes[a] /\ measured[a] \in Sizes[a] /\ scroll[a] \in Int
    BY DEF Shape, TypeOK
  <2> QED
    BY <2>1, ScrollToFits
<1> HIDE DEF position
<1> QED
  BY <1>1, <1>2, Drawn

LEMMA MovedBy ==
  ASSUME Shape, live, NEW d, \A a \in Axes : d[a] \in Int, MoveBy(d)
  PROVE  Redrawn
<1> DEFINE v == [a \in Axes |-> scroll[a] + d[a]]
<1>1. \A a \in Axes : v[a] \in Int
  BY DEF Shape, TypeOK
<1>2. MoveTo(v)
  BY DEF MoveBy
<1> HIDE DEF v
<1> QED
  BY <1>1, <1>2, Moved

LEMMA ShapeRedrawn ==
  ASSUME Shape, Redrawn, live', UNCHANGED <<size, mouseVars, attended>>
  PROVE  Shape'
BY DEF Shape, TypeOK, Redrawn, mouseVars

\* Steps that draw nothing keep what is drawn.
LEMMA ShapeUndrawn ==
  ASSUME Shape, UNCHANGED <<live, measured, bar, mouseVars, attended>>,
         size' = [a \in Axes |-> size'[a]], scroll' = [a \in Axes |-> scroll'[a]],
         \A a \in Axes : size'[a] \in Sizes[a] /\ scroll'[a] \in 0..Span(size'[a]),
         pending' \in BOOLEAN
  PROVE  Shape'
BY DEF Shape, TypeOK, mouseVars

\* A press of the mouse remembers where it was and where the thumb is.
LEMMA ShapePress ==
  ASSUME Shape, NEW a \in Axes, NEW p \in Pages, Press(a, p)
  PROVE  Shape'
<1>1. p \in Nat /\ MaxPresses \in Nat
  BY ScrollbarAssumption
<1>2. /\ drag'[a].moves = drag[a].moves + 1 /\ drag'[a].ups = drag[a].ups + 1
      /\ drag'[a].from = p /\ drag'[a].at = bar[a].pos
      /\ drag' = [b \in Axes |-> drag'[b]]
      /\ \A b \in Axes \ {a} : drag'[b] = drag[b]
  BY DEF Press, Bind, Once, Shape
<1>3. drag[a].ups < MaxPresses
  BY DEF Press
<1>4. \A b \in Axes :
        /\ drag'[b].moves \in Nat /\ drag'[b].ups \in 0..MaxPresses
        /\ drag'[b].from \in Nat /\ drag'[b].at \in Nat
  BY <1>1, <1>2, <1>3 DEF Shape, TypeOK
<1>5. held' \subseteq Axes \cup {"in-scrolling"} /\ button' \in BOOLEAN
  BY DEF Press, startScrolling, Shape, TypeOK
<1>6. UNCHANGED <<live, size, scroll, pending, measured, bar, attended, missed>>
  BY DEF Press, scrollVars
<1> QED
  BY <1>2, <1>4, <1>5, <1>6 DEF Shape, TypeOK

LEMMA ShapeRelease ==
  ASSUME Shape, Release
  PROVE  Shape'
<1>1. MaxPresses \in Nat
  BY ScrollbarAssumption
<1>2. ASSUME NEW a \in Axes
      PROVE  /\ drag'[a].moves \in Nat /\ drag'[a].ups \in 0..MaxPresses
             /\ drag'[a].from \in Nat /\ drag'[a].at \in Nat
  <2>1. drag'[a] = IF drag[a].ups <= 0 THEN drag[a] ELSE [NoDrag EXCEPT !.moves = 0]
    BY DEF Release, Unbind, Shape, TypeOK
  <2>2. [NoDrag EXCEPT !.moves = 0] = [moves |-> 0, ups |-> 0, from |-> 0, at |-> 0]
    BY DEF NoDrag
  <2> QED
    BY <1>1, <2>1, <2>2 DEF Shape, TypeOK
<1>3. drag' = [a \in Axes |-> drag'[a]]
  BY DEF Release
<1>4. held' \subseteq Axes \cup {"in-scrolling"} /\ button' \in BOOLEAN /\ missed' \in BOOLEAN
  BY DEF Release, Shape, TypeOK
<1>5. UNCHANGED <<live, size, scroll, pending, measured, bar, attended>>
  BY DEF Release, scrollVars
<1> QED
  BY <1>2, <1>3, <1>4, <1>5 DEF Shape, TypeOK

LEMMA ShapeDrag ==
  ASSUME Shape, NEW a \in Axes, NEW p \in Pages, Drag(a, p)
  PROVE  Redrawn
<1> DEFINE free == measured[a].view - bar[a].thumb
           limit == RailStart[a] + free
           at == IF Dragged(a, p) < 0 THEN 0
                   ELSE IF Dragged(a, p) > limit THEN limit ELSE Dragged(a, p)
           v == [scroll EXCEPT ![a] = (at * Span(measured[a])) \div free]
<1>1. live /\ MoveTo(v)
  BY DEF Drag
<1>2. measured[a] \in Sizes[a] /\ p \in Nat /\ RailStart[a] \in Nat
  BY <1>1, ScrollbarAssumption DEF Shape, TypeOK
<1>3. free \in Nat \ {0} /\ limit \in Nat
  BY <1>1, <1>2, SizesFit DEF Shape, TypeOK
<1>4. Dragged(a, p) \in Int
  BY <1>2 DEF Dragged, Shape, TypeOK
<1> HIDE DEF free, limit
<1>5. at \in Int
  BY <1>3, <1>4
<1> HIDE DEF at
<1>6. at * Span(measured[a]) \in Int
  BY <1>2, <1>5, SizesFit
<1>7. (at * Span(measured[a])) \div free \in Int
  BY <1>3, <1>6
<1>8. \A b \in Axes : v[b] \in Int
  BY <1>7 DEF Shape, TypeOK
<1> HIDE DEF v
<1> QED
  BY <1>1, <1>8, Moved

LEMMA ShapeBrowser ==
  ASSUME Shape, Browser
  PROVE  Shape'
<1>1. ASSUME NEW mainPanel \in BOOLEAN, Load(mainPanel) PROVE Shape'
  <2> DEFINE position == [a \in Axes |-> IF mainPanel /\ a = "y" THEN 0 ELSE scroll[a]]
  <2>1. UpdateGeometry(position) /\ pending' \in BOOLEAN
    BY <1>1 DEF Load, Redraw
  <2>2. ASSUME NEW a \in Axes PROVE position[a] \in 0..Span(size[a])
    BY SizesFit DEF Shape, TypeOK
  <2> HIDE DEF position
  <2>3. Redrawn
    BY <2>1, <2>2, Drawn
  <2> QED
    BY <1>1, <2>3, ShapeRedrawn DEF Load
<1>2. ASSUME NEW a \in Axes, NEW s \in Sizes[a], Resize(a, s) PROVE Shape'
  <2>1. /\ size' = [b \in Axes |-> size'[b]] /\ scroll' = [b \in Axes |-> scroll'[b]]
        /\ size'[a] = s /\ scroll'[a] = Clamp(scroll[a], s)
        /\ \A b \in Axes \ {a} : size'[b] = size[b] /\ scroll'[b] = scroll[b]
    BY <1>2 DEF Resize, Shape
  <2>2. Clamp(scroll[a], s) \in 0..Span(s)
    BY SizesFit DEF Clamp, Shape, TypeOK
  <2>3. \A b \in Axes : size'[b] \in Sizes[b] /\ scroll'[b] \in 0..Span(size'[b])
    BY <2>1, <2>2 DEF Shape, TypeOK
  <2>4. pending' \in BOOLEAN
    BY <1>2 DEF Resize
  <2> QED
    BY <1>2, <2>1, <2>3, <2>4, ShapeUndrawn DEF Resize
<1>3. ASSUME NEW a \in Axes, NEW v \in 0..Span(size[a]), NativeScroll(a, v) PROVE Shape'
  <2>1. /\ size' = size /\ pending' \in BOOLEAN
        /\ scroll' = [b \in Axes |-> scroll'[b]] /\ scroll'[a] = v
        /\ \A b \in Axes \ {a} : scroll'[b] = scroll[b]
    BY <1>3 DEF NativeScroll, Shape
  <2>2. \A b \in Axes : size'[b] \in Sizes[b] /\ scroll'[b] \in 0..Span(size'[b])
    BY <2>1 DEF Shape, TypeOK
  <2>3. size' = [b \in Axes |-> size'[b]]
    BY <2>1 DEF Shape
  <2> QED
    BY <1>3, <2>1, <2>2, <2>3, ShapeUndrawn DEF NativeScroll
<1>4. CASE ScrollEvent
  <2>1. UpdateGeometry(scroll) /\ pending' \in BOOLEAN
    BY <1>4 DEF ScrollEvent
  <2>2. \A a \in Axes : scroll[a] \in 0..Span(size[a])
    BY DEF Shape, TypeOK
  <2>3. Redrawn
    BY <2>1, <2>2, Drawn
  <2> QED
    BY <1>4, <2>3, ShapeRedrawn DEF ScrollEvent
<1> QED
  BY <1>1, <1>2, <1>3, <1>4 DEF Browser

LEMMA AlongIs ==
  ASSUME NEW a \in Axes, NEW n \in Int
  PROVE  /\ Along(a, n)[a] = n
         /\ \A b \in Axes : Along(a, n)[b] \in Int
BY DEF Along

LEMMA ShapeUser ==
  ASSUME Shape, User
  PROVE  Shape'
<1>0. \A a \in Axes : live => /\ measured[a].view \in Nat /\ measured[a].content \in Nat
                              /\ -measured[a].view \in Int
  BY SizesFit DEF Shape, TypeOK
<1>1. ASSUME NEW d \in Turns, NEW child, Wheel(d, child) PROVE Shape'
  <2>1. \A a \in Axes : d[a] \in Int
    BY ScrollbarAssumption DEF Turns
  <2> QED
    BY <1>1, <2>1, MovedBy, ShapeRedrawn DEF Wheel
<1>2. ASSUME NEW a \in Axes, NEW n \in KeySteps(a), KeyDown(Along(a, n)) PROVE Shape'
  <2>1. live
    BY <1>2 DEF KeyDown
  <2>2. n \in Int
    BY <1>0, <2>1, ScrollbarAssumption DEF KeySteps, Shape, TypeOK
  <2>3. \A b \in Axes : Along(a, n)[b] \in Int
    BY <2>2, AlongIs
  <2> QED
    BY <1>2, <2>1, <2>3, MovedBy, ShapeRedrawn DEF KeyDown
<1>3. ASSUME NEW on \in BOOLEAN, Attend(on) PROVE Shape'
  BY <1>3 DEF Attend, Shape, TypeOK, scrollVars, mouseVars
<1>4. ASSUME NEW a \in Axes, NEW p, ClickRail(a, p) PROVE Shape'
  <2> DEFINE n == IF p > bar[a].pos THEN measured[a].view ELSE -measured[a].view
  <2>1. live /\ MoveBy(Along(a, n))
    BY <1>4 DEF ClickRail
  <2>2. n \in Int
    BY <1>0, <2>1
  <2> HIDE DEF n
  <2>3. \A b \in Axes : Along(a, n)[b] \in Int
    BY <2>2, AlongIs
  <2>4. Redrawn
    BY <2>1, <2>3, MovedBy
  <2> QED
    BY <1>4, <2>1, <2>4, ShapeRedrawn DEF ClickRail
<1>5. ASSUME NEW a \in Axes, NEW p \in Pages, Drag(a, p) PROVE Shape'
  BY <1>5, ShapeDrag, ShapeRedrawn DEF Drag
<1>6. CASE MissRelease
  BY <1>6 DEF MissRelease, Shape, TypeOK, scrollVars
<1> QED
  BY <1>1, <1>2, <1>3, <1>4, <1>5, <1>6, ShapePress, ShapeRelease DEF User

LEMMA ShapeStep == Shape /\ [Next]_vars => Shape'
<1> SUFFICES ASSUME Shape, [Next]_vars PROVE Shape'
  OBVIOUS
<1>1. CASE UNCHANGED vars
  BY <1>1 DEF vars, scrollVars, mouseVars, Shape, TypeOK
<1> QED
  BY <1>1, ShapeBrowser, ShapeUser DEF Next

LEMMA ShapeInvariant == Spec => []Shape
<1> QED
  BY ShapeInit, ShapeStep, PTL DEF Spec

\* For all sizes, turns, keys and presses: no thumb leaves its rail and no position
\* the content, and the length a drag divides by is never zero
\* (perfect-scrollbar.js:502-516, 1364-1436).
THEOREM BarsStayOnRails == Spec => []TypeOK
<1>1. Shape => TypeOK
  BY DEF Shape
<1> QED
  BY <1>1, ShapeInvariant, PTL

-----------------------------------------------------------------------------
\* Touch

\* A finger that came alone has the touch of the element, and unless the element is
\* deaf the content has followed it to where it is.
AloneIsFollowed ==
  alone => /\ Len(fingers) = 1 /\ inLocalTouch
           /\ ~inGlobalTouch => startOffset = fingers[1].at

TouchInv ==
  /\ Shape
  /\ fingers \in Seq([node : Nodes, at : Points]) /\ startOffset \in [Axes -> Int]
  /\ NoTugOfWar /\ GlobalTouchIsReal /\ AloneIsFollowed

LEMMA PointsAreInt == \A p \in Points : p \in [Axes -> Int] /\ \A a \in Axes : p[a] \in Int
BY TouchAssumption

LEMMA TouchInit_Inv == TouchInit => TouchInv
<1> SUFFICES ASSUME TouchInit PROVE TouchInv
  OBVIOUS
<1>1. Shape
  BY ShapeInit DEF TouchInit
<1>2. startOffset \in [Axes -> Int]
  BY DEF TouchInit, Along
<1>3. fingers \in Seq([node : Nodes, at : Points])
  BY DEF TouchInit
<1> QED
  BY <1>1, <1>2, <1>3
     DEF TouchInit, TouchInv, NoTugOfWar, GlobalTouchIsReal, AloneIsFollowed

LEMMA AloneOn ==
  ASSUME Len(fingers) = 1
  PROVE  On(fingers[1].node) = {1}
<1>1. 1..Len(fingers) = {1}
  OBVIOUS
<1> QED
  BY <1>1 DEF On

\* Where a finger moves the content, the content and its bars stay in shape.
LEMMA ShapeFingerMove ==
  ASSUME TouchInv, NEW k \in 1..Len(fingers), NEW p \in Points, FingerMove(k, p)
  PROVE  Shape'
<1>1. live /\ live' /\ UNCHANGED <<size, mouseVars, attended>>
  BY DEF FingerMove
<1>2. CASE UNCHANGED unmoved
  BY <1>1, <1>2 DEF unmoved, TouchInv, Shape, TypeOK, mouseVars, FingerMove
<1>3. ASSUME MoveBy(Along("x", 0)) PROVE Shape'
  <2>1. \A a \in Axes : Along("x", 0)[a] \in Int
    BY DEF Along
  <2> QED
    BY <1>1, <1>3, <2>1, MovedBy, ShapeRedrawn DEF TouchInv
<1>4. ASSUME MoveBy(Less(startOffset, p)) PROVE Shape'
  <2>1. \A a \in Axes : Less(startOffset, p)[a] \in Int
    BY PointsAreInt DEF Less, TouchInv
  <2> QED
    BY <1>1, <1>4, <2>1, MovedBy, ShapeRedrawn DEF TouchInv
<1> QED
  BY <1>2, <1>3, <1>4 DEF FingerMove

LEMMA TouchFingerMove ==
  ASSUME TouchInv, NEW k \in 1..Len(fingers), NEW p \in Points, FingerMove(k, p)
  PROVE  TouchInv'
<1> DEFINE F == [node : Nodes, at : Points]
           single == On(fingers[k].node) = {k}
           begins == ~inLocalTouch /\ SwipePropagation /\ single
<1>1. Shape'
  BY ShapeFingerMove
<1>2. /\ fingers' \in Seq(F) /\ Len(fingers') = Len(fingers) /\ fingers'[k].at = p
  <2>1. fingers \in Seq(F) /\ fingers' = [fingers EXCEPT ![k].at = p]
    BY DEF TouchInv, FingerMove
  <2>2. \A f \in F : [f EXCEPT !.at = p] \in F /\ [f EXCEPT !.at = p].at = p
    OBVIOUS
  <2>3. fingers' = [fingers EXCEPT ![k] = [fingers[k] EXCEPT !.at = p]]
    BY <2>1
  <2> HIDE DEF F
  <2>4. fingers[k] \in F
    BY <2>1
  <2> QED
    BY <2>1, <2>2, <2>3, <2>4
<1>3. /\ UNCHANGED <<elsewhere, inGlobalTouch, alone, cancelled>>
      /\ \/ begins /\ inLocalTouch' = TRUE /\ startOffset' = p /\ easing' = FALSE
         \/ /\ ~begins /\ ~inGlobalTouch /\ inLocalTouch /\ single /\ startOffset' = p
            /\ UNCHANGED <<inLocalTouch, easing>>
         \/ /\ ~begins /\ ~(~inGlobalTouch /\ inLocalTouch /\ single)
            /\ UNCHANGED <<inLocalTouch, startOffset, easing>>
  BY DEF FingerMove, TouchStart, Followed
<1>4. alone => k = 1 /\ single
  <2> SUFFICES ASSUME Len(fingers) = 1 PROVE k = 1 /\ single
    BY DEF TouchInv, AloneIsFollowed
  <2>1. k = 1
    OBVIOUS
  <2> QED
    BY <2>1, AloneOn
<1>5. startOffset' \in [Axes -> Int]
  BY <1>3, PointsAreInt DEF TouchInv
<1> HIDE DEF begins, single, F
<1>6. NoTugOfWar'
  BY <1>3, <1>4 DEF TouchInv, NoTugOfWar, AloneIsFollowed, begins
<1>7. GlobalTouchIsReal'
  BY <1>2, <1>3 DEF TouchInv, GlobalTouchIsReal
<1>8. AloneIsFollowed'
  BY <1>2, <1>3, <1>4 DEF TouchInv, AloneIsFollowed, begins
<1> QED
  BY <1>1, <1>2, <1>5, <1>6, <1>7, <1>8 DEF TouchInv, F

LEMMA TouchFingerDown ==
  ASSUME TouchInv, NEW node \in Nodes, NEW p \in Points, FingerDown(node, p)
  PROVE  TouchInv'
<1> DEFINE F == [node : Nodes, at : Points]
           finger == [node |-> node, at |-> p]
<1>1. Shape'
  BY DEF FingerDown, TouchInv, Shape, TypeOK, vars, scrollVars, mouseVars
<1>2. fingers \in Seq(F) /\ finger \in F /\ finger.at = p /\ fingers' = Append(fingers, finger)
  BY DEF FingerDown, TouchInv
<1> HIDE DEF F, finger
<1>3. /\ fingers' \in Seq(F) /\ Len(fingers') = Len(fingers) + 1 /\ Len(fingers) \in Nat
      /\ fingers = <<>> => fingers'[1] = finger /\ Len(fingers) = 0
      /\ fingers # <<>> => Len(fingers) > 0
  BY <1>2
<1>4. On(node) # {} => fingers # <<>>
  BY DEF On
<1>5. /\ UNCHANGED <<elsewhere, cancelled>> /\ alone' = (fingers = <<>> /\ ~elsewhere)
      /\ \/ /\ inLocalTouch' = TRUE /\ startOffset' = p /\ easing' = FALSE
            /\ UNCHANGED inGlobalTouch
         \/ /\ fingers # <<>> /\ inGlobalTouch' = TRUE
            /\ UNCHANGED <<inLocalTouch, startOffset, easing>>
  BY <1>4 DEF FingerDown, TouchStart
<1>6. startOffset' \in [Axes -> Int]
  BY <1>5, PointsAreInt DEF TouchInv
<1>7. NoTugOfWar'
  BY <1>5 DEF TouchInv, NoTugOfWar
<1>8. GlobalTouchIsReal'
  <2>1. inGlobalTouch /\ Len(fingers) > 1 => Len(fingers') > 1
    BY <1>3
  <2>2. fingers # <<>> => Len(fingers') > 1
    BY <1>3
  <2> QED
    BY <1>5, <2>1, <2>2 DEF TouchInv, GlobalTouchIsReal
<1>9. AloneIsFollowed'
  <2>1. fingers = <<>> => Len(fingers') = 1 /\ fingers'[1].at = p
    BY <1>2, <1>3
  <2> QED
    BY <1>5, <2>1 DEF AloneIsFollowed
<1> QED
  BY <1>1, <1>3, <1>6, <1>7, <1>8, <1>9 DEF TouchInv, F

LEMMA TouchLift ==
  ASSUME TouchInv, NEW k \in 1..Len(fingers), FingerUp(k) \/ FingerCancel(k)
  PROVE  TouchInv'
<1> DEFINE F == [node : Nodes, at : Points]
<1>1. Shape'
  BY DEF FingerUp, FingerCancel, TouchInv, Shape, TypeOK, vars, scrollVars, mouseVars
<1>2. fingers' \in Seq(F)
  <2>1. fingers \in Seq(F) /\ fingers' = SubSeq(fingers, 1, k - 1)
                                          \o SubSeq(fingers, k + 1, Len(fingers))
    BY DEF TouchInv, FingerUp, FingerCancel, Lift, RemoveAt
  <2> HIDE DEF F
  <2>2. SubSeq(fingers, 1, k - 1) \in Seq(F) /\ SubSeq(fingers, k + 1, Len(fingers)) \in Seq(F)
    BY <2>1
  <2> QED
    BY <2>1, <2>2
<1>3. ~alone' /\ UNCHANGED <<elsewhere, startOffset>>
  BY DEF FingerUp, FingerCancel, Lift
<1>4. NoTugOfWar'
  BY <1>3 DEF FingerUp, FingerCancel, TouchEnd, TouchInv, NoTugOfWar
<1>5. GlobalTouchIsReal'
  BY DEF FingerUp, FingerCancel, TouchEnd, Lift, TouchInv, GlobalTouchIsReal
<1> QED
  BY <1>1, <1>2, <1>3, <1>4, <1>5 DEF TouchInv, AloneIsFollowed

LEMMA TouchTick ==
  ASSUME TouchInv, EasingTick
  PROVE  TouchInv'
<1>1. Shape'
  <2>1. live /\ live' /\ UNCHANGED <<size, mouseVars, attended>>
    BY DEF EasingTick
  <2>2. CASE UNCHANGED unmoved
    BY <2>1, <2>2 DEF unmoved, TouchInv, Shape, TypeOK, mouseVars, EasingTick
  <2>3. ASSUME NEW d \in [Axes -> -MaxNotch..MaxNotch], MoveBy(d) PROVE Shape'
    <3>1. \A a \in Axes : d[a] \in Int
      BY TouchAssumption
    <3> QED
      BY <2>1, <2>3, <3>1, MovedBy, ShapeRedrawn DEF TouchInv
  <2> QED
    BY <2>2, <2>3 DEF EasingTick
<1>2. /\ UNCHANGED <<fingers, elsewhere, inGlobalTouch, inLocalTouch, startOffset, alone,
                     cancelled>>
      /\ easing' => easing
  BY DEF EasingTick
<1> QED
  BY <1>1, <1>2 DEF TouchInv, NoTugOfWar, GlobalTouchIsReal, AloneIsFollowed

LEMMA TouchStep == TouchInv /\ [TouchNext]_allVars => TouchInv'
<1> SUFFICES ASSUME TouchInv, [TouchNext]_allVars PROVE TouchInv'
  OBVIOUS
<1>1. ASSUME Shape', UNCHANGED touchVars PROVE TouchInv'
  BY <1>1 DEF touchVars, TouchInv, NoTugOfWar, GlobalTouchIsReal, AloneIsFollowed
<1>2. CASE UNCHANGED allVars
  <2>1. Shape'
    BY <1>2 DEF allVars, vars, scrollVars, mouseVars, TouchInv, Shape, TypeOK
  <2> QED
    BY <1>1, <1>2, <2>1 DEF allVars
<1>3. CASE Browser /\ UNCHANGED touchVars
  BY <1>1, <1>3, ShapeBrowser DEF TouchInv
<1>4. CASE TouchElsewhere
  <2>1. Shape'
    BY <1>4 DEF TouchElsewhere, vars, scrollVars, mouseVars, TouchInv, Shape, TypeOK
  <2> QED
    BY <1>4, <2>1 DEF TouchElsewhere, TouchInv, NoTugOfWar, GlobalTouchIsReal, AloneIsFollowed
<1> QED
  BY <1>2, <1>3, <1>4, TouchFingerDown, TouchFingerMove, TouchLift, TouchTick DEF TouchNext

LEMMA TouchInvariant == TouchSpec => []TouchInv
<1> QED
  BY TouchInit_Inv, TouchStep, PTL DEF TouchSpec

\* However many fingers come and go, the timer of a glide never runs while the element
\* has a touch, nor under a finger that came alone (perfect-scrollbar.js:1050-1067).
THEOREM GlidesYieldToFingers == TouchSpec => []NoTugOfWar
<1>1. TouchInv => NoTugOfWar
  BY DEF TouchInv
<1> QED
  BY <1>1, TouchInvariant, PTL

\* For any number of fingers on any number of nodes the element is deaf only while
\* fingers are left to the browser, or after it took one back
\* (perfect-scrollbar.js:1030-1035, 1098-1101).
THEOREM DeafnessEnds == TouchSpec => []GlobalTouchIsReal
<1>1. TouchInv => GlobalTouchIsReal
  BY DEF TouchInv
<1> QED
  BY <1>1, TouchInvariant, PTL

\* What is set to a position within a content of known size gets there, but for the
\* last pixel.
LEMMA ScrollToIsExact ==
  ASSUME NEW a \in Axes, NEW s \in Sizes[a], NEW now \in 0..Span(s), NEW v \in Int
  PROVE  ScrollTo(now, s, s, v) - Clamp(v, s) \in {-1, 0}
<1>1. Span(s) \in Nat
  BY SizesFit
<1> QED
  BY <1>1 DEF ScrollTo, Clamp

\* A finger that comes alone moves the content by just the way it goes, up to the ends
\* and to a pixel there, for every size and every way (perfect-scrollbar.js:1077-1085).
THEOREM FingerCarriesContent == TouchSpec => ContentFollowsFinger
<1> DEFINE Follows(p) ==
      alone /\ ~inGlobalTouch /\ measured = size /\ FingerMove(1, p) =>
        \A a \in Axes :
          scroll'[a] - Clamp(scroll[a] + fingers[1].at[a] - p[a], size[a]) \in {-1, 0}
<1>1. TouchInv => \A p \in Points : Follows(p)
  <2> SUFFICES ASSUME TouchInv, NEW p \in Points, alone, ~inGlobalTouch, measured = size,
                      FingerMove(1, p), NEW a \in Axes
               PROVE  scroll'[a] - Clamp(scroll[a] + fingers[1].at[a] - p[a], size[a])
                        \in {-1, 0}
    OBVIOUS
  <2> DEFINE v == scroll[a] + fingers[1].at[a] - p[a]
  <2>1. live /\ inLocalTouch /\ startOffset = fingers[1].at /\ On(fingers[1].node) = {1}
    BY AloneOn DEF FingerMove, TouchInv, AloneIsFollowed
  <2>2. MoveBy(Less(startOffset, p))
    BY <2>1 DEF FingerMove
  <2>3. /\ size[a] \in Sizes[a] /\ scroll[a] \in 0..Span(size[a])
        /\ startOffset[a] \in Int /\ p[a] \in Int
    BY PointsAreInt DEF TouchInv, Shape, TypeOK
  <2>4. scroll[a] + Less(startOffset, p)[a] = v /\ v \in Int
    BY <2>1, <2>3 DEF Less
  <2> DEFINE to == ScrollTo(scroll[a], size[a], size[a], v)
  <2>5. scroll'[a] = IF bar'[a].active THEN to ELSE 0
    BY <2>2, <2>4 DEF MoveBy, MoveTo, Redraw, UpdateGeometry
  <2>6. bar'[a].active <=> size[a].view # size[a].content
    <3>1. bar'[a] = Thumb(to, size[a]) /\ to \in 0..Span(size[a])
      <4>1. bar'[a] = Thumb(to, size[a])
        BY <2>2, <2>4 DEF MoveBy, MoveTo, Redraw, UpdateGeometry
      <4> QED
        BY <4>1, <2>3, <2>4, ScrollToFits
    <3> HIDE DEF to
    <3> QED
      BY <3>1, <2>3, ThumbFits
  <2> HIDE DEF to, v
  <2>7. to - Clamp(v, size[a]) \in {-1, 0}
    BY <2>3, <2>4, ScrollToIsExact DEF to
  <2>8. CASE bar'[a].active
    BY <2>5, <2>7, <2>8 DEF v
  <2>9. CASE ~bar'[a].active
    <3>1. Span(size[a]) = 0
      BY <2>3, <2>6, <2>9, SizesFit
    <3>2. Clamp(v, size[a]) = 0
      BY <2>4, <3>1 DEF Clamp
    <3> QED
      BY <2>5, <2>9, <3>2 DEF v
  <2> QED
    BY <2>8, <2>9
<1> HIDE DEF Follows
<1>2. TouchInv /\ [TouchNext]_allVars => [\A p \in Points : Follows(p)]_allVars
  BY <1>1
<1>3. TouchSpec => [][\A p \in Points : Follows(p)]_allVars
  BY <1>2, TouchInvariant, PTL DEF TouchSpec
<1> QED
  BY <1>3 DEF ContentFollowsFinger, Follows

-----------------------------------------------------------------------------
\* The wheel, the thumb and the rail

\* A step draws the bars anew, for the sizes there are, or leaves them.
LEMMA DrawsOrLeaves ==
  ASSUME [Next]_vars
  PROVE  \/ UNCHANGED <<live, measured, bar>>
         \/ /\ measured' = size /\ size' = size
            /\ \A a \in Axes : bar'[a] = Thumb(scroll'[a], size[a])
<1> DEFINE Left == UNCHANGED <<live, measured, bar>>
           Anew == /\ measured' = size /\ size' = size
                   /\ \A a \in Axes : bar'[a] = Thumb(scroll'[a], size[a])
<1>1. ASSUME NEW position, UpdateGeometry(position), UNCHANGED size PROVE Anew
  BY <1>1, BarsDrawn DEF UpdateGeometry
<1>2. ASSUME NEW v, MoveTo(v), UNCHANGED size PROVE Anew
  BY <1>1, <1>2 DEF MoveTo, Redraw
<1> HIDE DEF Anew
<1>3. ASSUME Browser PROVE Left \/ Anew
  <2>1. ASSUME NEW mainPanel, Load(mainPanel) PROVE Anew
    BY <1>1, <2>1 DEF Load, Redraw
  <2>2. CASE ScrollEvent
    BY <1>1, <2>2 DEF ScrollEvent
  <2> QED
    BY <1>3, <2>1, <2>2 DEF Browser, Resize, NativeScroll
<1>4. ASSUME User PROVE Left \/ Anew
  <2>1. ASSUME NEW d, NEW child, Wheel(d, child) PROVE Anew
    BY <1>2, <2>1 DEF Wheel, MoveBy
  <2>2. ASSUME NEW d, KeyDown(d) PROVE Anew
    BY <1>2, <2>2 DEF KeyDown, MoveBy
  <2>3. ASSUME NEW a, NEW p, ClickRail(a, p) PROVE Anew
    BY <1>2, <2>3 DEF ClickRail, MoveBy
  <2>4. ASSUME NEW a, NEW p, Drag(a, p) PROVE Anew
    BY <1>2, <2>4 DEF Drag
  <2>5. ASSUME NEW on, Attend(on) PROVE Left
    BY <2>5 DEF Attend, scrollVars
  <2>6. ASSUME NEW a, NEW p, Press(a, p) PROVE Left
    BY <2>6 DEF Press, scrollVars
  <2>7. Release \/ MissRelease => Left
    BY DEF Release, MissRelease, scrollVars
  <2> HIDE DEF Left
  <2> QED
    BY <1>4, <2>1, <2>2, <2>3, <2>4, <2>5, <2>6, <2>7 DEF User
<1>5. CASE UNCHANGED vars
  BY <1>5 DEF vars, scrollVars
<1> QED
  BY <1>3, <1>4, <1>5 DEF Next, Anew

\* Whatever is owed to an event, a bar was drawn for the sizes that were measured.
BarsDrawnAsMeasured ==
  live => \A a \in Axes :
            \E n \in 0..Span(measured[a]) : bar[a] = Thumb(n, measured[a])

LEMMA BarsStayAsMeasured ==
  ASSUME Shape, Shape', BarsDrawnAsMeasured, [Next]_vars
  PROVE  BarsDrawnAsMeasured'
<1>1. CASE UNCHANGED <<live, measured, bar>>
  BY <1>1 DEF BarsDrawnAsMeasured
<1>2. ASSUME measured' = size, size' = size,
             \A a \in Axes : bar'[a] = Thumb(scroll'[a], size[a])
      PROVE  BarsDrawnAsMeasured'
  <2>1. \A a \in Axes : scroll'[a] \in 0..Span(measured'[a])
    BY <1>2 DEF Shape, TypeOK
  <2> QED
    BY <1>2, <2>1 DEF BarsDrawnAsMeasured
<1> QED
  BY <1>1, <1>2, DrawsOrLeaves

BarInv == Shape /\ BarsDrawnAsMeasured

LEMMA BarInvariant == Spec => []BarInv
<1>1. Init => BarInv
  BY ShapeInit DEF Init, BarInv, BarsDrawnAsMeasured
<1>2. BarInv /\ [Next]_vars => BarInv'
  BY ShapeStep, BarsStayAsMeasured DEF BarInv
<1> QED
  BY <1>1, <1>2, PTL DEF Spec

\* What a move to v does to an axis.
LEMMA MoveToIs ==
  ASSUME Shape, live, NEW v, \A b \in Axes : v[b] \in Int, MoveTo(v), NEW a \in Axes
  PROVE  LET to == ScrollTo(scroll[a], measured[a], size[a], v[a])
         IN  /\ to \in 0..Span(size[a])
             /\ scroll'[a] = to /\ bar'[a] = Thumb(to, size[a])
<1> DEFINE to == ScrollTo(scroll[a], measured[a], size[a], v[a])
<1>1. size[a] \in Sizes[a] /\ measured[a] \in Sizes[a] /\ scroll[a] \in Int
  BY DEF Shape, TypeOK
<1>2. to \in 0..Span(size[a])
  BY <1>1, ScrollToFits
<1>3. bar'[a] = Thumb(to, size[a]) /\ scroll'[a] = IF bar'[a].active THEN to ELSE 0
  BY DEF MoveTo, Redraw, UpdateGeometry
<1> HIDE DEF to
<1>4. bar'[a].active <=> size[a].view # size[a].content
  BY <1>1, <1>2, <1>3, ThumbFits
<1>5. ~bar'[a].active => to = 0
  BY <1>1, <1>2, <1>4, SizesFit
<1> QED
  BY <1>2, <1>3, <1>5 DEF to

LEMMA MoveByIs ==
  ASSUME Shape, live, NEW d, \A b \in Axes : d[b] \in Int, MoveBy(d), NEW a \in Axes
  PROVE  LET to == ScrollTo(scroll[a], measured[a], size[a], scroll[a] + d[a])
         IN  /\ to \in 0..Span(size[a])
             /\ scroll'[a] = to /\ bar'[a] = Thumb(to, size[a])
<1> DEFINE v == [b \in Axes |-> scroll[b] + d[b]]
<1>1. /\ \A b \in Axes : v[b] \in Int
      /\ v[a] = scroll[a] + d[a]
  BY DEF Shape, TypeOK
<1>2. MoveTo(v)
  BY DEF MoveBy
<1> HIDE DEF v
<1> QED
  BY <1>1, <1>2, MoveToIs

\* An axis that is not to be moved is not, whatever size was measured.
LEMMA MoveByZero ==
  ASSUME NEW a \in Axes, NEW known \in Sizes[a], NEW real \in Sizes[a],
         NEW now \in 0..Span(real)
  PROVE  ScrollTo(now, known, real, now) = now
<1>1. Span(known) \in Nat /\ Span(real) \in Nat
  BY SizesFit
<1> QED
  BY <1>1 DEF ScrollTo, Clamp

LEMMA MoveByLeaves ==
  ASSUME Shape, live, NEW d, \A b \in Axes : d[b] \in Int, MoveBy(d),
         NEW a \in Axes, d[a] = 0
  PROVE  scroll'[a] = scroll[a]
<1>1. /\ size[a] \in Sizes[a] /\ measured[a] \in Sizes[a]
      /\ scroll[a] \in 0..Span(size[a]) /\ scroll[a] + d[a] = scroll[a]
  BY DEF Shape, TypeOK
<1> QED
  BY <1>1, MoveByIs, MoveByZero

LEMMA ScrollDiffers ==
  ASSUME Shape, Shape', scroll' # scroll
  PROVE  \E a \in Axes : scroll'[a] # scroll[a]
BY DEF Shape

\* A move that scrolls the element does so along an axis it names, whose bar is
\* drawn before the event is judged.
LEMMA MovesAreKept ==
  ASSUME Shape, Shape', live, NEW d, \A a \in Axes : d[a] \in Int,
         MoveBy(d), size' = size, scroll' # scroll
  PROVE  Prevents(d)'
<1>1. ASSUME NEW a \in Axes, scroll'[a] # scroll[a] PROVE bar'[a].active
  <2>1. /\ size[a] \in Sizes[a]
        /\ scroll[a] \in 0..Span(size[a]) /\ scroll'[a] \in 0..Span(size[a])
    BY DEF Shape, TypeOK
  <2>2. Span(size[a]) # 0
    BY <1>1, <2>1, SizesFit
  <2>3. size[a].view # size[a].content
    BY <2>1, <2>2, SizesFit
  <2>4. bar'[a] = Thumb(scroll'[a], size[a])
    BY MoveByIs
  <2> QED
    BY <2>1, <2>3, <2>4, ThumbFits
<1>2. \A a \in Axes : d[a] = 0 => scroll'[a] = scroll[a]
  BY MoveByLeaves
<1>3. \E a \in Axes : scroll'[a] # scroll[a]
  BY ScrollDiffers
<1>4. d["x"] = 0 => bar'["y"].active
  BY <1>1, <1>2, <1>3 DEF Axes
<1>5. d["y"] = 0 => bar'["x"].active
  BY <1>1, <1>2, <1>3 DEF Axes
<1> QED
  BY <1>4, <1>5 DEF Prevents, WheelPropagation

\* For every size, measured or not, every turn of the wheel and every key: what
\* scrolls the element is kept from the rest of the page
\* (perfect-scrollbar.js:715-736, 568-589).
THEOREM TurnsAndKeysScrollOnce == Spec => EventsScrollOnce
<1> DEFINE Kept == scroll' # scroll =>
              /\ \A d \in Turns, child \in Children : Wheel(d, child) => Prevents(d)'
              /\ \A a \in Axes : \A n \in KeySteps(a) :
                   KeyDown(Along(a, n)) => Prevents(Along(a, n))'
<1>1. ASSUME Shape, Shape', scroll' # scroll,
             NEW d \in Turns, NEW child \in Children, Wheel(d, child)
      PROVE  Prevents(d)'
  <2>1. live /\ MoveBy(d) /\ size' = size /\ \A a \in Axes : d[a] \in Int
    BY <1>1, ScrollbarAssumption DEF Wheel, Turns
  <2> QED
    BY <1>1, <2>1, MovesAreKept
<1>2. ASSUME Shape, Shape', scroll' # scroll,
             NEW a \in Axes, NEW n \in KeySteps(a), KeyDown(Along(a, n))
      PROVE  Prevents(Along(a, n))'
  <2>1. live /\ MoveBy(Along(a, n)) /\ size' = size
    BY <1>2 DEF KeyDown
  <2>2. n \in Int
    <3>1. measured[a] \in Sizes[a] /\ scroll[a] \in Int
      BY <1>2, <2>1 DEF Shape, TypeOK
    <3>2. /\ measured[a].view \in Int /\ measured[a].content \in Int
          /\ Line \in Int /\ Page \in Int
      BY <3>1, ScrollbarAssumption
    <3> QED
      BY <3>1, <3>2 DEF KeySteps
  <2>3. \A b \in Axes : Along(a, n)[b] \in Int
    BY <2>2 DEF Along
  <2> HIDE DEF Along
  <2> DEFINE d == Along(a, n)
  <2>4. Prevents(d)'
    BY <1>2, <2>1, <2>3, MovesAreKept
  <2> QED
    BY <2>4
<1>3. BarInv /\ BarInv' /\ [Next]_vars => [Kept]_vars
  BY <1>1, <1>2 DEF BarInv
<1> HIDE DEF Kept
<1>4. Spec => [][Kept]_vars
  BY <1>3, BarInvariant, PTL DEF Spec
<1> QED
  BY <1>4 DEF EventsScrollOnce, Kept

\* The way a thumb has is not longer than the way the content has: rounding loses at
\* most one pixel of it.
LEMMA FreeWithinSpan ==
  ASSUME NEW v \in Nat \ {0}, NEW c \in Nat, v < c, NEW t \in Nat, t < v,
         t * c <= v * v, v * v < t * c + c
  PROVE  v - t <= c - v
<1> DEFINE f == v - t
           s == c - v
<1>1. f \in Nat \ {0} /\ s \in Nat \ {0}
  OBVIOUS
<1>2. f * c = v * c - t * c /\ v * s = v * c - v * v
  OBVIOUS
<1>3. s * c > v * s
  BY <1>1
<1>4. t * c \in Int /\ v * v \in Int /\ v * c \in Int /\ s * c \in Int
  BY <1>1
<1> HIDE DEF f, s
<1> SUFFICES ASSUME f >= s + 1 PROVE FALSE
  BY <1>1 DEF f, s
<1>5. f * c >= (s + 1) * c
  BY <1>1
<1>6. (s + 1) * c = s * c + c
  BY <1>1
<1> QED
  BY <1>1, <1>2, <1>3, <1>4, <1>5, <1>6

\* A page moves the thumb by less than its own length and two pixels, or the thumb has
\* hardly farther to go than it is long.
LEMMA PageWithinThumb ==
  ASSUME NEW v \in Nat \ {0}, NEW c \in Nat, v < c, NEW t \in Nat, t < v,
         t * c <= v * v, v * v < t * c + c
  PROVE  /\ v <= c - v => v * (v - t) < (t + 2) * (c - v)
         /\ v > c - v => v - t <= t + 1
<1> DEFINE f == v - t
           s == c - v
<1>1. f \in Nat \ {0} /\ s \in Nat \ {0}
  OBVIOUS
<1>2. ASSUME v <= s PROVE v * f < (t + 2) * s
  <2>1. f * c = v * c - t * c /\ v * s = v * c - v * v
    OBVIOUS
  <2>2. f * c < v * s + c
    BY <1>1, <2>1
  <2>3. v * v < (t + 1) * c
    OBVIOUS
  <2> HIDE DEF f, s
  <2>4. v * (f * c) < v * (v * s + c)
    <3>1. f * c \in Int /\ v * s + c \in Int
      BY <1>1
    <3> QED
      BY <2>2, <3>1
  <2>5. (v * v) * s < ((t + 1) * c) * s
    <3>1. v * v \in Int /\ (t + 1) * c \in Int
      OBVIOUS
    <3> QED
      BY <1>1, <2>3, <3>1
  <2>6. v * c <= s * c
    BY <1>1, <1>2
  <2>7. v * (v * s + c) = (v * v) * s + v * c
    BY <1>1
  <2>8. ((t + 1) * c) * s + s * c = ((t + 2) * s) * c /\ v * (f * c) = (v * f) * c
    BY <1>1
  <2>9. (v * f) * c < ((t + 2) * s) * c
    <3>1. /\ v * (f * c) \in Int /\ (v * v) * s \in Int /\ ((t + 1) * c) * s \in Int
          /\ v * c \in Int /\ s * c \in Int
      BY <1>1
    <3> QED
      BY <2>4, <2>5, <2>6, <2>7, <2>8, <3>1
  <2>10. v * f \in Int /\ (t + 2) * s \in Int
    BY <1>1
  <2> QED
    BY <2>9, <2>10
<1>3. ASSUME v > s PROVE f <= t + 1
  <2> SUFFICES ASSUME f >= t + 2 PROVE FALSE
    OBVIOUS
  <2>1. 2 * (t + 1) <= v /\ c < 2 * v
    BY <1>3
  <2>2. v * v < (t + 1) * c
    OBVIOUS
  <2>3. (2 * (t + 1)) * c <= v * c
    BY <2>1
  <2>4. v * c < v * (2 * v)
    BY <2>1
  <2>5. /\ (2 * (t + 1)) * c = 2 * ((t + 1) * c) /\ v * (2 * v) = 2 * (v * v)
        /\ (t + 1) * c \in Int /\ v * v \in Int /\ v * c \in Int
    OBVIOUS
  <2> QED
    BY <2>2, <2>3, <2>4, <2>5
<1> QED
  BY <1>2, <1>3

\* The numbers a bar is drawn from.
LEMMA ThumbIs ==
  ASSUME NEW a \in Axes, NEW s \in Sizes[a], s.view # s.content, NEW now \in 0..Span(s)
  PROVE  LET v == s.view
             t == Thumb(now, s).thumb
             f == v - t
             pos == Thumb(now, s).pos
         IN  /\ t = Thumb(0, s).thumb
             /\ t \in Nat /\ t < v /\ f \in Nat \ {0} /\ Span(s) \in Nat \ {0}
             /\ f <= Span(s)
             /\ pos = (now * f) \div Span(s)
             /\ v <= Span(s) => v * f < (t + 2) * Span(s)
             /\ v > Span(s) => f <= t + 1
<1> DEFINE v == s.view
           c == s.content
           t == (v * v) \div c
<1>1. v \in Nat \ {0} /\ c \in Nat \ {0} /\ v < c /\ Span(s) = c - v
  BY SizesFit
<1>2. /\ Thumb(now, s).thumb = t /\ Thumb(0, s).thumb = t
      /\ Thumb(now, s).pos = (now * (v - t)) \div Span(s)
  BY DEF Thumb
<1>3. Thumb(now, s).thumb < v
  BY ThumbFits
<1> HIDE DEF v, c
<1>4. v * v \in Nat
  BY <1>1
<1>5. t \in Nat /\ t * c <= v * v /\ v * v < t * c + c
  BY <1>1, <1>4, DivBounds
<1> HIDE DEF t
<1>6. v - t <= c - v
  BY <1>1, <1>2, <1>3, <1>5, FreeWithinSpan
<1>7. /\ v <= c - v => v * (v - t) < (t + 2) * (c - v)
      /\ v > c - v => v - t <= t + 1
  BY <1>1, <1>2, <1>3, <1>5, PageWithinThumb
<1>8. v - t \in Nat \ {0} /\ Span(s) \in Nat \ {0} /\ t < v
  BY <1>1, <1>2, <1>3, <1>5
<1> QED
  BY <1>1, <1>2, <1>5, <1>6, <1>7, <1>8 DEF v

\* Where a length of w on the rail takes the content, and where that puts the thumb: y
\* is the position, which may be a pixel before the end s.
LEMMA ThereAndBack ==
  ASSUME NEW s \in Nat \ {0}, NEW f \in Nat \ {0}, f <= s, NEW w \in 0..f,
         NEW y \in 0..s, y = (w * s) \div f \/ (w = f /\ y = s - 1)
  PROVE  (y * f) \div s - w \in {-1, 0}
<1> DEFINE pos == (y * f) \div s
<1>1. y * f \in Nat /\ w * s \in Nat
  OBVIOUS
<1>2. pos \in Nat /\ pos * s <= y * f /\ y * f < pos * s + s
  BY <1>1, DivBounds
<1> HIDE DEF pos
<1>3. y * f <= w * s /\ w * s - s <= y * f
  <2>1. CASE y = (w * s) \div f
    <3>1. y * f <= w * s /\ w * s < y * f + f
      BY <1>1, <2>1, DivBounds
    <3> QED
      BY <1>1, <3>1
  <2>2. CASE w = f /\ y = s - 1
    <3>1. y * f = w * s - f
      BY <2>2
    <3> QED
      BY <1>1, <3>1
  <2> QED
    BY <2>1, <2>2
<1>4. pos * s \in Int /\ w * s \in Int
  BY <1>2
<1>5. pos <= w
  <2> SUFFICES ASSUME pos >= w + 1 PROVE FALSE
    BY <1>2
  <2>1. pos * s >= w * s + s
    <3>1. pos * s >= (w + 1) * s
      BY <1>2
    <3> QED
      BY <3>1
  <2> QED
    BY <1>1, <1>2, <1>3, <1>4, <2>1
<1>6. pos >= w - 1
  <2> SUFFICES ASSUME pos + 1 <= w - 1 PROVE FALSE
    BY <1>2
  <2>1. pos * s + s <= w * s - s
    <3>1. (pos + 1) * s <= (w - 1) * s
      BY <1>2
    <3> QED
      BY <1>2, <3>1
  <2> QED
    BY <1>1, <1>2, <1>3, <1>4, <2>1
<1> QED
  BY <1>2, <1>5, <1>6 DEF pos

\* For every size, every place of the rail and every way of the mouse: the thumb is
\* where the mouse has taken it, up to the ends and to a pixel
\* (perfect-scrollbar.js:502-516, 1364-1436).
THEOREM ThumbStaysUnderMouse == Spec => ThumbFollowsMouse
<1> DEFINE Follows(a, p) ==
      measured = size /\ bar[a].active /\ Drag(a, p) =>
        LET free == size[a].view - bar[a].thumb
            wanted == drag[a].at + p - drag[a].from
        IN  bar[a].pos' - (IF wanted < 0 THEN 0 ELSE IF wanted > free THEN free
                             ELSE wanted) \in {-1, 0}
<1>1. ASSUME BarInv, NEW a \in Axes, NEW p \in Pages PROVE Follows(a, p)
  <2> SUFFICES ASSUME measured = size, bar[a].active, Drag(a, p)
               PROVE  LET free == size[a].view - bar[a].thumb
                          wanted == drag[a].at + p - drag[a].from
                      IN  bar[a].pos' - (IF wanted < 0 THEN 0 ELSE IF wanted > free THEN free
                                           ELSE wanted) \in {-1, 0}
    OBVIOUS
  <2> DEFINE free == size[a].view - bar[a].thumb
             wanted == drag[a].at + p - drag[a].from
             limit == RailStart[a] + free
             at == IF wanted < 0 THEN 0 ELSE IF wanted > limit THEN limit ELSE wanted
             s == Span(size[a])
             m == (at * s) \div free
             v == [scroll EXCEPT ![a] = m]
             w == IF wanted < 0 THEN 0 ELSE IF wanted > free THEN free ELSE wanted
  <2>1. live /\ MoveTo(v)
    BY DEF Drag, Dragged
  <2>2. /\ size[a] \in Sizes[a] /\ scroll[a] \in 0..s /\ p \in Nat /\ RailStart[a] \in Nat
        /\ wanted \in Int
    BY <1>1, ScrollbarAssumption DEF BarInv, Shape, TypeOK
  <2>3. PICK n \in 0..s : bar[a] = Thumb(n, size[a])
    BY <1>1, <2>1 DEF BarInv, BarsDrawnAsMeasured
  <2>4. size[a].view # size[a].content
    BY <2>2, <2>3, ThumbFits
  <2>5. free \in Nat \ {0} /\ s \in Nat \ {0} /\ free <= s /\ limit \in Nat
    BY <2>2, <2>3, <2>4, ThumbIs
  <2>6. v[a] = m /\ \A b \in Axes \ {a} : v[b] \in Int
    BY <1>1 DEF BarInv, Shape, TypeOK
  <2>7. \A y \in 0..s : Thumb(y, size[a]).pos = (y * free) \div s
    BY <2>2, <2>3, <2>4, ThumbIs
  <2> DEFINE y == ScrollTo(scroll[a], size[a], size[a], m)
  <2>8. m \in Int => y \in 0..s /\ bar'[a] = Thumb(y, size[a])
    <3> HIDE DEF v, m
    <3> SUFFICES ASSUME m \in Int PROVE y \in 0..s /\ bar'[a] = Thumb(y, size[a])
      OBVIOUS
    <3>1. \A b \in Axes : v[b] \in Int
      BY <2>6
    <3> QED
      BY <1>1, <2>1, <2>6, <3>1, MoveToIs DEF BarInv
  <2> HIDE DEF free, wanted
  <2>15. limit >= free
    BY <2>2, <2>5
  <2> HIDE DEF limit, v
  <2>9. at \in Nat /\ w \in 0..free /\ (at = w \/ (at >= free /\ w = free))
    <3>1. CASE wanted < 0
      BY <2>5, <3>1
    <3>2. CASE wanted >= 0 /\ wanted <= free
      BY <2>2, <2>5, <2>15, <3>2
    <3>3. CASE wanted > free
      BY <2>2, <2>5, <2>15, <3>3
    <3> QED
      BY <2>2, <2>5, <3>1, <3>2, <3>3
  <2> HIDE DEF at, w
  <2>10. at * s \in Nat /\ w * s \in Nat
    BY <2>5, <2>9 DEF s
  <2>11. m \in Nat
    BY <2>5, <2>10, DivBounds
  <2>12. y = (w * s) \div free \/ (w = free /\ y = s - 1)
    <3>1. ASSUME m < s PROVE y = m
      BY <2>2, <2>5, <2>11, <3>1 DEF ScrollTo, Clamp
    <3>2. ASSUME m >= s PROVE y \in {s - 1, s}
      BY <2>2, <2>5, <2>11, <3>2 DEF ScrollTo, Clamp
    <3>3. (free * s) \div free = s
      <4>1. free * s \in Nat /\ (free * s) \div free \in Nat
        BY <2>5, DivBounds
      <4> QED
        BY <2>5, <4>1
    <3>4. ASSUME at >= free PROVE m >= s
      <4>1. m * free <= at * s /\ at * s < m * free + free
        BY <2>5, <2>10, DivBounds
      <4>2. at * s >= free * s
        BY <2>5, <2>9, <3>4
      <4> HIDE DEF m
      <4> SUFFICES ASSUME m + 1 <= s PROVE FALSE
        BY <2>5, <2>11
      <4>3. m * free + free <= free * s
        <5>1. (m + 1) * free <= s * free
          BY <2>5, <2>11
        <5> QED
          BY <2>5, <2>11, <5>1
      <4>4. m * free \in Int /\ free * s \in Int
        BY <2>5, <2>11
      <4> QED
        BY <2>5, <2>10, <4>1, <4>2, <4>3, <4>4
    <3>5. ASSUME at = w, m >= s PROVE w = free
      <4>1. m * free <= w * s
        BY <2>5, <2>10, <3>5, DivBounds
      <4> HIDE DEF m
      <4>2. s * free <= m * free
        BY <2>5, <2>11, <3>5
      <4> SUFFICES ASSUME w + 1 <= free PROVE FALSE
        BY <2>9, <2>5
      <4>3. w * s + s <= s * free
        <5>1. (w + 1) * s <= free * s
          BY <2>5, <2>9
        <5> QED
          BY <2>5, <2>9, <5>1
      <4>4. m * free \in Int /\ s * free \in Int
        BY <2>5, <2>11
      <4> QED
        BY <2>5, <2>10, <4>1, <4>2, <4>3, <4>4
    <3>6. at = w => m = (w * s) \div free
      OBVIOUS
    <3>7. m \in Nat /\ s \in Nat
      BY <2>5, <2>11
    <3> HIDE DEF m, y
    <3>8. CASE m < s
      <4>1. ~(m >= s)
        BY <3>7, <3>8
      <4>2. at = w
        BY <2>9, <3>4, <4>1
      <4> QED
        BY <3>1, <3>6, <3>8, <4>2
    <3>9. CASE m >= s
      <4>1. w = free /\ (y = s - 1 \/ y = s)
        BY <2>9, <3>2, <3>5, <3>9
      <4>2. CASE y = s
        <5>1. (w * s) \div free = s
          BY <3>3, <4>1
        <5> QED
          BY <4>2, <5>1
      <4> QED
        BY <4>1, <4>2
    <3> QED
      BY <3>7, <3>8, <3>9
  <2>13. y \in 0..s /\ bar'[a].pos = (y * free) \div s
    BY <2>7, <2>8, <2>11
  <2> HIDE DEF y, s
  <2>14. (y * free) \div s - w \in {-1, 0}
    BY <2>5, <2>9, <2>12, <2>13, ThereAndBack
  <2> QED
    BY <2>13, <2>14 DEF w, wanted, free
<1> HIDE DEF Follows
<1>2. BarInv /\ [Next]_vars => [\A a \in Axes, p \in Pages : Follows(a, p)]_vars
  BY <1>1
<1>3. Spec => [][\A a \in Axes, p \in Pages : Follows(a, p)]_vars
  BY <1>2, BarInvariant, PTL DEF Spec
<1> QED
  BY <1>3 DEF ThumbFollowsMouse, Follows

\* The rail: a page down or up is never more than the thumb and two pixels.
LEMMA PageForward ==
  ASSUME NEW s \in Nat \ {0}, NEW f \in Nat \ {0}, NEW t \in Nat, NEW v \in Nat, f <= s,
         v <= s => v * f < (t + 2) * s, v > s => f <= t + 1,
         NEW now \in 0..s, NEW y \in 0..s, now <= y, y <= now + v
  PROVE  /\ (y * f) \div s >= (now * f) \div s
         /\ (y * f) \div s <= (now * f) \div s + t + 2
<1> DEFINE old == (now * f) \div s
           new == (y * f) \div s
<1>1. now * f \in Nat /\ y * f \in Nat /\ v * f \in Nat /\ (t + 2) * s \in Nat
  OBVIOUS
<1>2. /\ old \in Nat /\ old * s <= now * f /\ now * f < old * s + s
      /\ new \in Nat /\ new * s <= y * f /\ y * f < new * s + s
  BY <1>1, DivBounds
<1> HIDE DEF old, new
<1>3. now * f <= y * f /\ y * f <= now * f + v * f
  <2>1. y * f <= (now + v) * f
    OBVIOUS
  <2> QED
    BY <2>1
<1>4. old * s \in Int /\ new * s \in Int
  BY <1>2
<1>5. new >= old
  <2> SUFFICES ASSUME new + 1 <= old PROVE FALSE
    BY <1>2
  <2>1. new * s + s <= old * s
    <3>1. (new + 1) * s <= old * s
      BY <1>2
    <3> QED
      BY <1>2, <3>1
  <2> QED
    BY <1>1, <1>2, <1>3, <1>4, <2>1
<1>6. CASE v <= s
  <2> SUFFICES ASSUME new >= old + t + 3 PROVE FALSE
    BY <1>2, <1>5 DEF old, new
  <2>1. new * s >= old * s + (t + 2) * s + s
    <3>1. new * s >= (old + t + 3) * s
      BY <1>2
    <3>2. (old + t + 3) * s = old * s + (t + 2) * s + s
      BY <1>2
    <3> QED
      BY <3>1, <3>2
  <2> QED
    BY <1>1, <1>2, <1>3, <1>4, <1>6, <2>1
<1>7. CASE v > s
  <2>1. y * f <= f * s
    OBVIOUS
  <2>2. new <= f
    BY <1>1, <2>1, DivAtMost DEF new
  <2> QED
    BY <1>2, <1>5, <1>7, <2>2 DEF old, new
<1> QED
  BY <1>6, <1>7

LEMMA PageBack ==
  ASSUME NEW s \in Nat \ {0}, NEW f \in Nat \ {0}, NEW t \in Nat, NEW v \in Nat, f <= s,
         v <= s => v * f < (t + 2) * s, v > s => f <= t + 1,
         NEW now \in 0..s, NEW y \in 0..s, y <= now, now - v <= y
  PROVE  /\ (y * f) \div s <= (now * f) \div s
         /\ (now * f) \div s <= (y * f) \div s + t + 2
<1>1. now <= y + v
  OBVIOUS
<1> QED
  BY <1>1, PageForward

\* Where a page takes the content, whatever its end was when it was measured.
LEMMA PageGoes ==
  ASSUME NEW a \in Axes, NEW known \in Sizes[a], NEW real \in Sizes[a],
         NEW now \in 0..Span(real), NEW v \in Nat \ {0}
  PROVE  LET down == ScrollTo(now, known, real, now + v)
             up == ScrollTo(now, known, real, now - v)
         IN  /\ down \in 0..Span(real) /\ now <= down /\ down <= now + v
             /\ up \in 0..Span(real) /\ up <= now /\ now - v <= up
<1>1. Span(known) \in Nat /\ Span(real) \in Nat
  BY SizesFit
<1>2. now + v \in Int /\ now - v \in Int /\ now \in Int
  BY <1>1
<1>3. /\ ScrollTo(now, known, real, now + v) \in 0..Span(real)
      /\ now <= ScrollTo(now, known, real, now + v)
      /\ ScrollTo(now, known, real, now + v) <= now + v
  BY <1>1 DEF ScrollTo, Clamp
<1>4. /\ ScrollTo(now, known, real, now - v) \in 0..Span(real)
      /\ ScrollTo(now, known, real, now - v) <= now
      /\ now - v <= ScrollTo(now, known, real, now - v)
  BY <1>1 DEF ScrollTo, Clamp
<1> QED
  BY <1>3, <1>4

\* For every size, though the content may have changed since it was measured: a click
\* on the rail never takes the thumb away from the mouse, nor more than two pixels
\* past it (perfect-scrollbar.js:417-425).
THEOREM ClicksLeadToMouse == Spec => RailLeadsToMouse
<1> DEFINE Leads(a, p) ==
      /\ bar[a] = Thumb(scroll[a], size[a]) /\ measured[a].view = size[a].view
      /\ ClickRail(a, p)
      => /\ p < bar[a].pos => /\ bar[a].pos' <= bar[a].pos
                             /\ p <= bar[a].pos' + bar[a].thumb' + 1
         /\ p > bar[a].pos => bar[a].pos' \in bar[a].pos..(p + 2)
<1>1. ASSUME BarInv, NEW a \in Axes, NEW p \in 0..(measured[a].view - 1) PROVE Leads(a, p)
  <2> SUFFICES ASSUME bar[a] = Thumb(scroll[a], size[a]), measured[a].view = size[a].view,
                      ClickRail(a, p)
               PROVE  /\ p < bar[a].pos => /\ bar'[a].pos <= bar[a].pos
                                          /\ p <= bar'[a].pos + bar'[a].thumb + 1
                      /\ p > bar[a].pos => bar'[a].pos \in bar[a].pos..(p + 2)
    OBVIOUS
  <2> DEFINE known == measured[a]
             real == size[a]
             now == scroll[a]
             v == real.view
             n == IF p > bar[a].pos THEN v ELSE -v
             y == ScrollTo(now, known, real, now + n)
             t == bar[a].thumb
             f == v - t
             s == Span(real)
  <2>1. live /\ bar[a].active /\ MoveBy(Along(a, n))
    BY DEF ClickRail
  <2>2. /\ known \in Sizes[a] /\ real \in Sizes[a] /\ now \in 0..s /\ p \in Int
    <3>1. known \in Sizes[a] /\ real \in Sizes[a] /\ now \in 0..s
      BY <1>1, <2>1 DEF BarInv, Shape, TypeOK
    <3>2. measured[a].view \in Nat
      BY <3>1, SizesFit
    <3> QED
      BY <3>1, <3>2
  <2>3. real.view # real.content
    BY <2>1, <2>2, ThumbFits
  <2>4. v \in Nat \ {0} /\ n \in Int
    BY <2>2, SizesFit
  <2>5. /\ t \in Nat /\ f \in Nat \ {0} /\ s \in Nat \ {0} /\ f <= s
        /\ v <= s => v * f < (t + 2) * s
        /\ v > s => f <= t + 1
        /\ bar[a].pos = (now * f) \div s
    BY <2>2, <2>3, ThumbIs
  <2>6. bar'[a] = Thumb(y, real)
    <3>1. Along(a, n)[a] = n /\ \A b \in Axes : Along(a, n)[b] \in Int
      BY <2>4, AlongIs
    <3> HIDE DEF n
    <3> QED
      BY <1>1, <2>1, <3>1, MoveByIs DEF BarInv
  <2>7. y \in 0..s
    BY <2>2, <2>4, ScrollToFits
  <2>8. bar'[a].thumb = t /\ bar'[a].pos = (y * f) \div s
    <3>1. \A z \in 0..s : /\ Thumb(z, real).thumb = Thumb(0, real).thumb
                         /\ Thumb(z, real).pos = (z * (v - Thumb(z, real).thumb)) \div s
      BY <2>2, <2>3, ThumbIs
    <3> HIDE DEF y
    <3> QED
      BY <2>2, <2>6, <2>7, <3>1
  <2>9. p > bar[a].pos => now <= y /\ y <= now + v
    BY <2>2, <2>4, PageGoes
  <2>11. bar[a].pos \in Nat /\ bar'[a].pos \in Nat
    BY <2>2, <2>6, <2>7, ThumbFits
  <2>10. p < bar[a].pos => y <= now /\ now - v <= y
    <3> SUFFICES ASSUME p < bar[a].pos PROVE y <= now /\ now - v <= y
      OBVIOUS
    <3>1. ~(p > bar[a].pos)
      BY <2>2, <2>11
    <3>2. n = -v /\ now + n = now - v
      BY <2>2, <2>4, <3>1
    <3> QED
      BY <2>2, <2>4, <3>2, PageGoes
  <2>12. p > bar[a].pos => p >= bar[a].pos + t
    <3>1. p \notin bar[a].pos..(bar[a].pos + bar[a].thumb - 1)
      BY DEF ClickRail
    <3> QED
      BY <2>2, <2>5, <2>11, <3>1
  <2> HIDE DEF y, f, s, t, v, n, now, known, real
  <2>13. ASSUME p > bar[a].pos PROVE bar'[a].pos \in bar[a].pos..(p + 2)
    <3>1. /\ bar'[a].pos >= bar[a].pos
          /\ bar'[a].pos <= bar[a].pos + t + 2
      <4>1. now <= y /\ y <= now + v
        BY <2>9, <2>13
      <4>2. /\ (y * f) \div s >= (now * f) \div s
            /\ (y * f) \div s <= (now * f) \div s + t + 2
        BY <2>2, <2>4, <2>5, <2>7, <4>1, PageForward
      <4> QED
        BY <2>5, <2>8, <4>2
    <3> QED
      BY <2>2, <2>5, <2>11, <2>12, <2>13, <3>1
  <2>14. ASSUME p < bar[a].pos
         PROVE  bar'[a].pos <= bar[a].pos /\ p <= bar'[a].pos + bar'[a].thumb + 1
    <3>1. /\ bar'[a].pos <= bar[a].pos
          /\ bar[a].pos <= bar'[a].pos + t + 2
      BY <2>2, <2>4, <2>5, <2>7, <2>8, <2>10, <2>14, PageBack
    <3> QED
      BY <2>2, <2>5, <2>8, <2>11, <2>14, <3>1
  <2> QED
    BY <2>13, <2>14
<1> HIDE DEF Leads
<1>2. BarInv /\ [Next]_vars
        => [\A a \in Axes : \A p \in 0..(measured[a].view - 1) : Leads(a, p)]_vars
  BY <1>1
<1>3. Spec => [][\A a \in Axes : \A p \in 0..(measured[a].view - 1) : Leads(a, p)]_vars
  BY <1>2, BarInvariant, PTL DEF Spec
<1> QED
  BY <1>3 DEF RailLeadsToMouse, Leads
=============================================================================
