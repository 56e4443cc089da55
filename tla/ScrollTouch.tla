----------------------------- MODULE ScrollTouch -----------------------------
(***************************************************************************)
(* The touch handler of the scroll bars: the content follows a finger, and *)
(* glides on when the finger is lifted, slower with every tick of a timer. *)
(*                                                                         *)
(* targetTouches lists the fingers on one node of the page, so fingers on  *)
(* different nodes of the element are each taken for a single one.  Two    *)
(* fingers on one node, or a finger outside of the element, are left to    *)
(* the browser: they only set inGlobalTouch.                               *)
(***************************************************************************)
EXTENDS Scrollbar, Sequences, SequencesExt

CONSTANTS
  Nodes,       \* parts of the element that a finger may touch
  Points,      \* positions of a finger: functions on Axes
  MaxFingers,  \* bound: fingers on the element
  MaxNotch     \* bound: speed of a glide

ASSUME TouchAssumption ==
  Points \subseteq [Axes -> Nat] /\ {MaxFingers, MaxNotch} \subseteq Nat

VARIABLES
  fingers,        \* those on the element, in the order they came
  elsewhere,      \* a finger is on the page outside of the element
  inGlobalTouch, inLocalTouch,
  startOffset,    \* where the finger was when the content last moved
  speed,          \* in notches: a tick takes a speed one notch down, and at
                  \* notch 0 it is below 0.01
  easing,         \* the timer of easingLoop runs
  alone,          \* history: one finger on the element, and only ever one
                  \* since the screen was last untouched
  cancelled       \* history: the browser took back a touch, and no other has
                  \* ended since

touchVars == <<fingers, elsewhere, inGlobalTouch, inLocalTouch, startOffset, speed,
               easing, alone, cancelled>>
allVars == <<vars, touchVars>>

unmoved == <<scroll, pending, measured, bar>>

SwipePropagation == TRUE

On(node) == {k \in 1..Len(fingers) : fingers[k].node = node}

\* Faulty variant: the timer goes on.
TouchStart_gliding(p) ==
  /\ inLocalTouch' = TRUE /\ startOffset' = p
  /\ UNCHANGED easing

\* touchStart, for a finger alone on its node.
TouchStart(p) ==
  /\ inLocalTouch' = TRUE /\ startOffset' = p
  /\ easing' = FALSE

\* touchstart on the element: one that is handled is kept from the window.
FingerDown(node, p) ==
  /\ live /\ Len(fingers) < MaxFingers
  /\ fingers' = Append(fingers, [node |-> node, at |-> p])
  /\ IF On(node) = {}
       THEN TouchStart(p) /\ UNCHANGED inGlobalTouch
       ELSE inGlobalTouch' = TRUE /\ UNCHANGED <<inLocalTouch, startOffset, easing>>
  /\ alone' = (fingers = <<>> /\ ~elsewhere)
  /\ UNCHANGED <<vars, elsewhere, speed, cancelled>>

Less(p, q) == [a \in Axes |-> p[a] - q[a]]

\* The speed of a move by d: its quotient by the time it took, unless the clock has
\* not advanced.
SpeedOf(d) ==
  {speed} \cup {s \in [Axes -> -MaxNotch..MaxNotch] :
                  \A a \in Axes : s[a] * d[a] >= 0 /\ (d[a] = 0 => s[a] = 0)}

\* Faulty variant: the way is measured from where the finger first touched.
Followed_whole(p) == UNCHANGED startOffset

Followed(p) == startOffset' = p

\* touchmove of the k-th finger.  A move the element has no touch for begins one.
FingerMove(k, p) ==
  LET single == On(fingers[k].node) = {k}
      begins == ~inLocalTouch /\ SwipePropagation /\ single
      d == Less(p, startOffset)
  IN  /\ live /\ fingers[k].at # p
      /\ fingers' = [fingers EXCEPT ![k].at = p]
      /\ IF begins
           THEN /\ TouchStart(p)
                /\ IF inGlobalTouch THEN UNCHANGED <<unmoved, speed>>
                     ELSE /\ MoveBy(Along("x", 0))
                          /\ speed' \in SpeedOf(Along("x", 0))
           ELSE IF ~inGlobalTouch /\ inLocalTouch /\ single
             THEN /\ MoveBy(Less(startOffset, p))
                  /\ Followed(p)
                  /\ speed' \in SpeedOf(d)
                  /\ UNCHANGED <<inLocalTouch, easing>>
             ELSE UNCHANGED <<unmoved, inLocalTouch, startOffset, speed, easing>>
      /\ UNCHANGED <<live, size, mouseVars, attended, elsewhere, inGlobalTouch, alone,
                     cancelled>>

\* Faulty variant: a touch that the element leaves alone is not ended.
TouchEnd_local ==
  IF ~inGlobalTouch /\ inLocalTouch
    THEN inLocalTouch' = FALSE /\ easing' = TRUE /\ UNCHANGED inGlobalTouch
    ELSE UNCHANGED <<inLocalTouch, easing, inGlobalTouch>>

\* touchEnd, and then globalTouchEnd of the window.
TouchEnd ==
  /\ IF ~inGlobalTouch /\ inLocalTouch
       THEN inLocalTouch' = FALSE /\ easing' = TRUE
       ELSE UNCHANGED <<inLocalTouch, easing>>
  /\ inGlobalTouch' = FALSE

Lift(k) ==
  /\ fingers' = RemoveAt(fingers, k)
  /\ alone' = FALSE

FingerUp(k) ==
  /\ Lift(k) /\ TouchEnd
  /\ cancelled' = FALSE
  /\ UNCHANGED <<vars, elsewhere, startOffset, speed>>

\* touchcancel has no handler.
FingerCancel(k) ==
  /\ Lift(k)
  /\ cancelled' = TRUE
  /\ UNCHANGED <<vars, elsewhere, inGlobalTouch, inLocalTouch, startOffset, speed,
                 easing>>

\* A finger outside of the element reaches the handlers of the window only.
TouchElsewhere ==
  /\ live
  /\ elsewhere' = ~elsewhere
  /\ inGlobalTouch' = elsewhere'
  /\ alone' = FALSE
  /\ cancelled' = (cancelled /\ elsewhere')
  /\ UNCHANGED <<vars, fingers, inLocalTouch, startOffset, speed, easing>>

\* Faulty variant: only the other axis slows down.
Slower_x(s) == [s EXCEPT !["x"] = IF @ > 0 THEN @ - 1 ELSE IF @ < 0 THEN @ + 1 ELSE 0]

Slower(s) ==
  [a \in Axes |-> IF s[a] > 0 THEN s[a] - 1 ELSE IF s[a] < 0 THEN s[a] + 1 ELSE 0]

Still == \A a \in Axes : speed[a] = 0

\* A tick of easingLoop: it moves the content by up to its speed.
EasingTick ==
  /\ live /\ easing
  /\ IF Still
       THEN easing' = FALSE /\ UNCHANGED <<unmoved, speed>>
       ELSE /\ \E d \in [Axes -> -MaxNotch..MaxNotch] :
                 /\ \A a \in Axes : d[a] * (d[a] + speed[a]) <= 0
                 /\ MoveBy(d)
            /\ speed' = Slower(speed)
            /\ UNCHANGED easing
  /\ UNCHANGED <<live, size, mouseVars, attended, fingers, elsewhere, inGlobalTouch,
                 inLocalTouch, startOffset, alone, cancelled>>

-----------------------------------------------------------------------------
TouchInit ==
  /\ Init
  /\ fingers = <<>> /\ elsewhere = FALSE
  /\ inGlobalTouch = FALSE /\ inLocalTouch = FALSE /\ easing = FALSE
  /\ startOffset = Along("x", 0) /\ speed = Along("x", 0)
  /\ alone = FALSE /\ cancelled = FALSE

TouchNext ==
  \/ Browser /\ UNCHANGED touchVars
  \/ \E node \in Nodes, p \in Points : FingerDown(node, p)
  \/ \E k \in 1..Len(fingers) :
       (\E p \in Points : FingerMove(k, p)) \/ FingerUp(k) \/ FingerCancel(k)
  \/ TouchElsewhere
  \/ EasingTick

\* A timer that is set fires.
TouchSpec == TouchInit /\ [][TouchNext]_allVars /\ WF_allVars(EasingTick)

-----------------------------------------------------------------------------
\* Properties

\* The glide never pulls against a finger: while the element has a touch of its own
\* the timer is stopped, and a finger that came alone finds the content at rest
\* (perfect-scrollbar.js:1065-1067).
NoTugOfWar == easing => ~inLocalTouch /\ ~alone

\* A finger that has come alone carries the content along: each move of the finger
\* moves the content by just that way, up to the ends, where a pixel may be left
\* over; nothing of earlier touches is left in the offset (perfect-scrollbar.js:1077-1085).
ContentFollowsFinger ==
  [][\A p \in Points :
       alone /\ ~inGlobalTouch /\ measured = size /\ FingerMove(1, p) =>
         \A a \in Axes :
           scroll'[a] - Clamp(scroll[a] + fingers[1].at[a] - p[a], size[a])
             \in {-1, 0}]_allVars

\* The element is not deaf to touches for longer than there are fingers it leaves to
\* the browser, unless the browser has taken a touch back without an end
\* (perfect-scrollbar.js:1030-1035).
GlobalTouchIsReal ==
  inGlobalTouch => elsewhere \/ Len(fingers) > 1 \/ cancelled

\* Every glide comes to an end (perfect-scrollbar.js:1107-1127).
GlidesEnd == easing ~> ~easing
=============================================================================
