----------------------------- MODULE MCScrollbar -----------------------------
EXTENDS Scrollbar

Size(view, content) == [view |-> view, content |-> content]

\* Small sizes for the two bars together: the content fits, overflows by a pixel, or
\* overflows by more than the way its thumb has, so that positions are rounded.
MCSizes ==
  [x |-> {Size(3, 3), Size(3, 4)}, y |-> {Size(5, 5), Size(5, 9)}]

MCRailStart == [a \in Axes |-> IF a = "x" THEN 2 ELSE 0]

Nothing == [top |-> 0, height |-> 0, view |-> 0, left |-> 0, width |-> 0]
TextArea == [top |-> 0, height |-> 4, view |-> 2, left |-> 0, width |-> 2]
MCWheelSteps == {-2, 0, 2}

MCChildren == {Nothing, TextArea}
=============================================================================
