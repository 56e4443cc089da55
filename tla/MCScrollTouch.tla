---------------------------- MODULE MCScrollTouch ----------------------------
EXTENDS ScrollTouch

Size(view, content) == [view |-> view, content |-> content]

\* As the hub's pages are: nothing overflows sideways.
MCSizes == [x |-> {Size(3, 3)}, y |-> {Size(3, 3), Size(3, 6)}]
MCRailStart == [a \in Axes |-> 0]
MCPoints == {[x |-> 0, y |-> n] : n \in {0, 2}}
MCWheelSteps == {0}
MCChildren == {}
=============================================================================
