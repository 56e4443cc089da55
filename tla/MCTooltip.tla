----------------------------- MODULE MCTooltip -----------------------------
EXTENDS Tooltip, TLC

\* One label at the top of the window, one at its bottom edge.
MCLabelTop == "failed" :> 2 @@ "running" :> 34
MCTipHeights == {[hidden |-> 8, shown |-> 8], [hidden |-> 8, shown |-> 12]}
=============================================================================
