----------------------------- MODULE MCCollapse -----------------------------
EXTENDS Collapse
=============================================================================
