------------------------------ MODULE MCPanel ------------------------------
EXTENDS Panel, Integers
CONSTANTS color, min, aspect, rules, logo, i1, i2
MCTabs == {aspect, rules}
MCFields == {color, min}
MCTabOf == [f \in MCFields |-> IF f = color THEN aspect ELSE rules]
\* Zones without and with a change of clocks near the wall-clock times
MCSummer == [before |-> -2, after |-> -1, change |-> 5]
MCZones == {[before |-> -3, after |-> -3, change |-> 0], MCSummer}
=============================================================================
