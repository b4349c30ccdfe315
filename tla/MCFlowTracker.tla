--------------------------- MODULE MCFlowTracker ---------------------------
(* One teaching of three lines, two admins, a member with two tabs.        *)
EXTENDS FlowTracker

OfferedLists == {{}, {0, 3, 4}, {3, 4}}

Alike == Permutations(Admins) \cup Permutations(Tabs)
=============================================================================
