------------------------ MODULE MCOperationalAgents -------------------------
(* Two configurations: c1 runs the action x unattended, c2 asks for every    *)
(* action; at the higher autonomy level both run x and y unattended.         *)
EXTENDS OperationalAgents

CONSTANTS c1, c2, x, y

MCUnattended ==
    [l \in {0, 1} |-> [c \in Configs |->
        IF l = 1 THEN {x, y} ELSE IF c = c1 THEN {x} ELSE {}]]

=============================================================================
