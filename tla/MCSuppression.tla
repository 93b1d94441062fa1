--------------------------- MODULE MCSuppression ----------------------------
(* Two members of one power family, suppressed at two faults in two ticks.   *)
EXTENDS Suppression

MCWatched == {<<"d1", "power">>, <<"d2", "power">>}
MCThreshold == [f \in {"power"} |-> 2]
MCSpan == [f \in {"power"} |-> 2]

=============================================================================
