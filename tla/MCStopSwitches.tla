--------------------------- MODULE MCStopSwitches ---------------------------
(* Instances of StopSwitches for TLC. *)
EXTENDS StopSwitches

\* Every control that acts on the switches.
AllControls == Scopes \cup {"break_glass"}

\* Central Command's switch alone.
TenantOnly == {"tenant"}

=============================================================================
