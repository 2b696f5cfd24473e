--------------------------- MODULE MCValueBinding ---------------------------
(* Two native values and two goroutines: one goroutine can hold a value   *)
(* while the other resolves a handle the core has just freed.             *)
EXTENDS ValueBinding

CONSTANTS v1, v2, g1, g2

MCValues == {v1, v2}
MCGoroutines == {g1, g2}

=============================================================================
