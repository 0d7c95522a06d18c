------------------------------- MODULE Clock -------------------------------
(* The clock of the parts between the world and its published snapshot:    *)
(* Date.now(), in steps.                                                   *)
EXTENDS Null

VARIABLE now

Tick == now' = now + 1
============================================================================
