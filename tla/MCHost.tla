------------------------------- MODULE MCHost -------------------------------
(* Two callers, one permit, and a desktop of two displays and an           *)
(* application with two windows, of which the one a request may name comes *)
(* and goes.  The second caller asks for a list.                           *)
EXTENDS HostObservation

CONSTANTS c1, c2

MCAsks == {f \in [Clients -> Targets] : f[c1] # "list" /\ f[c2] = "list"}

MCDisplays == <<"d1", "d2">>

MCOpened == <<"w1", "w2">>

MCWindowLists == {<<"w2">>, MCOpened}
=============================================================================
