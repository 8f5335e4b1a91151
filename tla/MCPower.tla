------------------------------ MODULE MCPower ------------------------------
(***************************************************************************)
(* RccePower with the real table and five of its dividers: between them    *)
(* they need the three voltage levels that the table asks for (4, 1 and 0).*)
(***************************************************************************)
EXTENDS RccePower, RccePowerTable

SomeDividers == {2, 3, 4, 8, 16}
TheirLevels  == [f \in SomeDividers |-> RC_voltage_level[f]]
=============================================================================
