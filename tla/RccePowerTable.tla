--------------------------- MODULE RccePowerTable ---------------------------
(***************************************************************************)
(* The voltage table, the divider limits and RC_voltage_level              *)
(* (src/rcce/src/RCCE_power_management.c, src/rcce/include/RCCE_lib_pwr.h) *)
(***************************************************************************)
EXTENDS Integers, Sequences

RC_GLOBAL_CLOCK_MHZ == 1600
Dividers == 2 .. 16          \* RC_MIN_ .. RC_MAX_FREQUENCY_DIVIDER
DefaultLevel == 4
DefaultDivider == 3

\* RC_V_MHz_cap[level].MHz_cap; the C array is indexed from 0.
MHz_cap == <<460, 598, 644, 748, 875, 1024, 1198>>
Levels  == 0 .. Len(MHz_cap) - 1

\* The first level whose cap is high enough; a level exists for every
\* divider, so the search never reads behind the table.
RC_voltage_level ==
  [Fdiv \in Dividers |->
     CHOOSE v \in Levels :
        /\ MHz_cap[v + 1] >= RC_GLOBAL_CLOCK_MHZ \div Fdiv
        /\ \A w \in Levels : w < v => MHz_cap[w + 1] < RC_GLOBAL_CLOCK_MHZ \div Fdiv]

\* What RccePower assumes of the table holds of all its dividers.
ASSUME TableAssumption ==
  /\ RC_voltage_level \in [Dividers -> Levels]
  /\ \A f, g \in Dividers : f <= g => RC_voltage_level[g] <= RC_voltage_level[f]
  /\ RC_voltage_level[DefaultDivider] <= DefaultLevel
  /\ \A f \in Dividers : f < DefaultDivider => DefaultLevel <= RC_voltage_level[f]
=============================================================================
