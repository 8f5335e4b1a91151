----------------------------- MODULE RccePower -----------------------------
(***************************************************************************)
(* Power management of one voltage domain (RCCE_iset_power,                *)
(* RCCE_wait_power and RCCE_set_frequency_divider of                       *)
(* src/rcce/src/RCCE_power_management.c), as called by the master of the   *)
(* domain, on the chip.                                                    *)
(*                                                                         *)
(* A voltage change is ordered by writing a word to the voltage regulator  *)
(* (RPC) and takes effect later; a second write blocks until the first     *)
(* change is done.  The frequency divider of the tiles changes at once.    *)
(* The library keeps its own idea of level and divider, per program run.   *)
(*                                                                         *)
(* A program may use any request in any call, and may be killed and        *)
(* started again; the hardware keeps its settings.                         *)
(***************************************************************************)
EXTENDS Integers

CONSTANTS Divider,       \* the legal frequency dividers
          Level,         \* the voltage levels
          VoltageLevel,  \* RC_voltage_level: the level a divider needs
          DefLevel,      \* RC_DEFAULT_VOLTAGE_LEVEL
          DefDivider,    \* RC_DEFAULT_FREQUENCY_DIVIDER
          Request,       \* the RCCE_REQUEST variables of the program
          Uses           \* what the program does besides iset and wait:
                         \*   "divider"  it sets the divider itself
                         \*   "stale"    it waits for a request that is over
                         \*   "restart"  it is started again in any state of
                         \*              the hardware, not only in the default

\* A higher frequency (a smaller divider) never needs a lower voltage; the
\* default state is feasible, and no smaller divider fits a lower voltage.
ASSUME PowerAssumption ==
  /\ Divider \subseteq Int
  /\ Level \subseteq Int
  /\ VoltageLevel \in [Divider -> Level]
  /\ \A f, g \in Divider : f <= g => VoltageLevel[g] <= VoltageLevel[f]
  /\ DefLevel \in Level /\ DefDivider \in Divider
  /\ VoltageLevel[DefDivider] <= DefLevel
  /\ \A f \in Divider : f < DefDivider => DefLevel <= VoltageLevel[f]
  /\ Uses \subseteq {"divider", "stale", "restart"}

VARIABLES volt,     \* hardware: the voltage level of the domain
          target,   \* hardware: the level last written to the RPC
          divider,  \* hardware: the divider of the tiles
          active,   \* RCCE_set_power_active
          level,    \* RC_current_voltage_level
          fdiv,     \* RC_current_frequency_divider
          req,      \* req[r]: the contents of the request r
          phase, cur   \* where the master is, and with which request

hardware  == <<volt, target, divider>>
software  == <<active, level, fdiv, req>>
powerVars == <<hardware, software, phase, cur>>

Contents == [state : {"unused", "open", "released"}, newV : Level,
             oldF : Divider, newF : Divider]

PowerTypeOK ==
  /\ volt \in Level /\ target \in Level /\ divider \in Divider
  /\ active \in BOOLEAN /\ level \in Level /\ fdiv \in Divider
  /\ req \in [Request -> Contents]
  /\ phase \in {"idle", "setvolt", "reissue1", "reissue2"}
  /\ cur \in Request

Unused == [state |-> "unused", newV |-> DefLevel, oldF |-> DefDivider, newF |-> DefDivider]

Default == <<DefLevel, DefLevel, DefDivider>>

PowerInit ==
  /\ volt = DefLevel /\ target = DefLevel /\ divider = DefDivider
  /\ active = FALSE /\ level = DefLevel /\ fdiv = DefDivider
  /\ req = [r \in Request |-> Unused]
  /\ phase = "idle" /\ cur \in Request

-----------------------------------------------------------------------------
\* RCCE_set_frequency_divider(f) when the library believes the level is lev.
Divided(f, lev) == IF VoltageLevel[f] <= lev THEN f ELSE divider

\* Mutation: a call is accepted while another one is in flight.
SetFrequencyDivider_InFlight(f) ==
  /\ "divider" \in Uses
  /\ phase = "idle"
  /\ divider' = Divided(f, level)
  /\ UNCHANGED <<volt, target, software, phase, cur>>

\* RCCE_set_frequency_divider, called by the program; refused while a power
\* change is in flight.  RC_current_frequency_divider is not updated.
SetFrequencyDivider(f) ==
  /\ "divider" \in Uses
  /\ phase = "idle"
  /\ ~active
  /\ divider' = Divided(f, level)
  /\ UNCHANGED <<volt, target, software, phase, cur>>

\* Mutation: the divider is changed before the voltage in either direction.
IsetPower_FrequencyFirst(r, f) ==
  /\ phase = "idle"
  /\ ~active
  /\ req' = [req EXCEPT ![r] = [state |-> "open", newV |-> VoltageLevel[f],
                                oldF |-> f, newF |-> f]]
  /\ divider' = f /\ fdiv' = f
  /\ active' = TRUE
  /\ phase' = "setvolt" /\ cur' = r
  /\ UNCHANGED <<volt, target, level>>

\* Mutation: a second request is not refused.
IsetPower_InFlight(r, f) ==
  /\ phase = "idle"
  /\ req' = [req EXCEPT ![r] = [state |-> "open", newV |-> VoltageLevel[f],
                                oldF |-> fdiv, newF |-> f]]
  /\ IF f >= fdiv THEN divider' = Divided(f, level) /\ fdiv' = f
                  ELSE UNCHANGED <<divider, fdiv>>
  /\ active' = TRUE
  /\ phase' = "setvolt" /\ cur' = r
  /\ UNCHANGED <<volt, target, level>>

\* RCCE_iset_power, up to the write to the RPC; refused while a power change
\* is in flight.  A lower frequency is set at once.
IsetPower(r, f) ==
  /\ phase = "idle"
  /\ ~active
  /\ req' = [req EXCEPT ![r] = [state |-> "open", newV |-> VoltageLevel[f],
                                oldF |-> fdiv, newF |-> f]]
  /\ IF f >= fdiv THEN divider' = Divided(f, level) /\ fdiv' = f
                  ELSE UNCHANGED <<divider, fdiv>>
  /\ active' = TRUE
  /\ phase' = "setvolt" /\ cur' = r
  /\ UNCHANGED <<volt, target, level>>

\* RC_set_voltage: the write blocks while an earlier change is under way.
SetVoltage ==
  /\ phase = "setvolt"
  /\ volt = target
  /\ target' = req[cur].newV
  /\ phase' = "idle"
  /\ UNCHANGED <<volt, divider, software, cur>>

\* The regulator has reached the level it was told.
VoltageReached ==
  /\ volt # target
  /\ volt' = target
  /\ UNCHANGED <<target, divider, software, phase, cur>>

\* The requests that the program waits for.
WaitedFor == {"open"} \cup (IF "stale" \in Uses THEN {"released"} ELSE {})

\* RCCE_wait_power, up to the wait: the in-flight mark is removed before the
\* request is found to be stale.
WaitPower(r) ==
  /\ phase = "idle" /\ active
  /\ req[r].state \in WaitedFor
  /\ phase' = IF req[r].state = "open" THEN "reissue1" ELSE "idle"
  /\ active' = FALSE
  /\ cur' = r
  /\ UNCHANGED <<hardware, level, fdiv, req>>

\* RC_wait_voltage writes the same word again, twice, and blocks until the
\* change before it is done.
Reissue ==
  /\ phase = "reissue1"
  /\ volt = target
  /\ target' = req[cur].newV
  /\ phase' = "reissue2"
  /\ UNCHANGED <<volt, divider, software, cur>>

\* Mutation: the divider is set before the new level is remembered.
WaitPowerReturn_DividerFirst ==
  /\ phase = "reissue2"
  /\ volt = target
  /\ target' = req[cur].newV
  /\ level' = req[cur].newV
  /\ IF req[cur].newF < req[cur].oldF
     THEN divider' = Divided(req[cur].newF, level) /\ fdiv' = req[cur].newF
     ELSE UNCHANGED <<divider, fdiv>>
  /\ req' = [req EXCEPT ![cur].state = "released"]
  /\ phase' = "idle"
  /\ UNCHANGED <<volt, active, cur>>

\* RCCE_wait_power, the second write and what follows: a higher frequency is
\* set now that the voltage has been reached.
WaitPowerReturn ==
  /\ phase = "reissue2"
  /\ volt = target
  /\ target' = req[cur].newV
  /\ level' = req[cur].newV
  /\ IF req[cur].newF < req[cur].oldF
     THEN divider' = Divided(req[cur].newF, level') /\ fdiv' = req[cur].newF
     ELSE UNCHANGED <<divider, fdiv>>
  /\ req' = [req EXCEPT ![cur].state = "released"]
  /\ phase' = "idle"
  /\ UNCHANGED <<volt, active, cur>>

\* The program ends, or is killed, and is started again.
Restart ==
  /\ "restart" \in Uses \/ hardware = Default
  /\ active' = FALSE /\ level' = DefLevel /\ fdiv' = DefDivider
  /\ req' = [r \in Request |-> Unused]
  /\ phase' = "idle" /\ cur' = cur
  /\ UNCHANGED hardware

-----------------------------------------------------------------------------
PowerNext ==
  \/ \E f \in Divider : SetFrequencyDivider(f)
  \/ \E r \in Request, f \in Divider : IsetPower(r, f)
  \/ \E r \in Request : WaitPower(r)
  \/ SetVoltage \/ Reissue \/ WaitPowerReturn
  \/ VoltageReached
  \/ Restart

PowerSpec == PowerInit /\ [][PowerNext]_powerVars

-----------------------------------------------------------------------------
(***************************************************************************)
(* Properties                                                              *)
(***************************************************************************)

\* The tiles never run at a frequency that the voltage, whether the old one
\* or the one being approached, does not support.
FrequencySupported ==
  VoltageLevel[divider] <= volt /\ VoltageLevel[divider] <= target

\* A power change is never ordered while another one is under way.
OneChangeAtATime == phase = "setvolt" => volt = target

\* Why, as long as the program waits for what it has requested.  With nothing
\* in flight the library knows the voltage, and a smaller divider than the
\* one it remembers needs at least that voltage; with a request in flight the
\* tiles get along with the old voltage and with the new one.
InFlight == active \/ phase \in {"reissue1", "reissue2"}

RestInv ==
  /\ phase = "idle"
  /\ volt = level /\ target = level
  /\ VoltageLevel[divider] <= level /\ VoltageLevel[fdiv] <= level
  /\ \A f \in Divider : f < fdiv => level <= VoltageLevel[f]
  /\ \A r \in Request : req[r].state # "open"

FlightInv ==
  LET q == req[cur] IN
  /\ q.state = "open" /\ q.newV = VoltageLevel[q.newF]
  /\ \A r \in Request \ {cur} : req[r].state # "open"
  /\ VoltageLevel[divider] <= level /\ VoltageLevel[divider] <= q.newV
  /\ q.newF >= q.oldF => divider = q.newF /\ fdiv = q.newF
  /\ active <=> phase \in {"idle", "setvolt"}
  /\ IF phase = "setvolt" THEN volt = level /\ target = level
                          ELSE volt \in {level, target} /\ target = q.newV
  /\ phase = "reissue2" => volt = target

PowerInv == IF InFlight THEN FlightInv ELSE RestInv

\* When wait_power releases a request, the domain runs with the divider and
\* the voltage that were asked for.
RequestHonoured ==
  [][\A r \in Request :
       req[r].state = "open" /\ req'[r].state = "released" =>
          divider' = req[r].newF /\ volt' = req[r].newV]_powerVars
=============================================================================
