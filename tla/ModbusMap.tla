------------------------------ MODULE ModbusMap ------------------------------
(***************************************************************************)
(* The holding-register map of the master (Core/Src/gh_modbus_map.c): one  *)
(* block of registers per RS485 slave, kept in the single array s_holding. *)
(*                                                                         *)
(* Two tasks of the same priority use the array with no common lock: the   *)
(* RTU master task (module RtuMaster) through the GH_ModbusMap_* functions *)
(* and the Modbus TCP task (module TcpServer) through the pointer that     *)
(* GH_ModbusMap_GetBackingStore handed out.  The unit of atomicity is      *)
(* therefore the store or load of ONE 16-bit register, and each operator   *)
(* below is one such store; the tasks string them together.                *)
(*                                                                         *)
(* Registers of a block that are modelled: the sensors (+0..+8), the slave *)
(* status (+12), DATA_VERSION (+17), the setpoints (+20..+24, those the    *)
(* master forwards), APPLY_TRIGGER (+60) and LAST_APPLIED_TRIGGER (+61).   *)
(*                                                                         *)
(* The value of a sensor register is the sample it holds, and a sample is  *)
(* named by the DATA_VERSION under which it is to be published.            *)
(***************************************************************************)
EXTENDS Naturals, FiniteSets

CONSTANTS NumSlaves,     \* GH_MB_MAX_SLAVES (20)
          NumSensors,    \* sensor registers of a block (9)
          NumSetpoints   \* setpoint registers of a block the master forwards (5)

ASSUME MapAssumption == /\ NumSlaves \in Nat \ {0}
                        /\ NumSensors \in Nat \ {0}
                        /\ NumSetpoints \in Nat \ {0}

Slaves == 1 .. NumSlaves
Sensors == 1 .. NumSensors
Setpoints == 1 .. NumSetpoints

STALE == "stale"     \* 0x0002
ONLINE == "online"   \* 0x0001

VARIABLES sens,      \* sens[s][i]: the sample in sensor register i
          status,    \* REG_OFF_SLAVE_STATUS
          version,   \* REG_OFF_DATA_VERSION
          setp,      \* setp[s][i]: REG_OFF_MODE .. REG_OFF_HYST_HUM_X10
          trigger,   \* REG_OFF_APPLY_TRIGGER
          applied    \* REG_OFF_LAST_APPLIED_TRIGGER

telemetryRegs == <<sens, status, version>>
setpointRegs == <<setp, trigger, applied>>
mapVars == <<sens, status, version, setp, trigger, applied>>

MapTypeOK ==
  /\ sens \in [Slaves -> [Sensors -> Nat]]
  /\ status \in [Slaves -> {STALE, ONLINE}]
  /\ version \in [Slaves -> Nat]
  /\ setp \in [Slaves -> [Setpoints -> Nat]]
  /\ trigger \in [Slaves -> Nat]
  /\ applied \in [Slaves -> Nat]

(* The contents GH_ModbusMap_Init gives the map at every boot. *)
MapInit ==
  /\ sens = [s \in Slaves |-> [i \in Sensors |-> 0]]
  /\ status = [s \in Slaves |-> STALE]
  /\ version = [s \in Slaves |-> 0]
  /\ setp = [s \in Slaves |-> [i \in Setpoints |-> 0]]
  /\ trigger = [s \in Slaves |-> 0]
  /\ applied = [s \in Slaves |-> 0]

(* The same contents after a reboot: the array lives in RAM. *)
GH_ModbusMap_Init ==
  /\ sens' = [s \in Slaves |-> [i \in Sensors |-> 0]]
  /\ status' = [s \in Slaves |-> STALE]
  /\ version' = [s \in Slaves |-> 0]
  /\ setp' = [s \in Slaves |-> [i \in Setpoints |-> 0]]
  /\ trigger' = [s \in Slaves |-> 0]
  /\ applied' = [s \in Slaves |-> 0]

bump_data_version(s) ==
  version' = [version EXCEPT ![s] = @ + 1]

StoreSensor(s, i, sample) ==
  sens' = [sens EXCEPT ![s][i] = sample]

StoreStatus(s, v) ==
  status' = [status EXCEPT ![s] = v]

StoreSetpoint(s, i, v) ==
  setp' = [setp EXCEPT ![s][i] = v]

StoreTrigger(s, v) ==
  trigger' = [trigger EXCEPT ![s] = v]

StoreLastApplied(s, v) ==
  applied' = [applied EXCEPT ![s] = v]

=============================================================================
