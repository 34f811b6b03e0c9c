------------------------------ MODULE RtuMaster ------------------------------
(***************************************************************************)
(* The RTU master task, GH_ModbusMasterTask_Run (gh_modbus_master.c), with *)
(* the GH_ModbusMap_* functions it calls unrolled into their register      *)
(* accesses, and the slaves at the other end of the RS485 bus.             *)
(*                                                                         *)
(* For each slave in turn: read the telemetry and publish it, or mark the  *)
(* slave stale; take an apply request if APPLY_TRIGGER differs from        *)
(* LAST_APPLIED_TRIGGER; forward its setpoints and its trigger one         *)
(* single-register write at a time; acknowledge it if every write went     *)
(* through.  A request that failed is still pending at the next cycle,     *)
(* which is the only retry.                                                *)
(*                                                                         *)
(* An exchange on the bus has three outcomes: it succeeds; the slave never *)
(* acts on the request; the slave acts but the master does not get the     *)
(* response (timeout, CRC).  Left out, because no modelled register        *)
(* depends on them: the diagnostic read (lines 80-88), the age registers,  *)
(* the error counters, g_sensors and g_status, and the waits between       *)
(* cycles.                                                                 *)
(***************************************************************************)
EXTENDS ModbusMap

CONSTANTS Dead,        \* slaves that are not on the bus: they never answer
          MaxFaults,   \* bound: failed writes to slaves that are on the bus
          MaxVersion,  \* bound: no telemetry is taken at this DATA_VERSION
          MaxRestarts  \* bound: restarts of slaves

ASSUME BusAssumption == /\ Dead \subseteq Slaves
                        /\ MaxFaults \in Nat
                        /\ MaxVersion \in Nat
                        /\ MaxRestarts \in Nat

VARIABLES
  pc,        \* where the task is in its loop body
  cur,       \* the slave s of the loop
  k,         \* index in the copy or write sequence under way
  req,       \* gh_slave_apply_request_t: the trigger and the setpoints copied
  slaveSp,   \* slaveSp[s][i]: control register i of slave s
  active,    \* active[s]: the trigger and setpoints the slave acts on
  lost,      \* lost[s]: s restarted since the master last began writing to it
  samples,   \* history: the samples taken from each slave since the boot
  faults, restarts   \* what is spent of the bounds

masterVars == <<pc, cur, k, req>>
slaveVars == <<slaveSp, active, lost>>
busVars == <<masterVars, slaveVars, samples, faults, restarts>>

PCs == {"read", "sensors", "status", "bump", "request", "snapshot", "write",
        "mark", "bumpApplied"}

Request == [trigger : Nat, sp : [Setpoints -> Nat]]
NoRequest == [trigger |-> 0, sp |-> [i \in Setpoints |-> 0]]

RtuTypeOK ==
  /\ pc \in PCs
  /\ cur \in Slaves
  /\ k \in Nat
  /\ req \in Request
  /\ slaveSp \in [Slaves -> [Setpoints -> Nat]]
  /\ active \in [Slaves -> Request]
  /\ lost \in [Slaves -> BOOLEAN]
  /\ samples \in [Slaves -> SUBSET Nat]
  /\ faults \in Nat
  /\ restarts \in Nat

(* The task at the top of its loop, as the scheduler starts it. *)
MasterInit ==
  /\ pc = "read"
  /\ cur = 1
  /\ k = 1
  /\ req = NoRequest
  /\ samples = [s \in Slaves |-> {}]

(* A slave that has never been written to. *)
SlavesInit ==
  /\ slaveSp = [s \in Slaves |-> [i \in Setpoints |-> 0]]
  /\ active = [s \in Slaves |-> NoRequest]
  /\ lost = [s \in Slaves |-> TRUE]
  /\ faults = 0
  /\ restarts = 0

MasterReset ==
  /\ pc' = "read"
  /\ cur' = 1
  /\ k' = 1
  /\ req' = NoRequest
  /\ samples' = [s \in Slaves |-> {}]

-----------------------------------------------------------------------------
(* Seeded bug: the loop runs on past GH_RTU_SLAVE_LAST.                    *)
NextSlavePastLast ==
  /\ pc' = "read"
  /\ cur' = cur + 1
  /\ k' = 1

(* The end of the loop body: on to the next slave, or to the next cycle.   *)
NextSlave ==
  /\ pc' = "read"
  /\ cur' = IF cur = NumSlaves THEN 1 ELSE cur + 1
  /\ k' = 1

(* The telemetry read succeeds.                                            *)
ReadTelemetry ==
  /\ pc = "read"
  /\ cur \notin Dead
  /\ version[cur] < MaxVersion
  /\ pc' = "sensors"
  /\ k' = 1
  /\ samples' = [samples EXCEPT ![cur] = @ \union {version[cur] + 1}]
  /\ UNCHANGED <<mapVars, cur, req, slaveVars, faults, restarts>>

(* It fails, and GH_ModbusMap_ReportTimeout marks the slave stale.         *)
ReportTimeout ==
  /\ pc = "read"
  /\ StoreStatus(cur, STALE)
  /\ pc' = "request"
  /\ UNCHANGED <<sens, version, setpointRegs, cur, k, req, slaveVars, samples,
                 faults, restarts>>

(* Seeded bug: DATA_VERSION goes up with the first sensor, not last.       *)
UpdateSensorAfterBump ==
  /\ pc = "sensors"
  /\ StoreSensor(cur, k, IF k = 1 THEN version[cur] + 1 ELSE version[cur])
  /\ IF k = 1 THEN bump_data_version(cur) ELSE UNCHANGED version
  /\ k' = k + 1
  /\ pc' = IF k = NumSensors THEN "status" ELSE pc
  /\ UNCHANGED <<status, setpointRegs, cur, req, slaveVars, samples,
                 faults, restarts>>

(* GH_ModbusMap_UpdateTelemetry: the sensors in ascending order ...        *)
UpdateSensor ==
  /\ pc = "sensors"
  /\ StoreSensor(cur, k, version[cur] + 1)
  /\ k' = k + 1
  /\ pc' = IF k = NumSensors THEN "status" ELSE pc
  /\ UNCHANGED <<status, version, setpointRegs, cur, req, slaveVars, samples,
                 faults, restarts>>

(* ... then the status ...                                                 *)
UpdateStatus ==
  /\ pc = "status"
  /\ StoreStatus(cur, ONLINE)
  /\ pc' = "bump"
  /\ UNCHANGED <<sens, version, setpointRegs, cur, k, req, slaveVars, samples,
                 faults, restarts>>

(* ... and last DATA_VERSION.                                              *)
PublishTelemetry ==
  /\ pc = "bump"
  /\ bump_data_version(cur)
  /\ pc' = "request"
  /\ UNCHANGED <<sens, status, setpointRegs, cur, k, req, slaveVars, samples,
                 faults, restarts>>

-----------------------------------------------------------------------------
(* GH_ModbusMap_GetApplyRequest loads the trigger first.  LAST_APPLIED is  *)
(* stored by this task only, so comparing it is part of the same step.     *)
GetTrigger ==
  /\ pc = "request"
  /\ \/ /\ trigger[cur] = applied[cur]
        /\ NextSlave
        /\ UNCHANGED req
     \/ /\ trigger[cur] # applied[cur]
        /\ req' = [req EXCEPT !.trigger = trigger[cur]]
        /\ pc' = "snapshot"
        /\ k' = 1
        /\ UNCHANGED cur
  /\ UNCHANGED <<mapVars, slaveVars, samples, faults, restarts>>

(* Seeded bug: the trigger handed out is the one in the map after the copy. *)
CopySetpointThenTrigger ==
  /\ pc = "snapshot"
  /\ req' = [req EXCEPT !.sp[k] = setp[cur][k],
                        !.trigger = IF k = NumSetpoints THEN trigger[cur] ELSE @]
  /\ IF k = NumSetpoints
       THEN pc' = "write" /\ k' = 1 /\ lost' = [lost EXCEPT ![cur] = FALSE]
       ELSE pc' = pc /\ k' = k + 1 /\ UNCHANGED lost
  /\ UNCHANGED <<mapVars, cur, slaveSp, active, samples, faults, restarts>>

(* Then it copies the setpoints, one load each.                            *)
CopySetpoint ==
  /\ pc = "snapshot"
  /\ req' = [req EXCEPT !.sp[k] = setp[cur][k]]
  /\ IF k = NumSetpoints
       THEN pc' = "write" /\ k' = 1 /\ lost' = [lost EXCEPT ![cur] = FALSE]
       ELSE pc' = pc /\ k' = k + 1 /\ UNCHANGED lost
  /\ UNCHANGED <<mapVars, cur, slaveSp, active, samples, faults, restarts>>

(* What slave s does with the j-th write of a request: it stores a control *)
(* register, or (the last write, APPLY_CMD) acts on what it has stored.    *)
SlaveTakes(s, j) ==
  IF j <= NumSetpoints
    THEN /\ slaveSp' = [slaveSp EXCEPT ![s][j] = req.sp[j]]
         /\ UNCHANGED active
    ELSE /\ active' = [active EXCEPT ![s] =
                          [trigger |-> req.trigger, sp |-> slaveSp[s]]]
         /\ UNCHANGED slaveSp

(* modbus_write_single_holding_register succeeds.                          *)
WriteOk ==
  /\ pc = "write"
  /\ cur \notin Dead
  /\ SlaveTakes(cur, k)
  /\ k' = k + 1
  /\ pc' = IF k = NumSetpoints + 1 THEN "mark" ELSE pc
  /\ UNCHANGED <<mapVars, cur, req, lost, samples, faults, restarts>>

(* Seeded bug: MarkApplyResult acknowledges whatever apply_ok says.        *)
FailedButMarked ==
  /\ pc' = "mark"
  /\ UNCHANGED <<cur, k>>

(* Seeded bug: a slave that fails ends the cycle.                          *)
FailedSoBreak ==
  /\ pc' = "read"
  /\ cur' = 1
  /\ k' = 1

(* Seeded bug: a failed write is not remembered in apply_ok.               *)
FailedButWritesOn ==
  /\ pc' = IF k = NumSetpoints + 1 THEN "mark" ELSE pc
  /\ k' = k + 1
  /\ UNCHANGED cur

(* apply_ok is FALSE: the rest of the writes is skipped, MarkApplyResult   *)
(* does nothing, and the request stays pending for the next cycle.         *)
ApplyFailed == NextSlave

(* The write fails, the slave having acted on it (the response was lost)   *)
(* or not.                                                                 *)
WriteFails ==
  /\ pc = "write"
  /\ \/ /\ cur \in Dead
        /\ UNCHANGED <<slaveSp, active, faults>>
     \/ /\ cur \notin Dead
        /\ faults < MaxFaults
        /\ faults' = faults + 1
        /\ \/ UNCHANGED <<slaveSp, active>>
           \/ SlaveTakes(cur, k)
  /\ ApplyFailed
  /\ UNCHANGED <<mapVars, req, lost, samples, restarts>>

(* GH_ModbusMap_MarkApplyResult after six good writes: LAST_APPLIED ...    *)
MarkApplyResult ==
  /\ pc = "mark"
  /\ StoreLastApplied(cur, req.trigger)
  /\ pc' = "bumpApplied"
  /\ UNCHANGED <<telemetryRegs, setp, trigger, cur, k, req, slaveVars, samples,
                 faults, restarts>>

(* ... and then DATA_VERSION.                                              *)
PublishApplied ==
  /\ pc = "bumpApplied"
  /\ bump_data_version(cur)
  /\ NextSlave
  /\ UNCHANGED <<sens, status, setpointRegs, req, slaveVars, samples, faults,
                 restarts>>

MasterStep ==
  \/ ReadTelemetry \/ ReportTimeout
  \/ UpdateSensor \/ UpdateStatus \/ PublishTelemetry
  \/ GetTrigger \/ CopySetpoint
  \/ WriteOk \/ WriteFails
  \/ MarkApplyResult \/ PublishApplied

-----------------------------------------------------------------------------
(* Environment: a slave restarts and comes up with its own defaults.       *)
SlaveRestart(s) ==
  /\ restarts < MaxRestarts
  /\ s \notin Dead
  /\ restarts' = restarts + 1
  /\ slaveSp' = [slaveSp EXCEPT ![s] = [i \in Setpoints |-> 0]]
  /\ active' = [active EXCEPT ![s] = NoRequest]
  /\ lost' = [lost EXCEPT ![s] = TRUE]
  /\ UNCHANGED <<mapVars, masterVars, samples, faults>>

=============================================================================
