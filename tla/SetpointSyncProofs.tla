-------------------------- MODULE SetpointSyncProofs --------------------------
(***************************************************************************)
(* Proofs about SetpointSync, for any number of slaves, sensors and        *)
(* setpoints, any client, and any values of the bounds.                    *)
(***************************************************************************)
EXTENDS SetpointSync, TLAPS

TypeInv == TypeOK /\ PositionOK

(* The initial state is well typed.                                        *)
LEMMA TypeInit == Init => TypeInv
  <1> SUFFICES ASSUME Init PROVE TypeInv
    OBVIOUS
  <1>1. 1 \in Slaves
    BY MapAssumption DEF Slaves
  <1>2. MapTypeOK
    BY DEF Init, MapInit, MapTypeOK
  <1>3. RtuTypeOK /\ pc = "read"
    BY <1>1 DEF Init, MasterInit, SlavesInit, RtuTypeOK, PCs, Request, NoRequest
  <1>4. TcpTypeOK /\ tcp.pos = 1
    BY <1>1 DEF Init, TcpInit, TcpTypeOK, TcpRequest, Idle, Reply, NoReply
  <1>5. ClientTypeOK
    BY DEF Init, ClientTypeOK, Reply, NoReply
  <1>. QED  BY <1>2, <1>3, <1>4, <1>5 DEF TypeInv, TypeOK, PositionOK

(* What a step of the master task does not touch keeps its type.           *)
LEMMA MasterFrame ==
  ASSUME TypeInv, Master
  PROVE  ClientTypeOK' /\ TcpTypeOK' /\ tcp' = tcp
  <1> USE DEF TypeInv, TypeOK
  <1>1. tcp' = tcp /\ reply' = reply /\ dirty' = dirty
    BY DEF Master, tcpVars
  <1>2. acks' \in [Slaves -> SUBSET (Nat \X Nat)]
    <2>1. acks \in [Slaves -> SUBSET (Nat \X Nat)] /\ cur \in Slaves
          /\ <<version[cur] + 1, req.trigger>> \in Nat \X Nat
      BY DEF ClientTypeOK, RtuTypeOK, MapTypeOK, Request
    <2>. QED  BY <2>1 DEF Master
  <1>3. ClientTypeOK'
    BY <1>2 DEF Master, ClientTypeOK
  <1>. QED  BY <1>1, <1>3 DEF TcpTypeOK

(* A store to a register of a block keeps the map typed.                   *)
LEMMA StoreTypes ==
  ASSUME MapTypeOK, NEW s \in Slaves, NEW v \in Nat, NEW i
  PROVE  /\ [sens EXCEPT ![s][i] = v] \in [Slaves -> [Sensors -> Nat]]
         /\ [setp EXCEPT ![s][i] = v] \in [Slaves -> [Setpoints -> Nat]]
         /\ [version EXCEPT ![s] = v] \in [Slaves -> Nat]
         /\ [trigger EXCEPT ![s] = v] \in [Slaves -> Nat]
         /\ [applied EXCEPT ![s] = v] \in [Slaves -> Nat]
         /\ version[s] + 1 \in Nat
  <1>1. /\ [sens[s] EXCEPT ![i] = v] \in [Sensors -> Nat]
        /\ [setp[s] EXCEPT ![i] = v] \in [Setpoints -> Nat]
    BY DEF MapTypeOK
  <1>2. version[s] \in Nat
    BY DEF MapTypeOK
  <1>. QED  BY <1>1, <1>2 DEF MapTypeOK

(* Every step of the master task keeps the map typed ...                   *)
LEMMA MasterMapType ==
  ASSUME TypeInv, MasterStep
  PROVE  MapTypeOK'
  <1>1. /\ MapTypeOK /\ cur \in Slaves
        /\ version[cur] + 1 \in Nat /\ req.trigger \in Nat
    BY StoreTypes DEF TypeInv, TypeOK, RtuTypeOK, MapTypeOK, Request
  <1>2. CASE UNCHANGED mapVars
    BY <1>1, <1>2 DEF mapVars, MapTypeOK
  <1>3. CASE ReportTimeout \/ UpdateStatus
    BY <1>1, <1>3 DEF ReportTimeout, UpdateStatus, StoreStatus, MapTypeOK, setpointRegs
  <1>4. CASE UpdateSensor
    <2>1. sens' \in [Slaves -> [Sensors -> Nat]]
      BY <1>1, <1>4, StoreTypes DEF UpdateSensor, StoreSensor
    <2>. QED  BY <1>1, <1>4, <2>1 DEF UpdateSensor, MapTypeOK, setpointRegs
  <1>5. CASE PublishTelemetry \/ PublishApplied
    <2>1. version' \in [Slaves -> Nat]
      BY <1>1, <1>5 DEF PublishTelemetry, PublishApplied, bump_data_version, MapTypeOK
    <2>. QED  BY <1>1, <1>5, <2>1
                 DEF PublishTelemetry, PublishApplied, MapTypeOK, setpointRegs
  <1>6. CASE MarkApplyResult
    <2>1. applied' \in [Slaves -> Nat]
      BY <1>1, <1>6, StoreTypes DEF MarkApplyResult, StoreLastApplied
    <2>. QED  BY <1>1, <1>6, <2>1 DEF MarkApplyResult, MapTypeOK, telemetryRegs
  <1>7. ReadTelemetry \/ GetTrigger \/ CopySetpoint \/ WriteOk \/ WriteFails
          => UNCHANGED mapVars
    BY DEF ReadTelemetry, GetTrigger, CopySetpoint, WriteOk, WriteFails
  <1>. QED  BY <1>2, <1>3, <1>4, <1>5, <1>6, <1>7 DEF MasterStep

(* ... what a slave stores keeps it typed ...                              *)
LEMMA SlaveTakesTypes ==
  ASSUME TypeInv, pc = "write", SlaveTakes(cur, k)
  PROVE  /\ slaveSp' \in [Slaves -> [Setpoints -> Nat]]
         /\ active' \in [Slaves -> Request]
  <1>1. /\ cur \in Slaves /\ k \in 1 .. NumSetpoints + 1
        /\ req \in Request /\ NumSetpoints \in Nat
        /\ slaveSp \in [Slaves -> [Setpoints -> Nat]]
        /\ active \in [Slaves -> Request]
    BY MapAssumption DEF TypeInv, TypeOK, RtuTypeOK, PositionOK
  <1>2. CASE k <= NumSetpoints
    <2>1. k \in Setpoints /\ req.sp[k] \in Nat
      BY <1>1, <1>2 DEF Request, Setpoints
    <2>2. [slaveSp[cur] EXCEPT ![k] = req.sp[k]] \in [Setpoints -> Nat]
      BY <1>1, <2>1
    <2>. QED  BY <1>1, <1>2, <2>2 DEF SlaveTakes
  <1>3. CASE ~(k <= NumSetpoints)
    <2>1. [trigger |-> req.trigger, sp |-> slaveSp[cur]] \in Request
      BY <1>1 DEF Request
    <2>. QED  BY <1>1, <1>3, <2>1 DEF SlaveTakes
  <1>. QED  BY <1>2, <1>3

(* ... and so are the variables of the task and its copy of the request.   *)
LEMMA MasterRtuType ==
  ASSUME TypeInv, MasterStep
  PROVE  /\ RtuTypeOK'
         /\ pc' = "snapshot" => k' \in Setpoints
         /\ pc' = "write" => k' \in 1 .. NumSetpoints + 1
  <1>1. /\ MapTypeOK /\ RtuTypeOK
        /\ NumSetpoints \in Nat /\ NumSetpoints >= 1
        /\ 1 \in Setpoints
        /\ pc = "snapshot" => k \in Setpoints
        /\ pc = "write" => k \in 1 .. NumSetpoints + 1
    BY MapAssumption DEF TypeInv, TypeOK, PositionOK, Setpoints
  <1>2. NextSlave => cur' \in Slaves /\ k' = 1 /\ pc' = "read"
    BY <1>1, MapAssumption DEF NextSlave, RtuTypeOK, Slaves
  <1>3. CASE ReadTelemetry
    <2>1. samples' \in [Slaves -> SUBSET Nat]
      <3>1. cur \in Slaves /\ samples[cur] \union {version[cur] + 1} \in SUBSET Nat
        BY <1>1 DEF RtuTypeOK, MapTypeOK
      <3>. QED  BY <1>1, <1>3, <3>1 DEF ReadTelemetry, RtuTypeOK
    <2>. QED  BY <1>1, <1>3, <2>1 DEF ReadTelemetry, RtuTypeOK, PCs, slaveVars
  <1>4. CASE ReportTimeout \/ UpdateStatus \/ PublishTelemetry
    BY <1>1, <1>4 DEF ReportTimeout, UpdateStatus, PublishTelemetry, RtuTypeOK, PCs,
                      slaveVars
  <1>5. CASE UpdateSensor
    BY <1>1, <1>5 DEF UpdateSensor, RtuTypeOK, PCs, slaveVars
  <1>6. CASE GetTrigger
    <2>1. req' \in Request
      BY <1>1, <1>6 DEF GetTrigger, RtuTypeOK, MapTypeOK, Request
    <2>. QED  BY <1>1, <1>2, <1>6, <2>1 DEF GetTrigger, RtuTypeOK, PCs, slaveVars
  <1>7. CASE CopySetpoint
    <2>1. req' \in Request
      <3>1. req \in Request /\ setp[cur][k] \in Nat
        BY <1>1, <1>7 DEF CopySetpoint, RtuTypeOK, MapTypeOK
      <3>2. req' = [req EXCEPT !.sp[k] = setp[cur][k]]
        BY <1>7 DEF CopySetpoint
      <3>. QED  BY <3>1, <3>2 DEF Request
    <2>2. CASE k = NumSetpoints
      <3>1. pc' = "write" /\ k' = 1 /\ lost' \in [Slaves -> BOOLEAN]
        BY <1>1, <1>7, <2>2 DEF CopySetpoint, RtuTypeOK
      <3>2. RtuTypeOK'
        BY <1>1, <1>7, <2>1, <3>1 DEF CopySetpoint, RtuTypeOK, PCs
      <3>. QED  BY <1>1, <3>1, <3>2
    <2>3. CASE k # NumSetpoints
      <3>1. k' = k + 1 /\ pc = "snapshot" /\ pc' = pc /\ lost' = lost
        BY <1>7, <2>3 DEF CopySetpoint
      <3>2. k' \in Setpoints /\ k' \in Nat
        BY <1>1, <2>3, <3>1 DEF Setpoints
      <3>3. RtuTypeOK'
        BY <1>1, <1>7, <2>1, <3>1, <3>2 DEF CopySetpoint, RtuTypeOK
      <3>. QED  BY <3>1, <3>2, <3>3
    <2>. QED  BY <2>2, <2>3
  <1>8. CASE WriteOk
    <2>1. /\ slaveSp' \in [Slaves -> [Setpoints -> Nat]]
          /\ active' \in [Slaves -> Request]
      BY <1>8, SlaveTakesTypes DEF WriteOk
    <2>2. /\ pc' \in PCs /\ k' \in Nat
          /\ pc' = "write" => k' \in 1 .. NumSetpoints + 1
          /\ pc' # "snapshot"
      BY <1>1, <1>8 DEF WriteOk, PCs
    <2>. QED  BY <1>1, <1>8, <2>1, <2>2 DEF WriteOk, RtuTypeOK
  <1>9. CASE WriteFails
    <2>1. /\ slaveSp' \in [Slaves -> [Setpoints -> Nat]]
          /\ active' \in [Slaves -> Request]
      BY <1>1, <1>9, SlaveTakesTypes DEF WriteFails, RtuTypeOK
    <2>2. faults' \in Nat
      BY <1>1, <1>9 DEF WriteFails, RtuTypeOK
    <2>3. cur' \in Slaves /\ k' = 1 /\ pc' = "read"
      BY <1>2, <1>9 DEF WriteFails, ApplyFailed
    <2>. QED  BY <1>1, <1>9, <2>1, <2>2, <2>3 DEF WriteFails, RtuTypeOK, PCs
  <1>10. CASE MarkApplyResult
    BY <1>1, <1>10 DEF MarkApplyResult, RtuTypeOK, PCs, slaveVars
  <1>11. CASE PublishApplied
    BY <1>1, <1>2, <1>11 DEF PublishApplied, RtuTypeOK, PCs, slaveVars
  <1>. QED
    BY <1>3, <1>4, <1>5, <1>6, <1>7, <1>8, <1>9, <1>10, <1>11 DEF MasterStep

(* The master task keeps everything typed.                                 *)
LEMMA MasterType ==
  ASSUME TypeInv, Master
  PROVE  TypeInv'
  <1>1. MasterStep
    BY DEF Master
  <1>2. tcp'.pos >= 1
    BY MasterFrame DEF TypeInv, PositionOK
  <1>. QED
    BY <1>1, <1>2, MasterFrame, MasterMapType, MasterRtuType
       DEF TypeInv, TypeOK, PositionOK

(* A request being received, and a reply under way, are typed.             *)
LEMMA ReceiveTypes ==
  ASSUME TcpTypeOK, NEW fc \in {"FC3", "FC6", "FC16"}, NEW s \in Slaves, NEW v \in Nat,
         Receive(fc, s, v), dirty' = dirty
  PROVE  TcpTypeOK' /\ tcp'.pos >= 1
  BY DEF TcpTypeOK, Receive, TcpRequest, NoReply, Reply

(* One load of process_FC3 extends the reply.                              *)
LEMMA ReplyTypes ==
  ASSUME TypeInv, process_FC3
  PROVE  TcpTypeOK' /\ tcp'.pos >= 1
  <1>1. /\ tcp \in TcpRequest /\ tcp.slave \in Slaves
        /\ tcp.pos \in Nat /\ tcp.pos >= 1
        /\ reply \in Reply /\ dirty \in [Slaves -> BOOLEAN]
        /\ NumSensors \in Nat /\ MapTypeOK
    BY MapAssumption DEF TypeInv, TypeOK, TcpTypeOK, TcpRequest, PositionOK
  <1>2. tcp' \in TcpRequest /\ tcp'.pos >= 1
    BY <1>1 DEF process_FC3, TcpRequest
  <1>3. CASE tcp.pos <= 2 * NumSensors
             /\ reply' = [reply EXCEPT !.sens[tcp.pos] =
                            sens[tcp.slave][(tcp.pos + 1) \div 2]]
    <2>1. (tcp.pos + 1) \div 2 \in Sensors
      BY <1>1, <1>3 DEF Sensors
    <2>2. sens[tcp.slave][(tcp.pos + 1) \div 2] \in Nat
      BY <1>1, <2>1 DEF MapTypeOK
    <2>3. reply' \in Reply
      BY <1>1, <1>3, <2>2 DEF Reply
    <2>. QED  BY <1>1, <1>2, <2>3 DEF process_FC3, TcpTypeOK
  <1>4. CASE reply' = [reply EXCEPT !.version = version[tcp.slave]]
    <2>1. reply' \in Reply
      BY <1>1, <1>4 DEF Reply, MapTypeOK
    <2>. QED  BY <1>1, <1>2, <2>1 DEF process_FC3, TcpTypeOK
  <1>5. CASE reply' = [reply EXCEPT !.applied = applied[tcp.slave]]
    <2>1. reply' \in Reply
      BY <1>1, <1>5 DEF Reply, MapTypeOK
    <2>. QED  BY <1>1, <1>2, <2>1 DEF process_FC3, TcpTypeOK
  <1>. QED  BY <1>3, <1>4, <1>5 DEF process_FC3

(* Variables that do not change keep their type.                           *)
LEMMA BusFrame ==
  ASSUME RtuTypeOK, UNCHANGED busVars
  PROVE  RtuTypeOK' /\ pc' = pc /\ k' = k
  BY DEF RtuTypeOK, busVars, masterVars, slaveVars

LEMMA MapFrame ==
  ASSUME MapTypeOK, UNCHANGED mapVars
  PROVE  MapTypeOK'
  BY DEF MapTypeOK, mapVars

LEMMA ClientFrame ==
  ASSUME ClientTypeOK, UNCHANGED clientVars
  PROVE  ClientTypeOK'
  BY DEF ClientTypeOK, clientVars

LEMMA TcpFrame ==
  ASSUME TcpTypeOK, UNCHANGED tcpVars
  PROVE  TcpTypeOK' /\ tcp' = tcp
  BY DEF TcpTypeOK, tcpVars

(* Every step of the TCP task keeps its variables and the map typed.       *)
LEMMA TcpTypes ==
  ASSUME TypeInv, Tcp
  PROVE  TypeInv'
  <1>1. /\ MapTypeOK /\ RtuTypeOK /\ TcpTypeOK /\ ClientTypeOK /\ PositionOK
        /\ tcp \in TcpRequest /\ tcp.slave \in Slaves /\ tcp.val \in Nat
        /\ Idle \in TcpRequest /\ Idle.pos = 1
    BY MapAssumption
       DEF TypeInv, TypeOK, TcpTypeOK, TcpRequest, Idle, Slaves
  <1>2. SUFFICES MapTypeOK' /\ RtuTypeOK' /\ TcpTypeOK' /\ ClientTypeOK'
                 /\ pc' = pc /\ k' = k /\ tcp'.pos >= 1
    BY <1>1 DEF TypeInv, TypeOK, PositionOK
  <1>3. CASE Processing /\ UNCHANGED <<busVars, clientVars>>
    <2>1. RtuTypeOK' /\ pc' = pc /\ k' = k /\ ClientTypeOK'
      BY <1>1, <1>3, BusFrame, ClientFrame
    <2>2. CASE process_FC16
      <3>1. setp' \in [Slaves -> [Setpoints -> Nat]]
        BY <1>1, <2>2, StoreTypes DEF process_FC16, StoreSetpoint
      <3>2. MapTypeOK'
        BY <1>1, <2>2, <3>1 DEF process_FC16, MapTypeOK, telemetryRegs
      <3>3. tcp' \in TcpRequest /\ tcp'.pos >= 1
        BY <1>1, <2>2 DEF process_FC16, TcpRequest, PositionOK
      <3>. QED  BY <1>1, <2>1, <2>2, <3>2, <3>3 DEF process_FC16, TcpTypeOK
    <2>3. CASE process_FC6
      <3>1. trigger' \in [Slaves -> Nat]
        BY <1>1, <2>3, StoreTypes DEF process_FC6, StoreTrigger
      <3>2. MapTypeOK'
        BY <1>1, <2>3, <3>1 DEF process_FC6, MapTypeOK, telemetryRegs
      <3>. QED  BY <1>1, <2>1, <2>3, <3>2 DEF process_FC6, TcpTypeOK
    <2>4. CASE process_FC3
      BY <1>1, <2>1, <2>4, ReplyTypes, MapFrame DEF process_FC3
    <2>. QED  BY <1>3, <2>2, <2>3, <2>4 DEF Processing
  <1>4. CASE SendReply
    <2>1. MapTypeOK' /\ RtuTypeOK' /\ pc' = pc /\ k' = k
      BY <1>1, <1>4, MapFrame, BusFrame DEF SendReply
    <2>2. TcpTypeOK' /\ tcp'.pos >= 1
      BY <1>1, <1>4 DEF SendReply, TcpTypeOK, NoReply, Reply
    <2>3. ClientTypeOK'
      BY <1>1, <1>4 DEF SendReply, ClientTypeOK, TcpTypeOK
    <2>. QED  BY <2>1, <2>2, <2>3
  <1>. QED  BY <1>3, <1>4 DEF Tcp

(* A reboot leaves everything typed.                                       *)
LEMMA RebootTypes ==
  ASSUME TypeInv, Reboot
  PROVE  TypeInv'
  <1>1. MapTypeOK'
    BY DEF Reboot, GH_ModbusMap_Init, MapTypeOK
  <1>2. RtuTypeOK' /\ pc' = "read"
    BY MapAssumption DEF Reboot, MasterReset, TypeInv, TypeOK, RtuTypeOK, PCs, Request,
                         NoRequest, slaveVars, Slaves
  <1>3. TcpTypeOK' /\ tcp'.pos = 1
    BY MapAssumption DEF Reboot, TcpReset, TcpTypeOK, TcpRequest, Idle, Reply, NoReply,
                         Slaves
  <1>4. ClientTypeOK'
    BY DEF Reboot, TypeInv, TypeOK, ClientTypeOK, Reply, NoReply
  <1>. QED  BY <1>1, <1>2, <1>3, <1>4 DEF TypeInv, TypeOK, PositionOK

(* So does every step of the client, of the slaves, and a reboot.          *)
LEMMA EnvironmentTypes ==
  ASSUME TypeInv, Environment
  PROVE  TypeInv'
  <1>1. /\ MapTypeOK /\ RtuTypeOK /\ TcpTypeOK /\ ClientTypeOK /\ PositionOK
    BY DEF TypeInv, TypeOK
  <1>2. ASSUME NEW s \in Slaves, SendSetpoints(s) PROVE TypeInv'
    <2>1. ClientTypeOK' /\ vectors + 1 \in Nat
      BY <1>1, <1>2 DEF SendSetpoints, ClientTypeOK
    <2>2. TcpTypeOK' /\ tcp'.pos >= 1
      BY <1>1, <1>2, <2>1, ReceiveTypes DEF SendSetpoints
    <2>3. MapTypeOK' /\ RtuTypeOK' /\ pc' = pc /\ k' = k
      BY <1>1, <1>2, MapFrame, BusFrame DEF SendSetpoints
    <2>. QED  BY <1>1, <2>1, <2>2, <2>3 DEF TypeInv, TypeOK, PositionOK
  <1>3. ASSUME NEW s \in Slaves, SendTrigger(s) PROVE TypeInv'
    <2>1. ClientTypeOK' /\ staged[s] \in Nat
      BY <1>1, <1>3 DEF SendTrigger, ClientTypeOK
    <2>2. TcpTypeOK' /\ tcp'.pos >= 1
      BY <1>1, <1>3, <2>1, ReceiveTypes DEF SendTrigger
    <2>3. MapTypeOK' /\ RtuTypeOK' /\ pc' = pc /\ k' = k
      BY <1>1, <1>3, MapFrame, BusFrame DEF SendTrigger
    <2>. QED  BY <1>1, <2>1, <2>2, <2>3 DEF TypeInv, TypeOK, PositionOK
  <1>4. ASSUME NEW s \in Slaves, SendRead(s) PROVE TypeInv'
    <2>1. TcpTypeOK' /\ tcp'.pos >= 1
      BY <1>1, <1>4, ReceiveTypes DEF SendRead
    <2>2. MapTypeOK' /\ RtuTypeOK' /\ ClientTypeOK' /\ pc' = pc /\ k' = k
      BY <1>1, <1>4, MapFrame, BusFrame, ClientFrame DEF SendRead
    <2>. QED  BY <1>1, <2>1, <2>2 DEF TypeInv, TypeOK, PositionOK
  <1>5. ASSUME NEW s \in Slaves, SlaveRestart(s), UNCHANGED <<tcpVars, clientVars>>
        PROVE TypeInv'
    <2>1. RtuTypeOK' /\ pc' = pc /\ k' = k
      BY <1>1, <1>5 DEF SlaveRestart, RtuTypeOK, masterVars, Request, NoRequest
    <2>2. MapTypeOK' /\ TcpTypeOK' /\ ClientTypeOK' /\ tcp' = tcp
      BY <1>1, <1>5, MapFrame, TcpFrame, ClientFrame DEF SlaveRestart
    <2>. QED  BY <1>1, <2>1, <2>2 DEF TypeInv, TypeOK, PositionOK
  <1>. QED  BY <1>2, <1>3, <1>4, <1>5, RebootTypes DEF Environment

(* A stuttering step changes no variable.                                  *)
LEMMA StutterTypes ==
  ASSUME TypeInv, UNCHANGED vars
  PROVE  TypeInv'
  <1>1. UNCHANGED mapVars /\ UNCHANGED busVars /\ UNCHANGED tcpVars
        /\ UNCHANGED clientVars
    BY DEF vars
  <1>. QED
    BY <1>1, MapFrame, BusFrame, TcpFrame, ClientFrame DEF TypeInv, TypeOK, PositionOK

(* Type correctness of the composition.                                    *)
THEOREM TypeCorrect == Spec => []TypeOK
  <1>1. Init => TypeInv
    BY TypeInit
  <1>2. TypeInv /\ [Next]_vars => TypeInv'
    BY MasterType, TcpTypes, EnvironmentTypes, StutterTypes DEF Next
  <1>3. TypeInv => TypeOK
    BY DEF TypeInv
  <1>. QED  BY <1>1, <1>2, <1>3, PTL DEF Spec

-----------------------------------------------------------------------------
(***************************************************************************)
(* AppliedMeansInSync and AckIsTrue.                                       *)
(*                                                                         *)
(* Why they hold: a request in process carries a trigger later than the    *)
(* one acknowledged and not later than the one in the map.  As long as the *)
(* trigger in the map is still that of the request and no setpoint was     *)
(* stored since, the copy the master took, and then the slave, equal the   *)
(* block; and a store that breaks this leaves the trigger or `dirty'       *)
(* different, so that nothing is claimed of the block when the request is  *)
(* acknowledged.                                                           *)
(***************************************************************************)
Safe ==
  /\ TriggersAreFresh
  /\ RequestIsPending
  /\ CopyIsCurrent
  /\ SlaveHasWrites
  /\ AppliedMeansInSync

(* What the arithmetic below needs of the types.                           *)
LEMMA Numbers ==
  ASSUME TypeInv
  PROVE  /\ cur \in Slaves /\ req.trigger \in Nat /\ k \in Nat /\ vectors \in Nat
         /\ \A s \in Slaves : trigger[s] \in Nat /\ applied[s] \in Nat
                              /\ staged[s] \in Nat
         /\ tcp.slave \in Slaves /\ tcp.val \in Nat
  BY DEF TypeInv, TypeOK, MapTypeOK, RtuTypeOK, TcpTypeOK, ClientTypeOK, Request,
         TcpRequest

(* A step that leaves the registers, the slaves and the client alone, and  *)
(* ends outside the processing of a request, keeps the invariant.          *)
LEMMA SafeOutside ==
  ASSUME Safe, ~Applying',
         UNCHANGED <<setp, trigger, applied, slaveSp, active, lost, tcp, dirty, vectors,
                     staged>>
  PROVE  Safe'
  BY DEF Safe, TriggersAreFresh, RequestIsPending, CopyIsCurrent, SlaveHasWrites,
         AppliedMeansInSync, Applying

(* A step that changes none of the variables of the invariant keeps it.    *)
LEMMA SafeFrame ==
  ASSUME Safe,
         UNCHANGED <<setp, trigger, applied, slaveSp, active, lost, tcp, dirty, vectors,
                     staged, pc, cur, k, req>>
  PROVE  Safe'
  BY DEF Safe, TriggersAreFresh, RequestIsPending, CopyIsCurrent, SlaveHasWrites,
         AppliedMeansInSync, Applying

(* The initial state satisfies the invariant.                              *)
LEMMA SafeInit == Init => Safe
  BY DEF Init, MapInit, MasterInit, SlavesInit, TcpInit, Idle, Safe, TriggersAreFresh,
         RequestIsPending, CopyIsCurrent, SlaveHasWrites, AppliedMeansInSync, Applying

(* GetApplyRequest takes a request up: the trigger it loads is pending.    *)
LEMMA SafeGetTrigger ==
  ASSUME TypeInv, Safe, GetTrigger, UNCHANGED <<tcp, dirty, vectors, staged>>
  PROVE  Safe'
  <1>1. UNCHANGED <<setp, trigger, applied, slaveSp, active, lost>>
    BY DEF GetTrigger, mapVars, slaveVars
  <1>2. CASE trigger[cur] = applied[cur]
    BY <1>1, <1>2, SafeOutside DEF GetTrigger, NextSlave, Applying
  <1>3. CASE trigger[cur] # applied[cur]
    <2>1. pc' = "snapshot" /\ k' = 1 /\ cur' = cur /\ req'.trigger = trigger[cur]
      BY <1>3 DEF GetTrigger, TypeInv, TypeOK, RtuTypeOK, Request
    <2>2. applied[cur] < trigger[cur]
      BY <1>3, Numbers DEF Safe, TriggersAreFresh
    <2>3. TriggersAreFresh' /\ AppliedMeansInSync'
      BY <1>1 DEF Safe, TriggersAreFresh, AppliedMeansInSync
    <2>4. RequestIsPending'
      BY <1>1, <2>1, <2>2, Numbers DEF RequestIsPending
    <2>5. CopyIsCurrent' /\ SlaveHasWrites'
      BY <2>1 DEF CopyIsCurrent, SlaveHasWrites, Setpoints
    <2>. QED  BY <2>3, <2>4, <2>5 DEF Safe
  <1>. QED  BY <1>2, <1>3

(* One load of the copy: it is what the block holds at that moment.        *)
LEMMA SafeCopySetpoint ==
  ASSUME TypeInv, Safe, CopySetpoint, UNCHANGED <<tcp, dirty, vectors, staged>>
  PROVE  Safe'
  <1>1. /\ pc = "snapshot" /\ k \in Setpoints /\ cur \in Slaves /\ req \in Request
        /\ UNCHANGED <<setp, trigger, applied, slaveSp, active, cur>>
        /\ req' = [req EXCEPT !.sp[k] = setp[cur][k]]
        /\ NumSetpoints \in Nat
    BY MapAssumption
       DEF CopySetpoint, mapVars, TypeInv, TypeOK, PositionOK, RtuTypeOK
  <1>2. /\ req'.trigger = req.trigger
        /\ \A i \in Setpoints : req'.sp[i] = IF i = k THEN setp[cur][k] ELSE req.sp[i]
    BY <1>1 DEF Request
  <1>3. applied[cur] < req.trigger /\ req.trigger <= trigger[cur]
    BY <1>1 DEF Safe, RequestIsPending, Applying
  <1>4. RequestIsPending' /\ TriggersAreFresh'
    BY <1>1, <1>2, <1>3 DEF Safe, RequestIsPending, TriggersAreFresh
  <1>5. AppliedMeansInSync'
    <2>1. trigger[cur] # applied[cur]
      BY <1>3, Numbers
    <2>2. \A s \in Slaves : s # cur => lost'[s] = lost[s]
      BY <1>1 DEF CopySetpoint, TypeInv, TypeOK, RtuTypeOK
    <2>. QED  BY <1>1, <2>1, <2>2 DEF Safe, AppliedMeansInSync
  <1>6. \A i \in Setpoints : (pc' = "snapshot" => i < k') => i <= k
    <2>1. CASE k = NumSetpoints
      BY <1>1, <2>1 DEF Setpoints
    <2>2. CASE k # NumSetpoints
      BY <1>1, <2>2 DEF CopySetpoint, Setpoints
    <2>. QED  BY <2>1, <2>2
  <1>7. CopyIsCurrent'
    <2>1. SUFFICES ASSUME trigger[cur] = req.trigger, ~dirty[cur], NEW i \in Setpoints,
                          i <= k
                   PROVE  req'.sp[i] = setp[cur][i]
      BY <1>1, <1>2, <1>6 DEF CopyIsCurrent
    <2>2. CASE i = k
      BY <1>2, <2>2
    <2>3. CASE i # k
      <3>1. i < k
        BY <1>1, <2>1, <2>3 DEF Setpoints
      <3>. QED  BY <1>1, <1>2, <2>1, <2>3, <3>1 DEF Safe, CopyIsCurrent, Applying
    <2>. QED  BY <2>2, <2>3
  <1>8. SlaveHasWrites'
    <2>1. pc' = "snapshot" \/ (pc' = "write" /\ k' = 1)
      BY <1>1 DEF CopySetpoint
    <2>. QED  BY <2>1 DEF SlaveHasWrites, Setpoints
  <1>. QED  BY <1>4, <1>5, <1>7, <1>8 DEF Safe

(* What one write of a request does to the slaves.                         *)
LEMMA SlaveTakesWrite ==
  ASSUME TypeInv, pc = "write", SlaveTakes(cur, k)
  PROVE  /\ \A s \in Slaves : s # cur => slaveSp'[s] = slaveSp[s]
         /\ \A i \in Setpoints :
              slaveSp'[cur][i] = IF i = k THEN req.sp[i] ELSE slaveSp[cur][i]
         /\ k = NumSetpoints + 1 => active'[cur].trigger = req.trigger
  <1>1. /\ cur \in Slaves /\ k \in 1 .. NumSetpoints + 1 /\ NumSetpoints \in Nat
        /\ slaveSp \in [Slaves -> [Setpoints -> Nat]]
        /\ active \in [Slaves -> Request]
    BY MapAssumption DEF TypeInv, TypeOK, RtuTypeOK, PositionOK
  <1>2. CASE k <= NumSetpoints
    BY <1>1, <1>2 DEF SlaveTakes
  <1>3. CASE ~(k <= NumSetpoints)
    <2>1. slaveSp' = slaveSp /\ \A i \in Setpoints : i # k
      BY <1>1, <1>3 DEF SlaveTakes, Setpoints
    <2>2. active'[cur].trigger = req.trigger
      BY <1>1, <1>3 DEF SlaveTakes
    <2>. QED  BY <2>1, <2>2
  <1>. QED  BY <1>2, <1>3

(* A write in progress says nothing of a block that is in sync: its        *)
(* trigger is ahead of the one acknowledged.                               *)
LEMMA WritesLeaveSync ==
  ASSUME TypeInv, Safe, pc = "write",
         \A s \in Slaves : s # cur => slaveSp'[s] = slaveSp[s],
         UNCHANGED <<setp, trigger, applied, lost, dirty>>
  PROVE  AppliedMeansInSync'
  <1>1. trigger[cur] # applied[cur]
    BY Numbers DEF Safe, RequestIsPending, Applying
  <1>. QED  BY <1>1 DEF Safe, AppliedMeansInSync

(* A write that succeeds.                                                  *)
LEMMA SafeWriteOk ==
  ASSUME TypeInv, Safe, WriteOk, UNCHANGED <<tcp, dirty, vectors, staged>>
  PROVE  Safe'
  <1>1. /\ pc = "write" /\ cur \in Slaves /\ k \in 1 .. NumSetpoints + 1
        /\ UNCHANGED <<setp, trigger, applied, lost, cur, req>>
        /\ k' = k + 1 /\ NumSetpoints \in Nat
        /\ pc' = IF k = NumSetpoints + 1 THEN "mark" ELSE pc
    BY MapAssumption DEF WriteOk, mapVars, TypeInv, TypeOK, PositionOK, RtuTypeOK
  <1>2. /\ \A s \in Slaves : s # cur => slaveSp'[s] = slaveSp[s]
        /\ \A i \in Setpoints :
              slaveSp'[cur][i] = IF i = k THEN req.sp[i] ELSE slaveSp[cur][i]
        /\ k = NumSetpoints + 1 => active'[cur].trigger = req.trigger
    BY <1>1, SlaveTakesWrite DEF WriteOk
  <1>3. AppliedMeansInSync'
    BY <1>1, <1>2, WritesLeaveSync
  <1>4. TriggersAreFresh' /\ RequestIsPending' /\ CopyIsCurrent'
    BY <1>1 DEF Safe, TriggersAreFresh, RequestIsPending, CopyIsCurrent, Applying
  <1>5. SlaveHasWrites'
    <2>1. SUFFICES ASSUME ~lost[cur]
                   PROVE  /\ \A i \in Setpoints : (pc' = "write" => i < k + 1)
                                => slaveSp'[cur][i] = req.sp[i]
                          /\ pc' = "mark" => active'[cur].trigger = req.trigger
      BY <1>1 DEF SlaveHasWrites
    <2>2. ASSUME NEW i \in Setpoints, pc' = "write" => i < k + 1, i # k
          PROVE  i < k
      BY <1>1, <2>2 DEF Setpoints
    <2>3. \A i \in Setpoints : i < k => slaveSp[cur][i] = req.sp[i]
      BY <1>1, <2>1 DEF Safe, SlaveHasWrites
    <2>. QED  BY <1>1, <1>2, <2>2, <2>3
  <1>. QED  BY <1>3, <1>4, <1>5 DEF Safe

(* A write that fails.                                                     *)
LEMMA SafeWriteFails ==
  ASSUME TypeInv, Safe, WriteFails, UNCHANGED <<tcp, dirty, vectors, staged>>
  PROVE  Safe'
  <1>1. /\ pc = "write" /\ UNCHANGED <<setp, trigger, applied, lost>>
        /\ pc' = "read"
    BY DEF WriteFails, mapVars, ApplyFailed, NextSlave
  <1>2. \A s \in Slaves : s # cur => slaveSp'[s] = slaveSp[s]
    BY <1>1, SlaveTakesWrite DEF WriteFails
  <1>3. AppliedMeansInSync'
    BY <1>1, <1>2, WritesLeaveSync
  <1>. QED
    BY <1>1, <1>3 DEF Safe, TriggersAreFresh, RequestIsPending, CopyIsCurrent,
                      SlaveHasWrites, Applying

(* The acknowledgement: if the block still has the trigger of the request  *)
(* and is not dirty, the copy equals the block, and the slave the copy.    *)
LEMMA SafeMark ==
  ASSUME TypeInv, Safe, MarkApplyResult, UNCHANGED <<tcp, dirty, vectors, staged>>
  PROVE  Safe'
  <1>1. /\ pc = "mark" /\ pc' = "bumpApplied" /\ cur \in Slaves
        /\ UNCHANGED <<setp, trigger, slaveSp, active, lost>>
        /\ applied \in [Slaves -> Nat]
        /\ applied' = [applied EXCEPT ![cur] = req.trigger]
    BY Numbers DEF MarkApplyResult, StoreLastApplied, slaveVars, TypeInv, TypeOK,
                   MapTypeOK
  <1>2. applied[cur] < req.trigger /\ req.trigger <= trigger[cur]
    BY <1>1 DEF Safe, RequestIsPending, Applying
  <1>3. TriggersAreFresh'
    BY <1>1, <1>2 DEF Safe, TriggersAreFresh
  <1>4. RequestIsPending' /\ CopyIsCurrent' /\ SlaveHasWrites'
    BY <1>1 DEF RequestIsPending, CopyIsCurrent, SlaveHasWrites, Applying
  <1>5. AppliedMeansInSync'
    <2>1. SUFFICES ASSUME NEW s \in Slaves, trigger[s] = applied'[s], ~dirty[s], ~lost[s]
                   PROVE  slaveSp[s] = setp[s]
      BY <1>1 DEF AppliedMeansInSync
    <2>2. CASE s # cur
      BY <1>1, <2>1, <2>2 DEF Safe, AppliedMeansInSync
    <2>3. CASE s = cur
      <3>1. trigger[cur] = req.trigger
        BY <1>1, <2>1, <2>3
      <3>2. \A i \in Setpoints : slaveSp[cur][i] = setp[cur][i]
        BY <1>1, <2>1, <2>3, <3>1 DEF Safe, CopyIsCurrent, SlaveHasWrites, Applying
      <3>3. slaveSp[cur] \in [Setpoints -> Nat] /\ setp[cur] \in [Setpoints -> Nat]
        BY <1>1 DEF TypeInv, TypeOK, MapTypeOK, RtuTypeOK
      <3>. QED  BY <2>3, <3>2, <3>3
    <2>. QED  BY <2>2, <2>3
  <1>. QED  BY <1>3, <1>4, <1>5 DEF Safe

(* Every step of the master task keeps the invariant.                      *)
LEMMA SafeMaster ==
  ASSUME TypeInv, Safe, Master
  PROVE  Safe'
  <1>1. UNCHANGED <<tcp, dirty, vectors, staged>> /\ MasterStep
    BY DEF Master, tcpVars
  <1>2. CASE ReadTelemetry \/ ReportTimeout \/ UpdateSensor \/ UpdateStatus
             \/ PublishTelemetry \/ PublishApplied
    <2>1. ~Applying'
      BY <1>2 DEF ReadTelemetry, ReportTimeout, UpdateSensor, UpdateStatus,
                  PublishTelemetry, PublishApplied, NextSlave, Applying
    <2>2. UNCHANGED <<setp, trigger, applied, slaveSp, active, lost>>
      BY <1>2 DEF ReadTelemetry, ReportTimeout, UpdateSensor, UpdateStatus,
                  PublishTelemetry, PublishApplied, mapVars, setpointRegs, slaveVars
    <2>. QED  BY <1>1, <2>1, <2>2, SafeOutside
  <1>. QED
    BY <1>1, <1>2, SafeGetTrigger, SafeCopySetpoint, SafeWriteOk, SafeWriteFails, SafeMark
       DEF MasterStep

(* Every step of the TCP task keeps the invariant: a setpoint stored makes *)
(* the block dirty, and a trigger stored is ahead of the request.          *)
LEMMA SafeTcp ==
  ASSUME TypeInv, Safe, Tcp
  PROVE  Safe'
  <1>1. CASE SendReply \/ (process_FC3 /\ UNCHANGED <<busVars, clientVars>>)
    <2>1. /\ UNCHANGED <<setp, trigger, applied, slaveSp, active, lost, dirty, vectors,
                         staged, pc, cur, k, req>>
          /\ tcp'.fc # "FC6"
      BY <1>1 DEF SendReply, process_FC3, mapVars, busVars, masterVars, slaveVars,
                  clientVars, Idle, TypeInv, TypeOK, TcpTypeOK, TcpRequest
    <2>. QED
      BY <2>1 DEF Safe, TriggersAreFresh, RequestIsPending, CopyIsCurrent,
                  SlaveHasWrites, AppliedMeansInSync, Applying
  <1>2. CASE process_FC16 /\ UNCHANGED <<busVars, clientVars>>
    <2>1. /\ UNCHANGED <<trigger, applied, slaveSp, active, lost, vectors, staged, pc,
                         cur, k, req>>
          /\ tcp'.fc # "FC6"
          /\ tcp.slave \in Slaves /\ cur \in Slaves
          /\ \A s \in Slaves : s # tcp.slave => setp'[s] = setp[s]
          /\ \A s \in Slaves : dirty'[s] = (dirty[s] \/ s = tcp.slave)
      BY <1>2, Numbers
         DEF process_FC16, StoreSetpoint, busVars, masterVars, slaveVars, clientVars,
             Idle, TypeInv, TypeOK, MapTypeOK, TcpTypeOK, TcpRequest
    <2>2. TriggersAreFresh' /\ RequestIsPending' /\ SlaveHasWrites'
      BY <2>1 DEF Safe, TriggersAreFresh, RequestIsPending, SlaveHasWrites, Applying
    <2>3. CopyIsCurrent'
      BY <2>1 DEF Safe, CopyIsCurrent, Applying
    <2>4. AppliedMeansInSync'
      BY <2>1 DEF Safe, AppliedMeansInSync
    <2>. QED  BY <2>2, <2>3, <2>4 DEF Safe
  <1>3. CASE process_FC6 /\ UNCHANGED <<busVars, clientVars>>
    <2>1. /\ UNCHANGED <<setp, applied, slaveSp, active, lost, vectors, staged, pc, cur,
                         k, req>>
          /\ tcp.fc = "FC6" /\ tcp'.fc # "FC6"
          /\ tcp.slave \in Slaves /\ cur \in Slaves
          /\ \A s \in Slaves :
               trigger'[s] = IF s = tcp.slave THEN tcp.val ELSE trigger[s]
          /\ \A s \in Slaves : s # tcp.slave => dirty'[s] = dirty[s]
      BY <1>3, Numbers
         DEF process_FC6, StoreTrigger, busVars, masterVars, slaveVars, clientVars,
             Idle, TypeInv, TypeOK, MapTypeOK, TcpTypeOK, TcpRequest
    <2>2. /\ tcp.val > trigger[tcp.slave] /\ tcp.val <= vectors
          /\ staged[tcp.slave] = 0
          /\ applied[tcp.slave] <= trigger[tcp.slave]
      BY <2>1 DEF Safe, TriggersAreFresh
    <2>3. TriggersAreFresh'
      <3>1. ASSUME NEW s \in Slaves
            PROVE  /\ applied[s] <= trigger'[s] /\ trigger'[s] <= vectors
                   /\ staged[s] <= vectors
                   /\ staged[s] # 0 => staged[s] > trigger'[s]
        BY <2>1, <2>2, Numbers DEF Safe, TriggersAreFresh
      <3>. QED  BY <2>1, <3>1 DEF TriggersAreFresh
    <2>4. Applying => applied[cur] < req.trigger /\ req.trigger <= trigger[cur]
      BY DEF Safe, RequestIsPending
    <2>5. RequestIsPending'
      BY <2>1, <2>2, <2>4, Numbers DEF RequestIsPending, Applying
    <2>6. SlaveHasWrites'
      BY <2>1 DEF Safe, SlaveHasWrites
    <2>7. CopyIsCurrent'
      <3>1. CASE cur = tcp.slave
        <4>1. Applying => trigger'[cur] # req.trigger
          BY <2>1, <2>2, <2>4, <3>1, Numbers
        <4>. QED  BY <2>1, <4>1 DEF CopyIsCurrent, Applying
      <3>2. CASE cur # tcp.slave
        BY <2>1, <3>2 DEF Safe, CopyIsCurrent, Applying
      <3>. QED  BY <3>1, <3>2
    <2>8. AppliedMeansInSync'
      <3>1. trigger'[tcp.slave] # applied[tcp.slave]
        BY <2>1, <2>2, Numbers
      <3>. QED  BY <2>1, <3>1 DEF Safe, AppliedMeansInSync
    <2>. QED  BY <2>3, <2>5, <2>6, <2>7, <2>8 DEF Safe
  <1>. QED  BY <1>1, <1>2, <1>3 DEF Tcp, Processing

(* Every step of the client, of a slave, and a reboot keep the invariant.  *)
LEMMA SafeEnvironment ==
  ASSUME TypeInv, Safe, Environment
  PROVE  Safe'
  <1>1. CASE Reboot
    <2>1. /\ pc' = "read" /\ tcp'.fc = "idle" /\ vectors' = vectors
          /\ \A s \in Slaves : /\ trigger'[s] = 0 /\ applied'[s] = 0 /\ dirty'[s]
                               /\ staged'[s] \in {0, staged[s]}
      BY <1>1, Numbers
         DEF Reboot, GH_ModbusMap_Init, MasterReset, TcpReset, Idle
    <2>2. TriggersAreFresh'
      BY <2>1, Numbers DEF Safe, TriggersAreFresh
    <2>. QED
      BY <2>1, <2>2 DEF Safe, RequestIsPending, CopyIsCurrent, SlaveHasWrites,
                        AppliedMeansInSync, Applying
  <1>2. ASSUME NEW s \in Slaves, SendSetpoints(s) PROVE Safe'
    <2>1. /\ UNCHANGED <<setp, trigger, applied, slaveSp, active, lost, dirty, pc, cur,
                         k, req>>
          /\ tcp'.fc = "FC16" /\ vectors' = vectors + 1
          /\ \A q \in Slaves : staged'[q] = IF q = s THEN vectors + 1 ELSE staged[q]
      BY <1>2 DEF SendSetpoints, Receive, mapVars, busVars, masterVars, slaveVars,
                  TypeInv, TypeOK, ClientTypeOK
    <2>2. TriggersAreFresh'
      <3>1. ASSUME NEW q \in Slaves
            PROVE  /\ applied[q] <= trigger[q] /\ trigger[q] <= vectors + 1
                   /\ staged'[q] <= vectors + 1
                   /\ staged'[q] # 0 => staged'[q] > trigger[q]
        BY <2>1, Numbers DEF Safe, TriggersAreFresh
      <3>. QED  BY <2>1, <3>1 DEF TriggersAreFresh
    <2>. QED
      BY <2>1, <2>2 DEF Safe, RequestIsPending, CopyIsCurrent, SlaveHasWrites,
                        AppliedMeansInSync, Applying
  <1>3. ASSUME NEW s \in Slaves, SendTrigger(s) PROVE Safe'
    <2>1. /\ UNCHANGED <<setp, trigger, applied, slaveSp, active, lost, dirty, pc, cur,
                         k, req, vectors>>
          /\ staged[s] # 0
          /\ tcp'.slave = s /\ tcp'.val = staged[s]
          /\ \A q \in Slaves : staged'[q] = IF q = s THEN 0 ELSE staged[q]
      BY <1>3 DEF SendTrigger, Receive, mapVars, busVars, masterVars, slaveVars,
                  TypeInv, TypeOK, ClientTypeOK
    <2>2. staged[s] > trigger[s] /\ staged[s] <= vectors /\ staged'[s] = 0
      BY <2>1 DEF Safe, TriggersAreFresh
    <2>3. ASSUME NEW q \in Slaves
          PROVE  /\ applied[q] <= trigger[q] /\ trigger[q] <= vectors
                 /\ staged'[q] <= vectors
                 /\ staged'[q] # 0 => staged'[q] > trigger[q]
      BY <2>1, Numbers DEF Safe, TriggersAreFresh
    <2>4. TriggersAreFresh'
      BY <2>1, <2>2, <2>3 DEF TriggersAreFresh
    <2>. QED
      BY <2>1, <2>4 DEF Safe, RequestIsPending, CopyIsCurrent, SlaveHasWrites,
                        AppliedMeansInSync, Applying
  <1>4. ASSUME NEW s \in Slaves, SendRead(s) PROVE Safe'
    <2>1. /\ UNCHANGED <<setp, trigger, applied, slaveSp, active, lost, dirty, pc, cur,
                         k, req, vectors, staged>>
          /\ tcp'.fc = "FC3"
      BY <1>4 DEF SendRead, Receive, mapVars, busVars, masterVars, slaveVars, clientVars
    <2>. QED
      BY <2>1 DEF Safe, TriggersAreFresh, RequestIsPending, CopyIsCurrent,
                  SlaveHasWrites, AppliedMeansInSync, Applying
  <1>5. ASSUME NEW s \in Slaves, SlaveRestart(s), UNCHANGED <<tcpVars, clientVars>>
        PROVE  Safe'
    <2>1. /\ UNCHANGED <<setp, trigger, applied, tcp, dirty, vectors, staged, pc, cur, k,
                         req>>
          /\ \A q \in Slaves : q # s => /\ slaveSp'[q] = slaveSp[q]
                                       /\ active'[q] = active[q]
                                       /\ lost'[q] = lost[q]
          /\ lost'[s] /\ cur \in Slaves
      BY <1>5 DEF SlaveRestart, mapVars, masterVars, tcpVars, clientVars, TypeInv,
                  TypeOK, RtuTypeOK
    <2>2. SlaveHasWrites'
      BY <2>1 DEF Safe, SlaveHasWrites
    <2>3. AppliedMeansInSync'
      BY <2>1 DEF Safe, AppliedMeansInSync
    <2>. QED
      BY <2>1, <2>2, <2>3 DEF Safe, TriggersAreFresh, RequestIsPending, CopyIsCurrent,
                              Applying
  <1>. QED  BY <1>1, <1>2, <1>3, <1>4, <1>5 DEF Environment

(* IInv is an invariant: type correctness and the invariant above.         *)
THEOREM Inductive == Spec => []IInv
  <1>1. Init => TypeInv /\ Safe
    BY TypeInit, SafeInit
  <1>2. ASSUME TypeInv, Safe, [Next]_vars PROVE TypeInv' /\ Safe'
    <2>1. TypeInv'
      BY <1>2, MasterType, TcpTypes, EnvironmentTypes, StutterTypes DEF Next
    <2>2. CASE UNCHANGED vars
      BY <1>2, <2>1, <2>2, SafeFrame
         DEF vars, mapVars, busVars, masterVars, slaveVars, tcpVars, clientVars
    <2>3. CASE Next
      BY <1>2, <2>1, <2>3, SafeMaster, SafeTcp, SafeEnvironment DEF Next
    <2>. QED  BY <1>2, <2>1, <2>2, <2>3
  <1>3. TypeInv /\ Safe => IInv
    BY DEF TypeInv, Safe, IInv
  <1>. QED  BY <1>1, <1>2, <1>3, PTL DEF Spec

(* An acknowledged request is in force at the slave.                       *)
THEOREM SyncCorrect == Spec => []AppliedMeansInSync
  <1>1. IInv => AppliedMeansInSync
    BY DEF IInv
  <1>. QED  BY <1>1, Inductive, PTL

(* LAST_APPLIED_TRIGGER is stored in two places: by MarkApplyResult, when  *)
(* the invariant says that the slave acts on the request, and by a reboot. *)
THEOREM AckCorrect == Spec => AckIsTrue
  <1>1. ASSUME IInv, [Next]_vars, NEW s \in Slaves, applied'[s] # applied[s],
               reboots' = reboots
        PROVE  /\ applied'[s] > applied[s]
               /\ lost[s] \/ active[s].trigger = applied'[s]
    <2>1. TypeInv
      BY <1>1 DEF IInv, TypeInv
    <2>2. ~Reboot
      BY <1>1, <2>1 DEF Reboot, TypeInv, TypeOK, ClientTypeOK
    <2>3. ~UNCHANGED applied
      BY <1>1
    <2>4. MarkApplyResult
      BY <1>1, <2>2, <2>3
         DEF Next, Master, MasterStep, Tcp, Processing, Environment, ReadTelemetry,
             ReportTimeout, UpdateSensor, UpdateStatus, PublishTelemetry, GetTrigger,
             CopySetpoint, WriteOk, WriteFails, PublishApplied, process_FC16,
             process_FC6, process_FC3, SendReply, SendSetpoints, SendTrigger, SendRead,
             SlaveRestart, mapVars, setpointRegs, vars
    <2>5. s = cur /\ applied'[s] = req.trigger /\ pc = "mark"
      BY <1>1, <2>1, <2>4 DEF MarkApplyResult, StoreLastApplied, TypeInv, TypeOK,
                              MapTypeOK
    <2>. QED
      BY <1>1, <2>1, <2>5, Numbers DEF IInv, RequestIsPending, SlaveHasWrites, Applying
  <1>2. IInv /\ [Next]_vars =>
          [\A s \in Slaves : applied'[s] # applied[s] =>
             \/ reboots' # reboots
             \/ /\ applied'[s] > applied[s]
                /\ lost[s] \/ active[s].trigger = applied'[s]]_vars
    BY <1>1
  <1>. QED  BY <1>2, Inductive, PTL DEF Spec, AckIsTrue

-----------------------------------------------------------------------------
(***************************************************************************)
(* Proof of VersionPromise: what DATA_VERSION tells a client that reads    *)
(* blocks.                                                                 *)
(***************************************************************************)

LEMMA MapNumbers ==
  ASSUME TypeInv
  PROVE  /\ sens \in [Slaves -> [Sensors -> Nat]] /\ version \in [Slaves -> Nat]
         /\ applied \in [Slaves -> Nat]
         /\ \A s \in Slaves : seen[s].version \in Nat
         /\ reply.version \in Nat /\ reply.applied \in Nat
         /\ reply.sens \in [1 .. 2 * NumSensors -> Nat]
         /\ samples \in [Slaves -> SUBSET Nat]
         /\ acks \in [Slaves -> SUBSET (Nat \X Nat)]
         /\ cur \in Slaves /\ k \in Nat /\ tcp.slave \in Slaves /\ tcp.pos \in Nat
  BY DEF TypeInv, TypeOK, MapTypeOK, RtuTypeOK, TcpTypeOK, ClientTypeOK, Reply, TcpRequest

LEMMA SensorRange == NumSensors \in Nat /\ NumSensors >= 1 /\ 1 \in Sensors
  BY MapAssumption DEF Sensors

(* What a step that reads and stores none of these keeps.                  *)
Watched == <<sens, version, applied, samples, acks, seen, tcp, reply, pc, cur, k>>

LEMMA VFrame == VInv /\ UNCHANGED Watched => VInv'
  BY DEF VInv, Watched, VersionsInStep, SamplesInStep, SensorsAreNew, ReplyIsNew, AcksAreApplied,
         Publishing

LEMMA VInit == Init => VInv
  <1>. SUFFICES ASSUME Init PROVE VInv
    OBVIOUS
  <1>1. tcp.fc # "FC3" /\ ~Publishing /\ pc = "read"
    BY DEF Init, TcpInit, MasterInit, Idle, Publishing
  <1>2. \A s \in Slaves : /\ seen[s].version = 0 /\ version[s] = 0 /\ samples[s] = {}
                          /\ acks[s] = {} /\ \A i \in Sensors : sens[s][i] = 0
    BY DEF Init, MapInit, MasterInit, NoReply
  <1>. QED  BY <1>1, <1>2 DEF VInv, VersionsInStep, SamplesInStep, SensorsAreNew, ReplyIsNew,
                              AcksAreApplied

-----------------------------------------------------------------------------
(* The master task.                                                        *)

(* Another step of the task, outside of a publication before and after.    *)
LEMMA VOutside ==
  ASSUME VInv, ~Publishing, ~Publishing',
         UNCHANGED <<sens, version, applied, samples, acks, seen, tcp, reply>>
  PROVE  VInv'
  BY DEF VInv, VersionsInStep, SamplesInStep, SensorsAreNew, ReplyIsNew, AcksAreApplied, Publishing

LEMMA VReadTelemetry ==
  ASSUME TypeInv, VInv, ReadTelemetry, UNCHANGED <<acks, tcpVars, seen>>
  PROVE  VInv'
  <1>1. /\ pc = "read" /\ pc' = "sensors" /\ k' = 1 /\ cur' = cur
        /\ UNCHANGED <<sens, version, applied, tcp, reply>>
        /\ \A s \in Slaves : samples'[s] =
             IF s = cur THEN samples[s] \union {version[s] + 1} ELSE samples[s]
    BY MapNumbers DEF ReadTelemetry, mapVars, tcpVars
  <1>2. VersionsInStep' /\ AcksAreApplied'
    BY <1>1 DEF VInv, VersionsInStep, AcksAreApplied
  <1>3. \A s \in Slaves : version[s] \in Nat /\ seen[s].version \in Nat
                          /\ seen[s].version <= version[s]
    BY MapNumbers DEF VInv, VersionsInStep
  <1>4. SamplesInStep'
    BY <1>1, <1>3 DEF VInv, SamplesInStep, Publishing
  <1>a. ASSUME NEW s \in Slaves, NEW t \in samples'[s], t <= version[s]
        PROVE  t \in samples[s]
    <2>1. t \in samples[s] \/ t = version[s] + 1
      BY <1>1
    <2>. QED  BY <1>3, <1>a, <2>1
  <1>5. SensorsAreNew'
    <2>1. \A s \in Slaves : \A t \in samples'[s] : t <= version[s] => t \in samples[s]
      BY <1>a
    <2>. QED  BY <1>1, <2>1, SensorRange DEF VInv, SensorsAreNew, Publishing, Sensors
  <1>6. ReplyIsNew'
    <2>1. ASSUME NEW s \in Slaves, NEW t \in samples'[s], t <= seen[s].version
          PROVE  t \in samples[s]
      <3>1. t \in samples[s] \/ t = version[s] + 1
        BY <1>1
      <3>. QED  BY <1>3, <2>1, <3>1
    <2>. QED  BY <1>1, <2>1, MapNumbers DEF VInv, ReplyIsNew
  <1>. QED  BY <1>2, <1>4, <1>5, <1>6 DEF VInv

LEMMA VUpdateSensor ==
  ASSUME TypeInv, VInv, UpdateSensor, UNCHANGED <<acks, tcpVars, seen>>
  PROVE  VInv'
  <1>1. /\ pc = "sensors" /\ pc' = (IF k = NumSensors THEN "status" ELSE "sensors")
        /\ k' = k + 1 /\ cur' = cur /\ k \in Sensors
        /\ UNCHANGED <<version, applied, tcp, reply, samples>>
        /\ \A s \in Slaves, i \in Sensors : sens'[s][i] =
             IF s = cur /\ i = k THEN version[s] + 1 ELSE sens[s][i]
    BY MapNumbers DEF UpdateSensor, StoreSensor, setpointRegs, tcpVars, VInv, SensorsAreNew
  <1>2. \A s \in Slaves : version[s] \in Nat /\ \A i \in Sensors : sens[s][i] \in Nat
    BY MapNumbers
  <1>3. SamplesInStep' /\ ReplyIsNew' /\ AcksAreApplied'
    BY <1>1 DEF VInv, SamplesInStep, ReplyIsNew, AcksAreApplied, Publishing
  <1>5. VersionsInStep'
    <2>1. ASSUME NEW s \in Slaves, NEW i \in Sensors PROVE sens'[s][i] <= version[s] + 1
      <3>1. sens[s][i] <= version[s] + 1
        BY DEF VInv, VersionsInStep
      <3>. QED  BY <1>1, <1>2, <3>1
    <2>. QED  BY <1>1, <2>1 DEF VInv, VersionsInStep
  <1>4. SensorsAreNew'
    <2>1. ASSUME NEW s \in Slaves, NEW i \in Sensors, NEW t \in samples[s], t <= version[s]
          PROVE  sens'[s][i] >= t
      <3>1. sens[s][i] >= t
        BY <2>1 DEF VInv, SensorsAreNew
      <3>2. sens'[s][i] = sens[s][i] \/ sens'[s][i] = version[s] + 1
        BY <1>1
      <3>3. t \in Nat
        BY MapNumbers
      <3>4. version[s] + 1 >= t
        BY <1>2, <2>1, <3>3
      <3>. QED  BY <3>1, <3>2, <3>4
    <2>2. pc' = "sensors" => k' \in Sensors
      BY <1>1, SensorRange DEF Sensors
    <2>3. \A i \in Sensors : (pc' = "sensors" => i < k') => sens'[cur][i] >= version[cur] + 1
      <3>. SUFFICES ASSUME NEW i \in Sensors, pc' = "sensors" => i < k', i # k
                    PROVE  sens[cur][i] >= version[cur] + 1
        <4>1. \A i \in Sensors : sens'[cur][i] = IF i = k THEN version[cur] + 1 ELSE sens[cur][i]
          BY <1>1, MapNumbers
        <4>2. version[cur] + 1 >= version[cur] + 1
          BY <1>2, MapNumbers
        <4>. QED  BY <4>1, <4>2
      <3>1. i < k
        BY <1>1, SensorRange DEF Sensors
      <3>. QED  BY <1>1, <3>1 DEF VInv, SensorsAreNew, Publishing
    <2>. QED  BY <1>1, <2>1, <2>2, <2>3 DEF SensorsAreNew
  <1>. QED  BY <1>3, <1>4, <1>5 DEF VInv

LEMMA VUpdateStatus ==
  ASSUME VInv, UpdateStatus, UNCHANGED <<acks, tcpVars, seen>>
  PROVE  VInv'
  <1>1. /\ pc = "status" /\ pc' = "bump"
        /\ UNCHANGED <<sens, version, applied, samples, tcp, reply, cur, k>>
    BY DEF UpdateStatus, setpointRegs, tcpVars
  <1>. QED  BY <1>1 DEF VInv, VersionsInStep, SamplesInStep, SensorsAreNew, ReplyIsNew,
                        AcksAreApplied, Publishing

(* A version that grows leaves every copy of it behind.                    *)
LEMMA VGrow ==
  ASSUME TypeInv, VersionsInStep, UNCHANGED <<sens, seen, tcp, reply>>,
         \A s \in Slaves : version'[s] \in {version[s], version[s] + 1}
  PROVE  VersionsInStep'
  <1>1. ASSUME NEW s \in Slaves
        PROVE  version[s] \in Nat /\ version[s] <= version'[s] /\ version'[s] \in Nat
    <2>1. version[s] \in Nat
      BY MapNumbers
    <2>2. version'[s] = version[s] \/ version'[s] = version[s] + 1
      OBVIOUS
    <2>. QED  BY <2>1, <2>2
  <1>2. ASSUME NEW s \in Slaves PROVE seen[s].version <= version'[s]
    <2>1. seen[s].version <= version[s] /\ seen[s].version \in Nat
      BY MapNumbers DEF VersionsInStep
    <2>. QED  BY <1>1, <2>1
  <1>3. ASSUME tcp.fc = "FC3" PROVE reply.version <= version'[tcp.slave]
    <2>1. reply.version <= version[tcp.slave] /\ reply.version \in Nat /\ tcp.slave \in Slaves
      BY <1>3, MapNumbers DEF VersionsInStep
    <2>. QED  BY <1>1, <2>1
  <1>4. ASSUME NEW s \in Slaves, NEW i \in Sensors PROVE sens[s][i] <= version'[s] + 1
    <2>1. sens[s][i] <= version[s] + 1 /\ sens[s][i] \in Nat
      BY MapNumbers DEF VersionsInStep
    <2>. QED  BY <1>1, <2>1
  <1>. QED  BY <1>2, <1>3, <1>4 DEF VersionsInStep

LEMMA VPublishTelemetry ==
  ASSUME TypeInv, VInv, PublishTelemetry, UNCHANGED <<acks, tcpVars, seen>>
  PROVE  VInv'
  <1>1. /\ pc = "bump" /\ pc' = "request" /\ cur' = cur
        /\ UNCHANGED <<sens, applied, samples, tcp, reply>>
        /\ \A s \in Slaves : version'[s] = IF s = cur THEN version[s] + 1 ELSE version[s]
    BY MapNumbers DEF PublishTelemetry, bump_data_version, setpointRegs, tcpVars
  <1>2. \A s \in Slaves : /\ version[s] \in Nat /\ seen[s].version \in Nat
                          /\ samples[s] \subseteq Nat
                          /\ \A i \in Sensors : sens[s][i] \in Nat
    BY MapNumbers
  <1>3. VersionsInStep'
    BY <1>1, VGrow DEF VInv, tcpVars
  <1>4. SamplesInStep'
    BY <1>1, <1>2 DEF VInv, SamplesInStep, Publishing
  <1>5. SensorsAreNew'
    <2>1. ASSUME NEW s \in Slaves, NEW i \in Sensors, NEW t \in samples[s], t <= version'[s]
          PROVE  sens[s][i] >= t
      <3>1. CASE t <= version[s]
        BY <3>1 DEF VInv, SensorsAreNew
      <3>2. CASE ~(t <= version[s])
        <4>1. s = cur /\ t = version[s] + 1
          BY <1>1, <1>2, <2>1, <3>2
        <4>. QED  BY <1>1, <4>1 DEF VInv, SensorsAreNew, Publishing
      <3>. QED  BY <3>1, <3>2
    <2>. QED  BY <1>1, <2>1 DEF SensorsAreNew, Publishing
  <1>6. ReplyIsNew' /\ AcksAreApplied'
    BY <1>1 DEF VInv, ReplyIsNew, AcksAreApplied
  <1>. QED  BY <1>3, <1>4, <1>5, <1>6 DEF VInv

LEMMA VMarkApplyResult ==
  ASSUME TypeInv, Safe, VInv, MarkApplyResult, UNCHANGED <<tcpVars, seen>>,
         acks' = [acks EXCEPT ![cur] = @ \union {<<version[cur] + 1, req.trigger>>}]
  PROVE  VInv'
  <1>1. /\ pc = "mark" /\ pc' = "bumpApplied" /\ cur' = cur
        /\ UNCHANGED <<sens, version, samples, tcp, reply>>
        /\ \A s \in Slaves : applied'[s] = IF s = cur THEN req.trigger ELSE applied[s]
        /\ \A s \in Slaves : acks'[s] =
             IF s = cur THEN acks[s] \union {<<version[s] + 1, req.trigger>>} ELSE acks[s]
    BY MapNumbers DEF MarkApplyResult, StoreLastApplied, telemetryRegs, tcpVars
  <1>2. /\ applied[cur] < req.trigger /\ req.trigger \in Nat
        /\ \A s \in Slaves : /\ applied[s] \in Nat /\ version[s] \in Nat
                             /\ \A a \in acks[s] : a[2] \in Nat
    BY <1>1, Numbers, MapNumbers DEF Safe, RequestIsPending, Applying
  <1>3. AcksAreApplied'
    <2>1. ASSUME NEW s \in Slaves, NEW a \in acks'[s] PROVE a[2] <= applied'[s]
      <3>1. CASE a \in acks[s]
        BY <1>1, <1>2, <3>1 DEF VInv, AcksAreApplied
      <3>2. CASE a \notin acks[s]
        BY <1>1, <1>2, <2>1, <3>2
      <3>. QED  BY <3>1, <3>2
    <2>. QED  BY <2>1 DEF AcksAreApplied
  <1>4. VersionsInStep' /\ SamplesInStep' /\ SensorsAreNew'
    BY <1>1 DEF VInv, VersionsInStep, SamplesInStep, SensorsAreNew, Publishing
  <1>5. ReplyIsNew'
    <2>1. ASSUME tcp.fc = "FC3", NEW a \in acks'[tcp.slave], a[1] <= reply.version
          PROVE  a \in acks[tcp.slave]
      BY <1>1, <1>2, <2>1, MapNumbers DEF VInv, VersionsInStep
    <2>. QED  BY <1>1, <2>1 DEF VInv, ReplyIsNew
  <1>. QED  BY <1>3, <1>4, <1>5 DEF VInv

LEMMA VPublishApplied ==
  ASSUME TypeInv, VInv, PublishApplied, UNCHANGED <<acks, tcpVars, seen>>
  PROVE  VInv'
  <1>1. /\ pc = "bumpApplied" /\ pc' = "read"
        /\ UNCHANGED <<sens, applied, samples, tcp, reply>>
        /\ \A s \in Slaves : version'[s] = IF s = cur THEN version[s] + 1 ELSE version[s]
    BY MapNumbers DEF PublishApplied, bump_data_version, NextSlave, setpointRegs, tcpVars
  <1>2. \A s \in Slaves : /\ version[s] \in Nat /\ seen[s].version \in Nat
                          /\ samples[s] \subseteq Nat
                          /\ \A i \in Sensors : sens[s][i] \in Nat
    BY MapNumbers
  <1>3. VersionsInStep'
    BY <1>1, VGrow DEF VInv, tcpVars
  <1>4. \A s \in Slaves : \A t \in samples[s] : t <= version[s]
    BY <1>1 DEF VInv, SamplesInStep, Publishing
  <1>5. SamplesInStep' /\ SensorsAreNew'
    BY <1>1, <1>2, <1>4 DEF VInv, SamplesInStep, SensorsAreNew, Publishing
  <1>6. ReplyIsNew' /\ AcksAreApplied'
    BY <1>1 DEF VInv, ReplyIsNew, AcksAreApplied
  <1>. QED  BY <1>3, <1>5, <1>6 DEF VInv

LEMMA VMaster ==
  ASSUME TypeInv, Safe, VInv, Master
  PROVE  VInv'
  <1>1. UNCHANGED <<tcpVars, seen>> /\ MasterStep
        /\ (pc # "mark" => acks' = acks)
        /\ (pc = "mark" => acks' = [acks EXCEPT ![cur] =
                                      @ \union {<<version[cur] + 1, req.trigger>>}])
    BY DEF Master
  <1>2. CASE ReportTimeout \/ GetTrigger \/ CopySetpoint \/ WriteOk \/ WriteFails
    <2>1. /\ ~Publishing /\ ~Publishing' /\ pc # "mark"
          /\ UNCHANGED <<sens, version, applied, samples>>
      BY <1>2 DEF ReportTimeout, GetTrigger, CopySetpoint, WriteOk, WriteFails, ApplyFailed,
                  NextSlave, Publishing, mapVars, setpointRegs
    <2>. QED  BY <1>1, <2>1, VOutside DEF tcpVars
  <1>3. CASE ReadTelemetry \/ UpdateSensor \/ UpdateStatus \/ PublishTelemetry \/ PublishApplied
    <2>1. pc # "mark"
      BY <1>3 DEF ReadTelemetry, UpdateSensor, UpdateStatus, PublishTelemetry, PublishApplied
    <2>. QED
      BY <1>1, <1>3, <2>1, VReadTelemetry, VUpdateSensor, VUpdateStatus, VPublishTelemetry,
         VPublishApplied
  <1>4. CASE MarkApplyResult
    <2>1. pc = "mark"
      BY <1>4 DEF MarkApplyResult
    <2>. QED  BY <1>1, <1>4, <2>1, VMarkApplyResult
  <1>. QED  BY <1>1, <1>2, <1>3, <1>4 DEF MasterStep

-----------------------------------------------------------------------------
(* The TCP task.                                                           *)

(* Each byte loaded is as new as what the client has seen, the version is  *)
(* the one in the map, and the acknowledgement is loaded after it.         *)
LEMMA VLoad ==
  ASSUME TypeInv, VInv, process_FC3, UNCHANGED <<busVars, clientVars>>
  PROVE  VInv'
  <1>. DEFINE q == tcp.slave
              n == 2 * NumSensors
  <1>1. /\ tcp.fc = "FC3" /\ tcp'.fc = "FC3" /\ tcp'.slave = q /\ tcp'.pos = tcp.pos + 1
        /\ UNCHANGED <<sens, version, applied, samples, acks, seen, pc, cur, k>>
        /\ q \in Slaves /\ tcp.pos \in Nat /\ n \in Nat
    BY MapNumbers, SensorRange
       DEF process_FC3, mapVars, busVars, masterVars, clientVars, TypeInv, TypeOK, TcpTypeOK,
           TcpRequest
  <1>2. SamplesInStep' /\ SensorsAreNew' /\ AcksAreApplied'
    BY <1>1 DEF VInv, SamplesInStep, SensorsAreNew, AcksAreApplied, Publishing
  <1>3. /\ version[q] \in Nat /\ seen[q].version \in Nat /\ seen[q].version <= version[q]
        /\ reply.version <= version[q] /\ samples[q] \subseteq Nat
    BY <1>1, MapNumbers DEF VInv, VersionsInStep
  <1>4. CASE tcp.pos <= n /\ reply' = [reply EXCEPT !.sens[tcp.pos] = sens[q][(tcp.pos + 1) \div 2]]
    <2>1. reply'.version = reply.version /\ reply'.applied = reply.applied
      BY <1>4, MapNumbers DEF TypeInv, TypeOK, TcpTypeOK, Reply
    <2>2. tcp.pos \in 1 .. n /\ (tcp.pos + 1) \div 2 \in Sensors
      BY <1>1, <1>4, SensorRange DEF TypeInv, PositionOK, Sensors
    <2>3. \A b \in 1 .. n : reply'.sens[b] =
            IF b = tcp.pos THEN sens[q][(tcp.pos + 1) \div 2] ELSE reply.sens[b]
      BY <1>4, <2>2, MapNumbers DEF TypeInv, TypeOK, TcpTypeOK, Reply
    <2>4. ASSUME NEW t \in samples[q], t <= seen[q].version, NEW b \in 1 .. n, b < tcp.pos + 1
          PROVE  reply'.sens[b] >= t
      <3>1. CASE b = tcp.pos
        <4>1. t <= version[q]
          BY <1>3, <2>4
        <4>. QED  BY <1>1, <2>2, <2>3, <3>1, <4>1 DEF VInv, SensorsAreNew
      <3>2. CASE b # tcp.pos
        <4>1. b < tcp.pos
          BY <1>1, <2>4, <3>2
        <4>. QED  BY <1>1, <2>3, <2>4, <3>2, <4>1 DEF VInv, ReplyIsNew
      <3>. QED  BY <3>1, <3>2
    <2>5. tcp.pos + 1 # n + 3
      BY <1>1, <1>4
    <2>. QED  BY <1>1, <1>2, <1>3, <2>1, <2>4, <2>5 DEF VInv, VersionsInStep, ReplyIsNew
  <1>5. CASE tcp.pos = n + 1 /\ reply' = [reply EXCEPT !.version = version[q]]
    <2>1. reply'.sens = reply.sens /\ reply'.version = version[q]
      BY <1>5 DEF TypeInv, TypeOK, TcpTypeOK, Reply
    <2>2. \A b \in 1 .. n : b < tcp.pos
      BY <1>1, <1>5
    <2>3. tcp.pos + 1 # n + 3
      BY <1>1, <1>5
    <2>. QED  BY <1>1, <1>2, <1>3, <2>1, <2>2, <2>3 DEF VInv, VersionsInStep, ReplyIsNew
  <1>6. CASE tcp.pos = n + 2 /\ reply' = [reply EXCEPT !.applied = applied[q]]
    <2>1. /\ reply'.sens = reply.sens /\ reply'.version = reply.version
          /\ reply'.applied = applied[q]
      BY <1>6 DEF TypeInv, TypeOK, TcpTypeOK, Reply
    <2>2. \A b \in 1 .. n : b < tcp.pos
      BY <1>1, <1>6
    <2>3. \A a \in acks[q] : reply'.applied >= a[2]
      BY <1>1, <2>1, MapNumbers DEF VInv, AcksAreApplied
    <2>. QED  BY <1>1, <1>2, <1>3, <2>1, <2>2, <2>3 DEF VInv, VersionsInStep, ReplyIsNew
  <1>. QED  BY <1>1, <1>4, <1>5, <1>6 DEF process_FC3

LEMMA VTcp ==
  ASSUME TypeInv, VInv, Tcp
  PROVE  VInv'
  <1>1. CASE process_FC3 /\ UNCHANGED <<busVars, clientVars>>
    BY <1>1, VLoad
  <1>2. CASE (process_FC16 \/ process_FC6) /\ UNCHANGED <<busVars, clientVars>>
    <2>1. /\ UNCHANGED <<sens, version, applied, samples, acks, seen, reply, pc, cur, k>>
          /\ tcp'.fc # "FC3"
      BY <1>2 DEF process_FC16, process_FC6, telemetryRegs, busVars, masterVars, clientVars, Idle,
                  TypeInv, TypeOK, TcpTypeOK, TcpRequest
    <2>. QED  BY <2>1 DEF VInv, VersionsInStep, SamplesInStep, SensorsAreNew, ReplyIsNew,
                          AcksAreApplied, Publishing
  <1>3. CASE SendReply
    <2>1. /\ UNCHANGED <<sens, version, applied, samples, acks, pc, cur, k>>
          /\ tcp.fc = "FC3" /\ tcp'.fc = "idle"
      BY <1>3 DEF SendReply, mapVars, busVars, masterVars, Idle
    <2>2. \A s \in Slaves : seen'[s].version \in {seen[s].version, reply.version}
                            /\ (s # tcp.slave => seen'[s] = seen[s])
      BY <1>3, MapNumbers DEF SendReply, TypeInv, TypeOK, ClientTypeOK
    <2>3. \A s \in Slaves : seen'[s].version <= version[s]
      BY <2>1, <2>2 DEF VInv, VersionsInStep
    <2>. QED  BY <2>1, <2>3 DEF VInv, VersionsInStep, SamplesInStep, SensorsAreNew, ReplyIsNew,
                                AcksAreApplied, Publishing
  <1>. QED  BY <1>1, <1>2, <1>3 DEF Tcp, Processing

-----------------------------------------------------------------------------
LEMMA VEnvironment ==
  ASSUME TypeInv, VInv, Environment
  PROVE  VInv'
  <1>1. CASE Reboot
    <2>1. tcp'.fc = "idle" /\ pc' = "read"
      BY <1>1 DEF Reboot, TcpReset, MasterReset, Idle
    <2>2. \A s \in Slaves : /\ seen'[s].version = 0 /\ version'[s] = 0 /\ samples'[s] = {}
                            /\ acks'[s] = {} /\ \A i \in Sensors : sens'[s][i] = 0
      BY <1>1 DEF Reboot, GH_ModbusMap_Init, MasterReset, NoReply
    <2>. QED  BY <2>1, <2>2 DEF VInv, VersionsInStep, SamplesInStep, SensorsAreNew, ReplyIsNew,
                                AcksAreApplied, Publishing
  <1>2. ASSUME NEW s \in Slaves, SendSetpoints(s) \/ SendTrigger(s) \/ SendRead(s)
        PROVE  VInv'
    <2>1. /\ UNCHANGED <<sens, version, applied, samples, acks, seen, pc, cur, k>>
          /\ tcp'.pos = 1 /\ reply' = NoReply /\ tcp'.slave \in Slaves
      BY <1>2 DEF SendSetpoints, SendTrigger, SendRead, Receive, mapVars, busVars, masterVars,
                  clientVars
    <2>2. reply'.version = 0 /\ \A q \in Slaves : version[q] \in Nat
      BY <2>1, MapNumbers DEF NoReply
    <2>3. 1 # 2 * NumSensors + 3 /\ \A b \in 1 .. 2 * NumSensors : ~(b < 1)
      BY SensorRange
    <2>. QED  BY <2>1, <2>2, <2>3 DEF VInv, VersionsInStep, SamplesInStep, SensorsAreNew,
                                      ReplyIsNew, AcksAreApplied, Publishing
  <1>3. ASSUME NEW s \in Slaves, SlaveRestart(s), UNCHANGED <<tcpVars, clientVars>>
        PROVE  VInv'
    BY <1>3, VFrame DEF SlaveRestart, mapVars, masterVars, tcpVars, clientVars, Watched
  <1>. QED  BY <1>1, <1>2, <1>3 DEF Environment

(* A client that reads blocks can rely on DATA_VERSION.                    *)
THEOREM VersionCorrect == Spec => []VersionPromise
  <1>1. ASSUME IInv, VInv, [Next]_vars PROVE VInv'
    <2>1. TypeInv /\ Safe
      BY <1>1 DEF IInv, TypeInv, Safe
    <2>2. CASE UNCHANGED vars
      BY <1>1, <2>2, VFrame DEF vars, mapVars, busVars, masterVars, tcpVars, clientVars, Watched
    <2>3. CASE Next
      BY <1>1, <2>1, <2>3, VMaster, VTcp, VEnvironment DEF Next
    <2>. QED  BY <1>1, <2>2, <2>3
  <1>2. IInv /\ VInv => VersionPromise
    <2>. SUFFICES ASSUME IInv, VInv, tcp.fc = "FC3", tcp.pos = 2 * NumSensors + 3
                  PROVE  LET s == tcp.slave IN
                         /\ \A t \in samples[s] : t <= seen[s].version =>
                              \A b \in 1 .. 2 * NumSensors : reply.sens[b] >= t
                         /\ \A a \in acks[s] : a[1] <= reply.version => reply.applied >= a[2]
      BY DEF VersionPromise
    <2>1. \A b \in 1 .. 2 * NumSensors : b < tcp.pos
      BY SensorRange
    <2>. QED  BY <2>1 DEF VInv, ReplyIsNew
  <1>. QED  BY VInit, Inductive, <1>1, <1>2, PTL DEF Spec

-----------------------------------------------------------------------------
(***************************************************************************)
(* SetpointSync implements ApplyHandshake: the initial states are mapped   *)
(* to its initial states, and every step, by the inductive invariant, to   *)
(* one of its steps or to a stutter.                                       *)
(***************************************************************************)

Observed == <<setp, dirty, trigger, applied, slaveSp, lost>>

LEMMA Stutters == UNCHANGED Observed => UNCHANGED Handshake!vars
  BY DEF Observed, Handshake!vars, Handshake!clientSide

LEMMA InitMaps == Init => Handshake!Init
  BY DEF Init, MapInit, SlavesInit, TcpInit, Handshake!Init, Handshake!Zeros

LEMMA RequestPends ==
  ASSUME TypeInv, Safe, Applying
  PROVE  cur \in Slaves /\ Handshake!Pending(cur)
  BY Numbers DEF Safe, RequestIsPending, Handshake!Pending

(* A write to the slave delivers a setpoint, or activates them.            *)
LEMMA TakesMaps ==
  ASSUME TypeInv, Safe, pc = "write", SlaveTakes(cur, k),
         UNCHANGED <<setp, dirty, trigger, applied, lost>>
  PROVE  Handshake!Deliver(cur) \/ UNCHANGED Observed
  <1>1. CASE k <= NumSetpoints
    <2>1. k \in Setpoints /\ slaveSp \in [Slaves -> [Setpoints -> Nat]] /\ cur \in Slaves
      BY <1>1, MapAssumption DEF TypeInv, TypeOK, RtuTypeOK, PositionOK, Setpoints
    <2>2. slaveSp' = [slaveSp EXCEPT ![cur][k] = slaveSp'[cur][k]]
      BY <1>1, <2>1 DEF SlaveTakes
    <2>3. Handshake!Pending(cur)
      BY RequestPends DEF Applying
    <2>. QED  BY <2>1, <2>2, <2>3 DEF Handshake!Deliver, Handshake!clientSide
  <1>2. CASE ~(k <= NumSetpoints)
    BY <1>2 DEF SlaveTakes, Observed
  <1>. QED  BY <1>1, <1>2

LEMMA MasterMaps ==
  ASSUME TypeInv, Safe, Master
  PROVE  Handshake!Next \/ UNCHANGED Observed
  <1>1. dirty' = dirty /\ MasterStep /\ cur \in Slaves
    BY Numbers DEF Master, tcpVars
  <1>2. CASE ReadTelemetry \/ ReportTimeout \/ UpdateSensor \/ UpdateStatus
             \/ PublishTelemetry \/ PublishApplied \/ GetTrigger
    BY <1>1, <1>2 DEF ReadTelemetry, ReportTimeout, UpdateSensor, UpdateStatus, PublishTelemetry,
                      PublishApplied, GetTrigger, mapVars, setpointRegs, slaveVars, Observed
  <1>3. CASE CopySetpoint
    <2>1. CASE k = NumSetpoints
      <3>1. Handshake!Pending(cur)
        BY <1>3, RequestPends DEF CopySetpoint, Applying
      <3>2. Handshake!Begin(cur)
        BY <1>1, <1>3, <2>1, <3>1 DEF CopySetpoint, mapVars, Handshake!Begin, Handshake!clientSide
      <3>. QED  BY <1>1, <3>2 DEF Handshake!Next
    <2>2. CASE k # NumSetpoints
      BY <1>1, <1>3, <2>2 DEF CopySetpoint, mapVars, Observed
    <2>. QED  BY <2>1, <2>2
  <1>4. CASE WriteOk
    <2>1. Handshake!Deliver(cur) \/ UNCHANGED Observed
      BY <1>1, <1>4, TakesMaps DEF WriteOk, mapVars
    <2>. QED  BY <1>1, <2>1 DEF Handshake!Next
  <1>5. CASE WriteFails
    <2>1. CASE UNCHANGED slaveSp
      BY <1>1, <1>5, <2>1 DEF WriteFails, mapVars, Observed
    <2>2. CASE ~UNCHANGED slaveSp
      <3>1. SlaveTakes(cur, k) /\ pc = "write" /\ UNCHANGED <<setp, trigger, applied, lost>>
        BY <1>5, <2>2 DEF WriteFails, mapVars
      <3>2. Handshake!Deliver(cur) \/ UNCHANGED Observed
        BY <1>1, <3>1, TakesMaps
      <3>. QED  BY <1>1, <3>2 DEF Handshake!Next
    <2>. QED  BY <2>1, <2>2
  <1>6. CASE MarkApplyResult
    <2>1. /\ pc = "mark" /\ UNCHANGED <<setp, trigger, slaveSp, lost>>
          /\ applied \in [Slaves -> Nat]
          /\ applied' = [applied EXCEPT ![cur] = req.trigger]
      BY <1>6 DEF MarkApplyResult, StoreLastApplied, slaveVars, TypeInv, TypeOK, MapTypeOK
    <2>2. applied[cur] < req.trigger /\ req.trigger <= trigger[cur]
      BY <2>1 DEF Safe, RequestIsPending, Applying
    <2>3. applied'[cur] = req.trigger
      BY <1>1, <2>1
    <2>4. trigger[cur] = req.trigger /\ ~dirty[cur] /\ ~lost[cur] => slaveSp[cur] = setp[cur]
      <3>. SUFFICES ASSUME trigger[cur] = req.trigger, ~dirty[cur], ~lost[cur]
                    PROVE  slaveSp[cur] = setp[cur]
        OBVIOUS
      <3>1. \A i \in Setpoints : slaveSp[cur][i] = setp[cur][i]
        BY <2>1 DEF Safe, CopyIsCurrent, SlaveHasWrites, Applying
      <3>2. slaveSp[cur] \in [Setpoints -> Nat] /\ setp[cur] \in [Setpoints -> Nat]
        BY <1>1 DEF TypeInv, TypeOK, MapTypeOK, RtuTypeOK
      <3>. QED  BY <3>1, <3>2
    <2>5. Handshake!Acknowledge(cur)
      BY <1>1, <2>1, <2>2, <2>3, <2>4 DEF Handshake!Acknowledge, Handshake!clientSide
    <2>. QED  BY <1>1, <2>5 DEF Handshake!Next
  <1>. QED  BY <1>1, <1>2, <1>3, <1>4, <1>5, <1>6 DEF MasterStep

LEMMA TcpMaps ==
  ASSUME TypeInv, Safe, Tcp
  PROVE  Handshake!Next \/ UNCHANGED Observed
  <1>1. CASE SendReply \/ (process_FC3 /\ UNCHANGED <<busVars, clientVars>>)
    BY <1>1 DEF SendReply, process_FC3, mapVars, busVars, slaveVars, Observed
  <1>2. CASE process_FC16 /\ UNCHANGED <<busVars, clientVars>>
    <2>1. /\ tcp.slave \in Slaves /\ tcp.fc = "FC16"
          /\ setp \in [Slaves -> [Setpoints -> Nat]]
      BY <1>2, Numbers DEF process_FC16, TypeInv, TypeOK, MapTypeOK
    <2>2. tcp.pos \in Setpoints \/ setp' = setp
      BY <1>2, <2>1 DEF process_FC16, StoreSetpoint
    <2>3. /\ setp' = [setp EXCEPT ![tcp.slave][tcp.pos] = tcp.val]
          /\ dirty' = [dirty EXCEPT ![tcp.slave] = TRUE]
          /\ UNCHANGED <<trigger, applied, slaveSp, lost>>
      BY <1>2 DEF process_FC16, StoreSetpoint, busVars, slaveVars
    <2>4. \E i \in Setpoints : setp' = [setp EXCEPT ![tcp.slave][i] = setp'[tcp.slave][i]]
      <3>1. CASE tcp.pos \in Setpoints
        BY <2>1, <2>3, <3>1
      <3>2. CASE setp' = setp
        <4>1. 1 \in Setpoints
          BY MapAssumption DEF Setpoints
        <4>. QED  BY <2>1, <3>2, <4>1
      <3>. QED  BY <2>2, <3>1, <3>2
    <2>5. Handshake!Write(tcp.slave)
      BY <2>3, <2>4 DEF Handshake!Write
    <2>. QED  BY <2>1, <2>5 DEF Handshake!Next
  <1>3. CASE process_FC6 /\ UNCHANGED <<busVars, clientVars>>
    <2>1. /\ tcp.slave \in Slaves /\ tcp.val > trigger[tcp.slave]
          /\ trigger \in [Slaves -> Nat]
          /\ trigger' = [trigger EXCEPT ![tcp.slave] = tcp.val]
          /\ dirty' = [dirty EXCEPT ![tcp.slave] = FALSE]
          /\ UNCHANGED <<setp, applied, slaveSp, lost>>
      BY <1>3, Numbers DEF process_FC6, StoreTrigger, busVars, slaveVars, Safe, TriggersAreFresh,
                           TypeInv, TypeOK, MapTypeOK
    <2>2. trigger'[tcp.slave] = tcp.val
      BY <2>1
    <2>3. Handshake!Ask(tcp.slave)
      BY <2>1, <2>2 DEF Handshake!Ask
    <2>. QED  BY <2>1, <2>3 DEF Handshake!Next
  <1>. QED  BY <1>1, <1>2, <1>3 DEF Tcp, Processing

LEMMA EnvironmentMaps ==
  ASSUME TypeInv, Environment
  PROVE  Handshake!Next \/ UNCHANGED Observed
  <1>1. CASE Reboot
    <2>1. Handshake!MasterRestarts
      BY <1>1 DEF Reboot, GH_ModbusMap_Init, TcpReset, slaveVars, Handshake!MasterRestarts,
                  Handshake!Zeros
    <2>. QED  BY <2>1 DEF Handshake!Next
  <1>2. ASSUME NEW s \in Slaves, SendSetpoints(s) \/ SendTrigger(s) \/ SendRead(s)
        PROVE  UNCHANGED Observed
    BY <1>2 DEF SendSetpoints, SendTrigger, SendRead, mapVars, busVars, slaveVars, Observed
  <1>3. ASSUME NEW s \in Slaves, SlaveRestart(s), UNCHANGED <<tcpVars, clientVars>>
        PROVE  Handshake!Next
    <2>1. Handshake!SlaveRestarts(s)
      BY <1>3 DEF SlaveRestart, mapVars, tcpVars, Handshake!SlaveRestarts, Handshake!clientSide
    <2>. QED  BY <1>3, <2>1 DEF Handshake!Next
  <1>. QED  BY <1>1, <1>2, <1>3 DEF Environment

(* The map, the two tasks, the bus and the slaves implement the apply      *)
(* handshake, for any number of slaves and setpoints and any faults.       *)
THEOREM HandshakeCorrect == Spec => ImplementsHandshake
  <1>1. IInv /\ [Next]_vars => [Handshake!Next]_(Handshake!vars)
    <2>. SUFFICES ASSUME IInv, [Next]_vars
                  PROVE  Handshake!Next \/ UNCHANGED Handshake!vars
      OBVIOUS
    <2>1. TypeInv /\ Safe
      BY DEF IInv, TypeInv, Safe
    <2>2. CASE UNCHANGED vars
      BY <2>2, Stutters DEF vars, mapVars, busVars, slaveVars, tcpVars, Observed
    <2>3. CASE Next
      BY <2>1, <2>3, MasterMaps, TcpMaps, EnvironmentMaps, Stutters DEF Next
    <2>. QED  BY <2>2, <2>3
  <1>. QED  BY InitMaps, Inductive, <1>1, PTL DEF Spec, ImplementsHandshake, Handshake!Spec

-----------------------------------------------------------------------------
(***************************************************************************)
(* ActivatesWholeVectors.                                                  *)
(*                                                                         *)
(* Why it holds: a request being applied has a trigger that the map does   *)
(* not show as acknowledged, so a patient client, whose replies are never  *)
(* ahead of the map, leaves the block alone, and the block is the vector   *)
(* of that trigger.  The slave stores it register by register before it is *)
(* told to act.                                                            *)
(***************************************************************************)

(* The variables PInv depends on. *)
Touched == <<setp, trigger, applied, tcp, reply, staged, want, seen, pc, cur, k, req>>

LEMMA PFrame ==
  ASSUME PInv, UNCHANGED Touched
  PROVE  PInv'
  BY DEF PInv, RepliesAreOld, WantIsKnown, TouchedAtRest, BlockIsWhole, RequestIsWhole, Vector,
         Storing, Asking, Applying, Touched

(* The registers the client's knowledge is about.                          *)
Known == <<setp, trigger, applied, tcp, reply, staged, want, seen>>

LEMMA PRequest ==
  ASSUME PInv, UNCHANGED Known, RequestIsWhole'
  PROVE  PInv'
  BY DEF PInv, RepliesAreOld, WantIsKnown, TouchedAtRest, BlockIsWhole, Vector, Storing, Asking,
         Known

(* A block with a pending request is left alone by the client.             *)
LEMMA PendingIsLeftAlone ==
  ASSUME TypeInv, PInv, NEW s \in Slaves, trigger[s] # applied[s]
  PROVE  /\ staged[s] = 0 /\ ~Asking(s) /\ ~Storing(s)
         /\ want[s] = trigger[s]
         /\ \A i \in Setpoints : setp[s][i] = trigger[s]
  <1>1. staged[s] = 0 /\ ~Asking(s)
    BY DEF PInv, TouchedAtRest
  <1>2. ~Storing(s)
    BY <1>1 DEF PInv, BlockIsWhole, Storing
  <1>3. want[s] = trigger[s]
    BY <1>1 DEF PInv, WantIsKnown
  <1>4. \A i \in Setpoints : setp[s][i] = Vector(s)
    BY <1>2 DEF PInv, BlockIsWhole
  <1>. QED  BY <1>1, <1>2, <1>3, <1>4 DEF Vector

LEMMA PInit == Init => PInv
  BY DEF Init, MapInit, MasterInit, TcpInit, Idle, NoReply, PInv, RepliesAreOld, WantIsKnown,
         TouchedAtRest, BlockIsWhole, RequestIsWhole, Vector, Storing, Asking, Applying

-----------------------------------------------------------------------------
LEMMA PGetTrigger ==
  ASSUME TypeInv, PInv, GetTrigger, UNCHANGED Known
  PROVE  PInv'
  <1>1. CASE trigger[cur] = applied[cur]
    <2>1. ~Applying'
      BY <1>1 DEF GetTrigger, NextSlave, Applying
    <2>. QED  BY <2>1, PRequest DEF RequestIsWhole
  <1>2. CASE trigger[cur] # applied[cur]
    <2>1. pc' = "snapshot" /\ k' = 1 /\ cur' = cur /\ req'.trigger = trigger[cur]
          /\ trigger' = trigger
      BY <1>2 DEF GetTrigger, mapVars, TypeInv, TypeOK, RtuTypeOK, Request
    <2>2. \A i \in Setpoints : ~(i < 1)
      BY DEF Setpoints
    <2>3. RequestIsWhole'
      BY <2>1, <2>2 DEF RequestIsWhole
    <2>. QED  BY <2>3, PRequest
  <1>. QED  BY <1>1, <1>2

LEMMA PCopySetpoint ==
  ASSUME TypeInv, Safe, PInv, CopySetpoint, UNCHANGED Known
  PROVE  PInv'
  <1>1. /\ pc = "snapshot" /\ k \in Setpoints /\ cur \in Slaves /\ req \in Request
        /\ UNCHANGED <<trigger, cur>>
        /\ req' = [req EXCEPT !.sp[k] = setp[cur][k]]
        /\ NumSetpoints \in Nat
    BY MapAssumption DEF CopySetpoint, mapVars, TypeInv, TypeOK, PositionOK, RtuTypeOK
  <1>2. /\ req'.trigger = req.trigger
        /\ \A i \in Setpoints : req'.sp[i] = IF i = k THEN setp[cur][k] ELSE req.sp[i]
    BY <1>1 DEF Request
  <1>3. trigger[cur] # applied[cur] /\ trigger[cur] = req.trigger
    BY <1>1, Numbers DEF Safe, RequestIsPending, Applying, PInv, RequestIsWhole
  <1>4. setp[cur][k] = req.trigger
    BY <1>1, <1>3, PendingIsLeftAlone
  <1>5. \A i \in Setpoints : (pc' = "snapshot" => i < k') => i = k \/ i < k
    <2>1. CASE k = NumSetpoints
      BY <1>1, <2>1 DEF Setpoints
    <2>2. CASE k # NumSetpoints
      BY <1>1, <2>2 DEF CopySetpoint, Setpoints
    <2>. QED  BY <2>1, <2>2
  <1>6. \A i \in Setpoints : i < k => req.sp[i] = req.trigger
    BY <1>1 DEF PInv, RequestIsWhole, Applying
  <1>7. RequestIsWhole'
    BY <1>1, <1>2, <1>3, <1>4, <1>5, <1>6 DEF RequestIsWhole
  <1>. QED  BY <1>7, PRequest

LEMMA PMark ==
  ASSUME TypeInv, Safe, PInv, MarkApplyResult,
         UNCHANGED <<setp, trigger, tcp, reply, staged, want, seen>>
  PROVE  PInv'
  <1>1. /\ pc = "mark" /\ pc' = "bumpApplied" /\ cur \in Slaves
        /\ \A s \in Slaves : applied'[s] = IF s = cur THEN req.trigger ELSE applied[s]
    BY Numbers DEF MarkApplyResult, StoreLastApplied, TypeInv, TypeOK, MapTypeOK
  <1>2. applied[cur] < req.trigger /\ req.trigger = trigger[cur]
    BY <1>1 DEF Safe, RequestIsPending, Applying, PInv, RequestIsWhole
  <1>3. ASSUME NEW s \in Slaves
        PROVE  applied[s] <= applied'[s] /\ seen[s].applied \in Nat
    <2>1. seen[s] \in Reply
      BY DEF TypeInv, TypeOK, ClientTypeOK
    <2>2. seen[s].applied \in Nat
      BY <2>1 DEF Reply
    <2>3. applied[s] <= applied'[s]
      BY <1>1, <1>2, Numbers
    <2>. QED  BY <2>2, <2>3
  <1>4. reply.applied \in Nat /\ tcp.slave \in Slaves
        /\ \A s \in Slaves : applied[s] \in Nat /\ applied'[s] \in Nat
    BY <1>1, Numbers DEF TypeInv, TypeOK, TcpTypeOK, Reply
  <1>5. RepliesAreOld'
    BY <1>3, <1>4 DEF PInv, RepliesAreOld
  <1>6. TouchedAtRest'
    BY <1>1, <1>2 DEF PInv, TouchedAtRest, Asking
  <1>7. WantIsKnown' /\ BlockIsWhole'
    BY DEF PInv, WantIsKnown, BlockIsWhole, Vector, Storing, Asking
  <1>8. RequestIsWhole'
    BY <1>1 DEF RequestIsWhole, Applying
  <1>. QED  BY <1>5, <1>6, <1>7, <1>8 DEF PInv

LEMMA PMaster ==
  ASSUME TypeInv, Safe, PInv, Master
  PROVE  PInv'
  <1>1. MasterStep /\ UNCHANGED <<tcp, reply, staged, want, seen>>
    BY DEF Master, tcpVars
  <1>2. CASE ReadTelemetry \/ ReportTimeout \/ UpdateSensor \/ UpdateStatus
             \/ PublishTelemetry \/ PublishApplied \/ WriteFails
    <2>1. ~Applying'
      BY <1>2 DEF ReadTelemetry, ReportTimeout, UpdateSensor, UpdateStatus,
                  PublishTelemetry, PublishApplied, WriteFails, ApplyFailed, NextSlave, Applying
    <2>2. UNCHANGED Known
      BY <1>1, <1>2 DEF ReadTelemetry, ReportTimeout, UpdateSensor, UpdateStatus,
                  PublishTelemetry, PublishApplied, WriteFails, mapVars, setpointRegs, Known
    <2>. QED  BY <2>1, <2>2, PRequest DEF RequestIsWhole
  <1>3. CASE WriteOk
    <2>1. pc = "write" /\ pc' \in {"write", "mark"} /\ UNCHANGED <<cur, req, trigger>>
          /\ UNCHANGED Known
      BY <1>1, <1>3 DEF WriteOk, mapVars, Known
    <2>2. RequestIsWhole'
      BY <2>1 DEF PInv, RequestIsWhole, Applying
    <2>. QED  BY <2>1, <2>2, PRequest
  <1>4. CASE GetTrigger
    BY <1>1, <1>4, PGetTrigger DEF GetTrigger, mapVars, Known
  <1>5. CASE CopySetpoint
    BY <1>1, <1>5, PCopySetpoint DEF CopySetpoint, mapVars, Known
  <1>6. CASE MarkApplyResult
    BY <1>1, <1>6, PMark DEF MarkApplyResult
  <1>. QED  BY <1>1, <1>2, <1>3, <1>4, <1>5, <1>6 DEF MasterStep

-----------------------------------------------------------------------------
LEMMA PStoreSetpoint ==
  ASSUME TypeInv, PInv, process_FC16, UNCHANGED <<busVars, clientVars>>
  PROVE  PInv'
  <1> DEFINE s == tcp.slave
             v == tcp.val
  <1>1. /\ s \in Slaves /\ v # 0 /\ staged[s] = v /\ tcp.fc = "FC16"
        /\ tcp.pos \in Nat
        /\ UNCHANGED <<trigger, applied, reply, staged, want, seen, pc, cur, k, req>>
        /\ \A q \in Slaves, i \in Setpoints :
             setp'[q][i] = IF q = s /\ i = tcp.pos THEN v ELSE setp[q][i]
    BY Numbers DEF process_FC16, StoreSetpoint, busVars, masterVars, clientVars, PInv,
                   BlockIsWhole, TypeInv, TypeOK, MapTypeOK, TcpTypeOK, TcpRequest
  <1>2. \/ tcp.pos = NumSetpoints /\ tcp' = Idle
        \/ tcp.pos # NumSetpoints /\ tcp' = [tcp EXCEPT !.pos = tcp.pos + 1]
    BY DEF process_FC16
  <1>3. /\ tcp'.fc \in {"idle", "FC16"}
        /\ tcp'.fc = "FC16" => tcp'.slave = s /\ tcp'.val = v /\ tcp'.pos = tcp.pos + 1
        /\ tcp'.fc = "idle" => tcp.pos = NumSetpoints
    BY <1>1, <1>2 DEF Idle, TypeInv, TypeOK, TcpTypeOK, TcpRequest
  <1>4. RepliesAreOld' /\ WantIsKnown' /\ TouchedAtRest'
    BY <1>1, <1>3 DEF PInv, RepliesAreOld, WantIsKnown, TouchedAtRest, Asking
  <1>5. ASSUME NEW q \in Slaves, NEW i \in Setpoints, Storing(q)' => i < tcp'.pos
        PROVE  setp'[q][i] = Vector(q)
    <2>1. CASE q # s
      BY <1>1, <2>1 DEF PInv, BlockIsWhole, Storing
    <2>2. CASE q = s
      <3>1. Vector(q) = v
        BY <1>1, <2>2 DEF Vector
      <3>2. i = tcp.pos \/ i < tcp.pos
        <4>1. CASE tcp'.fc = "FC16"
          BY <1>1, <1>3, <1>5, <2>2, <4>1 DEF Storing, Setpoints
        <4>2. CASE tcp'.fc = "idle"
          BY <1>1, <1>3, <4>2, MapAssumption DEF Setpoints
        <4>. QED  BY <1>3, <4>1, <4>2
      <3>3. CASE i = tcp.pos
        BY <1>1, <2>2, <3>1, <3>3
      <3>4. CASE i # tcp.pos /\ i < tcp.pos
        <4>1. setp[q][i] = Vector(q)
          BY <1>1, <2>2, <3>4 DEF PInv, BlockIsWhole, Storing
        <4>. QED  BY <1>1, <2>2, <3>4, <4>1
      <3>. QED  BY <3>2, <3>3, <3>4
    <2>. QED  BY <2>1, <2>2
  <1>6. \A q \in Slaves : Vector(q)' = Vector(q)
    BY <1>1 DEF Vector
  <1>7. BlockIsWhole'
    BY <1>1, <1>3, <1>5, <1>6 DEF BlockIsWhole
  <1>8. RequestIsWhole'
    BY <1>1 DEF PInv, RequestIsWhole, Applying
  <1>. QED  BY <1>4, <1>7, <1>8 DEF PInv

LEMMA PStoreTrigger ==
  ASSUME TypeInv, Safe, PInv, process_FC6, UNCHANGED <<busVars, clientVars>>
  PROVE  PInv'
  <1> DEFINE s == tcp.slave
  <1>1. /\ s \in Slaves /\ cur \in Slaves /\ Asking(s)
        /\ tcp'.fc = "idle"
        /\ UNCHANGED <<setp, applied, reply, staged, want, seen, pc, cur, k, req>>
        /\ \A q \in Slaves : trigger'[q] = IF q = s THEN tcp.val ELSE trigger[q]
    BY Numbers DEF process_FC6, StoreTrigger, busVars, masterVars, clientVars, Asking, Idle,
                   TypeInv, TypeOK, MapTypeOK
  <1>2. staged[s] = 0 /\ trigger[s] = applied[s]
    BY <1>1 DEF Safe, TriggersAreFresh, Asking, PInv, TouchedAtRest
  <1>3. RepliesAreOld'
    BY <1>1 DEF PInv, RepliesAreOld
  <1>4. WantIsKnown'
    BY <1>1 DEF PInv, WantIsKnown, Asking
  <1>5. TouchedAtRest'
    BY <1>1, <1>2 DEF PInv, TouchedAtRest, Asking
  <1>6. BlockIsWhole'
    BY <1>1 DEF PInv, BlockIsWhole, Vector, Storing, Asking
  <1>7. RequestIsWhole'
    <2>1. Applying => cur # s
      BY <1>1, <1>2, Numbers DEF Safe, RequestIsPending
    <2>. QED  BY <1>1, <2>1 DEF PInv, RequestIsWhole, Applying
  <1>. QED  BY <1>3, <1>4, <1>5, <1>6, <1>7 DEF PInv

LEMMA PLoad ==
  ASSUME TypeInv, PInv, process_FC3, UNCHANGED <<busVars, clientVars>>
  PROVE  PInv'
  <1>1. /\ tcp.fc = "FC3" /\ tcp'.fc = "FC3" /\ tcp'.slave = tcp.slave
        /\ UNCHANGED <<setp, trigger, applied, staged, want, seen, pc, cur, k, req>>
    BY DEF process_FC3, mapVars, busVars, masterVars, clientVars, TypeInv, TypeOK, TcpTypeOK,
           TcpRequest
  <1>2. reply'.applied \in {reply.applied, applied[tcp.slave]}
    BY DEF process_FC3, TypeInv, TypeOK, TcpTypeOK, Reply
  <1>3. applied[tcp.slave] \in Nat
    BY Numbers
  <1>4. RepliesAreOld'
    BY <1>1, <1>2, <1>3 DEF PInv, RepliesAreOld
  <1>5. WantIsKnown' /\ TouchedAtRest' /\ BlockIsWhole' /\ RequestIsWhole'
    BY <1>1 DEF PInv, WantIsKnown, TouchedAtRest, BlockIsWhole, RequestIsWhole, Vector, Storing,
                Asking, Applying
  <1>. QED  BY <1>4, <1>5 DEF PInv

LEMMA PSendReply ==
  ASSUME TypeInv, PInv, SendReply
  PROVE  PInv'
  <1>1. /\ tcp.fc = "FC3" /\ tcp'.fc = "idle"
        /\ UNCHANGED <<setp, trigger, applied, staged, want, pc, cur, k, req>>
    BY DEF SendReply, mapVars, busVars, masterVars, Idle
  <1>2. \A s \in Slaves : seen'[s] = seen[s] \/ (s = tcp.slave /\ seen'[s] = reply)
    BY DEF SendReply, TypeInv, TypeOK, ClientTypeOK
  <1>3. RepliesAreOld'
    BY <1>1, <1>2 DEF PInv, RepliesAreOld
  <1>4. WantIsKnown' /\ TouchedAtRest' /\ BlockIsWhole' /\ RequestIsWhole'
    BY <1>1 DEF PInv, WantIsKnown, TouchedAtRest, BlockIsWhole, RequestIsWhole, Vector, Storing,
                Asking, Applying
  <1>. QED  BY <1>3, <1>4 DEF PInv

LEMMA PTcp ==
  ASSUME TypeInv, Safe, PInv, Tcp
  PROVE  PInv'
  BY PStoreSetpoint, PStoreTrigger, PLoad, PSendReply DEF Tcp, Processing

-----------------------------------------------------------------------------
(* A patient client writes setpoints to a block at rest.                   *)
LEMMA PSendSetpoints ==
  ASSUME Patient, TypeInv, Safe, PInv, NEW s \in Slaves, SendSetpoints(s)
  PROVE  PInv'
  <1>1. /\ tcp.fc = "idle" /\ staged[s] = 0 /\ seen[s].applied = want[s]
        /\ tcp'.fc = "FC16" /\ tcp'.slave = s /\ tcp'.pos = 1 /\ tcp'.val = vectors + 1
        /\ UNCHANGED <<setp, trigger, applied, want, seen, pc, cur, k, req>>
        /\ \A q \in Slaves : staged'[q] = IF q = s THEN vectors + 1 ELSE staged[q]
    BY DEF SendSetpoints, Receive, mapVars, busVars, masterVars, TypeInv, TypeOK, ClientTypeOK
  <1>2. vectors + 1 # 0
    BY Numbers
  <1>3. trigger[s] = applied[s]
    <2>1. want[s] = trigger[s]
      BY <1>1 DEF PInv, WantIsKnown, Asking
    <2>2. seen[s].applied <= applied[s] /\ applied[s] <= trigger[s]
      BY DEF PInv, RepliesAreOld, Safe, TriggersAreFresh
    <2>. QED  BY <1>1, <2>1, <2>2, Numbers
  <1>4. RepliesAreOld' /\ WantIsKnown'
    BY <1>1 DEF PInv, RepliesAreOld, WantIsKnown, Asking
  <1>5. TouchedAtRest'
    BY <1>1, <1>3 DEF PInv, TouchedAtRest, Asking
  <1>6. BlockIsWhole'
    <2>1. ASSUME NEW q \in Slaves, NEW i \in Setpoints, Storing(q)' => i < tcp'.pos
          PROVE  setp[q][i] = Vector(q)'
      <3>1. q # s
        BY <1>1, <2>1 DEF Storing, Setpoints
      <3>2. Vector(q)' = Vector(q)
        BY <1>1, <3>1 DEF Vector
      <3>. QED  BY <1>1, <3>2 DEF PInv, BlockIsWhole, Storing
    <2>. QED  BY <1>1, <1>2, <2>1 DEF BlockIsWhole
  <1>7. RequestIsWhole'
    BY <1>1 DEF PInv, RequestIsWhole, Applying
  <1>. QED  BY <1>4, <1>5, <1>6, <1>7 DEF PInv

LEMMA PSendTrigger ==
  ASSUME TypeInv, PInv, NEW s \in Slaves, SendTrigger(s)
  PROVE  PInv'
  <1>1. /\ tcp.fc = "idle" /\ staged[s] # 0
        /\ tcp'.fc = "FC6" /\ tcp'.slave = s /\ tcp'.val = staged[s]
        /\ UNCHANGED <<setp, trigger, applied, seen, pc, cur, k, req>>
        /\ \A q \in Slaves : /\ staged'[q] = IF q = s THEN 0 ELSE staged[q]
                             /\ want'[q] = IF q = s THEN staged[q] ELSE want[q]
    BY DEF SendTrigger, Receive, mapVars, busVars, masterVars, TypeInv, TypeOK, ClientTypeOK
  <1>2. RepliesAreOld' /\ WantIsKnown'
    BY <1>1 DEF PInv, RepliesAreOld, WantIsKnown, Asking
  <1>3. TouchedAtRest'
    BY <1>1 DEF PInv, TouchedAtRest, Asking
  <1>4. \A q \in Slaves : Vector(q)' = Vector(q)
    BY <1>1 DEF Vector
  <1>5. BlockIsWhole'
    BY <1>1, <1>4 DEF PInv, BlockIsWhole, Storing
  <1>6. RequestIsWhole'
    BY <1>1 DEF PInv, RequestIsWhole, Applying
  <1>. QED  BY <1>2, <1>3, <1>5, <1>6 DEF PInv

LEMMA PSendRead ==
  ASSUME TypeInv, PInv, NEW s \in Slaves, SendRead(s)
  PROVE  PInv'
  <1>1. /\ tcp.fc = "idle" /\ tcp'.fc = "FC3" /\ tcp'.slave = s /\ reply'.applied = 0
        /\ UNCHANGED <<setp, trigger, applied, staged, want, seen, pc, cur, k, req>>
    BY DEF SendRead, Receive, NoReply, mapVars, busVars, masterVars, clientVars
  <1>2. applied[s] \in Nat
    BY Numbers
  <1>. QED
    BY <1>1, <1>2 DEF PInv, RepliesAreOld, WantIsKnown, TouchedAtRest, BlockIsWhole,
                      RequestIsWhole, Vector, Storing, Asking, Applying

(* A patient client starts over with the block after a reboot.             *)
LEMMA PReboot ==
  ASSUME Patient, Reboot
  PROVE  PInv'
  <1>1. /\ tcp'.fc = "idle" /\ pc' = "read"
        /\ \A s \in Slaves :
             /\ staged'[s] = 0 /\ want'[s] = 0 /\ seen'[s].applied = 0
             /\ trigger'[s] = 0 /\ applied'[s] = 0
             /\ \A i \in Setpoints : setp'[s][i] = 0
    BY DEF Reboot, GH_ModbusMap_Init, MasterReset, TcpReset, Idle, NoReply
  <1>. QED
    BY <1>1 DEF PInv, RepliesAreOld, WantIsKnown, TouchedAtRest, BlockIsWhole, RequestIsWhole,
                Vector, Storing, Asking, Applying

LEMMA PEnvironment ==
  ASSUME Patient, TypeInv, Safe, PInv, Environment
  PROVE  PInv'
  <1>1. ASSUME NEW s \in Slaves, SlaveRestart(s), UNCHANGED <<tcpVars, clientVars>>
        PROVE  PInv'
    BY <1>1, PFrame DEF SlaveRestart, mapVars, masterVars, tcpVars, clientVars, Touched
  <1>. QED
    BY <1>1, PReboot, PSendSetpoints, PSendTrigger, PSendRead DEF Environment

(* What a slave is told to act on when all the writes before were its.     *)
LEMMA ActsOnVector ==
  ASSUME IInv, PInv, pc = "write", SlaveTakes(cur, k), NEW s \in Slaves,
         active'[s] # active[s], ~lost[s], NEW i \in Setpoints
  PROVE  active'[s].sp[i] = active'[s].trigger
  <1>1. /\ cur \in Slaves /\ k \in 1 .. NumSetpoints + 1 /\ NumSetpoints \in Nat
        /\ active \in [Slaves -> Request]
    BY MapAssumption DEF IInv, TypeOK, RtuTypeOK, PositionOK
  <1>2. /\ ~(k <= NumSetpoints)
        /\ active' = [active EXCEPT ![cur] = [trigger |-> req.trigger, sp |-> slaveSp[cur]]]
    BY DEF SlaveTakes
  <1>3. s = cur /\ active'[s].trigger = req.trigger /\ active'[s].sp[i] = slaveSp[cur][i]
    BY <1>1, <1>2
  <1>4. i < k
    BY <1>1, <1>2 DEF Setpoints
  <1>5. slaveSp[cur][i] = req.sp[i]
    BY <1>3, <1>4 DEF IInv, SlaveHasWrites
  <1>6. req.sp[i] = req.trigger
    BY DEF PInv, RequestIsWhole, Applying
  <1>. QED  BY <1>3, <1>5, <1>6

(* A slave never starts to act on a mixture of vectors, or on a vector     *)
(* under another's trigger, when the client is patient.                    *)
THEOREM WholeVectorsCorrect == Patient => (Spec => ActivatesWholeVectors)
  <1>. SUFFICES ASSUME Patient PROVE Spec => ActivatesWholeVectors
    OBVIOUS
  <1>1. ASSUME IInv, PInv, [Next]_vars PROVE PInv'
    <2>1. TypeInv /\ Safe
      BY <1>1 DEF IInv, TypeInv, Safe
    <2>2. CASE UNCHANGED vars
      BY <1>1, <2>2, PFrame DEF vars, mapVars, busVars, masterVars, tcpVars, clientVars, Touched
    <2>3. CASE Next
      BY <1>1, <2>1, <2>3, PMaster, PTcp, PEnvironment DEF Next
    <2>. QED  BY <1>1, <2>2, <2>3
  <1>2. ASSUME IInv, PInv, [Next]_vars, NEW s \in Slaves, active'[s] # active[s], ~lost'[s],
               NEW i \in Setpoints
        PROVE  active'[s].sp[i] = active'[s].trigger
    <2>1. UNCHANGED active \/ WriteOk \/ WriteFails \/ \E q \in Slaves : SlaveRestart(q)
      BY <1>2
         DEF Next, Master, MasterStep, Tcp, Processing, Environment, ReadTelemetry,
             ReportTimeout, UpdateSensor, UpdateStatus, PublishTelemetry, GetTrigger,
             CopySetpoint, MarkApplyResult, PublishApplied, process_FC16, process_FC6,
             process_FC3, SendReply, SendSetpoints, SendTrigger, SendRead, Reboot, busVars,
             slaveVars, vars
    <2>2. CASE WriteOk \/ WriteFails
      <3>1. pc = "write" /\ SlaveTakes(cur, k) /\ lost' = lost
        BY <1>2, <2>2 DEF WriteOk, WriteFails
      <3>. QED  BY <1>2, <3>1, ActsOnVector
    <2>3. ~ \E q \in Slaves : SlaveRestart(q)
      <3>. SUFFICES ASSUME NEW q \in Slaves, SlaveRestart(q) PROVE FALSE
        OBVIOUS
      <3>1. active \in [Slaves -> Request] /\ lost \in [Slaves -> BOOLEAN]
        BY <1>2 DEF IInv, TypeOK, RtuTypeOK
      <3>2. s = q
        BY <1>2, <3>1 DEF SlaveRestart
      <3>. QED  BY <1>2, <3>1, <3>2 DEF SlaveRestart
    <2>. QED  BY <1>2, <2>1, <2>2, <2>3
  <1>3. IInv /\ PInv /\ [Next]_vars =>
          [\A s \in Slaves : active'[s] # active[s] /\ ~lost'[s] =>
             \A i \in Setpoints : active'[s].sp[i] = active'[s].trigger]_vars
    BY <1>2
  <1>4. IInv /\ PInv /\ [Next]_vars => PInv'
    BY <1>1
  <1>. QED  BY PInit, Inductive, <1>3, <1>4, PTL DEF Spec, ActivatesWholeVectors

=============================================================================
