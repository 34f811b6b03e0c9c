------------------------------ MODULE TcpServer ------------------------------
(***************************************************************************)
(* The request processing of the Modbus TCP task (StartTaskModbusSlave and *)
(* process_FC3, process_FC6, process_FC16 of Modbus.c) on the register map *)
(* it shares with the RTU master task.                                     *)
(*                                                                         *)
(* The task serves one connection and one request at a time.  It takes a   *)
(* semaphore around the processing, which no other task takes, so its      *)
(* loads and stores interleave with the master's one by one.  FC3 builds   *)
(* the reply from two loads of each register, one for each byte.           *)
(*                                                                         *)
(* The requests modelled are the three documented operations, on the       *)
(* ranges a client of the apply protocol uses: FC16 on the setpoints of a  *)
(* block, FC6 on its APPLY_TRIGGER, FC3 on the whole block.                *)
(***************************************************************************)
EXTENDS ModbusMap

VARIABLES
  tcp,    \* the request in process: function, block, position, value
  reply,  \* the part of an FC3 reply built so far
  dirty   \* history: dirty[s], a setpoint of s was stored and no trigger since

tcpVars == <<tcp, reply, dirty>>

Idle == [fc |-> "idle", slave |-> 1, pos |-> 1, val |-> 0]
NoReply == [sens |-> [b \in 1 .. 2 * NumSensors |-> 0], version |-> 0, applied |-> 0]

TcpRequest == [fc : {"idle", "FC3", "FC6", "FC16"}, slave : Slaves, pos : Nat, val : Nat]
Reply == [sens : [1 .. 2 * NumSensors -> Nat], version : Nat, applied : Nat]

TcpTypeOK ==
  /\ tcp \in TcpRequest
  /\ reply \in Reply
  /\ dirty \in [Slaves -> BOOLEAN]

TcpInit ==
  /\ tcp = Idle
  /\ reply = NoReply
  /\ dirty = [s \in Slaves |-> TRUE]

TcpReset ==
  /\ tcp' = Idle
  /\ reply' = NoReply
  /\ dirty' = [s \in Slaves |-> TRUE]

(* TCPwaitConnData and validateRequest pass a request on.                  *)
Receive(fc, s, v) ==
  /\ tcp.fc = "idle"
  /\ tcp' = [fc |-> fc, slave |-> s, pos |-> 1, val |-> v]
  /\ reply' = NoReply

(* process_FC16 stores the registers of the range in ascending order.      *)
process_FC16 ==
  /\ tcp.fc = "FC16"
  /\ StoreSetpoint(tcp.slave, tcp.pos, tcp.val)
  /\ dirty' = [dirty EXCEPT ![tcp.slave] = TRUE]
  /\ tcp' = IF tcp.pos = NumSetpoints THEN Idle ELSE [tcp EXCEPT !.pos = @ + 1]
  /\ UNCHANGED <<telemetryRegs, trigger, applied, reply>>

(* process_FC6 stores one register.                                        *)
process_FC6 ==
  /\ tcp.fc = "FC6"
  /\ StoreTrigger(tcp.slave, tcp.val)
  /\ dirty' = [dirty EXCEPT ![tcp.slave] = FALSE]
  /\ tcp' = Idle
  /\ UNCHANGED <<telemetryRegs, setp, applied, reply>>

(* process_FC3 loads the registers in ascending order, each of them twice. *)
(* The version and the trigger last applied stay below 256 in the model,   *)
(* so the load of their high byte shows nothing and is left out.           *)
process_FC3 ==
  /\ tcp.fc = "FC3"
  /\ LET s == tcp.slave
         bytes == 2 * NumSensors
     IN  \/ /\ tcp.pos <= bytes
            /\ reply' = [reply EXCEPT !.sens[tcp.pos] = sens[s][(tcp.pos + 1) \div 2]]
         \/ /\ tcp.pos = bytes + 1
            /\ reply' = [reply EXCEPT !.version = version[s]]
         \/ /\ tcp.pos = bytes + 2
            /\ reply' = [reply EXCEPT !.applied = applied[s]]
  /\ tcp' = [tcp EXCEPT !.pos = @ + 1]
  /\ UNCHANGED <<mapVars, dirty>>

Processing == process_FC16 \/ process_FC6 \/ process_FC3

=============================================================================
