---------------------------- MODULE SetpointSync ----------------------------
(***************************************************************************)
(* The composition: the RTU master task and the Modbus TCP task over the   *)
(* register map they share, the slaves on the RS485 bus, and a client of   *)
(* the TCP server (the operator's SCADA system).                           *)
(*                                                                         *)
(* The client writes a vector of setpoints to a block and then a new       *)
(* trigger, which asks the master to bring the vector to the slave.  The   *)
(* n-th vector has the value n in every register and is committed by the   *)
(* trigger n, so that a mixture of two vectors, or a vector under a wrong  *)
(* trigger, shows in the values.                                           *)
(*                                                                         *)
(* A Patient client touches the setpoints of a block only when its last    *)
(* reply showed LAST_APPLIED_TRIGGER equal to the trigger it wrote last,   *)
(* and writes the whole vector again after it lost its connection.         *)
(* Any other client writes when it likes.                                  *)
(***************************************************************************)
EXTENDS RtuMaster, TcpServer

CONSTANTS Patient,     \* whether the client waits for its last request
          MaxVectors,  \* bound: vectors written
          MaxReboots,  \* bound: reboots of the master
          Reads        \* whether the client reads blocks

ASSUME ClientAssumption == /\ Patient \in BOOLEAN
                           /\ MaxVectors \in Nat
                           /\ MaxReboots \in Nat
                           /\ Reads \in BOOLEAN

VARIABLES
  vectors,  \* vectors written so far, the name of the last one
  staged,   \* staged[s]: the vector written to s and not yet triggered, or 0
  want,     \* want[s]: the trigger the client wrote last to s
  seen,     \* seen[s]: the last reply the client got for block s
  acks,     \* history: acks[s], the versions that publish a LAST_APPLIED
  reboots

clientVars == <<vectors, staged, want, seen, acks, reboots>>
vars == <<mapVars, busVars, tcpVars, clientVars>>

ClientTypeOK ==
  /\ vectors \in Nat
  /\ staged \in [Slaves -> Nat]
  /\ want \in [Slaves -> Nat]
  /\ seen \in [Slaves -> Reply]
  /\ acks \in [Slaves -> SUBSET (Nat \X Nat)]
  /\ reboots \in Nat

TypeOK == MapTypeOK /\ RtuTypeOK /\ TcpTypeOK /\ ClientTypeOK

Init ==
  /\ MapInit
  /\ MasterInit
  /\ SlavesInit
  /\ TcpInit
  /\ vectors = 0
  /\ staged = [s \in Slaves |-> 0]
  /\ want = [s \in Slaves |-> 0]
  /\ seen = [s \in Slaves |-> NoReply]
  /\ acks = [s \in Slaves |-> {}]
  /\ reboots = 0

-----------------------------------------------------------------------------
(* The client sends FC16: the next vector, to the setpoints of block s.    *)
SendSetpoints(s) ==
  /\ vectors < MaxVectors
  /\ Patient => staged[s] = 0 /\ seen[s].applied = want[s]
  /\ Receive("FC16", s, vectors + 1)
  /\ vectors' = vectors + 1
  /\ staged' = [staged EXCEPT ![s] = vectors + 1]
  /\ UNCHANGED <<mapVars, busVars, dirty, want, seen, acks, reboots>>

(* The client sends FC6: the trigger of the vector it wrote to block s.    *)
SendTrigger(s) ==
  /\ staged[s] # 0
  /\ Receive("FC6", s, staged[s])
  /\ want' = [want EXCEPT ![s] = staged[s]]
  /\ staged' = [staged EXCEPT ![s] = 0]
  /\ UNCHANGED <<mapVars, busVars, dirty, vectors, seen, acks, reboots>>

(* The client sends FC3 for block s.                                       *)
SendRead(s) ==
  /\ Reads
  /\ Receive("FC3", s, 0)
  /\ UNCHANGED <<mapVars, busVars, dirty, clientVars>>

(* The FC3 reply is complete and goes out (sendTxBuffer), or the write to  *)
(* the connection fails and the client does not get it.                    *)
SendReply ==
  /\ tcp.fc = "FC3"
  /\ tcp.pos = 2 * NumSensors + 3
  /\ \/ seen' = [seen EXCEPT ![tcp.slave] = reply]
     \/ UNCHANGED seen
  /\ tcp' = Idle
  /\ reply' = NoReply
  /\ UNCHANGED <<mapVars, busVars, dirty, vectors, staged, want, acks, reboots>>

(* The master reboots: everything in its RAM starts over, and the client   *)
(* loses its connection and what it knew of the block.                     *)
Reboot ==
  /\ reboots < MaxReboots
  /\ reboots' = reboots + 1
  /\ GH_ModbusMap_Init
  /\ MasterReset
  /\ TcpReset
  /\ staged' = IF Patient THEN [s \in Slaves |-> 0] ELSE staged
  /\ want' = [s \in Slaves |-> 0]
  /\ seen' = [s \in Slaves |-> NoReply]
  /\ acks' = [s \in Slaves |-> {}]
  /\ UNCHANGED <<slaveVars, faults, restarts, vectors>>

(* A step of the master task; acks records what MarkApplyResult publishes. *)
Master ==
  /\ MasterStep
  /\ acks' = IF pc = "mark"
               THEN [acks EXCEPT ![cur] = @ \union {<<version[cur] + 1, req.trigger>>}]
               ELSE acks
  /\ UNCHANGED <<tcpVars, vectors, staged, want, seen, reboots>>

(* A step of the TCP task.                                                 *)
Tcp ==
  \/ Processing /\ UNCHANGED <<busVars, clientVars>>
  \/ SendReply

Environment ==
  \/ Reboot
  \/ \E s \in Slaves :
       \/ SendSetpoints(s) \/ SendTrigger(s) \/ SendRead(s)
       \/ SlaveRestart(s) /\ UNCHANGED <<tcpVars, clientVars>>

Next == Master \/ Tcp \/ Environment

Spec == Init /\ [][Next]_vars

(* Both tasks run at osPriorityNormal and the kernel slices time between   *)
(* tasks of one priority; every wait of theirs has a timeout.  Nothing is  *)
(* assumed of the client, the slaves or the bus.                           *)
Fairness == WF_vars(Master) /\ WF_vars(Tcp)

FairSpec == Spec /\ Fairness

-----------------------------------------------------------------------------
(***************************************************************************)
(* Properties                                                              *)
(***************************************************************************)

(* An acknowledged request is in force: when LAST_APPLIED_TRIGGER has      *)
(* caught up with APPLY_TRIGGER, and neither were setpoints stored since   *)
(* the trigger nor did the slave restart since it was last written to,     *)
(* the slave holds exactly the setpoints of the block.  It rests on the    *)
(* order of the loads in GH_ModbusMap_GetApplyRequest and on the client's  *)
(* storing the trigger after the setpoints.                                *)
AppliedMeansInSync ==
  \A s \in Slaves :
    trigger[s] = applied[s] /\ ~dirty[s] /\ ~lost[s] => slaveSp[s] = setp[s]

(* With a patient client a slave never starts to act on a mixture: when it *)
(* takes an APPLY_CMD, and did not restart since the master began writing, *)
(* what it acts on is a vector the client committed, under the trigger it  *)
(* was committed with, whatever writes failed or were repeated on the way. *)
ActivatesWholeVectors ==
  [][\A s \in Slaves : active'[s] # active[s] /\ ~lost'[s] =>
       \A i \in Setpoints : active'[s].sp[i] = active'[s].trigger]_vars

(* What DATA_VERSION promises to a client that reads blocks: a reply is at *)
(* least as new, in every byte of every sensor, as the sample that the     *)
(* version in the client's PREVIOUS reply published; and the LAST_APPLIED  *)
(* of a reply is at least what the version in the same reply published.    *)
VersionPromise ==
  (tcp.fc = "FC3" /\ tcp.pos = 2 * NumSensors + 3) =>
    LET s == tcp.slave IN
    /\ \A t \in samples[s] : t <= seen[s].version =>
         \A b \in 1 .. 2 * NumSensors : reply.sens[b] >= t
    /\ \A a \in acks[s] : a[1] <= reply.version => reply.applied >= a[2]

(* LAST_APPLIED_TRIGGER is a true acknowledgement: it changes only when    *)
(* the master starts over, or to a later trigger on which the slave (if it *)
(* did not restart meanwhile) is acting at that moment.                    *)
AckIsTrue ==
  [][\A s \in Slaves : applied'[s] # applied[s] =>
       \/ reboots' # reboots
       \/ /\ applied'[s] > applied[s]
          /\ lost[s] \/ active[s].trigger = applied'[s]]_vars

(* A request for a slave that is on the bus is acknowledged in the end,    *)
(* even when another slave never answers.                                  *)
RequestIsAcknowledged ==
  \A s \in Slaves \ Dead :
    (trigger[s] # applied[s]) ~> (trigger[s] = applied[s])

(* docs/master_firmware_tz_rs485_control.md:53 asks that the master, after  *)
(* communication with a slave is restored, synchronise the setpoints       *)
(* again: a slave that lost the committed setpoints gets them back.        *)
ResyncAfterRecovery ==
  \A s \in Slaves :
    (trigger[s] = applied[s] /\ ~dirty[s] /\ slaveSp[s] # setp[s])
      ~> (slaveSp[s] = setp[s])

(* The system implements the apply handshake: whatever the tasks, the bus  *)
(* and the faults do, its registers and the slaves move only as            *)
(* ApplyHandshake lets them.                                               *)
Handshake == INSTANCE ApplyHandshake
  WITH block <- setp, open <- dirty, asked <- trigger, acked <- applied,
       has <- slaveSp, unsure <- lost

ImplementsHandshake == Handshake!Spec

-----------------------------------------------------------------------------
(***************************************************************************)
(* The inductive invariant behind AppliedMeansInSync and AckIsTrue         *)
(* (proved in SetpointSyncProofs).                                         *)
(***************************************************************************)

(* The indices of the copy loops stay in range.                            *)
PositionOK ==
  /\ pc = "snapshot" => k \in Setpoints
  /\ pc = "write" => k \in 1 .. NumSetpoints + 1
  /\ tcp.pos >= 1

(* A trigger on its way to the map is later than the one there, and that   *)
(* one is not behind the one acknowledged.                                 *)
TriggersAreFresh ==
  /\ \A s \in Slaves : /\ applied[s] <= trigger[s]
                       /\ trigger[s] <= vectors
                       /\ staged[s] <= vectors
                       /\ staged[s] # 0 => staged[s] > trigger[s]
  /\ tcp.fc = "FC6" => /\ tcp.val > trigger[tcp.slave]
                       /\ tcp.val <= vectors
                       /\ staged[tcp.slave] = 0

Applying == pc \in {"snapshot", "write", "mark"}

(* The request in process is not acknowledged yet, and not from the future. *)
RequestIsPending ==
  Applying => applied[cur] < req.trigger /\ req.trigger <= trigger[cur]

(* While the block still has the trigger of the request and no setpoint    *)
(* stored after it, what was copied is what is there.                      *)
CopyIsCurrent ==
  Applying /\ trigger[cur] = req.trigger /\ ~dirty[cur] =>
    \A i \in Setpoints : (pc = "snapshot" => i < k) => req.sp[i] = setp[cur][i]

(* The slave has what was written to it.                                   *)
SlaveHasWrites ==
  pc \in {"write", "mark"} /\ ~lost[cur] =>
    /\ \A i \in Setpoints : (pc = "write" => i < k) => slaveSp[cur][i] = req.sp[i]
    /\ pc = "mark" => active[cur].trigger = req.trigger

IInv ==
  /\ TypeOK
  /\ PositionOK
  /\ TriggersAreFresh
  /\ RequestIsPending
  /\ CopyIsCurrent
  /\ SlaveHasWrites
  /\ AppliedMeansInSync

-----------------------------------------------------------------------------
(***************************************************************************)
(* What has to be added to it for VersionPromise.                          *)
(***************************************************************************)

Publishing == pc \in {"sensors", "status", "bump"}

(* No version that anyone has read is ahead of the map, and no sensor is   *)
(* ahead of the version that is being published.                           *)
VersionsInStep ==
  /\ \A s \in Slaves : seen[s].version <= version[s]
  /\ tcp.fc = "FC3" => reply.version <= version[tcp.slave]
  /\ \A s \in Slaves, i \in Sensors : sens[s][i] <= version[s] + 1

(* A sample is published, or it is the one on its way.                     *)
SamplesInStep ==
  \A s \in Slaves : \A t \in samples[s] :
    t <= version[s] \/ (s = cur /\ Publishing /\ t = version[s] + 1)

(* The sensors of a block are as new as every published sample, and those  *)
(* that UpdateTelemetry has passed as the one on its way.                  *)
SensorsAreNew ==
  /\ \A s \in Slaves, i \in Sensors :
       \A t \in samples[s] : t <= version[s] => sens[s][i] >= t
  /\ pc = "sensors" => k \in Sensors
  /\ Publishing => \A i \in Sensors :
       (pc = "sensors" => i < k) => sens[cur][i] >= version[cur] + 1

(* The part of a reply that has been built keeps the promise.              *)
ReplyIsNew ==
  tcp.fc = "FC3" =>
    LET s == tcp.slave IN
    /\ \A t \in samples[s] : t <= seen[s].version =>
         \A b \in 1 .. 2 * NumSensors : b < tcp.pos => reply.sens[b] >= t
    /\ tcp.pos = 2 * NumSensors + 3 =>
         \A a \in acks[s] : a[1] <= reply.version => reply.applied >= a[2]

AcksAreApplied == \A s \in Slaves : \A a \in acks[s] : a[2] <= applied[s]

VInv ==
  /\ VersionsInStep /\ SamplesInStep /\ SensorsAreNew /\ ReplyIsNew /\ AcksAreApplied

-----------------------------------------------------------------------------
(***************************************************************************)
(* What has to be added to it for ActivatesWholeVectors (proved in         *)
(* SetpointSyncProofs): a patient client touches a block only while        *)
(* nothing is pending there, so that what the master copies is the vector  *)
(* of the trigger it copies it for.                                        *)
(***************************************************************************)

Storing(s) == tcp.fc = "FC16" /\ tcp.slave = s
Asking(s) == tcp.fc = "FC6" /\ tcp.slave = s

(* The client's last reply, and the one being built, are not ahead.        *)
RepliesAreOld ==
  /\ \A s \in Slaves : seen[s].applied <= applied[s]
  /\ tcp.fc = "FC3" => reply.applied <= applied[tcp.slave]

(* The client knows the trigger that is in the map or on its way there.    *)
WantIsKnown == \A s \in Slaves : want[s] = IF Asking(s) THEN tcp.val ELSE trigger[s]

(* The block is touched while nothing is pending.                          *)
TouchedAtRest ==
  \A s \in Slaves : staged[s] # 0 \/ Asking(s) => trigger[s] = applied[s]

(* A block that is not being stored holds one vector: the one staged, that *)
(* of the trigger on its way, or that of the trigger in the map.           *)
Vector(s) == IF staged[s] # 0 THEN staged[s] ELSE want[s]

BlockIsWhole ==
  /\ \A s \in Slaves, i \in Setpoints :
       (Storing(s) => i < tcp.pos) => setp[s][i] = Vector(s)
  /\ tcp.fc = "FC16" => tcp.val # 0 /\ staged[tcp.slave] = tcp.val

(* And so does the part of the request that has been copied.               *)
RequestIsWhole ==
  Applying =>
    /\ trigger[cur] = req.trigger
    /\ \A i \in Setpoints : (pc = "snapshot" => i < k) => req.sp[i] = req.trigger

PInv == RepliesAreOld /\ WantIsKnown /\ TouchedAtRest /\ BlockIsWhole /\ RequestIsWhole

=============================================================================
