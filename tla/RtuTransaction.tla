---------------------------- MODULE RtuTransaction ----------------------------
(***************************************************************************)
(* The exchanges of the RTU master with its slaves, byte by byte:          *)
(* modbus_read_holding_registers and modbus_write_single_holding_register  *)
(* of gh_modbus_io.c, in the order in which GH_ModbusMasterTask_Run calls  *)
(* them, with answers that are lost, damaged, late, or that collide.       *)
(*                                                                         *)
(* A byte is what the checks tell apart: the answer it belongs to and its  *)
(* place there, or noise.  The line has no addresses of requests in it: an *)
(* answer that comes after the 300 ms of its own exchange is read by       *)
(* whichever exchange is waiting then.                                     *)
(***************************************************************************)
EXTENDS Integers, Sequences

CONSTANTS NumSlaves, NumWrites,
          MaxRequests,   \* bound: requests
          MaxBehind,     \* requests by which an answer may be behind
          MaxFaults      \* bound: faults

ASSUME TransactionAssumption ==
  /\ NumSlaves \in Nat \ {0} /\ NumWrites \in Nat \ {0}
  /\ MaxRequests \in Nat \ {0} /\ MaxBehind \in Nat \ {0} /\ MaxFaults \in Nat

Slaves == 1 .. NumSlaves

(* Kinds of requests: the two reads, and the writes 1 .. NumWrites.        *)
Telemetry == 0 - 1
Diag == 0
Kinds == Telemetry .. NumWrites

(* Length of an answer: 23, 17 and 8 bytes, scaled.                        *)
Length(kind) == IF kind = Telemetry THEN 4 ELSE IF kind = Diag THEN 3 ELSE 2

Requests == [id : 1 .. MaxRequests, slave : Slaves, kind : Kinds]
Byte(f, i) == [of |-> f.id, slave |-> f.slave, kind |-> f.kind, pos |-> i]
Noise == [of |-> 0, slave |-> 1, kind |-> 0, pos |-> 0]
Bytes == [of : 0 .. MaxRequests, slave : Slaves, kind : Kinds, pos : 0 .. 4]
Whole(f) == [i \in 1 .. Length(f.kind) |-> Byte(f, i)]

VARIABLES
  pc,         \* where the master is
  req,        \* its request
  resp,       \* what it has received in this exchange
  DR,         \* the byte in the receiver, if any
  air,        \* answers that slaves have still to send
  line,       \* bytes of an answer on their way, without a gap
  accepted,   \* history: the answer accepted last and its request
  failed,     \* history: exchanges that returned false
  lost, late, noise,  \* history: faults
  before      \* history: faults before the last cycle that began with no
              \* answer outstanding

countVars == <<failed, lost, late, noise>>
vars == <<pc, req, resp, DR, air, line, accepted, countVars, before>>

TransactionTypeOK ==
  /\ pc \in {"drain", "send", "wait", "done"}
  /\ req \in Requests
  /\ resp \in Seq(Bytes) /\ Len(resp) <= Length(req.kind)
  /\ DR \in Seq(Bytes) /\ Len(DR) <= 1
  /\ air \subseteq Requests
  /\ line \in Seq(Bytes) /\ Len(line) <= 4
  /\ accepted \in [request : 0 .. MaxRequests, answer : 0 .. MaxRequests]
  /\ {failed, lost, late, noise, before} \subseteq Nat

Faults == lost + late + noise

Init ==
  /\ pc = "drain" /\ req = [id |-> 1, slave |-> 1, kind |-> Telemetry]
  /\ resp = <<>> /\ DR = <<>> /\ air = {} /\ line = <<>>
  /\ accepted = [request |-> 0, answer |-> 0]
  /\ failed = 0 /\ lost = 0 /\ late = 0 /\ noise = 0 /\ before = 0

-----------------------------------------------------------------------------
(* The line.                                                               *)

(* A byte arrives: it is read while the master waits, and lost while it    *)
(* sends (its receiver is off); otherwise it stays in the receiver, which  *)
(* keeps one.                                                              *)
Arrive ==
  /\ line # <<>>
  /\ line' = Tail(line)
  /\ resp' = IF pc = "wait" THEN Append(resp, Head(line)) ELSE resp
  /\ DR' = IF pc = "drain" /\ DR = <<>> THEN <<Head(line)>> ELSE DR
  /\ pc = "wait" => Len(resp) < Length(req.kind)
  /\ UNCHANGED <<pc, req, air, accepted, countVars, before>>

(* A slave begins to answer, its older request first; another answer on    *)
(* the line is spoilt.                                                     *)
Answer(f) ==
  /\ f \in air
  /\ \A g \in air : g.slave = f.slave => g.id >= f.id
  /\ air' = air \ {f}
  /\ line' = IF line = <<>> THEN Whole(f) ELSE [i \in 1 .. Len(line) |-> Noise]
  /\ UNCHANGED <<pc, req, resp, DR, accepted, countVars, before>>

(* Faults: an answer is damaged on the line, a stray byte.                 *)
Damage ==
  /\ line # <<>> /\ Faults < MaxFaults
  /\ line' = [i \in 1 .. Len(line) |-> Noise]
  /\ lost' = lost + 1
  /\ UNCHANGED <<pc, req, resp, DR, air, accepted, failed, late, noise, before>>

Stray ==
  /\ line = <<>> /\ Faults < MaxFaults
  /\ line' = <<Noise>>
  /\ noise' = noise + 1
  /\ UNCHANGED <<pc, req, resp, DR, air, accepted, failed, lost, late, before>>

-----------------------------------------------------------------------------
(* The master.                                                             *)

FirstOfCycle == req.slave = 1 /\ req.kind = Telemetry

(* A cycle begins.  Answers that are late have arrived while the task      *)
(* slept, unless the cycle before took all of its period.                  *)
CountFaults == before' = IF FirstOfCycle /\ air = {} THEN Faults ELSE before

(* Seeded bug: the receiver is not drained.                                *)
NoDrain ==
  /\ pc = "drain"
  /\ line = <<>> /\ pc' = "send" /\ UNCHANGED DR
  /\ CountFaults
  /\ UNCHANGED <<req, resp, air, line, accepted, countVars>>

(* uart_drain_rx: bytes are thrown away until none comes for 1 ms.         *)
uart_drain_rx ==
  /\ pc = "drain"
  /\ IF DR # <<>> THEN DR' = <<>> /\ UNCHANGED <<pc, before>>
     ELSE /\ line = <<>>
          /\ pc' = "send"
          /\ CountFaults
          /\ UNCHANGED DR
  /\ UNCHANGED <<req, resp, air, line, accepted, countVars>>

(* The request is sent; the slave hears it, unless an answer was on the    *)
(* line, or the request or the answer is lost.                             *)
Transmit ==
  /\ pc = "send"
  /\ \A f \in air : req.id - f.id < MaxBehind
  /\ pc' = "wait"
  /\ resp' = DR /\ DR' = <<>>
  /\ \/ line = <<>> /\ air' = air \union {req} /\ UNCHANGED lost
     \/ line # <<>> /\ UNCHANGED <<air, lost>>
     \/ line = <<>> /\ Faults < MaxFaults /\ lost' = lost + 1 /\ UNCHANGED air
  /\ UNCHANGED <<req, line, accepted, failed, late, noise, before>>

(* Seeded bug: the slave of the answer is not compared.                    *)
AnyAnswer ==
  \E f \in [id : 1 .. req.id, slave : Slaves, kind : {req.kind}] : resp = Whole(f)

(* The answer is whole (its CRC) and it is the answer of this slave to a   *)
(* request like this one (function, length or register, value).            *)
IsAnswer ==
  \E f \in [id : 1 .. req.id, slave : {req.slave}, kind : {req.kind}] : resp = Whole(f)

(* What the master task asks next: both reads, the writes of an apply      *)
(* request as long as they succeed, then the next slave.                   *)
NextSlave == IF req.slave = NumSlaves THEN 1 ELSE req.slave + 1

NextRequest(ok) ==
  \/ /\ req.kind = Telemetry
     /\ req' = [req EXCEPT !.id = @ + 1, !.kind = Diag]
  \/ /\ req.kind = Diag \/ (req.kind < NumWrites /\ ok)
     /\ req.kind # Telemetry /\ req.kind < NumWrites
     /\ req' = [req EXCEPT !.id = @ + 1, !.kind = @ + 1]
  \/ /\ req.kind = Diag \/ req.kind = NumWrites \/ (req.kind > Diag /\ ~ok)
     /\ req' = [id |-> req.id + 1, slave |-> NextSlave, kind |-> Telemetry]

Return(ok) ==
  /\ resp' = <<>>
  /\ failed' = IF ok THEN failed ELSE failed + 1
  /\ IF req.id < MaxRequests THEN NextRequest(ok) /\ pc' = "drain"
                             ELSE pc' = "done" /\ UNCHANGED req

(* All bytes are there.                                                    *)
Check ==
  /\ pc = "wait"
  /\ Len(resp) = Length(req.kind)
  /\ Return(IsAnswer)
  /\ accepted' = IF IsAnswer THEN [request |-> req.id, answer |-> resp[1].of] ELSE accepted
  /\ UNCHANGED <<DR, air, line, lost, late, noise, before>>

(* Seeded bug: the receiver waits for ever.                                *)
NoTimeout == FALSE /\ UNCHANGED vars

(* MODBUS_RTU_RESP_TIMEOUT_MS has passed: nothing is coming, or the answer *)
(* is late.                                                                *)
Coming == req \in air \/ \E i \in 1 .. Len(line) : line[i].of = req.id

Timeout ==
  /\ pc = "wait"
  /\ Len(resp) < Length(req.kind)
  /\ \/ ~Coming /\ line = <<>> /\ UNCHANGED late
     \/ Coming /\ Faults < MaxFaults /\ late' = late + 1
  /\ Return(FALSE)
  /\ UNCHANGED <<DR, air, line, accepted, lost, noise, before>>

Master == uart_drain_rx \/ Transmit \/ Check \/ Timeout

Next ==
  \/ Master
  \/ Arrive
  \/ \E f \in air : Answer(f)
  \/ Damage
  \/ Stray

Spec == Init /\ [][Next]_vars

(* The master runs, bytes arrive, and slaves answer what they have heard.  *)
FairSpec ==
  /\ Spec
  /\ WF_vars(Master)
  /\ WF_vars(Arrive)
  /\ WF_vars(\E f \in air : Answer(f))

-----------------------------------------------------------------------------
(***************************************************************************)
(* Properties                                                              *)
(***************************************************************************)

(* An answer that is accepted is the answer to this very request, although *)
(* late answers of any slave may be read in its place: no two requests of  *)
(* a cycle are alike, and no answer is a whole cycle behind.               *)
AnswerIsOwn == accepted.answer = accepted.request

(* A late answer can take the place of the answer to a later request,      *)
(* which is then late for the one after it, and so on.  The draining and   *)
(* the pause between cycles end that: an exchange fails only if there was  *)
(* a fault since the last cycle that began with no answer outstanding.     *)
FaultsStayInCycle == [][failed' > failed => Faults' > before]_vars

(* Every exchange returns, whatever was lost or came late, as long as the  *)
(* line is silent in the end: the draining has no limit of its own.        *)
ExchangesReturn == <>(pc = "done")

-----------------------------------------------------------------------------
(***************************************************************************)
(* The inductive invariants behind them (proved in RtuTransactionProofs).  *)
(***************************************************************************)

(* The request a byte answers.                                             *)
Owner(b) == [id |-> b.of, slave |-> b.slave, kind |-> b.kind]

(* Where a request is in a cycle of reads only, the shortest there is.     *)
Turn(f) == 2 * f.slave + IF f.kind = Telemetry THEN 0 ELSE 1

(* The cycle has gone past f, or it has begun again since.                 *)
Passed(f) == f.slave < req.slave \/ (f.slave = req.slave /\ f.kind < req.kind)
Lap(f) == IF Passed(f) THEN 0 ELSE 2 * NumSlaves

Behind(f) ==
  f = req \/ (f.id < req.id /\ req.id - f.id >= Lap(f) + Turn(req) - Turn(f))

(* Bytes that are noise or of an answer that is not too late.              *)
Timely(b) == b = Noise \/ (Behind(Owner(b)) /\ req.id - b.of <= MaxBehind)
InTime(bytes) == \A i \in 1 .. Len(bytes) : Timely(bytes[i])

(* An answer that is still to come, or that the master may receive, is to  *)
(* this request or to one the cycle has passed by no more than MaxBehind.  *)
AnswersLag ==
  /\ \A f \in air : /\ Behind(f) /\ req.id - f.id <= MaxBehind
                    /\ pc = "wait" => req.id - f.id < MaxBehind
  /\ pc \in {"send", "wait"} => DR = <<>> /\ InTime(line)
  /\ pc = "wait" => InTime(resp)

(* The rest of an answer to this request is on the line.                   *)
Arriving ==
  /\ Len(resp) + Len(line) = Length(req.kind)
  /\ \A i \in 1 .. Len(resp) : resp[i] = Byte(req, i)
  /\ \A i \in 1 .. Len(line) : line[i] = Byte(req, Len(resp) + i)

(* As long as nothing went wrong since the cycle began, nothing but the    *)
(* answer to this request is outstanding.                                  *)
Clean ==
  /\ DR = <<>>
  /\ pc \in {"drain", "send"} => air = {} /\ line = <<>>
  /\ pc = "wait" => \/ air = {req} /\ resp = <<>> /\ line = <<>>
                    \/ air = {} /\ Arriving

IInv ==
  /\ TransactionTypeOK
  /\ AnswersLag
  /\ before <= Faults
  /\ before = Faults /\ pc # "done" => Clean

=============================================================================
