------------------------- MODULE RtuTransactionProofs -------------------------
(***************************************************************************)
(* Proofs about RtuTransaction, for any number of slaves and writes and    *)
(* any values of the bounds.                                               *)
(***************************************************************************)
EXTENDS RtuTransaction, SequenceTheorems, TLAPS

Types == TransactionTypeOK

LEMMA Constants ==
  /\ NumSlaves \in Nat /\ NumSlaves >= 1 /\ NumWrites \in Nat /\ NumWrites >= 1
  /\ MaxRequests \in Nat /\ MaxRequests >= 1 /\ MaxBehind \in Nat /\ MaxBehind >= 1
  /\ MaxFaults \in Nat
  /\ Telemetry = -1 /\ Diag = 0 /\ Kinds = -1 .. NumWrites /\ 1 \in Slaves
  /\ Telemetry \in Kinds /\ Diag \in Kinds
  BY TransactionAssumption DEF Telemetry, Diag, Kinds, Slaves

LEMMA RequestFacts ==
  ASSUME NEW f \in Requests
  PROVE  /\ f.id \in Nat /\ f.id >= 1 /\ f.id <= MaxRequests
         /\ f.slave \in Nat /\ f.slave >= 1 /\ f.slave <= NumSlaves /\ f.slave \in Slaves
         /\ f.kind \in Int /\ f.kind >= -1 /\ f.kind <= NumWrites /\ f.kind \in Kinds
         /\ f = [id |-> f.id, slave |-> f.slave, kind |-> f.kind]
  BY Constants DEF Requests, Slaves

LEMMA NewRequest ==
  ASSUME NEW i \in 1 .. MaxRequests, NEW s \in Slaves, NEW kind \in Kinds
  PROVE  [id |-> i, slave |-> s, kind |-> kind] \in Requests
  BY DEF Requests

(* Answers have two to four bytes.                                         *)
LEMMA LengthFacts == \A kind : Length(kind) \in 2 .. 4
  BY DEF Length

LEMMA ByteFacts ==
  ASSUME NEW f \in Requests, NEW i \in 0 .. 4
  PROVE  /\ Byte(f, i) \in Bytes
         /\ Byte(f, i).of = f.id /\ Byte(f, i).slave = f.slave /\ Byte(f, i).kind = f.kind
         /\ Byte(f, i).pos = i
         /\ Owner(Byte(f, i)) = f
  BY RequestFacts DEF Byte, Bytes, Requests, Owner

LEMMA NoiseFacts == Noise \in Bytes /\ Noise.of = 0
  BY Constants DEF Noise, Bytes

LEMMA WholeFacts ==
  ASSUME NEW f \in Requests
  PROVE  /\ Whole(f) \in Seq(Bytes) /\ Len(Whole(f)) = Length(f.kind)
         /\ \A i \in 1 .. Length(f.kind) : Whole(f)[i] = Byte(f, i)
  <1>1. Length(f.kind) \in 2 .. 4
    BY LengthFacts
  <1>2. \A i \in 1 .. Length(f.kind) : Byte(f, i) \in Bytes
    BY <1>1, ByteFacts
  <1>. QED  BY <1>1, <1>2 DEF Whole

(* A line that is spoilt keeps its length.                                 *)
LEMMA SpoiltFacts ==
  ASSUME NEW n \in Nat
  PROVE  /\ [i \in 1 .. n |-> Noise] \in Seq(Bytes) /\ Len([i \in 1 .. n |-> Noise]) = n
         /\ \A j \in 1 .. n : [i \in 1 .. n |-> Noise][j] = Noise
  BY NoiseFacts

LEMMA TailFacts ==
  ASSUME NEW S, NEW s \in Seq(S), s # <<>>
  PROVE  /\ Len(s) \in Nat /\ Len(s) >= 1
         /\ Head(s) = s[1] /\ Head(s) \in S /\ Tail(s) \in Seq(S) /\ Len(Tail(s)) = Len(s) - 1
         /\ \A i \in 1 .. Len(s) - 1 : Tail(s)[i] = s[i + 1]
  <1>1. Len(s) \in Nat /\ Len(s) # 0
    BY EmptySeq, LenProperties
  <1>2. /\ Head(s) \in S /\ Tail(s) \in Seq(S) /\ Len(Tail(s)) = Len(s) - 1
        /\ \A i \in 1 .. Len(Tail(s)) : Tail(s)[i] = s[i + 1]
    BY HeadTailProperties
  <1>3. Head(s) = s[1]
    OBVIOUS
  <1>. QED  BY <1>1, <1>2, <1>3

LEMMA AppendFacts ==
  ASSUME NEW S, NEW s \in Seq(S), NEW e \in S
  PROVE  /\ Append(s, e) \in Seq(S) /\ Len(Append(s, e)) = Len(s) + 1
         /\ \A i \in 1 .. Len(s) : Append(s, e)[i] = s[i]
         /\ Append(s, e)[Len(s) + 1] = e
  OBVIOUS

LEMMA SingleFacts ==
  ASSUME NEW S, NEW e \in S
  PROVE  <<e>> \in Seq(S) /\ Len(<<e>>) = 1 /\ <<e>>[1] = e
  OBVIOUS

LEMMA NothingFacts == <<>> \in Seq(Bytes) /\ Len(<<>>) = 0
  OBVIOUS

(* What the arithmetic below needs of the types.                           *)
LEMMA Numbers ==
  ASSUME Types
  PROVE  /\ req \in Requests /\ Len(resp) \in Nat /\ Len(DR) \in Nat /\ Len(line) \in Nat
         /\ resp \in Seq(Bytes) /\ DR \in Seq(Bytes) /\ line \in Seq(Bytes)
         /\ failed \in Nat /\ lost \in Nat /\ late \in Nat /\ noise \in Nat /\ before \in Nat
         /\ Faults \in Nat
         /\ (resp = <<>> <=> Len(resp) = 0)
         /\ (DR = <<>> <=> Len(DR) = 0)
         /\ (line = <<>> <=> Len(line) = 0)
  <1>1. /\ req \in Requests /\ resp \in Seq(Bytes) /\ DR \in Seq(Bytes) /\ line \in Seq(Bytes)
        /\ failed \in Nat /\ lost \in Nat /\ late \in Nat /\ noise \in Nat /\ before \in Nat
    BY DEF Types, TransactionTypeOK
  <1>2. Faults \in Nat
    BY <1>1 DEF Faults
  <1>3. ASSUME NEW s \in Seq(Bytes)
        PROVE  Len(s) \in Nat /\ (s = <<>> <=> Len(s) = 0)
    BY <1>3, EmptySeq, LenProperties
  <1>. QED  BY <1>1, <1>2, <1>3

-----------------------------------------------------------------------------
LEMMA TypeInit == Init => Types
  <1> SUFFICES ASSUME Init PROVE Types
    OBVIOUS
  <1>1. [id |-> 1, slave |-> 1, kind |-> Telemetry] \in Requests
    BY Constants DEF Requests
  <1>2. Len(<<>>) <= Length(req.kind)
    BY LengthFacts, NothingFacts
  <1>. QED  BY <1>1, <1>2, NothingFacts, Constants DEF Init, Types, TransactionTypeOK

(* What an exchange that returns leaves.                                   *)
LEMMA ReturnTypes ==
  ASSUME Types, NEW ok \in BOOLEAN, Return(ok)
  PROVE  /\ req' \in Requests /\ pc' \in {"drain", "done"} /\ resp' = <<>>
         /\ failed' \in Nat /\ failed' >= failed
  <1>1. /\ req.id \in Nat /\ req.slave \in Slaves /\ req.kind \in Int
        /\ req.slave \in Nat /\ req.slave >= 1 /\ req.slave <= NumSlaves
        /\ req.kind >= -1 /\ req.kind <= NumWrites
        /\ req = [id |-> req.id, slave |-> req.slave, kind |-> req.kind] /\ req \in Requests
    BY Numbers, RequestFacts
  <1>2. failed' \in Nat /\ failed' >= failed /\ resp' = <<>> /\ pc' \in {"drain", "done"}
    BY Numbers DEF Return
  <1>3. NextSlave \in Slaves
    BY <1>1, Constants DEF NextSlave, Slaves
  <1>4. CASE req' = req
    BY <1>1, <1>2, <1>4
  <1>5. CASE req.id < MaxRequests /\ NextRequest(ok)
    <2>1. req.id + 1 \in 1 .. MaxRequests
      BY <1>1, <1>5, Constants
    <2>2. CASE req' = [req EXCEPT !.id = @ + 1, !.kind = Diag]
      <3>1. req' = [id |-> req.id + 1, slave |-> req.slave, kind |-> Diag]
        BY <1>1, <2>2
      <3>2. Diag \in Kinds
        BY Constants
      <3>. QED  BY <1>1, <1>2, <2>1, <3>1, <3>2, NewRequest
    <2>3. CASE req.kind < NumWrites /\ req.kind # Telemetry
               /\ req' = [req EXCEPT !.id = @ + 1, !.kind = @ + 1]
      <3>1. req.kind + 1 \in Kinds
        BY <1>1, <2>3, Constants
      <3>2. req' = [id |-> req.id + 1, slave |-> req.slave, kind |-> req.kind + 1]
        BY <1>1, <2>3
      <3>. QED  BY <1>1, <1>2, <2>1, <3>1, <3>2, NewRequest
    <2>4. CASE req' = [id |-> req.id + 1, slave |-> NextSlave, kind |-> Telemetry]
      <3>1. Telemetry \in Kinds
        BY Constants
      <3>. QED  BY <1>2, <1>3, <2>1, <2>4, <3>1, NewRequest
    <2>5. req' \in Requests
      BY <1>5, <2>2, <2>3, <2>4 DEF NextRequest
    <2>. QED  BY <1>2, <2>5
  <1>. QED  BY <1>4, <1>5 DEF Return

LEMMA TypeMaster ==
  ASSUME Types, Master
  PROVE  Types'
  <1>1. ASSUME NEW ok \in BOOLEAN, Return(ok)
        PROVE  /\ req' \in Requests /\ pc' \in {"drain", "done"} /\ failed' \in Nat
               /\ resp' \in Seq(Bytes) /\ Len(resp') <= Length(req'.kind)
    <2>1. Length(req'.kind) >= 0
      BY LengthFacts
    <2>2. /\ req' \in Requests /\ pc' \in {"drain", "done"} /\ failed' \in Nat
          /\ resp' = <<>>
      BY <1>1, ReturnTypes
    <2>. QED  BY <2>1, <2>2, NothingFacts
  <1> USE DEF Types, TransactionTypeOK
  <1>2. CASE uart_drain_rx
    <2>1. before' \in Nat
      BY <1>2, Numbers DEF uart_drain_rx, CountFaults
    <2>2. DR' \in Seq(Bytes) /\ Len(DR') <= 1
      <3>1. DR' = <<>> \/ DR' = DR
        BY <1>2 DEF uart_drain_rx
      <3>2. CASE DR' = <<>>
        BY <3>2, NothingFacts
      <3>3. CASE DR' = DR
        BY <3>3
      <3>. QED  BY <3>1, <3>2, <3>3
    <2>. QED  BY <1>2, <2>1, <2>2 DEF uart_drain_rx, countVars
  <1>3. CASE Transmit
    <2>1. resp' \in Seq(Bytes) /\ Len(resp') <= Length(req.kind) /\ DR' = <<>>
      BY <1>3, LengthFacts, Numbers DEF Transmit
    <2>2. air' \subseteq Requests /\ lost' \in Nat
      BY <1>3 DEF Transmit
    <2>. QED  BY <1>3, <2>1, <2>2, NothingFacts DEF Transmit
  <1>5. CASE Check
    <2>1. IsAnswer \in BOOLEAN
      BY DEF IsAnswer
    <2>2. accepted' \in [request : 0 .. MaxRequests, answer : 0 .. MaxRequests]
      <3>1. 1 \in 1 .. Len(resp)
        BY <1>5, LengthFacts DEF Check
      <3>2. resp[1] \in Bytes
        BY <3>1, ElementOfSeq
      <3>. QED  BY <1>5, <3>2 DEF Check, Bytes, Requests
    <2>. QED  BY <1>1, <1>5, <2>1, <2>2 DEF Check
  <1>6. CASE Timeout
    <2>1. late' \in Nat /\ FALSE \in BOOLEAN
      BY <1>6 DEF Timeout
    <2>2. /\ req' \in Requests /\ pc' \in {"drain", "done"} /\ failed' \in Nat
          /\ resp' \in Seq(Bytes) /\ Len(resp') <= Length(req'.kind)
      BY <1>1, <1>6 DEF Timeout
    <2>. QED  BY <1>6, <2>1, <2>2 DEF Timeout
  <1>. QED  BY <1>2, <1>3, <1>5, <1>6 DEF Master

(* The bytes of a line that an answer begins on, or that is spoilt.        *)
LEMMA AnswerTypes ==
  ASSUME Types, NEW f \in air, Answer(f)
  PROVE  /\ f \in Requests /\ line' \in Seq(Bytes) /\ Len(line') <= 4
         /\ \/ line = <<>> /\ line' = Whole(f)
            \/ line # <<>> /\ Len(line') = Len(line)
               /\ \A i \in 1 .. Len(line) : line'[i] = Noise
  <1>1. f \in Requests /\ Len(line) <= 4
    BY DEF Types, TransactionTypeOK
  <1>2. CASE line = <<>>
    BY <1>1, <1>2, WholeFacts, LengthFacts DEF Answer
  <1>3. CASE line # <<>>
    BY <1>1, <1>3, SpoiltFacts, Numbers DEF Answer
  <1>. QED  BY <1>2, <1>3

LEMMA TypeLine ==
  ASSUME Types, Arrive \/ (\E f \in air : Answer(f)) \/ Damage \/ Stray
  PROVE  Types'
  <1> USE DEF Types, TransactionTypeOK
  <1>1. CASE Arrive
    <2>1. Head(line) \in Bytes /\ line' \in Seq(Bytes) /\ Len(line') <= 4
      BY <1>1, TailFacts DEF Arrive
    <2>2. resp' \in Seq(Bytes) /\ Len(resp') <= Length(req.kind)
      <3>1. CASE pc = "wait"
        <4>1. /\ resp' = Append(resp, Head(line)) /\ resp \in Seq(Bytes)
              /\ Len(resp) < Length(req.kind) /\ Len(resp) \in Nat
          BY <1>1, <3>1, Numbers DEF Arrive
        <4>2. resp' \in Seq(Bytes) /\ Len(resp') = Len(resp) + 1
          BY <2>1, <4>1, AppendFacts
        <4>3. Length(req.kind) \in 2 .. 4
          BY LengthFacts
        <4>. QED  BY <4>1, <4>2, <4>3
      <3>2. CASE pc # "wait"
        BY <1>1, <3>2 DEF Arrive
      <3>. QED  BY <3>1, <3>2
    <2>3. DR' \in Seq(Bytes) /\ Len(DR') <= 1
      BY <1>1, <2>1, SingleFacts DEF Arrive
    <2>. QED  BY <1>1, <2>1, <2>2, <2>3 DEF Arrive, countVars
  <1>2. ASSUME NEW f \in air, Answer(f) PROVE Types'
    <2>1. air' \subseteq Requests
      BY <1>2 DEF Answer
    <2>2. line' \in Seq(Bytes) /\ Len(line') <= 4
      BY <1>2, AnswerTypes
    <2>. QED  BY <1>2, <2>1, <2>2 DEF Answer, countVars
  <1>3. CASE Damage
    <2>1. line' \in Seq(Bytes) /\ Len(line') <= 4
      BY <1>3, SpoiltFacts, Numbers DEF Damage
    <2>. QED  BY <1>3, <2>1 DEF Damage
  <1>4. CASE Stray
    <2>1. line' \in Seq(Bytes) /\ Len(line') <= 4
      BY <1>4, SingleFacts, NoiseFacts DEF Stray
    <2>. QED  BY <1>4, <2>1 DEF Stray
  <1>. QED  BY <1>1, <1>2, <1>3, <1>4

(* Type correctness.                                                       *)
THEOREM TransactionTypes == Spec => []TransactionTypeOK
  <1>1. Types /\ [Next]_vars => Types'
    <2>. SUFFICES ASSUME Types, [Next]_vars PROVE Types'
      OBVIOUS
    <2>1. CASE UNCHANGED vars
      BY <2>1 DEF vars, countVars, Types, TransactionTypeOK
    <2>2. CASE Next
      BY <2>2, TypeMaster, TypeLine DEF Next
    <2>. QED  BY <2>1, <2>2
  <1>. QED  BY TypeInit, <1>1, PTL DEF Spec, Types

-----------------------------------------------------------------------------
(***************************************************************************)
(* AnswerIsOwn.                                                            *)
(*                                                                         *)
(* Why it holds: a cycle has at least the two reads of every slave, so two *)
(* requests that are alike are 2 * NumSlaves apart, and an answer that the *)
(* master receives is of one of the MaxBehind requests before this one.    *)
(***************************************************************************)
Lagging == Types /\ AnswersLag

LEMMA TurnFacts ==
  ASSUME NEW f \in Requests
  PROVE  /\ Turn(f) = IF f.kind = -1 THEN 2 * f.slave ELSE 2 * f.slave + 1
         /\ Turn(f) \in Int
  BY RequestFacts, Constants DEF Turn

(* The next request keeps its distance from those before.                  *)
LEMMA NextKeepsDistance ==
  ASSUME Types, NEW ok \in BOOLEAN, NextRequest(ok), req' \in Requests,
         NEW f \in Requests, Behind(f)
  PROVE  Behind(f)' /\ req'.id = req.id + 1
  <1>1. /\ req.id \in Int /\ req.slave \in Int /\ req.kind \in Int
        /\ req.slave >= 1 /\ req.slave <= NumSlaves /\ req.kind >= -1
        /\ f.id \in Int /\ f.slave \in Int /\ f.kind \in Int
        /\ f.slave >= 1 /\ f.slave <= NumSlaves /\ f.kind >= -1
        /\ NumSlaves \in Int /\ Telemetry = -1 /\ Diag = 0
        /\ req \in Requests
    BY Numbers, RequestFacts, Constants
  <1>2. /\ Turn(req) = IF req.kind = -1 THEN 2 * req.slave ELSE 2 * req.slave + 1
        /\ Turn(req)' = IF req'.kind = -1 THEN 2 * req'.slave ELSE 2 * req'.slave + 1
        /\ Turn(f) = IF f.kind = -1 THEN 2 * f.slave ELSE 2 * f.slave + 1
        /\ Turn(f)' = Turn(f)
    BY <1>1, TurnFacts DEF Turn
  <1>3. /\ f.id <= req.id
        /\ f = req \/ Passed(f) \/ req.id - f.id >= 2 * NumSlaves + Turn(req) - Turn(f)
        /\ req.id - f.id >= Turn(req) - Turn(f)
    BY <1>1, <1>2 DEF Behind, Lap
  <1>4. SUFFICES /\ req'.id = req.id + 1
                 /\ \/ Passed(f)' /\ req.id + 1 - f.id >= Turn(req)' - Turn(f)
                    \/ req.id + 1 - f.id >= 2 * NumSlaves + Turn(req)' - Turn(f)
    <2>1. Lap(f)' = IF Passed(f)' THEN 0 ELSE 2 * NumSlaves
      BY DEF Lap
    <2>2. req'.slave \in Int
      BY RequestFacts
    <2>3. /\ Turn(req)' \in Int /\ Turn(f) \in Int
          /\ Lap(f)' = 0 \/ Lap(f)' = 2 * NumSlaves
      BY <1>1, <1>2, <2>1, <2>2
    <2>4. Passed(f)' => Lap(f)' = 0
      BY <2>1
    <2>5. f.id < req'.id /\ req'.id - f.id >= Lap(f)' + Turn(req)' - Turn(f)
      BY <1>1, <1>3, <1>4, <2>3, <2>4
    <2>. QED  BY <1>2, <1>4, <2>5 DEF Behind
  <1>5. CASE req.kind = -1 /\ req' = [req EXCEPT !.id = @ + 1, !.kind = Diag]
    <2>1. req'.id = req.id + 1 /\ req'.slave = req.slave /\ req'.kind = 0
      BY <1>1, <1>5 DEF Requests
    <2>2. f = req \/ Passed(f) => Passed(f)'
      BY <1>1, <1>5, <2>1 DEF Passed
    <2>. QED  BY <1>1, <1>2, <1>3, <1>5, <2>1, <2>2
  <1>6. CASE req.kind >= 0 /\ req' = [req EXCEPT !.id = @ + 1, !.kind = @ + 1]
    <2>1. req'.id = req.id + 1 /\ req'.slave = req.slave /\ req'.kind = req.kind + 1
      BY <1>1, <1>6 DEF Requests
    <2>2. f = req \/ Passed(f) => Passed(f)'
      BY <1>1, <1>6, <2>1 DEF Passed
    <2>. QED  BY <1>1, <1>2, <1>3, <1>6, <2>1, <2>2
  <1>7. CASE req.kind >= 0
             /\ req' = [id |-> req.id + 1, slave |-> NextSlave, kind |-> Telemetry]
    <2>1. req'.id = req.id + 1 /\ req'.slave = NextSlave /\ req'.kind = -1
      BY <1>1, <1>7
    <2>2. CASE req.slave = NumSlaves
      <3>1. req'.slave = 1
        BY <2>1, <2>2 DEF NextSlave
      <3>2. Turn(req)' = 2 /\ Turn(req) = 2 * NumSlaves + 1
        BY <1>1, <1>2, <1>7, <2>1, <2>2, <3>1
      <3>. QED  BY <1>1, <1>2, <1>3, <2>1, <3>2
    <2>3. CASE req.slave # NumSlaves
      <3>1. req'.slave = req.slave + 1
        BY <2>1, <2>3 DEF NextSlave
      <3>2. f = req \/ Passed(f) => Passed(f)'
        BY <1>1, <2>1, <3>1 DEF Passed
      <3>3. Turn(req)' = Turn(req) + 1
        BY <1>1, <1>2, <1>7, <2>1, <3>1
      <3>. QED  BY <1>1, <1>2, <1>3, <2>1, <3>2, <3>3
    <2>. QED  BY <2>2, <2>3
  <1>8. \/ req.kind = -1 /\ req' = [req EXCEPT !.id = @ + 1, !.kind = Diag]
        \/ req.kind >= 0 /\ req' = [req EXCEPT !.id = @ + 1, !.kind = @ + 1]
        \/ req.kind >= 0 /\ req' = [id |-> req.id + 1, slave |-> NextSlave, kind |-> Telemetry]
    BY <1>1, Constants DEF NextRequest
  <1>. QED  BY <1>5, <1>6, <1>7, <1>8

-----------------------------------------------------------------------------
LEMMA SameRequest ==
  ASSUME req' = req
  PROVE  /\ \A f : Behind(f)' <=> Behind(f)
         /\ (\A i \in 1 .. Len(line') : Timely(line'[i])) => InTime(line)'
         /\ (\A i \in 1 .. Len(resp') : Timely(resp'[i])) => InTime(resp)'
  <1>1. \A f : Behind(f)' <=> Behind(f)
    BY DEF Behind, Lap, Passed, Turn
  <1>2. (\A i \in 1 .. Len(line') : Timely(line'[i])) => InTime(line)'
    BY DEF InTime, Timely, Behind, Lap, Passed, Turn
  <1>3. (\A i \in 1 .. Len(resp') : Timely(resp'[i])) => InTime(resp)'
    BY DEF InTime, Timely, Behind, Lap, Passed, Turn
  <1>. QED  BY <1>1, <1>2, <1>3

LEMMA LagInit == Init => Lagging
  BY TypeInit, Constants DEF Init, Lagging, AnswersLag

(* An exchange returns: every answer to come is one request further behind. *)
LEMMA LagReturn ==
  ASSUME Lagging, pc = "wait", NEW ok \in BOOLEAN, Return(ok), UNCHANGED air
  PROVE  AnswersLag'
  <1>1. /\ Types /\ req' \in Requests /\ pc' \in {"drain", "done"} /\ air \subseteq Requests
    BY ReturnTypes DEF Lagging, Types, TransactionTypeOK
  <1>2. \A f \in air : Behind(f) /\ req.id - f.id < MaxBehind
    BY DEF Lagging, AnswersLag
  <1>3. SUFFICES ASSUME NEW f \in air PROVE Behind(f)' /\ req'.id - f.id <= MaxBehind
    BY <1>1 DEF AnswersLag
  <1>4. f \in Requests /\ f.id \in Int /\ req.id \in Int /\ MaxBehind \in Int
    BY <1>1, RequestFacts, Numbers, Constants
  <1>5. CASE req' = req
    BY <1>2, <1>4, <1>5, SameRequest
  <1>6. CASE NextRequest(ok)
    <2>1. Behind(f)' /\ req'.id = req.id + 1
      BY <1>1, <1>2, <1>4, <1>6, NextKeepsDistance
    <2>. QED  BY <1>2, <1>4, <2>1
  <1>. QED  BY <1>5, <1>6 DEF Return

LEMMA LagMaster ==
  ASSUME Lagging, Master
  PROVE  AnswersLag'
  <1>1. CASE uart_drain_rx
    <2>1. /\ req' = req /\ air' = air /\ line' = line /\ pc = "drain"
          /\ pc' = "send" \/ pc' = "drain"
          /\ pc' = "send" => DR' = <<>> /\ line' = <<>>
      BY <1>1 DEF uart_drain_rx
    <2>2. ASSUME pc' = "send" PROVE InTime(line)'
      <3>1. Len(line') = 0
        BY <2>1, <2>2, NothingFacts
      <3>. QED  BY <2>1, <3>1, SameRequest
    <2>. QED  BY <2>1, <2>2, SameRequest DEF Lagging, AnswersLag
  <1>2. CASE Transmit
    <2>1. /\ pc = "send" /\ pc' = "wait" /\ req' = req /\ line' = line /\ DR' = <<>>
          /\ resp' = <<>> /\ air' \subseteq air \union {req}
          /\ \A f \in air : req.id - f.id < MaxBehind
      BY <1>2 DEF Transmit, Lagging, AnswersLag
    <2>2. InTime(line)' /\ InTime(resp)'
      BY <2>1, SameRequest, NothingFacts DEF Lagging, AnswersLag, InTime
    <2>3. \A f \in air' : Behind(f) /\ req.id - f.id < MaxBehind
      <3>1. req.id - req.id < MaxBehind /\ Behind(req)
        BY Numbers, RequestFacts, Constants DEF Lagging, Behind
      <3>. QED  BY <2>1, <3>1 DEF Lagging, AnswersLag
    <2>4. \A f \in air' : Behind(f)' /\ req'.id - f.id < MaxBehind
      BY <2>1, <2>3, SameRequest
    <2>5. \A f \in air' : req.id - f.id <= MaxBehind
      <3>1. \A f \in air' : f.id \in Int
        BY <2>1, Numbers, RequestFacts DEF Lagging, Types, TransactionTypeOK
      <3>. QED  BY <2>3, <3>1, Numbers, RequestFacts, Constants DEF Lagging
    <2>. QED  BY <2>1, <2>2, <2>4, <2>5 DEF AnswersLag
  <1>3. CASE Check
    <2>1. IsAnswer \in BOOLEAN
      BY DEF IsAnswer
    <2>. QED  BY <1>3, <2>1, LagReturn DEF Check
  <1>4. CASE Timeout
    <2>1. FALSE \in BOOLEAN
      OBVIOUS
    <2>. QED  BY <1>4, <2>1, LagReturn DEF Timeout
  <1>. QED  BY <1>1, <1>2, <1>3, <1>4 DEF Master

(* What happens on the line changes the bytes there and no distance.       *)
LEMMA LagLine ==
  ASSUME Lagging, Arrive \/ (\E f \in air : Answer(f)) \/ Damage \/ Stray
  PROVE  AnswersLag'
  <1>1. req' = req /\ pc' = pc /\ Types
    BY DEF Arrive, Answer, Damage, Stray, Lagging
  <1>2. CASE Arrive
    <2>1. /\ line # <<>> /\ line' = Tail(line) /\ air' = air /\ line \in Seq(Bytes)
          /\ resp \in Seq(Bytes)
      BY <1>1, <1>2, Numbers DEF Arrive
    <2>2. /\ Head(line) = line[1] /\ Len(line') = Len(line) - 1 /\ Len(line) \in Nat
          /\ Len(line) >= 1 /\ Head(line) \in Bytes
          /\ \A i \in 1 .. Len(line) - 1 : line'[i] = line[i + 1]
      BY <2>1, TailFacts
    <2>3. pc \in {"send", "wait"} => InTime(line)'
      BY <1>1, <2>2, SameRequest DEF Lagging, AnswersLag, InTime
    <2>4. pc = "wait" => InTime(resp)'
      <3>1. SUFFICES ASSUME pc = "wait", NEW i \in 1 .. Len(resp') PROVE Timely(resp'[i])
        BY <1>1, SameRequest
      <3>2. resp' = Append(resp, Head(line))
        BY <1>2, <3>1 DEF Arrive
      <3>3. /\ Len(resp') = Len(resp) + 1 /\ Len(resp) \in Nat
            /\ \A j \in 1 .. Len(resp) : resp'[j] = resp[j]
            /\ resp'[Len(resp) + 1] = line[1]
        BY <2>1, <2>2, <3>2, AppendFacts, Numbers, <1>1
      <3>4. Timely(line[1])
        BY <2>2, <3>1 DEF Lagging, AnswersLag, InTime
      <3>5. CASE i = Len(resp) + 1
        BY <3>3, <3>4, <3>5
      <3>6. CASE i # Len(resp) + 1
        <4>1. i \in 1 .. Len(resp)
          BY <3>3, <3>6
        <4>. QED  BY <3>1, <3>3, <4>1 DEF Lagging, AnswersLag, InTime
      <3>. QED  BY <3>5, <3>6
    <2>5. pc \in {"send", "wait"} => DR' = DR
      BY <1>2 DEF Arrive
    <2>. QED  BY <1>1, <2>1, <2>3, <2>4, <2>5, SameRequest DEF Lagging, AnswersLag
  <1>3. ASSUME NEW f \in air, Answer(f) PROVE AnswersLag'
    <2>1. /\ f \in Requests /\ Len(line) \in Nat
          /\ \/ line = <<>> /\ line' = Whole(f)
             \/ line # <<>> /\ Len(line') = Len(line)
                /\ \A i \in 1 .. Len(line) : line'[i] = Noise
      BY <1>1, <1>3, AnswerTypes, Numbers
    <2>2. \A i \in 1 .. Len(line') : Timely(line'[i])
      <3>1. CASE line' = Whole(f)
        <4>1. \A i \in 1 .. Len(line') : line'[i] = Byte(f, i) /\ i \in 0 .. 4
          BY <2>1, <3>1, WholeFacts, LengthFacts
        <4>2. Behind(f) /\ req.id - f.id <= MaxBehind
          BY DEF Lagging, AnswersLag
        <4>. QED  BY <2>1, <4>1, <4>2, ByteFacts DEF Timely
      <3>2. CASE \A i \in 1 .. Len(line') : line'[i] = Noise
        BY <3>2 DEF Timely
      <3>. QED  BY <2>1, <3>1, <3>2
    <2>3. air' \subseteq air /\ DR' = DR /\ resp' = resp
      BY <1>3 DEF Answer
    <2>4. InTime(line)'
      BY <1>1, <2>2, SameRequest
    <2>5. pc = "wait" => InTime(resp)'
      BY <1>1, <2>3, SameRequest DEF Lagging, AnswersLag, InTime
    <2>. QED  BY <1>1, <2>3, <2>4, <2>5, SameRequest DEF Lagging, AnswersLag
  <1>4. CASE Damage \/ Stray
    <2>1. air' = air /\ DR' = DR /\ resp' = resp
      BY <1>4 DEF Damage, Stray
    <2>2. \A i \in 1 .. Len(line') : line'[i] = Noise
      BY <1>1, <1>4, SpoiltFacts, SingleFacts, NoiseFacts, Numbers DEF Damage, Stray
    <2>3. InTime(line)'
      BY <1>1, <2>2, SameRequest DEF Timely
    <2>4. pc = "wait" => InTime(resp)'
      BY <1>1, <2>1, SameRequest DEF Lagging, AnswersLag, InTime
    <2>. QED  BY <1>1, <2>1, <2>3, <2>4, SameRequest DEF Lagging, AnswersLag
  <1>. QED  BY <1>2, <1>3, <1>4

LEMMA LagInvariant == Spec => []Lagging
  <1>1. Lagging /\ [Next]_vars => Lagging'
    <2>. SUFFICES ASSUME Lagging, [Next]_vars PROVE Lagging'
      OBVIOUS
    <2>1. CASE UNCHANGED vars
      BY <2>1 DEF vars, countVars, Lagging, Types, TransactionTypeOK, AnswersLag, InTime, Timely,
                  Behind, Lap, Passed, Turn
    <2>2. CASE Next
      BY <2>2, TypeMaster, TypeLine, LagMaster, LagLine DEF Next, Lagging
    <2>. QED  BY <2>1, <2>2
  <1>. QED  BY LagInit, <1>1, PTL DEF Spec

(* What is accepted is the answer to this request.                         *)
LEMMA AcceptsOwn ==
  ASSUME Lagging, MaxBehind < 2 * NumSlaves, Check, IsAnswer
  PROVE  resp[1].of = req.id
  <1>1. PICK f \in [id : 1 .. req.id, slave : {req.slave}, kind : {req.kind}] : resp = Whole(f)
    BY DEF IsAnswer
  <1>2. /\ req \in Requests /\ req.id \in Nat /\ req.id <= MaxRequests
        /\ req.slave \in Slaves /\ req.kind \in Kinds
        /\ MaxRequests \in Int /\ MaxBehind \in Int /\ NumSlaves \in Int
    BY Numbers, RequestFacts, Constants DEF Lagging
  <1>3. /\ f.id \in 1 .. req.id /\ f.slave = req.slave /\ f.kind = req.kind
        /\ f = [id |-> f.id, slave |-> f.slave, kind |-> f.kind]
    OBVIOUS
  <1>4. f \in Requests
    BY <1>2, <1>3, NewRequest
  <1>5. 1 \in 1 .. Len(resp) /\ resp[1] = Byte(f, 1) /\ 1 \in 0 .. 4
    BY <1>1, <1>4, WholeFacts, LengthFacts
  <1>6. resp[1].of = f.id /\ Owner(resp[1]) = f /\ resp[1] # Noise
    BY <1>3, <1>4, <1>5, ByteFacts, NoiseFacts
  <1>7. Behind(f) /\ req.id - f.id <= MaxBehind
    <2>1. Timely(resp[1])
      BY <1>5 DEF Check, Lagging, AnswersLag, InTime
    <2>. QED  BY <1>6, <2>1 DEF Timely
  <1>8. ~(f.id < req.id /\ req.id - f.id >= Lap(f) + Turn(req) - Turn(f))
    <2>1. Turn(f) = Turn(req) /\ Turn(f) \in Int
      BY <1>3, <1>4, TurnFacts DEF Turn
    <2>2. Lap(f) = 2 * NumSlaves
      <3>1. req.slave \in Int /\ req.kind \in Int
        BY <1>2, RequestFacts
      <3>. QED  BY <1>3, <3>1 DEF Lap, Passed
    <2>. QED  BY <1>2, <1>3, <1>7, <2>1, <2>2
  <1>. QED  BY <1>6, <1>7, <1>8 DEF Behind

(* When no answer is as late as a whole cycle, the master takes only the   *)
(* answer to the request it has sent.                                      *)
THEOREM AnswerIsOwnCorrect == MaxBehind < 2 * NumSlaves => (Spec => []AnswerIsOwn)
  <1>. SUFFICES ASSUME MaxBehind < 2 * NumSlaves PROVE Spec => []AnswerIsOwn
    OBVIOUS
  <1>1. Init => AnswerIsOwn
    BY DEF Init, AnswerIsOwn
  <1>2. Lagging /\ AnswerIsOwn /\ [Next]_vars => AnswerIsOwn'
    <2>. SUFFICES ASSUME Lagging, AnswerIsOwn, [Next]_vars PROVE AnswerIsOwn'
      OBVIOUS
    <2>1. CASE UNCHANGED accepted
      BY <2>1 DEF AnswerIsOwn
    <2>2. CASE Check
      BY <2>2, AcceptsOwn DEF Check, AnswerIsOwn
    <2>3. UNCHANGED accepted \/ Check
      BY DEF Next, Master, uart_drain_rx, Transmit, Timeout, Arrive, Answer, Damage, Stray, vars
    <2>. QED  BY <2>1, <2>2, <2>3
  <1>. QED  BY LagInvariant, <1>1, <1>2, PTL DEF Spec

-----------------------------------------------------------------------------
(***************************************************************************)
(* FaultsStayInCycle.                                                      *)
(*                                                                         *)
(* Why it holds: as long as there was no fault since a cycle began with no *)
(* answer outstanding, the only answer outstanding is the one to this      *)
(* request, and it arrives as the slave sent it.                           *)
(***************************************************************************)
Counted == before <= Faults /\ (before = Faults /\ pc # "done" => Clean)

LEMMA CountInit == Init => Counted
  BY DEF Init, Counted, Clean, Faults

LEMMA SumsGrow ==
  ASSUME NEW a \in Nat, NEW b \in Nat, NEW c \in Nat,
         NEW x \in Nat, NEW y \in Nat, NEW z \in Nat, x >= a, y >= b, z >= c
  PROVE  /\ x + y + z \in Nat /\ x + y + z >= a + b + c
         /\ x = a /\ y = b /\ z = c => x + y + z = a + b + c
         /\ x # a \/ y # b \/ z # c => x + y + z > a + b + c
  OBVIOUS

(* Faults are counted upwards.                                             *)
LEMMA FaultsGrow ==
  ASSUME Types, [Next]_vars
  PROVE  /\ Faults' \in Nat /\ Faults' >= Faults
         /\ lost' = lost /\ late' = late /\ noise' = noise => Faults' = Faults
         /\ lost' # lost \/ late' # late \/ noise' # noise => Faults' > Faults
  <1>1. /\ lost \in Nat /\ late \in Nat /\ noise \in Nat
        /\ lost' = lost \/ lost' = lost + 1
        /\ late' = late \/ late' = late + 1
        /\ noise' = noise \/ noise' = noise + 1
    BY Numbers DEF Next, Master, uart_drain_rx, Transmit, Check, Timeout, Arrive, Answer, Damage,
                   Stray, vars, countVars
  <1>2. /\ lost' \in Nat /\ late' \in Nat /\ noise' \in Nat
        /\ lost' >= lost /\ late' >= late /\ noise' >= noise
    BY <1>1
  <1>. QED  BY <1>1, <1>2, SumsGrow DEF Faults

(* What is known of an exchange that goes on without a fault.              *)
LEMMA CleanArrives ==
  ASSUME Types, Clean, Arrive, pc # "done"
  PROVE  pc = "wait" /\ Clean'
  <1>1. /\ line # <<>> /\ line' = Tail(line) /\ pc' = pc /\ req' = req /\ air' = air
        /\ line \in Seq(Bytes) /\ resp \in Seq(Bytes) /\ Len(resp) \in Nat
        /\ pc \in {"drain", "send", "wait", "done"}
    BY Numbers DEF Arrive, Types, TransactionTypeOK
  <1>2. CASE pc = "wait"
    <2>1. /\ air = {} /\ Arriving /\ DR = <<>> /\ DR' = <<>>
          /\ resp' = Append(resp, Head(line))
      BY <1>1, <1>2 DEF Clean, Arrive
    <2>2. /\ Head(line) = line[1] /\ Len(line') = Len(line) - 1 /\ Len(line) \in Nat
          /\ Len(line) >= 1 /\ Head(line) \in Bytes
          /\ \A i \in 1 .. Len(line) - 1 : line'[i] = line[i + 1]
      BY <1>1, TailFacts
    <2>3. /\ Len(resp') = Len(resp) + 1
          /\ \A j \in 1 .. Len(resp) : resp'[j] = resp[j]
          /\ resp'[Len(resp) + 1] = line[1]
      BY <1>1, <2>1, <2>2, AppendFacts
    <2>4. /\ Len(resp) + Len(line) = Length(req.kind)
          /\ \A i \in 1 .. Len(resp) : resp[i] = Byte(req, i)
          /\ \A i \in 1 .. Len(line) : line[i] = Byte(req, Len(resp) + i)
      BY <2>1 DEF Arriving
    <2>5. \A i \in 1 .. Len(resp') : resp'[i] = Byte(req, i)
      <3>1. SUFFICES ASSUME NEW i \in 1 .. Len(resp') PROVE resp'[i] = Byte(req, i)
        OBVIOUS
      <3>2. CASE i = Len(resp) + 1
        <4>1. line[1] = Byte(req, Len(resp) + 1)
          BY <2>2, <2>4
        <4>. QED  BY <2>3, <3>2, <4>1
      <3>3. CASE i # Len(resp) + 1
        <4>1. i \in 1 .. Len(resp)
          BY <1>1, <2>3, <3>3
        <4>. QED  BY <2>3, <2>4, <4>1
      <3>. QED  BY <3>2, <3>3
    <2>6. \A i \in 1 .. Len(line') : line'[i] = Byte(req, Len(resp') + i)
      <3>1. SUFFICES ASSUME NEW i \in 1 .. Len(line')
                     PROVE  line'[i] = Byte(req, Len(resp') + i)
        OBVIOUS
      <3>2. i + 1 \in 1 .. Len(line) /\ i \in 1 .. Len(line) - 1
        BY <2>2
      <3>3. line'[i] = Byte(req, Len(resp) + (i + 1))
        BY <2>2, <2>4, <3>2
      <3>4. Len(resp) + (i + 1) = Len(resp') + i
        BY <1>1, <2>3
      <3>. QED  BY <3>3, <3>4
    <2>7. Len(resp') + Len(line') = Length(req'.kind)
      BY <1>1, <2>2, <2>3, <2>4
    <2>8. Arriving'
      BY <1>1, <2>5, <2>6, <2>7 DEF Arriving, Byte
    <2>. QED  BY <1>1, <1>2, <2>1, <2>8 DEF Clean
  <1>3. pc = "wait"
    BY <1>1 DEF Clean
  <1>. QED  BY <1>2, <1>3

LEMMA CleanAnswers ==
  ASSUME Types, Clean, NEW f \in air, Answer(f), pc # "done"
  PROVE  Clean'
  <1>1. /\ pc = "wait" /\ air = {req} /\ resp = <<>> /\ line = <<>> /\ f = req
        /\ pc' = pc /\ req' = req /\ resp' = resp /\ air' = {} /\ DR' = <<>>
    BY DEF Clean, Answer, Types, TransactionTypeOK
  <1>2. line' = Whole(req) /\ req \in Requests
    BY <1>1, Numbers DEF Answer
  <1>3. /\ Len(line') = Length(req.kind) /\ Len(resp') = 0
        /\ \A i \in 1 .. Len(line') : line'[i] = Byte(req, i)
    BY <1>1, <1>2, WholeFacts, NothingFacts
  <1>4. Length(req.kind) \in 2 .. 4
    BY LengthFacts
  <1>5. \A i \in 1 .. Len(line') : line'[i] = Byte(req, Len(resp') + i)
    <2>1. \A i \in 1 .. Len(line') : 0 + i = i
      BY <1>3, <1>4
    <2>. QED  BY <1>3, <2>1
  <1>6. Len(resp') + Len(line') = Length(req'.kind)
    BY <1>1, <1>3, <1>4
  <1>7. Arriving'
    BY <1>1, <1>3, <1>5, <1>6 DEF Arriving, Byte
  <1>. QED  BY <1>1, <1>7 DEF Clean

(* An answer that arrived without a fault is accepted.                     *)
LEMMA CleanIsAnswer ==
  ASSUME Types, Clean, Check
  PROVE  IsAnswer /\ air = {} /\ line = <<>>
  <1>1. /\ pc = "wait" /\ Len(resp) = Length(req.kind) /\ req \in Requests
        /\ resp \in Seq(Bytes) /\ Len(resp) \in Nat /\ Len(line) \in Nat
        /\ Len(line) = 0 => line = <<>>
    BY Numbers DEF Check
  <1>2. air = {} /\ Arriving
    BY <1>1, LengthFacts, NothingFacts DEF Clean
  <1>3. line = <<>> /\ \A i \in 1 .. Len(resp) : resp[i] = Byte(req, i)
    BY <1>1, <1>2 DEF Arriving
  <1>4. resp = Whole(req)
    BY <1>1, <1>3, WholeFacts, SeqEqual
  <1>5. req.id >= 1 /\ req.id \in Nat
    BY Numbers, RequestFacts
  <1>6. req \in [id : 1 .. req.id, slave : {req.slave}, kind : {req.kind}]
    BY <1>1, <1>5, RequestFacts
  <1>. QED  BY <1>2, <1>3, <1>4, <1>6 DEF IsAnswer

(* Such an answer is waited for until it is complete.                      *)
LEMMA NoCleanTimeout ==
  ASSUME Types, Clean, late' = late
  PROVE  ~Timeout
  <1>. SUFFICES ASSUME Timeout PROVE FALSE
    OBVIOUS
  <1>1. pc = "wait" /\ Len(resp) < Length(req.kind) /\ ~Coming
    BY Numbers DEF Timeout
  <1>2. req \notin air
    BY <1>1 DEF Coming
  <1>3. Arriving
    BY <1>1, <1>2 DEF Clean
  <1>4. Len(line) >= 1 /\ Len(line) \in Nat /\ Len(resp) \in Nat /\ Length(req.kind) \in 2 .. 4
    BY <1>1, <1>3, LengthFacts, Numbers DEF Arriving
  <1>5. line[1] = Byte(req, Len(resp) + 1) /\ 1 \in 1 .. Len(line)
    BY <1>3, <1>4 DEF Arriving
  <1>6. line[1].of = req.id
    BY <1>5 DEF Byte
  <1>. QED  BY <1>1, <1>5, <1>6 DEF Coming

-----------------------------------------------------------------------------
(* A step without a fault, in a cycle without one, keeps everything clean. *)
LEMMA CleanMaster ==
  ASSUME Types, Clean, Master, pc # "done",
         lost' = lost, late' = late, noise' = noise
  PROVE  pc' # "done" => Clean'
  <1>1. CASE uart_drain_rx
    BY <1>1 DEF uart_drain_rx, Clean
  <1>2. CASE Transmit
    <2>1. /\ pc = "send" /\ pc' = "wait" /\ line = <<>> /\ air = {} /\ DR = <<>>
          /\ req' = req /\ line' = line /\ resp' = <<>> /\ DR' = <<>>
      BY <1>2 DEF Transmit, Clean
    <2>2. lost' # lost + 1
      BY Numbers
    <2>3. air' = {req}
      BY <1>2, <2>1, <2>2 DEF Transmit
    <2>. QED  BY <2>1, <2>3 DEF Clean
  <1>3. CASE Check
    <2>1. air' = {} /\ line' = <<>> /\ DR' = <<>> /\ pc' \in {"drain", "done"}
      BY <1>3, CleanIsAnswer DEF Check, Return, Clean
    <2>. QED  BY <2>1 DEF Clean
  <1>4. ~Timeout
    BY NoCleanTimeout
  <1>. QED  BY <1>1, <1>2, <1>3, <1>4 DEF Master

(* A drain that ends with nothing outstanding starts the count again.      *)
LEMMA CleanStart ==
  ASSUME Types, uart_drain_rx, before' # before
  PROVE  before' = Faults /\ Clean'
  BY DEF uart_drain_rx, CountFaults, Clean

LEMMA CountStep ==
  ASSUME Types, Counted, Next
  PROVE  Counted'
  <1>1. /\ Faults' \in Nat /\ Faults' >= Faults /\ Faults \in Nat /\ before \in Nat
        /\ lost' = lost /\ late' = late /\ noise' = noise => Faults' = Faults
        /\ lost' # lost \/ late' # late \/ noise' # noise => Faults' > Faults
    BY FaultsGrow, Numbers
  <1>2. CASE before' # before
    <2>1. uart_drain_rx
      BY <1>2 DEF Next, Master, Transmit, Check, Timeout, Arrive, Answer, Damage, Stray
    <2>2. lost' = lost /\ late' = late /\ noise' = noise
      BY <2>1 DEF uart_drain_rx, countVars
    <2>. QED  BY <1>1, <1>2, <2>1, <2>2, CleanStart DEF Counted
  <1>3. CASE before' = before /\ before # Faults'
    BY <1>1, <1>3 DEF Counted
  <1>4. CASE before' = before /\ before = Faults' /\ pc = "done"
    <2>1. pc' = "done"
      BY <1>4 DEF Next, Master, uart_drain_rx, Transmit, Check, Timeout, Arrive, Answer, Damage,
                  Stray
    <2>. QED  BY <1>1, <1>4, <2>1 DEF Counted
  <1>5. CASE before' = before /\ before = Faults' /\ pc # "done"
    <2>1. before = Faults
      BY <1>1, <1>5 DEF Counted
    <2>2. lost' = lost /\ late' = late /\ noise' = noise
      BY <1>1, <1>5, <2>1
    <2>3. Clean
      BY <1>5, <2>1 DEF Counted
    <2>4. ~Damage /\ ~Stray
      BY <2>2, Numbers DEF Damage, Stray
    <2>5. pc' # "done" => Clean'
      BY <1>5, <2>2, <2>3, <2>4, CleanMaster, CleanArrives, CleanAnswers DEF Next
    <2>. QED  BY <1>1, <1>5, <2>5 DEF Counted
  <1>. QED  BY <1>2, <1>3, <1>4, <1>5

LEMMA CountInvariant == Spec => [](Types /\ Counted)
  <1>1. Types /\ Counted /\ [Next]_vars => (Types /\ Counted)'
    <2>. SUFFICES ASSUME Types, Counted, [Next]_vars PROVE (Types /\ Counted)'
      OBVIOUS
    <2>1. CASE UNCHANGED vars
      BY <2>1 DEF vars, countVars, Types, TransactionTypeOK, Counted, Clean, Arriving, Faults,
                  Byte
    <2>2. CASE Next
      BY <2>2, TypeMaster, TypeLine, CountStep DEF Next
    <2>. QED  BY <2>1, <2>2
  <1>. QED  BY TypeInit, CountInit, <1>1, PTL DEF Spec

(* An exchange fails only after a fault in the same cycle, or in one that  *)
(* began while answers were outstanding.                                   *)
THEOREM FaultsStay == Spec => FaultsStayInCycle
  <1>1. ASSUME Types, Counted, Next, failed' > failed PROVE Faults' > before
    <2>1. /\ Faults' \in Nat /\ Faults' >= Faults /\ Faults \in Nat /\ before \in Nat
          /\ before <= Faults
          /\ lost' # lost \/ late' # late \/ noise' # noise => Faults' > Faults
      BY <1>1, FaultsGrow, Numbers DEF Counted
    <2>2. failed' # failed
      BY <1>1, Numbers
    <2>3. Check \/ Timeout
      BY <1>1, <2>2 DEF Next, Master, uart_drain_rx, Transmit, Arrive, Answer, Damage, Stray,
                        countVars
    <2>4. SUFFICES ASSUME before = Faults, lost' = lost, late' = late, noise' = noise
                   PROVE  FALSE
      BY <2>1
    <2>5. pc = "wait"
      BY <2>3 DEF Check, Timeout
    <2>6. Clean
      BY <1>1, <2>4, <2>5 DEF Counted
    <2>7. ~Timeout
      BY <1>1, <2>4, <2>6, NoCleanTimeout
    <2>8. Check /\ IsAnswer
      BY <1>1, <2>3, <2>6, <2>7, CleanIsAnswer
    <2>. QED  BY <2>2, <2>8 DEF Check, Return
  <1>2. Types /\ Counted /\ [Next]_vars => [failed' > failed => Faults' > before]_vars
    BY <1>1
  <1>. QED  BY CountInvariant, <1>2, PTL DEF Spec, FaultsStayInCycle

=============================================================================
