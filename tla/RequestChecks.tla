---------------------------- MODULE RequestChecks ----------------------------
(***************************************************************************)
(* The arithmetic by which the Modbus TCP server decides whether and where *)
(* a request is executed: the translation of addresses and the sizes in    *)
(* TCPwaitConnData, validateRequest, and the first lines of process_FC3,   *)
(* process_FC6 and process_FC16 of Modbus.c, in 8 and 16 bits.             *)
(*                                                                         *)
(* The request is whole and has as many data as its quantity says.  It may *)
(* be a broadcast, with the unit id 0; no other unit id matters.           *)
(***************************************************************************)
EXTENDS Integers

CONSTANTS RegSize,                 \* GH_MB_TOTAL_REGS
          Addresses, Quantities    \* in requests

Byte == 256
Word == 65536

GH_MB_HOLDING_BASE == 41000

(* With more registers 2 * n + 5 could come round to a small number.       *)
ASSUME ChecksAssumption ==
  /\ RegSize \in 0 .. 32765
  /\ Addresses \subseteq 0 .. Word - 1 /\ Quantities \subseteq 0 .. Word - 1

Functions == {"FC3", "FC6", "FC16"}

VARIABLES
  stage,
  asked,    \* the request as it was sent
  ad,       \* the address in u8Buffer
  size,     \* u8BufferSize
  outcome,  \* what became of the request
  first, number   \* the registers it touches

checksVars == <<stage, asked, ad, size, outcome, first, number>>

Requests == [fc : Functions, ad : Addresses, n : Quantities, broadcast : BOOLEAN]

ChecksTypeOK ==
  /\ stage \in {"recv", "check", "process"}
  /\ asked \in Requests
  /\ ad \in 0 .. Word - 1
  /\ size \in 0 .. Byte - 1
  /\ outcome \in {"none", "dropped", "EXC_ADDR_RANGE", "EXC_REGS_QUANT", "ignored",
                  "executed"}
  /\ first \in Nat /\ number \in Nat

ChecksInit ==
  /\ stage = "recv" /\ asked \in Requests
  /\ ad = 0 /\ size = 0 /\ outcome = "none"
  /\ first = 0 /\ number = 0

-----------------------------------------------------------------------------
(* Seeded bug: the first register of the other range is left where it is.  *)
TranslateAbove(a) ==
  IF a > GH_MB_HOLDING_BASE THEN a - GH_MB_HOLDING_BASE ELSE a

(* Addresses from 41000 on are those of the same registers.                *)
Translate(a) == IF a >= GH_MB_HOLDING_BASE THEN a - GH_MB_HOLDING_BASE ELSE a

(* Length of a request after its header, and the largest that is taken.    *)
Length(r) == IF r.fc = "FC16" THEN 7 + 2 * r.n ELSE 6
TooLong(r) == Length(r) >= 260 - 2

BufferSize(r) == (Length(r) + 2) % Byte

(* TCPwaitConnData takes the request into u8Buffer, if it fits.            *)
TCPwaitConnData ==
  /\ stage = "recv" /\ outcome = "none"
  /\ IF TooLong(asked)
       THEN outcome' = "dropped" /\ UNCHANGED <<stage, ad, size>>
       ELSE /\ ad' = Translate(asked.ad)
            /\ size' = BufferSize(asked)
            /\ stage' = "check"
            /\ UNCHANGED outcome
  /\ UNCHANGED <<asked, first, number>>

(* Seeded bug: only the address of the first register is looked at.        *)
FirstOutside(n) == ad >= RegSize

(* The sum has more than 16 bits where it needs them.                      *)
Outside(n) == IF asked.fc = "FC6" THEN ad >= RegSize ELSE ad + n > RegSize

(* Seeded bug: the size of u8Buffer in place of what its length can count. *)
AnswerOverBuffer(n) == asked.fc # "FC6" /\ (2 * n + 5) % Word > 260

(* Of what a write is answered with the same is asked as of a read.        *)
AnswerTooLong(n) == asked.fc # "FC6" /\ (2 * n + 5) % Word > 256

(* validateRequest, after the check for the least size.                    *)
validateRequest ==
  /\ stage = "check"
  /\ IF size < 7 THEN outcome' = "dropped" /\ stage' = "recv"
     ELSE IF Outside(asked.n) THEN outcome' = "EXC_ADDR_RANGE" /\ stage' = "recv"
     ELSE IF AnswerTooLong(asked.n) THEN outcome' = "EXC_REGS_QUANT" /\ stage' = "recv"
     ELSE stage' = "process" /\ UNCHANGED outcome
  /\ UNCHANGED <<asked, ad, size, first, number>>

(* A read counts registers and bytes of its answer in 8 bits each.         *)
process_FC3 ==
  /\ asked.fc = "FC3"
  /\ first' = ad /\ number' = asked.n % Byte
  /\ size' = (3 + 2 * number') % Byte

process_FC6 ==
  /\ asked.fc = "FC6"
  /\ first' = ad /\ number' = 1
  /\ size' = 6

process_FC16 ==
  /\ asked.fc = "FC16"
  /\ first' = ad /\ number' = asked.n
  /\ size' = 6

(* A read in a broadcast is neither executed nor refused.                  *)
IsIgnored(r) == r.broadcast /\ r.fc = "FC3"

IgnoreBroadcastRead ==
  /\ stage = "process" /\ IsIgnored(asked)
  /\ outcome' = "ignored" /\ stage' = "recv"
  /\ UNCHANGED <<asked, ad, size, first, number>>

Execute ==
  /\ stage = "process" /\ ~IsIgnored(asked)
  /\ process_FC3 \/ process_FC6 \/ process_FC16
  /\ outcome' = "executed" /\ stage' = "recv"
  /\ UNCHANGED <<asked, ad>>

ChecksNext == TCPwaitConnData \/ validateRequest \/ IgnoreBroadcastRead \/ Execute

ChecksSpec == ChecksInit /\ [][ChecksNext]_checksVars

-----------------------------------------------------------------------------
(***************************************************************************)
(* Properties                                                              *)
(***************************************************************************)

(* A request that is executed touches registers of the map only, whatever  *)
(* its address and quantity are.                                           *)
StaysInMap == outcome = "executed" => number = 0 \/ first + number <= RegSize

(* The answer to a read has every register that was asked for, and its     *)
(* length is not cut to 8 bits.                                            *)
AnswerIsWhole ==
  outcome = "executed" /\ asked.fc = "FC3" => number = asked.n /\ size = 3 + 2 * asked.n

(* What the map means by an address: addr_to_index of gh_modbus_map.c,     *)
(* which the server does not call.                                         *)
addr_to_index(a) == IF a < RegSize THEN a ELSE a - GH_MB_HOLDING_BASE
HasIndex(a, n) ==
  /\ a < RegSize \/ a >= GH_MB_HOLDING_BASE
  /\ addr_to_index(a) + n <= RegSize

(* The quantities that fit a Modbus frame, both ways.                      *)
Fits(r) ==
  \/ r.fc = "FC3" /\ r.n \in 1 .. 125
  \/ r.fc = "FC6"
  \/ r.fc = "FC16" /\ r.n \in 1 .. 123
Quantity(r) == IF r.fc = "FC6" THEN 1 ELSE r.n

(* The server reaches the registers that the map means by an address, by   *)
(* either way of addressing ("supports both zero-based offsets and         *)
(* `41000`-style SCADA offsets", docs/master_protocol.md:13), and refuses  *)
(* every other request that fits a frame with EXC_ADDR_RANGE.  Of those it *)
(* would reach it ignores the reads that are broadcasts, and no others.    *)
SameAddresses ==
  Fits(asked) /\ stage = "recv" /\ outcome # "none" =>
    IF HasIndex(asked.ad, Quantity(asked))
      THEN \/ outcome = "ignored" /\ IsIgnored(asked)
           \/ /\ outcome = "executed" /\ ~IsIgnored(asked)
              /\ first = addr_to_index(asked.ad) /\ number = Quantity(asked)
      ELSE outcome = "EXC_ADDR_RANGE"

=============================================================================
