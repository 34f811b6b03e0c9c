------------------------------ MODULE PollCycle ------------------------------
(***************************************************************************)
(* How long the RTU master task takes: GH_ModbusMasterTask_Run with every  *)
(* exchange reduced to its duration, and the registers of gh_modbus_map.c  *)
(* that depend on time, for one slave, Watched, to whose block the other   *)
(* slaves contribute nothing but the time they cost.                       *)
(*                                                                         *)
(* Time is counted in ticks and passes only in the steps that wait.  The   *)
(* master task is never kept from running for a tick.                      *)
(***************************************************************************)
EXTENDS Integers

CONSTANTS NumSlaves, Watched,
          Absent,       \* slaves that are not on the bus
          Answering,    \* durations of an exchange, if the slave is there
          Slow,         \* the longest: the request and its whole timeout
          NumWrites,    \* writes of an apply request
          MaxPending,   \* bound: apply requests in one cycle
          Period,       \* MODBUS_POLL_PERIOD_MS
          Second,       \* ticks in a second
          Top,          \* the largest age a register can hold (0xFFFF)
          Width         \* values of the tick counter (2^32)

Slaves == 1 .. NumSlaves

ASSUME CycleAssumption ==
  /\ NumSlaves \in Nat \ {0} /\ Watched \in Slaves /\ Absent \subseteq Slaves
  /\ Slow \in Nat \ {0} /\ Answering \subseteq 0 .. Slow
  /\ NumWrites \in Nat /\ MaxPending \in Nat
  /\ Period \in Nat
  /\ Second \in Nat \ {0} /\ Top \in Nat \ {0} /\ Width \in Nat \ {0}
  /\ Top * Second < Width

Never == 0 - 1

VARIABLES
  pc, s,
  elapsed,      \* since cycle_start_ms
  pending,      \* apply requests in this cycle
  tick,         \* HAL_GetTick
  last_ok_ms, status, age_sec,   \* of the slave Watched
  true_age,     \* history: since its last good read began, up to Width
  heard,        \* history: since its last telemetry request
  beat          \* history: since the last heartbeat

mapVars == <<last_ok_ms, status, age_sec>>
timeVars == <<elapsed, tick, true_age, heard, beat>>
vars == <<pc, s, pending, mapVars, timeVars>>

PollTypeOK ==
  /\ pc \in {"start", "telemetry", "diag", "apply", "next", "end"}
  /\ s \in Slaves
  /\ pending \in 0 .. MaxPending
  /\ tick \in 0 .. Width - 1 /\ last_ok_ms \in 0 .. Width - 1
  /\ status \in {"online", "stale"}
  /\ age_sec \in 0 .. Top
  /\ true_age \in Never .. Width
  /\ elapsed \in Nat /\ heard \in Nat /\ beat \in Nat

(* The task starts at any tick after the boot.                             *)
Init ==
  /\ pc = "start" /\ s = 1 /\ pending = 0 /\ elapsed = 0
  /\ tick \in 1 .. Width - 1
  /\ last_ok_ms = 0 /\ status = "stale" /\ age_sec = 0
  /\ true_age = Never /\ heard = 0 /\ beat = 0

AtMost(n, limit) == IF n <= limit THEN n ELSE limit
Larger(m, n) == IF m >= n THEN m ELSE n

Older(age, d) == IF age = Never THEN Never ELSE AtMost(age + d, Width)

(* d ticks pass.                                                           *)
Advance(d) ==
  /\ elapsed' = elapsed + d
  /\ tick' = (tick + d) % Width
  /\ beat' = beat + d

Wait(d) ==
  /\ Advance(d)
  /\ heard' = heard + d
  /\ true_age' = Older(true_age, d)

-----------------------------------------------------------------------------
(* Seeded bug: the difference is not taken modulo the width of the tick.   *)
SaturatedAge ==
  AtMost((IF tick >= last_ok_ms THEN tick - last_ok_ms ELSE 0) \div Second, Top)

AgeNow == AtMost(((tick - last_ok_ms) % Width) \div Second, Top)

(* GH_ModbusMap_UpdateAges, at the top of a cycle; 0 stands for never.     *)
UpdateAges ==
  /\ pc = "start"
  /\ age_sec' = IF last_ok_ms = 0 THEN Top ELSE AgeNow
  /\ pc' = "telemetry"
  /\ s' = 1 /\ pending' = 0 /\ elapsed' = 0
  /\ UNCHANGED <<tick, last_ok_ms, status, true_age, heard, beat>>

(* Seeded bug: the status stays as it was when the read fails.             *)
KeepStatus == UNCHANGED <<last_ok_ms, age_sec, status>>

(* GH_ModbusMap_ReportTimeout.                                             *)
ReportTimeout == status' = "stale" /\ UNCHANGED <<last_ok_ms, age_sec>>

(* GH_ModbusMap_UpdateTelemetry, with the tick from before the exchange.   *)
UpdateTelemetry == status' = "online" /\ age_sec' = 0 /\ last_ok_ms' = tick

(* An exchange with a slave that is absent takes its whole timeout.        *)
Durations == IF s \in Absent THEN {Slow} ELSE Answering

(* The telemetry is read, and succeeds or fails.                           *)
Telemetry(ok, d) ==
  /\ pc = "telemetry"
  /\ ok => s \notin Absent
  /\ Advance(d)
  /\ pc' = "diag"
  /\ IF s = Watched
       THEN /\ heard' = d
            /\ IF ok THEN UpdateTelemetry /\ true_age' = AtMost(d, Width)
                     ELSE ReportTimeout /\ true_age' = Older(true_age, d)
       ELSE /\ UNCHANGED mapVars
            /\ heard' = heard + d
            /\ true_age' = Older(true_age, d)
  /\ UNCHANGED <<s, pending>>

(* The diagnostics are read.                                               *)
Diagnostics(d) ==
  /\ pc = "diag"
  /\ Wait(d)
  /\ pc' = "apply"
  /\ UNCHANGED <<s, pending, mapVars>>

(* No apply request is pending, or one is written: the whole of it, or up  *)
(* to its first exchange that fails.                                       *)
NothingPending ==
  /\ pc = "apply"
  /\ pc' = "next"
  /\ UNCHANGED <<s, pending, mapVars, timeVars>>

ApplyRequest(d) ==
  /\ pc = "apply"
  /\ pending < MaxPending
  /\ pending' = pending + 1
  /\ Wait(d)
  /\ pc' = "next"
  /\ UNCHANGED <<s, mapVars>>

(* osDelay(1) after each slave.                                            *)
NextSlave ==
  /\ pc = "next"
  /\ Wait(1)
  /\ IF s = NumSlaves THEN pc' = "end" /\ UNCHANGED s
                      ELSE pc' = "telemetry" /\ s' = s + 1
  /\ UNCHANGED <<pending, mapVars>>

(* Seeded bug: the task sleeps a whole period after each cycle.            *)
WholePeriod == Period

(* The rest of the period, or one tick.                                    *)
Rest == IF elapsed < Period THEN Period - elapsed ELSE 1

(* Seeded bug: no heartbeat from a cycle that was too long.                *)
BeatIfInTime == IF elapsed < Period THEN Rest ELSE beat + Rest

(* task_heartbeat_kick, before the sleep.                                  *)
Beat == Rest

EndCycle ==
  /\ pc = "end"
  /\ pc' = "start"
  /\ elapsed' = elapsed + Rest
  /\ tick' = (tick + Rest) % Width
  /\ heard' = heard + Rest
  /\ true_age' = Older(true_age, Rest)
  /\ beat' = Beat
  /\ UNCHANGED <<s, pending, mapVars>>

Next ==
  \/ UpdateAges
  \/ \E d \in Durations : Telemetry(TRUE, d) \/ Telemetry(FALSE, d) \/ Diagnostics(d)
  \/ NothingPending
  \/ \E d \in 0 .. NumWrites * Slow : ApplyRequest(d)
  \/ NextSlave
  \/ EndCycle

Spec == Init /\ [][Next]_vars

-----------------------------------------------------------------------------
(***************************************************************************)
(* Properties                                                              *)
(***************************************************************************)

(* What one slave costs at most, what its apply requests add, and a cycle. *)
PerSlave == 2 * Slow + 1
ForApply == MaxPending * (NumWrites * Slow)
CycleLimit == NumSlaves * PerSlave + ForApply

(* From one start of a cycle to the next.                                  *)
StartLimit == Larger(Period, CycleLimit + 1)

(* From one telemetry request to a slave to the next.                      *)
HeardLimit ==
  Larger(Period + (Watched - 1) * PerSlave + ForApply,
         NumSlaves * PerSlave + 2 * ForApply + 1)

(* However many of the others are absent, and whatever is written between, *)
(* a slave hears from the master in time, which decides whether it goes    *)
(* into its autonomous mode.                                               *)
HeardInTime == heard <= HeardLimit

(* The heartbeat of the task comes in time.                                *)
BeatInTime == beat <= Larger(Period, 1) + CycleLimit

(* A slave that its block shows online was read well no longer ago than    *)
(* two requests to it are apart.                                           *)
OnlineIsRecent == status = "online" => true_age \in 0 .. HeardLimit

(* LAST_OK_AGE_SEC is never ahead of the true age and, up to its largest   *)
(* value, behind it by no more than a cycle and a second.  Both fail after *)
(* a whole round of the tick, and after a read at tick 0, which stands for *)
(* never.                                                                  *)
AgeIsClose ==
  true_age \in 0 .. Width - 1 /\ last_ok_ms # 0 =>
    /\ age_sec * Second <= true_age
    /\ age_sec < Top => true_age < (age_sec + 1) * Second + StartLimit

(* The documented pace: a cycle takes no longer than Period.               *)
PeriodKept == elapsed <= Period

=============================================================================
