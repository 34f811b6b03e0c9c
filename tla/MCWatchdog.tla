----------------------------- MODULE MCWatchdog -----------------------------
(***************************************************************************)
(* Heartbeats as the tasks of the firmware have them: the control and the  *)
(* storage task set their bit at least every 120 ms, the master task once  *)
(* in its cycle of five seconds, so that five or six snapshots lie between *)
(* two of its bits.                                                        *)
(***************************************************************************)
EXTENDS Watchdog

FirmwareMinGap == [t \in Tasks |-> IF t = "modbus" THEN 5 ELSE 0]
FirmwareMaxGap == [t \in Tasks |-> IF t = "modbus" THEN 6 ELSE 1]

=============================================================================
