--------------------------- MODULE ApplyHandshake ---------------------------
(***************************************************************************)
(* What the apply registers promise to a client of the holding-register    *)
(* map, without the tasks, the copies and the bus behind them: the client  *)
(* writes setpoints to a block and asks for them with a new APPLY_TRIGGER; *)
(* LAST_APPLIED_TRIGGER answers with triggers that were asked for, in      *)
(* ascending order, and with the last one only when the slave holds what   *)
(* the block holds.  SetpointSync implements it.                           *)
(***************************************************************************)
EXTENDS Naturals

CONSTANTS Slaves, Setpoints

VARIABLES
  block,    \* block[s][i]: the setpoints of the block
  open,     \* open[s]: some were written since the trigger
  asked,    \* APPLY_TRIGGER
  acked,    \* LAST_APPLIED_TRIGGER
  has,      \* has[s][i]: what the slave holds
  unsure    \* unsure[s]: it restarted since it was last written to

clientSide == <<block, open, asked>>
vars == <<clientSide, acked, has, unsure>>

Zeros == [s \in Slaves |-> [i \in Setpoints |-> 0]]

Init ==
  /\ block = Zeros /\ has = Zeros
  /\ asked = [s \in Slaves |-> 0] /\ acked = [s \in Slaves |-> 0]
  /\ open = [s \in Slaves |-> TRUE] /\ unsure = [s \in Slaves |-> TRUE]

(* One setpoint of a block is written.                                     *)
Write(s) ==
  /\ \E i \in Setpoints : block' = [block EXCEPT ![s][i] = block'[s][i]]
  /\ open' = [open EXCEPT ![s] = TRUE]
  /\ UNCHANGED <<asked, acked, has, unsure>>

(* A new trigger asks for the block as it is.                              *)
Ask(s) ==
  /\ asked'[s] > asked[s]
  /\ asked' = [asked EXCEPT ![s] = asked'[s]]
  /\ open' = [open EXCEPT ![s] = FALSE]
  /\ UNCHANGED <<block, acked, has, unsure>>

(* Only a request that is not answered changes what the slave holds, one   *)
(* setpoint at a time.                                                     *)
Pending(s) == acked[s] < asked[s]

Begin(s) ==
  /\ Pending(s)
  /\ unsure' = [unsure EXCEPT ![s] = FALSE]
  /\ UNCHANGED <<clientSide, acked, has>>

Deliver(s) ==
  /\ Pending(s)
  /\ \E i \in Setpoints : has' = [has EXCEPT ![s][i] = has'[s][i]]
  /\ UNCHANGED <<clientSide, acked, unsure>>

(* The answer: to the last request, only with the setpoints in force.      *)
Acknowledge(s) ==
  /\ acked'[s] > acked[s] /\ acked'[s] <= asked[s]
  /\ acked' = [acked EXCEPT ![s] = acked'[s]]
  /\ acked'[s] = asked[s] /\ ~open[s] /\ ~unsure[s] => has[s] = block[s]
  /\ UNCHANGED <<clientSide, has, unsure>>

(* The slave restarts.                                                     *)
SlaveRestarts(s) ==
  /\ has' = [has EXCEPT ![s] = [i \in Setpoints |-> 0]]
  /\ unsure' = [unsure EXCEPT ![s] = TRUE]
  /\ UNCHANGED <<clientSide, acked>>

(* The master restarts.                                                    *)
MasterRestarts ==
  /\ block' = Zeros
  /\ asked' = [s \in Slaves |-> 0] /\ acked' = [s \in Slaves |-> 0]
  /\ open' = [s \in Slaves |-> TRUE]
  /\ UNCHANGED <<has, unsure>>

Next ==
  \/ \E s \in Slaves :
       \/ Write(s) \/ Ask(s) \/ Begin(s) \/ Deliver(s) \/ Acknowledge(s)
       \/ SlaveRestarts(s)
  \/ MasterRestarts

Spec == Init /\ [][Next]_vars

=============================================================================
