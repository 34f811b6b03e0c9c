------------------------------ MODULE TcpSession ------------------------------
(***************************************************************************)
(* The connections of the Modbus TCP server: TCPwaitConnData, sendTxBuffer *)
(* and ModbusCloseConnNull of Modbus.c, called by StartTaskModbusSlave,    *)
(* with the part of lwIP they see (connections that wait to be accepted,   *)
(* and the data that waits in each) and one client, the operator's PC.     *)
(*                                                                         *)
(* The client opens a connection when it likes, closing the one before or  *)
(* just leaving it, and numbers its requests upwards over all of them.  A  *)
(* network buffer holds one request, two, or a fragment of one.  Requests  *)
(* have a legal size; those of Broadcasts have the unit id 0, the others   *)
(* are answered whatever their unit id.                                    *)
(***************************************************************************)
EXTENDS Integers, Sequences

CONSTANTS MaxConns,       \* bound: connections
          MaxRequests,    \* bound: requests
          Broadcasts,     \* requests to unit id 0, ADDRESS_BROADCAST
          MaxWaiting,     \* connections that lwIP keeps to be accepted
          RecvTimeout, IdleTimeout,   \* TCP_SERVER_*_TIMEOUT_MS
          MaxResets       \* bound: connections that the network resets

ASSUME SessionAssumption ==
  /\ MaxConns \in Nat /\ MaxRequests \in Nat /\ MaxWaiting \in Nat
  /\ RecvTimeout \in Nat \ {0} /\ IdleTimeout \in Nat \ {0}
  /\ MaxResets \in Nat
  /\ Broadcasts \subseteq 1 .. MaxRequests

Conns == 1 .. MaxConns
Ids == 1 .. MaxRequests
NoConn == 0
Fragment == 0

(* Seeded bug: a second connection slot.                                   *)
TwoConnections == 2

NUMBERTCPCONN == 1

(* As many as are told apart; those from NUMBERTCPCONN on are never used.  *)
Slots == 0 .. 1

TCPgetIdleCycleLimit == (IdleTimeout + RecvTimeout - 1) \div RecvTimeout

VARIABLES
  pc, newconnIndex,
  newconns,      \* newconns[i]: the connection in slot i and its aging
  u16TransactionID,   \* of the request in process
  waiting,       \* connections to be accepted
  inbox,         \* inbox[c]: network buffers received on c and not read
  peer,          \* peer[c]: what the client has done with c
  dead,          \* connections that were reset
  pending_err,   \* those of them that netconn_err still reports
  conn, id,      \* the latest connection of the client, its latest request
  sentOn,        \* history: sentOn[r], the connection r was sent on
  executed, answers,   \* history: requests executed; answered, by connection
  quiet,         \* history: timeouts since the last data on a connection
  dropped        \* history: connections the server closed as idle

serverVars == <<pc, newconnIndex, newconns, u16TransactionID>>
netVars == <<waiting, inbox, dead, pending_err>>
clientVars == <<peer, conn, id, sentOn>>
histVars == <<executed, answers, quiet, dropped>>
vars == <<serverVars, netVars, clientVars, histVars>>

Peers == {"none", "open", "closed", "left"}

SessionTypeOK ==
  /\ pc \in {"accept", "recv", "process", "send"}
  /\ newconnIndex \in 0 .. NUMBERTCPCONN - 1
  /\ newconns \in [Slots -> [conn : 0 .. MaxConns, aging : 0 .. TCPgetIdleCycleLimit - 1]]
  /\ u16TransactionID \in 0 .. MaxRequests
  /\ waiting \in Seq(Conns) /\ Len(waiting) <= MaxWaiting
  /\ inbox \in [Conns -> Seq(Seq(0 .. MaxRequests))]
  /\ peer \in [Conns -> Peers]
  /\ dead \subseteq Conns /\ pending_err \subseteq dead
  /\ conn \in 0 .. MaxConns /\ id \in 0 .. MaxRequests
  /\ sentOn \in [Ids -> 0 .. MaxConns]
  /\ executed \in Seq(Ids) /\ answers \in [Conns -> Seq(Ids)]
  /\ quiet \in [Conns -> Nat]
  /\ dropped \subseteq Conns

Init ==
  /\ pc = "accept" /\ newconnIndex = 0
  /\ newconns = [i \in Slots |-> [conn |-> NoConn, aging |-> 0]]
  /\ u16TransactionID = 0
  /\ waiting = <<>> /\ inbox = [c \in Conns |-> <<>>]
  /\ peer = [c \in Conns |-> "none"]
  /\ dead = {} /\ pending_err = {}
  /\ conn = NoConn /\ id = 0
  /\ sentOn = [r \in Ids |-> NoConn]
  /\ executed = <<>> /\ answers = [c \in Conns |-> <<>>]
  /\ quiet = [c \in Conns |-> 0] /\ dropped = {}

-----------------------------------------------------------------------------
(* The client and the network.                                             *)

(* Connections that the server or lwIP still has.                          *)
InSlot(c) == \E i \in Slots : newconns[i].conn = c
Held(c) == InSlot(c) \/ \E k \in 1 .. Len(waiting) : waiting[k] = c

(* The client connects anew, and closes its connection or forgets it (it   *)
(* was switched off); lwIP refuses it if too many are waiting.             *)
Connect(how) ==
  /\ conn < MaxConns
  /\ Len(waiting) < MaxWaiting
  /\ conn' = conn + 1
  /\ peer' = [c \in Conns |-> IF c = conn + 1 THEN "open"
                              ELSE IF c = conn THEN how ELSE peer[c]]
  /\ waiting' = Append(waiting, conn + 1)
  /\ UNCHANGED <<serverVars, inbox, dead, pending_err, id, sentOn, histVars>>

(* The client closes its connection and stays away for a while.            *)
Close ==
  /\ conn # NoConn /\ peer[conn] = "open"
  /\ peer' = [peer EXCEPT ![conn] = "closed"]
  /\ UNCHANGED <<serverVars, netVars, conn, id, sentOn, histVars>>

(* The client sends n requests in one buffer.                              *)
Numbered(n) == [k \in 1 .. n |-> id + k]

Send(n) ==
  /\ conn # NoConn /\ peer[conn] = "open" /\ conn \notin dead /\ Held(conn)
  /\ id + n <= MaxRequests
  /\ id' = id + n
  /\ sentOn' = [r \in Ids |-> IF r \in id + 1 .. id + n THEN conn ELSE sentOn[r]]
  /\ inbox' = [inbox EXCEPT ![conn] = Append(@, Numbered(n))]
  /\ UNCHANGED <<serverVars, waiting, dead, pending_err, peer, conn, histVars>>

(* One request comes in two buffers.                                       *)
SendSplit ==
  /\ conn # NoConn /\ peer[conn] = "open" /\ conn \notin dead /\ Held(conn)
  /\ id < MaxRequests
  /\ id' = id + 1
  /\ sentOn' = [sentOn EXCEPT ![id + 1] = conn]
  /\ inbox' = [inbox EXCEPT ![conn] = @ \o << <<Fragment>>, <<Fragment>> >>]
  /\ UNCHANGED <<serverVars, waiting, dead, pending_err, peer, conn, histVars>>

(* A connection is reset.                                                  *)
NumDead == Len(SelectSeq([c \in Conns |-> c], LAMBDA c : c \in dead))

Reset(c) ==
  /\ Held(c) /\ c \notin dead /\ NumDead < MaxResets
  /\ dead' = dead \union {c}
  /\ pending_err' = pending_err \union {c}
  /\ UNCHANGED <<serverVars, waiting, inbox, clientVars, histVars>>

-----------------------------------------------------------------------------
(* The server.                                                             *)

slot == newconns[newconnIndex]
here == slot.conn

SetSlot(c, aging) ==
  newconns' = [newconns EXCEPT ![newconnIndex] = [conn |-> c, aging |-> aging]]

(* The next call of TCPwaitConnData takes the next slot.                   *)
NextIndex == IF newconnIndex + 1 >= NUMBERTCPCONN THEN 0 ELSE newconnIndex + 1

Again == pc' = "accept" /\ newconnIndex' = NextIndex

(* netconn_accept, if the slot is free.                                    *)
Accept ==
  /\ pc = "accept" /\ here = NoConn /\ waiting # <<>>
  /\ SetSlot(Head(waiting), 0)
  /\ waiting' = Tail(waiting)
  /\ pc' = "recv"
  /\ UNCHANGED <<newconnIndex, u16TransactionID, inbox, dead, pending_err, clientVars, histVars>>

NobodyWaits ==
  /\ pc = "accept" /\ here = NoConn /\ waiting = <<>>
  /\ Again
  /\ UNCHANGED <<newconns, u16TransactionID, netVars, clientVars, histVars>>

KeepConn ==
  /\ pc = "accept" /\ here # NoConn
  /\ pc' = "recv"
  /\ UNCHANGED <<newconnIndex, newconns, u16TransactionID, netVars, clientVars, histVars>>

(* ERR_CLSD: everything is read and the client has closed; or the error    *)
(* of a reset.                                                             *)
RecvClosed ==
  /\ pc = "recv" /\ inbox[here] = <<>>
  /\ peer[here] = "closed" \/ here \in dead
  /\ SetSlot(NoConn, 0)
  /\ Again
  /\ UNCHANGED <<u16TransactionID, netVars, clientVars, histVars>>

(* Seeded bug: the time without data is not counted.                       *)
NoAging == 0

Aged == slot.aging + 1

(* ERR_TIMEOUT: the connection ages, and is closed when it is old enough.  *)
RecvTimesOut ==
  /\ pc = "recv" /\ inbox[here] = <<>>
  /\ peer[here] # "closed" /\ here \notin dead
  /\ quiet' = [quiet EXCEPT ![here] = IF @ < TCPgetIdleCycleLimit THEN @ + 1 ELSE @]
  /\ IF Aged >= TCPgetIdleCycleLimit
       THEN SetSlot(NoConn, 0) /\ dropped' = dropped \union {here}
       ELSE SetSlot(here, Aged) /\ UNCHANGED dropped
  /\ Again
  /\ UNCHANGED <<u16TransactionID, netVars, clientVars, executed, answers>>

(* Seeded bug: the aging goes on where it was before the data.             *)
AgingAfterData == slot.aging

FreshAging == 0

(* Data.  It is thrown away if the connection reports an error, or if the  *)
(* buffer does not begin with a whole request; of two requests in it the   *)
(* second is not looked at.                                                *)

(* Seeded bug: the minimum size is one too large for a single write.       *)
NoBuffer(buf) == FALSE

Whole(buf) == buf[1] # Fragment

(* Seeded bug: after a fragment the request before is taken for valid.     *)
RecvDataOrStale ==
  /\ pc = "recv" /\ inbox[here] # <<>>
  /\ inbox' = [inbox EXCEPT ![here] = Tail(@)]
  /\ quiet' = [quiet EXCEPT ![here] = 0]
  /\ SetSlot(here, FreshAging)
  /\ pending_err' = pending_err \ {here}
  /\ IF here \notin pending_err /\ (Whole(Head(inbox[here])) \/ u16TransactionID # 0)
       THEN /\ u16TransactionID' = IF Whole(Head(inbox[here])) THEN Head(inbox[here])[1]
                                                              ELSE u16TransactionID
            /\ pc' = "process"
            /\ UNCHANGED newconnIndex
       ELSE Again /\ UNCHANGED u16TransactionID
  /\ UNCHANGED <<waiting, dead, clientVars, executed, answers, dropped>>

RecvData ==
  /\ pc = "recv" /\ inbox[here] # <<>>
  /\ inbox' = [inbox EXCEPT ![here] = Tail(@)]
  /\ quiet' = [quiet EXCEPT ![here] = 0]
  /\ SetSlot(here, FreshAging)
  /\ pending_err' = pending_err \ {here}
  /\ IF here \notin pending_err /\ Whole(Head(inbox[here]))
       THEN /\ u16TransactionID' = Head(inbox[here])[1]
            /\ pc' = "process"
            /\ UNCHANGED newconnIndex
       ELSE Again /\ UNCHANGED u16TransactionID
  /\ UNCHANGED <<waiting, dead, clientVars, executed, answers, dropped>>

Broadcast == u16TransactionID \in Broadcasts

(* The request is executed ...                                             *)
Process ==
  /\ pc = "process"
  /\ executed' = Append(executed, u16TransactionID)
  /\ pc' = "send"
  /\ UNCHANGED <<newconnIndex, newconns, u16TransactionID, netVars, clientVars,
                 answers, quiet, dropped>>

(* ... or refused with an exception ...                                    *)
Refuse ==
  /\ pc = "process"
  /\ pc' = "send"
  /\ UNCHANGED <<newconnIndex, newconns, u16TransactionID, netVars, clientVars, histVars>>

(* ... or, if it is a read in a broadcast, ignored.                        *)
IgnoreRead ==
  /\ pc = "process" /\ Broadcast
  /\ Again
  /\ UNCHANGED <<newconns, u16TransactionID, netVars, clientVars, histVars>>

(* The answer or the exception goes out on the connection in the slot.     *)
sendTxBuffer ==
  /\ pc = "send" /\ ~Broadcast
  /\ here \notin dead
  /\ answers' = [answers EXCEPT ![here] = Append(@, u16TransactionID)]
  /\ Again
  /\ UNCHANGED <<newconns, u16TransactionID, netVars, clientVars, executed, quiet, dropped>>

(* sendTxBuffer sends nothing in answer to a broadcast.                    *)
SendNothing ==
  /\ pc = "send" /\ Broadcast
  /\ Again
  /\ UNCHANGED <<newconns, u16TransactionID, netVars, clientVars, histVars>>

(* The write fails: the connection is closed with what it has not read.    *)
SendFails ==
  /\ pc = "send" /\ ~Broadcast
  /\ here \in dead
  /\ SetSlot(NoConn, slot.aging)
  /\ Again
  /\ UNCHANGED <<u16TransactionID, netVars, clientVars, histVars>>

Server ==
  \/ Accept \/ NobodyWaits \/ KeepConn
  \/ RecvClosed \/ RecvTimesOut \/ RecvData
  \/ Process \/ Refuse \/ IgnoreRead
  \/ sendTxBuffer \/ SendNothing \/ SendFails

Next ==
  \/ \E how \in {"closed", "left"} : Connect(how)
  \/ Close
  \/ \E n \in 1 .. 2 : Send(n)
  \/ SendSplit
  \/ \E c \in Conns : Reset(c)
  \/ Server

Spec == Init /\ [][Next]_vars

(* The task runs on; a call of the stack returns.                          *)
FairSpec == Spec /\ WF_vars(Server)

-----------------------------------------------------------------------------
(***************************************************************************)
(* Properties                                                              *)
(***************************************************************************)

Ascending(q) == \A i, j \in 1 .. Len(q) : i < j => q[i] < q[j]

(* A request is executed once at most, and never after a later one of the  *)
(* client, over whichever connections they came: one it has given up on    *)
(* does not overtake or undo one it sent since.                            *)
ExecutedInOrder == Ascending(executed)

(* What the client receives on a connection answers requests it sent on    *)
(* that connection, in their order.                                        *)
AnswersFit ==
  \A c \in Conns :
    /\ Ascending(answers[c])
    /\ \A i \in 1 .. Len(answers[c]) : sentOn[answers[c][i]] = c

(* Only a connection on which nothing has come for the whole idle time is  *)
(* closed as idle.                                                         *)
OnlyIdleDropped == \A c \in dropped : quiet[c] >= TCPgetIdleCycleLimit

(* Whoever waits is accepted, although there is one slot and the client    *)
(* before may have left without a word.                                    *)
WaitingAccepted ==
  \A c \in Conns : c \in {waiting[k] : k \in 1 .. Len(waiting)} ~> InSlot(c)

(* A request that is alone in its buffer is answered, if only with an      *)
(* exception, or its connection is lost; but no broadcast is answered.     *)
Alone(r) ==
  \E c \in Conns : \E k \in 1 .. Len(inbox[c]) : inbox[c][k] = <<r>>
Answered(r) == \E c \in Conns : \E k \in 1 .. Len(answers[c]) : answers[c][k] = r

LoneRequestAnswered ==
  \A r \in Ids \ Broadcasts : Alone(r) ~> Answered(r) \/ sentOn[r] \in dead

-----------------------------------------------------------------------------
(***************************************************************************)
(* The inductive invariant behind the three invariants.                    *)
(***************************************************************************)

(* Connections are accepted in the order in which the client opened them.  *)
AcceptedInOrder ==
  /\ pc # "accept" => here # NoConn
  /\ here <= conn
  /\ \A k \in 1 .. Len(waiting) : here < waiting[k] /\ waiting[k] <= conn
  /\ \A k, l \in 1 .. Len(waiting) : k < l => waiting[k] < waiting[l]

(* The server still reads c, or will.                                      *)
ToRead(c) == c = here \/ \E k \in 1 .. Len(waiting) : waiting[k] = c

(* What a buffer begins with.                                              *)
First(c, k) == inbox[c][k][1]

(* Unread requests were sent on the connection they are in, and a later    *)
(* connection has later ones.                                              *)
UnreadInOrder ==
  /\ \A c \in Conns : inbox[c] # <<>> => c <= conn
  /\ \A c \in Conns : \A k \in 1 .. Len(inbox[c]) :
       /\ First(c, k) \in 0 .. id
       /\ First(c, k) # Fragment => sentOn[First(c, k)] = c
  /\ \A c, d \in Conns : \A k \in 1 .. Len(inbox[c]), l \in 1 .. Len(inbox[d]) :
       (c < d \/ (c = d /\ k < l)) /\ First(c, k) # Fragment /\ First(d, l) # Fragment
         => First(c, k) < First(d, l)

(* And the server has none of them behind it.                              *)
UnreadIsLater ==
  \A c \in Conns : ToRead(c) =>
    \A k \in 1 .. Len(inbox[c]) : First(c, k) # Fragment => u16TransactionID < First(c, k)

(* The request in process came on the connection in the slot, and is later *)
(* than what has been executed and answered.                               *)
RequestInHand ==
  /\ u16TransactionID <= id
  /\ pc \in {"process", "send"} =>
       u16TransactionID # 0 /\ sentOn[u16TransactionID] = here
  /\ \A i \in 1 .. Len(executed) :
       /\ executed[i] <= u16TransactionID
       /\ pc = "process" => executed[i] < u16TransactionID
  /\ \A c \in Conns : \A i \in 1 .. Len(answers[c]) :
       /\ answers[c][i] <= u16TransactionID
       /\ pc \in {"process", "send"} => answers[c][i] < u16TransactionID

(* A connection closed as idle is not read again.                          *)
DroppedAreGone == \A c \in dropped : c <= conn /\ ~ToRead(c)

(* The aging counts timeouts since the last data.                          *)
AgingIsQuiet == here # NoConn => slot.aging <= quiet[here]

IInv ==
  /\ SessionTypeOK
  /\ AcceptedInOrder /\ UnreadInOrder /\ UnreadIsLater /\ RequestInHand
  /\ DroppedAreGone /\ AgingIsQuiet
  /\ ExecutedInOrder /\ AnswersFit /\ OnlyIdleDropped

=============================================================================
