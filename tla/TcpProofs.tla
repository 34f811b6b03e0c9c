------------------------------ MODULE TcpProofs ------------------------------
(***************************************************************************)
(* Proofs about the Modbus TCP server: about TcpSession, for any number of *)
(* connections and requests, any timeouts, and any connections that the    *)
(* network resets; and about RequestChecks, for every address and quantity *)
(* of 16 bits and every size of the map up to 32765 registers.  The two    *)
(* models share no variable and are not composed here.                     *)
(***************************************************************************)
EXTENDS TcpSession, RequestChecks, SequenceTheorems, TLAPS

-----------------------------------------------------------------------------
(* Constants and the one slot.                                             *)

LEMMA Constants ==
  /\ MaxConns \in Nat /\ MaxRequests \in Nat /\ MaxWaiting \in Nat
  /\ TCPgetIdleCycleLimit \in Nat \ {0}
  <1>1. /\ MaxConns \in Nat /\ MaxRequests \in Nat /\ MaxWaiting \in Nat
        /\ RecvTimeout \in Nat \ {0} /\ IdleTimeout \in Nat \ {0}
    BY SessionAssumption
  <1>2. (IdleTimeout + RecvTimeout - 1) \div RecvTimeout \in Nat \ {0}
    BY <1>1
  <1>. QED  BY <1>1, <1>2 DEF TCPgetIdleCycleLimit

LEMMA SlotFacts ==
  ASSUME SessionTypeOK
  PROVE  /\ newconnIndex = 0 /\ NextIndex = 0
         /\ here \in 0 .. MaxConns
         /\ here # NoConn => here \in Conns
         /\ slot.aging \in 0 .. TCPgetIdleCycleLimit - 1
  BY Constants DEF SessionTypeOK, NUMBERTCPCONN, NextIndex, slot, here, Slots, Conns, NoConn

LEMMA SetSlotFacts ==
  ASSUME SessionTypeOK, NEW c \in 0 .. MaxConns, NEW a \in 0 .. TCPgetIdleCycleLimit - 1,
         SetSlot(c, a), newconnIndex' = 0
  PROVE  /\ newconns' \in [Slots -> [conn : 0 .. MaxConns, aging : 0 .. TCPgetIdleCycleLimit - 1]]
         /\ here' = c /\ slot'.aging = a
  BY SlotFacts DEF SessionTypeOK, SetSlot, slot, here, Slots

(* The queue of connections.                                               *)
LEMMA WaitingFacts ==
  ASSUME SessionTypeOK
  PROVE  Len(waiting) \in Nat /\ \A k \in 1 .. Len(waiting) : waiting[k] \in Conns
  BY LenProperties, ElementOfSeq DEF SessionTypeOK

LEMMA InboxFacts ==
  ASSUME SessionTypeOK, NEW c \in Conns
  PROVE  /\ inbox[c] \in Seq(Seq(0 .. MaxRequests)) /\ Len(inbox[c]) \in Nat
         /\ inbox[c] = <<>> <=> Len(inbox[c]) = 0
  BY LenProperties, EmptySeq DEF SessionTypeOK

-----------------------------------------------------------------------------
(* The client and the network.                                             *)

LEMMA ConnectTypes ==
  ASSUME SessionTypeOK, NEW how \in {"closed", "left"}, Connect(how)
  PROVE  /\ SessionTypeOK' /\ conn + 1 \in Conns
         /\ Len(waiting') = Len(waiting) + 1
         /\ \A k \in 1 .. Len(waiting) : waiting'[k] = waiting[k]
         /\ waiting'[Len(waiting) + 1] = conn + 1
  <1>1. conn + 1 \in Conns
    BY Constants DEF Connect, SessionTypeOK, Conns
  <1>2. /\ waiting' \in Seq(Conns) /\ Len(waiting') = Len(waiting) + 1
        /\ \A k \in 1 .. Len(waiting) : waiting'[k] = waiting[k]
        /\ waiting'[Len(waiting) + 1] = conn + 1
    BY <1>1, AppendProperties DEF Connect, SessionTypeOK
  <1>3. Len(waiting') <= MaxWaiting
    BY <1>2, WaitingFacts, Constants DEF Connect
  <1>4. peer' \in [Conns -> Peers] /\ conn' \in 0 .. MaxConns
    BY <1>1, Constants DEF Connect, SessionTypeOK, Peers, Conns
  <1>. QED  BY <1>1, <1>2, <1>3, <1>4 DEF Connect, SessionTypeOK, serverVars, histVars

(* What Send and SendSplit have in common: new buffers behind the old      *)
(* ones, all of them fragments, or one that begins with a new request.     *)
Sent ==
  /\ conn \in Conns /\ id' \in id + 1 .. MaxRequests
  /\ sentOn' \in [Ids -> 0 .. MaxConns]
  /\ \A r \in Ids : r <= id => sentOn'[r] = sentOn[r]
  /\ sentOn'[id + 1] = conn
  /\ inbox' \in [Conns -> Seq(Seq(0 .. MaxRequests))]
  /\ \A c \in Conns : c # conn => inbox'[c] = inbox[c]
  /\ Len(inbox'[conn]) > Len(inbox[conn])
  /\ \A k \in 1 .. Len(inbox[conn]) : inbox'[conn][k] = inbox[conn][k]
  /\ \/ \A k \in Len(inbox[conn]) + 1 .. Len(inbox'[conn]) : inbox'[conn][k][1] = Fragment
     \/ /\ Len(inbox'[conn]) = Len(inbox[conn]) + 1
        /\ inbox'[conn][Len(inbox[conn]) + 1][1] = id + 1

LEMMA SendSends ==
  ASSUME SessionTypeOK, NEW n \in 1 .. 2, Send(n)
  PROVE  Sent
  <1>1. conn \in Conns /\ id \in 0 .. MaxRequests /\ id + n <= MaxRequests
    BY DEF Send, SessionTypeOK, NoConn, Conns
  <1>2. Numbered(n) \in Seq(0 .. MaxRequests) /\ Numbered(n)[1] = id + 1
    <2>1. Numbered(n) \in [1 .. n -> 0 .. MaxRequests] /\ Numbered(n)[1] = id + 1
      BY <1>1, Constants DEF Numbered
    <2>2. n \in Nat
      OBVIOUS
    <2>3. [1 .. n -> 0 .. MaxRequests] \subseteq Seq(0 .. MaxRequests)
      BY <2>2, SeqDef, Zenon
    <2>. QED  BY <2>1, <2>3
  <1>3. inbox'[conn] = Append(inbox[conn], Numbered(n))
        /\ \A c \in Conns : c # conn => inbox'[c] = inbox[c]
    BY <1>1 DEF Send, SessionTypeOK
  <1>4. /\ inbox'[conn] \in Seq(Seq(0 .. MaxRequests))
        /\ Len(inbox'[conn]) = Len(inbox[conn]) + 1
        /\ \A k \in 1 .. Len(inbox[conn]) : inbox'[conn][k] = inbox[conn][k]
        /\ inbox'[conn][Len(inbox[conn]) + 1] = Numbered(n)
    BY <1>1, <1>2, <1>3, InboxFacts, AppendProperties
  <1>5. inbox' \in [Conns -> Seq(Seq(0 .. MaxRequests))]
    BY <1>1, <1>4 DEF Send, SessionTypeOK
  <1>6. /\ sentOn' \in [Ids -> 0 .. MaxConns]
        /\ \A r \in Ids : r <= id => sentOn'[r] = sentOn[r]
        /\ sentOn'[id + 1] = conn
    BY <1>1, Constants DEF Send, SessionTypeOK, Ids, Conns
  <1>7. id' \in id + 1 .. MaxRequests /\ Len(inbox'[conn]) > Len(inbox[conn])
    BY <1>1, <1>4, InboxFacts, Constants DEF Send
  <1>8. inbox'[conn][Len(inbox[conn]) + 1][1] = id + 1
    BY <1>2, <1>4
  <1>. QED  BY <1>1, <1>3, <1>4, <1>5, <1>6, <1>7, <1>8 DEF Sent

LEMMA SplitSends ==
  ASSUME SessionTypeOK, SendSplit
  PROVE  Sent
  <1>1. conn \in Conns /\ id \in 0 .. MaxRequests /\ id + 1 \in Ids
    BY Constants DEF SendSplit, SessionTypeOK, NoConn, Conns, Ids
  <1>. DEFINE two == << <<Fragment>>, <<Fragment>> >>
  <1>2. two \in Seq(Seq(0 .. MaxRequests)) /\ Len(two) = 2 /\ two[1] = <<0>> /\ two[2] = <<0>>
    BY Constants DEF Fragment
  <1>3. inbox'[conn] = inbox[conn] \o two
        /\ \A c \in Conns : c # conn => inbox'[c] = inbox[c]
    BY <1>1 DEF SendSplit, SessionTypeOK
  <1>. HIDE DEF two
  <1>4. /\ inbox'[conn] \in Seq(Seq(0 .. MaxRequests))
        /\ Len(inbox'[conn]) = Len(inbox[conn]) + 2
        /\ \A k \in 1 .. Len(inbox[conn]) + 2 :
             inbox'[conn][k] = IF k <= Len(inbox[conn]) THEN inbox[conn][k]
                                                       ELSE two[k - Len(inbox[conn])]
    <2>. DEFINE T == Seq(0 .. MaxRequests)
    <2>1. inbox[conn] \in Seq(T) /\ two \in Seq(T)
      BY <1>1, <1>2, InboxFacts
    <2>. HIDE DEF T
    <2>2. /\ inbox[conn] \o two \in Seq(T)
          /\ Len(inbox[conn] \o two) = Len(inbox[conn]) + 2
          /\ \A k \in 1 .. Len(inbox[conn]) + 2 :
               (inbox[conn] \o two)[k] = IF k <= Len(inbox[conn]) THEN inbox[conn][k]
                                         ELSE two[k - Len(inbox[conn])]
      <3>1. /\ inbox[conn] \o two \in Seq(T)
            /\ Len(inbox[conn] \o two) = Len(inbox[conn]) + Len(two)
            /\ \A k \in 1 .. Len(inbox[conn]) + Len(two) :
                 (inbox[conn] \o two)[k] = IF k <= Len(inbox[conn]) THEN inbox[conn][k]
                                           ELSE two[k - Len(inbox[conn])]
        BY <2>1, ConcatProperties, Zenon
      <3>. QED  BY <1>2, <3>1
    <2>. QED  BY <1>3, <2>2 DEF T
  <1>5. Len(inbox[conn]) \in Nat
    BY <1>1, InboxFacts
  <1>6. \A k \in Len(inbox[conn]) + 1 .. Len(inbox'[conn]) : inbox'[conn][k][1] = Fragment
    <2>. SUFFICES ASSUME NEW k \in Len(inbox[conn]) + 1 .. Len(inbox[conn]) + 2
                  PROVE  inbox'[conn][k] = <<0>>
      BY <1>4 DEF Fragment
    <2>1. k - Len(inbox[conn]) \in 1 .. 2 /\ k \in 1 .. Len(inbox[conn]) + 2
          /\ ~(k <= Len(inbox[conn]))
      BY <1>5
    <2>2. inbox'[conn][k] = two[k - Len(inbox[conn])]
      BY <1>4, <2>1
    <2>. QED  BY <1>2, <2>1, <2>2
  <1>7. \A k \in 1 .. Len(inbox[conn]) : inbox'[conn][k] = inbox[conn][k]
    <2>. SUFFICES ASSUME NEW k \in 1 .. Len(inbox[conn])
                  PROVE  inbox'[conn][k] = inbox[conn][k]
      OBVIOUS
    <2>1. k \in 1 .. Len(inbox[conn]) + 2 /\ k <= Len(inbox[conn])
      BY <1>5
    <2>. QED  BY <1>4, <2>1
  <1>8. inbox' \in [Conns -> Seq(Seq(0 .. MaxRequests))]
    <2>1. inbox' = [inbox EXCEPT ![conn] = inbox'[conn]]
      BY <1>1, <1>3 DEF SendSplit, SessionTypeOK
    <2>. QED  BY <1>1, <1>4, <2>1 DEF SessionTypeOK
  <1>9. /\ sentOn' \in [Ids -> 0 .. MaxConns]
        /\ \A r \in Ids : r <= id => sentOn'[r] = sentOn[r]
        /\ sentOn'[id + 1] = conn
    <2>1. sentOn' = [sentOn EXCEPT ![id + 1] = conn] /\ sentOn \in [Ids -> 0 .. MaxConns]
      BY DEF SendSplit, SessionTypeOK
    <2>. QED  BY <1>1, <2>1, Constants DEF Ids, Conns
  <1>10. id' \in id + 1 .. MaxRequests /\ Len(inbox'[conn]) > Len(inbox[conn])
    BY <1>1, <1>4, <1>5, Constants DEF SendSplit, Ids
  <1>. QED  BY <1>1, <1>3, <1>6, <1>7, <1>8, <1>9, <1>10 DEF Sent

-----------------------------------------------------------------------------
(* The invariant.                                                          *)

LEMMA HistoryFacts ==
  ASSUME SessionTypeOK
  PROVE  /\ Len(executed) \in Nat /\ \A i \in 1 .. Len(executed) : executed[i] \in Ids
         /\ \A c \in Conns : /\ Len(answers[c]) \in Nat
                             /\ \A i \in 1 .. Len(answers[c]) : answers[c][i] \in Ids
  <1>1. executed \in Seq(Ids) /\ \A c \in Conns : answers[c] \in Seq(Ids)
    BY DEF SessionTypeOK
  <1>. QED  BY <1>1, LenProperties, ElementOfSeq

LEMMA InitIInv == Init => IInv
  <1>. SUFFICES ASSUME Init PROVE IInv
    OBVIOUS
  <1>1. SessionTypeOK
    <2>1. <<>> \in Seq(Conns) /\ <<>> \in Seq(Ids) /\ <<>> \in Seq(Seq(0 .. MaxRequests))
      OBVIOUS
    <2>2. 0 \in 0 .. NUMBERTCPCONN - 1 /\ 0 \in 0 .. TCPgetIdleCycleLimit - 1
          /\ 0 \in 0 .. MaxConns /\ 0 \in 0 .. MaxRequests
      BY Constants DEF NUMBERTCPCONN
    <2>. QED  BY <2>1, <2>2, Constants DEF Init, SessionTypeOK, NoConn, Peers
  <1>2. /\ here = 0 /\ Len(waiting) = 0 /\ Len(executed) = 0
        /\ \A c \in Conns : Len(answers[c]) = 0 /\ Len(inbox[c]) = 0 /\ inbox[c] = <<>>
    BY DEF Init, here, slot, Slots, NoConn
  <1>3. AcceptedInOrder /\ UnreadInOrder /\ UnreadIsLater
    BY <1>2 DEF Init, AcceptedInOrder, UnreadInOrder, UnreadIsLater, NoConn
  <1>4. RequestInHand /\ DroppedAreGone /\ AgingIsQuiet
    BY <1>2 DEF Init, RequestInHand, DroppedAreGone, AgingIsQuiet, NoConn
  <1>5. ExecutedInOrder /\ AnswersFit /\ OnlyIdleDropped
    BY <1>2 DEF Init, ExecutedInOrder, AnswersFit, OnlyIdleDropped, Ascending
  <1>. QED  BY <1>1, <1>3, <1>4, <1>5 DEF IInv

(* A new connection waits behind all others, and nothing was sent on it.   *)
LEMMA ConnectStep ==
  ASSUME IInv, NEW how \in {"closed", "left"}, Connect(how)
  PROVE  IInv'
  <1>. USE DEF IInv
  <1>1. /\ SessionTypeOK' /\ conn + 1 \in Conns /\ conn' = conn + 1
        /\ Len(waiting') = Len(waiting) + 1 /\ Len(waiting) \in Nat
        /\ \A k \in 1 .. Len(waiting) : waiting'[k] = waiting[k] /\ waiting[k] \in Conns
        /\ waiting'[Len(waiting) + 1] = conn + 1
    BY ConnectTypes, WaitingFacts DEF Connect
  <1>2. /\ UNCHANGED <<pc, newconnIndex, newconns, u16TransactionID, inbox, id, sentOn, executed,
                      answers, quiet, dropped, here, slot>>
        /\ here \in Nat /\ conn \in Nat
    BY SlotFacts, Constants DEF Connect, serverVars, histVars, slot, here, SessionTypeOK
  <1>3. AcceptedInOrder'
    <2>1. \A k \in 1 .. Len(waiting') :
            \/ k \in 1 .. Len(waiting) /\ waiting'[k] = waiting[k]
            \/ k = Len(waiting) + 1 /\ waiting'[k] = conn + 1
      BY <1>1
    <2>2. \A k \in 1 .. Len(waiting') : here' < waiting'[k] /\ waiting'[k] <= conn'
      BY <1>1, <1>2, <2>1, Constants DEF AcceptedInOrder, Conns
    <2>3. \A k, l \in 1 .. Len(waiting') : k < l => waiting'[k] < waiting'[l]
      <3>. SUFFICES ASSUME NEW k \in 1 .. Len(waiting'), NEW l \in 1 .. Len(waiting'), k < l
                    PROVE  waiting'[k] < waiting'[l]
        OBVIOUS
      <3>1. k \in 1 .. Len(waiting) /\ waiting'[k] = waiting[k]
        BY <1>1
      <3>2. CASE l \in 1 .. Len(waiting)
        BY <1>1, <3>1, <3>2 DEF AcceptedInOrder
      <3>3. CASE l = Len(waiting) + 1
        BY <1>1, <1>2, <3>1, <3>3 DEF AcceptedInOrder, Conns
      <3>. QED  BY <1>1, <3>2, <3>3
    <2>4. pc' # "accept" => here' # NoConn
      BY <1>2 DEF AcceptedInOrder
    <2>5. here' <= conn'
      BY <1>1, <1>2 DEF AcceptedInOrder
    <2>. QED  BY <2>2, <2>3, <2>4, <2>5 DEF AcceptedInOrder
  <1>4. \A c \in Conns : ToRead(c)' => ToRead(c) \/ c = conn + 1
    BY <1>1, <1>2 DEF ToRead
  <1>5. UnreadInOrder'
    <2>1. \A c \in Conns : inbox[c] # <<>> => c <= conn'
      BY <1>1, <1>2 DEF UnreadInOrder, Conns
    <2>. QED  BY <1>2, <2>1 DEF UnreadInOrder, First
  <1>6. UnreadIsLater'
    <2>1. inbox[conn + 1] = <<>> /\ Len(inbox[conn + 1]) = 0
      BY <1>1, <1>2, InboxFacts DEF UnreadInOrder
    <2>. QED  BY <1>2, <1>4, <2>1 DEF UnreadIsLater, First
  <1>7. RequestInHand'
    BY <1>2 DEF RequestInHand
  <1>8. DroppedAreGone' /\ AgingIsQuiet'
    BY <1>1, <1>2, <1>4 DEF DroppedAreGone, AgingIsQuiet, SessionTypeOK, Conns
  <1>9. ExecutedInOrder' /\ AnswersFit' /\ OnlyIdleDropped'
    BY <1>2 DEF ExecutedInOrder, AnswersFit, OnlyIdleDropped
  <1>. QED  BY <1>1, <1>3, <1>5, <1>6, <1>7, <1>8, <1>9

(* New requests go to the latest connection, behind all others.            *)
LEMMA SentStep ==
  ASSUME IInv, SessionTypeOK', Sent,
         UNCHANGED <<serverVars, waiting, conn, histVars>>
  PROVE  IInv'
  <1>. USE DEF IInv
  <1>1. /\ UNCHANGED <<pc, newconnIndex, newconns, u16TransactionID, waiting, conn, executed,
                      answers, quiet, dropped, here, slot>>
        /\ conn \in Conns /\ conn \in Nat /\ id \in Nat /\ id' \in Nat /\ id' > id
        /\ id + 1 \in Ids
    BY Constants DEF Sent, serverVars, histVars, slot, here, SessionTypeOK, Conns, Ids
  <1>2. \A c \in Conns : Len(inbox[c]) \in Nat /\ Len(inbox'[c]) \in Nat
    BY InboxFacts, LenProperties DEF SessionTypeOK
  <1>3. ASSUME NEW c \in Conns, NEW k \in 1 .. Len(inbox'[c])
        PROVE  \/ k \in 1 .. Len(inbox[c]) /\ First(c, k)' = First(c, k)
               \/ c = conn /\ k > Len(inbox[c]) /\ First(c, k)' = Fragment
               \/ /\ c = conn /\ k = Len(inbox[c]) + 1 /\ k = Len(inbox'[c])
                  /\ First(c, k)' = id + 1
    <2>1. CASE c # conn
      BY <2>1 DEF Sent, First
    <2>2. CASE c = conn /\ k \in 1 .. Len(inbox[c])
      BY <2>2 DEF Sent, First
    <2>3. CASE c = conn /\ k \notin 1 .. Len(inbox[c])
      <3>1. k \in Len(inbox[c]) + 1 .. Len(inbox'[c])
        BY <1>2, <2>3
      <3>. QED  BY <1>2, <2>3, <3>1 DEF Sent, First
    <2>. QED  BY <2>1, <2>2, <2>3
  <1>4. ASSUME NEW c \in Conns, NEW k \in 1 .. Len(inbox[c])
        PROVE  First(c, k) \in 0 .. id /\ (First(c, k) # Fragment => First(c, k) \in Ids)
    <2>1. First(c, k) \in 0 .. id
      BY DEF UnreadInOrder
    <2>2. 0 .. id \subseteq 0 .. MaxRequests
      BY <1>1, Constants DEF SessionTypeOK
    <2>. QED  BY <1>1, <2>1, <2>2, Constants DEF Fragment, Ids
  <1>5. UnreadInOrder'
    <2>1. ASSUME NEW c \in Conns, inbox'[c] # <<>> PROVE c <= conn
      <3>1. c = conn \/ inbox'[c] = inbox[c]
        BY DEF Sent
      <3>2. inbox[c] # <<>> => c <= conn
        BY DEF UnreadInOrder
      <3>3. c = conn => c <= conn
        BY <1>1
      <3>. QED  BY <2>1, <3>1, <3>2, <3>3, Zenon
    <2>2. ASSUME NEW c \in Conns, NEW k \in 1 .. Len(inbox'[c])
          PROVE  /\ First(c, k)' \in 0 .. id'
                 /\ First(c, k)' # Fragment => sentOn'[First(c, k)'] = c
      <3>1. CASE k \in 1 .. Len(inbox[c]) /\ First(c, k)' = First(c, k)
        <4>1. First(c, k) # Fragment => sentOn'[First(c, k)] = sentOn[First(c, k)]
          BY <1>4, <3>1 DEF Sent
        <4>2. First(c, k) # Fragment => sentOn[First(c, k)] = c
          BY <3>1 DEF UnreadInOrder
        <4>. QED  BY <1>1, <1>4, <3>1, <4>1, <4>2
      <3>2. CASE First(c, k)' = Fragment
        BY <1>1, <3>2 DEF Fragment
      <3>3. CASE c = conn /\ First(c, k)' = id + 1
        BY <1>1, <3>3 DEF Sent
      <3>. QED  BY <1>3, <3>1, <3>2, <3>3
    <2>3. ASSUME NEW c \in Conns, NEW d \in Conns,
                 NEW k \in 1 .. Len(inbox'[c]), NEW l \in 1 .. Len(inbox'[d]),
                 c < d \/ (c = d /\ k < l), First(c, k)' # Fragment, First(d, l)' # Fragment
          PROVE  First(c, k)' < First(d, l)'
      <3>1. CASE l \in 1 .. Len(inbox[d]) /\ First(d, l)' = First(d, l)
        <4>1. inbox[d] # <<>> /\ d <= conn
          BY <3>1, <1>2, InboxFacts DEF UnreadInOrder
        <4>2. k \in 1 .. Len(inbox[c]) /\ First(c, k)' = First(c, k)
          BY <1>1, <1>2, <1>3, <2>3, <3>1, <4>1 DEF Conns
        <4>. QED  BY <2>3, <3>1, <4>2 DEF UnreadInOrder
      <3>2. CASE d = conn /\ l = Len(inbox[d]) + 1 /\ l = Len(inbox'[d]) /\ First(d, l)' = id + 1
        <4>1. k \in 1 .. Len(inbox[c]) /\ First(c, k)' = First(c, k)
          BY <1>1, <1>2, <1>3, <2>3, <3>2 DEF Conns
        <4>. QED  BY <1>1, <1>4, <3>2, <4>1
      <3>. QED  BY <1>3, <2>3, <3>1, <3>2
    <2>. QED  BY <1>1, <2>1, <2>2, <2>3 DEF UnreadInOrder
  <1>6. UnreadIsLater'
    <2>. SUFFICES ASSUME NEW c \in Conns, ToRead(c)', NEW k \in 1 .. Len(inbox'[c]),
                         First(c, k)' # Fragment
                  PROVE  u16TransactionID < First(c, k)'
      BY <1>1 DEF UnreadIsLater
    <2>1. ToRead(c)
      BY <1>1 DEF ToRead
    <2>2. CASE k \in 1 .. Len(inbox[c]) /\ First(c, k)' = First(c, k)
      BY <2>1, <2>2 DEF UnreadIsLater
    <2>3. CASE First(c, k)' = id + 1
      BY <1>1, <2>3 DEF RequestInHand, SessionTypeOK
    <2>. QED  BY <1>3, <2>2, <2>3
  <1>7. RequestInHand'
    <2>1. u16TransactionID <= id'
      BY <1>1 DEF RequestInHand, SessionTypeOK
    <2>2. pc \in {"process", "send"} => u16TransactionID # 0 /\ sentOn'[u16TransactionID] = here
      <3>. SUFFICES ASSUME pc \in {"process", "send"}
                    PROVE  u16TransactionID # 0 /\ sentOn'[u16TransactionID] = here
        OBVIOUS
      <3>1. u16TransactionID \in Ids /\ u16TransactionID <= id
        BY Constants DEF RequestInHand, SessionTypeOK, Ids
      <3>. QED  BY <3>1 DEF RequestInHand, Sent
    <2>. QED  BY <1>1, <2>1, <2>2 DEF RequestInHand
  <1>8. AcceptedInOrder' /\ DroppedAreGone' /\ AgingIsQuiet'
    BY <1>1 DEF AcceptedInOrder, DroppedAreGone, AgingIsQuiet, ToRead
  <1>9. AnswersFit'
    <2>. SUFFICES ASSUME NEW c \in Conns, NEW i \in 1 .. Len(answers[c])
                  PROVE  sentOn'[answers[c][i]] = sentOn[answers[c][i]]
      BY <1>1 DEF AnswersFit
    <2>1. answers[c][i] \in Ids /\ answers[c][i] <= u16TransactionID
      BY HistoryFacts DEF RequestInHand
    <2>2. answers[c][i] <= id
      BY <1>1, <2>1 DEF RequestInHand, SessionTypeOK, Ids
    <2>. QED  BY <2>1, <2>2 DEF Sent
  <1>10. ExecutedInOrder' /\ OnlyIdleDropped'
    BY <1>1 DEF ExecutedInOrder, OnlyIdleDropped
  <1>. QED  BY <1>5, <1>6, <1>7, <1>8, <1>9, <1>10

LEMMA SendStep ==
  ASSUME IInv, NEW n \in 1 .. 2, Send(n)
  PROVE  IInv'
  <1>1. SessionTypeOK /\ Sent
    BY SendSends DEF IInv
  <1>2. SessionTypeOK'
    <2>1. id' \in 0 .. MaxRequests
      BY <1>1, Constants DEF Sent, SessionTypeOK
    <2>2. UNCHANGED <<serverVars, waiting, dead, pending_err, peer, conn, histVars>>
      BY DEF Send
    <2>. QED  BY <1>1, <2>1, <2>2 DEF Sent, SessionTypeOK, serverVars, histVars
  <1>. QED  BY <1>1, <1>2, SentStep DEF Send

LEMMA SplitStep ==
  ASSUME IInv, SendSplit
  PROVE  IInv'
  <1>1. SessionTypeOK /\ Sent
    BY SplitSends DEF IInv
  <1>2. UNCHANGED <<serverVars, waiting, dead, pending_err, peer, conn, histVars>>
    BY DEF SendSplit
  <1>3. SessionTypeOK'
    <2>1. id' \in 0 .. MaxRequests
      BY <1>1, Constants DEF Sent, SessionTypeOK
    <2>. QED  BY <1>1, <1>2, <2>1 DEF Sent, SessionTypeOK, serverVars, histVars
  <1>. QED  BY <1>1, <1>2, <1>3, SentStep

(* What the other steps of the environment change no part but the types    *)
(* speaks of.                                                              *)
LEMMA EnvironmentStep ==
  ASSUME IInv, Close \/ \E c \in Conns : Reset(c)
  PROVE  IInv'
  <1>1. /\ UNCHANGED <<serverVars, waiting, inbox, conn, id, sentOn, histVars>>
        /\ peer' \in [Conns -> Peers] /\ dead' \subseteq Conns /\ pending_err' \subseteq dead'
    <2>1. CASE Close
      BY <2>1 DEF Close, netVars, IInv, SessionTypeOK, Peers
    <2>2. ASSUME NEW c \in Conns, Reset(c)
          PROVE  /\ UNCHANGED <<serverVars, waiting, inbox, conn, id, sentOn, histVars>>
                 /\ peer' \in [Conns -> Peers] /\ dead' \subseteq Conns
                 /\ pending_err' \subseteq dead'
      BY <2>2 DEF Reset, clientVars, IInv, SessionTypeOK
    <2>. QED  BY <2>1, <2>2
  <1>2. SessionTypeOK'
    BY <1>1 DEF IInv, SessionTypeOK, serverVars, histVars
  <1>. QED
    BY <1>1, <1>2 DEF IInv, AcceptedInOrder, UnreadInOrder, UnreadIsLater, RequestInHand,
       DroppedAreGone, AgingIsQuiet, ExecutedInOrder, AnswersFit, OnlyIdleDropped, First, ToRead,
       slot, here, serverVars, histVars

-----------------------------------------------------------------------------
(* The server.                                                             *)

(* Types, for a step that sets the slot.                                   *)
LEMMA SlotTypes ==
  ASSUME SessionTypeOK, NEW c \in 0 .. MaxConns, NEW a \in 0 .. TCPgetIdleCycleLimit - 1,
         SetSlot(c, a), newconnIndex' = 0,
         pc' \in {"accept", "recv", "process", "send"},
         u16TransactionID' \in 0 .. MaxRequests,
         waiting' \in Seq(Conns), Len(waiting') <= MaxWaiting,
         inbox' \in [Conns -> Seq(Seq(0 .. MaxRequests))],
         pending_err' \subseteq dead, UNCHANGED <<dead, clientVars, executed, answers>>,
         quiet' \in [Conns -> Nat], dropped' \subseteq Conns
  PROVE  SessionTypeOK' /\ here' = c /\ slot'.aging = a
  BY SetSlotFacts DEF SessionTypeOK, clientVars, NUMBERTCPCONN

(* A step after which the server waits for its next call, or for data, and *)
(* keeps the connection or gives it up.                                    *)
LEMMA SettledStep ==
  ASSUME IInv, SessionTypeOK', DroppedAreGone', AgingIsQuiet', OnlyIdleDropped',
         pc' \in {"accept", "recv"}, pc' # "accept" => here' # NoConn,
         here' \in {here, NoConn},
         UNCHANGED <<u16TransactionID, waiting, inbox, conn, id, sentOn, executed, answers>>
  PROVE  IInv'
  <1>. USE DEF IInv
  <1>1. here \in Nat /\ conn \in Nat
    BY SlotFacts, Constants DEF SessionTypeOK
  <1>2. AcceptedInOrder'
    <2>1. here' <= here
      BY <1>1 DEF NoConn
    <2>2. \A i \in 1 .. Len(waiting) : here' < waiting[i] /\ waiting[i] <= conn
      BY <1>1, <2>1, WaitingFacts DEF AcceptedInOrder, NoConn, Conns
    <2>. QED  BY <1>1, <2>1, <2>2 DEF AcceptedInOrder, NoConn
  <1>3. UnreadInOrder'
    BY DEF UnreadInOrder, First
  <1>4. UnreadIsLater'
    <2>1. \A c \in Conns : ToRead(c)' => ToRead(c)
      BY DEF ToRead, Conns, NoConn
    <2>. QED  BY <2>1 DEF UnreadIsLater, First
  <1>5. RequestInHand'
    BY DEF RequestInHand
  <1>6. ExecutedInOrder' /\ AnswersFit'
    BY DEF ExecutedInOrder, AnswersFit
  <1>. QED  BY <1>2, <1>3, <1>4, <1>5, <1>6

LEMMA IdleStep ==
  ASSUME IInv, NobodyWaits \/ KeepConn
  PROVE  IInv'
  <1>. USE DEF IInv
  <1>1. /\ UNCHANGED <<newconnIndex, newconns, u16TransactionID, netVars, clientVars, histVars>>
        /\ pc' \in {"accept", "recv"} /\ (pc' = "recv" => here # NoConn)
    BY SlotFacts DEF NobodyWaits, KeepConn, Again
  <1>2. here' = here /\ slot' = slot
    BY <1>1 DEF slot, here
  <1>3. SessionTypeOK'
    BY <1>1 DEF SessionTypeOK, netVars, clientVars, histVars
  <1>4. DroppedAreGone' /\ AgingIsQuiet' /\ OnlyIdleDropped'
    BY <1>1, <1>2 DEF DroppedAreGone, AgingIsQuiet, OnlyIdleDropped, ToRead, netVars, clientVars,
                      histVars
  <1>. QED  BY <1>1, <1>2, <1>3, <1>4, SettledStep DEF netVars, clientVars, histVars

LEMMA AcceptStep ==
  ASSUME IInv, Accept
  PROVE  IInv'
  <1>. USE DEF IInv
  <1>1. /\ Head(waiting) \in Conns /\ Head(waiting) = waiting[1] /\ Len(waiting) \in Nat \ {0}
        /\ waiting' \in Seq(Conns) /\ Len(waiting') = Len(waiting) - 1
        /\ \A k \in 1 .. Len(waiting') : waiting'[k] = waiting[k + 1]
    BY HeadTailProperties, EmptySeq, WaitingFacts DEF Accept, SessionTypeOK
  <1>2. UNCHANGED <<newconnIndex, u16TransactionID, inbox, dead, pending_err, clientVars, histVars>>
    BY DEF Accept
  <1>3. SessionTypeOK' /\ here' = waiting[1] /\ slot'.aging = 0
    <2>1. Head(waiting) \in 0 .. MaxConns /\ 0 \in 0 .. TCPgetIdleCycleLimit - 1
          /\ Len(waiting') <= MaxWaiting /\ newconnIndex' = 0
      BY <1>1, <1>2, Constants, SlotFacts DEF SessionTypeOK, Conns
    <2>. QED  BY <1>1, <1>2, <2>1, SlotTypes DEF Accept, SessionTypeOK, histVars
  <1>4. ASSUME NEW c \in Conns, ToRead(c)' PROVE ToRead(c)
    <2>1. CASE c = here'
      <3>1. c = waiting[1] /\ 1 \in 1 .. Len(waiting)
        BY <1>1, <1>3, <2>1
      <3>. QED  BY <3>1 DEF ToRead
    <2>2. CASE \E k \in 1 .. Len(waiting') : waiting'[k] = c
      <3>1. PICK k \in 1 .. Len(waiting') : waiting'[k] = c
        BY <2>2
      <3>2. k + 1 \in 1 .. Len(waiting) /\ waiting[k + 1] = c
        BY <1>1, <3>1
      <3>. QED  BY <3>2 DEF ToRead
    <2>. QED  BY <1>4, <2>1, <2>2 DEF ToRead
  <1>5. AcceptedInOrder'
    <2>1. \A k \in 1 .. Len(waiting') : k + 1 \in 1 .. Len(waiting) /\ 1 < k + 1
      BY <1>1
    <2>2. \A k \in 1 .. Len(waiting') : here' < waiting'[k] /\ waiting'[k] <= conn
      BY <1>1, <1>3, <2>1 DEF AcceptedInOrder
    <2>3. \A k, l \in 1 .. Len(waiting') : k < l => waiting'[k] < waiting'[l]
      <3>1. \A k, l \in 1 .. Len(waiting') : k < l => k + 1 < l + 1
        OBVIOUS
      <3>. QED  BY <1>1, <2>1, <3>1 DEF AcceptedInOrder
    <2>4. here' # NoConn /\ here' <= conn
      BY <1>1, <1>3 DEF AcceptedInOrder, Conns, NoConn
    <2>. QED  BY <1>2, <2>2, <2>3, <2>4 DEF AcceptedInOrder, clientVars
  <1>6. UnreadInOrder' /\ UnreadIsLater'
    BY <1>2, <1>4 DEF UnreadInOrder, UnreadIsLater, First, clientVars
  <1>7. RequestInHand'
    BY <1>2 DEF RequestInHand, Accept, clientVars, histVars
  <1>8. DroppedAreGone'
    BY <1>2, <1>4 DEF DroppedAreGone, clientVars, histVars, SessionTypeOK
  <1>9. AgingIsQuiet'
    BY <1>1, <1>3 DEF AgingIsQuiet, SessionTypeOK
  <1>10. ExecutedInOrder' /\ AnswersFit' /\ OnlyIdleDropped'
    BY <1>2 DEF ExecutedInOrder, AnswersFit, OnlyIdleDropped, clientVars, histVars
  <1>. QED  BY <1>3, <1>5, <1>6, <1>7, <1>8, <1>9, <1>10

(* The connection is given up, after its end or a failed write.            *)
LEMMA CloseStep ==
  ASSUME IInv, RecvClosed \/ SendFails
  PROVE  IInv'
  <1>. USE DEF IInv
  <1>1. /\ pc' = "accept" /\ newconnIndex' = 0
        /\ UNCHANGED <<u16TransactionID, netVars, clientVars, histVars>>
        /\ \E a \in 0 .. TCPgetIdleCycleLimit - 1 : SetSlot(NoConn, a)
    BY SlotFacts, Constants DEF RecvClosed, SendFails, Again
  <1>2. SessionTypeOK' /\ here' = NoConn
    <2>1. NoConn \in 0 .. MaxConns
      BY Constants DEF NoConn
    <2>. QED  BY <1>1, <2>1, SlotTypes DEF SessionTypeOK, netVars, clientVars, histVars
  <1>3. DroppedAreGone'
    BY <1>1, <1>2 DEF DroppedAreGone, ToRead, NoConn, Conns, SessionTypeOK, netVars, clientVars,
                      histVars
  <1>4. AgingIsQuiet' /\ OnlyIdleDropped'
    BY <1>1, <1>2 DEF AgingIsQuiet, OnlyIdleDropped, histVars
  <1>. QED  BY <1>1, <1>2, <1>3, <1>4, SettledStep DEF netVars, clientVars, histVars

(* The aging and the timeouts since the last data go up together.          *)
LEMMA TimeoutStep ==
  ASSUME IInv, RecvTimesOut
  PROVE  IInv'
  <1>. USE DEF IInv
  <1>1. /\ here \in Conns /\ newconnIndex' = 0 /\ pc' = "accept"
        /\ UNCHANGED <<u16TransactionID, netVars, clientVars, executed, answers>>
        /\ slot.aging \in 0 .. TCPgetIdleCycleLimit - 1 /\ quiet[here] \in Nat
        /\ slot.aging <= quiet[here]
    BY SlotFacts DEF RecvTimesOut, Again, AcceptedInOrder, AgingIsQuiet, SessionTypeOK
  <1>2. /\ quiet' \in [Conns -> Nat]
        /\ \A c \in Conns : c # here => quiet'[c] = quiet[c]
        /\ quiet'[here] >= quiet[here]
        /\ quiet'[here] >= slot.aging + 1
    <2>1. quiet' = [quiet EXCEPT ![here] = IF @ < TCPgetIdleCycleLimit THEN @ + 1 ELSE @]
          /\ quiet \in [Conns -> Nat]
      BY DEF RecvTimesOut, SessionTypeOK
    <2>2. quiet'[here] = IF quiet[here] < TCPgetIdleCycleLimit THEN quiet[here] + 1
                         ELSE quiet[here]
      BY <1>1, <2>1
    <2>3. quiet'[here] \in Nat /\ quiet'[here] >= quiet[here] /\ quiet'[here] >= slot.aging + 1
      BY <1>1, <2>2, Constants
    <2>4. \A c \in Conns : c # here => quiet'[c] = quiet[c]
      BY <2>1
    <2>. QED  BY <1>1, <2>1, <2>3, <2>4
  <1>3. CASE Aged >= TCPgetIdleCycleLimit
    <2>1. SetSlot(NoConn, 0) /\ dropped' = dropped \union {here}
      BY <1>3 DEF RecvTimesOut
    <2>2. SessionTypeOK' /\ here' = NoConn
      <3>1. NoConn \in 0 .. MaxConns /\ 0 \in 0 .. TCPgetIdleCycleLimit - 1
        BY Constants DEF NoConn
      <3>. QED  BY <1>1, <1>2, <2>1, <3>1, SlotTypes DEF SessionTypeOK, netVars, clientVars
    <2>3. DroppedAreGone'
      <3>. SUFFICES ASSUME NEW c \in dropped' PROVE c <= conn /\ ~ToRead(c)'
        BY <1>1 DEF DroppedAreGone, clientVars
      <3>1. CASE c = here
        <4>1. c <= conn /\ ~\E k \in 1 .. Len(waiting) : waiting[k] = c
          BY <1>1, <3>1, WaitingFacts DEF AcceptedInOrder, Conns
        <4>. QED  BY <1>1, <2>2, <3>1, <4>1 DEF ToRead, netVars, Conns, NoConn
      <3>2. CASE c \in dropped
        BY <1>1, <2>2, <3>2 DEF DroppedAreGone, ToRead, netVars, NoConn, Conns, SessionTypeOK
      <3>. QED  BY <2>1, <3>1, <3>2
    <2>4. AgingIsQuiet'
      BY <2>2 DEF AgingIsQuiet
    <2>5. OnlyIdleDropped'
      <3>1. quiet'[here] >= TCPgetIdleCycleLimit
        BY <1>1, <1>2, <1>3, Constants DEF Aged
      <3>2. ASSUME NEW c \in dropped' PROVE quiet'[c] >= TCPgetIdleCycleLimit
        BY <1>2, <2>1, <3>1 DEF OnlyIdleDropped, SessionTypeOK
      <3>. QED  BY <3>2 DEF OnlyIdleDropped
    <2>. QED  BY <1>1, <2>2, <2>3, <2>4, <2>5, SettledStep DEF netVars, clientVars
  <1>4. CASE ~(Aged >= TCPgetIdleCycleLimit)
    <2>1. SetSlot(here, Aged) /\ dropped' = dropped
      BY <1>4 DEF RecvTimesOut
    <2>2. SessionTypeOK' /\ here' = here /\ slot'.aging = Aged
      <3>1. here \in 0 .. MaxConns /\ Aged \in 0 .. TCPgetIdleCycleLimit - 1
        BY <1>1, <1>4, SlotFacts, Constants DEF Aged
      <3>. QED  BY <1>1, <1>2, <2>1, <3>1, SlotTypes DEF SessionTypeOK, netVars, clientVars
    <2>3. DroppedAreGone'
      BY <1>1, <2>1, <2>2 DEF DroppedAreGone, ToRead, netVars, clientVars
    <2>4. AgingIsQuiet'
      BY <1>2, <2>2 DEF AgingIsQuiet, Aged
    <2>5. OnlyIdleDropped'
      BY <1>1, <1>2, <2>1 DEF OnlyIdleDropped, DroppedAreGone, ToRead, SessionTypeOK
    <2>. QED  BY <1>1, <2>2, <2>3, <2>4, <2>5, SettledStep DEF netVars, clientVars
  <1>. QED  BY <1>3, <1>4

(* A request taken in hand is later than all before it and earlier than    *)
(* all that is unread.                                                     *)
LEMMA DataStep ==
  ASSUME IInv, RecvData
  PROVE  IInv'
  <1>. USE DEF IInv
  <1>1. /\ here \in Conns /\ newconnIndex' = 0
        /\ UNCHANGED <<waiting, dead, clientVars, executed, answers, dropped>>
        /\ pc = "recv" /\ SetSlot(here, 0) /\ ToRead(here)
    BY SlotFacts DEF RecvData, Again, AcceptedInOrder, FreshAging, ToRead
  <1>2. /\ Len(inbox[here]) \in Nat \ {0} /\ Head(inbox[here]) = inbox[here][1]
        /\ Tail(inbox[here]) \in Seq(Seq(0 .. MaxRequests))
        /\ Len(Tail(inbox[here])) = Len(inbox[here]) - 1
        /\ \A k \in 1 .. Len(Tail(inbox[here])) : Tail(inbox[here])[k] = inbox[here][k + 1]
    <2>. DEFINE T == Seq(0 .. MaxRequests)
    <2>1. inbox[here] \in Seq(T) /\ inbox[here] # <<>> /\ Len(inbox[here]) \in Nat \ {0}
      BY <1>1, InboxFacts DEF RecvData
    <2>. HIDE DEF T
    <2>2. /\ Tail(inbox[here]) \in Seq(T)
          /\ Len(Tail(inbox[here])) = Len(inbox[here]) - 1
          /\ \A k \in 1 .. Len(Tail(inbox[here])) : Tail(inbox[here])[k] = inbox[here][k + 1]
      BY <2>1, HeadTailProperties, Zenon
    <2>3. Head(inbox[here]) = inbox[here][1]
      BY <2>1
    <2>. QED  BY <2>1, <2>2, <2>3 DEF T
  <1>3. /\ inbox' \in [Conns -> Seq(Seq(0 .. MaxRequests))]
        /\ inbox'[here] = Tail(inbox[here])
        /\ \A c \in Conns : c # here => inbox'[c] = inbox[c]
    <2>1. inbox' = [inbox EXCEPT ![here] = Tail(@)]
          /\ inbox \in [Conns -> Seq(Seq(0 .. MaxRequests))]
      BY DEF RecvData, SessionTypeOK
    <2>. QED  BY <1>1, <1>2, <2>1
  <1>4. /\ quiet' \in [Conns -> Nat]
        /\ \A c \in Conns : c # here => quiet'[c] = quiet[c]
    BY <1>1 DEF RecvData, SessionTypeOK
  <1>. DEFINE before(c, k) == IF c = here THEN k + 1 ELSE k
  <1>5. ASSUME NEW c \in Conns, NEW k \in 1 .. Len(inbox'[c])
        PROVE  before(c, k) \in 1 .. Len(inbox[c]) /\ First(c, k)' = First(c, before(c, k))
    <2>1. CASE c = here
      <3>1. k + 1 \in 1 .. Len(inbox[here]) /\ inbox'[here][k] = inbox[here][k + 1]
        BY <1>2, <1>3, <2>1
      <3>. QED  BY <2>1, <3>1 DEF First
    <2>2. CASE c # here
      BY <1>3, <2>2 DEF First
    <2>. QED  BY <2>1, <2>2
  <1>6. UnreadInOrder'
    <2>1. ASSUME NEW c \in Conns, inbox'[c] # <<>>
          PROVE  c <= conn'
      <3>1. inbox[c] # <<>>
        BY <1>1, <1>3, <2>1, <1>2, EmptySeq
      <3>. QED  BY <1>1, <3>1 DEF UnreadInOrder, clientVars
    <2>2. ASSUME NEW c \in Conns, NEW k \in 1 .. Len(inbox'[c])
          PROVE  /\ First(c, k)' \in 0 .. id'
                 /\ First(c, k)' # Fragment => sentOn'[First(c, k)'] = c
      BY <1>1, <1>5 DEF UnreadInOrder, clientVars
    <2>3. ASSUME NEW c \in Conns, NEW d \in Conns,
                 NEW k \in 1 .. Len(inbox'[c]), NEW l \in 1 .. Len(inbox'[d]),
                 c < d \/ (c = d /\ k < l), First(c, k)' # Fragment, First(d, l)' # Fragment
          PROVE  First(c, k)' < First(d, l)'
      <3>1. c < d \/ (c = d /\ before(c, k) < before(d, l))
        BY <2>3
      <3>2. /\ before(c, k) \in 1 .. Len(inbox[c]) /\ First(c, k)' = First(c, before(c, k))
            /\ before(d, l) \in 1 .. Len(inbox[d]) /\ First(d, l)' = First(d, before(d, l))
        BY <1>5
      <3>. HIDE DEF before
      <3>. QED  BY <2>3, <3>1, <3>2 DEF UnreadInOrder
    <2>. QED  BY <2>1, <2>2, <2>3 DEF UnreadInOrder
  <1>7. AcceptedInOrder' /\ DroppedAreGone' /\ AgingIsQuiet' /\ OnlyIdleDropped' /\ SessionTypeOK'
        /\ here' = here
    <2>1. /\ pc' \in {"accept", "process"} /\ u16TransactionID' \in 0 .. MaxRequests
          /\ pending_err' \subseteq dead
      <3>1. First(here, 1) \in 0 .. MaxRequests
        <4>1. 1 \in 1 .. Len(inbox[here])
          BY <1>2
        <4>2. First(here, 1) \in 0 .. id
          BY <1>1, <4>1 DEF UnreadInOrder
        <4>. QED  BY <4>2, Constants DEF SessionTypeOK
      <3>2. u16TransactionID' \in {u16TransactionID, First(here, 1)}
        BY <1>2 DEF RecvData, First
      <3>. QED  BY <3>1, <3>2 DEF RecvData, Again, SessionTypeOK
    <2>2. SessionTypeOK' /\ here' = here /\ slot'.aging = 0
      <3>1. here \in 0 .. MaxConns /\ 0 \in 0 .. TCPgetIdleCycleLimit - 1
        BY SlotFacts, Constants
      <3>. QED  BY <1>1, <1>3, <1>4, <2>1, <3>1, SlotTypes DEF SessionTypeOK
    <2>3. AcceptedInOrder'
      BY <1>1, <2>2 DEF AcceptedInOrder, clientVars, Conns, NoConn
    <2>4. DroppedAreGone'
      BY <1>1, <2>2 DEF DroppedAreGone, ToRead, clientVars
    <2>5. AgingIsQuiet'
      BY <1>1, <1>4, <2>2 DEF AgingIsQuiet
    <2>6. OnlyIdleDropped'
      <3>1. here \notin dropped
        BY <1>1 DEF DroppedAreGone
      <3>. QED  BY <1>1, <1>4, <3>1 DEF OnlyIdleDropped, SessionTypeOK
    <2>. QED  BY <2>2, <2>3, <2>4, <2>5, <2>6
  <1>8. \A c \in Conns : ToRead(c)' => ToRead(c)
    BY <1>1, <1>7 DEF ToRead
  <1>9. ExecutedInOrder' /\ AnswersFit'
    BY <1>1 DEF ExecutedInOrder, AnswersFit, clientVars
  <1>10. CASE here \notin pending_err /\ Whole(Head(inbox[here]))
    <2>1. /\ u16TransactionID' = First(here, 1) /\ First(here, 1) # Fragment
          /\ pc' = "process" /\ 1 \in 1 .. Len(inbox[here])
      BY <1>2, <1>10 DEF RecvData, First, Whole
    <2>2. /\ First(here, 1) \in 0 .. id /\ sentOn[First(here, 1)] = here
          /\ u16TransactionID < First(here, 1) /\ u16TransactionID \in Nat /\ id \in Nat
      BY <1>1, <2>1, Constants DEF UnreadInOrder, UnreadIsLater, SessionTypeOK
    <2>3. UnreadIsLater'
      <3>. SUFFICES ASSUME NEW c \in Conns, ToRead(c), NEW k \in 1 .. Len(inbox'[c]),
                           First(c, k)' # Fragment
                    PROVE  First(here, 1) < First(c, k)'
        BY <1>8, <2>1 DEF UnreadIsLater
      <3>1. before(c, k) \in 1 .. Len(inbox[c]) /\ First(c, k)' = First(c, before(c, k))
        BY <1>5
      <3>2. here < c \/ (here = c /\ 1 < before(c, k))
        BY DEF ToRead, AcceptedInOrder
      <3>. HIDE DEF before
      <3>. QED  BY <1>1, <2>1, <3>1, <3>2 DEF UnreadInOrder
    <2>4. RequestInHand'
      <3>1. \A i \in 1 .. Len(executed) : executed[i] < First(here, 1)
        BY <2>2, HistoryFacts DEF RequestInHand, Ids
      <3>2. \A c \in Conns : \A i \in 1 .. Len(answers[c]) : answers[c][i] < First(here, 1)
        BY <2>2, HistoryFacts DEF RequestInHand, Ids
      <3>3. First(here, 1) <= id /\ First(here, 1) # 0
        BY <2>1, <2>2 DEF Fragment
      <3>4. /\ \A i \in 1 .. Len(executed) : executed[i] <= First(here, 1)
            /\ \A c \in Conns : \A i \in 1 .. Len(answers[c]) : answers[c][i] <= First(here, 1)
        BY <2>2, <3>1, <3>2, HistoryFacts DEF Ids
      <3>. QED  BY <1>1, <1>7, <2>1, <2>2, <3>1, <3>2, <3>3, <3>4 DEF RequestInHand, clientVars
    <2>. QED  BY <1>6, <1>7, <1>9, <2>3, <2>4
  <1>11. CASE ~(here \notin pending_err /\ Whole(Head(inbox[here])))
    <2>1. u16TransactionID' = u16TransactionID /\ pc' = "accept"
      BY <1>11 DEF RecvData, Again
    <2>2. UnreadIsLater'
      <3>. SUFFICES ASSUME NEW c \in Conns, ToRead(c), NEW k \in 1 .. Len(inbox'[c]),
                           First(c, k)' # Fragment
                    PROVE  u16TransactionID < First(c, k)'
        BY <1>8, <2>1 DEF UnreadIsLater
      <3>1. before(c, k) \in 1 .. Len(inbox[c]) /\ First(c, k)' = First(c, before(c, k))
        BY <1>5
      <3>. HIDE DEF before
      <3>. QED  BY <3>1 DEF UnreadIsLater
    <2>3. RequestInHand'
      BY <1>1, <2>1 DEF RequestInHand, clientVars
    <2>. QED  BY <1>6, <1>7, <1>9, <2>2, <2>3
  <1>. QED  BY <1>10, <1>11

(* A request that is refused or ignored, or whose answer is not sent,      *)
(* leaves everything as it is but the place in the loop.                   *)
LEMMA NothingDoneStep ==
  ASSUME IInv, Refuse \/ IgnoreRead \/ SendNothing
  PROVE  IInv'
  <1>. USE DEF IInv
  <1>1. /\ newconnIndex' = newconnIndex
        /\ UNCHANGED <<newconns, u16TransactionID, netVars, clientVars, histVars>>
        /\ pc \in {"process", "send"} /\ pc' \in {"send", "accept"}
    BY SlotFacts DEF Refuse, IgnoreRead, SendNothing, Again
  <1>2. slot' = slot /\ here' = here
    BY <1>1 DEF slot, here
  <1>3. SessionTypeOK'
    BY <1>1 DEF SessionTypeOK, netVars, clientVars, histVars
  <1>4. AcceptedInOrder' /\ UnreadInOrder' /\ UnreadIsLater' /\ DroppedAreGone'
    BY <1>1, <1>2 DEF AcceptedInOrder, UnreadInOrder, UnreadIsLater, DroppedAreGone, ToRead, First,
                      netVars, clientVars, histVars
  <1>5. RequestInHand'
    BY <1>1, <1>2 DEF RequestInHand, clientVars, histVars
  <1>6. AgingIsQuiet' /\ ExecutedInOrder' /\ AnswersFit' /\ OnlyIdleDropped'
    BY <1>1, <1>2 DEF AgingIsQuiet, ExecutedInOrder, AnswersFit, OnlyIdleDropped, clientVars,
                      histVars
  <1>. QED  BY <1>3, <1>4, <1>5, <1>6

(* It is executed behind all earlier ones ...                              *)
LEMMA ProcessStep ==
  ASSUME IInv, Process
  PROVE  IInv'
  <1>. USE DEF IInv
  <1>1. /\ pc = "process" /\ pc' = "send" /\ executed' = Append(executed, u16TransactionID)
        /\ UNCHANGED <<newconnIndex, newconns, u16TransactionID, netVars, clientVars,
                       answers, quiet, dropped, slot, here>>
        /\ u16TransactionID \in Ids
    BY Constants DEF Process, slot, here, RequestInHand, SessionTypeOK, Ids
  <1>2. /\ executed' \in Seq(Ids) /\ Len(executed') = Len(executed) + 1 /\ Len(executed) \in Nat
        /\ \A i \in 1 .. Len(executed) : executed'[i] = executed[i]
        /\ executed'[Len(executed) + 1] = u16TransactionID
    BY <1>1, AppendProperties, HistoryFacts DEF SessionTypeOK
  <1>3. \A i \in 1 .. Len(executed') :
          \/ i \in 1 .. Len(executed) /\ executed'[i] = executed[i]
          \/ i = Len(executed) + 1 /\ executed'[i] = u16TransactionID
    BY <1>2
  <1>4. SessionTypeOK'
    BY <1>1, <1>2 DEF SessionTypeOK, netVars, clientVars
  <1>5. ExecutedInOrder'
    <2>. SUFFICES ASSUME NEW i \in 1 .. Len(executed'), NEW j \in 1 .. Len(executed'), i < j
                  PROVE  executed'[i] < executed'[j]
      BY DEF ExecutedInOrder, Ascending
    <2>1. i \in 1 .. Len(executed) /\ executed'[i] = executed[i]
      BY <1>2
    <2>2. CASE j \in 1 .. Len(executed)
      BY <1>2, <2>1, <2>2 DEF ExecutedInOrder, Ascending
    <2>3. CASE j = Len(executed) + 1
      BY <1>1, <1>2, <2>1, <2>3 DEF RequestInHand
    <2>. QED  BY <1>3, <2>2, <2>3
  <1>6. RequestInHand'
    <2>1. \A i \in 1 .. Len(executed') : executed'[i] <= u16TransactionID
      BY <1>1, <1>3 DEF RequestInHand, Ids
    <2>. QED  BY <1>1, <2>1 DEF RequestInHand, clientVars
  <1>7. AcceptedInOrder' /\ UnreadInOrder' /\ UnreadIsLater' /\ DroppedAreGone'
    BY <1>1 DEF AcceptedInOrder, UnreadInOrder, UnreadIsLater, DroppedAreGone, ToRead, First,
                netVars, clientVars
  <1>8. AgingIsQuiet' /\ AnswersFit' /\ OnlyIdleDropped'
    BY <1>1 DEF AgingIsQuiet, AnswersFit, OnlyIdleDropped, clientVars
  <1>. QED  BY <1>4, <1>5, <1>6, <1>7, <1>8

(* ... and answered behind all earlier answers, where it came from.        *)
LEMMA AnswerStep ==
  ASSUME IInv, sendTxBuffer
  PROVE  IInv'
  <1>. USE DEF IInv
  <1>1. /\ pc = "send" /\ pc' = "accept" /\ newconnIndex' = newconnIndex
        /\ answers' = [answers EXCEPT ![here] = Append(@, u16TransactionID)]
        /\ UNCHANGED <<newconns, u16TransactionID, netVars, clientVars, executed, quiet, dropped>>
        /\ u16TransactionID \in Ids /\ here \in Conns /\ sentOn[u16TransactionID] = here
    BY SlotFacts, Constants DEF sendTxBuffer, Again, RequestInHand, AcceptedInOrder, SessionTypeOK,
                                Ids
  <1>2. slot' = slot /\ here' = here
    BY <1>1 DEF slot, here
  <1>3. /\ answers'[here] = Append(answers[here], u16TransactionID)
        /\ \A c \in Conns : c # here => answers'[c] = answers[c]
    BY <1>1 DEF SessionTypeOK
  <1>4. /\ answers'[here] \in Seq(Ids) /\ Len(answers'[here]) = Len(answers[here]) + 1
        /\ \A i \in 1 .. Len(answers[here]) : answers'[here][i] = answers[here][i]
        /\ answers'[here][Len(answers[here]) + 1] = u16TransactionID
    BY <1>1, <1>3, AppendProperties DEF SessionTypeOK
  <1>5. ASSUME NEW c \in Conns, NEW i \in 1 .. Len(answers'[c])
        PROVE  \/ i \in 1 .. Len(answers[c]) /\ answers'[c][i] = answers[c][i]
               \/ c = here /\ i = Len(answers[c]) + 1 /\ answers'[c][i] = u16TransactionID
    BY <1>3, <1>4, HistoryFacts
  <1>6. SessionTypeOK'
    <2>1. answers' \in [Conns -> Seq(Ids)]
      BY <1>1, <1>4 DEF SessionTypeOK
    <2>. QED  BY <1>1, <2>1 DEF SessionTypeOK, netVars, clientVars
  <1>7. AnswersFit'
    <2>1. ASSUME NEW c \in Conns, NEW i \in 1 .. Len(answers'[c]), NEW j \in 1 .. Len(answers'[c]),
                 i < j
          PROVE  answers'[c][i] < answers'[c][j]
      <3>1. i \in 1 .. Len(answers[c]) /\ answers'[c][i] = answers[c][i]
        BY <1>5, <2>1, HistoryFacts
      <3>2. CASE j \in 1 .. Len(answers[c]) /\ answers'[c][j] = answers[c][j]
        BY <2>1, <3>1, <3>2 DEF AnswersFit, Ascending
      <3>3. CASE answers'[c][j] = u16TransactionID
        BY <1>1, <3>1, <3>3 DEF RequestInHand
      <3>. QED  BY <1>5, <3>2, <3>3
    <2>2. ASSUME NEW c \in Conns, NEW i \in 1 .. Len(answers'[c])
          PROVE  sentOn'[answers'[c][i]] = c
      BY <1>1, <1>5 DEF AnswersFit, clientVars
    <2>. QED  BY <2>1, <2>2 DEF AnswersFit, Ascending
  <1>8. RequestInHand'
    <2>1. ASSUME NEW c \in Conns, NEW i \in 1 .. Len(answers'[c])
          PROVE  answers'[c][i] <= u16TransactionID
      BY <1>1, <1>5 DEF RequestInHand, Ids
    <2>. QED  BY <1>1, <2>1 DEF RequestInHand, clientVars
  <1>9. AcceptedInOrder' /\ UnreadInOrder' /\ UnreadIsLater' /\ DroppedAreGone'
    BY <1>1, <1>2 DEF AcceptedInOrder, UnreadInOrder, UnreadIsLater, DroppedAreGone, ToRead, First,
                      netVars, clientVars
  <1>10. AgingIsQuiet' /\ ExecutedInOrder' /\ OnlyIdleDropped'
    BY <1>1, <1>2 DEF AgingIsQuiet, ExecutedInOrder, OnlyIdleDropped
  <1>. QED  BY <1>6, <1>7, <1>8, <1>9, <1>10

LEMMA NextIInv == IInv /\ [Next]_vars => IInv'
  <1>1. ASSUME IInv, Next
        PROVE  IInv'
    <2>1. CASE Server
      BY <1>1, <2>1, AcceptStep, IdleStep, CloseStep, TimeoutStep, DataStep, NothingDoneStep,
         ProcessStep, AnswerStep, Zenon DEF Server
    <2>2. CASE ~Server
      BY <1>1, <2>2, ConnectStep, SendStep, SplitStep, EnvironmentStep, Zenon DEF Next
    <2>. QED  BY <2>1, <2>2
  <1>2. ASSUME IInv, UNCHANGED vars
        PROVE  IInv'
    BY <1>2 DEF vars, serverVars, netVars, clientVars, histVars, IInv, SessionTypeOK,
       AcceptedInOrder, UnreadInOrder, UnreadIsLater, RequestInHand, DroppedAreGone, AgingIsQuiet,
       ExecutedInOrder, AnswersFit, OnlyIdleDropped, First, ToRead, slot, here
  <1>. QED  BY <1>1, <1>2

LEMMA Invariance == Spec => []IInv
  BY InitIInv, NextIInv, PTL DEF Spec

-----------------------------------------------------------------------------
(* Types; the queue of lwIP keeps its bound, and the aging never reaches   *)
(* its limit in a connection that is kept.                                 *)
THEOREM SessionTypes == Spec => []SessionTypeOK
  <1>1. IInv => SessionTypeOK
    BY DEF IInv
  <1>. QED  BY <1>1, Invariance, PTL

(* A request is executed once at most and never after a later one, over    *)
(* whichever connections the client sent them, however it left them and    *)
(* whatever was reset (TCPwaitConnData and StartTaskModbusSlave).          *)
THEOREM ExecutionInOrder == Spec => []ExecutedInOrder
  <1>1. IInv => ExecutedInOrder
    BY DEF IInv
  <1>. QED  BY <1>1, Invariance, PTL

(* An answer goes to the connection its request came on, in the order of   *)
(* the requests (sendTxBuffer writes to newconns[newconnIndex].conn).      *)
THEOREM AnswersBelong == Spec => []AnswersFit
  <1>1. IInv => AnswersFit
    BY DEF IInv
  <1>. QED  BY <1>1, Invariance, PTL

(* The idle close of TCPwaitConnData hits no connection on which data came *)
(* within the idle time.                                                   *)
THEOREM IdleOnes == Spec => []OnlyIdleDropped
  <1>1. IInv => OnlyIdleDropped
    BY DEF IInv
  <1>. QED  BY <1>1, Invariance, PTL

-----------------------------------------------------------------------------
(***************************************************************************)
(* The checks of a request.                                                *)
(***************************************************************************)

(* What holds on the way through the checks.                               *)
Taken == ~TooLong(asked) /\ ad = Translate(asked.ad)

Refused ==
  \/ outcome = "dropped" /\ (TooLong(asked) \/ BufferSize(asked) < 7)
  \/ outcome = "EXC_ADDR_RANGE" /\ Taken /\ Outside(asked.n)
  \/ outcome = "EXC_REGS_QUANT" /\ Taken /\ AnswerTooLong(asked.n)

Passed == Taken /\ ~Outside(asked.n) /\ ~AnswerTooLong(asked.n)

Ignored == outcome = "ignored" /\ Passed /\ IsIgnored(asked)

Executed ==
  /\ outcome = "executed" /\ Passed /\ ~IsIgnored(asked)
  /\ first = ad
  /\ number = IF asked.fc = "FC6" THEN 1
              ELSE IF asked.fc = "FC3" THEN asked.n % Byte ELSE asked.n
  /\ asked.fc = "FC3" => size = (3 + 2 * number) % Byte

ChecksInv ==
  /\ ChecksTypeOK
  /\ stage = "check" => outcome = "none" /\ Taken /\ size = BufferSize(asked)
  /\ stage = "process" => outcome = "none" /\ Passed
  /\ stage = "recv" => outcome = "none" \/ Refused \/ Ignored \/ Executed

LEMMA Widths ==
  /\ Byte \in Nat /\ Word \in Nat /\ Byte = 256 /\ Word = 65536
  /\ RegSize \in Nat /\ RegSize <= 32765
  <1>1. Byte = 256 /\ Word = 65536  BY DEF Byte, Word
  <1>2. RegSize \in Nat /\ RegSize <= 32765  BY ChecksAssumption
  <1> QED  BY <1>1, <1>2

LEMMA Types == Byte \in Nat /\ Word \in Nat /\ RegSize \in Nat
  BY Widths

(* A number is cut to a byte or a word only if it does not fit.            *)
LEMMA ByteType == ASSUME NEW i \in Nat PROVE i % Byte \in 0 .. Byte - 1
  BY DEF Byte

LEMMA ByteCut == ASSUME NEW i \in Nat PROVE i % Byte <= i /\ (i < 256 => i % Byte = i)
  BY DEF Byte

LEMMA WordCut == ASSUME NEW i \in Nat, i < 65536 PROVE i % Word = i
  BY DEF Word

LEMMA RequestFacts ==
  ASSUME ChecksTypeOK
  PROVE  /\ asked.fc \in Functions
         /\ asked.ad \in Nat /\ asked.ad < Word /\ asked.n \in Nat /\ asked.n < Word
         /\ BufferSize(asked) \in 0 .. Byte - 1
         /\ Translate(asked.ad) \in 0 .. Word - 1
  <1>1. asked.fc \in Functions /\ asked.ad \in Addresses /\ asked.n \in Quantities
    BY DEF ChecksTypeOK, Requests
  <1>2. asked.ad \in Nat /\ asked.ad < Word /\ asked.n \in Nat /\ asked.n < Word
    <2>1. asked.ad \in 0 .. Word - 1 /\ asked.n \in 0 .. Word - 1
      <3>1. Addresses \subseteq 0 .. Word - 1 /\ Quantities \subseteq 0 .. Word - 1
        BY ChecksAssumption
      <3> QED  BY <1>1, <3>1, Zenon
    <2> QED  BY <2>1, Types
  <1>3. Length(asked) + 2 \in Nat
    <2>1. 7 + 2 * asked.n + 2 \in Nat /\ 6 + 2 \in Nat  BY <1>2
    <2> QED  BY <2>1 DEF Length
  <1>4. BufferSize(asked) \in 0 .. Byte - 1
    BY <1>3, ByteType DEF BufferSize
  <1>5. Translate(asked.ad) \in Nat /\ Translate(asked.ad) < Word
    BY <1>2, Widths DEF Translate, GH_MB_HOLDING_BASE
  <1>6. Translate(asked.ad) \in 0 .. Word - 1  BY <1>5, Types
  <1> QED  BY <1>1, <1>2, <1>4, <1>6

LEMMA InitChecks == ChecksInit => ChecksInv
  BY Widths DEF ChecksInit, ChecksInv, ChecksTypeOK

LEMMA NextChecks == ChecksInv /\ [ChecksNext]_checksVars => ChecksInv'
  <1> SUFFICES ASSUME ChecksInv, [ChecksNext]_checksVars PROVE ChecksInv'
    OBVIOUS
  <1>1. ChecksTypeOK  BY DEF ChecksInv
  <1>2. CASE TCPwaitConnData
    <2>1. CASE TooLong(asked)
      BY <1>1, <1>2, <2>1
      DEF TCPwaitConnData, ChecksInv, ChecksTypeOK, Refused, Taken, TooLong, Length, BufferSize
    <2>2. CASE ~TooLong(asked)
      BY <1>1, <1>2, <2>2, RequestFacts
      DEF TCPwaitConnData, ChecksInv, ChecksTypeOK, Taken, TooLong, Length, BufferSize, Translate
    <2> QED  BY <2>1, <2>2
  <1>3. CASE validateRequest
    BY <1>1, <1>3
    DEF validateRequest, ChecksInv, ChecksTypeOK, Refused, Passed, Taken, TooLong, Length,
        Translate, BufferSize, Outside, AnswerTooLong
  <1>4. CASE Execute
    <2>1. first' \in Nat /\ number' \in Nat /\ size' \in 0 .. Byte - 1
      <3>1. asked.n \in Nat /\ ad \in Nat /\ asked.n % Byte \in Nat
        BY <1>1, RequestFacts, ByteType, Types DEF ChecksTypeOK
      <3>2. (3 + 2 * (asked.n % Byte)) % Byte \in 0 .. Byte - 1
        BY <3>1, ByteType
      <3>3. 6 \in 0 .. Byte - 1  BY Widths
      <3> QED
        BY <1>4, <3>1, <3>2, <3>3 DEF Execute, process_FC3, process_FC6, process_FC16
    <2>2. Executed'
      BY <1>1, <1>4, RequestFacts, ByteType
      DEF Execute, process_FC3, process_FC6, process_FC16, ChecksInv, Executed, Passed, Taken,
          TooLong, Length, Translate, Outside, AnswerTooLong, Functions
    <2>3. ChecksTypeOK'
      BY <1>1, <1>4, <2>1 DEF Execute, ChecksTypeOK
    <2> QED  BY <1>4, <2>2, <2>3 DEF Execute, ChecksInv
  <1>5. CASE IgnoreBroadcastRead
    BY <1>1, <1>5
    DEF IgnoreBroadcastRead, ChecksInv, ChecksTypeOK, Ignored, Passed, Taken, TooLong, Length,
        Translate, Outside, AnswerTooLong
  <1>6. CASE UNCHANGED checksVars
    BY <1>6
    DEF checksVars, ChecksInv, ChecksTypeOK, Refused, Passed, Ignored, Executed, Taken, TooLong, Length,
        Translate, BufferSize, Outside, AnswerTooLong
  <1> QED  BY <1>2, <1>3, <1>4, <1>5, <1>6 DEF ChecksNext

(* The invariant of the way through the checks.                            *)
THEOREM ChecksInductive == ChecksSpec => []ChecksInv
  BY InitChecks, NextChecks, PTL DEF ChecksSpec

(* Every size and address keeps its 8 or 16 bits.                          *)
THEOREM ChecksTypeCorrect == ChecksSpec => []ChecksTypeOK
  <1>1. ChecksInv => ChecksTypeOK  BY DEF ChecksInv
  <1> QED  BY <1>1, ChecksInductive, PTL

(* A request that is executed touches registers of the map only.          *)
THEOREM InMapCorrect == ChecksSpec => []StaysInMap
  <1>1. ChecksInv => StaysInMap
    <2> SUFFICES ASSUME ChecksInv, outcome = "executed"
                 PROVE  number = 0 \/ first + number <= RegSize
      BY DEF StaysInMap
    <2>1. Executed
      BY DEF ChecksInv, ChecksTypeOK, Refused, Ignored
    <2>2. /\ asked.n \in Nat /\ ad \in Nat /\ RegSize \in Nat
          /\ asked.fc \in Functions
      BY RequestFacts, Types DEF ChecksInv, ChecksTypeOK
    <2>3. CASE asked.fc = "FC6"
      <3>1. ~(ad >= RegSize) /\ first = ad /\ number = 1
        BY <2>1, <2>3 DEF Executed, Passed, Outside
      <3> QED  BY <2>2, <3>1
    <2>4. CASE asked.fc # "FC6"
      <3>1. number <= asked.n /\ number \in Nat
        BY <2>1, <2>2, <2>4, ByteType, ByteCut, Widths DEF Executed
      <3>2. ad + asked.n <= RegSize /\ first = ad
        BY <2>1, <2>2, <2>4 DEF Executed, Passed, Outside
      <3>3. first \in Nat  BY <2>2, <3>2
      <3> QED  BY <2>2, <3>1, <3>2, <3>3
    <2> QED  BY <2>3, <2>4
  <1> QED  BY <1>1, ChecksInductive, PTL

(* The limit on the answer is what keeps its two 8-bit counts from being   *)
(* cut.                                                                    *)
LEMMA WholeAnswer ==
  ASSUME NEW n \in Nat, n <= 32765, (2 * n + 5) % Word <= 256
  PROVE  n % Byte = n /\ (3 + 2 * n) % Byte = 3 + 2 * n
  <1>1. 2 * n + 5 < 65536  OBVIOUS
  <1>2. 2 * n + 5 <= 256  BY <1>1, WordCut
  <1>3. n < 256 /\ 3 + 2 * n \in Nat /\ 3 + 2 * n < 256  BY <1>2
  <1> QED  BY <1>3, ByteCut

(* The answer to a read has every register that was asked for.             *)
THEOREM WholeCorrect == ChecksSpec => []AnswerIsWhole
  <1>1. ChecksInv => AnswerIsWhole
    <2> SUFFICES ASSUME ChecksInv, outcome = "executed", asked.fc = "FC3"
                 PROVE  number = asked.n /\ size = 3 + 2 * asked.n
      BY DEF AnswerIsWhole
    <2>1. Executed
      BY DEF ChecksInv, ChecksTypeOK, Refused, Ignored
    <2>2. asked.n \in Nat /\ ad \in Nat
      BY RequestFacts DEF ChecksInv, ChecksTypeOK
    <2>3. ad + asked.n <= RegSize /\ (2 * asked.n + 5) % Word <= 256
      BY <2>1, <2>2, Widths DEF Executed, Passed, Outside, AnswerTooLong
    <2>4. asked.n <= 32765
      BY <2>2, <2>3, Widths
    <2>5. asked.n % Byte = asked.n /\ (3 + 2 * asked.n) % Byte = 3 + 2 * asked.n
      BY <2>2, <2>3, <2>4, WholeAnswer
    <2>6. number = asked.n % Byte /\ size = (3 + 2 * number) % Byte
      <3>1. asked.fc = "FC3" /\ asked.fc # "FC6"  OBVIOUS
      <3>2. size = (3 + 2 * number) % Byte  BY <2>1, <3>1 DEF Executed
      <3>3. number = asked.n % Byte  BY <2>1, <3>1 DEF Executed
      <3> QED  BY <3>2, <3>3
    <2> QED  BY <2>5, <2>6
  <1> QED  BY <1>1, ChecksInductive, PTL

LEMMA FittingAnswer ==
  ASSUME ChecksTypeOK, Fits(asked)
  PROVE  ~TooLong(asked) /\ BufferSize(asked) >= 7 /\ ~AnswerTooLong(asked.n)
  <1>1. asked.n \in Nat /\ asked.fc \in Functions
    BY RequestFacts
  <1>2. CASE asked.fc # "FC16"
    <2>1. Length(asked) = 6  BY <1>2 DEF Length
    <2>2. (6 + 2) % Byte = 8  BY ByteCut
    <2>3. asked.fc # "FC6" => (2 * asked.n + 5) % Word <= 256
      <3>1. asked.fc # "FC6" => asked.n \in 1 .. 125  BY <1>2 DEF Fits
      <3>2. asked.fc # "FC6" => 2 * asked.n + 5 < 256  BY <1>1, <3>1
      <3> QED  BY <1>1, <3>2, WordCut
    <2>4. BufferSize(asked) = 8  BY <2>1, <2>2 DEF BufferSize
    <2>5. ~AnswerTooLong(asked.n)
      <3>1. (2 * asked.n + 5) % Word \in Int  BY <1>1, Widths
      <3> QED  BY <2>3, <3>1 DEF AnswerTooLong
    <2> QED  BY <2>1, <2>4, <2>5 DEF TooLong
  <1>3. CASE asked.fc = "FC16"
    <2>1. asked.n \in 1 .. 123  BY <1>3 DEF Fits
    <2>2. Length(asked) = 7 + 2 * asked.n  BY <1>3 DEF Length
    <2>3. (7 + 2 * asked.n + 2) % Byte = 9 + 2 * asked.n
      <3>1. 7 + 2 * asked.n + 2 \in Nat /\ 7 + 2 * asked.n + 2 < 256  BY <2>1
      <3>2. 7 + 2 * asked.n + 2 = 9 + 2 * asked.n  BY <2>1
      <3> QED  BY <3>1, <3>2, ByteCut
    <2>4. (2 * asked.n + 5) % Word = 2 * asked.n + 5
      <3>1. 2 * asked.n + 5 \in Nat /\ 2 * asked.n + 5 < 65536  BY <2>1
      <3> QED  BY <3>1, WordCut
    <2>5. BufferSize(asked) = 9 + 2 * asked.n  BY <2>2, <2>3 DEF BufferSize
    <2>6. ~AnswerTooLong(asked.n)  BY <2>1, <2>4 DEF AnswerTooLong
    <2>7. ~TooLong(asked)  BY <2>1, <2>2 DEF TooLong
    <2> QED  BY <2>1, <2>5, <2>6, <2>7
  <1> QED  BY <1>2, <1>3

LEMMA InsideIsIndexed ==
  ASSUME ChecksTypeOK, Fits(asked), ad = Translate(asked.ad)
  PROVE  /\ HasIndex(asked.ad, Quantity(asked)) <=> ~Outside(asked.n)
         /\ HasIndex(asked.ad, Quantity(asked)) => ad = addr_to_index(asked.ad)
  <1>1. asked.n \in Nat /\ asked.ad \in Nat /\ RegSize \in Nat /\ RegSize <= 32765
    <2>1. asked.n \in Nat /\ asked.ad \in Nat  BY RequestFacts
    <2> QED  BY <2>1, Widths
  <1>2. asked.fc # "FC6" => asked.n >= 1
    <2>1. asked.fc # "FC6" => asked.n \in 1 .. 125 \/ asked.n \in 1 .. 123
      BY DEF Fits
    <2> QED  BY <1>1, <2>1
  <1>3. CASE asked.fc = "FC6"
    BY <1>1, <1>3
    DEF HasIndex, Quantity, Outside, addr_to_index, Translate, GH_MB_HOLDING_BASE
  <1>4. CASE asked.fc # "FC6"
    BY <1>1, <1>2, <1>4
    DEF HasIndex, Quantity, Outside, addr_to_index, Translate, GH_MB_HOLDING_BASE
  <1> QED  BY <1>3, <1>4

(* The server and the map mean the same registers by an address.           *)
THEOREM SameCorrect == ChecksSpec => []SameAddresses
  <1>1. ChecksInv => SameAddresses
    <2> SUFFICES ASSUME ChecksInv, Fits(asked), stage = "recv", outcome # "none"
                 PROVE  IF HasIndex(asked.ad, Quantity(asked))
                          THEN \/ outcome = "ignored" /\ IsIgnored(asked)
                               \/ /\ outcome = "executed" /\ ~IsIgnored(asked)
                                  /\ first = addr_to_index(asked.ad)
                                  /\ number = Quantity(asked)
                          ELSE outcome = "EXC_ADDR_RANGE"
      BY DEF SameAddresses
    <2>1. ChecksTypeOK  BY DEF ChecksInv
    <2>2. ~TooLong(asked) /\ BufferSize(asked) >= 7 /\ ~AnswerTooLong(asked.n)
      BY <2>1, FittingAnswer
    <2>3. Refused \/ Ignored \/ Executed  BY DEF ChecksInv
    <2>4. CASE Refused
      <3>1. outcome = "EXC_ADDR_RANGE" /\ Taken /\ Outside(asked.n)
        <4>1. BufferSize(asked) \in Nat  BY <2>1, RequestFacts
        <4> QED  BY <2>2, <2>4, <4>1 DEF Refused
      <3>2. ~HasIndex(asked.ad, Quantity(asked))
        BY <2>1, <3>1, InsideIsIndexed DEF Taken
      <3> QED  BY <3>1, <3>2
    <2>5. CASE Executed
      <3>1. HasIndex(asked.ad, Quantity(asked)) /\ ad = addr_to_index(asked.ad)
        BY <2>1, <2>5, InsideIsIndexed DEF Executed, Passed, Taken
      <3>2. number = Quantity(asked)
        <4>1. CASE asked.fc = "FC3"
          <5>1. asked.n \in 1 .. 125  BY <4>1 DEF Fits
          <5>2. asked.n % Byte = asked.n
            <6>1. asked.n \in Nat /\ asked.n < 256  BY <5>1
            <6> QED  BY <6>1, ByteCut
          <5> QED  BY <2>5, <4>1, <5>2 DEF Executed, Quantity
        <4>2. CASE asked.fc # "FC3"
          BY <2>5, <4>2 DEF Executed, Quantity
        <4> QED  BY <4>1, <4>2
      <3> QED  BY <2>5, <3>1, <3>2 DEF Executed
    <2>6. CASE Ignored
      BY <2>1, <2>6, InsideIsIndexed DEF Ignored, Passed, Taken
    <2> QED  BY <2>3, <2>4, <2>5, <2>6
  <1> QED  BY <1>1, ChecksInductive, PTL

=============================================================================
