-------------------------------- MODULE EthTx --------------------------------
(***************************************************************************)
(* Transmission of Ethernet frames: low_level_output and the link thread   *)
(* of ethernetif.c, with the descriptor ring of the HAL driver below them  *)
(* (HAL_ETH_Transmit_IT, ETH_Prepare_Tx_Descriptors,                       *)
(* HAL_ETH_ReleaseTxPacket, HAL_ETH_Start_IT, HAL_ETH_Stop_IT) and the DMA *)
(* that empties it.                                                        *)
(*                                                                         *)
(* Frames are numbered in the order in which low_level_output is called    *)
(* and have one or more buffers, one descriptor for each.  Two threads     *)
(* call it: whichever runs the stack under its core lock ("tcpip"), and    *)
(* the link thread, whose netif_set_link_up sends a gratuitous ARP request *)
(* without that lock whenever the link has come back.  The link thread has *)
(* the lower priority of the two: it runs while the other is idle or waits *)
(* for the semaphore.  When one calls while the other is in its call they  *)
(* share TxConfig and the indices of the ring; "overlapped" notes that.    *)
(***************************************************************************)
EXTENDS Integers, Sequences

CONSTANTS NumDesc,      \* transmit descriptors (4)
          MaxBuffers,   \* buffers of a frame
          MaxFrames,    \* bound: frames
          MaxDrops      \* bound: losses of the link

ASSUME EthTxAssumption ==
  /\ NumDesc \in Nat \ {0}
  /\ MaxBuffers \in 1 .. NumDesc
  /\ MaxFrames \in Nat
  /\ MaxDrops \in Nat

Threads == {"tcpip", "EthLink"}
Desc == 0 .. NumDesc - 1
Frames == 1 .. MaxFrames
NoFrame == 0

(* INCR_TX_DESC_INDEX.                                                     *)
Incr(d, n) == (d + n) % NumDesc

VARIABLES
  desc,           \* desc[d]: OWN bit of a descriptor, and the frame and part
                  \* its buffer is; LS is set with the last part of a frame
  PacketAddress,  \* PacketAddress[d]: the frame to free, or NoFrame
  CurTxDesc, BuffersInUse, releaseIndex,
  CurrentPacketAddress,
  TxConfig,       \* the frame in the global TxConfig
  busy,           \* whether ErrorCode has HAL_ETH_ERROR_BUSY
  started,        \* gState is HAL_ETH_STATE_STARTED
  dma,            \* the descriptor that the DMA looks at
  TxPktSemaphore,
  pc,             \* where a thread is in low_level_output
  p,              \* its frame
  txbuffer,       \* the frame whose buffers it prepares,
  firstdescidx, descnbr,  \* and the descriptors it has taken for them
  lpc,            \* where the link thread is
  netif_up,       \* flags of the netif
  made,           \* frames so far
  size,           \* size[f]: buffers of a frame
  refs,           \* refs[f]: references of the driver to a frame
  result,         \* result[f]: what low_level_output returned
  wire,           \* history: buffers on the wire, <<frame, part>>
  overlapped,     \* history: whether a call began during another
  drops

halVars == <<desc, PacketAddress, CurTxDesc, BuffersInUse, releaseIndex,
             CurrentPacketAddress, busy>>
linkVars == <<started, lpc, netif_up, drops>>
takeVars == <<txbuffer, firstdescidx, descnbr>>
callVars == <<pc, p, takeVars, TxConfig, made, size, result, overlapped>>
vars == <<halVars, linkVars, callVars, dma, TxPktSemaphore, refs, wire>>

Descriptor == [own : BOOLEAN, buffer : Frames \union {NoFrame}, part : 0 .. MaxBuffers]

EthTxTypeOK ==
  /\ desc \in [Desc -> Descriptor]
  /\ PacketAddress \in [Desc -> Frames \union {NoFrame}]
  /\ CurTxDesc \in Desc /\ releaseIndex \in Desc /\ dma \in Desc
  /\ BuffersInUse \in Nat
  /\ {CurrentPacketAddress, TxConfig} \subseteq Frames \union {NoFrame}
  /\ {busy, started, netif_up, overlapped} \subseteq BOOLEAN
  /\ TxPktSemaphore \in 0 .. 1
  /\ pc \in [Threads -> {"idle", "transmit", "take", "publish", "wait"}]
  /\ p \in [Threads -> Frames \union {NoFrame}]
  /\ txbuffer \in [Threads -> Frames \union {NoFrame}]
  /\ firstdescidx \in [Threads -> Desc] /\ descnbr \in [Threads -> 0 .. MaxBuffers]
  /\ lpc \in {"watch", "stopped", "started", "report"}
  /\ made \in 0 .. MaxFrames
  /\ size \in [Frames -> 1 .. MaxBuffers]
  /\ refs \in [Frames -> Int]
  /\ result \in [Frames -> {"none", "ok", "error"}]
  /\ wire \in Seq(Frames \X (0 .. MaxBuffers))
  /\ drops \in 0 .. MaxDrops

(* The link is up, and what the start-up has sent is gone.                 *)
Init ==
  /\ desc = [d \in Desc |-> [own |-> FALSE, buffer |-> NoFrame, part |-> 0]]
  /\ PacketAddress = [d \in Desc |-> NoFrame]
  /\ CurTxDesc = 0 /\ releaseIndex = 0 /\ dma = 0
  /\ BuffersInUse = 0
  /\ CurrentPacketAddress = NoFrame /\ TxConfig = NoFrame
  /\ busy = FALSE
  /\ started = TRUE /\ netif_up = TRUE
  /\ TxPktSemaphore = 0
  /\ pc = [s \in Threads |-> "idle"]
  /\ p = [s \in Threads |-> NoFrame]
  /\ txbuffer = [s \in Threads |-> NoFrame]
  /\ firstdescidx = [s \in Threads |-> 0] /\ descnbr = [s \in Threads |-> 0]
  /\ lpc = "watch"
  /\ made = 0
  /\ size = [f \in Frames |-> 1]
  /\ refs = [f \in Frames |-> 0]
  /\ result = [f \in Frames |-> "none"]
  /\ wire = <<>> /\ overlapped = FALSE
  /\ drops = 0

-----------------------------------------------------------------------------
(* low_level_output.                                                       *)

TcpipRests == pc["tcpip"] = "idle" \/ (pc["tcpip"] = "wait" /\ TxPktSemaphore = 0)

(* The link thread runs only while the other one does not.                 *)
MayRun(s) == s = "EthLink" => TcpipRests

(* A call with a frame of n buffers: TxConfig is filled, a reference taken. *)
(* (A frame of more buffers than descriptors gets ERR_IF at once.)         *)
Call(s, n) ==
  /\ made < MaxFrames
  /\ made' = made + 1
  /\ size' = [size EXCEPT ![made'] = n]
  /\ refs' = [refs EXCEPT ![made'] = 1]
  /\ TxConfig' = made'
  /\ p' = [p EXCEPT ![s] = made']
  /\ pc' = [pc EXCEPT ![s] = "transmit"]
  /\ overlapped' = (overlapped \/ \E t \in Threads : pc[t] # "idle")

(* The stack sends while the netif is up.                                  *)
Output(n) ==
  /\ pc["tcpip"] = "idle"
  /\ netif_up
  /\ Call("tcpip", n)
  /\ UNCHANGED <<halVars, linkVars, takeVars, result, dma, TxPktSemaphore, wire>>

Return(s, value) ==
  /\ pc' = [pc EXCEPT ![s] = "idle"]
  /\ result' = [result EXCEPT ![p[s]] = value]

(* Seeded bug: a descriptor whose frame has not been freed is taken.       *)
FreeOfDma(d) ==
  ~desc[d].own

Free(d) == ~desc[d].own /\ PacketAddress[d] = NoFrame

(* Seeded bug: the first descriptor gets its OWN bit when it is taken.     *)
PreparedAtOnce(f, k) ==
  [own |-> TRUE, buffer |-> f, part |-> k]

(* A descriptor with part k of frame f.  The first one of a frame gets its *)
(* OWN bit last of all.                                                    *)
Prepared(f, k) ==
  [own |-> k > 1, buffer |-> f, part |-> k]

(* HAL_ETH_Transmit_IT takes the first descriptor for the frame in         *)
(* TxConfig,                                                               *)
TakeFirst(s) ==
  /\ pc[s] = "transmit" /\ MayRun(s)
  /\ started
  /\ Free(CurTxDesc)
  /\ CurrentPacketAddress' = TxConfig
  /\ txbuffer' = [txbuffer EXCEPT ![s] = TxConfig]
  /\ firstdescidx' = [firstdescidx EXCEPT ![s] = CurTxDesc]
  /\ descnbr' = [descnbr EXCEPT ![s] = 1]
  /\ desc' = [desc EXCEPT ![CurTxDesc] = Prepared(TxConfig, 1)]
  /\ pc' = [pc EXCEPT ![s] = "take"]
  /\ UNCHANGED <<PacketAddress, CurTxDesc, BuffersInUse, releaseIndex, busy, linkVars, p,
                 TxConfig, made, size, result, overlapped, dma, TxPktSemaphore, refs, wire>>

(* The j-th descriptor from the first one taken, and the latest.           *)
Taken(s, j) == Incr(firstdescidx[s], j)
descidx(s) == Taken(s, descnbr[s] - 1)

(* then one more for each further buffer,                                  *)
TakeNext(s) ==
  /\ pc[s] = "take" /\ MayRun(s)
  /\ descnbr[s] < size[txbuffer[s]]
  /\ Free(Taken(s, descnbr[s]))
  /\ descnbr' = [descnbr EXCEPT ![s] = @ + 1]
  /\ desc' = [desc EXCEPT ![Taken(s, descnbr[s])] = Prepared(txbuffer[s], descnbr[s] + 1)]
  /\ UNCHANGED <<PacketAddress, CurTxDesc, BuffersInUse, releaseIndex, CurrentPacketAddress,
                 busy, linkVars, pc, p, txbuffer, firstdescidx, TxConfig, made, size, result,
                 overlapped, dma, TxPktSemaphore, refs, wire>>

(* and lets the DMA have the first.                                        *)
Give(s) ==
  /\ pc[s] = "take" /\ MayRun(s)
  /\ descnbr[s] = size[txbuffer[s]]
  /\ desc' = [desc EXCEPT ![firstdescidx[s]].own = TRUE]
  /\ pc' = [pc EXCEPT ![s] = "publish"]
  /\ UNCHANGED <<PacketAddress, CurTxDesc, BuffersInUse, releaseIndex, CurrentPacketAddress,
                 busy, linkVars, p, takeVars, TxConfig, made, size, result, overlapped, dma,
                 TxPktSemaphore, refs, wire>>

(* The frame is noted for its release at its last descriptor, and the call *)
(* returns ERR_OK.                                                         *)
Publish(s) ==
  /\ pc[s] = "publish" /\ MayRun(s)
  /\ PacketAddress' = [PacketAddress EXCEPT ![descidx(s)] = CurrentPacketAddress]
  /\ CurTxDesc' = Incr(descidx(s), 1)
  /\ BuffersInUse' = BuffersInUse + descnbr[s]
  /\ Return(s, "ok")
  /\ UNCHANGED <<desc, releaseIndex, CurrentPacketAddress, busy, linkVars, p, takeVars, TxConfig,
                 made, size, overlapped, dma, TxPktSemaphore, refs, wire>>

(* No descriptor: the error code is set, and nothing ever clears it.       *)
Busy(s) ==
  /\ busy' = TRUE
  /\ pc' = [pc EXCEPT ![s] = "wait"]

Full(s) ==
  /\ pc[s] = "transmit" /\ MayRun(s)
  /\ started
  /\ ~Free(CurTxDesc)
  /\ CurrentPacketAddress' = TxConfig
  /\ Busy(s)
  /\ UNCHANGED <<desc, PacketAddress, CurTxDesc, BuffersInUse, releaseIndex, linkVars, p,
                 takeVars, TxConfig, made, size, result, overlapped, dma, TxPktSemaphore, refs,
                 wire>>

(* Seeded bug: the latest of them keeps its OWN bit.                       *)
GivenBackButOne(s) ==
  {Taken(s, j) : j \in 0 .. descnbr[s] - 2}

(* No descriptor for a further buffer: those taken are given back.         *)
GivenBack(s) ==
  {Taken(s, j) : j \in 0 .. descnbr[s] - 1}

RollBack(s) ==
  /\ pc[s] = "take" /\ MayRun(s)
  /\ descnbr[s] < size[txbuffer[s]]
  /\ ~Free(Taken(s, descnbr[s]))
  /\ desc' = [d \in Desc |-> IF d \in GivenBack(s) THEN [desc[d] EXCEPT !.own = FALSE]
                                                   ELSE desc[d]]
  /\ Busy(s)
  /\ UNCHANGED <<PacketAddress, CurTxDesc, BuffersInUse, releaseIndex, CurrentPacketAddress,
                 linkVars, p, takeVars, TxConfig, made, size, result, overlapped, dma,
                 TxPktSemaphore, refs, wire>>

(* Seeded bug: the error of the driver is not passed on.                   *)
ForgetError(s) ==
  Return(s, "ok")

OtherError(s) ==
  Return(s, "error")

(* The driver is stopped: HAL_ERROR, and the error code is the one left by *)
(* an earlier call.                                                        *)
Stopped(s) ==
  /\ pc[s] = "transmit" /\ MayRun(s)
  /\ ~started
  /\ IF busy
       THEN pc' = [pc EXCEPT ![s] = "wait"] /\ UNCHANGED <<refs, result>>
       ELSE OtherError(s) /\ refs' = [refs EXCEPT ![p[s]] = @ - 1]
  /\ UNCHANGED <<halVars, linkVars, p, takeVars, TxConfig, made, size, overlapped, dma,
                 TxPktSemaphore, wire>>

(* HAL_ETH_ReleaseTxPacket goes over BuffersInUse descriptors and stops at *)
(* the first frame that the DMA still has.                                 *)
Position(k) == Incr(releaseIndex, k)
Unsent(k) == PacketAddress[Position(k)] # NoFrame /\ desc[Position(k)].own
Least(S) == CHOOSE n \in S : \A m \in S : n <= m
Stop == Least({k \in 0 .. BuffersInUse : k < BuffersInUse => Unsent(k)})

(* Seeded bug: a frame that the DMA still has is passed over.              *)
ReleasedEarly ==
  {k \in 0 .. BuffersInUse - 1 : k < NumDesc /\ PacketAddress[Position(k)] # NoFrame}

(* The steps that free a frame; after a whole round there is none left.    *)
Released ==
  {k \in 0 .. Stop - 1 : k < NumDesc /\ PacketAddress[Position(k)] # NoFrame}

(* It frees them (HAL_ETH_TxFreeCallback) and notes the place of the last. *)
HAL_ETH_ReleaseTxPacket ==
  LET freed == {Position(k) : k \in Released}
      end   == 1 + CHOOSE k \in Released : \A j \in Released : j <= k
  IN  /\ refs' = [f \in Frames |->
                    IF \E d \in freed : PacketAddress[d] = f THEN refs[f] - 1 ELSE refs[f]]
      /\ PacketAddress' = [d \in Desc |-> IF d \in freed THEN NoFrame ELSE PacketAddress[d]]
      /\ IF freed = {} THEN UNCHANGED <<BuffersInUse, releaseIndex>>
         ELSE BuffersInUse' = BuffersInUse - end /\ releaseIndex' = Position(end)

(* The semaphore is taken, or its two seconds have passed.                 *)
Retry(s) ==
  /\ pc[s] = "wait" /\ MayRun(s)
  /\ TxPktSemaphore' = 0
  /\ HAL_ETH_ReleaseTxPacket
  /\ pc' = [pc EXCEPT ![s] = "transmit"]
  /\ UNCHANGED <<desc, CurTxDesc, CurrentPacketAddress, busy, linkVars, p, takeVars, TxConfig,
                 made, size, result, overlapped, dma, wire>>

low_level_output(s) ==
  \/ TakeFirst(s) \/ TakeNext(s) \/ Give(s) \/ Publish(s)
  \/ Full(s) \/ RollBack(s) \/ Stopped(s) \/ Retry(s)

-----------------------------------------------------------------------------
(* The DMA sends the next descriptor it owns; the last one of a frame      *)
(* raises the interrupt whose callback gives the semaphore.  (Bound: all   *)
(* the buffers of all frames, which only calls that overlap exceed.)       *)
DmaSend ==
  /\ started
  /\ desc[dma].own
  /\ Len(wire) < MaxFrames * MaxBuffers
  /\ desc' = [desc EXCEPT ![dma].own = FALSE]
  /\ dma' = Incr(dma, 1)
  /\ wire' = Append(wire, <<desc[dma].buffer, desc[dma].part>>)
  /\ TxPktSemaphore' = IF desc[dma].part = size[desc[dma].buffer] THEN 1 ELSE TxPktSemaphore
  /\ UNCHANGED <<PacketAddress, CurTxDesc, BuffersInUse, releaseIndex, CurrentPacketAddress,
                 busy, linkVars, callVars, refs>>

(* The link thread, ethernet_link_thread: the loss of the link is          *)
(* confirmed, the driver stopped,                                          *)
LinkLost ==
  /\ lpc = "watch" /\ netif_up /\ TcpipRests /\ pc["EthLink"] = "idle"
  /\ drops < MaxDrops
  /\ drops' = drops + 1
  /\ started' = FALSE
  /\ lpc' = "stopped"
  /\ UNCHANGED <<halVars, netif_up, callVars, dma, TxPktSemaphore, refs, wire>>

(* and then the netif set down.                                            *)
SetDown ==
  /\ lpc = "stopped" /\ TcpipRests
  /\ netif_up' = FALSE
  /\ lpc' = "watch"
  /\ UNCHANGED <<halVars, started, drops, callVars, dma, TxPktSemaphore, refs, wire>>

(* The link is back: the driver is started,                                *)
LinkFound ==
  /\ lpc = "watch" /\ ~netif_up /\ TcpipRests
  /\ started' = TRUE
  /\ lpc' = "started"
  /\ UNCHANGED <<halVars, netif_up, drops, callVars, dma, TxPktSemaphore, refs, wire>>

(* the netif set up,                                                       *)
SetUp ==
  /\ lpc = "started" /\ TcpipRests
  /\ netif_up' = TRUE
  /\ lpc' = "report"
  /\ UNCHANGED <<halVars, started, drops, callVars, dma, TxPktSemaphore, refs, wire>>

(* and a gratuitous ARP request sent, without the core lock.               *)
Report ==
  /\ lpc = "report" /\ TcpipRests
  /\ Call("EthLink", 1)
  /\ lpc' = "watch"
  /\ UNCHANGED <<halVars, started, netif_up, drops, takeVars, result, dma, TxPktSemaphore, wire>>

LinkThread == LinkLost \/ SetDown \/ LinkFound \/ SetUp \/ Report

Next ==
  \/ \E n \in 1 .. MaxBuffers : Output(n)
  \/ \E s \in Threads : low_level_output(s)
  \/ DmaSend
  \/ LinkThread

Spec == Init /\ [][Next]_vars

(* The DMA goes on while it is started, and so does a thread in its loop.  *)
(* Nothing says that a link that is lost comes back, or that the stack has *)
(* anything to send.                                                       *)
FairSpec ==
  /\ Spec
  /\ WF_vars(DmaSend)
  /\ WF_vars(SetDown) /\ WF_vars(SetUp) /\ WF_vars(Report)
  /\ \A s \in Threads : WF_vars(low_level_output(s))

-----------------------------------------------------------------------------
(***************************************************************************)
(* Properties                                                              *)
(***************************************************************************)

(* The DMA never reads a frame that has been freed: while a descriptor has *)
(* its OWN bit, the driver has its reference to the frame.  This, and each *)
(* of the next three, holds across full rings and losses of the link until *)
(* a call begins during another (the ARP request after a loss, sent while  *)
(* the stack sends): from there on it does not.                            *)
NoUseAfterFree ==
  ~overlapped => \A d \in Desc : desc[d].own => refs[desc[d].buffer] = 1

(* Every reference is given back once: a frame is referenced as long as it *)
(* is being handed over or waits to be freed, and where it waits          *)
(* HAL_ETH_ReleaseTxPacket will come.                                      *)
Waiting(f) == {k \in 0 .. BuffersInUse - 1 : PacketAddress[Position(k)] = f}
InHand(f) == \E s \in Threads : pc[s] # "idle" /\ p[s] = f

ReferencesBalance ==
  ~overlapped => \A f \in Frames :
    refs[f] = IF InHand(f) \/ Waiting(f) # {} THEN 1 ELSE 0

(* Frames reach the wire in the order of the calls, each of them once and  *)
(* whole (buffer after buffer, none left out when the ring was full half   *)
(* way), and none for which the call has failed.                           *)
Nothing == <<NoFrame, 0>>
Whole(a) == a = Nothing \/ a[2] = size[a[1]]
Follows(a, b) ==
  IF Whole(a) THEN a[1] < b[1] /\ b[2] = 1 ELSE b = <<a[1], a[2] + 1>>

SentInOrder ==
  ~overlapped => \A i \in 1 .. Len(wire) :
    /\ Follows(IF i = 1 THEN Nothing ELSE wire[i - 1], wire[i])
    /\ result[wire[i][1]] # "error"

(* A frame for which the call has returned ERR_OK is on the wire or will   *)
(* be: its last buffer was sent or has a descriptor (ethernetif.c:406,     *)
(* "ERR_OK if the packet could be sent").                                  *)
Going(f) ==
  \/ \E i \in 1 .. Len(wire) : wire[i] = <<f, size[f]>>
  \/ \E d \in Desc : desc[d].own /\ desc[d].buffer = f /\ desc[d].part = size[f]

OkMeansSent ==
  ~overlapped => \A f \in Frames : result[f] = "ok" => Going(f)

(* The same whatever the calls of the two threads do to each other.        *)
OkIsGoing == \A f \in Frames : result[f] = "ok" => Going(f)

(* A call returns.  ethernetif.c:406-407 names two outcomes, "ERR_OK if    *)
(* the packet could be sent" and "an err_t value if the packet couldn't be *)
(* sent".                                                                  *)
CallReturns == \A s \in Threads : (pc[s] # "idle") ~> (pc[s] = "idle")

(* It does while the link stays, however full the ring is.                 *)
CallReturnsLinked ==
  \A s \in Threads : (pc[s] # "idle") ~> (pc[s] = "idle" \/ drops > 0)

(* The reference to a frame is held only until it has been sent: it is     *)
(* given back in the end.  tcp_out.c:1423-1424 expects a segment to be     *)
(* referenced by the driver only "due to deferred transmission", and does  *)
(* not retransmit it as long as it is.                                     *)
SentIsReleased ==
  \A f \in Frames : (\E i \in 1 .. Len(wire) : wire[i] = <<f, size[f]>>) ~> (refs[f] = 0)

-----------------------------------------------------------------------------
(***************************************************************************)
(* The inductive invariant behind the first four, until calls overlap.     *)
(***************************************************************************)

(* The thread that is in its call, if one is, and where it is.             *)
Caller == IF pc["EthLink"] # "idle" THEN "EthLink" ELSE "tcpip"
Stage == pc[Caller]

(* Frames whose call has returned, and those that the DMA has got.         *)
Past(f) == f \in 1 .. made /\ (f = made => Stage = "idle")
Given(f) ==
  /\ f \in 1 .. made /\ (f = made => Stage \in {"idle", "publish"})
  /\ result[f] # "error"

(* One thread hands over the latest frame.                                 *)
OneCaller ==
  /\ \A s \in Threads : pc[s] # "idle" => s = Caller
  /\ Stage # "idle" => made # 0 /\ p[Caller] = made /\ TxConfig = made
  /\ Stage \in {"take", "publish"} =>
       /\ CurrentPacketAddress = made /\ txbuffer[Caller] = made
       /\ firstdescidx[Caller] = CurTxDesc
       /\ descnbr[Caller] \in 1 .. size[made]
       /\ PacketAddress[descidx(Caller)] = NoFrame
  /\ Stage = "publish" => descnbr[Caller] = size[made] /\ Going(made)
  /\ \A f \in Frames : result[f] # "none" => Past(f)

(* A frame is noted once, among the BuffersInUse descriptors before        *)
(* CurTxDesc.                                                              *)
NotedInUse ==
  /\ CurTxDesc = Position(BuffersInUse)
  /\ \A d \in Desc : PacketAddress[d] # NoFrame =>
       /\ Past(PacketAddress[d])
       /\ \E k \in 0 .. BuffersInUse - 1 : Position(k) = d
  /\ \A d, e \in Desc :
       PacketAddress[d] = PacketAddress[e] /\ PacketAddress[d] # NoFrame => d = e

(* The k-th descriptor that the DMA will look at, and whether its frame is *)
(* noted there.                                                            *)
Ahead(k) == desc[Incr(dma, k)]
Piece(k) == <<Ahead(k).buffer, Ahead(k).part>>

Noted(k) ==
  \/ PacketAddress[Incr(dma, k)] = Ahead(k).buffer
  \/ Stage = "publish" /\ Incr(dma, k) = descidx(Caller) /\ Ahead(k).buffer = made

(* What was sent before the k-th.                                          *)
Latest == IF Len(wire) = 0 THEN Nothing ELSE wire[Len(wire)]
Before(k) == IF k = 0 THEN Latest ELSE Piece(k - 1)

(* The DMA has the next q descriptors, up to CurTxDesc.  They go on where  *)
(* the wire ends, each frame up to its last buffer, where it is noted.     *)
(* Behind them is what a call has taken so far.                            *)
Queued(q) ==
  /\ \A k \in 0 .. NumDesc - 1 : Ahead(k).own <=>
       k < q \/ (Stage = "take" /\ k \in q + 1 .. q + descnbr[Caller] - 1)
  /\ Incr(dma, q) = IF Stage = "publish" THEN Incr(descidx(Caller), 1) ELSE CurTxDesc
  /\ \A k \in 0 .. q - 1 :
       /\ Given(Ahead(k).buffer)
       /\ Follows(Before(k), Piece(k))
       /\ \E l \in k .. q - 1 : Ahead(l).buffer = Ahead(k).buffer /\ Noted(l)
  /\ Whole(Before(q))
  /\ Stage = "take" =>
       /\ q + descnbr[Caller] <= NumDesc
       /\ \A j \in 0 .. descnbr[Caller] - 1 : Piece(q + j) = <<made, j + 1>>

InQueue == \E q \in 0 .. NumDesc : Queued(q)

WireIsGiven == \A i \in 1 .. Len(wire) : Given(wire[i][1])

(* ReferencesBalance, for one caller.                                      *)
Referenced ==
  \A f \in Frames :
    refs[f] = IF \/ Stage # "idle" /\ f = made
                 \/ \E d \in Desc : PacketAddress[d] = f
              THEN 1 ELSE 0

IInv ==
  /\ OneCaller /\ NotedInUse /\ InQueue /\ WireIsGiven
  /\ Referenced /\ SentInOrder /\ OkIsGoing

UntilOverlap == EthTxTypeOK /\ (~overlapped => IInv)

=============================================================================
