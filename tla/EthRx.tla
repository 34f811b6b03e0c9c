-------------------------------- MODULE EthRx --------------------------------
(***************************************************************************)
(* Reception of Ethernet frames: the pool of receive buffers and the EthIf *)
(* thread of ethernetif.c, with the descriptor ring of the HAL driver      *)
(* below them (HAL_ETH_ReadData, ETH_UpdateDescriptor, HAL_ETH_Start_IT,   *)
(* HAL_ETH_Stop_IT) and the DMA that fills it.                             *)
(*                                                                         *)
(* A frame fits one buffer (ETH_RX_BUF_SIZE is 1536).  EthIf has the       *)
(* highest priority of all threads: when its semaphore is given it runs    *)
(* until it waits again, and only the DMA and its interrupt go on beside   *)
(* it.  The stack frees the buffers in several threads, and the link       *)
(* thread rebuilds the ring when the link comes back.                      *)
(***************************************************************************)
EXTENDS Integers, Sequences

CONSTANTS NumDesc,     \* receive descriptors (4)
          Buffers,     \* the pool (12 buffers)
          NoBuffer,    \* NULL
          Threads,     \* threads of the stack that free buffers
          MaxFrames,   \* bound: frames
          MaxDrops     \* bound: losses of the link

ASSUME EthRxAssumption ==
  /\ NumDesc \in Nat \ {0}
  /\ NoBuffer \notin Buffers
  /\ \E f \in [0 .. NumDesc - 1 -> Buffers] :
       \A i, j \in 0 .. NumDesc - 1 : f[i] = f[j] => i = j
  /\ MaxFrames \in Nat
  /\ MaxDrops \in Nat

Desc == 0 .. NumDesc - 1

(* INCR_RX_DESC_INDEX.                                                     *)
Wrap(n) == IF n >= NumDesc THEN n - NumDesc ELSE n
Succ(d) == Wrap(d + 1)

VARIABLES
  own,            \* own[d]: OWN bit of a descriptor
  buffer,         \* buffer[d]: DESC2, where the DMA writes
  attached,       \* attached[d]: BackupAddr0 is set (it is then DESC2)
  RxDescIdx, RxBuildDescIdx, RxBuildDescCnt,
  started,        \* gState is HAL_ETH_STATE_STARTED
  pool,           \* free buffers of RX_POOL
  RxAllocStatus,
  RxPktSemaphore,
  epc,            \* where EthIf is
  p,              \* the buffer that it has read
  held,           \* buffers that the stack has
  fpc,            \* where a thread is in pbuf_free_custom
  lpc,            \* where the link thread is
  drops,
  rushed,         \* history: the link came back while descriptors waited
  dma,            \* the descriptor that the DMA looks at
  running,        \* the DMA receives
  irq,            \* its interrupts are enabled
  pending,        \* an interrupt is pending
  mem,            \* mem[b]: the frame in a buffer
  arrived,        \* frames so far
  delivered       \* history: frames given to the stack

ringVars == <<own, buffer, attached, RxDescIdx, RxBuildDescIdx, RxBuildDescCnt>>
dmaVars == <<dma, running, irq, pending, mem, arrived>>
linkVars == <<started, lpc, drops, rushed>>
stackVars == <<held, fpc>>
vars == <<ringVars, dmaVars, linkVars, stackVars, pool, RxAllocStatus, RxPktSemaphore,
          epc, p, delivered>>

EthRxTypeOK ==
  /\ own \in [Desc -> BOOLEAN]
  /\ buffer \in [Desc -> Buffers]
  /\ attached \in [Desc -> BOOLEAN]
  /\ RxDescIdx \in Desc /\ RxBuildDescIdx \in Desc /\ dma \in Desc
  /\ RxBuildDescCnt \in 0 .. NumDesc
  /\ started \in BOOLEAN /\ running \in BOOLEAN /\ irq \in BOOLEAN /\ pending \in BOOLEAN
  /\ pool \subseteq Buffers /\ held \subseteq Buffers
  /\ RxAllocStatus \in {"ok", "error"}
  /\ RxPktSemaphore \in 0 .. 1
  /\ epc \in {"wait", "read", "build", "give"}
  /\ p \in Buffers \union {NoBuffer}
  /\ fpc \in [Threads -> {"idle", "test", "set", "signal"}]
  /\ lpc \in {"watch", "stop", "build", "nomem", "receive", "enable", "start"}
  /\ drops \in 0 .. MaxDrops /\ rushed \in BOOLEAN
  /\ mem \in [Buffers -> 0 .. MaxFrames]
  /\ arrived \in 0 .. MaxFrames
  /\ delivered \in Seq(0 .. MaxFrames)

(* low_level_init has started the driver: the ring is built.               *)
Init ==
  /\ own = [d \in Desc |-> TRUE]
  /\ buffer \in [Desc -> Buffers]
  /\ \A d, e \in Desc : buffer[d] = buffer[e] => d = e
  /\ attached = [d \in Desc |-> TRUE]
  /\ RxDescIdx = 0 /\ RxBuildDescIdx = 0 /\ RxBuildDescCnt = 0
  /\ started = TRUE
  /\ pool = Buffers \ {buffer[d] : d \in Desc}
  /\ RxAllocStatus = "ok"
  /\ RxPktSemaphore = 0
  /\ epc = "wait" /\ p = NoBuffer
  /\ held = {} /\ fpc = [t \in Threads |-> "idle"]
  /\ lpc = "watch" /\ drops = 0 /\ rushed = FALSE
  /\ dma = 0 /\ running = TRUE /\ irq = TRUE /\ pending = FALSE
  /\ mem = [b \in Buffers |-> 0]
  /\ arrived = 0 /\ delivered = <<>>

-----------------------------------------------------------------------------
(* The DMA stores a frame in its descriptor, or loses it when it does not  *)
(* own the descriptor (receive buffer unavailable).  Either way the        *)
(* interrupt gives the semaphore.                                          *)
Interrupt ==
  IF irq THEN RxPktSemaphore' = 1 /\ UNCHANGED pending
         ELSE pending' = TRUE /\ UNCHANGED RxPktSemaphore

DmaReceive ==
  /\ running
  /\ arrived < MaxFrames
  /\ arrived' = arrived + 1
  /\ IF own[dma]
       THEN /\ mem' = [mem EXCEPT ![buffer[dma]] = arrived']
            /\ own' = [own EXCEPT ![dma] = FALSE]
            /\ dma' = Succ(dma)
       ELSE UNCHANGED <<mem, own, dma>>
  /\ Interrupt
  /\ UNCHANGED <<buffer, attached, RxDescIdx, RxBuildDescIdx, RxBuildDescCnt, running, irq,
                 linkVars, stackVars, pool, RxAllocStatus, epc, p, delivered>>

-----------------------------------------------------------------------------
(* ETH_UpdateDescriptor gives the next descriptor to the DMA, with a new   *)
(* buffer if it has none.                                                  *)
Seize(d) ==
  /\ own' = [own EXCEPT ![d] = TRUE]
  /\ attached' = [attached EXCEPT ![d] = TRUE]
  /\ IF attached[d]
       THEN UNCHANGED <<buffer, pool>>
       ELSE \E b \in pool : buffer' = [buffer EXCEPT ![d] = b] /\ pool' = pool \ {b}

BuildOne ==
  /\ RxBuildDescCnt > 0
  /\ Seize(RxBuildDescIdx)
  /\ RxBuildDescIdx' = Succ(RxBuildDescIdx)
  /\ RxBuildDescCnt' = RxBuildDescCnt - 1

(* No buffer: HAL_ETH_RxAllocateCallback returns NULL.                     *)
NoneLeft == RxBuildDescCnt > 0 /\ ~attached[RxBuildDescIdx] /\ pool = {}

(* ethernetif_input, the EthIf thread.                                     *)
Acquire ==
  /\ epc = "wait" /\ RxPktSemaphore = 1
  /\ RxPktSemaphore' = 0
  /\ epc' = "read"
  /\ UNCHANGED <<ringVars, dmaVars, linkVars, stackVars, pool, RxAllocStatus, p, delivered>>

(* Seeded bug: the descriptors that have been read but not rebuilt are not *)
(* told from those that hold a frame.                                      *)
ReadyIfNotOwned == ~own[RxDescIdx]

Ready == ~own[RxDescIdx] /\ RxBuildDescCnt < NumDesc

(* Seeded bug: BackupAddr0 is not cleared.                                 *)
StillAttached == UNCHANGED attached

Detach == attached' = [attached EXCEPT ![RxDescIdx] = FALSE]

(* low_level_input, and HAL_ETH_ReadData up to ETH_UpdateDescriptor.       *)
low_level_input ==
  /\ epc = "read"
  /\ IF RxAllocStatus = "ok" /\ started
       THEN /\ epc' = "build"
            /\ IF Ready
                 THEN /\ p' = buffer[RxDescIdx]
                      /\ Detach
                      /\ RxDescIdx' = Succ(RxDescIdx)
                      /\ RxBuildDescCnt' = RxBuildDescCnt + 1
                 ELSE UNCHANGED <<p, attached, RxDescIdx, RxBuildDescCnt>>
       ELSE epc' = "wait" /\ UNCHANGED <<p, attached, RxDescIdx, RxBuildDescCnt>>
  /\ UNCHANGED <<own, buffer, RxBuildDescIdx, dmaVars, linkVars, stackVars, pool, RxAllocStatus,
                 RxPktSemaphore, delivered>>

(* The rest of HAL_ETH_ReadData.                                           *)
Rebuild ==
  /\ epc = "build"
  /\ \/ BuildOne /\ UNCHANGED <<epc, RxAllocStatus>>
     \/ /\ RxBuildDescCnt = 0 \/ NoneLeft
        /\ epc' = "give"
        /\ RxAllocStatus' = IF NoneLeft THEN "error" ELSE RxAllocStatus
        /\ UNCHANGED <<own, attached, buffer, pool, RxBuildDescIdx, RxBuildDescCnt>>
  /\ UNCHANGED <<RxDescIdx, dmaVars, linkVars, stackVars, RxPktSemaphore, p, delivered>>

(* Nothing read: EthIf waits.                                              *)
NoPacket ==
  /\ epc = "give" /\ p = NoBuffer
  /\ epc' = "wait"
  /\ UNCHANGED <<ringVars, dmaVars, linkVars, stackVars, pool, RxAllocStatus, RxPktSemaphore, p,
                 delivered>>

(* The stack takes the frame.                                              *)
Input ==
  /\ epc = "give" /\ p # NoBuffer
  /\ held' = held \union {p}
  /\ delivered' = Append(delivered, mem[p])
  /\ p' = NoBuffer
  /\ epc' = "read"
  /\ UNCHANGED <<ringVars, dmaVars, linkVars, fpc, pool, RxAllocStatus, RxPktSemaphore>>

(* Seeded bug: the frame that the stack refuses is not freed.              *)
KeepRefused == UNCHANGED pool

FreeRefused == pool' = pool \union {p}

(* Its mailbox is full: EthIf frees the buffer, with all of                *)
(* pbuf_free_custom.                                                       *)
InputFails ==
  /\ epc = "give" /\ p # NoBuffer
  /\ FreeRefused
  /\ RxAllocStatus' = "ok"
  /\ RxPktSemaphore' = IF RxAllocStatus = "error" THEN 1 ELSE RxPktSemaphore
  /\ p' = NoBuffer
  /\ epc' = "read"
  /\ UNCHANGED <<ringVars, dmaVars, linkVars, stackVars, delivered>>

EthIf == Acquire \/ low_level_input \/ Rebuild \/ NoPacket \/ Input \/ InputFails

-----------------------------------------------------------------------------
(* The other threads run while EthIf waits.                                *)
EthIfRests == epc = "wait" /\ RxPktSemaphore = 0

(* pbuf_free_custom, in a thread of the stack: the buffer goes back,       *)
FreeToPool(t, b) ==
  /\ fpc[t] = "idle" /\ EthIfRests
  /\ b \in held
  /\ held' = held \ {b}
  /\ pool' = pool \union {b}
  /\ fpc' = [fpc EXCEPT ![t] = "test"]
  /\ UNCHANGED <<ringVars, dmaVars, linkVars, RxAllocStatus, RxPktSemaphore, epc, p, delivered>>

(* the status is tested,                                                   *)
TestStatus(t) ==
  /\ fpc[t] = "test" /\ EthIfRests
  /\ fpc' = [fpc EXCEPT ![t] = IF RxAllocStatus = "error" THEN "set" ELSE "idle"]
  /\ UNCHANGED <<ringVars, dmaVars, linkVars, held, pool, RxAllocStatus, RxPktSemaphore, epc, p,
                 delivered>>

(* Seeded bug: the status stays.                                           *)
NoSet(t) ==
  /\ fpc[t] = "set" /\ EthIfRests
  /\ fpc' = [fpc EXCEPT ![t] = "signal"]
  /\ UNCHANGED <<ringVars, dmaVars, linkVars, held, pool, RxAllocStatus, RxPktSemaphore, epc, p,
                 delivered>>

(* set,                                                                    *)
SetStatus(t) ==
  /\ fpc[t] = "set" /\ EthIfRests
  /\ RxAllocStatus' = "ok"
  /\ fpc' = [fpc EXCEPT ![t] = "signal"]
  /\ UNCHANGED <<ringVars, dmaVars, linkVars, held, pool, RxPktSemaphore, epc, p, delivered>>

(* Seeded bug: the thread is not woken.                                    *)
NoSignal(t) ==
  /\ fpc[t] = "signal" /\ EthIfRests
  /\ fpc' = [fpc EXCEPT ![t] = "idle"]
  /\ UNCHANGED <<ringVars, dmaVars, linkVars, held, pool, RxAllocStatus, RxPktSemaphore, epc, p,
                 delivered>>

(* and EthIf woken.                                                        *)
Signal(t) ==
  /\ fpc[t] = "signal" /\ EthIfRests
  /\ RxPktSemaphore' = 1
  /\ fpc' = [fpc EXCEPT ![t] = "idle"]
  /\ UNCHANGED <<ringVars, dmaVars, linkVars, held, pool, RxAllocStatus, epc, p, delivered>>

pbuf_free_custom(t) ==
  (\E b \in Buffers : FreeToPool(t, b)) \/ TestStatus(t) \/ SetStatus(t) \/ Signal(t)

-----------------------------------------------------------------------------
(* The link thread.  HAL_ETH_Stop_IT disables the interrupts, and then     *)
(* stops the DMA.                                                          *)
LinkLost ==
  /\ lpc = "watch" /\ started /\ EthIfRests
  /\ drops < MaxDrops
  /\ drops' = drops + 1
  /\ started' = FALSE
  /\ irq' = FALSE
  /\ lpc' = "stop"
  /\ UNCHANGED <<ringVars, dma, running, pending, mem, arrived, rushed, stackVars, pool,
                 RxAllocStatus, RxPktSemaphore, epc, p, delivered>>

Stop_IT ==
  /\ lpc = "stop" /\ EthIfRests
  /\ running' = FALSE
  /\ lpc' = "watch"
  /\ UNCHANGED <<ringVars, dma, irq, pending, mem, arrived, started, drops, rushed, stackVars,
                 pool, RxAllocStatus, RxPktSemaphore, epc, p, delivered>>

(* HAL_ETH_Start_IT builds all descriptors, those of the frames that have  *)
(* not been read too,                                                      *)
LinkFound ==
  /\ lpc = "watch" /\ ~started /\ EthIfRests
  /\ rushed' = (rushed \/ RxBuildDescCnt # 0)
  /\ RxBuildDescCnt' = NumDesc
  /\ lpc' = "build"
  /\ UNCHANGED <<own, buffer, attached, RxDescIdx, RxBuildDescIdx, dmaVars, started, drops,
                 stackVars, pool, RxAllocStatus, RxPktSemaphore, epc, p, delivered>>

BuildAll ==
  /\ lpc = "build" /\ EthIfRests
  /\ \/ BuildOne /\ UNCHANGED lpc
     \/ /\ RxBuildDescCnt = 0 \/ NoneLeft
        /\ lpc' = IF NoneLeft THEN "nomem" ELSE "receive"
        /\ UNCHANGED <<own, attached, buffer, pool, RxBuildDescIdx, RxBuildDescCnt>>
  /\ UNCHANGED <<RxDescIdx, dmaVars, started, drops, rushed, stackVars, RxAllocStatus,
                 RxPktSemaphore, epc, p, delivered>>

(* (HAL_ETH_RxAllocateCallback notes that the pool is exhausted)           *)
NoteExhaustion ==
  /\ lpc = "nomem" /\ EthIfRests
  /\ RxAllocStatus' = "error"
  /\ lpc' = "receive"
  /\ UNCHANGED <<ringVars, dmaVars, started, drops, rushed, stackVars, pool, RxPktSemaphore,
                 epc, p, delivered>>

(* starts the DMA,                                                         *)
StartDma ==
  /\ lpc = "receive" /\ EthIfRests
  /\ running' = TRUE
  /\ lpc' = "enable"
  /\ UNCHANGED <<ringVars, dma, irq, pending, mem, arrived, started, drops, rushed, stackVars,
                 pool, RxAllocStatus, RxPktSemaphore, epc, p, delivered>>

(* enables the interrupts                                                  *)
EnableIrq ==
  /\ lpc = "enable" /\ EthIfRests
  /\ irq' = TRUE
  /\ pending' = FALSE
  /\ RxPktSemaphore' = IF pending THEN 1 ELSE RxPktSemaphore
  /\ lpc' = "start"
  /\ UNCHANGED <<ringVars, dma, running, mem, arrived, started, drops, rushed, stackVars,
                 pool, RxAllocStatus, epc, p, delivered>>

(* and sets the state, that HAL_ETH_ReadData checks, last.                 *)
Start_IT ==
  /\ lpc = "start" /\ EthIfRests
  /\ started' = TRUE
  /\ lpc' = "watch"
  /\ UNCHANGED <<ringVars, dmaVars, drops, rushed, stackVars, pool, RxAllocStatus,
                 RxPktSemaphore, epc, p, delivered>>

LinkThread ==
  \/ LinkLost \/ Stop_IT
  \/ LinkFound \/ BuildAll \/ NoteExhaustion \/ StartDma \/ EnableIrq \/ Start_IT

Next ==
  \/ DmaReceive
  \/ EthIf
  \/ \E t \in Threads : pbuf_free_custom(t)
  \/ LinkThread

Spec == Init /\ [][Next]_vars

(* EthIf runs, the link comes back, and the stack frees each buffer that   *)
(* it gets.                                                                *)
FairSpec ==
  /\ Spec
  /\ WF_vars(EthIf)
  /\ \A t \in Threads : WF_vars(pbuf_free_custom(t))
  /\ WF_vars(Stop_IT \/ LinkFound \/ BuildAll \/ NoteExhaustion \/ StartDma \/ EnableIrq \/ Start_IT)

-----------------------------------------------------------------------------
(***************************************************************************)
(* Properties                                                              *)
(***************************************************************************)

(* No buffer is lost: each is in the pool, in the ring, in the hand of     *)
(* EthIf or with the stack.                                                *)
InRing == {buffer[d] : d \in {e \in Desc : attached[e]}}
InHand == {p} \ {NoBuffer}

NoLeak == pool \union InRing \union InHand \union held = Buffers

(* And it is in one of these places only, and in one descriptor: a buffer  *)
(* that the stack frees is its own (LWIP_ASSERT("pbuf_free: p->ref > 0",   *)
(* p->ref > 0), pbuf.c:753).                                               *)
EachHasOneOwner ==
  /\ pool \intersect InRing = {} /\ pool \intersect InHand = {} /\ pool \intersect held = {}
  /\ InRing \intersect InHand = {} /\ InRing \intersect held = {} /\ InHand \intersect held = {}
  /\ \A d, e \in Desc : attached[d] /\ attached[e] /\ buffer[d] = buffer[e] => d = e

(* It is as long as the link never came back while descriptors waited for  *)
(* buffers.                                                                *)
OneOwner == ~rushed => EachHasOneOwner

(* The DMA writes only into a buffer of the ring, as long as that holds: a *)
(* frame that the stack has is never overwritten.                          *)
HeldIsStable == [][~rushed => \A b \in held \union InHand : mem'[b] = mem[b]]_vars

(* Frames are delivered in the order in which they came, each once, while  *)
(* the link stays.                                                         *)
DeliveredInOrder ==
  drops = 0 =>
    \A i, j \in 1 .. Len(delivered) : i < j => delivered[i] < delivered[j]

(* Reading resumes after the pool was exhausted (ethernetif.c:621-622).    *)
ExhaustionEnds == (RxAllocStatus = "error") ~> (RxAllocStatus = "ok")

(* It does while the link thread finds no descriptor that waits.           *)
ExhaustionEndsUnrushed == (RxAllocStatus = "error") ~> (RxAllocStatus = "ok" \/ rushed)

(* A frame that the DMA has stored is read, even after the pool was        *)
(* exhausted, if the stack frees its buffers.  ethernetif.c:480-486: a     *)
(* pbuf filled with the received packet, "NULL on memory error".           *)
Stored(f) == \E d \in Desc : attached[d] /\ ~own[d] /\ mem[buffer[d]] = f

StoredIsRead == \A f \in 1 .. MaxFrames : Stored(f) ~> ~Stored(f)

(* It is while the link stays.                                             *)
StoredIsReadLinked ==
  \A f \in 1 .. MaxFrames : Stored(f) ~> (~Stored(f) \/ drops > 0)

-----------------------------------------------------------------------------
(***************************************************************************)
(* The inductive invariant: the owners are told apart until the link comes *)
(* back with descriptors that wait.                                        *)
(***************************************************************************)

NothingInHand == epc \in {"wait", "read"} => p = NoBuffer

(* EthIf reads only while the link thread watches.                         *)
ReaderIsAlone ==
  /\ epc \in {"build", "give"} => started
  /\ started => lpc = "watch"
  /\ lpc # "nomem"

(* The descriptors to build are the ones read last.                        *)
Unbuilt == {Wrap(RxBuildDescIdx + k) : k \in 0 .. RxBuildDescCnt - 1}

IndicesInStep ==
  /\ RxDescIdx = Wrap(RxBuildDescIdx + RxBuildDescCnt)
  /\ \A d \in Desc : attached[d] <=> lpc = "build" \/ d \notin Unbuilt

OwnedIsAttached == \A d \in Desc : own[d] => attached[d]

IInv ==
  /\ EthRxTypeOK /\ NoLeak /\ NothingInHand
  /\ ~rushed =>
       EachHasOneOwner /\ ReaderIsAlone /\ IndicesInStep /\ OwnedIsAttached

(* DeliveredInOrder: while the link stays, what the stack has, what EthIf  *)
(* has read, and what waits in the ring came in this order.                *)
FrameAhead(k) == mem[buffer[Wrap(RxDescIdx + k)]]

ReadInOrder ==
  /\ \A i, j \in 1 .. Len(delivered) : i < j => delivered[i] < delivered[j]
  /\ \A i \in 1 .. Len(delivered) : delivered[i] <= arrived
  /\ p # NoBuffer =>
       mem[p] <= arrived /\ \A i \in 1 .. Len(delivered) : delivered[i] < mem[p]

(* The next q descriptors hold frames; the DMA is at the one after them.   *)
Filled(q) ==
  /\ dma = Wrap(RxDescIdx + q)
  /\ \A k \in 0 .. NumDesc - 1 :
       own[Wrap(RxDescIdx + k)] <=> q <= k /\ k < NumDesc - RxBuildDescCnt
  /\ \A k \in 0 .. q - 1 :
       /\ FrameAhead(k) <= arrived
       /\ p # NoBuffer => mem[p] < FrameAhead(k)
       /\ \A i \in 1 .. Len(delivered) : delivered[i] < FrameAhead(k)
  /\ \A k, l \in 0 .. q - 1 : k < l => FrameAhead(k) < FrameAhead(l)

LinkStays == started /\ lpc = "watch" /\ ~rushed

FramesInOrder ==
  drops = 0 =>
    LinkStays /\ ReadInOrder /\ \E q \in 0 .. NumDesc - RxBuildDescCnt : Filled(q)

=============================================================================
