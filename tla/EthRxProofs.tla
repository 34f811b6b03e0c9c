----------------------------- MODULE EthRxProofs -----------------------------
(***************************************************************************)
(* Proofs about EthRx, for any number of descriptors, buffers, threads,    *)
(* frames and losses of the link.                                          *)
(***************************************************************************)
EXTENDS EthRx, TLAPS

-----------------------------------------------------------------------------
(* The ring.                                                               *)

LEMMA Constants ==
  /\ NumDesc \in Nat /\ NumDesc > 0 /\ NoBuffer \notin Buffers
  /\ MaxFrames \in Nat /\ MaxDrops \in Nat
  BY EthRxAssumption

LEMMA Wraps ==
  ASSUME NEW n \in 0 .. 2 * NumDesc - 1
  PROVE  Wrap(n) \in Desc
  BY Constants DEF Wrap, Desc

LEMMA Succs == \A d \in Desc : Succ(d) \in Desc
  BY Constants DEF Succ, Wrap, Desc

(* The n descriptors from b on, and what follows them.                     *)
Window(b, n) == {Wrap(b + k) : k \in 0 .. n - 1}

LEMMA WindowGrows ==
  ASSUME NEW b \in Desc, NEW n \in 0 .. NumDesc - 1
  PROVE  /\ Window(b, n + 1) = Window(b, n) \union {Wrap(b + n)}
         /\ Wrap(b + n) \notin Window(b, n)
         /\ Wrap(b + (n + 1)) = Succ(Wrap(b + n))
  <1>1. 0 .. (n + 1) - 1 = (0 .. n - 1) \union {n}
    OBVIOUS
  <1>2. \A k \in 0 .. n - 1 : Wrap(b + k) # Wrap(b + n)
    BY Constants DEF Wrap, Desc
  <1>3. Wrap(b + (n + 1)) = Succ(Wrap(b + n))
    BY Constants DEF Wrap, Desc, Succ
  <1>. QED  BY <1>1, <1>2, <1>3 DEF Window

LEMMA WindowShrinks ==
  ASSUME NEW b \in Desc, NEW n \in 1 .. NumDesc
  PROVE  /\ Window(b, n) = Window(Succ(b), n - 1) \union {b}
         /\ b \notin Window(Succ(b), n - 1)
         /\ Wrap(b + n) = Wrap(Succ(b) + (n - 1))
  <1>1. \A k \in 0 .. n - 2 : Wrap(Succ(b) + k) = Wrap(b + (k + 1)) /\ Wrap(Succ(b) + k) # b
    BY Constants DEF Wrap, Desc, Succ
  <1>2. Wrap(b + 0) = b
    BY Constants DEF Wrap, Desc
  <1>3. Window(b, n) \subseteq Window(Succ(b), n - 1) \union {b}
    <2>. SUFFICES ASSUME NEW k \in 0 .. n - 1
                  PROVE  Wrap(b + k) \in Window(Succ(b), n - 1) \union {b}
      BY DEF Window
    <2>1. CASE k = 0
      BY <2>1, <1>2
    <2>2. CASE k # 0
      <3>1. k - 1 \in 0 .. n - 2 /\ (k - 1) + 1 = k /\ 0 .. (n - 1) - 1 = 0 .. n - 2
        BY <2>2
      <3>2. Wrap(Succ(b) + (k - 1)) = Wrap(b + k)
        BY <1>1, <3>1
      <3>. QED  BY <3>1, <3>2 DEF Window
    <2>. QED  BY <2>1, <2>2
  <1>4. Window(Succ(b), n - 1) \subseteq Window(b, n)
    <2>1. \A k \in 0 .. (n - 1) - 1 : k \in 0 .. n - 2 /\ k + 1 \in 0 .. n - 1
      OBVIOUS
    <2>. QED  BY <1>1, <2>1 DEF Window
  <1>5. b \in Window(b, n)
    BY <1>2 DEF Window
  <1>6. b \notin Window(Succ(b), n - 1)
    BY <1>1 DEF Window
  <1>7. Wrap(b + n) = Wrap(Succ(b) + (n - 1))
    BY Constants DEF Wrap, Desc, Succ
  <1>. QED  BY <1>3, <1>4, <1>5, <1>6, <1>7

LEMMA WindowEnds ==
  ASSUME NEW b \in Desc
  PROVE  Window(b, 0) = {} /\ Wrap(b + 0) = b /\ Wrap(b + NumDesc) = b
  <1>1. 0 .. 0 - 1 = {}
    OBVIOUS
  <1>. QED  BY <1>1, Constants DEF Window, Wrap, Desc

-----------------------------------------------------------------------------
(* Types, and buffers that are not lost.                                   *)

TInv == EthRxTypeOK /\ NoLeak /\ NothingInHand

LEMMA InitTInv == Init => TInv
  <1>. SUFFICES ASSUME Init PROVE TInv
    OBVIOUS
  <1>1. EthRxTypeOK
    <2>1. 0 \in Desc /\ 0 \in 0 .. NumDesc /\ 0 \in 0 .. MaxDrops /\ 0 \in 0 .. MaxFrames
      BY Constants DEF Desc
    <2>2. /\ own \in [Desc -> BOOLEAN] /\ attached \in [Desc -> BOOLEAN]
          /\ mem \in [Buffers -> 0 .. MaxFrames] /\ delivered \in Seq(0 .. MaxFrames)
          /\ fpc \in [Threads -> {"idle", "test", "set", "signal"}]
      BY <2>1 DEF Init
    <2>. QED  BY <2>1, <2>2 DEF Init, EthRxTypeOK
  <1>2. NoLeak
    BY DEF Init, NoLeak, InRing, InHand
  <1>. QED  BY <1>1, <1>2 DEF Init, TInv, NothingInHand

(* BuildOne, for both of its callers.                                      *)
LEMMA BuildOneTypes ==
  ASSUME EthRxTypeOK, BuildOne
  PROVE  /\ own' \in [Desc -> BOOLEAN] /\ buffer' \in [Desc -> Buffers]
         /\ attached' \in [Desc -> BOOLEAN] /\ RxBuildDescIdx' \in Desc
         /\ RxBuildDescCnt' \in 0 .. NumDesc /\ pool' \subseteq Buffers
         /\ pool' \union InRing' = pool \union InRing
  <1>. USE DEF EthRxTypeOK, BuildOne, Seize
  <1>1. CASE attached[RxBuildDescIdx]
    <2>1. attached' = attached /\ buffer' = buffer /\ pool' = pool
      BY <1>1
    <2>. QED  BY <2>1, Succs, Constants DEF InRing
  <1>2. CASE ~attached[RxBuildDescIdx]
    <2>1. PICK b \in pool : /\ buffer' = [buffer EXCEPT ![RxBuildDescIdx] = b]
                            /\ pool' = pool \ {b}
      BY <1>2
    <2>2. InRing' = InRing \union {b}
      <3>1. \A d \in Desc : d # RxBuildDescIdx =>
              attached'[d] = attached[d] /\ buffer'[d] = buffer[d]
        BY <2>1
      <3>2. attached'[RxBuildDescIdx] /\ buffer'[RxBuildDescIdx] = b
        BY <2>1
      <3>. QED  BY <1>2, <3>1, <3>2 DEF InRing
    <2>. QED  BY <2>1, <2>2, Succs, Constants
  <1>. QED  BY <1>1, <1>2

LEMMA NextTInv == TInv /\ [Next]_vars => TInv'
  <1>. SUFFICES ASSUME TInv, [Next]_vars PROVE TInv'
    OBVIOUS
  <1>. USE DEF TInv
  <1>1. CASE DmaReceive
    <2>1. EthRxTypeOK'
      <3>1. arrived' \in 0 .. MaxFrames /\ RxPktSemaphore' \in 0 .. 1 /\ pending' \in BOOLEAN
        <4>1. arrived' \in 0 .. MaxFrames
          BY <1>1, Constants DEF DmaReceive, EthRxTypeOK
        <4>2. CASE irq
          BY <1>1, <4>1, <4>2 DEF DmaReceive, Interrupt, EthRxTypeOK
        <4>3. CASE ~irq
          BY <1>1, <4>1, <4>3 DEF DmaReceive, Interrupt, EthRxTypeOK
        <4>. QED  BY <4>2, <4>3
      <3>2. /\ mem' \in [Buffers -> 0 .. MaxFrames] /\ own' \in [Desc -> BOOLEAN]
            /\ dma' \in Desc
        BY <1>1, <3>1, Succs DEF DmaReceive, EthRxTypeOK
      <3>. QED  BY <1>1, <3>1, <3>2 DEF DmaReceive, EthRxTypeOK, linkVars, stackVars
    <2>. QED  BY <1>1, <2>1 DEF DmaReceive, NoLeak, InRing, InHand, NothingInHand, linkVars,
                                stackVars
  <1>2. CASE Acquire
    BY <1>2 DEF Acquire, EthRxTypeOK, NoLeak, InRing, InHand, NothingInHand, ringVars, dmaVars,
                linkVars, stackVars
  <1>3. CASE low_level_input
    <2>1. CASE RxAllocStatus = "ok" /\ started /\ Ready
      <3>. USE <1>3, <2>1 DEF low_level_input, Detach, Ready
      <3>1. EthRxTypeOK'
        <4>1. RxBuildDescCnt' \in 0 .. NumDesc
          BY Constants DEF EthRxTypeOK
        <4>2. RxDescIdx' \in Desc
          BY Succs DEF EthRxTypeOK
        <4>3. p' \in Buffers /\ attached' \in [Desc -> BOOLEAN]
          BY DEF EthRxTypeOK
        <4>. QED  BY <4>1, <4>2, <4>3 DEF EthRxTypeOK, dmaVars, linkVars, stackVars
      <3>2. NoLeak'
        <4>1. /\ RxDescIdx \in Desc /\ attached \in [Desc -> BOOLEAN]
              /\ buffer \in [Desc -> Buffers]
          BY DEF EthRxTypeOK
        <4>2. InRing' = {buffer[d] : d \in {e \in Desc : attached[e] /\ e # RxDescIdx}}
          BY <4>1 DEF InRing
        <4>3. InRing' \union {buffer[RxDescIdx]} = InRing \union {buffer[RxDescIdx]}
          BY <4>1, <4>2 DEF InRing
        <4>4. InHand' = {buffer[RxDescIdx]} /\ InHand = {} /\ buffer[RxDescIdx] \in Buffers
          BY <4>1, Constants DEF InHand, NothingInHand
        <4>. QED  BY <4>3, <4>4 DEF NoLeak, stackVars
      <3>. QED  BY <3>1, <3>2 DEF NothingInHand
    <2>2. CASE ~(RxAllocStatus = "ok" /\ started /\ Ready)
      BY <1>3, <2>2 DEF low_level_input, EthRxTypeOK, NoLeak, InRing, InHand, NothingInHand,
                        dmaVars, linkVars, stackVars
    <2>. QED  BY <2>1, <2>2
  <1>4. CASE Rebuild
    <2>1. CASE BuildOne
      <3>1. epc' \in {"build", "give"} /\ RxAllocStatus' \in {"ok", "error"}
        BY <1>4 DEF Rebuild, EthRxTypeOK
      <3>2. UNCHANGED <<RxDescIdx, dmaVars, linkVars, stackVars, RxPktSemaphore, p, delivered>>
        BY <1>4 DEF Rebuild
      <3>3. EthRxTypeOK'
        BY <2>1, <3>1, <3>2, BuildOneTypes DEF EthRxTypeOK, dmaVars, linkVars, stackVars
      <3>4. NoLeak'
        BY <2>1, <3>2, BuildOneTypes DEF NoLeak, InHand, stackVars
      <3>. QED  BY <3>1, <3>3, <3>4 DEF NothingInHand
    <2>2. CASE ~BuildOne
      BY <1>4, <2>2 DEF Rebuild, EthRxTypeOK, NoLeak, InRing, InHand, NothingInHand, dmaVars,
                        linkVars, stackVars
    <2>. QED  BY <2>1, <2>2
  <1>5. CASE NoPacket
    BY <1>5 DEF NoPacket, EthRxTypeOK, NoLeak, InRing, InHand, NothingInHand, ringVars, dmaVars,
                linkVars, stackVars
  <1>6. CASE Input
    <2>1. p \in Buffers /\ mem[p] \in 0 .. MaxFrames
      BY <1>6 DEF Input, EthRxTypeOK
    <2>2. EthRxTypeOK'
      BY <1>6, <2>1 DEF Input, EthRxTypeOK, ringVars, dmaVars, linkVars
    <2>3. NoLeak'
      BY <1>6, <2>1 DEF Input, NoLeak, InRing, InHand, ringVars
    <2>. QED  BY <1>6, <2>2, <2>3 DEF Input, NothingInHand
  <1>7. CASE InputFails
    BY <1>7 DEF InputFails, FreeRefused, EthRxTypeOK, NoLeak, InRing, InHand, NothingInHand,
                ringVars, dmaVars, linkVars, stackVars
  <1>8. ASSUME NEW t \in Threads, NEW b \in Buffers, FreeToPool(t, b) PROVE TInv'
    BY <1>8 DEF FreeToPool, EthRxTypeOK, NoLeak, InRing, InHand, NothingInHand, ringVars, dmaVars,
                linkVars
  <1>9. ASSUME NEW t \in Threads, TestStatus(t) \/ SetStatus(t) \/ Signal(t) PROVE TInv'
    <2>. USE DEF EthRxTypeOK, NoLeak, InRing, InHand, NothingInHand, ringVars, dmaVars, linkVars
    <2>1. CASE TestStatus(t)
      BY <2>1 DEF TestStatus
    <2>2. CASE SetStatus(t)
      BY <2>2 DEF SetStatus
    <2>3. CASE Signal(t)
      BY <2>3 DEF Signal
    <2>. QED  BY <1>9, <2>1, <2>2, <2>3
  <1>10. ASSUME LinkLost \/ Stop_IT \/ NoteExhaustion \/ StartDma \/ EnableIrq \/ Start_IT
         PROVE  TInv'
    <2>. USE DEF EthRxTypeOK, NoLeak, InRing, InHand, NothingInHand, ringVars, dmaVars, stackVars
    <2>1. CASE LinkLost
      <3>1. drops' \in 0 .. MaxDrops
        BY <2>1, Constants DEF LinkLost
      <3>. QED  BY <2>1, <3>1 DEF LinkLost
    <2>2. CASE Stop_IT
      BY <2>2 DEF Stop_IT
    <2>3. CASE NoteExhaustion
      BY <2>3 DEF NoteExhaustion
    <2>4. CASE StartDma
      BY <2>4 DEF StartDma
    <2>5. CASE EnableIrq
      <3>1. RxPktSemaphore' \in 0 .. 1
        BY <2>5 DEF EnableIrq
      <3>. QED  BY <2>5, <3>1 DEF EnableIrq
    <2>6. CASE Start_IT
      BY <2>6 DEF Start_IT
    <2>. QED  BY <1>10, <2>1, <2>2, <2>3, <2>4, <2>5, <2>6
  <1>11. CASE LinkFound
    BY <1>11, Constants DEF LinkFound, EthRxTypeOK, NoLeak, InRing, InHand, NothingInHand, dmaVars,
                            stackVars
  <1>12. CASE BuildAll
    <2>1. CASE BuildOne
      BY <1>12, <2>1, BuildOneTypes DEF BuildAll, EthRxTypeOK, NoLeak, InHand, NothingInHand,
                                        dmaVars, stackVars
    <2>2. CASE ~BuildOne
      BY <1>12, <2>2 DEF BuildAll, EthRxTypeOK, NoLeak, InRing, InHand, NothingInHand, dmaVars,
                         stackVars
    <2>. QED  BY <2>1, <2>2
  <1>13. CASE UNCHANGED vars
    BY <1>13 DEF vars, EthRxTypeOK, NoLeak, InRing, InHand, NothingInHand, ringVars, dmaVars,
                 linkVars, stackVars
  <1>. QED
    BY <1>1, <1>2, <1>3, <1>4, <1>5, <1>6, <1>7, <1>8, <1>9, <1>10, <1>11, <1>12, <1>13
    DEF Next, EthIf, pbuf_free_custom, LinkThread

(* The variables have their types.                                         *)
THEOREM EthRxTypeCorrect == Spec => []EthRxTypeOK
  <1>1. TInv => EthRxTypeOK
    BY DEF TInv
  <1>. QED  BY InitTInv, NextTInv, <1>1, PTL DEF Spec

(* No receive buffer is ever lost, however the ring is rebuilt and however *)
(* the threads that free, the reader and the link thread interleave.       *)
THEOREM NoLeakCorrect == Spec => []NoLeak
  <1>1. TInv => NoLeak
    BY DEF TInv
  <1>. QED  BY InitTInv, NextTInv, <1>1, PTL DEF Spec

-----------------------------------------------------------------------------
(* One owner, until the link comes back while descriptors wait.            *)

WInv ==
  /\ EthRxTypeOK /\ NoLeak /\ NothingInHand
  /\ EachHasOneOwner /\ ReaderIsAlone /\ IndicesInStep /\ OwnedIsAttached

LEMMA InitWInv == Init => WInv
  <1>. SUFFICES ASSUME Init PROVE WInv
    OBVIOUS
  <1>1. EachHasOneOwner
    BY DEF Init, EachHasOneOwner, InRing, InHand
  <1>2. IndicesInStep
    <2>1. 0 \in Desc
      BY Constants DEF Desc
    <2>. QED  BY <2>1, WindowEnds DEF Init, IndicesInStep, Unbuilt, Window
  <1>. QED  BY <1>1, <1>2, InitTInv DEF TInv, WInv, Init, ReaderIsAlone, OwnedIsAttached

(* The owners and the ring do not change in most of the steps.             *)
LEMMA Unchanged ==
  ASSUME EachHasOneOwner, IndicesInStep, OwnedIsAttached,
         UNCHANGED <<buffer, attached, RxDescIdx, RxBuildDescIdx, RxBuildDescCnt, pool, held, p>>,
         \A d \in Desc : own'[d] => own[d],
         (lpc' = "build") <=> (lpc = "build")
  PROVE  EachHasOneOwner' /\ IndicesInStep' /\ OwnedIsAttached'
  BY DEF EachHasOneOwner, IndicesInStep, OwnedIsAttached, InRing, InHand, Unbuilt

(* BuildOne, for both of its callers.                                      *)
LEMMA BuildOneOwner ==
  ASSUME WInv, BuildOne, UNCHANGED <<held, p, RxDescIdx, lpc>>
  PROVE  EachHasOneOwner' /\ IndicesInStep' /\ OwnedIsAttached'
  <1>. DEFINE b == RxBuildDescIdx
              n == RxBuildDescCnt
  <1>1. /\ b \in Desc /\ n \in 1 .. NumDesc
        /\ buffer \in [Desc -> Buffers] /\ attached \in [Desc -> BOOLEAN]
        /\ own \in [Desc -> BOOLEAN]
    BY DEF WInv, EthRxTypeOK, BuildOne
  <1>2. /\ Unbuilt = Unbuilt' \union {b} /\ b \notin Unbuilt'
        /\ Wrap(b + n) = Wrap(b' + n')
    <2>1. Unbuilt = Window(b, n) /\ Unbuilt' = Window(Succ(b), n - 1)
      BY DEF Unbuilt, Window, BuildOne
    <2>. HIDE DEF n, b
    <2>2. b' = Succ(b) /\ n' = n - 1
      BY DEF n, b, BuildOne
    <2>. QED  BY <1>1, <2>1, <2>2, WindowShrinks
  <1>3. \A d \in Desc : attached'[d] <=> attached[d] \/ d = b
    BY <1>1 DEF BuildOne, Seize
  <1>4. IndicesInStep'
    BY <1>1, <1>2, <1>3 DEF WInv, IndicesInStep
  <1>5. OwnedIsAttached'
    BY <1>1, <1>3 DEF WInv, OwnedIsAttached, BuildOne, Seize
  <1>6. EachHasOneOwner'
    <2>1. CASE attached[b]
      <3>1. attached' = attached /\ buffer' = buffer /\ pool' = pool
        BY <1>1, <2>1 DEF BuildOne, Seize
      <3>. QED  BY <3>1 DEF WInv, EachHasOneOwner, InRing, InHand
    <2>2. CASE ~attached[b]
      <3>1. PICK c \in pool : /\ buffer' = [buffer EXCEPT ![b] = c]
                              /\ pool' = pool \ {c}
        BY <2>2 DEF BuildOne, Seize
      <3>2. \A d \in Desc : d # b => buffer'[d] = buffer[d]
        BY <3>1
      <3>3. buffer'[b] = c
        BY <1>1, <3>1
      <3>4. InRing' = InRing \union {c}
        BY <1>1, <1>3, <2>2, <3>2, <3>3 DEF InRing
      <3>5. c \notin InRing /\ c \notin InHand /\ c \notin held
        BY DEF WInv, EachHasOneOwner
      <3>6. \A d \in Desc : attached[d] => buffer[d] # c
        BY <3>5 DEF InRing
      <3>7. \A d, e \in Desc : attached'[d] /\ attached'[e] /\ buffer'[d] = buffer'[e] => d = e
        BY <1>3, <2>2, <3>2, <3>3, <3>6 DEF WInv, EachHasOneOwner
      <3>. QED  BY <3>1, <3>4, <3>5, <3>7 DEF WInv, EachHasOneOwner, InHand
    <2>. QED  BY <2>1, <2>2
  <1>. QED  BY <1>4, <1>5, <1>6

(* HAL_ETH_ReadData takes a frame: its descriptor is attached, because the *)
(* unbuilt ones are fewer than all of them.                                *)
LEMMA ReadOwner ==
  ASSUME WInv, low_level_input, RxAllocStatus = "ok", started, Ready
  PROVE  EachHasOneOwner' /\ IndicesInStep' /\ OwnedIsAttached'
  <1>. DEFINE r == RxDescIdx
              b == RxBuildDescIdx
              n == RxBuildDescCnt
  <1>1. /\ b \in Desc /\ r \in Desc /\ n \in 0 .. NumDesc - 1
        /\ buffer \in [Desc -> Buffers] /\ attached \in [Desc -> BOOLEAN]
        /\ own \in [Desc -> BOOLEAN]
    BY Constants DEF WInv, EthRxTypeOK, Ready
  <1>2. /\ p = NoBuffer /\ p' = buffer[r] /\ r' = Succ(r) /\ b' = b /\ n' = n + 1
        /\ attached' = [attached EXCEPT ![r] = FALSE]
        /\ UNCHANGED <<own, buffer, pool, held, lpc>>
        /\ ~own[r] /\ lpc = "watch"
    BY DEF WInv, low_level_input, NothingInHand, ReaderIsAlone, Detach, Ready, linkVars, stackVars
  <1>3. Unbuilt' = Unbuilt \union {r} /\ r \notin Unbuilt /\ Wrap(b + (n + 1)) = Succ(r)
    <2>1. Unbuilt = Window(b, n) /\ Unbuilt' = Window(b, n + 1)
      BY <1>2 DEF Unbuilt, Window
    <2>2. r = Wrap(b + n)
      BY DEF WInv, IndicesInStep
    <2>. HIDE DEF n, b, r
    <2>. QED  BY <1>1, <2>1, <2>2, WindowGrows
  <1>4. \A d \in Desc : attached'[d] <=> attached[d] /\ d # r
    BY <1>1, <1>2
  <1>5. attached[r]
    BY <1>1, <1>2, <1>3 DEF WInv, IndicesInStep
  <1>6. IndicesInStep'
    BY <1>1, <1>2, <1>3, <1>4 DEF WInv, IndicesInStep
  <1>7. OwnedIsAttached'
    BY <1>1, <1>2, <1>4 DEF WInv, OwnedIsAttached
  <1>8. EachHasOneOwner'
    <2>1. InRing' \subseteq InRing \ {buffer[r]}
      BY <1>1, <1>2, <1>4, <1>5 DEF WInv, EachHasOneOwner, InRing
    <2>2. InHand' \subseteq {buffer[r]} /\ buffer[r] \in InRing
      BY <1>1, <1>2, <1>5 DEF InRing, InHand
    <2>3. \A d, e \in Desc : attached'[d] /\ attached'[e] /\ buffer'[d] = buffer'[e] => d = e
      BY <1>2, <1>4 DEF WInv, EachHasOneOwner
    <2>. QED  BY <1>2, <2>1, <2>2, <2>3 DEF WInv, EachHasOneOwner
  <1>. QED  BY <1>6, <1>7, <1>8

LEMMA NextWInv == WInv /\ [Next]_vars /\ ~rushed' => WInv'
  <1>. SUFFICES ASSUME WInv, [Next]_vars, ~rushed' PROVE WInv'
    OBVIOUS
  <1>. DEFINE Ring == EachHasOneOwner /\ IndicesInStep /\ OwnedIsAttached
  <1>1. TInv'
    BY NextTInv DEF WInv, TInv
  <1>2. SUFFICES ReaderIsAlone' /\ Ring'
    BY <1>1 DEF WInv, TInv
  <1>3. ReaderIsAlone /\ EachHasOneOwner /\ IndicesInStep /\ OwnedIsAttached /\ NothingInHand
    BY DEF WInv
  <1>4. CASE DmaReceive
    <2>1. \A d \in Desc : own'[d] => own[d]
      BY <1>4 DEF DmaReceive, WInv, EthRxTypeOK
    <2>2. Ring'
      BY <1>3, <1>4, <2>1, Unchanged DEF DmaReceive, linkVars, stackVars
    <2>. QED  BY <1>3, <1>4, <2>2 DEF DmaReceive, ReaderIsAlone, linkVars
  <1>5. CASE Acquire \/ NoPacket
    <2>1. Ring'
      BY <1>3, <1>5, Unchanged DEF Acquire, NoPacket, ringVars, linkVars, stackVars
    <2>. QED  BY <1>3, <1>5, <2>1 DEF Acquire, NoPacket, ReaderIsAlone, linkVars
  <1>6. CASE low_level_input
    <2>1. Ring'
      <3>1. CASE RxAllocStatus = "ok" /\ started /\ Ready
        BY <1>6, <3>1, ReadOwner
      <3>2. CASE ~(RxAllocStatus = "ok" /\ started /\ Ready)
        BY <1>3, <1>6, <3>2, Unchanged DEF low_level_input, linkVars, stackVars
      <3>. QED  BY <3>1, <3>2
    <2>2. ReaderIsAlone'
      BY <1>3, <1>6 DEF low_level_input, ReaderIsAlone, linkVars
    <2>. QED  BY <2>1, <2>2
  <1>7. CASE Rebuild
    <2>1. Ring'
      <3>1. CASE BuildOne
        BY <1>7, <3>1, BuildOneOwner DEF Rebuild, linkVars, stackVars
      <3>2. CASE ~BuildOne
        BY <1>3, <1>7, <3>2, Unchanged DEF Rebuild, linkVars, stackVars
      <3>. QED  BY <3>1, <3>2
    <2>2. ReaderIsAlone'
      BY <1>3, <1>7 DEF Rebuild, ReaderIsAlone, linkVars
    <2>. QED  BY <2>1, <2>2
  <1>8. CASE Input
    <2>1. EachHasOneOwner'
      BY <1>3, <1>8 DEF Input, EachHasOneOwner, InRing, InHand, ringVars
    <2>. QED  BY <1>3, <1>8, <2>1 DEF Input, ReaderIsAlone, IndicesInStep, Unbuilt,
                                      OwnedIsAttached, ringVars, linkVars
  <1>9. CASE InputFails
    <2>1. EachHasOneOwner'
      BY <1>3, <1>9 DEF InputFails, FreeRefused, EachHasOneOwner, InRing, InHand, ringVars, stackVars
    <2>. QED  BY <1>3, <1>9, <2>1 DEF InputFails, ReaderIsAlone, IndicesInStep, Unbuilt,
                                      OwnedIsAttached, ringVars, linkVars
  <1>10. ASSUME NEW t \in Threads, NEW b \in Buffers, FreeToPool(t, b) PROVE ReaderIsAlone' /\ Ring'
    <2>1. EachHasOneOwner'
      BY <1>3, <1>10 DEF FreeToPool, EachHasOneOwner, InRing, InHand, ringVars
    <2>. QED  BY <1>3, <1>10, <2>1 DEF FreeToPool, ReaderIsAlone, IndicesInStep, Unbuilt,
                                       OwnedIsAttached, ringVars, linkVars
  <1>11. ASSUME NEW t \in Threads, TestStatus(t) \/ SetStatus(t) \/ Signal(t)
         PROVE  ReaderIsAlone' /\ Ring'
    <2>1. Ring'
      BY <1>3, <1>11, Unchanged DEF TestStatus, SetStatus, Signal, ringVars, linkVars
    <2>. QED  BY <1>3, <1>11, <2>1 DEF TestStatus, SetStatus, Signal, ReaderIsAlone, linkVars
  <1>12. CASE LinkLost \/ Stop_IT \/ StartDma \/ EnableIrq \/ Start_IT
    <2>1. Ring'
      BY <1>3, <1>12, Unchanged
      DEF LinkLost, Stop_IT, StartDma, EnableIrq, Start_IT, ringVars, stackVars
    <2>. QED  BY <1>3, <1>12, <2>1
              DEF LinkLost, Stop_IT, StartDma, EnableIrq, Start_IT, ReaderIsAlone, EthIfRests
  <1>13. CASE NoteExhaustion
    BY <1>3, <1>13 DEF NoteExhaustion, ReaderIsAlone
  <1>14. CASE LinkFound
    <2>1. RxBuildDescCnt = 0 /\ RxBuildDescIdx \in Desc /\ RxBuildDescCnt' = NumDesc
      BY <1>14 DEF LinkFound, WInv, EthRxTypeOK
    <2>2. Unbuilt = {} /\ RxDescIdx = RxBuildDescIdx
      BY <1>3, <2>1, WindowEnds DEF IndicesInStep, Unbuilt, Window
    <2>3. IndicesInStep'
      BY <1>3, <1>14, <2>1, <2>2, WindowEnds DEF LinkFound, IndicesInStep
    <2>. QED  BY <1>3, <1>14, <2>3 DEF LinkFound, ReaderIsAlone, EachHasOneOwner, InRing, InHand,
                                       OwnedIsAttached, EthIfRests, stackVars
  <1>15. CASE BuildAll
    <2>1. CASE BuildOne
      <3>1. ~(RxBuildDescCnt = 0 \/ NoneLeft)
        BY <2>1 DEF BuildOne, NoneLeft, Seize, WInv, EthRxTypeOK
      <3>2. lpc' = lpc
        BY <1>15, <3>1 DEF BuildAll
      <3>3. Ring'
        BY <1>15, <2>1, <3>2, BuildOneOwner DEF BuildAll, stackVars
      <3>. QED  BY <1>3, <1>15, <3>2, <3>3 DEF BuildAll, ReaderIsAlone
    <2>2. CASE ~BuildOne
      <3>1. RxBuildDescIdx \in Desc
        BY DEF WInv, EthRxTypeOK
      <3>2. attached[RxBuildDescIdx]
        BY <1>3, <1>15, <3>1 DEF BuildAll, IndicesInStep
      <3>3. RxBuildDescCnt = 0 /\ lpc' = "receive"
        BY <1>15, <2>2, <3>2 DEF BuildAll, NoneLeft
      <3>4. Unbuilt = {}
        BY <3>1, <3>3, WindowEnds DEF Unbuilt, Window
      <3>5. Unbuilt' = {}
        BY <1>15, <2>2, <3>4 DEF BuildAll, Unbuilt
      <3>6. IndicesInStep'
        BY <1>3, <1>15, <2>2, <3>5 DEF BuildAll, IndicesInStep
      <3>. QED  BY <1>3, <1>15, <2>2, <3>3, <3>6
                DEF BuildAll, ReaderIsAlone, EachHasOneOwner, InRing, InHand, OwnedIsAttached, stackVars
    <2>. QED  BY <2>1, <2>2
  <1>16. CASE UNCHANGED vars
    BY <1>3, <1>16, Unchanged DEF vars, ReaderIsAlone, ringVars, linkVars, stackVars
  <1>. QED
    BY <1>4, <1>5, <1>6, <1>7, <1>8, <1>9, <1>10, <1>11, <1>12, <1>13, <1>14, <1>15, <1>16
    DEF Next, EthIf, pbuf_free_custom, LinkThread

LEMMA InitIInv == Init => IInv
  BY InitWInv DEF WInv, IInv

(* Once the link has come back in a rush, only the types and the buffers   *)
(* that are not lost are left to show; it is not forgotten.                *)
LEMMA RushStays == EthRxTypeOK /\ [Next]_vars /\ rushed => rushed'
  <1>. SUFFICES ASSUME EthRxTypeOK, [Next]_vars, rushed PROVE rushed'
    OBVIOUS
  <1>. QED
    BY DEF Next, DmaReceive, EthIf, Acquire, low_level_input, Rebuild, NoPacket, Input,
           InputFails, pbuf_free_custom, FreeToPool, TestStatus, SetStatus, Signal,
           LinkThread, LinkLost, Stop_IT, LinkFound, BuildAll, NoteExhaustion, StartDma,
           EnableIrq, Start_IT, linkVars, vars

LEMMA NextIInv == IInv /\ [Next]_vars => IInv'
  <1>. SUFFICES ASSUME IInv, [Next]_vars PROVE IInv'
    OBVIOUS
  <1>1. TInv'
    BY NextTInv DEF IInv, TInv
  <1>2. CASE rushed'
    BY <1>1, <1>2 DEF TInv, IInv
  <1>3. CASE ~rushed'
    <2>1. ~rushed
      BY <1>3, RushStays DEF IInv
    <2>2. WInv
      BY <2>1 DEF WInv, IInv
    <2>. QED  BY <1>3, <2>2, NextWInv DEF WInv, IInv
  <1>. QED  BY <1>2, <1>3

(* A receive buffer has one owner at a time, as long as the link never     *)
(* came back while a descriptor waited for a buffer.                       *)
THEOREM OneOwnerCorrect == Spec => []OneOwner
  <1>1. IInv => OneOwner
    BY DEF IInv, OneOwner
  <1>. QED  BY InitIInv, NextIInv, <1>1, PTL DEF Spec

(* And so long the DMA never writes into a frame that the stack has.       *)
THEOREM HeldIsStableCorrect == Spec => HeldIsStable
  <1>1. IInv /\ [Next]_vars => [~rushed => \A b \in held \union InHand : mem'[b] = mem[b]]_vars
    <2>. SUFFICES ASSUME IInv, Next, ~rushed, NEW b \in held \union InHand
                  PROVE  mem'[b] = mem[b]
      OBVIOUS
    <2>0. WInv
      BY DEF WInv, IInv
    <2>1. CASE DmaReceive /\ own[dma]
      <3>1. dma \in Desc /\ attached[dma]
        BY <2>0, <2>1 DEF WInv, EthRxTypeOK, OwnedIsAttached
      <3>2. buffer[dma] # b
        BY <2>0, <3>1 DEF WInv, EachHasOneOwner, InRing
      <3>3. b \in Buffers
        BY <2>0 DEF WInv, EthRxTypeOK, InHand
      <3>4. mem' = [mem EXCEPT ![buffer[dma]] = arrived'] /\ DOMAIN mem = Buffers
        BY <2>0, <2>1 DEF DmaReceive, WInv, EthRxTypeOK
      <3>. QED  BY <3>2, <3>3, <3>4
    <2>2. CASE ~(DmaReceive /\ own[dma])
      <3>1. mem' = mem
        BY <2>2 DEF Next, DmaReceive, EthIf, Acquire, low_level_input, Rebuild, NoPacket, Input,
                    InputFails, pbuf_free_custom, FreeToPool, TestStatus, SetStatus, Signal,
                    LinkThread, LinkLost, Stop_IT, LinkFound, BuildAll, NoteExhaustion, StartDma,
                    EnableIrq, Start_IT, dmaVars
      <3>. QED  BY <3>1
    <2>. QED  BY <2>1, <2>2
  <1>. QED  BY InitIInv, NextIInv, <1>1, PTL DEF Spec, HeldIsStable

-----------------------------------------------------------------------------
(* Frames in order, while the link stays.                                  *)

(* The descriptors from r on.                                              *)
LEMMA AheadFacts ==
  ASSUME NEW r \in Desc
  PROVE  /\ \A k \in 0 .. NumDesc : Wrap(r + k) \in Desc
         /\ \A k, l \in 0 .. NumDesc - 1 : Wrap(r + k) = Wrap(r + l) => k = l
         /\ \A k \in 0 .. NumDesc - 1 : Wrap(Succ(r) + k) = Wrap(r + (k + 1))
         /\ Wrap(r + 0) = r /\ Wrap(r + NumDesc) = r /\ 0 \in 0 .. NumDesc - 1
  BY Constants DEF Wrap, Succ, Desc

(* Those in front of the unbuilt ones have buffers, and the first unbuilt  *)
(* one comes after them.                                                   *)
LEMMA AheadAttached ==
  ASSUME WInv, lpc # "build"
  PROVE  /\ \A k \in 0 .. NumDesc - RxBuildDescCnt - 1 : attached[Wrap(RxDescIdx + k)]
         /\ Wrap(RxDescIdx + (NumDesc - RxBuildDescCnt)) = RxBuildDescIdx
  <1>. DEFINE b == RxBuildDescIdx
              n == RxBuildDescCnt
  <1>1. b \in Desc /\ n \in 0 .. NumDesc /\ RxDescIdx = Wrap(b + n)
    BY DEF WInv, EthRxTypeOK, IndicesInStep
  <1>2. \A k \in 0 .. NumDesc - n - 1, j \in 0 .. n - 1 : Wrap(Wrap(b + n) + k) # Wrap(b + j)
    <2>. HIDE DEF b, n
    <2>. QED  BY <1>1, Constants DEF Wrap, Desc
  <1>3. \A k \in 0 .. NumDesc - n - 1 : Wrap(Wrap(b + n) + k) \in Desc
    <2>. HIDE DEF b, n
    <2>. QED  BY <1>1, Constants DEF Wrap, Desc
  <1>4. Wrap(Wrap(b + n) + (NumDesc - n)) = b
    <2>. HIDE DEF b, n
    <2>. QED  BY <1>1, Constants DEF Wrap, Desc
  <1>. QED  BY <1>1, <1>2, <1>3, <1>4 DEF WInv, IndicesInStep, Unbuilt

OrderInv == LinkStays /\ ReadInOrder /\ \E q \in 0 .. NumDesc - RxBuildDescCnt : Filled(q)

LEMMA InitOrder == Init => OrderInv
  <1>. SUFFICES ASSUME Init PROVE OrderInv
    OBVIOUS
  <1>1. RxDescIdx = 0 /\ dma = 0 /\ RxBuildDescCnt = 0 /\ 0 \in Desc
    BY Constants DEF Init, Desc
  <1>2. \A k \in 0 .. NumDesc - 1 : own[Wrap(0 + k)]
    BY <1>1, AheadFacts, Constants DEF Init
  <1>3. Filled(0)
    BY <1>1, <1>2, AheadFacts, Constants DEF Filled
  <1>4. ReadInOrder
    BY DEF Init, ReadInOrder
  <1>. QED  BY <1>1, <1>3, <1>4, Constants DEF OrderInv, Init, LinkStays

(* A frame comes in.                                                       *)
LEMMA OrderReceive ==
  ASSUME WInv, OrderInv, DmaReceive
  PROVE  OrderInv'
  <1>. DEFINE r == RxDescIdx
              n == RxBuildDescCnt
  <1>1. /\ r \in Desc /\ dma \in Desc /\ n \in 0 .. NumDesc /\ arrived \in Nat
        /\ own \in [Desc -> BOOLEAN] /\ buffer \in [Desc -> Buffers]
        /\ mem \in [Buffers -> 0 .. MaxFrames] /\ p \in Buffers \union {NoBuffer}
        /\ delivered \in Seq(0 .. MaxFrames) /\ NumDesc \in Nat
    BY Constants DEF WInv, EthRxTypeOK
  <1>2. /\ arrived' = arrived + 1
        /\ UNCHANGED <<buffer, RxDescIdx, RxBuildDescCnt, p, delivered, started, lpc, rushed>>
    BY DEF DmaReceive, linkVars
  <1>3. LinkStays'
    BY <1>2 DEF OrderInv, LinkStays
  <1>4. PICK q \in 0 .. NumDesc - n : Filled(q)
    BY DEF OrderInv
  <1>5. /\ \A i \in 1 .. Len(delivered) : delivered[i] \in Int /\ delivered[i] <= arrived
        /\ \A k \in 0 .. q - 1 : FrameAhead(k) \in Int /\ FrameAhead(k) <= arrived
    <2>1. \A i \in 1 .. Len(delivered) : delivered[i] \in Int
      BY <1>1, Constants
    <2>2. \A k \in 0 .. q - 1 : k \in 0 .. NumDesc /\ Wrap(r + k) \in Desc
      BY <1>1, AheadFacts
    <2>3. \A k \in 0 .. q - 1 : FrameAhead(k) \in Int
      BY <1>1, <2>2, Constants DEF FrameAhead
    <2>. QED  BY <1>4, <2>1, <2>3 DEF Filled, OrderInv, ReadInOrder
  <1>6. CASE own[dma]
    <2>1. /\ mem' = [mem EXCEPT ![buffer[dma]] = arrived + 1]
          /\ own' = [own EXCEPT ![dma] = FALSE] /\ dma' = Succ(dma)
      BY <1>2, <1>6 DEF DmaReceive
    <2>2. dma = Wrap(r + q) /\ q < NumDesc - n /\ q \in 0 .. NumDesc - 1
      <3>1. dma = Wrap(r + q)
        BY <1>4 DEF Filled
      <3>2. CASE q = NumDesc
        <4>1. dma = Wrap(r + 0) /\ ~(q <= 0) /\ 0 \in 0 .. NumDesc - 1
          BY <1>1, <3>1, <3>2, AheadFacts, Constants
        <4>. QED  BY <1>4, <1>6, <4>1 DEF Filled
      <3>3. CASE q # NumDesc
        <4>1. q \in 0 .. NumDesc - 1
          BY <1>1, <3>3
        <4>. QED  BY <1>4, <1>6, <3>1, <4>1 DEF Filled
      <3>. QED  BY <3>2, <3>3
    <2>3. ASSUME NEW k \in 0 .. NumDesc - 1, k # q
          PROVE  Wrap(r + k) # dma /\ Wrap(r + k) \in Desc
      <3>1. k \in 0 .. NumDesc
        BY <1>1
      <3>2. Wrap(r + k) # Wrap(r + q)
        BY <1>1, <2>2, <2>3, AheadFacts
      <3>. QED  BY <1>1, <2>2, <3>1, <3>2, AheadFacts
    <2>4. attached[dma]
      BY <1>1, <1>6 DEF WInv, OwnedIsAttached
    <2>5. \A k \in 0 .. q - 1 : FrameAhead(k)' = FrameAhead(k)
      <3>. SUFFICES ASSUME NEW k \in 0 .. q - 1 PROVE FrameAhead(k)' = FrameAhead(k)
        OBVIOUS
      <3>1. k \in 0 .. NumDesc - n - 1 /\ k \in 0 .. NumDesc - 1 /\ k # q
        BY <1>1, <2>2
      <3>2. attached[Wrap(r + k)] /\ Wrap(r + k) # dma /\ Wrap(r + k) \in Desc
        BY <2>3, <3>1, AheadAttached DEF OrderInv, LinkStays
      <3>3. buffer[Wrap(r + k)] # buffer[dma]
        BY <1>1, <2>4, <3>2 DEF WInv, EachHasOneOwner
      <3>. QED  BY <1>1, <1>2, <2>1, <3>2, <3>3 DEF FrameAhead
    <2>6. FrameAhead(q)' = arrived + 1
      BY <1>1, <1>2, <2>1, <2>2 DEF FrameAhead
    <2>7. p # NoBuffer => mem'[p] = mem[p] /\ mem[p] <= arrived /\ mem[p] \in Int
      <3>. SUFFICES ASSUME p # NoBuffer
                    PROVE  mem'[p] = mem[p] /\ mem[p] <= arrived /\ mem[p] \in Int
        OBVIOUS
      <3>1. p # buffer[dma] /\ p \in Buffers
        BY <1>1, <2>4 DEF WInv, EachHasOneOwner, InRing, InHand
      <3>2. mem[p] \in Int
        BY <1>1, <3>1, Constants
      <3>. QED  BY <1>1, <2>1, <3>1, <3>2 DEF OrderInv, ReadInOrder
    <2>8. ReadInOrder'
      BY <1>1, <1>2, <1>5, <2>7 DEF OrderInv, ReadInOrder
    <2>9. Filled(q + 1)'
      <3>1. dma' = Wrap(r + (q + 1))
        <4>1. Succ(Wrap(r + q)) = Wrap(r + (q + 1))
          <5>. HIDE DEF r, n
          <5>. QED  BY <1>1, <2>2, Constants DEF Wrap, Succ, Desc
        <4>. QED  BY <2>1, <2>2, <4>1
      <3>2. ASSUME NEW k \in 0 .. NumDesc - 1
            PROVE  own'[Wrap(r + k)] <=> q + 1 <= k /\ k < NumDesc - n
        <4>1. CASE k = q
          BY <1>1, <2>1, <2>2, <4>1
        <4>2. CASE k # q
          <5>1. own'[Wrap(r + k)] <=> own[Wrap(r + k)]
            BY <1>1, <2>1, <2>3, <4>2
          <5>2. own[Wrap(r + k)] <=> q <= k /\ k < NumDesc - n
            BY <1>4 DEF Filled
          <5>. QED  BY <1>1, <4>2, <5>1, <5>2
        <4>. QED  BY <4>1, <4>2
      <3>3. 0 .. (q + 1) - 1 = (0 .. q - 1) \union {q}
        OBVIOUS
      <3>4. ASSUME NEW k \in 0 .. (q + 1) - 1
            PROVE  /\ FrameAhead(k)' <= arrived'
                   /\ p' # NoBuffer => mem'[p'] < FrameAhead(k)'
                   /\ \A i \in 1 .. Len(delivered') : delivered'[i] < FrameAhead(k)'
        <4>1. CASE k = q
          BY <1>1, <1>2, <1>5, <2>6, <2>7, <4>1
        <4>2. CASE k \in 0 .. q - 1
          <5>1. /\ p # NoBuffer => mem[p] < FrameAhead(k)
                /\ \A i \in 1 .. Len(delivered) : delivered[i] < FrameAhead(k)
            BY <1>4, <4>2 DEF Filled
          <5>2. FrameAhead(k)' <= arrived + 1
            BY <1>1, <1>5, <2>5, <4>2
          <5>. QED  BY <1>2, <2>5, <2>7, <4>2, <5>1, <5>2
        <4>. QED  BY <3>3, <4>1, <4>2
      <3>5. ASSUME NEW k \in 0 .. (q + 1) - 1, NEW l \in 0 .. (q + 1) - 1, k < l
            PROVE  FrameAhead(k)' < FrameAhead(l)'
        <4>1. k \in 0 .. q - 1
          BY <3>5
        <4>2. CASE l = q
          BY <1>1, <1>5, <2>5, <2>6, <4>1, <4>2
        <4>3. CASE l \in 0 .. q - 1
          BY <1>4, <2>5, <3>5, <4>1, <4>3 DEF Filled
        <4>. QED  BY <3>3, <4>2, <4>3
      <3>. QED  BY <1>2, <3>1, <3>2, <3>4, <3>5 DEF Filled
    <2>10. q + 1 \in 0 .. NumDesc - n
      BY <1>1, <2>2
    <2>. QED  BY <1>2, <1>3, <2>8, <2>9, <2>10 DEF OrderInv
  <1>7. CASE ~own[dma]
    <2>1. UNCHANGED <<mem, own, dma>>
      BY <1>7 DEF DmaReceive
    <2>2. \A k : FrameAhead(k)' = FrameAhead(k)
      BY <1>2, <2>1 DEF FrameAhead
    <2>3. p # NoBuffer => mem[p] \in Int /\ mem[p] <= arrived
      <3>1. p # NoBuffer => mem[p] \in Int
        BY <1>1, Constants
      <3>. QED  BY <3>1 DEF OrderInv, ReadInOrder
    <2>4. ReadInOrder'
      BY <1>1, <1>2, <1>5, <2>1, <2>3 DEF OrderInv, ReadInOrder
    <2>5. \A k \in 0 .. q - 1 : FrameAhead(k) <= arrived'
      BY <1>1, <1>2, <1>5
    <2>6. Filled(q)'
      BY <1>2, <1>4, <2>1, <2>2, <2>5 DEF Filled
    <2>. QED  BY <1>2, <1>3, <2>4, <2>6 DEF OrderInv
  <1>. QED  BY <1>6, <1>7

(* EthIf takes the first one.                                              *)
LEMMA OrderRead ==
  ASSUME WInv, OrderInv, low_level_input, RxAllocStatus = "ok", Ready
  PROVE  OrderInv'
  <1>. DEFINE r == RxDescIdx
              n == RxBuildDescCnt
  <1>1. /\ r \in Desc /\ n \in 0 .. NumDesc - 1
        /\ mem \in [Buffers -> 0 .. MaxFrames] /\ NumDesc \in Nat
    BY Constants DEF WInv, EthRxTypeOK, Ready
  <1>2. /\ started /\ p' = buffer[r] /\ r' = Succ(r) /\ n' = n + 1 /\ ~own[r]
        /\ UNCHANGED <<own, buffer, mem, dma, arrived, delivered, started, lpc, rushed>>
    BY DEF OrderInv, LinkStays, low_level_input, Ready, dmaVars, linkVars
  <1>3. LinkStays'
    BY <1>2 DEF OrderInv, LinkStays
  <1>4. PICK q \in 0 .. NumDesc - n : Filled(q)
    BY DEF OrderInv
  <1>5. 0 < q /\ mem'[p'] = FrameAhead(0) /\ 0 \in 0 .. q - 1
    <2>1. Wrap(r + 0) = r /\ 0 \in 0 .. NumDesc - 1
      BY <1>1, AheadFacts
    <2>2. ~(q <= 0 /\ 0 < NumDesc - n)
      BY <1>2, <1>4, <2>1 DEF Filled
    <2>3. 0 < q
      BY <1>1, <2>2
    <2>. QED  BY <1>2, <2>1, <2>3 DEF FrameAhead
  <1>6. \A k \in 0 .. NumDesc - 1 : Wrap(Succ(r) + k) = Wrap(r + (k + 1))
    BY <1>1, AheadFacts
  <1>7. \A k \in 0 .. NumDesc - 1 : FrameAhead(k)' = FrameAhead(k + 1)
    BY <1>2, <1>6 DEF FrameAhead
  <1>8. ReadInOrder'
    <2>1. FrameAhead(0) <= arrived /\ \A i \in 1 .. Len(delivered) : delivered[i] < FrameAhead(0)
      BY <1>4, <1>5 DEF Filled
    <2>. QED  BY <1>2, <1>5, <2>1 DEF OrderInv, ReadInOrder
  <1>9. PICK h \in 0 .. NumDesc - 1 : h = q - 1
    BY <1>1, <1>5
  <1>10. dma' = Wrap(r' + h)
    <2>1. dma = Wrap(r + q) /\ q = h + 1
      BY <1>4, <1>9 DEF Filled
    <2>. QED  BY <1>2, <1>6, <2>1
  <1>11. ASSUME NEW k \in 0 .. NumDesc - 1
         PROVE  own'[Wrap(r' + k)] <=> h <= k /\ k < NumDesc - (n + 1)
    <2>1. CASE k = NumDesc - 1
      <3>1. k + 1 = NumDesc /\ ~(k < NumDesc - (n + 1))
        BY <1>1, <2>1
      <3>2. Wrap(r + (k + 1)) = r
        BY <1>1, <3>1, AheadFacts
      <3>. QED  BY <1>2, <1>6, <3>1, <3>2
    <2>2. CASE k # NumDesc - 1
      <3>1. k + 1 \in 0 .. NumDesc - 1
        BY <1>1, <2>2
      <3>2. own[Wrap(r + (k + 1))] <=> q <= k + 1 /\ k + 1 < NumDesc - n
        BY <1>4, <3>1 DEF Filled
      <3>3. (q <= k + 1 /\ k + 1 < NumDesc - n) <=> (h <= k /\ k < NumDesc - (n + 1))
        BY <1>1, <1>9
      <3>. QED  BY <1>2, <1>6, <3>2, <3>3
    <2>. QED  BY <2>1, <2>2
  <1>12. \A k \in 0 .. h - 1 : /\ k \in 0 .. NumDesc - 1 /\ k + 1 \in 0 .. q - 1 /\ 0 < k + 1
                               /\ FrameAhead(k)' = FrameAhead(k + 1)
    BY <1>1, <1>7, <1>9
  <1>13. ASSUME NEW k \in 0 .. h - 1
         PROVE  /\ FrameAhead(k)' <= arrived'
                /\ p' # NoBuffer => mem'[p'] < FrameAhead(k)'
                /\ \A i \in 1 .. Len(delivered') : delivered'[i] < FrameAhead(k)'
    <2>1. /\ FrameAhead(k + 1) <= arrived /\ FrameAhead(0) < FrameAhead(k + 1)
          /\ \A i \in 1 .. Len(delivered) : delivered[i] < FrameAhead(k + 1)
      BY <1>4, <1>5, <1>12 DEF Filled
    <2>. QED  BY <1>2, <1>5, <1>12, <2>1
  <1>14. ASSUME NEW k \in 0 .. h - 1, NEW l \in 0 .. h - 1, k < l
         PROVE  FrameAhead(k)' < FrameAhead(l)'
    <2>1. k + 1 < l + 1
      BY <1>14
    <2>. QED  BY <1>4, <1>12, <2>1 DEF Filled
  <1>15. Filled(h)'
    BY <1>2, <1>10, <1>11, <1>13, <1>14 DEF Filled
  <1>16. h \in 0 .. NumDesc - (n + 1)
    BY <1>1, <1>9
  <1>. QED  BY <1>2, <1>3, <1>8, <1>15, <1>16 DEF OrderInv

(* A descriptor is rebuilt, behind all that hold frames.                   *)
LEMMA OrderBuild ==
  ASSUME WInv, OrderInv, Rebuild, BuildOne
  PROVE  OrderInv'
  <1>. DEFINE r == RxDescIdx
              b == RxBuildDescIdx
              n == RxBuildDescCnt
  <1>1. /\ r \in Desc /\ b \in Desc /\ n \in 1 .. NumDesc /\ NumDesc \in Nat
        /\ own \in [Desc -> BOOLEAN] /\ buffer \in [Desc -> Buffers]
    BY Constants DEF WInv, EthRxTypeOK, BuildOne
  <1>2. /\ own' = [own EXCEPT ![b] = TRUE] /\ n' = n - 1
        /\ UNCHANGED <<RxDescIdx, p, delivered, mem, dma, arrived, started, lpc, rushed>>
    BY DEF Rebuild, BuildOne, Seize, dmaVars, linkVars
  <1>3. \A d \in Desc : d # b => buffer'[d] = buffer[d] /\ own'[d] = own[d]
    BY <1>1, <1>2 DEF BuildOne, Seize
  <1>4. PICK q \in 0 .. NumDesc - n : Filled(q)
    BY DEF OrderInv
  <1>5. Wrap(r + (NumDesc - n)) = b /\ NumDesc - n \in 0 .. NumDesc - 1
    BY <1>1, AheadAttached DEF OrderInv, LinkStays
  <1>6. \A k \in 0 .. NumDesc - 1 : k # NumDesc - n => Wrap(r + k) # b /\ Wrap(r + k) \in Desc
    BY <1>1, <1>5, AheadFacts
  <1>7. \A k \in 0 .. q - 1 : FrameAhead(k)' = FrameAhead(k)
    <2>1. \A k \in 0 .. q - 1 : k \in 0 .. NumDesc - 1 /\ k # NumDesc - n
      BY <1>1
    <2>2. \A k \in 0 .. q - 1 : buffer'[Wrap(r + k)] = buffer[Wrap(r + k)]
      BY <1>3, <1>6, <2>1
    <2>. QED  BY <1>2, <2>2 DEF FrameAhead
  <1>8. ASSUME NEW k \in 0 .. NumDesc - 1
        PROVE  own'[Wrap(r + k)] <=> q <= k /\ k < NumDesc - (n - 1)
    <2>1. CASE k = NumDesc - n
      <3>1. own'[b] /\ q <= k /\ k < NumDesc - (n - 1)
        BY <1>1, <1>2, <2>1
      <3>. QED  BY <1>5, <2>1, <3>1
    <2>2. CASE k # NumDesc - n
      <3>1. own'[Wrap(r + k)] <=> own[Wrap(r + k)]
        BY <1>3, <1>6, <2>2
      <3>2. own[Wrap(r + k)] <=> q <= k /\ k < NumDesc - n
        BY <1>4 DEF Filled
      <3>3. (k < NumDesc - n) <=> (k < NumDesc - (n - 1))
        BY <1>1, <2>2
      <3>. QED  BY <3>1, <3>2, <3>3
    <2>. QED  BY <2>1, <2>2
  <1>9. Filled(q)'
    BY <1>2, <1>4, <1>7, <1>8 DEF Filled
  <1>10. q \in 0 .. NumDesc - (n - 1)
    BY <1>1
  <1>11. ReadInOrder' /\ LinkStays'
    BY <1>2 DEF OrderInv, ReadInOrder, LinkStays
  <1>. QED  BY <1>2, <1>9, <1>10, <1>11 DEF OrderInv

(* The stack takes the frame, or refuses it.                               *)
LEMMA OrderGive ==
  ASSUME WInv, OrderInv, Input \/ InputFails
  PROVE  OrderInv'
  <1>1. /\ p \in Buffers /\ p # NoBuffer /\ mem \in [Buffers -> 0 .. MaxFrames]
        /\ delivered \in Seq(0 .. MaxFrames) /\ p' = NoBuffer
        /\ UNCHANGED <<own, buffer, RxDescIdx, RxBuildDescCnt, mem, dma, arrived, started, lpc,
                       rushed>>
    BY DEF WInv, EthRxTypeOK, Input, InputFails, ringVars, dmaVars, linkVars
  <1>2. LinkStays' /\ \A k : FrameAhead(k)' = FrameAhead(k)
    BY <1>1 DEF OrderInv, LinkStays, FrameAhead
  <1>3. PICK q \in 0 .. NumDesc - RxBuildDescCnt : Filled(q)
    BY DEF OrderInv
  <1>4. mem[p] <= arrived /\ \A i \in 1 .. Len(delivered) : delivered[i] < mem[p]
    BY <1>1 DEF OrderInv, ReadInOrder
  <1>5. \A k \in 0 .. q - 1 : mem[p] < FrameAhead(k)
    BY <1>1, <1>3 DEF Filled
  <1>6. \A i \in 1 .. Len(delivered') :
           \/ i \in 1 .. Len(delivered) /\ delivered'[i] = delivered[i]
           \/ delivered'[i] = mem[p] /\ ~(i \in 1 .. Len(delivered)) /\ i = Len(delivered')
    <2>1. CASE Input
      <3>1. delivered' = Append(delivered, mem[p]) /\ mem[p] \in 0 .. MaxFrames
        BY <1>1, <2>1 DEF Input
      <3>. QED  BY <1>1, <3>1
    <2>2. CASE InputFails
      BY <2>2 DEF InputFails
    <2>. QED  BY <2>1, <2>2
  <1>7. ReadInOrder'
    <2>1. \A i \in 1 .. Len(delivered') : delivered'[i] <= arrived'
      BY <1>1, <1>4, <1>6 DEF OrderInv, ReadInOrder
    <2>2. ASSUME NEW i \in 1 .. Len(delivered'), NEW j \in 1 .. Len(delivered'), i < j
          PROVE  delivered'[i] < delivered'[j]
      <3>1. i # Len(delivered')
        BY <2>2
      <3>2. i \in 1 .. Len(delivered) /\ delivered'[i] = delivered[i]
        BY <1>6, <3>1
      <3>. QED  BY <1>4, <1>6, <2>2, <3>2 DEF OrderInv, ReadInOrder
    <2>. QED  BY <1>1, <2>1, <2>2 DEF ReadInOrder
  <1>8. Filled(q)'
    <2>1. \A k \in 0 .. q - 1 : \A i \in 1 .. Len(delivered') : delivered'[i] < FrameAhead(k)
      BY <1>3, <1>5, <1>6 DEF Filled
    <2>. QED  BY <1>1, <1>2, <1>3, <2>1 DEF Filled
  <1>. QED  BY <1>1, <1>2, <1>7, <1>8 DEF OrderInv

(* The rest leaves the frames where they are.                              *)
LEMMA OrderSame ==
  ASSUME OrderInv,
         UNCHANGED <<own, buffer, RxDescIdx, RxBuildDescCnt, mem, dma, arrived, p, delivered,
                     started, lpc, rushed>>
  PROVE  OrderInv'
  BY DEF OrderInv, LinkStays, ReadInOrder, Filled, FrameAhead

LEMMA NextOrder ==
  ASSUME WInv, OrderInv, drops = 0, drops' = 0, [Next]_vars
  PROVE  OrderInv'
  <1>1. CASE DmaReceive
    BY <1>1, OrderReceive
  <1>2. CASE Acquire \/ NoPacket
    BY <1>2, OrderSame DEF Acquire, NoPacket, ringVars, dmaVars, linkVars
  <1>3. CASE low_level_input
    <2>1. CASE RxAllocStatus = "ok" /\ Ready
      BY <1>3, <2>1, OrderRead
    <2>2. CASE ~(RxAllocStatus = "ok" /\ Ready)
      BY <1>3, <2>2, OrderSame DEF low_level_input, dmaVars, linkVars
    <2>. QED  BY <2>1, <2>2
  <1>4. CASE Rebuild
    <2>1. CASE BuildOne
      BY <1>4, <2>1, OrderBuild
    <2>2. CASE ~BuildOne
      BY <1>4, <2>2, OrderSame DEF Rebuild, dmaVars, linkVars
    <2>. QED  BY <2>1, <2>2
  <1>5. CASE Input \/ InputFails
    BY <1>5, OrderGive
  <1>6. ASSUME NEW t \in Threads, pbuf_free_custom(t) PROVE OrderInv'
    BY <1>6, OrderSame
    DEF pbuf_free_custom, FreeToPool, TestStatus, SetStatus, Signal, ringVars, dmaVars, linkVars
  <1>7. ~LinkThread
    BY DEF OrderInv, LinkStays, LinkThread, LinkLost, Stop_IT, LinkFound, BuildAll, NoteExhaustion,
           StartDma, EnableIrq, Start_IT
  <1>8. CASE UNCHANGED vars
    BY <1>8, OrderSame DEF vars, ringVars, dmaVars, linkVars
  <1>. QED  BY <1>1, <1>2, <1>3, <1>4, <1>5, <1>6, <1>7, <1>8 DEF Next, EthIf

(* Losses of the link are counted and not forgotten.                       *)
LEMMA DropsStay == EthRxTypeOK /\ [Next]_vars /\ drops' = 0 => drops = 0
  <1>. SUFFICES ASSUME EthRxTypeOK, [Next]_vars, drops' = 0 PROVE drops = 0
    OBVIOUS
  <1>1. CASE LinkLost
    <2>1. drops \in Nat
      BY Constants DEF EthRxTypeOK
    <2>. QED  BY <1>1, <2>1 DEF LinkLost
  <1>2. CASE ~LinkLost
    BY <1>2
    DEF Next, DmaReceive, EthIf, Acquire, low_level_input, Rebuild, NoPacket, Input,
        InputFails, pbuf_free_custom, FreeToPool, TestStatus, SetStatus, Signal,
        LinkThread, Stop_IT, LinkFound, BuildAll, NoteExhaustion, StartDma,
        EnableIrq, Start_IT, linkVars, vars
  <1>. QED  BY <1>1, <1>2

(* While the link stays the stack gets the frames in the order in which    *)
(* they came, each once, however many are lost or refused between them.    *)
THEOREM DeliveredInOrderCorrect == Spec => []DeliveredInOrder
  <1>1. FramesInOrder <=> (drops = 0 => OrderInv)
    BY DEF FramesInOrder, OrderInv
  <1>2. Init => FramesInOrder
    BY <1>1, InitOrder
  <1>3. IInv /\ FramesInOrder /\ [Next]_vars => FramesInOrder'
    <2>. SUFFICES ASSUME IInv, FramesInOrder, [Next]_vars, drops' = 0
                  PROVE  OrderInv'
      BY DEF FramesInOrder, OrderInv
    <2>1. drops = 0
      BY DropsStay DEF IInv
    <2>2. OrderInv
      BY <1>1, <2>1
    <2>3. WInv
      BY <2>2 DEF OrderInv, LinkStays, IInv, WInv
    <2>. QED  BY <2>1, <2>2, <2>3, NextOrder
  <1>4. FramesInOrder => DeliveredInOrder
    BY DEF FramesInOrder, ReadInOrder, DeliveredInOrder
  <1>. QED  BY InitIInv, NextIInv, <1>2, <1>3, <1>4, PTL DEF Spec

=============================================================================
