----------------------------- MODULE EthTxProofs -----------------------------
(***************************************************************************)
(* Proofs about EthTx, for any number of descriptors, buffers of a frame,  *)
(* frames and losses of the link: its types, and its four invariants, each *)
(* of which holds until a call begins during another.                      *)
(***************************************************************************)
EXTENDS EthTx, SequenceTheorems, WellFoundedInduction, TLAPS

-----------------------------------------------------------------------------
(* The ring.                                                               *)

LEMMA Constants ==
  /\ NumDesc \in Nat /\ NumDesc > 0 /\ MaxBuffers \in 1 .. NumDesc
  /\ MaxFrames \in Nat /\ MaxDrops \in Nat
  BY EthTxAssumption

LEMMA ModIs ==
  ASSUME NEW n \in Nat \ {0}, NEW q \in Nat, NEW r \in 0 .. n - 1
  PROVE  (n * q + r) % n = r
  OBVIOUS

LEMMA ModSmall ==
  ASSUME NEW n \in Nat \ {0}, NEW r \in 0 .. n - 1
  PROVE  r % n = r /\ (r + n) % n = r
  OBVIOUS

LEMMA DivMod ==
  ASSUME NEW n \in Nat \ {0}, NEW x \in Nat
  PROVE  \E q \in Nat : x % n \in 0 .. n - 1 /\ x = n * q + (x % n)
  <1>1. x % n \in 0 .. n - 1
    OBVIOUS
  <1>2. x \div n \in Nat
    OBVIOUS
  <1>3. x = n * (x \div n) + (x % n)
    OBVIOUS
  <1>. QED  BY <1>1, <1>2, <1>3

LEMMA ModAdd ==
  ASSUME NEW n \in Nat \ {0}, NEW x \in Nat, NEW y \in Nat
  PROVE  ((x % n) + y) % n = (x + y) % n
  <1>. DEFINE a == x % n
  <1>1. PICK q \in Nat : a \in 0 .. n - 1 /\ x = n * q + a
    BY DivMod
  <1>. HIDE DEF a
  <1>. DEFINE b == (a + y) % n
  <1>2. PICK r \in Nat : b \in 0 .. n - 1 /\ a + y = n * r + b
    <2>1. a + y \in Nat
      BY <1>1
    <2>. QED  BY <2>1, DivMod
  <1>. HIDE DEF b
  <1>3. x + y = n * (q + r) + b
    BY <1>1, <1>2
  <1>4. (x + y) % n = b
    <2>1. q + r \in Nat
      OBVIOUS
    <2>2. (n * (q + r) + b) % n = b
      BY <1>2, <2>1, ModIs, Zenon
    <2>. QED  BY <1>3, <2>2, Zenon
  <1>5. b = (a + y) % n /\ a = x % n
    BY DEF a, b
  <1>. QED  BY <1>4, <1>5, Zenon

LEMMA IncrIn ==
  ASSUME NEW d \in Desc, NEW n \in Nat
  PROVE  Incr(d, n) \in Desc
  <1>1. d + n \in Nat /\ NumDesc \in Nat \ {0}
    BY Constants DEF Desc
  <1>. QED  BY <1>1, DivMod DEF Incr, Desc

LEMMA IncrAdd ==
  ASSUME NEW d \in Desc, NEW m \in Nat, NEW n \in Nat
  PROVE  Incr(Incr(d, m), n) = Incr(d, m + n)
  <1>1. d + m \in Nat /\ NumDesc \in Nat \ {0} /\ (d + m) + n = d + (m + n)
    BY Constants DEF Desc
  <1>. QED  BY <1>1, ModAdd DEF Incr

LEMMA IncrAround ==
  ASSUME NEW d \in Desc
  PROVE  Incr(d, 0) = d /\ Incr(d, NumDesc) = d
  <1>1. NumDesc \in Nat \ {0} /\ d \in 0 .. NumDesc - 1 /\ d + 0 = d
    BY Constants DEF Desc
  <1>. QED  BY <1>1, ModSmall DEF Incr

(* Within one round.                                                       *)
LEMMA IncrRound ==
  ASSUME NEW d \in Desc, NEW n \in 0 .. NumDesc - 1
  PROVE  Incr(d, n) = IF d + n < NumDesc THEN d + n ELSE d + n - NumDesc
  <1>1. NumDesc \in Nat \ {0}
    BY Constants
  <1>2. CASE d + n < NumDesc
    BY <1>1, <1>2, ModSmall DEF Incr, Desc
  <1>3. CASE ~(d + n < NumDesc)
    <2>1. d + n - NumDesc \in 0 .. NumDesc - 1 /\ d + n = (d + n - NumDesc) + NumDesc
      BY <1>1, <1>3 DEF Desc
    <2>. QED  BY <1>1, <1>3, <2>1, ModSmall DEF Incr
  <1>. QED  BY <1>2, <1>3

LEMMA IncrOnce ==
  ASSUME NEW d \in Desc, NEW m \in 0 .. NumDesc - 1, NEW n \in 0 .. NumDesc - 1,
         Incr(d, m) = Incr(d, n)
  PROVE  m = n
  BY IncrRound, Constants DEF Desc

LEMMA IncrReaches ==
  ASSUME NEW d \in Desc, NEW e \in Desc
  PROVE  \E n \in 0 .. NumDesc - 1 : Incr(d, n) = e
  <1>1. CASE d <= e
    <2>1. e - d \in 0 .. NumDesc - 1 /\ d + (e - d) = e /\ e < NumDesc
      BY <1>1, Constants DEF Desc
    <2>2. Incr(d, e - d) = e
      BY <2>1, IncrRound
    <2>. QED  BY <2>1, <2>2
  <1>2. CASE ~(d <= e)
    <2>. DEFINE n == e - d + NumDesc
    <2>1. n \in 0 .. NumDesc - 1 /\ d + n = e + NumDesc /\ e \in Nat /\ NumDesc \in Nat
      BY <1>2, Constants DEF Desc
    <2>. HIDE DEF n
    <2>2. Incr(d, n) = d + n - NumDesc
      BY <2>1, IncrRound
    <2>3. Incr(d, n) = e
      BY <2>1, <2>2
    <2>. QED  BY <2>1, <2>3
  <1>. QED  BY <1>1, <1>2

-----------------------------------------------------------------------------
(* HAL_ETH_ReleaseTxPacket.                                                *)

LEMMA LeastExists ==
  ASSUME NEW S, S \subseteq Nat, S # {}
  PROVE  Least(S) \in S /\ \A m \in S : Least(S) <= m
  <1>1. \E n \in S : \A m \in S : n <= m
    <2>. DEFINE R == OpToRel(<, Nat)
    <2>1. IsWellFoundedOn(R, Nat)
      BY NatLessThanWellFounded
    <2>2. \A x, y \in Nat : x < y => <<x, y>> \in R
      BY DEF OpToRel
    <2>. HIDE DEF R
    <2>3. PICK x \in S : \A y \in S : ~(<<y, x>> \in R)
      BY <2>1, WFMin, Zenon
    <2>4. \A y \in S : ~(y < x)
      BY <2>2, <2>3, Zenon
    <2>. QED  BY <2>4
  <1>. QED  BY <1>1 DEF Least

LEMMA GreatestExists ==
  ASSUME NEW b \in Nat, NEW S, S \subseteq 0 .. b, S # {}
  PROVE  \E n \in S : \A m \in S : m <= n
  <1>. DEFINE T == {b - n : n \in S}
  <1>1. T \subseteq Nat /\ T # {}
    <2>1. \A n \in S : b - n \in Nat
      OBVIOUS
    <2>. QED  BY <2>1
  <1>2. PICK x \in T : \A y \in T : x <= y
    <2>. HIDE DEF T
    <2>. QED  BY <1>1, LeastExists
  <1>3. PICK n \in S : x = b - n
    OBVIOUS
  <1>4. \A m \in S : b - n <= b - m
    BY <1>2, <1>3
  <1>. QED  BY <1>4

LEMMA StopFacts ==
  ASSUME BuffersInUse \in Nat
  PROVE  /\ Stop \in 0 .. BuffersInUse
         /\ \A k \in 0 .. Stop - 1 : k < BuffersInUse /\ ~Unsent(k)
  <1>. DEFINE S == {k \in 0 .. BuffersInUse : k < BuffersInUse => Unsent(k)}
  <1>1. S \subseteq Nat /\ BuffersInUse \in S
    OBVIOUS
  <1>2. Stop \in S /\ \A m \in S : Stop <= m
    <2>1. Stop = Least(S)
      BY DEF Stop
    <2>. HIDE DEF S
    <2>. QED  BY <1>1, <2>1, LeastExists
  <1>3. ASSUME NEW k \in 0 .. Stop - 1
        PROVE  k < BuffersInUse /\ ~Unsent(k)
    <2>1. k \in 0 .. BuffersInUse /\ k \notin S
      BY <1>2
    <2>. QED  BY <2>1
  <1>. QED  BY <1>2, <1>3

(* It frees descriptors in use that the DMA has sent, and goes on from     *)
(* where none is noted any more.                                           *)
Frees(freed, end) ==
  /\ freed \subseteq Desc /\ end \in 0 .. BuffersInUse
  /\ \A d \in freed : PacketAddress[d] # NoFrame /\ ~desc[d].own
  /\ refs' = [f \in Frames |->
                IF \E d \in freed : PacketAddress[d] = f THEN refs[f] - 1 ELSE refs[f]]
  /\ PacketAddress' = [d \in Desc |-> IF d \in freed THEN NoFrame ELSE PacketAddress[d]]
  /\ BuffersInUse' = BuffersInUse - end /\ releaseIndex' = Position(end)
  /\ \A k \in 0 .. end - 1 : PacketAddress'[Position(k)] = NoFrame

LEMMA ReleaseFacts ==
  ASSUME EthTxTypeOK, HAL_ETH_ReleaseTxPacket
  PROVE  \E freed, end : Frees(freed, end)
  <1>. DEFINE freed == {Position(k) : k \in Released}
  <1>1. BuffersInUse \in Nat /\ releaseIndex \in Desc
    BY DEF EthTxTypeOK
  <1>2. \A k \in Nat : Position(k) \in Desc
    BY <1>1, IncrIn DEF Position
  <1>3. \A k \in Released : /\ k \in 0 .. BuffersInUse - 1 /\ k < NumDesc
                            /\ PacketAddress[Position(k)] # NoFrame
                            /\ ~desc[Position(k)].own
    BY <1>1, StopFacts DEF Released, Unsent
  <1>4. /\ freed \subseteq Desc
        /\ \A d \in freed : PacketAddress[d] # NoFrame /\ ~desc[d].own
    BY <1>2, <1>3
  <1>5. /\ refs' = [f \in Frames |->
                IF \E d \in freed : PacketAddress[d] = f THEN refs[f] - 1 ELSE refs[f]]
        /\ PacketAddress' = [d \in Desc |-> IF d \in freed THEN NoFrame ELSE PacketAddress[d]]
    BY DEF HAL_ETH_ReleaseTxPacket
  <1>6. CASE Released = {}
    <2>1. freed = {} /\ UNCHANGED <<BuffersInUse, releaseIndex>>
      BY <1>6 DEF HAL_ETH_ReleaseTxPacket
    <2>2. BuffersInUse' = BuffersInUse - 0 /\ releaseIndex' = Position(0)
      BY <1>1, <2>1, IncrAround DEF Position
    <2>. HIDE DEF freed
    <2>3. Frees(freed, 0)
      BY <1>1, <1>4, <1>5, <2>2 DEF Frees
    <2>. QED  BY <2>3
  <1>7. CASE Released # {}
    <2>. DEFINE top == CHOOSE k \in Released : \A j \in Released : j <= k
    <2>1. top \in Released /\ \A j \in Released : j <= top
      <3>1. Released \subseteq 0 .. BuffersInUse
        BY <1>1, <1>3
      <3>. QED  BY <1>1, <1>7, <3>1, GreatestExists
    <2>2. BuffersInUse' = BuffersInUse - (1 + top) /\ releaseIndex' = Position(1 + top)
      <3>1. freed # {}
        BY <1>7
      <3>. QED  BY <3>1 DEF HAL_ETH_ReleaseTxPacket
    <2>. HIDE DEF top
    <2>3. 1 + top \in 0 .. BuffersInUse
      BY <1>1, <1>3, <2>1
    <2>4. ASSUME NEW k \in 0 .. (1 + top) - 1
          PROVE  PacketAddress'[Position(k)] = NoFrame
      <3>1. top \in 0 .. Stop - 1 /\ top < NumDesc
        BY <2>1 DEF Released
      <3>2. k \in 0 .. Stop - 1 /\ k < NumDesc /\ k \in Nat
        BY <1>1, <3>1, StopFacts, Constants
      <3>3. k \in Released \/ PacketAddress[Position(k)] = NoFrame
        BY <3>2 DEF Released
      <3>4. Position(k) \in Desc
        BY <1>2, <3>2
      <3>. QED  BY <1>5, <3>3, <3>4
    <2>. HIDE DEF freed
    <2>5. Frees(freed, 1 + top)
      BY <1>4, <1>5, <2>2, <2>3, <2>4 DEF Frees
    <2>. QED  BY <2>5
  <1>. QED  BY <1>6, <1>7

-----------------------------------------------------------------------------
(* Types.                                                                  *)

InCall ==
  \A s \in Threads : pc[s] # "idle" =>
    /\ p[s] \in Frames /\ TxConfig \in Frames
    /\ pc[s] \in {"take", "publish"} =>
         /\ CurrentPacketAddress \in Frames /\ txbuffer[s] \in Frames
         /\ descnbr[s] \in 1 .. MaxBuffers
         /\ desc[firstdescidx[s]].buffer \in Frames

OwnedHasFrame == \A d \in Desc : desc[d].own => desc[d].buffer \in Frames

TInv == EthTxTypeOK /\ InCall /\ OwnedHasFrame

LEMMA InitTInv == Init => TInv
  <1>. SUFFICES ASSUME Init PROVE TInv
    OBVIOUS
  <1>1. 0 \in Desc /\ 1 \in 1 .. MaxBuffers /\ 0 \in 0 .. MaxFrames /\ 0 \in 0 .. MaxDrops
        /\ 0 \in 0 .. MaxBuffers
    BY Constants DEF Desc
  <1>2. desc \in [Desc -> Descriptor]
    BY <1>1 DEF Init, Descriptor, NoFrame
  <1>3. EthTxTypeOK
    <2>0. {busy, started, netif_up, overlapped} \subseteq BOOLEAN
      <3>1. busy \in BOOLEAN /\ started \in BOOLEAN /\ netif_up \in BOOLEAN /\ overlapped \in BOOLEAN
        BY DEF Init
      <3>. QED  BY <3>1, Zenon
    <2>1. /\ CurTxDesc \in Desc /\ releaseIndex \in Desc /\ dma \in Desc /\ BuffersInUse \in Nat
          /\ {CurrentPacketAddress, TxConfig} \subseteq Frames \union {NoFrame}
          /\ TxPktSemaphore \in 0 .. 1
          /\ lpc \in {"watch", "stopped", "started", "report"} /\ made \in 0 .. MaxFrames
          /\ wire \in Seq(Frames \X (0 .. MaxBuffers)) /\ drops \in 0 .. MaxDrops
      BY <1>1 DEF Init
    <2>2. /\ PacketAddress \in [Desc -> Frames \union {NoFrame}]
          /\ pc \in [Threads -> {"idle", "transmit", "take", "publish", "wait"}]
          /\ p \in [Threads -> Frames \union {NoFrame}]
          /\ txbuffer \in [Threads -> Frames \union {NoFrame}]
          /\ firstdescidx \in [Threads -> Desc] /\ descnbr \in [Threads -> 0 .. MaxBuffers]
      BY <1>1 DEF Init
    <2>3. /\ size \in [Frames -> 1 .. MaxBuffers] /\ refs \in [Frames -> Int]
          /\ result \in [Frames -> {"none", "ok", "error"}]
      BY <1>1 DEF Init
    <2>. QED  BY <1>2, <2>0, <2>1, <2>2, <2>3 DEF EthTxTypeOK
  <1>4. InCall /\ OwnedHasFrame
    BY DEF Init, InCall, OwnedHasFrame
  <1>. QED  BY <1>3, <1>4 DEF TInv

LEMMA CallTypes ==
  ASSUME TInv, NEW s \in Threads, NEW n \in 1 .. MaxBuffers, Call(s, n),
         UNCHANGED <<halVars, takeVars, result, dma, TxPktSemaphore, wire>>,
         UNCHANGED <<started, drops, netif_up>>, lpc' \in {"watch", "stopped", "started", "report"}
  PROVE  TInv'
  <1>. USE DEF TInv
  <1>1. made' \in Frames /\ made' \in 0 .. MaxFrames
    BY Constants DEF Call, EthTxTypeOK, Frames
  <1>2. /\ size' \in [Frames -> 1 .. MaxBuffers] /\ refs' \in [Frames -> Int]
        /\ p' \in [Threads -> Frames \union {NoFrame}]
        /\ pc' \in [Threads -> {"idle", "transmit", "take", "publish", "wait"}]
        /\ TxConfig' \in Frames
    <2>1. size' \in [Frames -> 1 .. MaxBuffers]
      BY <1>1 DEF Call, EthTxTypeOK
    <2>2. refs' \in [Frames -> Int]
      BY <1>1 DEF Call, EthTxTypeOK
    <2>3. p' \in [Threads -> Frames \union {NoFrame}] /\ TxConfig' \in Frames
      BY <1>1 DEF Call, EthTxTypeOK
    <2>4. pc' \in [Threads -> {"idle", "transmit", "take", "publish", "wait"}]
      BY DEF Call, EthTxTypeOK
    <2>. QED  BY <2>1, <2>2, <2>3, <2>4
  <1>3. {busy, started, netif_up, overlapped}' \subseteq BOOLEAN
    <2>1. busy \in BOOLEAN /\ started \in BOOLEAN /\ netif_up \in BOOLEAN /\ overlapped \in BOOLEAN
      BY Zenon DEF EthTxTypeOK
    <2>2. overlapped' \in BOOLEAN
      BY <2>1, Zenon DEF Call
    <2>. QED  BY <2>1, <2>2, Zenon DEF halVars
  <1>4. EthTxTypeOK'
    BY <1>1, <1>2, <1>3 DEF EthTxTypeOK, halVars, takeVars
  <1>5. InCall'
    BY <1>1, <1>2 DEF InCall, Call, halVars, takeVars, EthTxTypeOK
  <1>6. OwnedHasFrame'
    BY DEF OwnedHasFrame, halVars
  <1>. QED  BY <1>4, <1>5, <1>6

LEMMA TakenIn ==
  ASSUME TInv, NEW s \in Threads, NEW j \in Nat
  PROVE  Taken(s, j) \in Desc
  BY IncrIn DEF TInv, EthTxTypeOK, Taken

LEMMA PreparedIn ==
  ASSUME NEW f \in Frames, NEW k \in 1 .. MaxBuffers
  PROVE  /\ Prepared(f, k) \in Descriptor
         /\ Prepared(f, k).buffer = f /\ Prepared(f, k).part = k
         /\ Prepared(f, k).own = (k > 1)
  <1>1. k \in 0 .. MaxBuffers
    BY Constants
  <1>2. PICK b \in BOOLEAN : b = (k > 1)
    <2>1. (k > 1) \in BOOLEAN
      OBVIOUS
    <2>. QED  BY <2>1, Zenon
  <1>3. Prepared(f, k) = [own |-> b, buffer |-> f, part |-> k]
    BY <1>2, Zenon DEF Prepared
  <1>4. [own |-> b, buffer |-> f, part |-> k] \in Descriptor
    BY <1>1, <1>2 DEF Descriptor
  <1>5. /\ [own |-> b, buffer |-> f, part |-> k].buffer = f
        /\ [own |-> b, buffer |-> f, part |-> k].part = k
        /\ [own |-> b, buffer |-> f, part |-> k].own = b
    OBVIOUS
  <1>. QED  BY <1>2, <1>3, <1>4, <1>5, Zenon

(* What a step of low_level_output leaves alone.                           *)
LEMMA FlagTypes ==
  ASSUME TInv, busy' \in {busy, TRUE},
         UNCHANGED <<started, netif_up, overlapped>>
  PROVE  {busy, started, netif_up, overlapped}' \subseteq BOOLEAN
  <1>1. busy \in BOOLEAN /\ started \in BOOLEAN /\ netif_up \in BOOLEAN /\ overlapped \in BOOLEAN
    BY Zenon DEF TInv, EthTxTypeOK
  <1>. QED  BY <1>1, Zenon

LEMMA TakeTypes ==
  ASSUME TInv, NEW s \in Threads, TakeFirst(s) \/ TakeNext(s) \/ Give(s) \/ RollBack(s)
  PROVE  TInv'
  <1>. USE DEF TInv
  <1>1. /\ p[s] \in Frames /\ TxConfig \in Frames /\ CurTxDesc \in Desc
        /\ pc[s] = "take" => /\ txbuffer[s] \in Frames /\ descnbr[s] \in 1 .. MaxBuffers
                             /\ size[txbuffer[s]] \in 1 .. MaxBuffers
                             /\ firstdescidx[s] \in Desc
    BY DEF TakeFirst, TakeNext, Give, RollBack, InCall, EthTxTypeOK
  <1>2. {busy, started, netif_up, overlapped}' \subseteq BOOLEAN
    <2>1. busy' \in {busy, TRUE} /\ UNCHANGED <<started, netif_up, overlapped>>
      BY DEF TakeFirst, TakeNext, Give, RollBack, Busy, linkVars
    <2>. QED  BY <2>1, FlagTypes
  <1>3. pc' \in [Threads -> {"idle", "transmit", "take", "publish", "wait"}]
        /\ \A t \in Threads : t # s => pc'[t] = pc[t]
    BY DEF TakeFirst, TakeNext, Give, RollBack, Busy, EthTxTypeOK
  <1>4. CASE TakeFirst(s)
    <2>1. /\ CurrentPacketAddress' = TxConfig /\ txbuffer' = [txbuffer EXCEPT ![s] = TxConfig]
          /\ firstdescidx' = [firstdescidx EXCEPT ![s] = CurTxDesc]
          /\ descnbr' = [descnbr EXCEPT ![s] = 1]
          /\ desc' = [desc EXCEPT ![CurTxDesc] = Prepared(TxConfig, 1)]
          /\ 1 \in 1 .. MaxBuffers
      BY <1>4, Constants DEF TakeFirst
    <2>2. Prepared(TxConfig, 1) \in Descriptor
      BY <1>1, <2>1, PreparedIn, Zenon
    <2>3. desc' \in [Desc -> Descriptor]
      BY <1>1, <2>1, <2>2 DEF EthTxTypeOK
    <2>4. /\ txbuffer' \in [Threads -> Frames \union {NoFrame}]
          /\ firstdescidx' \in [Threads -> Desc] /\ descnbr' \in [Threads -> 0 .. MaxBuffers]
      BY <1>1, <2>1 DEF EthTxTypeOK
    <2>5. EthTxTypeOK'
      BY <1>1, <1>2, <1>3, <1>4, <2>1, <2>3, <2>4 DEF TakeFirst, EthTxTypeOK, linkVars
    <2>6. InCall'
      <3>1. Prepared(TxConfig, 1).buffer = TxConfig
        BY <1>1, <2>1, PreparedIn, Zenon
      <3>. QED  BY <1>1, <1>3, <1>4, <2>1, <3>1 DEF TakeFirst, InCall, EthTxTypeOK
    <2>7. OwnedHasFrame'
      <3>1. Prepared(TxConfig, 1).buffer = TxConfig
        BY <1>1, <2>1, PreparedIn, Zenon
      <3>. QED  BY <1>1, <2>1, <3>1 DEF OwnedHasFrame, EthTxTypeOK
    <2>. QED  BY <2>5, <2>6, <2>7
  <1>5. CASE TakeNext(s)
    <2>. DEFINE e == Taken(s, descnbr[s])
    <2>1. e \in Desc /\ descnbr[s] + 1 \in 1 .. MaxBuffers /\ txbuffer[s] \in Frames
      <3>1. descnbr[s] \in Nat /\ descnbr[s] + 1 \in 1 .. MaxBuffers /\ txbuffer[s] \in Frames
        <4>1. /\ descnbr[s] \in 1 .. MaxBuffers /\ size[txbuffer[s]] \in 1 .. MaxBuffers
              /\ descnbr[s] < size[txbuffer[s]] /\ txbuffer[s] \in Frames
          BY <1>1, <1>5 DEF TakeNext
        <4>. QED  BY <4>1, Constants
      <3>. QED  BY <3>1, TakenIn
    <2>. HIDE DEF e
    <2>2. /\ descnbr' = [descnbr EXCEPT ![s] = @ + 1]
          /\ desc' = [desc EXCEPT ![e] = Prepared(txbuffer[s], descnbr[s] + 1)]
      BY <1>5 DEF TakeNext, e
    <2>3. /\ Prepared(txbuffer[s], descnbr[s] + 1) \in Descriptor
          /\ Prepared(txbuffer[s], descnbr[s] + 1).buffer = txbuffer[s]
      BY <2>1, PreparedIn, Zenon
    <2>4. desc' \in [Desc -> Descriptor] /\ descnbr' \in [Threads -> 0 .. MaxBuffers]
      BY <1>1, <2>1, <2>2, <2>3 DEF EthTxTypeOK
    <2>5. EthTxTypeOK'
      BY <1>1, <1>2, <1>3, <1>5, <2>4 DEF TakeNext, EthTxTypeOK, linkVars
    <2>6. InCall'
      BY <1>1, <1>3, <1>5, <2>1, <2>2, <2>3 DEF TakeNext, InCall, EthTxTypeOK
    <2>7. OwnedHasFrame'
      BY <2>1, <2>2, <2>3 DEF OwnedHasFrame, EthTxTypeOK
    <2>. QED  BY <2>5, <2>6, <2>7
  <1>6. CASE Give(s)
    <2>1. firstdescidx[s] \in Desc /\ desc' = [desc EXCEPT ![firstdescidx[s]].own = TRUE]
          /\ desc[firstdescidx[s]] \in Descriptor
      BY <1>1, <1>6 DEF Give, EthTxTypeOK
    <2>2. desc' \in [Desc -> Descriptor]
      BY <2>1 DEF EthTxTypeOK, Descriptor
    <2>3. EthTxTypeOK'
      BY <1>1, <1>2, <1>3, <1>6, <2>2 DEF Give, EthTxTypeOK, linkVars, takeVars
    <2>4. InCall'
      BY <1>1, <1>3, <1>6 DEF Give, InCall, EthTxTypeOK, takeVars
    <2>5. OwnedHasFrame'
      BY <1>6, <2>1 DEF OwnedHasFrame, EthTxTypeOK, Give, InCall
    <2>. QED  BY <2>3, <2>4, <2>5
  <1>7. CASE RollBack(s)
    <2>1. \A d \in Desc : desc[d] \in Descriptor
      BY DEF EthTxTypeOK
    <2>2. desc' = [d \in Desc |-> IF d \in GivenBack(s) THEN [desc[d] EXCEPT !.own = FALSE]
                                                       ELSE desc[d]]
      BY <1>7 DEF RollBack
    <2>3. desc' \in [Desc -> Descriptor]
      BY <2>1, <2>2 DEF Descriptor
    <2>4. EthTxTypeOK'
      BY <1>1, <1>2, <1>3, <1>7, <2>3 DEF RollBack, EthTxTypeOK, linkVars, takeVars
    <2>5. InCall'
      BY <1>1, <1>3, <1>7 DEF RollBack, Busy, InCall, EthTxTypeOK, takeVars
    <2>6. OwnedHasFrame'
      BY <2>1, <2>2 DEF OwnedHasFrame, Descriptor
    <2>. QED  BY <2>4, <2>5, <2>6
  <1>. QED  BY <1>4, <1>5, <1>6, <1>7

LEMMA PublishTypes ==
  ASSUME TInv, NEW s \in Threads, Publish(s)
  PROVE  TInv'
  <1>. USE DEF TInv
  <1>1. /\ p[s] \in Frames /\ CurrentPacketAddress \in Frames
        /\ descnbr[s] \in Nat /\ descnbr[s] - 1 \in Nat
    BY Constants DEF Publish, InCall
  <1>2. descidx(s) \in Desc /\ CurTxDesc' \in Desc
    BY <1>1, TakenIn, IncrIn DEF Publish, descidx
  <1>3. /\ PacketAddress' \in [Desc -> Frames \union {NoFrame}]
        /\ result' \in [Frames -> {"none", "ok", "error"}]
        /\ pc' \in [Threads -> {"idle", "transmit", "take", "publish", "wait"}]
        /\ BuffersInUse' \in Nat
    BY <1>1, <1>2 DEF Publish, Return, EthTxTypeOK
  <1>4. {busy, started, netif_up, overlapped}' \subseteq BOOLEAN
    <2>1. busy' \in {busy, TRUE} /\ UNCHANGED <<started, netif_up, overlapped>>
      BY DEF Publish, linkVars
    <2>. QED  BY <2>1, FlagTypes
  <1>5. EthTxTypeOK'
    BY <1>2, <1>3, <1>4 DEF Publish, EthTxTypeOK, linkVars, takeVars
  <1>6. InCall'
    BY DEF Publish, Return, InCall, EthTxTypeOK, takeVars
  <1>7. OwnedHasFrame'
    BY DEF Publish, OwnedHasFrame
  <1>. QED  BY <1>5, <1>6, <1>7

LEMMA OtherTypes ==
  ASSUME TInv, NEW s \in Threads, Full(s) \/ Stopped(s) \/ Retry(s)
  PROVE  TInv'
  <1>. USE DEF TInv
  <1>0. OwnedHasFrame'
    BY DEF Full, Stopped, Retry, OwnedHasFrame, halVars
  <1>a. {busy, started, netif_up, overlapped}' \subseteq BOOLEAN
    <2>1. busy' \in {busy, TRUE} /\ UNCHANGED <<started, netif_up, overlapped>>
      BY DEF Full, Busy, Stopped, Retry, linkVars, halVars
    <2>. QED  BY <2>1, FlagTypes
  <1>1. CASE Full(s)
    <2>1. TxConfig \in Frames
      BY <1>1 DEF Full, InCall
    <2>2. pc' \in [Threads -> {"idle", "transmit", "take", "publish", "wait"}]
      BY <1>1 DEF Full, Busy, EthTxTypeOK
    <2>3. EthTxTypeOK'
      BY <1>1, <1>a, <2>1, <2>2 DEF Full, EthTxTypeOK, linkVars, takeVars
    <2>4. InCall'
      BY <1>1, <2>1 DEF Full, Busy, InCall, EthTxTypeOK, takeVars
    <2>. QED  BY <1>0, <2>3, <2>4
  <1>2. CASE Stopped(s)
    <2>1. p[s] \in Frames
      BY <1>2 DEF Stopped, InCall
    <2>2. /\ refs' \in [Frames -> Int] /\ result' \in [Frames -> {"none", "ok", "error"}]
          /\ pc' \in [Threads -> {"idle", "transmit", "take", "publish", "wait"}]
      <3>1. CASE busy
        BY <1>2, <3>1 DEF Stopped, EthTxTypeOK
      <3>2. CASE ~busy
        <4>1. /\ refs' = [refs EXCEPT ![p[s]] = @ - 1]
              /\ pc' = [pc EXCEPT ![s] = "idle"] /\ result' = [result EXCEPT ![p[s]] = "error"]
          BY <1>2, <3>2 DEF Stopped, OtherError, Return
        <4>2. refs[p[s]] - 1 \in Int
          BY <2>1 DEF EthTxTypeOK
        <4>. QED  BY <2>1, <4>1, <4>2 DEF EthTxTypeOK
      <3>. QED  BY <3>1, <3>2
    <2>3. EthTxTypeOK'
      BY <1>2, <1>a, <2>2 DEF Stopped, EthTxTypeOK, linkVars, halVars, takeVars
    <2>4. \A t \in Threads : pc'[t] = pc[t] \/ pc'[t] = "idle" \/ (t = s /\ pc'[t] = "wait")
      BY <1>2 DEF Stopped, OtherError, Return, EthTxTypeOK
    <2>5. InCall'
      BY <1>2, <2>4 DEF Stopped, InCall, halVars, takeVars
    <2>. QED  BY <1>0, <2>3, <2>5
  <1>3. CASE Retry(s)
    <2>1. PICK freed, end : Frees(freed, end)
      BY <1>3, ReleaseFacts DEF Retry
    <2>2. /\ refs' \in [Frames -> Int] /\ BuffersInUse' \in Nat /\ releaseIndex' \in Desc
          /\ PacketAddress' \in [Desc -> Frames \union {NoFrame}]
      <3>1. /\ BuffersInUse \in Nat /\ end \in 0 .. BuffersInUse /\ releaseIndex' = Incr(releaseIndex, end)
            /\ BuffersInUse' = BuffersInUse - end /\ releaseIndex \in Desc
        BY <2>1 DEF Frees, Position, EthTxTypeOK
      <3>2. BuffersInUse' \in Nat /\ releaseIndex' \in Desc
        BY <3>1, IncrIn
      <3>3. refs' \in [Frames -> Int]
        BY <2>1 DEF Frees, EthTxTypeOK
      <3>4. PacketAddress' \in [Desc -> Frames \union {NoFrame}]
        BY <2>1 DEF Frees, EthTxTypeOK
      <3>. QED  BY <3>2, <3>3, <3>4
    <2>3. pc' \in [Threads -> {"idle", "transmit", "take", "publish", "wait"}]
          /\ TxPktSemaphore' \in 0 .. 1
      BY <1>3 DEF Retry, EthTxTypeOK
    <2>4. EthTxTypeOK'
      BY <1>3, <1>a, <2>2, <2>3 DEF Retry, EthTxTypeOK, linkVars, takeVars
    <2>5. InCall'
      BY <1>3 DEF Retry, InCall, EthTxTypeOK, takeVars
    <2>. QED  BY <1>0, <2>4, <2>5
  <1>. QED  BY <1>1, <1>2, <1>3

LEMMA DmaTypes ==
  ASSUME TInv, DmaSend
  PROVE  TInv'
  <1>. USE DEF TInv
  <1>1. dma' \in Desc
    BY IncrIn DEF DmaSend, EthTxTypeOK
  <1>2. desc[dma] \in Descriptor
    BY DEF EthTxTypeOK
  <1>3. desc' \in [Desc -> Descriptor]
    BY <1>2 DEF DmaSend, EthTxTypeOK, Descriptor
  <1>4. wire' \in Seq(Frames \X (0 .. MaxBuffers)) /\ TxPktSemaphore' \in 0 .. 1
    <2>1. <<desc[dma].buffer, desc[dma].part>> \in Frames \X (0 .. MaxBuffers)
      BY <1>2 DEF DmaSend, OwnedHasFrame, EthTxTypeOK, Descriptor
    <2>2. wire' = Append(wire, <<desc[dma].buffer, desc[dma].part>>)
      BY DEF DmaSend
    <2>3. wire' \in Seq(Frames \X (0 .. MaxBuffers))
      BY <2>1, <2>2, AppendProperties DEF EthTxTypeOK
    <2>4. TxPktSemaphore' \in {TxPktSemaphore, 1}
      BY DEF DmaSend
    <2>5. TxPktSemaphore \in 0 .. 1 /\ 1 \in 0 .. 1
      BY DEF EthTxTypeOK
    <2>. QED  BY <2>3, <2>4, <2>5, Zenon
  <1>5. OwnedHasFrame'
    <2>. SUFFICES ASSUME NEW d \in Desc, desc'[d].own PROVE desc'[d].buffer \in Frames
      BY DEF OwnedHasFrame
    <2>1. desc[d] \in Descriptor /\ desc' = [desc EXCEPT ![dma].own = FALSE]
      BY DEF DmaSend, EthTxTypeOK
    <2>2. d # dma /\ desc'[d] = desc[d]
      BY <1>2, <2>1 DEF EthTxTypeOK, Descriptor
    <2>. QED  BY <2>2 DEF OwnedHasFrame
  <1>6. {busy, started, netif_up, overlapped}' \subseteq BOOLEAN
    <2>1. busy' \in {busy, TRUE} /\ UNCHANGED <<started, netif_up, overlapped>>
      BY DEF DmaSend, linkVars, callVars
    <2>. QED  BY <2>1, FlagTypes
  <1>7. EthTxTypeOK'
    BY <1>1, <1>3, <1>4, <1>6 DEF DmaSend, EthTxTypeOK, halVars, linkVars, callVars, takeVars
  <1>8. InCall'
    <2>1. \A d \in Desc : desc'[d].buffer = desc[d].buffer
      BY <1>2 DEF DmaSend, EthTxTypeOK, Descriptor
    <2>. QED  BY <2>1 DEF DmaSend, InCall, EthTxTypeOK, halVars, callVars, takeVars
  <1>. QED  BY <1>5, <1>7, <1>8

LEMMA LinkTypes ==
  ASSUME TInv, LinkThread
  PROVE  TInv'
  <1>. USE DEF TInv
  <1>1. CASE LinkLost \/ SetDown \/ LinkFound \/ SetUp
    <2>1. /\ UNCHANGED <<halVars, callVars, dma, TxPktSemaphore, refs, wire>>
          /\ started' \in BOOLEAN /\ netif_up' \in BOOLEAN /\ drops' \in 0 .. MaxDrops
          /\ lpc' \in {"watch", "stopped", "started", "report"}
      <3>1. {started, netif_up} \subseteq BOOLEAN
        BY Zenon DEF EthTxTypeOK
      <3>2. drops \in 0 .. MaxDrops /\ (drops < MaxDrops => drops + 1 \in 0 .. MaxDrops)
        BY Constants DEF EthTxTypeOK
      <3>3. CASE LinkLost
        BY <3>1, <3>2, <3>3, Zenon DEF LinkLost
      <3>4. CASE SetDown
        BY <3>1, <3>2, <3>4, Zenon DEF SetDown
      <3>5. CASE LinkFound
        BY <3>1, <3>2, <3>5, Zenon DEF LinkFound
      <3>6. CASE SetUp
        BY <3>1, <3>2, <3>6, Zenon DEF SetUp
      <3>. QED  BY <1>1, <3>3, <3>4, <3>5, <3>6
    <2>2. EthTxTypeOK'
      <3>1. {busy, started, netif_up, overlapped}' \subseteq BOOLEAN
        <4>1. busy' \in BOOLEAN /\ overlapped' \in BOOLEAN
          BY <2>1, Zenon DEF EthTxTypeOK, halVars, callVars
        <4>. QED  BY <2>1, <4>1, Zenon
      <3>. QED  BY <2>1, <3>1 DEF EthTxTypeOK, halVars, callVars, takeVars
    <2>3. InCall' /\ OwnedHasFrame'
      BY <2>1 DEF InCall, OwnedHasFrame, halVars, callVars, takeVars
    <2>. QED  BY <2>2, <2>3
  <1>2. CASE Report
    <2>1. 1 \in 1 .. MaxBuffers /\ "EthLink" \in Threads
      BY Constants DEF Threads
    <2>. QED  BY <1>2, <2>1, CallTypes DEF Report
  <1>. QED  BY <1>1, <1>2 DEF LinkThread

LEMMA NextTInv == TInv /\ [Next]_vars => TInv'
  <1>1. ASSUME TInv, Next
        PROVE  TInv'
    <2>1. ASSUME NEW n \in 1 .. MaxBuffers, Output(n)
          PROVE  TInv'
      <3>1. "tcpip" \in Threads
        BY DEF Threads
      <3>. QED  BY <1>1, <2>1, <3>1, CallTypes DEF Output, linkVars, TInv, EthTxTypeOK
    <2>2. ASSUME NEW s \in Threads, low_level_output(s)
          PROVE  TInv'
      BY <1>1, <2>2, TakeTypes, PublishTypes, OtherTypes DEF low_level_output
    <2>. QED  BY <1>1, <2>1, <2>2, DmaTypes, LinkTypes DEF Next
  <1>2. ASSUME TInv, UNCHANGED vars
        PROVE  TInv'
    BY <1>2 DEF vars, halVars, linkVars, callVars, takeVars, TInv, EthTxTypeOK, InCall, OwnedHasFrame
  <1>. QED  BY <1>1, <1>2

LEMMA TypesHold == Spec => []TInv
  BY InitTInv, NextTInv, PTL DEF Spec

(* Types, calls that overlap included: the indices stay in the ring and    *)
(* BuffersInUse does not go below zero (HAL_ETH_ReleaseTxPacket).          *)
THEOREM EthTxTypes == Spec => []EthTxTypeOK
  <1>1. TInv => EthTxTypeOK
    BY DEF TInv
  <1>. QED  BY <1>1, TypesHold, PTL

-----------------------------------------------------------------------------
(* The invariant, until calls overlap.                                     *)

Inv == TInv /\ IInv /\ ~overlapped

LEMMA Basics ==
  ASSUME Inv
  PROVE  /\ Caller \in Threads /\ "tcpip" \in Threads /\ "EthLink" \in Threads
         /\ dma \in Desc /\ CurTxDesc \in Desc /\ releaseIndex \in Desc
         /\ made \in Nat /\ BuffersInUse \in Nat
         /\ wire \in Seq(Frames \X (0 .. MaxBuffers)) /\ Len(wire) \in Nat
         /\ Stage # "idle" => made \in Frames /\ made \in 1 .. made
                              /\ size[made] \in 1 .. MaxBuffers
  <1>1. Caller \in Threads /\ "tcpip" \in Threads /\ "EthLink" \in Threads
    BY DEF Threads, Caller
  <1>2. wire \in Seq(Frames \X (0 .. MaxBuffers))
    BY DEF Inv, TInv, EthTxTypeOK
  <1>3. Len(wire) \in Nat
    BY <1>2, LenProperties
  <1>4. made \in 0 .. MaxFrames /\ made \in Nat
    BY Constants DEF Inv, TInv, EthTxTypeOK
  <1>5. Stage # "idle" => made \in Frames /\ made \in 1 .. made
    BY <1>4 DEF Inv, IInv, OneCaller, Frames
  <1>. QED  BY <1>1, <1>2, <1>3, <1>4, <1>5 DEF Inv, TInv, EthTxTypeOK

LEMMA InitInv == Init => Inv
  <1>. SUFFICES ASSUME Init PROVE Inv
    OBVIOUS
  <1>1. TInv /\ EthTxTypeOK /\ ~overlapped
    BY InitTInv DEF TInv, Init
  <1>2. 0 \in Desc /\ Len(wire) = 0
    BY Constants DEF Init, Desc
  <1>3. /\ Stage = "idle" /\ \A s \in Threads : pc[s] = "idle"
        /\ \A d \in Desc : PacketAddress[d] = NoFrame /\ ~desc[d].own
        /\ \A f \in Frames : result[f] = "none" /\ refs[f] = 0 /\ f # NoFrame
    BY DEF Init, Stage, Caller, Threads, Frames, NoFrame
  <1>4. OneCaller
    BY <1>3 DEF OneCaller
  <1>5. NotedInUse
    BY <1>2, <1>3, IncrAround DEF NotedInUse, Position, Init
  <1>6. Queued(0)
    <2>1. \A k \in 0 .. NumDesc - 1 : ~Ahead(k).own
      BY <1>2, <1>3, IncrIn DEF Ahead, Init
    <2>2. Incr(dma, 0) = CurTxDesc
      BY <1>2, IncrAround DEF Init
    <2>3. Whole(Before(0))
      BY <1>2 DEF Whole, Before, Latest
    <2>. QED  BY <1>3, <2>1, <2>2, <2>3 DEF Queued
  <1>7. InQueue
    BY <1>6, Constants DEF InQueue
  <1>8. WireIsGiven /\ SentInOrder
    BY <1>2 DEF WireIsGiven, SentInOrder
  <1>9. Referenced /\ OkIsGoing
    BY <1>3 DEF Referenced, OkIsGoing
  <1>. QED  BY <1>1, <1>4, <1>5, <1>7, <1>8, <1>9 DEF Inv, IInv

(* A thread that goes on in its call, or returns from it.                  *)
LEMMA StageStep ==
  ASSUME Inv, NEW s \in Threads, pc[s] # "idle", NEW v, pc' = [pc EXCEPT ![s] = v]
  PROVE  /\ Caller = s /\ Stage = pc[s] /\ Stage' = v
         /\ v # "idle" => Caller' = s
         /\ \A t \in Threads : pc'[t] # "idle" => t = Caller'
         /\ made \in Frames /\ made \in Nat /\ made \in 1 .. made /\ made # 0
         /\ size[made] \in 1 .. MaxBuffers
         /\ p[s] = made /\ TxConfig = made
  <1>1. Caller = s /\ Stage = pc[s] /\ \A t \in Threads : t # s => pc[t] = "idle"
    BY DEF Inv, IInv, OneCaller, Stage
  <1>2. \A t \in Threads : pc'[t] = IF t = s THEN v ELSE "idle"
    BY <1>1 DEF Inv, TInv, EthTxTypeOK
  <1>3. "tcpip" \in Threads /\ "EthLink" \in Threads /\ s \in {"tcpip", "EthLink"}
    BY DEF Threads
  <1>4. Stage' = v /\ (v # "idle" => Caller' = s)
    BY <1>2, <1>3 DEF Stage, Caller
  <1>5. \A t \in Threads : pc'[t] # "idle" => t = Caller'
    BY <1>2, <1>4
  <1>. QED  BY <1>1, <1>4, <1>5, Basics DEF Inv, IInv, OneCaller

(* Nothing changes but the places of the threads, which do not matter.     *)
LEMMA StayStep ==
  ASSUME Inv, TInv',
         UNCHANGED <<desc, PacketAddress, CurTxDesc, BuffersInUse, releaseIndex, dma, p, takeVars,
                     TxConfig, made, size, result, overlapped, refs, wire>>,
         Stage # "idle" => Caller' = Caller,
         \A t \in Threads : pc'[t] # "idle" => t = Caller',
         Stage' = Stage \/ {Stage, Stage'} = {"transmit", "wait"},
         Stage \in {"take", "publish"} => CurrentPacketAddress' = CurrentPacketAddress
  PROVE  Inv'
  <1>. USE DEF Inv, IInv
  <1>1. Stage' = Stage \/ (Stage \in {"transmit", "wait"} /\ Stage' \in {"transmit", "wait"})
    <2>1. ASSUME {Stage, Stage'} = {"transmit", "wait"}
          PROVE  Stage \in {"transmit", "wait"} /\ Stage' \in {"transmit", "wait"}
      <3>1. Stage \in {Stage, Stage'} /\ Stage' \in {Stage, Stage'}
        OBVIOUS
      <3>. QED  BY <2>1, <3>1
    <2>. QED  BY <2>1
  <1>2. /\ Stage' = "idle" <=> Stage = "idle"
        /\ Stage' = "take" <=> Stage = "take"
        /\ Stage' = "publish" <=> Stage = "publish"
        /\ Stage' \in {"idle", "publish"} <=> Stage \in {"idle", "publish"}
        /\ Stage' \in {"take", "publish"} <=> Stage \in {"take", "publish"}
    BY <1>1
  <1>3. \A f : (Past(f) <=> Past(f)') /\ (Given(f) <=> Given(f)') /\ (Going(f) <=> Going(f)')
    BY <1>2 DEF Past, Given, Going
  <1>4. /\ Stage # "idle" => /\ descidx(Caller)' = descidx(Caller)
                             /\ Caller' = Caller
        /\ UNCHANGED <<txbuffer, firstdescidx, descnbr>>
    BY DEF descidx, Taken, takeVars
  <1>5. \A k : /\ Position(k)' = Position(k) /\ Ahead(k)' = Ahead(k) /\ (Noted(k) <=> Noted(k)')
               /\ Piece(k)' = Piece(k)
    BY <1>2, <1>4 DEF Position, Ahead, Noted, Piece
  <1>6. \A a, b : (Whole(a)' <=> Whole(a)) /\ (Follows(a, b)' <=> Follows(a, b))
    BY DEF Whole, Follows, Nothing
  <1>7. \A k : Before(k)' = Before(k)
    BY <1>5 DEF Before, Latest
  <1>8. OneCaller'
    BY <1>2, <1>3, <1>4 DEF OneCaller
  <1>9. NotedInUse'
    BY <1>3, <1>5 DEF NotedInUse
  <1>10. InQueue'
    <2>1. PICK q \in 0 .. NumDesc : Queued(q)
      BY DEF InQueue
    <2>2. Queued(q)'
      BY <1>2, <1>3, <1>4, <1>5, <1>6, <1>7, <2>1 DEF Queued
    <2>. QED  BY <2>2 DEF InQueue
  <1>11. WireIsGiven' /\ SentInOrder' /\ Referenced' /\ OkIsGoing'
    BY <1>2, <1>3, <1>6 DEF WireIsGiven, SentInOrder, Referenced, OkIsGoing
  <1>. QED  BY <1>8, <1>9, <1>10, <1>11 DEF TInv

LEMMA WaitStep ==
  ASSUME Inv, TInv', NEW s \in Threads, Full(s) \/ (Stopped(s) /\ busy)
  PROVE  Inv'
  <1>1. pc[s] = "transmit" /\ pc' = [pc EXCEPT ![s] = "wait"]
    BY DEF Full, Busy, Stopped
  <1>2. /\ UNCHANGED <<desc, PacketAddress, CurTxDesc, BuffersInUse, releaseIndex, dma, p, takeVars,
                       TxConfig, made, size, result, overlapped, refs, wire>>
    BY DEF Full, Stopped, halVars
  <1>. QED  BY <1>1, <1>2, StageStep, StayStep

LEMMA LinkStep ==
  ASSUME Inv, TInv', LinkLost \/ SetDown \/ LinkFound \/ SetUp \/ UNCHANGED vars
  PROVE  Inv'
  <1>1. UNCHANGED <<halVars, callVars, dma, refs, wire>>
    BY DEF LinkLost, SetDown, LinkFound, SetUp, vars
  <1>2. pc' = pc /\ Stage' = Stage /\ Caller' = Caller
    BY <1>1 DEF callVars, Stage, Caller
  <1>3. \A t \in Threads : pc'[t] # "idle" => t = Caller'
    BY <1>2 DEF Inv, IInv, OneCaller
  <1>. QED  BY <1>1, <1>2, <1>3, StayStep DEF halVars, callVars

(* A call: the latest frame is in hand.                                    *)
LEMMA CallStep ==
  ASSUME Inv, TInv', NEW s \in Threads, NEW n \in 1 .. MaxBuffers, Call(s, n), ~overlapped',
         UNCHANGED <<halVars, takeVars, result, dma, wire>>
  PROVE  Inv'
  <1>. USE DEF Inv, IInv
  <1>1. \A t \in Threads : pc[t] = "idle"
    BY DEF Call
  <1>2. /\ Stage = "idle" /\ Stage' = "transmit" /\ Caller' = s
        /\ \A t \in Threads : pc'[t] # "idle" => t = Caller'
    <2>1. \A t \in Threads : pc'[t] = IF t = s THEN "transmit" ELSE "idle"
      BY <1>1 DEF Call, TInv, EthTxTypeOK
    <2>2. "tcpip" \in Threads /\ "EthLink" \in Threads /\ s \in {"tcpip", "EthLink"}
      BY DEF Threads
    <2>. QED  BY <1>1, <2>1, <2>2 DEF Stage, Caller
  <1>3. /\ made' = made + 1 /\ made \in Nat /\ p'[s] = made' /\ TxConfig' = made'
        /\ UNCHANGED <<desc, PacketAddress, CurTxDesc, BuffersInUse, releaseIndex, dma, result, wire>>
        /\ refs' = [refs EXCEPT ![made'] = 1] /\ size' = [size EXCEPT ![made'] = n]
    BY Basics DEF Call, halVars, TInv, EthTxTypeOK
  <1>4. \A f : /\ Past(f) => Past(f)' /\ f < made'
               /\ Given(f) => Given(f)' /\ f < made' /\ f # NoFrame
    BY <1>2, <1>3 DEF Past, Given, NoFrame
  <1>5. \A f \in Frames : f # made' => size'[f] = size[f]
    BY <1>3 DEF TInv, EthTxTypeOK
  <1>6. \A f : Given(f) => f \in Frames /\ size'[f] = size[f]
    <2>. SUFFICES ASSUME NEW f, Given(f) PROVE f \in Frames /\ size'[f] = size[f]
      OBVIOUS
    <2>1. f \in 1 .. made /\ made \in 0 .. MaxFrames
      BY DEF Given, TInv, EthTxTypeOK
    <2>2. f \in Frames /\ f # made'
      BY <1>3, <2>1, Constants DEF Frames
    <2>. QED  BY <1>5, <2>2
  <1>8. \A k : /\ Position(k)' = Position(k) /\ Ahead(k)' = Ahead(k) /\ Piece(k)' = Piece(k)
               /\ Noted(k) => Noted(k)'
    BY <1>2, <1>3 DEF Position, Ahead, Noted, Piece
  <1>9. \A k : Before(k)' = Before(k)
    BY <1>3, <1>8 DEF Before, Latest
  <1>10. \A f \in Frames : result[f] = "ok" => Going(f)'
    <2>. SUFFICES ASSUME NEW f \in Frames, result[f] = "ok" PROVE Going(f)'
      OBVIOUS
    <2>1. Going(f) /\ Past(f)
      BY DEF OkIsGoing, OneCaller
    <2>2. size'[f] = size[f]
      BY <1>4, <1>5, <2>1, Basics DEF Past
    <2>. QED  BY <1>3, <2>1, <2>2 DEF Going
  <1>11. OneCaller'
    BY <1>2, <1>3, <1>4 DEF OneCaller
  <1>12. NotedInUse'
    BY <1>3, <1>4, <1>8 DEF NotedInUse
  <1>13. InQueue'
    <2>1. PICK q \in 0 .. NumDesc : Queued(q)
      BY DEF InQueue
    <2>2. \A k \in 0 .. q : Before(k) = Nothing \/ Given(Before(k)[1])
      <3>. SUFFICES ASSUME NEW k \in 0 .. q PROVE Before(k) = Nothing \/ Given(Before(k)[1])
        OBVIOUS
      <3>1. CASE k = 0
        BY <3>1, Basics DEF Before, Latest, WireIsGiven
      <3>2. CASE k # 0
        <4>1. k - 1 \in 0 .. q - 1
          BY <3>2
        <4>. QED  BY <2>1, <3>2, <4>1 DEF Before, Piece, Queued
      <3>. QED  BY <3>1, <3>2
    <2>3. \A k \in 0 .. q : (Whole(Before(k))' <=> Whole(Before(k)))
                            /\ (Follows(Before(k), Piece(k))' <=> Follows(Before(k), Piece(k)))
      <3>. SUFFICES ASSUME NEW k \in 0 .. q
                    PROVE  (Whole(Before(k))' <=> Whole(Before(k)))
                           /\ (Follows(Before(k), Piece(k))' <=> Follows(Before(k), Piece(k)))
        OBVIOUS
      <3>1. Before(k)' = Before(k) /\ Piece(k)' = Piece(k)
        BY <1>8, <1>9
      <3>2. Before(k) = Nothing \/ Given(Before(k)[1])
        BY <2>2
      <3>. QED  BY <1>6, <3>1, <3>2 DEF Whole, Follows, Nothing
    <2>4. \A k \in 0 .. q - 1 : k \in 0 .. q
      OBVIOUS
    <2>5. q \in 0 .. q
      BY Constants
    <2>6. \A k \in 0 .. NumDesc - 1 : (Ahead(k).own)' <=> k < q
      BY <1>2, <1>8, <2>1 DEF Queued
    <2>7. \A k \in 0 .. q - 1 :
            /\ Given(Ahead(k).buffer)' /\ Follows(Before(k), Piece(k))'
            /\ \E l \in k .. q - 1 : Ahead(l)'.buffer = Ahead(k)'.buffer /\ Noted(l)'
      <3>. SUFFICES ASSUME NEW k \in 0 .. q - 1
                    PROVE  /\ Given(Ahead(k).buffer)' /\ Follows(Before(k), Piece(k))'
                           /\ \E l \in k .. q - 1 : Ahead(l)'.buffer = Ahead(k)'.buffer /\ Noted(l)'
        OBVIOUS
      <3>1. Given(Ahead(k).buffer)'
        <4>1. Given(Ahead(k).buffer) /\ Ahead(k)' = Ahead(k)
          BY <1>8, <2>1 DEF Queued
        <4>. QED  BY <1>2, <1>3, <4>1 DEF Given
      <3>2. Follows(Before(k), Piece(k))'
        BY <2>1, <2>3, <2>4 DEF Queued
      <3>3. PICK l \in k .. q - 1 : Ahead(l).buffer = Ahead(k).buffer /\ Noted(l)
        BY <2>1 DEF Queued
      <3>. QED  BY <1>8, <3>1, <3>2, <3>3
    <2>8. Whole(Before(q))'
      BY <2>1, <2>3, <2>5 DEF Queued
    <2>9. Queued(q)'
      BY <1>2, <1>3, <2>1, <2>6, <2>7, <2>8 DEF Queued
    <2>. QED  BY <2>9 DEF InQueue
  <1>14. WireIsGiven'
    BY <1>3, <1>4 DEF WireIsGiven
  <1>15. SentInOrder'
    <2>. SUFFICES ASSUME NEW i \in 1 .. Len(wire)
                  PROVE  /\ Follows(IF i = 1 THEN Nothing ELSE wire[i - 1], wire[i])'
                         /\ result[wire[i][1]] # "error"
      BY <1>3 DEF SentInOrder
    <2>1. /\ Follows(IF i = 1 THEN Nothing ELSE wire[i - 1], wire[i])
          /\ result[wire[i][1]] # "error"
      BY DEF SentInOrder
    <2>2. i = 1 \/ Given(wire[i - 1][1])
      <3>1. i # 1 => i - 1 \in 1 .. Len(wire)
        BY Basics
      <3>. QED  BY <3>1 DEF WireIsGiven
    <2>3. CASE i = 1
      BY <1>3, <1>6, <2>1, <2>3 DEF Whole, Follows, Nothing
    <2>4. CASE i # 1
      BY <1>3, <1>6, <2>1, <2>2, <2>4 DEF Whole, Follows, Nothing
    <2>. QED  BY <2>1, <2>3, <2>4
  <1>16. OkIsGoing'
    BY <1>3, <1>10 DEF OkIsGoing
  <1>17. Referenced'
    <2>. SUFFICES ASSUME NEW f \in Frames
                  PROVE  refs'[f] = IF f = made' \/ \E d \in Desc : PacketAddress[d] = f
                                    THEN 1 ELSE 0
      BY <1>2, <1>3 DEF Referenced
    <2>1. CASE f = made'
      BY <1>3, <2>1 DEF TInv, EthTxTypeOK
    <2>2. CASE f # made'
      BY <1>2, <1>3, <2>2 DEF Referenced, TInv, EthTxTypeOK
    <2>. QED  BY <2>1, <2>2
  <1>. QED  BY <1>11, <1>12, <1>13, <1>14, <1>15, <1>16, <1>17 DEF TInv

(* A call that fails: the reference to the frame is given back.            *)
LEMMA ErrorStep ==
  ASSUME Inv, TInv', NEW s \in Threads, Stopped(s), ~busy
  PROVE  Inv'
  <1>. USE DEF Inv, IInv
  <1>1. pc[s] = "transmit" /\ pc' = [pc EXCEPT ![s] = "idle"]
    BY DEF Stopped, OtherError, Return
  <1>2. /\ Stage = "transmit" /\ Stage' = "idle"
        /\ \A t \in Threads : pc'[t] # "idle" => t = Caller'
        /\ made \in Frames /\ made \in Nat /\ made \in 1 .. made /\ p[s] = made
    BY <1>1, StageStep
  <1>3. /\ UNCHANGED <<desc, PacketAddress, CurTxDesc, BuffersInUse, releaseIndex, dma, made, size,
                       wire, overlapped>>
        /\ result' = [result EXCEPT ![made] = "error"] /\ refs' = [refs EXCEPT ![made] = @ - 1]
    BY <1>2 DEF Stopped, OtherError, Return, halVars
  <1>4. \A f : /\ Past(f) => Past(f)' /\ f # made
               /\ Going(f) <=> Going(f)'
    BY <1>2, <1>3 DEF Past, Going
  <1>5. \A f : Given(f) => Given(f)' /\ result[f] # "error" /\ result'[f] = result[f]
    <2>. SUFFICES ASSUME NEW f, Given(f)
                  PROVE  Given(f)' /\ result[f] # "error" /\ result'[f] = result[f]
      OBVIOUS
    <2>1. f \in 1 .. made /\ f # made
      BY <1>2 DEF Given
    <2>2. f \in Frames
      BY <2>1, Constants DEF Frames, TInv, EthTxTypeOK
    <2>3. result'[f] = result[f]
      BY <1>3, <2>1, <2>2 DEF TInv, EthTxTypeOK
    <2>. QED  BY <1>2, <1>3, <2>1, <2>3 DEF Given
  <1>6. \A k : /\ Position(k)' = Position(k) /\ Ahead(k)' = Ahead(k) /\ Piece(k)' = Piece(k)
               /\ Noted(k) => Noted(k)'
    BY <1>2, <1>3 DEF Position, Ahead, Noted, Piece
  <1>7. \A k : Before(k)' = Before(k)
    BY <1>3, <1>6 DEF Before, Latest
  <1>8. \A a, b : (Whole(a)' <=> Whole(a)) /\ (Follows(a, b)' <=> Follows(a, b))
    BY <1>3 DEF Whole, Follows, Nothing
  <1>9. OneCaller'
    <2>1. \A f \in Frames : result'[f] # "none" => f = made \/ Past(f)
      BY <1>3 DEF TInv, EthTxTypeOK, OneCaller
    <2>2. \A f \in Frames : result'[f] # "none" => Past(f)'
      BY <1>2, <1>3, <1>4, <2>1 DEF Past
    <2>3. ~(Stage' \in {"take", "publish"}) /\ ~(Stage' # "idle") /\ Stage' # "publish"
      BY <1>2
    <2>. QED  BY <1>2, <2>2, <2>3, Zenon DEF OneCaller
  <1>10. NotedInUse'
    BY <1>3, <1>4, <1>6 DEF NotedInUse
  <1>11. InQueue'
    <2>1. PICK q \in 0 .. NumDesc : Queued(q)
      BY DEF InQueue
    <2>2. \A k \in 0 .. q - 1 : Given(Ahead(k).buffer)'
      <3>. SUFFICES ASSUME NEW k \in 0 .. q - 1 PROVE Given(Ahead(k).buffer)'
        OBVIOUS
      <3>1. Given(Ahead(k).buffer) /\ Ahead(k)' = Ahead(k)
        BY <1>6, <2>1 DEF Queued
      <3>2. result'[Ahead(k).buffer] # "error"
        BY <1>5, <3>1
      <3>. QED  BY <1>2, <1>3, <3>1, <3>2 DEF Given
    <2>3. Queued(q)'
      BY <1>2, <1>3, <1>6, <1>7, <1>8, <2>1, <2>2 DEF Queued
    <2>. QED  BY <2>3 DEF InQueue
  <1>12. WireIsGiven'
    <2>. SUFFICES ASSUME NEW i \in 1 .. Len(wire) PROVE Given(wire[i][1])'
      BY <1>3 DEF WireIsGiven
    <2>1. Given(wire[i][1])
      BY DEF WireIsGiven
    <2>2. result'[wire[i][1]] # "error"
      BY <1>5, <2>1
    <2>. QED  BY <1>2, <1>3, <2>1, <2>2 DEF Given
  <1>13. SentInOrder'
    <2>1. \A i \in 1 .. Len(wire) : result'[wire[i][1]] # "error"
      BY <1>5 DEF WireIsGiven
    <2>. QED  BY <1>3, <1>8, <2>1 DEF SentInOrder
  <1>14. OkIsGoing'
    <2>1. \A f \in Frames : result'[f] = "ok" => result[f] = "ok"
      BY <1>3 DEF TInv, EthTxTypeOK
    <2>. QED  BY <1>4, <2>1 DEF OkIsGoing
  <1>15. Referenced'
    <2>. SUFFICES ASSUME NEW f \in Frames
                  PROVE  refs'[f] = IF \E d \in Desc : PacketAddress[d] = f THEN 1 ELSE 0
      BY <1>2, <1>3 DEF Referenced
    <2>1. CASE f = made
      <3>1. refs[made] = 1 /\ refs'[made] = 0
        BY <1>2, <1>3 DEF Referenced, TInv, EthTxTypeOK
      <3>2. ~\E d \in Desc : PacketAddress[d] = made
        BY <1>2, <1>4 DEF NotedInUse, Frames, NoFrame
      <3>. QED  BY <2>1, <3>1, <3>2
    <2>2. CASE f # made
      BY <1>2, <1>3, <2>2 DEF Referenced, TInv, EthTxTypeOK
    <2>. QED  BY <2>1, <2>2
  <1>. QED  BY <1>3, <1>9, <1>10, <1>11, <1>12, <1>13, <1>14, <1>15 DEF TInv

(* Every descriptor is one that the DMA will look at.                      *)
LEMMA IsAhead ==
  ASSUME Inv, NEW d \in Desc
  PROVE  \E k \in 0 .. NumDesc - 1 : Incr(dma, k) = d /\ Ahead(k) = desc[d]
  BY IncrReaches, Basics DEF Ahead

(* What is queued belongs to earlier calls, and so does what is noted.     *)
LEMMA BeforeMade ==
  ASSUME Inv, Stage \in {"transmit", "take"}, NEW q \in 0 .. NumDesc, Queued(q), NEW k \in 0 .. q
  PROVE  Before(k) = Nothing \/ (Before(k)[1] \in Nat /\ Before(k)[1] < made)
  <1>1. \A f : Given(f) => f \in Nat /\ f < made
    BY Basics DEF Given
  <1>2. CASE k = 0
    BY <1>1, <1>2, Basics DEF Before, Latest, Inv, IInv, WireIsGiven
  <1>3. CASE k # 0
    <2>1. k - 1 \in 0 .. q - 1
      BY <1>3, Constants
    <2>. QED  BY <1>1, <1>3, <2>1 DEF Before, Piece, Queued
  <1>. QED  BY <1>2, <1>3

(* One more descriptor is taken.  It is behind those that the DMA has.     *)
LEMMA TakeStep ==
  ASSUME Inv, TInv', NEW s \in Threads, NEW n \in Nat, n < size[made],
         Caller = s, Caller' = s, Stage' = "take",
         Stage = IF n = 0 THEN "transmit" ELSE "take", n # 0 => descnbr[s] = n,
         \A t \in Threads : pc'[t] # "idle" => t = Caller',
         Free(Incr(CurTxDesc, n)),
         desc' = [desc EXCEPT ![Incr(CurTxDesc, n)] = Prepared(made, n + 1)],
         descnbr'[s] = n + 1, firstdescidx'[s] = CurTxDesc, txbuffer'[s] = made,
         CurrentPacketAddress' = made,
         UNCHANGED <<PacketAddress, CurTxDesc, BuffersInUse, releaseIndex, dma, p, TxConfig, made,
                     size, result, overlapped, refs, wire>>
  PROVE  Inv'
  <1>. USE DEF Inv, IInv
  <1>1. /\ Stage # "idle" /\ Stage \in {"transmit", "take"} /\ Stage # "publish"
        /\ made \in Frames /\ made \in Nat /\ made \in 1 .. made /\ p[s] = made /\ TxConfig = made
        /\ n + 1 \in 1 .. MaxBuffers /\ n + 1 \in 1 .. NumDesc /\ NumDesc \in Nat
        /\ n + 1 \in 1 .. size[made]
    <2>1. /\ Stage # "idle" /\ Stage \in {"transmit", "take"} /\ Stage # "publish"
      OBVIOUS
    <2>2. /\ made \in Frames /\ made \in Nat /\ made \in 1 .. made /\ size[made] \in 1 .. MaxBuffers
      BY <2>1, Basics
    <2>3. p[s] = made /\ TxConfig = made
      BY <2>1 DEF OneCaller
    <2>. QED  BY <2>1, <2>2, <2>3, Constants
  <1>2. PICK q \in 0 .. NumDesc : Queued(q)
    BY DEF InQueue
  <1>3. Incr(dma, q) = CurTxDesc /\ dma \in Desc /\ CurTxDesc \in Desc
    BY <1>1, <1>2, Basics DEF Queued
  <1>4. \A i \in Nat : Incr(CurTxDesc, i) = Incr(dma, q + i)
    BY <1>3, IncrAdd, Constants
  <1>5. \A k \in 0 .. NumDesc - 1 : Ahead(k).own <=> k < q \/ k \in q + 1 .. q + n - 1
    BY <1>1, <1>2 DEF Queued
  <1>6. q + n \in 0 .. NumDesc - 1 /\ q + n \in Nat
    <2>. SUFFICES ASSUME ~(q + n < NumDesc) PROVE FALSE
      BY Constants
    <2>1. q + n = NumDesc /\ 0 < q
      BY <1>1, <1>2, Constants DEF Queued
    <2>2. Incr(CurTxDesc, n) = dma
      BY <1>3, <1>4, <2>1, IncrAround
    <2>3. Ahead(0) = desc[dma]
      BY <1>3, IncrAround DEF Ahead
    <2>4. 0 \in 0 .. NumDesc - 1
      BY Constants
    <2>. QED  BY <1>5, <2>1, <2>2, <2>3, <2>4 DEF Free
  <1>7. Incr(CurTxDesc, n) = Incr(dma, q + n) /\ Incr(CurTxDesc, n) \in Desc
    BY <1>3, <1>4, IncrIn
  <1>8. ASSUME NEW k \in 0 .. NumDesc - 1
        PROVE  Ahead(k)' = IF k = q + n THEN Prepared(made, n + 1) ELSE Ahead(k)
    <2>1. Incr(dma, k) \in Desc
      BY <1>3, IncrIn, Constants
    <2>2. Incr(dma, k) = Incr(CurTxDesc, n) <=> k = q + n
      BY <1>3, <1>6, <1>7, IncrOnce
    <2>3. Ahead(k)' = desc'[Incr(dma, k)]
      BY DEF Ahead
    <2>. QED  BY <2>1, <2>2, <2>3 DEF Ahead, TInv, EthTxTypeOK
  <1>9. /\ Prepared(made, n + 1).buffer = made /\ Prepared(made, n + 1).part = n + 1
        /\ Prepared(made, n + 1).own = (n + 1 > 1)
    BY <1>1, PreparedIn, Zenon
  <1>10. \A d \in Desc : desc[d].own => desc'[d] = desc[d]
    BY <1>7 DEF Free, TInv, EthTxTypeOK
  <1>11. \A f : /\ Past(f) <=> Past(f)'
                /\ Given(f) <=> Given(f)'
                /\ Going(f) => Going(f)'
    BY <1>1, <1>10 DEF Past, Given, Going
  <1>12. \A a, b : (Whole(a)' <=> Whole(a)) /\ (Follows(a, b)' <=> Follows(a, b))
    BY DEF Whole, Follows, Nothing
  <1>13. descidx(s)' = Incr(CurTxDesc, n)
    <2>1. descnbr'[s] - 1 = n
      OBVIOUS
    <2>. QED  BY <2>1 DEF descidx, Taken
  <1>14. OneCaller'
    <2>1. PacketAddress'[descidx(s)'] = NoFrame
      BY <1>13 DEF Free
    <2>. QED  BY <1>1, <1>11, <2>1 DEF OneCaller
  <1>15. NotedInUse'
    <2>1. \A k : Position(k)' = Position(k)
      BY DEF Position
    <2>. QED  BY <1>11, <2>1 DEF NotedInUse
  <1>16. WireIsGiven' /\ SentInOrder'
    BY <1>11, <1>12 DEF WireIsGiven, SentInOrder
  <1>17. Referenced' /\ OkIsGoing'
    BY <1>1, <1>11 DEF Referenced, OkIsGoing
  <1>18. InQueue'
    <2>1. \A k \in 0 .. NumDesc - 1 : k # q + n => Ahead(k)' = Ahead(k) /\ Piece(k)' = Piece(k)
      BY <1>8 DEF Piece
    <2>2. \A k \in 0 .. q - 1 : k \in 0 .. NumDesc - 1 /\ k # q + n
      BY <1>2, Constants
    <2>3. \A k \in 0 .. q : Before(k)' = Before(k)
      <3>. SUFFICES ASSUME NEW k \in 0 .. q PROVE Before(k)' = Before(k)
        OBVIOUS
      <3>1. CASE k = 0
        BY <3>1 DEF Before, Latest, Nothing
      <3>2. CASE k # 0
        <4>1. k - 1 \in 0 .. q - 1
          BY <3>2
        <4>. QED  BY <2>1, <2>2, <3>2, <4>1 DEF Before
      <3>. QED  BY <3>1, <3>2
    <2>4. ASSUME NEW k \in 0 .. NumDesc - 1
          PROVE  (Ahead(k).own)' <=> k < q \/ k \in q + 1 .. q + (n + 1) - 1
      <3>1. CASE k = q + n
        <4>1. (Ahead(k).own)' = (n + 1 > 1)
          BY <1>8, <1>9, <3>1
        <4>2. (n + 1 > 1) <=> k \in q + 1 .. q + (n + 1) - 1
          BY <1>1, <3>1
        <4>3. ~(k < q)
          BY <1>1, <3>1
        <4>. QED  BY <4>1, <4>2, <4>3
      <3>2. CASE k # q + n
        BY <1>5, <1>6, <2>1, <3>2
      <3>. QED  BY <3>1, <3>2
    <2>5. ASSUME NEW k \in 0 .. q - 1
          PROVE  /\ Given(Ahead(k).buffer)' /\ Follows(Before(k), Piece(k))'
                 /\ \E l \in k .. q - 1 : Ahead(l)'.buffer = Ahead(k)'.buffer /\ Noted(l)'
      <3>1. Ahead(k)' = Ahead(k) /\ Piece(k)' = Piece(k) /\ Before(k)' = Before(k)
        <4>1. k \in 0 .. q
          OBVIOUS
        <4>. QED  BY <2>1, <2>2, <2>3, <4>1
      <3>2. PICK l \in k .. q - 1 : Ahead(l).buffer = Ahead(k).buffer /\ Noted(l)
        BY <1>2 DEF Queued
      <3>3. l \in 0 .. q - 1
        OBVIOUS
      <3>4. Ahead(l)' = Ahead(l)
        BY <2>1, <2>2, <3>3
      <3>5. Noted(l)'
        BY <1>1, <3>2, <3>4 DEF Noted
      <3>6. Given(Ahead(k).buffer)'
        <4>1. Given(Ahead(k).buffer)
          BY <1>2 DEF Queued
        <4>. QED  BY <1>1, <3>1, <4>1 DEF Given
      <3>7. Follows(Before(k), Piece(k))'
        <4>1. Follows(Before(k), Piece(k))
          BY <1>2 DEF Queued
        <4>. QED  BY <3>1, <4>1 DEF Follows, Whole, Nothing
      <3>. QED  BY <3>1, <3>2, <3>4, <3>5, <3>6, <3>7
    <2>6. Whole(Before(q))'
      <3>1. Whole(Before(q)) /\ Before(q)' = Before(q)
        BY <1>2, <2>3, Constants DEF Queued
      <3>. QED  BY <3>1 DEF Whole, Nothing
    <2>7. ASSUME NEW j \in 0 .. n
          PROVE  Piece(q + j)' = <<made, j + 1>>
      <3>1. CASE j = n
        <4>1. Ahead(q + j)' = Prepared(made, n + 1)
          BY <1>6, <1>8, <3>1
        <4>. QED  BY <1>9, <3>1, <4>1 DEF Piece
      <3>2. CASE j # n
        <4>1. q + j \in 0 .. NumDesc - 1 /\ q + j # q + n /\ j \in 0 .. n - 1 /\ n # 0
          BY <1>1, <1>6, <3>2
        <4>2. Piece(q + j) = <<made, j + 1>>
          BY <1>2, <4>1 DEF Queued
        <4>. QED  BY <2>1, <4>1, <4>2
      <3>. QED  BY <3>1, <3>2
    <2>8. q + (n + 1) <= NumDesc /\ (n + 1) - 1 = n
      BY <1>1, <1>6
    <2>9. Queued(q)'
      BY <1>3, <2>4, <2>5, <2>6, <2>7, <2>8 DEF Queued
    <2>. QED  BY <2>9 DEF InQueue
  <1>. QED  BY <1>14, <1>15, <1>16, <1>17, <1>18 DEF TInv

LEMMA TakingStep ==
  ASSUME Inv, TInv', NEW s \in Threads, TakeFirst(s) \/ TakeNext(s)
  PROVE  Inv'
  <1>1. CASE TakeFirst(s)
    <2>1. pc[s] = "transmit" /\ pc' = [pc EXCEPT ![s] = "take"]
      BY <1>1 DEF TakeFirst
    <2>2. /\ Caller = s /\ Caller' = s /\ Stage = "transmit" /\ Stage' = "take"
          /\ \A t \in Threads : pc'[t] # "idle" => t = Caller'
          /\ TxConfig = made /\ size[made] \in 1 .. MaxBuffers
      BY <2>1, StageStep
    <2>3. Incr(CurTxDesc, 0) = CurTxDesc /\ 0 < size[made] /\ 0 + 1 = 1
      BY <2>2, Basics, IncrAround
    <2>4. /\ descnbr'[s] = 1 /\ firstdescidx'[s] = CurTxDesc /\ txbuffer'[s] = made
          /\ CurrentPacketAddress' = made /\ desc' = [desc EXCEPT ![CurTxDesc] = Prepared(made, 1)]
          /\ Free(CurTxDesc)
          /\ UNCHANGED <<PacketAddress, CurTxDesc, BuffersInUse, releaseIndex, dma, p, TxConfig,
                         made, size, result, overlapped, refs, wire>>
      BY <1>1, <2>2 DEF TakeFirst, Inv, TInv, EthTxTypeOK
    <2>. QED  BY <2>2, <2>3, <2>4, TakeStep
  <1>2. CASE TakeNext(s)
    <2>1. pc[s] = "take" /\ pc' = [pc EXCEPT ![s] = "take"]
      BY <1>2 DEF TakeNext, Inv, TInv, EthTxTypeOK
    <2>2. /\ Caller = s /\ Caller' = s /\ Stage = "take" /\ Stage' = "take"
          /\ \A t \in Threads : pc'[t] # "idle" => t = Caller'
          /\ size[made] \in 1 .. MaxBuffers
      BY <2>1, StageStep
    <2>3. /\ txbuffer[s] = made /\ firstdescidx[s] = CurTxDesc /\ descnbr[s] \in Nat
          /\ descnbr[s] # 0 /\ CurrentPacketAddress = made
      BY <2>2, Constants DEF Inv, IInv, OneCaller
    <2>4. /\ descnbr[s] < size[made] /\ descnbr'[s] = descnbr[s] + 1 /\ firstdescidx'[s] = CurTxDesc
          /\ txbuffer'[s] = made /\ CurrentPacketAddress' = made
          /\ desc' = [desc EXCEPT ![Incr(CurTxDesc, descnbr[s])] = Prepared(made, descnbr[s] + 1)]
          /\ Free(Incr(CurTxDesc, descnbr[s]))
          /\ UNCHANGED <<PacketAddress, CurTxDesc, BuffersInUse, releaseIndex, dma, p, TxConfig,
                         made, size, result, overlapped, refs, wire>>
      BY <1>2, <2>3 DEF TakeNext, Taken, Inv, TInv, EthTxTypeOK
    <2>. QED  BY <2>2, <2>3, <2>4, TakeStep
  <1>. QED  BY <1>1, <1>2

(* The DMA gets what the call has taken: the frame goes behind the others. *)
LEMMA GiveStep ==
  ASSUME Inv, TInv', NEW s \in Threads, Give(s)
  PROVE  Inv'
  <1>. USE DEF Inv, IInv
  <1>1. /\ pc[s] = "take" /\ pc' = [pc EXCEPT ![s] = "publish"]
        /\ desc' = [desc EXCEPT ![firstdescidx[s]].own = TRUE]
        /\ UNCHANGED <<PacketAddress, CurTxDesc, BuffersInUse, releaseIndex, CurrentPacketAddress,
                       dma, p, takeVars, TxConfig, made, size, result, overlapped, refs, wire>>
    BY DEF Give
  <1>2. /\ Caller = s /\ Caller' = s /\ Stage = "take" /\ Stage' = "publish"
        /\ \A t \in Threads : pc'[t] # "idle" => t = Caller'
        /\ made \in Frames /\ made \in Nat /\ made \in 1 .. made /\ made # 0
        /\ size[made] \in 1 .. MaxBuffers /\ p[s] = made /\ TxConfig = made
    BY <1>1, StageStep
  <1>3. PICK n \in Nat : n = size[made]
    BY <1>2, Constants
  <1>4. /\ descnbr[s] = n /\ descnbr'[s] = n /\ firstdescidx[s] = CurTxDesc
        /\ CurrentPacketAddress = made /\ txbuffer[s] = made
        /\ n \in 1 .. NumDesc /\ NumDesc \in Nat /\ dma \in Desc /\ CurTxDesc \in Desc
        /\ PacketAddress[descidx(s)] = NoFrame /\ descidx(s)' = descidx(s)
        /\ descidx(s) = Incr(CurTxDesc, n - 1)
    BY <1>1, <1>2, <1>3, Basics, Constants DEF Give, OneCaller, takeVars, descidx, Taken
  <1>5. PICK q \in 0 .. NumDesc : Queued(q)
    BY DEF InQueue
  <1>6. Incr(dma, q) = CurTxDesc /\ q + n <= NumDesc /\ q \in 0 .. NumDesc - 1
        /\ \A j \in 0 .. n - 1 : Piece(q + j) = <<made, j + 1>>
    BY <1>2, <1>4, <1>5 DEF Queued
  <1>7. \A i \in Nat : Incr(CurTxDesc, i) = Incr(dma, q + i)
    BY <1>4, <1>6, IncrAdd
  <1>8. ASSUME NEW k \in 0 .. NumDesc - 1
        PROVE  /\ Piece(k)' = Piece(k) /\ (Ahead(k).buffer)' = Ahead(k).buffer
               /\ (Ahead(k).own)' <=> k < q + n
    <2>1. Incr(dma, k) \in Desc /\ desc[Incr(dma, k)] \in Descriptor
      <3>1. k \in Nat
        OBVIOUS
      <3>. QED  BY <1>4, <3>1, IncrIn DEF TInv, EthTxTypeOK
    <2>2. Incr(dma, k) = CurTxDesc <=> k = q
      BY <1>4, <1>6, IncrOnce
    <2>3. /\ (Ahead(k).buffer)' = Ahead(k).buffer /\ (Ahead(k).part)' = Ahead(k).part
          /\ (Ahead(k).own)' = IF k = q THEN TRUE ELSE Ahead(k).own
      BY <1>1, <1>4, <2>1, <2>2 DEF Ahead, Descriptor, TInv, EthTxTypeOK
    <2>4. Ahead(k).own <=> k < q \/ k \in q + 1 .. q + n - 1
      BY <1>2, <1>4, <1>5 DEF Queued
    <2>. QED  BY <1>4, <2>3, <2>4 DEF Piece
  <1>9. ASSUME NEW d \in Desc, desc[d].own
        PROVE  desc'[d].own /\ desc'[d].buffer = desc[d].buffer /\ desc'[d].part = desc[d].part
    <2>1. desc[d] \in Descriptor
      BY DEF TInv, EthTxTypeOK
    <2>. QED  BY <1>1, <1>4, <1>9, <2>1 DEF Descriptor, TInv, EthTxTypeOK
  <1>10. \A f : /\ Past(f) <=> Past(f)'
                /\ Given(f) => Given(f)' /\ f < made
                /\ Going(f) => Going(f)'
    BY <1>1, <1>2, <1>9 DEF Past, Given, Going
  <1>11. result[made] # "error"
    <2>1. ~Past(made)
      BY <1>2 DEF Past
    <2>. QED  BY <1>2, <2>1 DEF OneCaller
  <1>12. \A a, b : (Whole(a)' <=> Whole(a)) /\ (Follows(a, b)' <=> Follows(a, b))
    BY <1>1 DEF Whole, Follows, Nothing
  <1>13. PICK r \in Nat : r = q + n
    BY <1>4
  <1>14. /\ r \in 1 .. NumDesc /\ r - 1 \in 0 .. NumDesc - 1 /\ r - 1 = q + (n - 1)
         /\ \A k \in 0 .. r - 1 : k \in 0 .. NumDesc - 1 /\ (k \in 0 .. q - 1 \/ k \in q .. r - 1)
         /\ Incr(dma, r - 1) = descidx(s)
    BY <1>4, <1>6, <1>7, <1>13
  <1>15. Piece(r - 1) = <<made, n>> /\ Ahead(r - 1).buffer = made
    <2>1. Piece(q + (n - 1)) = <<made, (n - 1) + 1>>
      BY <1>4, <1>6
    <2>2. Piece(r - 1) = <<made, n>>
      BY <1>4, <1>14, <2>1
    <2>. QED  BY <2>2 DEF Piece
  <1>16. OneCaller'
    <2>1. Going(made)'
      <3>1. Ahead(r - 1)'.own /\ Ahead(r - 1)'.buffer = made /\ Ahead(r - 1)'.part = n
        BY <1>8, <1>13, <1>14, <1>15 DEF Piece
      <3>2. Incr(dma, r - 1) \in Desc /\ Ahead(r - 1)' = desc'[Incr(dma, r - 1)]
        BY <1>1, <1>4, <1>14, IncrIn DEF Ahead
      <3>. QED  BY <1>1, <1>3, <3>1, <3>2 DEF Going
    <2>. QED  BY <1>1, <1>2, <1>3, <1>4, <1>10, <2>1 DEF OneCaller, takeVars
  <1>17. NotedInUse'
    <2>1. \A k : Position(k)' = Position(k)
      BY <1>1 DEF Position
    <2>. QED  BY <1>1, <1>10, <2>1 DEF NotedInUse
  <1>18. WireIsGiven' /\ SentInOrder'
    BY <1>1, <1>10, <1>12 DEF WireIsGiven, SentInOrder
  <1>19. Referenced' /\ OkIsGoing'
    BY <1>1, <1>2, <1>10 DEF Referenced, OkIsGoing
  <1>20. InQueue'
    <2>1. \A k \in 0 .. r : Before(k)' = Before(k)
      <3>. SUFFICES ASSUME NEW k \in 0 .. r PROVE Before(k)' = Before(k)
        OBVIOUS
      <3>1. CASE k = 0
        BY <1>1, <3>1 DEF Before, Latest, Nothing
      <3>2. CASE k # 0
        <4>1. k - 1 \in 0 .. NumDesc - 1
          BY <1>14, <3>2
        <4>. QED  BY <1>8, <3>2, <4>1 DEF Before
      <3>. QED  BY <3>1, <3>2
    <2>2. ASSUME NEW k \in 0 .. q - 1
          PROVE  /\ Given(Ahead(k).buffer)' /\ Follows(Before(k), Piece(k))'
                 /\ \E l \in k .. r - 1 : Ahead(l)'.buffer = Ahead(k)'.buffer /\ Noted(l)'
      <3>1. PICK l \in k .. q - 1 : Ahead(l).buffer = Ahead(k).buffer /\ Noted(l)
        BY <1>5 DEF Queued
      <3>2. k \in 0 .. NumDesc - 1 /\ l \in 0 .. NumDesc - 1 /\ l \in k .. r - 1 /\ k \in 0 .. r
        BY <1>4, <1>13
      <3>3. (Ahead(k).buffer)' = Ahead(k).buffer /\ (Ahead(l).buffer)' = Ahead(l).buffer
            /\ Piece(k)' = Piece(k) /\ Before(k)' = Before(k)
        BY <1>8, <2>1, <3>2
      <3>4. Noted(l)'
        BY <1>1, <1>2, <3>1, <3>3 DEF Noted
      <3>5. Given(Ahead(k).buffer)'
        <4>1. Given(Ahead(k).buffer)
          BY <1>5 DEF Queued
        <4>. QED  BY <1>1, <1>2, <3>3, <4>1 DEF Given
      <3>6. Follows(Before(k), Piece(k))'
        <4>1. Follows(Before(k), Piece(k))
          BY <1>5 DEF Queued
        <4>. QED  BY <1>1, <3>3, <4>1 DEF Follows, Whole, Nothing
      <3>. QED  BY <3>1, <3>2, <3>3, <3>4, <3>5, <3>6
    <2>3. ASSUME NEW k \in q .. r - 1
          PROVE  /\ Given(Ahead(k).buffer)' /\ Follows(Before(k), Piece(k))'
                 /\ \E l \in k .. r - 1 : Ahead(l)'.buffer = Ahead(k)'.buffer /\ Noted(l)'
      <3>1. PICK j \in 0 .. n - 1 : k = q + j
        <4>1. k - q \in 0 .. n - 1 /\ k = q + (k - q)
          BY <1>4, <1>13
        <4>. QED  BY <4>1
      <3>2. Piece(k) = <<made, j + 1>> /\ Ahead(k).buffer = made /\ k \in 0 .. NumDesc - 1
            /\ k \in 0 .. r
        BY <1>6, <1>13, <1>14, <3>1 DEF Piece
      <3>3. (Ahead(k).buffer)' = made /\ Piece(k)' = Piece(k) /\ Before(k)' = Before(k)
        BY <1>8, <2>1, <3>2
      <3>4. Given(Ahead(k).buffer)'
        BY <1>1, <1>2, <1>11, <3>3 DEF Given
      <3>5. Follows(Before(k), Piece(k))
        <4>1. CASE j = 0
          <5>1. Whole(Before(q)) /\ (Before(q) = Nothing \/ Before(q)[1] < made) /\ k = q
            BY <1>2, <1>5, <3>1, <4>1, BeforeMade DEF Queued
          <5>2. Nothing[1] < made
            BY <1>2 DEF Nothing, NoFrame
          <5>. QED  BY <3>2, <4>1, <5>1, <5>2 DEF Follows
        <4>2. CASE j # 0
          <5>1. j - 1 \in 0 .. n - 1 /\ k - 1 = q + (j - 1) /\ k # 0 /\ (j - 1) + 1 = j /\ j < n
            BY <3>1, <4>2
          <5>2. Before(k) = <<made, j>>
            BY <1>6, <5>1 DEF Before
          <5>3. ~Whole(<<made, j>>)
            BY <1>2, <1>3, <5>1 DEF Whole, Nothing, NoFrame
          <5>. QED  BY <3>2, <5>2, <5>3 DEF Follows
        <4>. QED  BY <4>1, <4>2
      <3>6. Follows(Before(k), Piece(k))'
        BY <1>1, <3>3, <3>5 DEF Follows, Whole, Nothing
      <3>7. (Ahead(r - 1).buffer)' = made /\ Noted(r - 1)' /\ r - 1 \in k .. r - 1
        BY <1>1, <1>2, <1>4, <1>8, <1>14, <1>15 DEF Noted
      <3>. QED  BY <3>3, <3>4, <3>6, <3>7
    <2>4. Incr(dma', r) = Incr(descidx(s)', 1)
      <3>1. (r - 1) + 1 = r /\ r - 1 \in Nat
        BY <1>14
      <3>2. Incr(Incr(dma, r - 1), 1) = Incr(dma, r)
        BY <1>4, <3>1, IncrAdd
      <3>. QED  BY <1>1, <1>4, <1>14, <3>2
    <2>5. Whole(Before(r))'
      <3>1. Before(r) = <<made, n>> /\ Before(r)' = Before(r)
        BY <1>14, <1>15, <2>1 DEF Before
      <3>. QED  BY <1>1, <1>3, <3>1 DEF Whole
    <2>6. \A k \in 0 .. NumDesc - 1 : (Ahead(k).own)' <=> k < r
      BY <1>8, <1>13
    <2>7. Queued(r)'
      BY <1>1, <1>2, <1>14, <2>2, <2>3, <2>4, <2>5, <2>6 DEF Queued
    <2>8. r \in 0 .. NumDesc
      BY <1>14
    <2>. QED  BY <2>7, <2>8 DEF InQueue
  <1>. QED  BY <1>1, <1>16, <1>17, <1>18, <1>19, <1>20 DEF TInv


(* The descriptors taken are given back: the DMA has what it had.          *)
LEMMA RollBackStep ==
  ASSUME Inv, TInv', NEW s \in Threads, RollBack(s)
  PROVE  Inv'
  <1>. USE DEF Inv, IInv
  <1>1. /\ pc[s] = "take" /\ pc' = [pc EXCEPT ![s] = "wait"]
        /\ desc' = [d \in Desc |-> IF d \in GivenBack(s) THEN [desc[d] EXCEPT !.own = FALSE]
                                                         ELSE desc[d]]
        /\ UNCHANGED <<PacketAddress, CurTxDesc, BuffersInUse, releaseIndex, dma, p, takeVars,
                       TxConfig, made, size, result, overlapped, refs, wire>>
    BY DEF RollBack, Busy
  <1>2. /\ Caller = s /\ Stage = "take" /\ Stage' = "wait"
        /\ \A t \in Threads : pc'[t] # "idle" => t = Caller'
        /\ made \in Frames /\ made \in Nat /\ made # 0 /\ p[s] = made /\ TxConfig = made
        /\ size[made] \in 1 .. MaxBuffers /\ Caller' = s
    BY <1>1, StageStep
  <1>3. PICK n \in 1 .. NumDesc : n = descnbr[s]
    BY <1>2, Constants DEF OneCaller
  <1>4. /\ firstdescidx[s] = CurTxDesc /\ NumDesc \in Nat /\ dma \in Desc /\ CurTxDesc \in Desc
        /\ made \in 1 .. made
    BY <1>2, Basics, Constants DEF OneCaller
  <1>5. PICK q \in 0 .. NumDesc : Queued(q)
    BY DEF InQueue
  <1>6. Incr(dma, q) = CurTxDesc /\ q + n <= NumDesc /\ q \in 0 .. NumDesc - 1
        /\ \A j \in 0 .. n - 1 : Piece(q + j) = <<made, j + 1>>
    BY <1>2, <1>3, <1>4, <1>5 DEF Queued
  <1>7. \A i \in Nat : Incr(CurTxDesc, i) = Incr(dma, q + i)
    BY <1>4, <1>6, IncrAdd
  <1>8. ASSUME NEW k \in 0 .. NumDesc - 1
        PROVE  Incr(dma, k) \in GivenBack(s) <=> k \in q .. q + n - 1
    <2>1. Incr(dma, k) \in GivenBack(s) <=> \E j \in 0 .. n - 1 : Incr(dma, q + j) = Incr(dma, k)
      BY <1>3, <1>4, <1>7 DEF GivenBack, Taken
    <2>2. \A j \in 0 .. n - 1 : q + j \in 0 .. NumDesc - 1
      BY <1>4, <1>6
    <2>3. \A j \in 0 .. n - 1 : Incr(dma, q + j) = Incr(dma, k) <=> q + j = k
      BY <1>4, <2>2, IncrOnce
    <2>4. (\E j \in 0 .. n - 1 : q + j = k) <=> k \in q .. q + n - 1
      <3>1. ASSUME k \in q .. q + n - 1
            PROVE  \E j \in 0 .. n - 1 : q + j = k
        <4>1. k - q \in 0 .. n - 1 /\ q + (k - q) = k
          BY <1>4, <3>1
        <4>. QED  BY <4>1
      <3>. QED  BY <1>4, <3>1
    <2>. QED  BY <2>1, <2>3, <2>4
  <1>9. ASSUME NEW k \in 0 .. NumDesc - 1
        PROVE  /\ Piece(k)' = Piece(k) /\ (Ahead(k).buffer)' = Ahead(k).buffer
               /\ (Ahead(k).own)' <=> k < q
    <2>1. Incr(dma, k) \in Desc /\ desc[Incr(dma, k)] \in Descriptor
      <3>1. k \in Nat
        OBVIOUS
      <3>. QED  BY <1>4, <3>1, IncrIn DEF TInv, EthTxTypeOK
    <2>2. /\ (Ahead(k).buffer)' = Ahead(k).buffer /\ (Ahead(k).part)' = Ahead(k).part
          /\ (Ahead(k).own)' = IF k \in q .. q + n - 1 THEN FALSE ELSE Ahead(k).own
      <3>1. Ahead(k)' = desc'[Incr(dma, k)]
        BY <1>1 DEF Ahead
      <3>2. desc'[Incr(dma, k)] = IF k \in q .. q + n - 1
                                    THEN [desc[Incr(dma, k)] EXCEPT !.own = FALSE]
                                    ELSE desc[Incr(dma, k)]
        BY <1>1, <1>8, <2>1
      <3>. QED  BY <2>1, <3>1, <3>2 DEF Ahead, Descriptor
    <2>3. Ahead(k).own <=> k < q \/ k \in q + 1 .. q + n - 1
      BY <1>2, <1>3, <1>5 DEF Queued
    <2>. QED  BY <1>4, <2>2, <2>3 DEF Piece
  <1>10. \A f : /\ Past(f) <=> Past(f)'
                /\ Past(f) => f # made
                /\ Given(f) <=> Given(f)'
    BY <1>1, <1>2 DEF Past, Given
  <1>11. ASSUME NEW f, f # made, Going(f)
         PROVE  Going(f)'
    <2>1. CASE \E i \in 1 .. Len(wire) : wire[i] = <<f, size[f]>>
      BY <1>1, <2>1 DEF Going
    <2>2. ASSUME NEW d \in Desc, desc[d].own, desc[d].buffer = f, desc[d].part = size[f]
          PROVE  Going(f)'
      <3>1. PICK k \in 0 .. NumDesc - 1 : Incr(dma, k) = d /\ Ahead(k) = desc[d]
        BY IsAhead
      <3>2. k \notin q .. q + n - 1
        <4>. SUFFICES ASSUME k \in q .. q + n - 1 PROVE FALSE
          OBVIOUS
        <4>1. PICK j \in 0 .. n - 1 : k = q + j
          <5>1. k - q \in 0 .. n - 1 /\ k = q + (k - q)
            BY <1>4
          <5>. QED  BY <5>1
        <4>2. Ahead(k).buffer = made
          BY <1>6, <4>1 DEF Piece
        <4>. QED  BY <1>11, <2>2, <3>1, <4>2
      <3>3. desc'[d] = desc[d]
        BY <1>1, <1>8, <3>1, <3>2
      <3>. QED  BY <1>1, <2>2, <3>3 DEF Going
    <2>. QED  BY <1>11, <2>1, <2>2 DEF Going
  <1>12. \A a, b : (Whole(a)' <=> Whole(a)) /\ (Follows(a, b)' <=> Follows(a, b))
    BY <1>1 DEF Whole, Follows, Nothing
  <1>13. OneCaller'
    BY <1>1, <1>2, <1>10 DEF OneCaller
  <1>14. NotedInUse'
    <2>1. \A k : Position(k)' = Position(k)
      BY <1>1 DEF Position
    <2>. QED  BY <1>1, <1>10, <2>1 DEF NotedInUse
  <1>15. WireIsGiven' /\ SentInOrder'
    BY <1>1, <1>10, <1>12 DEF WireIsGiven, SentInOrder
  <1>16. Referenced'
    BY <1>1, <1>2 DEF Referenced
  <1>17. OkIsGoing'
    BY <1>1, <1>10, <1>11 DEF OkIsGoing, OneCaller
  <1>18. InQueue'
    <2>1. \A k \in 0 .. q : Before(k)' = Before(k)
      <3>. SUFFICES ASSUME NEW k \in 0 .. q PROVE Before(k)' = Before(k)
        OBVIOUS
      <3>1. CASE k = 0
        BY <1>1, <3>1 DEF Before, Latest, Nothing
      <3>2. CASE k # 0
        <4>1. k - 1 \in 0 .. NumDesc - 1
          BY <1>4, <3>2
        <4>. QED  BY <1>9, <3>2, <4>1 DEF Before
      <3>. QED  BY <3>1, <3>2
    <2>2. ASSUME NEW k \in 0 .. q - 1
          PROVE  /\ Given(Ahead(k).buffer)' /\ Follows(Before(k), Piece(k))'
                 /\ \E l \in k .. q - 1 : Ahead(l)'.buffer = Ahead(k)'.buffer /\ Noted(l)'
      <3>1. PICK l \in k .. q - 1 : Ahead(l).buffer = Ahead(k).buffer /\ Noted(l)
        BY <1>5 DEF Queued
      <3>2. k \in 0 .. NumDesc - 1 /\ l \in 0 .. NumDesc - 1 /\ k \in 0 .. q
        BY <1>4
      <3>3. (Ahead(k).buffer)' = Ahead(k).buffer /\ (Ahead(l).buffer)' = Ahead(l).buffer
            /\ Piece(k)' = Piece(k) /\ Before(k)' = Before(k)
        BY <1>9, <2>1, <3>2
      <3>4. Noted(l)'
        BY <1>1, <1>2, <3>1, <3>3 DEF Noted
      <3>5. Given(Ahead(k).buffer)'
        <4>1. Given(Ahead(k).buffer)
          BY <1>5 DEF Queued
        <4>. QED  BY <1>1, <1>2, <3>3, <4>1 DEF Given
      <3>6. Follows(Before(k), Piece(k))'
        <4>1. Follows(Before(k), Piece(k))
          BY <1>5 DEF Queued
        <4>. QED  BY <1>1, <3>3, <4>1 DEF Follows, Whole, Nothing
      <3>. QED  BY <3>1, <3>3, <3>4, <3>5, <3>6
    <2>3. Whole(Before(q))'
      <3>1. Whole(Before(q)) /\ Before(q)' = Before(q)
        BY <1>5, <2>1, Constants DEF Queued
      <3>. QED  BY <1>1, <3>1 DEF Whole, Nothing
    <2>4. Queued(q)'
      BY <1>1, <1>2, <1>6, <1>9, <2>2, <2>3 DEF Queued
    <2>. QED  BY <2>4 DEF InQueue
  <1>. QED  BY <1>1, <1>13, <1>14, <1>15, <1>16, <1>17, <1>18 DEF TInv

(* The frame is noted at its last descriptor.                              *)
LEMMA PublishStep ==
  ASSUME Inv, TInv', NEW s \in Threads, Publish(s)
  PROVE  Inv'
  <1>. USE DEF Inv, IInv
  <1>1. /\ pc[s] = "publish" /\ pc' = [pc EXCEPT ![s] = "idle"]
        /\ UNCHANGED <<desc, releaseIndex, dma, made, size, overlapped, refs, wire>>
    BY DEF Publish, Return
  <1>2. /\ Caller = s /\ Stage = "publish" /\ Stage' = "idle"
        /\ \A t \in Threads : pc'[t] # "idle" => t = Caller'
        /\ made \in Frames /\ made \in Nat /\ made \in 1 .. made /\ made # 0 /\ p[s] = made
        /\ size[made] \in 1 .. MaxBuffers
    BY <1>1, StageStep
  <1>3. PICK n \in Nat \ {0} : n = descnbr[s]
    BY <1>2, Constants DEF OneCaller
  <1>4. PICK l \in Desc : l = descidx(s) /\ l = Incr(CurTxDesc, n - 1)
    <2>1. descidx(s) = Incr(CurTxDesc, n - 1)
      BY <1>2, <1>3 DEF descidx, Taken, OneCaller
    <2>2. n - 1 \in Nat
      OBVIOUS
    <2>. QED  BY <2>1, <2>2, Basics, IncrIn
  <1>5. /\ PacketAddress[l] = NoFrame /\ Going(made) /\ CurTxDesc' = Incr(l, 1)
        /\ BuffersInUse' = BuffersInUse + n
        /\ PacketAddress'[l] = made
        /\ \A d \in Desc : d # l => PacketAddress'[d] = PacketAddress[d]
        /\ result' = [result EXCEPT ![made] = "ok"]
    BY <1>2, <1>3, <1>4 DEF Publish, Return, OneCaller, TInv, EthTxTypeOK
  <1>6. \A f : /\ Past(f) => Past(f)' /\ f # made
               /\ Given(f) => Past(f)'
               /\ Going(f) <=> Going(f)'
    BY <1>1, <1>2 DEF Past, Given, Going
  <1>7. \A f : Given(f) => Given(f)'
    <2>. SUFFICES ASSUME NEW f, Given(f) PROVE Given(f)'
      OBVIOUS
    <2>1. f \in 1 .. made /\ result[f] # "error"
      BY DEF Given
    <2>2. f \in Frames
      BY <2>1, Constants DEF Frames, TInv, EthTxTypeOK
    <2>3. result'[f] # "error"
      BY <1>5, <2>1, <2>2 DEF TInv, EthTxTypeOK
    <2>. QED  BY <1>1, <1>2, <2>1, <2>3 DEF Given
  <1>8. \A k : /\ Position(k)' = Position(k) /\ Ahead(k)' = Ahead(k) /\ Piece(k)' = Piece(k)
               /\ Before(k)' = Before(k)
    BY <1>1 DEF Position, Ahead, Piece, Before, Latest, Nothing
  <1>9. \A a, b : (Whole(a)' <=> Whole(a)) /\ (Follows(a, b)' <=> Follows(a, b))
    BY <1>1 DEF Whole, Follows, Nothing
  <1>10. OneCaller'
    <2>1. \A f \in Frames : result'[f] # "none" => f = made \/ Past(f)
      BY <1>5 DEF TInv, EthTxTypeOK, OneCaller
    <2>2. \A f \in Frames : result'[f] # "none" => Past(f)'
      BY <1>1, <1>2, <1>6, <2>1 DEF Past
    <2>3. ~(Stage' \in {"take", "publish"}) /\ ~(Stage' # "idle") /\ Stage' # "publish"
      BY <1>2
    <2>. QED  BY <1>2, <2>2, <2>3, Zenon DEF OneCaller
  <1>11. NotedInUse'
    <2>1. /\ CurTxDesc = Position(BuffersInUse) /\ releaseIndex \in Desc /\ BuffersInUse \in Nat
          /\ CurTxDesc \in Desc /\ n - 1 \in Nat
      BY Basics DEF NotedInUse
    <2>2. l = Position(BuffersInUse + (n - 1))
      BY <1>4, <2>1, IncrAdd DEF Position
    <2>3. CurTxDesc' = Position(BuffersInUse)'
      <3>1. Incr(l, 1) = Position(BuffersInUse + (n - 1) + 1)
        <4>1. BuffersInUse + (n - 1) \in Nat
          BY <2>1
        <4>. QED  BY <2>1, <2>2, <4>1, IncrAdd DEF Position
      <3>2. BuffersInUse + (n - 1) + 1 = BuffersInUse'
        BY <1>5, <2>1
      <3>. QED  BY <1>1, <1>5, <3>1, <3>2 DEF Position
    <2>4. ASSUME NEW d \in Desc, PacketAddress'[d] # NoFrame
          PROVE  /\ Past(PacketAddress[d])'
                 /\ \E k \in 0 .. BuffersInUse' - 1 : Position(k)' = d
      <3>1. CASE d = l
        <4>1. PICK k \in 0 .. BuffersInUse' - 1 : k = BuffersInUse + (n - 1)
          BY <1>5, <2>1
        <4>2. Position(k)' = d
          BY <1>8, <2>2, <3>1, <4>1
        <4>3. Past(PacketAddress[d])'
          BY <1>1, <1>2, <1>5, <3>1 DEF Past
        <4>. QED  BY <4>2, <4>3
      <3>2. CASE d # l
        <4>1. PacketAddress'[d] = PacketAddress[d]
          BY <1>5, <3>2
        <4>2. PICK k \in 0 .. BuffersInUse - 1 : Position(k) = d
          BY <2>4, <4>1 DEF NotedInUse
        <4>3. k \in 0 .. BuffersInUse' - 1
          BY <1>5, <2>1
        <4>. QED  BY <1>6, <1>8, <2>4, <4>1, <4>2, <4>3 DEF NotedInUse
      <3>. QED  BY <3>1, <3>2
    <2>5. ASSUME NEW d \in Desc, NEW e \in Desc, PacketAddress'[d] = PacketAddress'[e],
                 PacketAddress'[d] # NoFrame
          PROVE  d = e
      BY <1>5, <1>6, <2>5 DEF NotedInUse
    <2>. QED  BY <2>3, <2>4, <2>5 DEF NotedInUse
  <1>12. InQueue'
    <2>1. PICK q \in 0 .. NumDesc : Queued(q)
      BY DEF InQueue
    <2>2. Incr(dma', q) = CurTxDesc'
      BY <1>1, <1>2, <1>4, <1>5, <2>1 DEF Queued
    <2>3. ASSUME NEW k \in 0 .. q - 1
          PROVE  /\ Given(Ahead(k).buffer)' /\ Follows(Before(k), Piece(k))'
                 /\ \E m \in k .. q - 1 : Ahead(m)'.buffer = Ahead(k)'.buffer /\ Noted(m)'
      <3>1. PICK m \in k .. q - 1 : Ahead(m).buffer = Ahead(k).buffer /\ Noted(m)
        BY <2>1 DEF Queued
      <3>2. Given(Ahead(k).buffer) /\ Follows(Before(k), Piece(k))
        BY <2>1 DEF Queued
      <3>3. Noted(m)'
        <4>1. Ahead(m)' = Ahead(m) /\ Incr(dma', m) = Incr(dma, m) /\ Incr(dma, m) \in Desc
          BY <1>1, <1>8, Basics, IncrIn
        <4>2. Ahead(m).buffer # NoFrame
          BY <1>2, <3>1, <3>2 DEF Given, NoFrame
        <4>. QED  BY <1>2, <1>4, <1>5, <3>1, <4>1, <4>2 DEF Noted
      <3>4. Given(Ahead(k).buffer)'
        <4>1. Given(Ahead(k).buffer) => (Given(Ahead(k).buffer))'
          <5>1. Ahead(k)' = Ahead(k)
            BY <1>8
          <5>2. Given(Ahead(k).buffer) => result'[Ahead(k).buffer] # "error"
            BY <1>7 DEF Given
          <5>. QED  BY <1>1, <1>2, <5>1, <5>2 DEF Given
        <4>. QED  BY <3>2, <4>1
      <3>5. Follows(Before(k), Piece(k))'
        <4>1. Before(k)' = Before(k) /\ Piece(k)' = Piece(k)
          BY <1>8
        <4>. QED  BY <1>1, <3>2, <4>1 DEF Follows, Whole, Nothing
      <3>. QED  BY <1>8, <3>1, <3>3, <3>4, <3>5
    <2>4. Whole(Before(q))'
      <3>1. Whole(Before(q)) /\ Before(q)' = Before(q)
        BY <1>8, <2>1 DEF Queued
      <3>. QED  BY <1>1, <3>1 DEF Whole, Nothing
    <2>5. \A k \in 0 .. NumDesc - 1 : (Ahead(k).own)' <=> k < q
      BY <1>2, <1>8, <2>1 DEF Queued
    <2>6. Queued(q)'
      BY <1>2, <2>2, <2>3, <2>4, <2>5 DEF Queued
    <2>. QED  BY <2>6 DEF InQueue
  <1>13. WireIsGiven'
    <2>. SUFFICES ASSUME NEW i \in 1 .. Len(wire) PROVE Given(wire[i][1])'
      BY <1>1 DEF WireIsGiven
    <2>1. Given(wire[i][1])
      BY DEF WireIsGiven
    <2>2. result'[wire[i][1]] # "error"
      BY <1>7, <2>1 DEF Given
    <2>. QED  BY <1>1, <1>2, <2>1, <2>2 DEF Given
  <1>14. SentInOrder'
    <2>1. \A i \in 1 .. Len(wire) : result'[wire[i][1]] # "error"
      BY <1>7 DEF WireIsGiven, Given
    <2>. QED  BY <1>1, <1>9, <2>1 DEF SentInOrder
  <1>15. Referenced'
    <2>. SUFFICES ASSUME NEW f \in Frames
                  PROVE  refs[f] = IF \E d \in Desc : PacketAddress'[d] = f THEN 1 ELSE 0
      BY <1>1, <1>2 DEF Referenced
    <2>1. CASE f = made
      BY <1>2, <1>5, <2>1 DEF Referenced
    <2>2. CASE f # made
      <3>1. (\E d \in Desc : PacketAddress'[d] = f) <=> (\E d \in Desc : PacketAddress[d] = f)
        BY <1>5, <2>2 DEF Frames, NoFrame
      <3>. QED  BY <2>2, <3>1 DEF Referenced
    <2>. QED  BY <2>1, <2>2
  <1>16. OkIsGoing'
    <2>. SUFFICES ASSUME NEW f \in Frames, result'[f] = "ok" PROVE Going(f)'
      BY DEF OkIsGoing
    <2>1. f = made \/ result[f] = "ok"
      BY <1>5 DEF TInv, EthTxTypeOK
    <2>2. Going(f)
      BY <1>5, <2>1 DEF OkIsGoing
    <2>. QED  BY <1>6, <2>2
  <1>. QED  BY <1>1, <1>10, <1>11, <1>12, <1>13, <1>14, <1>15, <1>16 DEF TInv

(* Frames are freed that the DMA has sent; those that it has are noted     *)
(* where it has them, and nowhere else.                                    *)
LEMMA RetryStep ==
  ASSUME Inv, TInv', NEW s \in Threads, Retry(s)
  PROVE  Inv'
  <1>. USE DEF Inv, IInv
  <1>1. /\ pc[s] = "wait" /\ pc' = [pc EXCEPT ![s] = "transmit"]
        /\ UNCHANGED <<desc, CurTxDesc, dma, made, p, takeVars, TxConfig, size, result, overlapped,
                       wire>>
    BY DEF Retry
  <1>2. /\ Caller = s /\ Caller' = s /\ Stage = "wait" /\ Stage' = "transmit"
        /\ \A t \in Threads : pc'[t] # "idle" => t = Caller'
        /\ made \in Nat /\ made # 0 /\ p[s] = made /\ TxConfig = made
    BY <1>1, StageStep
  <1>3. PICK freed, end : Frees(freed, end)
    BY ReleaseFacts DEF Retry, TInv
  <1>4. \A f : /\ Past(f) <=> Past(f)'
               /\ Past(f) => f # made
               /\ Given(f) <=> Given(f)'
               /\ Going(f) <=> Going(f)'
    BY <1>1, <1>2 DEF Past, Given, Going
  <1>5. /\ \A d \in freed : d \in Desc /\ PacketAddress[d] # NoFrame /\ ~desc[d].own
        /\ \A d \in Desc : PacketAddress'[d] = IF d \in freed THEN NoFrame ELSE PacketAddress[d]
    BY <1>3 DEF Frees
  <1>6. OneCaller'
    BY <1>1, <1>2, <1>4 DEF OneCaller
  <1>7. NotedInUse'
    <2>1. /\ releaseIndex \in Desc /\ BuffersInUse \in Nat /\ end \in 0 .. BuffersInUse
          /\ BuffersInUse' = BuffersInUse - end /\ releaseIndex' = Position(end)
          /\ \A k \in 0 .. end - 1 : PacketAddress'[Position(k)] = NoFrame
      BY <1>3, Basics DEF Frees
    <2>2. CurTxDesc' = Position(BuffersInUse)'
      <3>1. BuffersInUse' \in Nat /\ end + BuffersInUse' = BuffersInUse
        BY <2>1
      <3>2. Incr(releaseIndex', BuffersInUse') = Position(BuffersInUse)
        BY <2>1, <3>1, IncrAdd DEF Position
      <3>. QED  BY <1>1, <3>2 DEF NotedInUse, Position
    <2>3. ASSUME NEW d \in Desc, PacketAddress'[d] # NoFrame
          PROVE  /\ Past(PacketAddress[d])'
                 /\ \E k \in 0 .. BuffersInUse' - 1 : Position(k)' = d
      <3>1. PacketAddress'[d] = PacketAddress[d]
        BY <1>5, <2>3
      <3>2. PICK k \in 0 .. BuffersInUse - 1 : Position(k) = d
        BY <2>3, <3>1 DEF NotedInUse
      <3>3. k \notin 0 .. end - 1
        BY <2>1, <2>3, <3>2
      <3>4. k - end \in 0 .. BuffersInUse' - 1 /\ k - end \in Nat /\ end + (k - end) = k
        BY <2>1, <3>3
      <3>5. Position(k - end)' = d
        <4>1. Incr(releaseIndex', k - end) = Position(k)
          BY <2>1, <3>4, IncrAdd DEF Position
        <4>. QED  BY <1>1, <3>2, <4>1 DEF Position
      <3>6. Past(PacketAddress[d])'
        BY <1>1, <1>2, <2>3, <3>1 DEF NotedInUse, Past
      <3>. QED  BY <3>4, <3>5, <3>6
    <2>4. ASSUME NEW d \in Desc, NEW e \in Desc, PacketAddress'[d] = PacketAddress'[e],
                 PacketAddress'[d] # NoFrame
          PROVE  d = e
      BY <1>5, <2>4 DEF NotedInUse
    <2>. QED  BY <2>2, <2>3, <2>4 DEF NotedInUse
  <1>8. InQueue'
    <2>1. PICK q \in 0 .. NumDesc : Queued(q)
      BY DEF InQueue
    <2>2. \A k : Ahead(k)' = Ahead(k) /\ Piece(k)' = Piece(k) /\ Before(k)' = Before(k)
      BY <1>1 DEF Ahead, Piece, Before, Latest, Nothing
    <2>3. \A a, b : (Whole(a)' <=> Whole(a)) /\ (Follows(a, b)' <=> Follows(a, b))
      BY <1>1 DEF Whole, Follows, Nothing
    <2>4. ASSUME NEW k \in 0 .. q - 1, Noted(k)
          PROVE  Noted(k)'
      <3>1. Incr(dma, k) \in Desc /\ k \in 0 .. NumDesc - 1
        BY Basics, IncrIn, Constants
      <3>2. desc[Incr(dma, k)].own
        BY <2>1, <3>1 DEF Queued, Ahead
      <3>3. PacketAddress'[Incr(dma, k)] = PacketAddress[Incr(dma, k)]
        BY <1>5, <3>1, <3>2
      <3>. QED  BY <1>1, <1>2, <2>2, <2>4, <3>3 DEF Noted
    <2>5. ASSUME NEW k \in 0 .. q - 1
          PROVE  \E l \in k .. q - 1 : Ahead(l).buffer = Ahead(k).buffer /\ Noted(l)'
      <3>1. PICK l \in k .. q - 1 : Ahead(l).buffer = Ahead(k).buffer /\ Noted(l)
        BY <2>1 DEF Queued
      <3>2. l \in 0 .. q - 1
        OBVIOUS
      <3>. QED  BY <2>4, <3>1, <3>2
    <2>6. ASSUME NEW k \in 0 .. q - 1
          PROVE  Given(Ahead(k).buffer)' /\ Follows(Before(k), Piece(k))'
      <3>1. Given(Ahead(k).buffer) /\ Follows(Before(k), Piece(k))
        BY <2>1 DEF Queued
      <3>2. Ahead(k)' = Ahead(k) /\ Before(k)' = Before(k) /\ Piece(k)' = Piece(k)
        BY <2>2
      <3>3. Given(Ahead(k).buffer)'
        BY <1>1, <1>2, <3>1, <3>2 DEF Given
      <3>4. Follows(Before(k), Piece(k))'
        BY <1>1, <3>1, <3>2 DEF Follows, Whole, Nothing
      <3>. QED  BY <3>3, <3>4
    <2>7. Whole(Before(q))'
      <3>1. Whole(Before(q)) /\ Before(q)' = Before(q)
        BY <2>1, <2>2 DEF Queued
      <3>. QED  BY <1>1, <3>1 DEF Whole, Nothing
    <2>8. \A k \in 0 .. NumDesc - 1 : (Ahead(k).own)' <=> k < q
      BY <1>2, <2>1, <2>2 DEF Queued
    <2>9. Incr(dma', q) = CurTxDesc'
      BY <1>1, <1>2, <2>1 DEF Queued
    <2>10. Queued(q)'
      BY <1>2, <2>2, <2>5, <2>6, <2>7, <2>8, <2>9 DEF Queued
    <2>. QED  BY <2>10 DEF InQueue
  <1>9. WireIsGiven' /\ OkIsGoing'
    BY <1>1, <1>4 DEF WireIsGiven, OkIsGoing
  <1>10. SentInOrder'
    <2>1. \A a, b : Follows(a, b)' <=> Follows(a, b)
      BY <1>1 DEF Whole, Follows, Nothing
    <2>. QED  BY <1>1, <2>1 DEF SentInOrder
  <1>11. Referenced'
    <2>. SUFFICES ASSUME NEW f \in Frames
                  PROVE  refs'[f] = IF f = made \/ \E d \in Desc : PacketAddress'[d] = f
                                    THEN 1 ELSE 0
      BY <1>1, <1>2 DEF Referenced
    <2>1. refs'[f] = IF \E d \in freed : PacketAddress[d] = f THEN refs[f] - 1 ELSE refs[f]
      BY <1>3 DEF Frees
    <2>2. CASE \E d \in freed : PacketAddress[d] = f
      <3>1. PICK d \in freed : d \in Desc /\ PacketAddress[d] = f /\ f # NoFrame
        BY <1>5, <2>2
      <3>2. f # made
        BY <1>4, <3>1 DEF NotedInUse
      <3>3. \A e \in Desc : PacketAddress'[e] # f
        BY <1>5, <3>1 DEF NotedInUse
      <3>4. refs[f] = 1
        BY <3>1 DEF Referenced
      <3>. QED  BY <2>1, <2>2, <3>2, <3>3, <3>4
    <2>3. CASE ~\E d \in freed : PacketAddress[d] = f
      <3>1. (\E d \in Desc : PacketAddress'[d] = f) <=> (\E d \in Desc : PacketAddress[d] = f)
        BY <1>5, <2>3 DEF Frames, NoFrame
      <3>. QED  BY <1>2, <2>1, <2>3, <3>1 DEF Referenced
    <2>. QED  BY <2>2, <2>3
  <1>. QED  BY <1>1, <1>6, <1>7, <1>8, <1>9, <1>10, <1>11 DEF TInv

(* The DMA sends the first of its descriptors: what was second is first.   *)
LEMMA DmaStep ==
  ASSUME Inv, TInv', DmaSend
  PROVE  Inv'
  <1>. USE DEF Inv, IInv
  <1>1. /\ desc[dma].own /\ dma \in Desc /\ dma' = Incr(dma, 1) /\ dma' \in Desc
        /\ desc' = [desc EXCEPT ![dma].own = FALSE] /\ desc[dma] \in Descriptor
        /\ UNCHANGED <<PacketAddress, CurTxDesc, BuffersInUse, releaseIndex, CurrentPacketAddress,
                       pc, p, txbuffer, firstdescidx, descnbr, TxConfig, made, size, result,
                       overlapped, refs>>
        /\ NumDesc \in Nat /\ NumDesc > 0 /\ made \in Nat
    BY Basics, IncrIn, Constants DEF DmaSend, halVars, callVars, takeVars, TInv, EthTxTypeOK
  <1>2. /\ ~desc'[dma].own
        /\ \A d \in Desc : d # dma => desc'[d] = desc[d]
    BY <1>1 DEF Descriptor, TInv, EthTxTypeOK
  <1>3. PICK q \in 0 .. NumDesc : Queued(q)
    BY DEF InQueue
  <1>4. /\ Incr(dma, 0) = dma /\ Ahead(0) = desc[dma] /\ 0 < q /\ 0 \in 0 .. q - 1
        /\ Piece(0) = <<desc[dma].buffer, desc[dma].part>>
    <2>1. Incr(dma, 0) = dma /\ Ahead(0) = desc[dma]
      BY <1>1, IncrAround DEF Ahead
    <2>2. 0 \in 0 .. NumDesc - 1 /\ Ahead(0).own
      BY <1>1, <2>1
    <2>3. 0 < q
      <3>1. 0 < q \/ 0 \in q + 1 .. q + descnbr[Caller] - 1
        BY <1>3, <2>2 DEF Queued
      <3>. QED  BY <3>1, Constants
    <2>. QED  BY <2>1, <2>3 DEF Piece
  <1>5. /\ Stage' = Stage /\ Caller' = Caller /\ descidx(Caller)' = descidx(Caller)
        /\ \A k : Position(k)' = Position(k)
    BY <1>1 DEF Stage, Caller, descidx, Taken, Position
  <1>6. ASSUME NEW k \in 0 .. NumDesc - 2
        PROVE  /\ Incr(dma', k) = Incr(dma, k + 1) /\ Ahead(k)' = Ahead(k + 1)
               /\ Piece(k)' = Piece(k + 1) /\ (Noted(k)' <=> Noted(k + 1))
    <2>1. Incr(dma', k) = Incr(dma, k + 1)
      <3>1. 1 + k = k + 1 /\ k \in Nat
        OBVIOUS
      <3>. QED  BY <1>1, <3>1, IncrAdd
    <2>2. Incr(dma, k + 1) # dma /\ Incr(dma, k + 1) \in Desc
      <3>1. k + 1 \in 0 .. NumDesc - 1 /\ k + 1 # 0 /\ 0 \in 0 .. NumDesc - 1 /\ k + 1 \in Nat
        BY <1>1
      <3>2. Incr(dma, k + 1) # Incr(dma, 0)
        BY <1>1, <3>1, IncrOnce
      <3>. QED  BY <1>1, <1>4, <3>1, <3>2, IncrIn
    <2>3. Ahead(k)' = Ahead(k + 1)
      BY <1>2, <2>1, <2>2 DEF Ahead
    <2>4. Noted(k)' <=> Noted(k + 1)
      BY <1>1, <1>5, <2>1, <2>3 DEF Noted
    <2>. QED  BY <2>1, <2>3, <2>4 DEF Piece
  <1>7. /\ desc[dma].buffer \in Frames /\ Given(desc[dma].buffer)
        /\ Follows(Latest, Piece(0))
    BY <1>1, <1>3, <1>4 DEF Queued, TInv, OwnedHasFrame, Before
  <1>8. /\ Len(wire) \in Nat /\ Len(wire') = Len(wire) + 1 /\ wire'[Len(wire) + 1] = Piece(0)
        /\ \A i \in 1 .. Len(wire) : wire'[i] = wire[i]
    <2>1. Piece(0) \in Frames \X (0 .. MaxBuffers)
      BY <1>1, <1>4, <1>7 DEF Descriptor
    <2>2. wire' = Append(wire, Piece(0))
      BY <1>4 DEF DmaSend
    <2>. QED  BY <2>1, <2>2, Basics, AppendProperties
  <1>9. \A k \in 0 .. NumDesc - 1 : Before(k)' = Before(k + 1)
    <2>. SUFFICES ASSUME NEW k \in 0 .. NumDesc - 1 PROVE Before(k)' = Before(k + 1)
      OBVIOUS
    <2>1. CASE k = 0
      <3>1. Latest' = Piece(0)
        BY <1>8 DEF Latest
      <3>. QED  BY <2>1, <3>1 DEF Before
    <2>2. CASE k # 0
      <3>1. k - 1 \in 0 .. NumDesc - 2 /\ (k - 1) + 1 = k /\ k + 1 # 0 /\ (k + 1) - 1 = k
        BY <1>1, <2>2
      <3>2. Piece(k - 1)' = Piece((k - 1) + 1)
        BY <1>6, <3>1
      <3>. QED  BY <2>2, <3>1, <3>2 DEF Before
    <2>. QED  BY <2>1, <2>2
  <1>10. \A f : (Past(f) <=> Past(f)') /\ (Given(f) <=> Given(f)')
    BY <1>1, <1>5 DEF Past, Given
  <1>11. \A a, b : (Whole(a)' <=> Whole(a)) /\ (Follows(a, b)' <=> Follows(a, b))
    BY <1>1 DEF Whole, Follows, Nothing
  <1>12. ASSUME NEW f, Going(f)
         PROVE  Going(f)'
    <2>1. CASE \E i \in 1 .. Len(wire) : wire[i] = <<f, size[f]>>
      <3>1. PICK i \in 1 .. Len(wire) : wire[i] = <<f, size[f]>>
        BY <2>1
      <3>2. i \in 1 .. Len(wire') /\ wire'[i] = <<f, size[f]>>
        BY <1>8, <3>1
      <3>. QED  BY <1>1, <3>2 DEF Going
    <2>2. ASSUME NEW d \in Desc, desc[d].own, desc[d].buffer = f, desc[d].part = size[f]
          PROVE  Going(f)'
      <3>1. CASE d = dma
        <4>1. Len(wire) + 1 \in 1 .. Len(wire') /\ wire'[Len(wire) + 1] = <<f, size[f]>>
          BY <1>4, <1>8, <2>2, <3>1
        <4>. QED  BY <1>1, <4>1 DEF Going
      <3>2. CASE d # dma
        BY <1>1, <1>2, <2>2, <3>2 DEF Going
      <3>. QED  BY <3>1, <3>2
    <2>. QED  BY <1>12, <2>1, <2>2 DEF Going
  <1>13. OneCaller'
    BY <1>1, <1>5, <1>10, <1>12 DEF OneCaller
  <1>14. NotedInUse' /\ Referenced'
    BY <1>1, <1>5, <1>10 DEF NotedInUse, Referenced
  <1>15. WireIsGiven'
    <2>. SUFFICES ASSUME NEW i \in 1 .. Len(wire') PROVE Given(wire[i][1])'
      BY DEF WireIsGiven
    <2>1. Given(wire'[i][1])
      <3>1. CASE i \in 1 .. Len(wire)
        BY <1>8, <3>1 DEF WireIsGiven
      <3>2. CASE i = Len(wire) + 1
        BY <1>4, <1>7, <1>8, <3>2
      <3>. QED  BY <1>8, <3>1, <3>2
    <2>. QED  BY <1>1, <1>5, <2>1 DEF Given
  <1>16. SentInOrder'
    <2>. SUFFICES ASSUME NEW i \in 1 .. Len(wire')
                  PROVE  /\ Follows(IF i = 1 THEN Nothing ELSE wire[i - 1], wire[i])'
                         /\ result[wire'[i][1]] # "error"
      BY <1>1 DEF SentInOrder
    <2>1. result[wire'[i][1]] # "error"
      BY <1>1, <1>15 DEF WireIsGiven, Given
    <2>2. Follows(IF i = 1 THEN Nothing ELSE wire'[i - 1], wire'[i])
      <3>1. CASE i \in 1 .. Len(wire)
        <4>1. i # 1 => i - 1 \in 1 .. Len(wire)
          BY <1>8, <3>1
        <4>. QED  BY <1>8, <3>1, <4>1 DEF SentInOrder
      <3>2. CASE i = Len(wire) + 1
        <4>1. CASE Len(wire) = 0
          BY <1>7, <1>8, <3>2, <4>1 DEF Latest
        <4>2. CASE Len(wire) # 0
          <5>1. i # 1 /\ i - 1 = Len(wire) /\ i - 1 \in 1 .. Len(wire)
            BY <1>8, <3>2, <4>2
          <5>. QED  BY <1>7, <1>8, <3>2, <4>2, <5>1 DEF Latest
        <4>. QED  BY <4>1, <4>2
      <3>. QED  BY <1>8, <3>1, <3>2
    <2>3. Follows(IF i = 1 THEN Nothing ELSE wire[i - 1], wire[i])'
      BY <1>1, <2>2 DEF Follows, Whole, Nothing
    <2>. QED  BY <2>1, <2>3
  <1>17. OkIsGoing'
    BY <1>1, <1>12 DEF OkIsGoing
  <1>18. InQueue'
    <2>1. PICK r \in 0 .. NumDesc - 1 : r = q - 1
      BY <1>1, <1>4
    <2>2. ASSUME NEW k \in 0 .. NumDesc - 1
          PROVE  (Ahead(k).own)' <=>
                   k < r \/ (Stage = "take" /\ k \in r + 1 .. r + descnbr[Caller] - 1)
      <3>1. CASE k \in 0 .. NumDesc - 2
        <4>1. k + 1 \in 0 .. NumDesc - 1
          BY <1>1, <3>1
        <4>2. Ahead(k + 1).own <=>
                k + 1 < q \/ (Stage = "take" /\ k + 1 \in q + 1 .. q + descnbr[Caller] - 1)
          BY <1>3, <4>1 DEF Queued
        <4>3. Ahead(k)' = Ahead(k + 1)
          BY <1>6, <3>1
        <4>4. (k + 1 < q) <=> (k < r)
          BY <2>1
        <4>5. descnbr[Caller] \in Nat => (k + 1 \in q + 1 .. q + descnbr[Caller] - 1 <=>
                                          k \in r + 1 .. r + descnbr[Caller] - 1)
          BY <2>1
        <4>6. descnbr[Caller] \in Nat
          BY Basics, Constants DEF TInv, EthTxTypeOK
        <4>. QED  BY <4>2, <4>3, <4>4, <4>5, <4>6
      <3>2. CASE k = NumDesc - 1
        <4>1. 1 + k = NumDesc /\ k \in Nat /\ ~(k < r)
          BY <1>1, <2>1, <3>2
        <4>2. Incr(dma', k) = dma
          BY <1>1, <4>1, IncrAdd, IncrAround
        <4>3. ~(Ahead(k).own)'
          BY <1>2, <4>2 DEF Ahead
        <4>4. ~(Stage = "take" /\ k \in r + 1 .. r + descnbr[Caller] - 1)
          <5>1. descnbr[Caller] \in Nat
            BY Basics, Constants DEF TInv, EthTxTypeOK
          <5>2. Stage = "take" => q + descnbr[Caller] <= NumDesc
            BY <1>3 DEF Queued
          <5>. QED  BY <1>1, <2>1, <3>2, <5>1, <5>2
        <4>. QED  BY <4>1, <4>3, <4>4
      <3>. QED  BY <1>1, <3>1, <3>2
    <2>3. Incr(dma', r) = Incr(dma, q)
      <3>1. 1 + r = q /\ r \in Nat
        BY <2>1
      <3>. QED  BY <1>1, <3>1, IncrAdd
    <2>4. ASSUME NEW k \in 0 .. r - 1
          PROVE  /\ Given(Ahead(k).buffer)' /\ Follows(Before(k), Piece(k))'
                 /\ \E l \in k .. r - 1 : Ahead(l)'.buffer = Ahead(k)'.buffer /\ Noted(l)'
      <3>1. k \in 0 .. NumDesc - 2 /\ k \in 0 .. NumDesc - 1 /\ k + 1 \in 0 .. q - 1
        BY <1>1, <2>1
      <3>2. Ahead(k)' = Ahead(k + 1) /\ Piece(k)' = Piece(k + 1) /\ Before(k)' = Before(k + 1)
        BY <1>6, <1>9, <3>1
      <3>3. Given(Ahead(k + 1).buffer) /\ Follows(Before(k + 1), Piece(k + 1))
        BY <1>3, <3>1 DEF Queued
      <3>4. Given(Ahead(k).buffer)'
        BY <1>1, <1>5, <3>2, <3>3 DEF Given
      <3>5. Follows(Before(k), Piece(k))'
        BY <1>1, <3>2, <3>3 DEF Follows, Whole, Nothing
      <3>6. PICK m \in k + 1 .. q - 1 : Ahead(m).buffer = Ahead(k + 1).buffer /\ Noted(m)
        BY <1>3, <3>1 DEF Queued
      <3>7. PICK l \in k .. r - 1 : m = l + 1
        <4>1. m - 1 \in k .. r - 1 /\ m = (m - 1) + 1
          BY <2>1
        <4>. QED  BY <4>1
      <3>8. l \in 0 .. NumDesc - 2
        BY <1>1, <2>1
      <3>9. Ahead(l)' = Ahead(l + 1) /\ (Noted(l)' <=> Noted(l + 1))
        BY <1>6, <3>8
      <3>. QED  BY <3>2, <3>4, <3>5, <3>6, <3>7, <3>9
    <2>5. Whole(Before(r))'
      <3>1. Before(r)' = Before(q)
        <4>1. r + 1 = q
          BY <2>1
        <4>. QED  BY <1>9, <4>1
      <3>2. Whole(Before(q))
        BY <1>3 DEF Queued
      <3>. QED  BY <1>1, <3>1, <3>2 DEF Whole, Nothing
    <2>6. ASSUME Stage = "take"
          PROVE  /\ r + descnbr[Caller] <= NumDesc
                 /\ \A j \in 0 .. descnbr[Caller] - 1 : Piece(r + j)' = <<made, j + 1>>
      <3>1. /\ q + descnbr[Caller] <= NumDesc /\ descnbr[Caller] \in Nat
            /\ \A j \in 0 .. descnbr[Caller] - 1 : Piece(q + j) = <<made, j + 1>>
        BY <1>3, <2>6, Basics, Constants DEF Queued, TInv, EthTxTypeOK
      <3>2. \A j \in 0 .. descnbr[Caller] - 1 : r + j \in 0 .. NumDesc - 2 /\ (r + j) + 1 = q + j
        BY <1>1, <2>1, <3>1
      <3>3. \A j \in 0 .. descnbr[Caller] - 1 : Piece(r + j)' = Piece(q + j)
        BY <1>6, <3>2
      <3>. QED  BY <1>1, <2>1, <3>1, <3>3
    <2>7. Queued(r)'
      BY <1>1, <1>3, <1>5, <2>2, <2>3, <2>4, <2>5, <2>6 DEF Queued
    <2>8. r \in 0 .. NumDesc
      BY <1>1
    <2>. QED  BY <2>7, <2>8 DEF InQueue
  <1>. QED  BY <1>1, <1>13, <1>14, <1>15, <1>16, <1>17, <1>18 DEF TInv

LEMMA CallerStep ==
  ASSUME Inv, TInv', NEW s \in Threads, low_level_output(s)
  PROVE  Inv'
  <1>1. CASE Stopped(s)
    BY <1>1, WaitStep, ErrorStep
  <1>. QED  BY <1>1, TakingStep, GiveStep, PublishStep, WaitStep, RollBackStep, RetryStep
            DEF low_level_output

(* The ARP request of the link thread keeps the invariant when the stack   *)
(* is idle then, and is an overlap when it is not.                         *)
LEMMA NextInv ==
  ASSUME Inv, TInv', [Next]_vars, ~overlapped'
  PROVE  Inv'
  <1>1. ASSUME NEW n \in 1 .. MaxBuffers, Output(n)
        PROVE  Inv'
    <2>1. "tcpip" \in Threads
      BY DEF Threads
    <2>. QED  BY <1>1, <2>1, CallStep DEF Output
  <1>2. CASE Report
    <2>1. "EthLink" \in Threads /\ 1 \in 1 .. MaxBuffers
      BY Constants DEF Threads
    <2>. QED  BY <1>2, <2>1, CallStep DEF Report
  <1>. QED  BY <1>1, <1>2, CallerStep, DmaStep, LinkStep DEF Next, LinkThread

LEMMA OverlapStays ==
  ASSUME overlapped, [Next]_vars
  PROVE  overlapped'
  <1>1. CASE DmaSend \/ UNCHANGED vars
    BY <1>1 DEF DmaSend, vars, callVars
  <1>2. ASSUME NEW n \in 1 .. MaxBuffers, Output(n)
        PROVE  overlapped'
    BY <1>2 DEF Output, Call
  <1>3. CASE LinkThread
    BY <1>3 DEF LinkThread, LinkLost, SetDown, LinkFound, SetUp, Report, Call, callVars
  <1>4. ASSUME NEW s \in Threads, low_level_output(s)
        PROVE  overlapped'
    BY <1>4 DEF low_level_output, TakeFirst, TakeNext, Give, Publish, Full, RollBack, Stopped, Retry
  <1>. QED  BY <1>1, <1>2, <1>3, <1>4 DEF Next

(* The types are kept whatever the two threads do, the rest until their    *)
(* calls overlap; UntilOverlap follows.                                    *)
LEMMA Invariance == Spec => [](TInv /\ (~overlapped => Inv))
  <1>1. Init => TInv /\ (~overlapped => Inv)
    BY InitTInv, InitInv
  <1>2. TInv /\ (~overlapped => Inv) /\ [Next]_vars => (TInv /\ (~overlapped => Inv))'
    BY NextTInv, NextInv, OverlapStays
  <1>. QED  BY <1>1, <1>2, PTL DEF Spec

-----------------------------------------------------------------------------
(* Every reference to a frame is given back, and none twice: the driver    *)
(* has one as long as low_level_output is at it or HAL_ETH_ReleaseTxPacket *)
(* will come to where it is noted.  This holds until a call begins during  *)
(* another.                                                                *)
THEOREM ReferencesAreBalanced == Spec => []ReferencesBalance
  <1>1. Inv => ReferencesBalance
    <2>. SUFFICES ASSUME Inv, NEW f \in Frames
                  PROVE  refs[f] = IF InHand(f) \/ Waiting(f) # {} THEN 1 ELSE 0
      BY DEF ReferencesBalance
    <2>1. InHand(f) <=> Stage # "idle" /\ f = made
      BY Basics DEF InHand, Inv, IInv, OneCaller, Stage
    <2>2. Waiting(f) # {} <=> \E d \in Desc : PacketAddress[d] = f
      <3>1. \A k \in 0 .. BuffersInUse - 1 : Position(k) \in Desc
        BY Basics, IncrIn DEF Position
      <3>. QED  BY <3>1 DEF Waiting, Inv, IInv, NotedInUse, Frames, NoFrame
    <2>. QED  BY <2>1, <2>2 DEF Inv, IInv, Referenced
  <1>2. overlapped => ReferencesBalance
    BY DEF ReferencesBalance
  <1>. QED  BY <1>1, <1>2, Invariance, PTL

(* The DMA never reads a frame that has been freed: HAL_ETH_ReleaseTxPacket*)
(* frees none of which a descriptor has its OWN bit, even when the ring    *)
(* has come round.  This holds until a call begins during another.         *)
THEOREM NoneIsUsedAfterFree == Spec => []NoUseAfterFree
  <1>1. Inv => NoUseAfterFree
    <2>. SUFFICES ASSUME Inv, NEW d \in Desc, desc[d].own
                  PROVE  refs[desc[d].buffer] = 1
      BY DEF NoUseAfterFree
    <2>1. PICK q \in 0 .. NumDesc : Queued(q)
      BY DEF Inv, IInv, InQueue
    <2>2. PICK k \in 0 .. NumDesc - 1 : Incr(dma, k) = d /\ Ahead(k) = desc[d]
      BY IsAhead
    <2>3. desc[d].buffer \in Frames
      BY DEF Inv, TInv, OwnedHasFrame
    <2>4. CASE k \in 0 .. q - 1
      <3>1. PICK l \in k .. q - 1 : Ahead(l).buffer = desc[d].buffer /\ Noted(l)
        BY <2>1, <2>2, <2>4 DEF Queued
      <3>2. Incr(dma, l) \in Desc
        <4>1. l \in Nat
          BY <2>4
        <4>. QED  BY <4>1, Basics, IncrIn
      <3>. QED  BY <2>3, <3>1, <3>2 DEF Noted, Inv, IInv, Referenced
    <2>5. CASE k \notin 0 .. q - 1
      <3>1. Stage = "take" /\ k \in q + 1 .. q + descnbr[Caller] - 1
        BY <2>1, <2>2, <2>5, Constants DEF Queued
      <3>2. descnbr[Caller] \in Nat
        BY Basics, Constants DEF Inv, TInv, EthTxTypeOK
      <3>3. PICK j \in 0 .. descnbr[Caller] - 1 : k = q + j
        <4>1. k - q \in 0 .. descnbr[Caller] - 1 /\ k = q + (k - q)
          BY <3>1, <3>2, Constants
        <4>. QED  BY <4>1
      <3>4. Ahead(k).buffer = made
        BY <2>1, <3>1, <3>3 DEF Queued, Piece
      <3>. QED  BY <2>2, <2>3, <3>1, <3>4 DEF Inv, IInv, Referenced
    <2>. QED  BY <2>4, <2>5
  <1>2. overlapped => NoUseAfterFree
    BY DEF NoUseAfterFree
  <1>. QED  BY <1>1, <1>2, Invariance, PTL

(* Frames reach the wire in the order of the calls, each once and whole,   *)
(* and none of a call that has failed, however often the ring was full     *)
(* half way through one.  This holds until a call begins during another.   *)
THEOREM WireIsInOrder == Spec => []SentInOrder
  <1>1. Inv => SentInOrder
    BY DEF Inv, IInv
  <1>2. overlapped => SentInOrder
    BY DEF SentInOrder
  <1>. QED  BY <1>1, <1>2, Invariance, PTL

(* A frame for which low_level_output has returned ERR_OK was sent up to   *)
(* its last buffer, or the DMA has that buffer.  This holds until a call   *)
(* begins during another.                                                  *)
THEOREM OkIsSent == Spec => []OkMeansSent
  <1>1. Inv => OkMeansSent
    BY DEF Inv, IInv, OkIsGoing, OkMeansSent
  <1>2. overlapped => OkMeansSent
    BY DEF OkMeansSent
  <1>. QED  BY <1>1, <1>2, Invariance, PTL

(* The invariant of EthTx from which these follow.                         *)
THEOREM InvariantHolds == Spec => []UntilOverlap
  <1>1. TInv /\ (~overlapped => Inv) => UntilOverlap
    BY DEF TInv, Inv, UntilOverlap
  <1>. QED  BY <1>1, Invariance, PTL

=============================================================================
