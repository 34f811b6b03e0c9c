-------------------------- MODULE ConfigStoreProofs --------------------------
(***************************************************************************)
(* Proofs about ConfigStore, for any payload length and queue depth and    *)
(* any values of the bounds.                                               *)
(***************************************************************************)
EXTENDS ConfigStore, SequenceTheorems, TLAPS

LEMMA Constants ==
  /\ NumWords \in Nat /\ NumWords >= 1
  /\ QueueDepth \in Nat /\ QueueDepth >= 1
  /\ MaxRequests \in Nat /\ MaxVersion \in Nat
  /\ Zeros \in Nat /\ BlankVersion \in Nat /\ Blank \in Nat
  BY StoreAssumption DEF Zeros, BlankVersion, Blank

(* The two slots are the target and the other one.                         *)
other == IF use_slot_a THEN "B" ELSE "A"

LEMMA TwoSlotNames ==
  /\ target \in SlotNames /\ other \in SlotNames /\ target # other
  /\ \A x \in SlotNames : x = target \/ x = other
  BY DEF target, other, SlotNames

LEMMA SlotTypes ==
  /\ BlankSlot \in Slot
  /\ Default \in Config
  /\ \A r \in Request : ConfigOf(r) \in Config
  /\ \A s \in Slot : ConfigIn(s) \in Config
  /\ \A s \in Slot : s.version \in Nat /\ s.crc \in Nat /\ s.marker \in BOOLEAN
                     /\ s.payload \in [Words -> Nat]
  /\ NoRequest \in Request
  BY Constants DEF BlankSlot, Slot, Default, Config, ConfigOf, ConfigIn, Request, Whole,
     NoRequest

LEMMA LoadTypes ==
  ASSUME flash \in [SlotNames -> Slot]
  PROVE  config_load_or_default \in Config
  BY SlotTypes DEF config_load_or_default, SlotNames

(* What an erase that is cut short leaves is a slot whose CRC is the one   *)
(* it had or an erased one.                                                *)
LEMMA PartlyErasedTypes ==
  ASSUME NEW slot \in Slot, NEW s \in PartlyErased(slot)
  PROVE  s \in Slot /\ (s.crc = slot.crc \/ s.crc = 0)
  <1>1. PICK v \in {slot.version, BlankVersion}, c \in {slot.crc, Blank},
             p \in [Words -> {slot.payload[w] : w \in Words} \union {Blank}],
             m \in {slot.marker, FALSE} :
               s = [version |-> v, crc |-> c, payload |-> p, marker |-> m]
    BY DEF PartlyErased
  <1>2. p \in [Words -> Nat]
    <2>1. slot.payload \in [Words -> Nat]
      BY SlotTypes
    <2>2. {slot.payload[w] : w \in Words} \union {Blank} \subseteq Nat
      BY <2>1 DEF Blank
    <2>. QED  BY <2>2
  <1>. QED  BY <1>1, <1>2, SlotTypes, Constants DEF Slot, Blank

(* If it can be loaded and has its version, it is the slot that was there. *)
LEMMA PartlyErasedLoads ==
  ASSUME NEW slot \in Slot, NEW s \in PartlyErased(slot),
         config_slot_read(s), s.version # BlankVersion
  PROVE  config_slot_read(slot) /\ ConfigIn(s) = ConfigIn(slot)
  <1>1. PICK v \in {slot.version, BlankVersion}, c \in {slot.crc, Blank},
             p \in {q \in [Words -> {slot.payload[w] : w \in Words} \union {Blank}] :
                     \A w \in Words : q[w] \in {slot.payload[w], Blank}},
             m \in {slot.marker, FALSE} :
               s = [version |-> v, crc |-> c, payload |-> p, marker |-> m]
    BY DEF PartlyErased
  <1>2. m /\ c # Blank /\ p = Whole(c) /\ v # BlankVersion
    BY <1>1 DEF config_slot_read
  <1>3. m = slot.marker /\ c = slot.crc /\ v = slot.version
    BY <1>1, <1>2
  <1>4. slot.payload = p
    <2>1. slot.payload \in [Words -> Nat]
      BY SlotTypes
    <2>2. \A w \in Words : p[w] = slot.payload[w]
      BY <1>1, <1>2 DEF Whole
    <2>3. p = [w \in Words |-> p[w]] /\ slot.payload = [w \in Words |-> slot.payload[w]]
      BY <1>1, <2>1
    <2>. QED  BY <2>2, <2>3
  <1>. QED  BY <1>1, <1>2, <1>3, <1>4 DEF config_slot_read, ConfigIn

(* What the n-th word makes of a slot.                                     *)
LEMMA ProgrammedTypes ==
  ASSUME NEW slot \in Slot, NEW n \in 1 .. NumWords + 2, req \in Request
  PROVE  LET s == Programmed(slot, n) IN
         /\ s \in Slot
         /\ s.marker = slot.marker
         /\ s.version = IF n = 1 THEN req.version ELSE slot.version
         /\ s.crc = IF n = 2 THEN req.name ELSE slot.crc
         /\ \A w \in Words :
              s.payload[w] = IF w = n - 2 THEN req.name ELSE slot.payload[w]
  <1>1. /\ slot.version \in Nat /\ slot.crc \in Nat /\ slot.marker \in BOOLEAN
        /\ slot.payload \in [Words -> Nat] /\ req.name \in Nat /\ req.version \in Nat
    BY SlotTypes DEF Request
  <1>2. CASE n = 1
    <2>1. Programmed(slot, n) = [slot EXCEPT !.version = req.version]
      BY <1>2 DEF Programmed
    <2>2. \A w \in Words : w # n - 2
      BY <1>2 DEF Words
    <2>. QED  BY <1>1, <1>2, <2>1, <2>2 DEF Slot
  <1>3. CASE n = 2
    <2>1. Programmed(slot, n) = [slot EXCEPT !.crc = req.name]
      BY <1>3 DEF Programmed
    <2>2. \A w \in Words : w # n - 2
      BY <1>3 DEF Words
    <2>. QED  BY <1>1, <1>3, <2>1, <2>2 DEF Slot
  <1>4. CASE n > 2
    <2>1. Programmed(slot, n) = [slot EXCEPT !.payload[n - 2] = req.name]
      BY <1>4, Constants DEF Programmed
    <2>2. n - 2 \in Words
      BY <1>4, Constants DEF Words
    <2>3. [slot.payload EXCEPT ![n - 2] = req.name] \in [Words -> Nat]
      BY <1>1
    <2>. QED  BY <1>1, <1>4, <2>1, <2>2, <2>3 DEF Slot
  <1>. QED  BY <1>2, <1>3, <1>4, Constants

LEMMA InitInv == Init => IInv
  <1> SUFFICES ASSUME Init PROVE IInv
    OBVIOUS
  <1>1. flash \in [SlotNames -> Slot] /\ \A x \in SlotNames : flash[x] = BlankSlot
    BY SlotTypes DEF Init
  <1>2. StoreTypeOK
    BY <1>1, LoadTypes, SlotTypes, Constants DEF Init, StoreTypeOK
  <1>3. NamesInOrder
    BY <1>1 DEF Init, NamesInOrder, NoRequest, BlankSlot, Blank
  <1>4. SlotsAreGenuine
    BY <1>1 DEF SlotsAreGenuine, config_slot_read, BlankSlot
  <1>. QED  BY <1>2, <1>3, <1>4 DEF IInv, Init, WriteInOrder, AckedInOtherSlot

(* Facts of the type invariant used throughout.                            *)
LEMMA TypeFacts ==
  ASSUME StoreTypeOK
  PROVE  /\ flash[target] \in Slot /\ flash[other] \in Slot
         /\ req \in Request /\ req.name \in Nat /\ req.version \in Nat
         /\ acked \in Request /\ acked.name \in Nat /\ acked.version \in Nat
         /\ made \in Nat
         /\ \A r \in past : r \in Request /\ r.name \in Nat /\ r.version \in Nat
         /\ Len(storeQ) \in Nat
         /\ \A i \in 1 .. Len(storeQ) : storeQ[i] \in Request /\ storeQ[i].name \in Nat
  <1>1. \A r \in Request : r.name \in Nat /\ r.version \in Nat
    BY DEF Request
  <1>2. \A i \in 1 .. Len(storeQ) : storeQ[i] \in Request
    BY LenProperties DEF StoreTypeOK
  <1>. QED  BY <1>1, <1>2, TwoSlotNames, LenProperties DEF StoreTypeOK

LEMMA TakeRequestStep ==
  ASSUME IInv, TakeRequest
  PROVE  IInv'
  <1> USE DEF IInv, TakeRequest
  <1>1. /\ req' = storeQ[1] /\ 1 \in 1 .. Len(storeQ)
        /\ storeQ' \in Seq(Request) /\ Len(storeQ') = Len(storeQ) - 1
        /\ \A i \in 1 .. Len(storeQ') : i + 1 \in 1 .. Len(storeQ) /\ storeQ'[i] = storeQ[i + 1]
    BY HeadTailProperties, EmptySeq, TypeFacts DEF StoreTypeOK
  <1>2. req' \in Request
    BY <1>1, TypeFacts
  <1>3. past' \in SUBSET Request /\ past \subseteq past' /\ past' \subseteq past \union {req}
    BY TypeFacts DEF StoreTypeOK
  <1>4. StoreTypeOK'
    <2>1. Len(storeQ') <= QueueDepth
      BY <1>1, TypeFacts, Constants DEF StoreTypeOK
    <2>. QED  BY <1>1, <1>2, <1>3, <2>1 DEF StoreTypeOK
  <1>5. NamesInOrder'
    <2>1. /\ req'.name \in 1 .. made /\ req'.name > req.name
          /\ \A r \in past : r.name < req'.name
      BY <1>1 DEF NamesInOrder
    <2>2. \A r \in past' : r.name < req'.name
      BY <2>1, <1>3
    <2>3. req' # NoRequest
      BY <2>1 DEF NoRequest
    <2>4. ASSUME NEW i \in 1 .. Len(storeQ')
          PROVE  /\ storeQ'[i].name \in 1 .. made
                 /\ req'.name < storeQ'[i].name
                 /\ \A r \in past' : r.name < storeQ'[i].name
                 /\ \A j \in 1 .. Len(storeQ') : j < i => storeQ'[j].name < storeQ'[i].name
      <3>1. /\ storeQ'[i] = storeQ[i + 1] /\ i + 1 \in 1 .. Len(storeQ)
            /\ 1 < i + 1 /\ i \in Nat
        BY <1>1, TypeFacts
      <3>2. storeQ[i + 1].name \in 1 .. made /\ storeQ[1].name < storeQ[i + 1].name
            /\ req.name < storeQ[i + 1].name /\ \A r \in past : r.name < storeQ[i + 1].name
        BY <3>1, <1>1 DEF NamesInOrder
      <3>3. \A j \in 1 .. Len(storeQ') : j < i => storeQ'[j].name < storeQ'[i].name
        <4> SUFFICES ASSUME NEW j \in 1 .. Len(storeQ'), j < i
                     PROVE  storeQ'[j].name < storeQ'[i].name
          OBVIOUS
        <4>1. storeQ'[j] = storeQ[j + 1] /\ j + 1 \in 1 .. Len(storeQ) /\ j + 1 < i + 1
          BY <1>1, <3>1, TypeFacts
        <4>. QED  BY <4>1, <3>1 DEF NamesInOrder
      <3>. QED  BY <3>1, <3>2, <3>3, <1>1, <1>3
    <2>5. \A r \in past' : r.name <= made
      BY <1>3 DEF NamesInOrder
    <2>6. req'.name <= made /\ req'.name > 0
      BY <2>1, TypeFacts
    <2>. QED  BY <2>2, <2>3, <2>4, <2>5, <2>6 DEF NamesInOrder
  <1>6. SlotsAreGenuine'
    <2>1. CASE req = NoRequest
      <3>1. \A slot : config_slot_read(slot) => ConfigIn(slot) # ConfigOf(NoRequest)
        BY DEF config_slot_read, ConfigIn, ConfigOf, NoRequest, Blank
      <3>. QED  BY <2>1, <3>1 DEF SlotsAreGenuine
    <2>2. CASE req # NoRequest
      BY <2>2 DEF SlotsAreGenuine
    <2>. QED  BY <2>1, <2>2
  <1>7. AckedInOtherSlot'
    <2> SUFFICES ASSUME acked # NoRequest PROVE AckedInOtherSlot'
      BY DEF AckedInOtherSlot
    <2>1. acked = req /\ Holds(flash[IF use_slot_a THEN "B" ELSE "A"], acked)
      BY DEF AckedInOtherSlot
    <2>2. \A r \in past' : r = acked \/ r.name < acked.name
      BY <1>3, <2>1 DEF NamesInOrder
    <2>. QED  BY <2>1, <2>2 DEF AckedInOtherSlot, Holds
  <1>. QED  BY <1>4, <1>5, <1>6, <1>7 DEF WriteInOrder

LEMMA EraseStep ==
  ASSUME IInv, Erase
  PROVE  IInv'
  <1> USE DEF IInv, Erase
  <1>1. /\ flash' \in [SlotNames -> Slot]
        /\ flash'[target] = BlankSlot
        /\ flash'[other] = flash[other]
        /\ target' = target /\ other' = other
    BY TwoSlotNames, SlotTypes DEF StoreTypeOK, target, other
  <1>2. StoreTypeOK'
    BY <1>1, Constants DEF StoreTypeOK
  <1>3. NamesInOrder'
    BY <1>1, TwoSlotNames, TypeFacts DEF NamesInOrder, BlankSlot, Blank
  <1>4. SlotsAreGenuine'
    BY <1>1, TwoSlotNames DEF SlotsAreGenuine, config_slot_read, BlankSlot
  <1>5. WriteInOrder'
    BY <1>1, Constants DEF WriteInOrder, BlankSlot, Words
  <1>6. AckedInOtherSlot'
    BY <1>1 DEF AckedInOtherSlot, Holds, other
  <1>. QED  BY <1>2, <1>3, <1>4, <1>5, <1>6

LEMMA ProgramWordStep ==
  ASSUME IInv, ProgramWord
  PROVE  IInv'
  <1> USE DEF IInv, ProgramWord
  <1>0. k \in 1 .. NumWords + 2 /\ ~flash[target].marker /\ k' = k + 1
    BY DEF WriteInOrder
  <1>1. /\ flash' \in [SlotNames -> Slot]
        /\ flash'[target] = Programmed(flash[target], k)
        /\ flash'[other] = flash[other]
        /\ target' = target /\ other' = other
    BY <1>0, TwoSlotNames, ProgrammedTypes, TypeFacts DEF StoreTypeOK, target, other
  <1>2. LET s == flash'[target] IN
        /\ ~s.marker
        /\ s.version = IF k = 1 THEN req.version ELSE flash[target].version
        /\ s.crc = IF k = 2 THEN req.name ELSE flash[target].crc
        /\ \A w \in Words :
             s.payload[w] = IF w = k - 2 THEN req.name ELSE flash[target].payload[w]
    BY <1>0, <1>1, ProgrammedTypes, TypeFacts
  <1>3. StoreTypeOK'
    BY <1>0, <1>1, Constants DEF StoreTypeOK
  <1>4. NamesInOrder'
    BY <1>1, <1>2, TwoSlotNames, TypeFacts DEF NamesInOrder
  <1>5. SlotsAreGenuine'
    BY <1>1, <1>2, TwoSlotNames DEF SlotsAreGenuine, config_slot_read
  <1>6. WriteInOrder'
    <2>1. spc' = "program" => k' \in 1 .. NumWords + 2
      BY <1>0, Constants
    <2>2. spc' = "marker" => k' = NumWords + 3
      BY <1>0, Constants
    <2>3. k' > 1 => flash'[target].version = req.version
      BY <1>0, <1>2, Constants DEF WriteInOrder
    <2>4. k' > 2 => flash'[target].crc = req.name
      BY <1>0, <1>2, Constants DEF WriteInOrder
    <2>5. ASSUME NEW w \in Words, w + 2 < k'
          PROVE  flash'[target].payload[w] = req.name
      <3>1. w = k - 2 \/ w + 2 < k
        BY <1>0, <2>5, Constants DEF Words
      <3>. QED  BY <1>2, <3>1 DEF WriteInOrder
    <2>. QED  BY <1>1, <1>2, <2>1, <2>2, <2>3, <2>4, <2>5 DEF WriteInOrder
  <1>7. AckedInOtherSlot'
    BY <1>1 DEF AckedInOtherSlot, Holds, other
  <1>. QED  BY <1>3, <1>4, <1>5, <1>6, <1>7

LEMMA MarkedTypes ==
  ASSUME NEW slot \in Slot
  PROVE  [slot EXCEPT !.marker = TRUE] \in Slot
  <1>1. TRUE \in BOOLEAN
    OBVIOUS
  <1>. QED  BY <1>1, ZenonT(20) DEF Slot

(* Once everything is programmed, the marker makes the slot hold req.      *)
LEMMA MarkerCompletes ==
  ASSUME IInv, spc = "marker",
         flash' = [flash EXCEPT ![target].marker = TRUE]
  PROVE  /\ flash' \in [SlotNames -> Slot]
         /\ Holds(flash'[target], req)
         /\ flash'[target].crc = req.name
         /\ flash'[other] = flash[other]
  <1>1. /\ flash[target] \in Slot
        /\ flash[target].version = req.version
        /\ flash[target].crc = req.name
        /\ \A w \in Words : flash[target].payload[w] = req.name
    BY TypeFacts, Constants DEF IInv, WriteInOrder, Words
  <1>2. flash[target].payload = Whole(req.name)
    BY <1>1, SlotTypes DEF Whole
  <1>3. flash'[target] = [flash[target] EXCEPT !.marker = TRUE]
        /\ flash'[other] = flash[other]
    BY TwoSlotNames DEF IInv, StoreTypeOK
  <1>4. flash'[target] \in Slot
    BY <1>1, <1>3, MarkedTypes
  <1>5. /\ flash'[target].version = req.version
        /\ flash'[target].crc = req.name
        /\ flash'[target].payload = Whole(req.name)
        /\ flash'[target].marker
    BY <1>1, <1>2, <1>3 DEF Slot
  <1>6. req.name # Blank
    BY TypeFacts DEF IInv, NamesInOrder, Blank
  <1>. QED  BY <1>3, <1>4, <1>5, <1>6, TwoSlotNames
              DEF Holds, config_slot_read, ConfigIn, ConfigOf, IInv, StoreTypeOK

LEMMA ProgramMarkerStep ==
  ASSUME IInv, ProgramMarker
  PROVE  IInv'
  <1> USE DEF IInv, ProgramMarker
  <1>1. /\ flash' \in [SlotNames -> Slot]
        /\ Holds(flash'[target], req)
        /\ flash'[target].crc = req.name
        /\ flash'[other] = flash[other]
    BY MarkerCompletes
  <1>2. target = other' /\ use_slot_a' \in BOOLEAN
    BY DEF NextSlot, target, other, StoreTypeOK
  <1>3. StoreTypeOK'
    BY <1>1, <1>2, TypeFacts DEF StoreTypeOK
  <1>4. NamesInOrder'
    BY <1>1, TwoSlotNames, TypeFacts DEF NamesInOrder
  <1>5. SlotsAreGenuine'
    BY <1>1, TwoSlotNames DEF SlotsAreGenuine, Holds
  <1>6. AckedInOtherSlot'
    BY <1>1, <1>2 DEF AckedInOtherSlot, other, Holds
  <1>. QED  BY <1>3, <1>4, <1>5, <1>6 DEF WriteInOrder

(* A slot left by an operation that failed has no CRC but that of a        *)
(* request, and holds a request if it can be loaded at all.                *)
LEMMA FlashFailsSlots ==
  ASSUME IInv, FlashFails
  PROVE  /\ flash' \in [SlotNames -> Slot]
         /\ \A x \in SlotNames : flash'[x].crc <= made
         /\ SlotsAreGenuine'
  <1> USE DEF IInv
  <1>1. CASE flash' = flash
    BY <1>1 DEF FlashFails, StoreTypeOK, NamesInOrder, SlotsAreGenuine
  <1>2. CASE /\ spc = "erase"
             /\ \E slot \in IF TornErase THEN PartlyErased(flash[target]) ELSE {BlankSlot} :
                  flash' = [flash EXCEPT ![target] = slot]
    <2>1. PICK slot \in IF TornErase THEN PartlyErased(flash[target]) ELSE {BlankSlot} :
                 flash' = [flash EXCEPT ![target] = slot]
      BY <1>2
    <2>2. slot \in Slot /\ (slot.crc = flash[target].crc \/ slot.crc = 0)
      <3>1. BlankSlot \in Slot /\ BlankSlot.crc = 0 /\ flash[target] \in Slot
        BY SlotTypes, TypeFacts DEF BlankSlot, Blank
      <3>2. CASE TornErase
        <4>1. slot \in PartlyErased(flash[target])
          BY <3>2
        <4>. QED  BY <3>1, <4>1, PartlyErasedTypes
      <3>3. CASE ~TornErase
        BY <3>1, <3>3
      <3>. QED  BY <3>2, <3>3
    <2>3. flash'[target] = slot /\ flash'[other] = flash[other]
          /\ flash' \in [SlotNames -> Slot]
      BY <2>1, <2>2, TwoSlotNames DEF StoreTypeOK
    <2>4. config_slot_read(slot) /\ slot.version # BlankVersion =>
            config_slot_read(flash[target]) /\ ConfigIn(slot) = ConfigIn(flash[target])
      <3>1. ~config_slot_read(BlankSlot) /\ flash[target] \in Slot
        BY TypeFacts DEF BlankSlot, config_slot_read
      <3>. QED  BY <3>1, PartlyErasedLoads
    <2>5. \A x \in SlotNames : flash'[x].crc <= made
      BY <2>2, <2>3, TwoSlotNames, TypeFacts DEF NamesInOrder
    <2>6. SlotsAreGenuine'
      BY <2>3, <2>4, TwoSlotNames DEF SlotsAreGenuine, FlashFails, ConfigIn
    <2>. QED  BY <2>3, <2>5, <2>6
  <1>3. CASE spc = "program" /\ flash' = [flash EXCEPT ![target] = Programmed(@, k)]
    <2>1. k \in 1 .. NumWords + 2 /\ ~flash[target].marker
      BY <1>3 DEF WriteInOrder
    <2>2. /\ flash' \in [SlotNames -> Slot]
          /\ flash'[target] = Programmed(flash[target], k)
          /\ flash'[other] = flash[other]
      BY <1>3, <2>1, TwoSlotNames, ProgrammedTypes, TypeFacts DEF StoreTypeOK
    <2>3. ~flash'[target].marker
          /\ (flash'[target].crc = req.name \/ flash'[target].crc = flash[target].crc)
      BY <2>1, <2>2, ProgrammedTypes, TypeFacts
    <2>4. \A x \in SlotNames : flash'[x].crc <= made
      BY <2>2, <2>3, TwoSlotNames, TypeFacts DEF NamesInOrder
    <2>5. SlotsAreGenuine'
      BY <2>2, <2>3, TwoSlotNames DEF SlotsAreGenuine, FlashFails, config_slot_read
    <2>. QED  BY <2>2, <2>4, <2>5
  <1>4. CASE spc = "marker" /\ flash' = [flash EXCEPT ![target].marker = TRUE]
    <2>1. /\ flash' \in [SlotNames -> Slot]
          /\ Holds(flash'[target], req)
          /\ flash'[target].crc = req.name
          /\ flash'[other] = flash[other]
      BY <1>4, MarkerCompletes
    <2>2. \A x \in SlotNames : flash'[x].crc <= made
      BY <2>1, TwoSlotNames, TypeFacts DEF NamesInOrder
    <2>3. SlotsAreGenuine'
      BY <2>1, TwoSlotNames DEF SlotsAreGenuine, Holds, FlashFails
    <2>. QED  BY <2>1, <2>2, <2>3
  <1>. QED  BY <1>1, <1>2, <1>3, <1>4 DEF FlashFails

LEMMA FlashFailsStep ==
  ASSUME IInv, FlashFails
  PROVE  IInv'
  <1> USE DEF IInv
  <1>1. StoreTypeOK'
    <2>1. flash' \in [SlotNames -> Slot] /\ NoRequest \in Request
      BY FlashFailsSlots, SlotTypes
    <2>2. /\ spc' = "get" /\ acked' = NoRequest /\ fails' = fails + 1
          /\ use_slot_a' = ~use_slot_a
          /\ UNCHANGED <<storeQ, applyQ, k, req, active, made, past, resets>>
      BY DEF FlashFails, NextSlot
    <2>. QED  BY <2>1, <2>2 DEF StoreTypeOK
  <1>2. NamesInOrder'
    BY FlashFailsSlots DEF FlashFails, NamesInOrder
  <1>. QED  BY <1>1, <1>2, FlashFailsSlots DEF FlashFails, WriteInOrder, AckedInOtherSlot

LEMMA PutApplyStep ==
  ASSUME IInv, PutApply
  PROVE  IInv'
  <1> USE DEF IInv, PutApply
  <1>1. /\ applyQ' \in Seq(Config) /\ Len(applyQ') = Len(applyQ) + 1
        /\ Len(applyQ) \in Nat
    BY AppendProperties, LenProperties, SlotTypes, TypeFacts DEF StoreTypeOK
  <1>2. StoreTypeOK'
    BY <1>1, Constants DEF StoreTypeOK
  <1>. QED  BY <1>2 DEF NamesInOrder, SlotsAreGenuine, WriteInOrder, AckedInOtherSlot

LEMMA ControlStep ==
  ASSUME IInv, Control
  PROVE  IInv'
  <1> USE DEF IInv, Control
  <1>1. /\ applyQ' \in Seq(Config) /\ Len(applyQ') = Len(applyQ) - 1
        /\ Len(applyQ) \in Nat /\ active' \in Config
    BY HeadTailProperties, LenProperties DEF StoreTypeOK
  <1>2. StoreTypeOK'
    BY <1>1, Constants DEF StoreTypeOK
  <1>. QED  BY <1>2 DEF NamesInOrder, SlotsAreGenuine, WriteInOrder, AckedInOtherSlot,
                        target

LEMMA SubmitStep ==
  ASSUME IInv, NEW v \in 1 .. MaxVersion, Submit(v)
  PROVE  IInv'
  <1> USE DEF IInv, Submit
  <1>1. [name |-> made + 1, version |-> v] \in Request
    BY TypeFacts DEF Request
  <1>2. /\ storeQ' \in Seq(Request) /\ Len(storeQ') = Len(storeQ) + 1
        /\ \A i \in 1 .. Len(storeQ) : storeQ'[i] = storeQ[i]
        /\ storeQ'[Len(storeQ) + 1].name = made + 1
    BY <1>1, AppendProperties DEF StoreTypeOK
  <1>3. StoreTypeOK'
    BY <1>2, TypeFacts, Constants DEF StoreTypeOK
  <1>4. NamesInOrder'
    <2>1. ASSUME NEW i \in 1 .. Len(storeQ')
          PROVE  /\ storeQ'[i].name \in 1 .. made'
                 /\ req.name < storeQ'[i].name
                 /\ \A r \in past : r.name < storeQ'[i].name
                 /\ \A j \in 1 .. Len(storeQ') : j < i => storeQ'[j].name < storeQ'[i].name
      <3>1. CASE i = Len(storeQ) + 1
        <4>1. storeQ'[i].name = made + 1
          BY <1>2, <3>1
        <4>2. \A j \in 1 .. Len(storeQ') : j < i =>
                j \in 1 .. Len(storeQ) /\ storeQ'[j] = storeQ[j] /\ storeQ[j].name \in 1 .. made
          BY <1>2, <3>1, TypeFacts DEF NamesInOrder
        <4>. QED  BY <4>1, <4>2, TypeFacts DEF NamesInOrder
      <3>2. CASE i \in 1 .. Len(storeQ)
        <4>1. /\ storeQ'[i] = storeQ[i]
              /\ \A j \in 1 .. Len(storeQ') : j < i =>
                   j \in 1 .. Len(storeQ) /\ storeQ'[j] = storeQ[j]
          BY <1>2, <3>2, TypeFacts
        <4>. QED  BY <4>1, <3>2, TypeFacts DEF NamesInOrder
      <3>. QED  BY <1>2, <3>1, <3>2, TypeFacts
    <2>2. \A r \in past : r.name <= made'
      BY TypeFacts DEF NamesInOrder
    <2>3. ASSUME NEW x \in SlotNames PROVE flash[x].crc <= made'
      <3>1. flash[x].crc <= made
        BY DEF NamesInOrder
      <3>2. flash[x] \in Slot
        BY DEF StoreTypeOK
      <3>3. flash[x].crc \in Nat /\ made \in Nat /\ made' = made + 1
        BY <3>2, TypeFacts, SlotTypes
      <3>. QED  BY <3>1, <3>3
    <2>4. req.name <= made'
      BY TypeFacts DEF NamesInOrder
    <2>. QED  BY <2>1, <2>2, <2>3, <2>4 DEF NamesInOrder
  <1>. QED  BY <1>3, <1>4 DEF SlotsAreGenuine, WriteInOrder, AckedInOtherSlot, target

LEMMA ResetStep ==
  ASSUME IInv, Reset
  PROVE  IInv'
  <1> USE DEF IInv, Reset
  <1>1. /\ flash' \in [SlotNames -> Slot]
        /\ \A x \in SlotNames : flash'[x].crc <= made
        /\ \A x \in SlotNames :
             config_slot_read(flash'[x]) /\ flash'[x].version # BlankVersion =>
               config_slot_read(flash[x]) /\ ConfigIn(flash'[x]) = ConfigIn(flash[x])
    <2>1. CASE flash' = flash
      BY <2>1 DEF StoreTypeOK, NamesInOrder
    <2>2. CASE /\ TornErase
               /\ \E slot \in PartlyErased(flash[target]) :
                    flash' = [flash EXCEPT ![target] = slot]
      <3>1. PICK slot \in PartlyErased(flash[target]) :
                   flash' = [flash EXCEPT ![target] = slot]
        BY <2>2
      <3>2. slot \in Slot /\ (slot.crc = flash[target].crc \/ slot.crc = 0)
        BY PartlyErasedTypes, TypeFacts
      <3>3. flash'[target] = slot /\ flash'[other] = flash[other]
            /\ flash' \in [SlotNames -> Slot]
        BY <3>1, <3>2, TwoSlotNames DEF StoreTypeOK
      <3>4. config_slot_read(slot) /\ slot.version # BlankVersion =>
              config_slot_read(flash[target]) /\ ConfigIn(slot) = ConfigIn(flash[target])
        BY <3>1, PartlyErasedLoads, TypeFacts
      <3>5. \A x \in SlotNames : flash'[x].crc <= made
        BY <3>2, <3>3, TwoSlotNames, TypeFacts DEF NamesInOrder
      <3>. QED  BY <3>3, <3>4, <3>5, TwoSlotNames
    <2>. QED  BY <2>1, <2>2
  <1>2. /\ past' \in SUBSET Request /\ past \subseteq past'
        /\ past' \subseteq past \union {req}
        /\ req # NoRequest => req \in past'
    BY TypeFacts DEF StoreTypeOK
  <1>3. active' \in Config
    <2>1. (config_load_or_default \in Config)'
      BY <1>1, SlotTypes DEF config_load_or_default, SlotNames
    <2>. QED  BY <2>1
  <1>4. storeQ' = <<>> /\ applyQ' = <<>> /\ Len(storeQ') = 0 /\ Len(applyQ') = 0
        /\ storeQ' \in Seq(Request) /\ applyQ' \in Seq(Config)
    BY EmptySeq
  <1>5. StoreTypeOK'
    BY <1>1, <1>2, <1>3, <1>4, SlotTypes, Constants DEF StoreTypeOK
  <1>6. NamesInOrder'
    <2>1. \A r \in past' : r.name <= made
      BY <1>2 DEF NamesInOrder
    <2>2. req'.name = 0
      BY DEF NoRequest
    <2>. QED  BY <1>1, <1>4, <2>1, <2>2, TypeFacts DEF NamesInOrder
  <1>7. SlotsAreGenuine'
    <2>1. \A slot : config_slot_read(slot) => ConfigIn(slot) # ConfigOf(NoRequest)
      BY DEF config_slot_read, ConfigIn, ConfigOf, NoRequest, Blank
    <2>2. ASSUME NEW x \in SlotNames, config_slot_read(flash'[x]),
                 flash'[x].version # BlankVersion
          PROVE  \E r \in past' \union {req'} : ConfigIn(flash'[x]) = ConfigOf(r)
      <3>1. /\ config_slot_read(flash[x]) /\ ConfigIn(flash'[x]) = ConfigIn(flash[x])
            /\ flash[x].version # BlankVersion
        BY <1>1, <2>2 DEF ConfigIn
      <3>. QED  BY <1>2, <2>1, <3>1 DEF SlotsAreGenuine
    <2>. QED  BY <2>2 DEF SlotsAreGenuine
  <1>. QED  BY <1>5, <1>6, <1>7 DEF WriteInOrder, AckedInOtherSlot

(* The invariant is inductive.                                             *)
LEMMA NextInv == IInv /\ [Next]_vars => IInv'
  <1> SUFFICES ASSUME IInv, [Next]_vars PROVE IInv'
    OBVIOUS
  <1>1. CASE UNCHANGED vars
    BY <1>1 DEF vars, ramVars, IInv, StoreTypeOK, NamesInOrder, SlotsAreGenuine,
                WriteInOrder, AckedInOtherSlot, target
  <1>2. CASE Storage
    BY <1>2, TakeRequestStep, EraseStep, ProgramWordStep, ProgramMarkerStep,
       FlashFailsStep, PutApplyStep DEF Storage
  <1>3. CASE \E v \in 1 .. MaxVersion : Submit(v)
    BY <1>3, SubmitStep
  <1>. QED  BY <1>1, <1>2, <1>3, ControlStep, ResetStep DEF Next

THEOREM StoreInductive == Spec => []IInv
  BY InitInv, NextInv, PTL DEF Spec

(* StoreTypeOK holds for every payload length and queue depth: neither     *)
(* queue overflows, and the task never programs past the slot.             *)
THEOREM StoreTypeCorrect == Spec => []StoreTypeOK
  <1>1. IInv => StoreTypeOK
    BY DEF IInv
  <1>. QED  BY <1>1, StoreInductive, PTL

(* LoadsWhole: whatever fails and whenever a reset comes, and even if an   *)
(* erase is cut short, config_load_or_default finds a whole payload.       *)
THEOREM WholeCorrect == Spec => []LoadsWhole
  <1>1. IInv => LoadsWhole
    <2> SUFFICES ASSUME IInv PROVE LoadsWhole
      OBVIOUS
    <2>1. ASSUME NEW x \in SlotNames, config_slot_read(flash[x])
          PROVE  LET c == ConfigIn(flash[x]) IN
                 c.payload = Whole(c.crc) /\ c.crc \in 1 .. made
      <3>1. flash[x].crc \in Nat /\ flash[x].crc <= made /\ made \in Nat
        BY SlotTypes, TypeFacts DEF IInv, StoreTypeOK, NamesInOrder
      <3>. QED  BY <2>1, <3>1 DEF config_slot_read, ConfigIn, Blank
    <2>2. Default.payload = Whole(Default.crc) /\ Default.crc = Zeros
      BY DEF Default
    <2>. QED  BY <2>1, <2>2 DEF LoadsWhole, config_load_or_default, SlotNames
  <1>. QED  BY <1>1, StoreInductive, PTL

(* AckedSurvives: the configuration stored last is safe from the write     *)
(* that follows it, whatever erases of earlier sessions have left, as long *)
(* as they left no slot without its version.                               *)
THEOREM AckedCorrect == Spec => []AckedSurvives
  <1>1. IInv => AckedSurvives
    <2> SUFFICES ASSUME IInv, acked # NoRequest,
                        \A r \in past : r.name < acked.name => r.version < acked.version,
                        VersionsIntact
                 PROVE  config_load_or_default \in {ConfigOf(acked), ConfigOf(req)}
      BY DEF AckedSurvives
    <2> DEFINE t == flash[target]
               o == flash[other]
    <2>1. config_slot_read(o) /\ ConfigIn(o) = ConfigOf(acked) /\ o.version = acked.version
      BY DEF IInv, AckedInOtherSlot, Holds, ConfigIn, ConfigOf, other
    <2>2. CASE ~config_slot_read(t)
      BY <2>1, <2>2 DEF config_load_or_default, target, other
    <2>3. CASE config_slot_read(t)
      <3>1. PICK r \in past \union {req} : ConfigIn(t) = ConfigOf(r)
        BY <2>3, TwoSlotNames DEF IInv, SlotsAreGenuine, VersionsIntact
      <3>2. config_load_or_default \in {ConfigIn(t), ConfigIn(o)}
        BY <2>1, <2>3 DEF config_load_or_default, target, other
      <3>3. CASE r \in {acked, req}
        BY <2>1, <3>1, <3>2, <3>3
      <3>4. CASE r \notin {acked, req}
        <4>1. r \in past /\ r.name < acked.name
          BY <3>4 DEF IInv, AckedInOtherSlot, NamesInOrder
        <4>2. r.version < acked.version /\ t.version = r.version
          BY <3>1, <4>1 DEF ConfigIn, ConfigOf
        <4>3. r.version \in Nat /\ acked.version \in Nat
          BY <4>1, TypeFacts DEF IInv
        <4>4. config_load_or_default = ConfigIn(o)
          BY <2>1, <2>3, <4>2, <4>3 DEF config_load_or_default, target, other
        <4>. QED  BY <2>1, <4>4
      <3>. QED  BY <3>3, <3>4
    <2>. QED  BY <2>2, <2>3
  <1>. QED  BY <1>1, StoreInductive, PTL

=============================================================================
