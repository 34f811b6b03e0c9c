----------------------------- MODULE ConfigStore -----------------------------
(***************************************************************************)
(* The configuration store: two slots in flash (config_write_to_slot,      *)
(* config_slot_read, config_load_or_default of main.c), the task that      *)
(* writes them (gh_config_storage.c), and the control task that puts a     *)
(* stored configuration into force.                                        *)
(*                                                                         *)
(* A request for a configuration has a name n: every word of its payload   *)
(* has the value n and so has its CRC, which makes a mixture of two        *)
(* payloads visible.  The version is whatever the request says.            *)
(*                                                                         *)
(* Flash survives a reset, the queues and variables in RAM do not.  A      *)
(* reset may come between any two steps, and any step on the flash may     *)
(* fail.  The header fields len, the same in every slot, and seq, which    *)
(* nothing reads, are left out.                                            *)
(***************************************************************************)
EXTENDS Naturals, Sequences

CONSTANTS NumWords,     \* words of a payload (32)
          QueueDepth,   \* qConfigStore and qConfigApply (4)
          TornErase,    \* whether an erase that is cut short leaves a part
          MaxRequests,  \* bound: requests
          MaxVersion,   \* bound: versions of requests
          MaxFails,     \* bound: flash operations that fail
          MaxResets     \* bound: resets

ASSUME StoreAssumption == /\ NumWords \in Nat \ {0}
                          /\ QueueDepth \in Nat \ {0}
                          /\ TornErase \in BOOLEAN
                          /\ {MaxRequests, MaxVersion, MaxFails, MaxResets} \subseteq Nat

Words == 1 .. NumWords
SlotNames == {"A", "B"}

Blank == 0                        \* an erased word of payload or CRC
Zeros == MaxRequests + 1          \* the payload of the default configuration
BlankVersion == MaxVersion + 1    \* an erased version: 0xFFFFFFFF, the largest

Whole(n) == [w \in Words |-> n]

Config == [version : Nat, crc : Nat, payload : [Words -> Nat]]
Slot == [version : Nat, crc : Nat, payload : [Words -> Nat], marker : BOOLEAN]
Request == [name : Nat, version : Nat]

BlankSlot == [version |-> BlankVersion, crc |-> Blank, payload |-> Whole(Blank),
              marker |-> FALSE]

ConfigOf(r) == [version |-> r.version, crc |-> r.name, payload |-> Whole(r.name)]
Default == [version |-> 1, crc |-> Zeros, payload |-> Whole(Zeros)]

NoRequest == [name |-> 0, version |-> 0]

VARIABLES
  flash,       \* flash[x]: what slot x holds
  storeQ,      \* qConfigStore
  applyQ,      \* qConfigApply
  use_slot_a,  \* the slot that the storage task writes next
  spc,         \* where the storage task is
  k,           \* the word that it programs next
  req,         \* the request in process
  active,      \* g_active_config
  made,        \* requests made so far, the name of the last one
  past,        \* history: the requests taken before req
  acked,       \* history: the request stored last, if no flash operation has
               \* failed and no reset has come since; otherwise NoRequest
  fails, resets

ramVars == <<storeQ, applyQ, use_slot_a, spc, k, req, active>>
vars == <<flash, ramVars, made, past, acked, fails, resets>>

StoreTypeOK ==
  /\ flash \in [SlotNames -> Slot]
  /\ storeQ \in Seq(Request)
  /\ Len(storeQ) <= QueueDepth
  /\ applyQ \in Seq(Config)
  /\ Len(applyQ) <= QueueDepth
  /\ use_slot_a \in BOOLEAN
  /\ spc \in {"get", "erase", "program", "marker", "put"}
  /\ k \in 1 .. NumWords + 3
  /\ req \in Request
  /\ active \in Config
  /\ made \in Nat
  /\ past \in SUBSET Request
  /\ acked \in Request
  /\ fails \in Nat
  /\ resets \in Nat

-----------------------------------------------------------------------------
(* Seeded bug: a slot with a marker is taken as it is, its CRC unchecked.  *)
ReadUnchecked(slot) ==
  slot.marker

(* config_slot_read: whether a slot holds a configuration.  The CRC of a   *)
(* payload of erased words is not an erased word.                          *)
config_slot_read(slot) ==
  /\ slot.marker
  /\ slot.crc # Blank
  /\ slot.payload = Whole(slot.crc)

ConfigIn(slot) ==
  [version |-> slot.version, crc |-> slot.crc, payload |-> slot.payload]

(* What config_load_or_default makes of the two slots.                     *)
config_load_or_default ==
  LET a == flash["A"]
      b == flash["B"]
      useB == config_slot_read(b) /\ (config_slot_read(a) => b.version >= a.version)
  IN  IF useB THEN ConfigIn(b)
      ELSE IF config_slot_read(a) THEN ConfigIn(a)
      ELSE Default

Init ==
  /\ flash = [x \in SlotNames |-> BlankSlot]
  /\ storeQ = <<>>
  /\ applyQ = <<>>
  /\ use_slot_a = TRUE
  /\ spc = "get"
  /\ k = 1
  /\ req = NoRequest
  /\ active = config_load_or_default
  /\ made = 0
  /\ past = {}
  /\ acked = NoRequest
  /\ fails = 0
  /\ resets = 0

-----------------------------------------------------------------------------
(* The storage task, GH_ConfigStorageTask_Run.                             *)

target == IF use_slot_a THEN "A" ELSE "B"

(* It takes a request from qConfigStore.                                   *)
TakeRequest ==
  /\ spc = "get"
  /\ storeQ # <<>>
  /\ req' = Head(storeQ)
  /\ storeQ' = Tail(storeQ)
  /\ past' = IF req = NoRequest THEN past ELSE past \union {req}
  /\ spc' = "erase"
  /\ UNCHANGED <<flash, applyQ, use_slot_a, k, active, made, acked, fails, resets>>

(* An erase cut short: each field that is read is erased or still there.   *)
PartlyErased(slot) ==
  {[version |-> v, crc |-> c, payload |-> p, marker |-> m] :
     v \in {slot.version, BlankVersion}, c \in {slot.crc, Blank},
     p \in {q \in [Words -> {slot.payload[w] : w \in Words} \union {Blank}] :
              \A w \in Words : q[w] \in {slot.payload[w], Blank}},
     m \in {slot.marker, FALSE}}

(* HAL_FLASHEx_Erase succeeds.                                             *)
Erase ==
  /\ spc = "erase"
  /\ flash' = [flash EXCEPT ![target] = BlankSlot]
  /\ k' = 1
  /\ spc' = "program"
  /\ UNCHANGED <<storeQ, applyQ, use_slot_a, req, active, made, past, acked, fails, resets>>

(* What the n-th word programmed makes of a slot: the version, the CRC,    *)
(* the payload.                                                            *)
Programmed(slot, n) ==
  CASE n = 1 -> [slot EXCEPT !.version = req.version]
    [] n = 2 -> [slot EXCEPT !.crc = req.name]
    [] n > 2 -> [slot EXCEPT !.payload[n - 2] = req.name]

(* flash_write_words programs the header, then the payload.                *)
ProgramWord ==
  /\ spc = "program"
  /\ flash' = [flash EXCEPT ![target] = Programmed(@, k)]
  /\ k' = k + 1
  /\ spc' = IF k = NumWords + 2 THEN "marker" ELSE spc
  /\ UNCHANGED <<storeQ, applyQ, use_slot_a, req, active, made, past, acked, fails, resets>>

(* Seeded bug: the next write goes to the same slot.                       *)
SameSlot ==
  UNCHANGED use_slot_a

(* use_slot_a = !use_slot_a, whatever became of the write.                 *)
NextSlot ==
  use_slot_a' = ~use_slot_a

(* The marker is programmed last, and the write has succeeded.             *)
ProgramMarker ==
  /\ spc = "marker"
  /\ flash' = [flash EXCEPT ![target].marker = TRUE]
  /\ NextSlot
  /\ acked' = req
  /\ spc' = "put"
  /\ UNCHANGED <<storeQ, applyQ, k, req, active, made, past, fails, resets>>

(* A flash operation fails, having done its work or not (or, an erase, a   *)
(* part of it), and the request is dropped.                                *)
FlashFails ==
  /\ spc \in {"erase", "program", "marker"}
  /\ fails < MaxFails
  /\ fails' = fails + 1
  /\ \/ UNCHANGED flash
     \/ /\ spc = "erase"
        /\ \E slot \in IF TornErase THEN PartlyErased(flash[target]) ELSE {BlankSlot} :
             flash' = [flash EXCEPT ![target] = slot]
     \/ /\ spc = "program"
        /\ flash' = [flash EXCEPT ![target] = Programmed(@, k)]
     \/ /\ spc = "marker"
        /\ flash' = [flash EXCEPT ![target].marker = TRUE]
  /\ NextSlot
  /\ acked' = NoRequest
  /\ spc' = "get"
  /\ UNCHANGED <<storeQ, applyQ, k, req, active, made, past, resets>>

(* Seeded bug: the put does not wait for room.                             *)
PutOrDrop ==
  /\ spc = "put"
  /\ applyQ' = IF Len(applyQ) < QueueDepth THEN Append(applyQ, ConfigOf(req)) ELSE applyQ
  /\ spc' = "get"
  /\ UNCHANGED <<flash, storeQ, use_slot_a, k, req, active, made, past, acked, fails, resets>>

(* It hands a stored configuration on, and waits forever for room.         *)
PutApply ==
  /\ spc = "put"
  /\ Len(applyQ) < QueueDepth
  /\ applyQ' = Append(applyQ, ConfigOf(req))
  /\ spc' = "get"
  /\ UNCHANGED <<flash, storeQ, use_slot_a, k, req, active, made, past, acked, fails, resets>>

Storage ==
  \/ TakeRequest \/ Erase \/ ProgramWord \/ ProgramMarker \/ FlashFails \/ PutApply

(* The control task, StartControlTask, puts it into force.                 *)
Control ==
  /\ applyQ # <<>>
  /\ active' = Head(applyQ)
  /\ applyQ' = Tail(applyQ)
  /\ UNCHANGED <<flash, storeQ, use_slot_a, spc, k, req, made, past, acked, fails, resets>>

-----------------------------------------------------------------------------
(* Environment: the producer of qConfigStore, which is not in this program *)
(* yet; a put that finds the queue full waits.                             *)
Submit(v) ==
  /\ made < MaxRequests
  /\ Len(storeQ) < QueueDepth
  /\ made' = made + 1
  /\ storeQ' = Append(storeQ, [name |-> made + 1, version |-> v])
  /\ UNCHANGED <<flash, applyQ, use_slot_a, spc, k, req, active, past, acked, fails, resets>>

(* A reset.  It may cut an erase short.                                    *)
Reset ==
  /\ resets < MaxResets
  /\ resets' = resets + 1
  /\ \/ UNCHANGED flash
     \/ /\ TornErase
        /\ spc = "erase"
        /\ \E slot \in PartlyErased(flash[target]) :
             flash' = [flash EXCEPT ![target] = slot]
  /\ storeQ' = <<>>
  /\ applyQ' = <<>>
  /\ use_slot_a' = TRUE
  /\ spc' = "get"
  /\ k' = 1
  /\ req' = NoRequest
  /\ past' = IF req = NoRequest THEN past ELSE past \union {req}
  /\ active' = config_load_or_default'
  /\ acked' = NoRequest
  /\ UNCHANGED <<made, fails>>

Next ==
  \/ Storage
  \/ Control
  \/ \E v \in 1 .. MaxVersion : Submit(v)
  \/ Reset

Spec == Init /\ [][Next]_vars

(* Both tasks wait for messages in loops of their own, the control task at *)
(* a higher priority than all others.                                      *)
FairSpec == Spec /\ WF_vars(Storage) /\ WF_vars(Control)

-----------------------------------------------------------------------------
(***************************************************************************)
(* Properties                                                              *)
(***************************************************************************)

(* Whenever the power goes, and whatever an erase leaves behind, the boot  *)
(* loads the whole payload of one request, or the default: never a mixture *)
(* of two writes.  The marker programmed last cannot give that alone, for  *)
(* an erase that is cut short may leave the marker of the older contents.  *)
LoadsWhole ==
  /\ config_load_or_default.payload = Whole(config_load_or_default.crc)
  /\ config_load_or_default.crc \in 1 .. made \union {Zeros}

(* An erase that is cut short may clear no more than the version of a slot *)
(* (which its CRC does not cover): it then loads with the largest version. *)
VersionsIntact ==
  \A x \in SlotNames : config_slot_read(flash[x]) => flash[x].version # BlankVersion

(* The configuration stored last survives the next write: until a flash    *)
(* operation fails or the device restarts, a reset at any moment loads     *)
(* that configuration, or the one that the write under way is storing,     *)
(* provided that its version is above those of the requests before it and  *)
(* no slot has lost its version.                                           *)
AckedSurvives ==
  (/\ acked # NoRequest
   /\ \A r \in past : r.name < acked.name => r.version < acked.version
   /\ VersionsIntact)
    => config_load_or_default \in {ConfigOf(acked), ConfigOf(req)}

(* A configuration that was stored is put into force, unless another one   *)
(* is stored, a write fails or the device restarts before that.            *)
StoredIsApplied ==
  \A n \in 1 .. MaxRequests :
    (acked.name = n) ~> (active.crc = n \/ acked.name # n)

(* docs/config_payload_v1.md:13 gives the configuration two slots: while   *)
(* one of them is written the other one holds a configuration, so that a   *)
(* device that has a stored configuration never goes back to the default.  *)
TwoSlots ==
  [][(\E x \in SlotNames : config_slot_read(flash[x])) =>
       (\E x \in SlotNames : config_slot_read(flash'[x]))]_vars

-----------------------------------------------------------------------------
(***************************************************************************)
(* The inductive invariant behind LoadsWhole and AckedSurvives (proved in  *)
(* ConfigStoreProofs).                                                     *)
(***************************************************************************)

(* Requests are named in the order they are made, taken in that order, and *)
(* no slot has a CRC but that of a request.                                *)
NamesInOrder ==
  /\ req.name <= made
  /\ spc # "get" => req # NoRequest
  /\ \A r \in past : r.name <= made /\ (req # NoRequest => r.name < req.name)
  /\ req # NoRequest => req.name > 0
  /\ \A i \in 1 .. Len(storeQ) :
       /\ storeQ[i].name \in 1 .. made
       /\ req.name < storeQ[i].name
       /\ \A r \in past : r.name < storeQ[i].name
       /\ \A j \in 1 .. Len(storeQ) : j < i => storeQ[j].name < storeQ[i].name
  /\ \A x \in SlotNames : flash[x].crc <= made

Holds(slot, r) == config_slot_read(slot) /\ ConfigIn(slot) = ConfigOf(r)

(* A slot that can be loaded and has its version holds a configuration     *)
(* that was requested.                                                     *)
SlotsAreGenuine ==
  \A x \in SlotNames : config_slot_read(flash[x]) /\ flash[x].version # BlankVersion =>
    \E r \in past \union {req} : ConfigIn(flash[x]) = ConfigOf(r)

(* The words programmed so far are those of the request.                   *)
WriteInOrder ==
  spc \in {"program", "marker"} =>
    /\ spc = "program" => k \in 1 .. NumWords + 2
    /\ spc = "marker" => k = NumWords + 3
    /\ ~flash[target].marker
    /\ k > 1 => flash[target].version = req.version
    /\ k > 2 => flash[target].crc = req.name
    /\ \A w \in Words : w + 2 < k => flash[target].payload[w] = req.name

(* The request stored last is in the slot that is not the target, and is   *)
(* the one in process or, once another is, the latest of those before it.  *)
AckedInOtherSlot ==
  acked # NoRequest =>
    /\ Holds(flash[IF use_slot_a THEN "B" ELSE "A"], acked)
    /\ IF spc \in {"erase", "program", "marker"}
         THEN \A r \in past : r = acked \/ r.name < acked.name
         ELSE acked = req

IInv ==
  /\ StoreTypeOK
  /\ NamesInOrder
  /\ SlotsAreGenuine
  /\ WriteInOrder
  /\ AckedInOtherSlot

=============================================================================
