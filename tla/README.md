# GreenhouseOS: TLA+ models and proofs

GreenhouseOS is the firmware of a greenhouse master (STM32F407, FreeRTOS, lwIP).  It polls up
to 20 RS485 slaves over Modbus RTU, publishes what it reads in a register map that a SCADA
client reads over Modbus TCP, and brings the setpoints that the client writes to the slaves.
Beside that it keeps a configuration in two slots of internal flash, and watches its own tasks.

This directory holds TLA+ models of it, TLC runs on small instances, and proofs checked by
TLAPS.  `PROJECT.json` lists, for every definition, the source lines it models, and for every
property a bug in the code (an operator beside the definition it changes) that breaks it.

## 1. The system

All paths are under `src/`.

| Component | Code | State | Operations |
|---|---|---|---|
| Register map | `Core/Src/gh_modbus_map.c` | `s_holding` (20 blocks of 64 registers), `s_last_ok_ms` | telemetry, timeout, diagnostics, ages, apply request, apply result |
| RTU master task | `Core/Src/gh_modbus_master.c` | loop position, the request copied | one cycle over slaves 1..20 every 5 s |
| RTU exchange | `Core/Src/gh_modbus_io.c` | UART, direction pin | drain, transmit, receive with 300 ms timeout, check |
| Modbus TCP server | `Core/Src/Modbus.c`, `gh_modbus_tcp_server.c` | one connection slot, frame buffer, pointer to `s_holding` | accept, receive, validate, FC3/FC6/FC16, reply |
| Configuration store | `Core/Src/gh_config_storage.c`, `main.c:129-282` | two flash slots, `use_slot_a`, two queues | store, load at boot |
| Control task | `main.c:555-570` | `g_active_config` | take a stored configuration |
| Health watchdog | `main.c:587-634` | task bits, miss streak, latch | check once a second |
| Ethernet interface | `LWIP/Target/ethernetif.c`, over `stm32f4xx_hal_eth.c` | descriptor rings, receive pool, link state | input, output, link supervision |
| Vendored code | `Drivers/`, `Middlewares/` | | not modelled, but for the rings of the Ethernet driver |

How they interact.  The RTU master task and the TCP task have the same priority and share
`s_holding` with **no common lock**: the server takes a semaphore that nobody else takes
(`Modbus.c:806`), and works on the raw array it got from `GH_ModbusMap_GetBackingStore`.  The
only agreement between them is an order of stores: the client stores setpoints and then
`APPLY_TRIGGER`; the master loads the trigger first, copies the setpoints, writes them to the
slave one register at a time, and then stores `LAST_APPLIED_TRIGGER`; sensors are stored before
`DATA_VERSION` goes up.  The storage task and the control task communicate through
`qConfigApply`; the producer of `qConfigStore` is not in this program.  All tasks report to the
watchdog with bits, and write `g_status.last_error_code`.  The stack, the `EthIf` thread, the
link thread and the DMA share descriptor rings and the receive pool, also without a lock.

What is hard about it, and what makes each part correct:

* **Register map, master, server** (interleaving of two tasks store by store, lost responses,
  retry, restarts): an acknowledged trigger means that the slave has the setpoints; a slave
  never acts on a mixture; a version or an acknowledgement never runs ahead of the data it
  announces; no slave starves another; status and age of a block tell the truth.
* **RTU exchange** (late responses, damage, collisions): a response is taken for the request it
  answers, and a late one does not put the master out of step for good.
* **TCP connection** (one slot, aging, framing) and **checks** (8- and 16-bit arithmetic): a
  client that went away frees the slot; requests are executed in their order, on the registers
  that are meant.
* **Configuration store** (reset between two flash words, failing flash operations, stale
  choice of the slot): what is loaded is whole; what was stored is not lost by storing the next.
* **Watchdog** (windows against periods, check-then-clear of shared state): a dead task is
  reported, no other error is erased, events are counted.
* **Ethernet interface** (pool and rings at their limits, loss and return of the link): a
  buffer has one owner, reception goes on after the pool was empty, transmission ends.

`PROJECT.json` lists the hazards at their lines, with the properties that cover them or the
reason why none does.

## 2. Modules

| Module | Models | Extends |
|---|---|---|
| `ModbusMap` | the register map; one operator per register store | |
| `RtuMaster` | `GH_ModbusMasterTask_Run` with the map functions it calls, and the slaves | `ModbusMap` |
| `TcpServer` | the processing of FC3, FC6, FC16 by the TCP task | `ModbusMap` |
| `SetpointSync` | the composition with a client; the properties; the inductive invariants | `RtuMaster`, `TcpServer` |
| `ApplyHandshake` | the abstract promise of the apply registers; `SetpointSync` implements it | |
| `RtuTransaction` | the exchanges of the master byte by byte, with faults | |
| `PollCycle` | the cycle of the master against the clock; status and age of a block | |
| `TcpSession` | the connection slot of the server, with a client and the stack | |
| `RequestChecks` | translation, sizes and range checks of the server, in 8 and 16 bits | |
| `ConfigStore` | flash slots, storage task, control task, boot | |
| `Watchdog` | heartbeats, `publish_event`, the watchdog task | |
| `EthTx` | `low_level_output`, the transmit ring, the link thread | |
| `EthRx` | receive pool, `EthIf` thread, receive ring, link thread | |
| `MCSetpointSync`, `MCWatchdog` | values for TLC that a cfg cannot write | |
| `SetpointSyncProofs` | theorems about `SetpointSync`, `ApplyHandshake` among them | `SetpointSync` |
| `ConfigStoreProofs`, `WatchdogProofs`, `EthTxProofs`, `EthRxProofs`, `PollCycleProofs`, `RtuTransactionProofs` | theorems about the module named | that module |
| `TcpProofs` | theorems about the two modules of the server's front | `TcpSession`, `RequestChecks` |

The master appears in four modules, each with one side of it: what it does to the map
(`RtuMaster`, where an exchange succeeds or fails), on the line (`RtuTransaction`), to the clock
(`PollCycle`) and to the watchdog (`Watchdog`).  The outcomes of `RtuMaster`'s exchanges are
those `RtuTransaction` shows possible: an answer accepted is the answer to that request, and a
failed one may have been acted on.  The gap between two heartbeats that `Watchdog` assumes of the
master is the one `BeatInTime` bounds in `PollCycle`.  Likewise the server: `TcpSession` brings
requests in order, `RequestChecks` decides where they are executed, `TcpServer` executes them
store by store.

### SetpointSync and what it is made of

The unit of atomicity is one 16-bit load or store of `s_holding`, because that is all the
Cortex-M4 guarantees between two tasks that preempt each other.  `pc`, `cur`, `k` and `req` are
the position of the master in its loop body, the slave, the index in the copy or write sequence,
and its `gh_slave_apply_request_t`.  `tcp` and `reply` are the frame in process and the part of
the FC3 reply built so far: `process_FC3` loads each register twice, once per byte
(`Modbus.c:1888-1890`), so a sensor appears as two bytes in a reply.  `lost`, `dirty`,
`samples` and `acks` are history variables, read by the properties only.

Values are names.  The n-th vector of setpoints has the value n in each register and is committed
by the trigger n, so a mixture shows in the values.  A sample of the sensors is named by the
version that is to publish it.

An exchange on the bus succeeds, or fails with the slave having acted or not (`WriteFails`): the
second case is a lost response, after which `apply_ok` is false although the slave has stored the
register, or even acted on the trigger.  `SlaveTakes`, `SlaveRestart` and the `Send*` actions are
external: they model the slave firmware and the client from how the code uses them.

Assumptions about the client.  It gives its triggers in increasing order, writes each trigger
after its setpoints, and writes no registers but these (the server would let it write any).  It
does not use the broadcast address, to which a read would not be answered.  A
request that is lost with its connection before the server has read it is one that was not sent.
A `Patient` client also waits until a reply shows its last trigger in `LAST_APPLIED_TRIGGER`
before it stores the next vector.

Left out: valid mask, output mask and error registers, which influence none of the modelled
ones.  Versions stay below 256, so the wrap of 16-bit counters is not covered, and neither is the
torn load of a version's two bytes.

`ApplyHandshake` says what a client may rely on without knowing of tasks, copies or bus: a block,
the last trigger asked for and the last one acknowledged, and what the slave holds.  The slave
changes only while a request is pending, triggers are acknowledged in ascending order, and the
last one only with the block in force.  `SetpointSync` maps its registers to it; the copy, the
order of writes and the failures are stutters or its `Begin` and `Deliver` steps.

### RtuTransaction

One step is a byte that arrives, an answer that begins, or a step of the master: `uart_drain_rx`,
`Transmit`, `Check` (all bytes are there) or `Timeout`.  The order of the requests is that of the
loop body.  A byte is named by the answer it belongs to and its place there, or is noise; CRC,
slave, function, length and register checks together are `IsAnswer`: the bytes are a whole answer
of this slave to a request like this one.  That is weaker than "to this request" because nothing
on the line says which request an answer is for.  `DR` is the one byte that the UART keeps while
nobody reads.  Answers may be late by any number of requests below `MaxBehind`, come on top of
each other, be damaged or lost.

### PollCycle

Each exchange is reduced to how long it takes: `Slow` (request and timeout) for a slave that is
absent or silent, less for others.  One slave, `Watched`, has its block; the rest contribute
their time only.  `tick` is `HAL_GetTick` with its width, `last_ok_ms`, `status` and `age_sec` are
what `gh_modbus_map.c` computes from it, `true_age`, `heard` and `beat` are the clock that the
properties compare with.  The master is assumed never to be kept from running for a whole tick.

### TcpSession

One slot (`NUMBERTCPCONN` is 1), with connection and aging counter, the receive queue of each
connection as a sequence of network buffers, and one client that opens, closes, forgets and
reopens connections and numbers its requests over all of them.  A buffer holds one request, two,
or a fragment (which never looks like a request).  A request is executed, refused with an
exception, or, as a read in a broadcast (`Broadcasts`), ignored; only a broadcast gets no
answer.  A reset marks a connection `dead`, and `netconn_err` reports it once (`pending_err`), as
`Modbus.c:594` reads it.

### RequestChecks

`TCPwaitConnData`, `validateRequest` and the head of the three functions with their casts: 8-bit
sizes and quantities, 16-bit addresses, C `int` sums.  A request is whole, has as many data as
its quantity says, and is a broadcast or not.  The reference is `addr_to_index` of
`gh_modbus_map.c`, which gives every address below the number of registers, and the same from
41000 on, one register.

### ConfigStore

`flash[x]` is a slot: version, CRC, payload, marker, in the order in which they are programmed.
`config_slot_read` and `config_load_or_default` are operators on it; `Erase`, `ProgramWord` and
`ProgramMarker` are the operations of `config_write_to_slot`, each of which may fail
(`FlashFails`) with its work done or not.  `Reset` may come between any two of them; with
`TornErase` it (and a failing erase) may leave any part of the old contents.  `TakeRequest` and
`PutApply` are the ends of the storage task's loop, `Control` is the control task.

The payload and the CRC of a request are its name, so that "the CRC matches" means that every
word is of that request.  Its version is any number.  The header fields `len` (the same in each
slot) and `seq` (never read) are left out.  The producer computes its CRC correctly; the code
does not compare it with the payload before it stores and applies a request.

### Watchdog

The watchdog has the lowest priority of all tasks, so the others may run whole between any two of
its loads and stores, never the reverse; each load and store of it is a step, the others' calls
are one step each.  Its own snapshots, one a second, are the clock: a task that is not stuck sets
its bit after at least `MinGap` and at most `MaxGap` snapshots.  Tasks of `Fragile` may get stuck
at any time, and come back.  Event counters wrap at `Width`.

### EthTx and EthRx

Both model `ethernetif.c` together with the ring functions of the HAL driver below it
(`HAL_ETH_Transmit_IT`, `HAL_ETH_ReleaseTxPacket`, `HAL_ETH_ReadData`, `ETH_UpdateDescriptor`,
`HAL_ETH_Start_IT`, `HAL_ETH_Stop_IT`), because the two cannot be understood apart, and the DMA.

`EthTx` has two threads that call `low_level_output`: the one that holds the core lock of the
stack, and the link thread, which sends a gratuitous ARP request without that lock whenever the
link has come back (`Report`; `ethernetif.c:868-869` by way of `netif.c`), has the lower priority
and runs while the other is idle or waits.  A frame takes its descriptors one by one (`TakeFirst`,
`TakeNext`); if one is missing those taken are given back (`RollBack`).  Setting the OWN bit of
the first (`Give`) and noting the frame (`Publish`) are two steps, for the DMA may send it in
between.  `overlapped` remembers whether a call began during another.

In `EthRx` the `EthIf` thread has the highest priority and runs until it waits; only the DMA goes
on beside it.  Threads of the stack free buffers (`pbuf_free_custom`, in its four accesses), the
link thread rebuilds the ring step by step.  `rushed` remembers whether the link came back
while descriptors waited for buffers.  A frame fits one buffer (`ETH_RX_BUF_SIZE` is 1536).

## 3. What the runs check

| Run | Properties | Shows |
|---|---|---|
| `sync_any` | `TypeOK`, `AppliedMeansInSync`, `AckIsTrue`, `ImplementsHandshake`, `RequestIsAcknowledged` | the acknowledgement is true for any client, the handshake is implemented, absent slaves do not starve the others |
| `sync_patient` | `ActivatesWholeVectors`, `VersionPromise` | no slave acts on a mixture; DATA_VERSION can be relied on |
| `resync` | `ResyncAfterRecovery`, violated | finding 1 |
| `store_safe` | `LoadsWhole`, `AckedSurvives`, `StoredIsApplied` | a boot loads a whole payload or the default; a stored configuration survives the next write, and comes into force |
| `store_two_slots` | `TwoSlots`, violated | finding 2 |
| `wdg_safe` | `DeadTaskReported`, `StandingErrorStays`, `CountIsExact`, `AlarmEnds` | a stuck task is reported in time, no other error is erased, events are counted, the latch is released |
| `eth_tx` | `NoUseAfterFree`, `ReferencesBalance`, `SentInOrder`, `OkMeansSent`, `CallReturnsLinked` | until two calls overlap, frames are freed once and not too early, and what was accepted is sent, whole and in order; a call returns while the link stays |
| `eth_rx` | `NoLeak`, `OneOwner`, `HeldIsStable`, `DeliveredInOrder`, `ExhaustionEndsUnrushed`, `StoredIsReadLinked` | buffers have one owner, reception goes on after exhaustion |
| `rtu` | `AnswerIsOwn`, `FaultsStayInCycle`, `ExchangesReturn` | no answer is taken for another's; a late one does harm for a cycle at most |
| `poll_safe` | `HeardInTime`, `BeatInTime`, `OnlineIsRecent`, `AgeIsClose` | slaves and watchdog hear from the master in time; status and age tell the truth |
| `tcp` | `ExecutedInOrder`, `AnswersFit`, `OnlyIdleDropped`, `WaitingAccepted`, `LoneRequestAnswered` | order of execution over connections; the slot becomes free; who asks is answered |
| `requests` | `StaysInMap`, `AnswerIsWhole`, `SameAddresses` | requests reach the registers that are meant, or are refused; broadcast reads are ignored |

Notes on some of them.

* `AppliedMeansInSync`: if `LAST_APPLIED_TRIGGER = APPLY_TRIGGER`, no setpoint was stored since
  the trigger, and the slave did not restart since the master last began writing to it, then the
  slave holds the setpoints of the block.
* `AckIsTrue`: `LAST_APPLIED_TRIGGER` moves only forward, to a trigger the slave is acting on.
* `ActivatesWholeVectors` needs the patient client: with any other one the copy in
  `GH_ModbusMap_GetApplyRequest` can be a mixture, which is put right only by the next trigger.
* `VersionPromise`: FC3 loads the version *after* the sensors, so the version in a reply says
  nothing about the sensors in the same reply.  What holds is that a reply is at least as new, in
  every byte, as what the version in the *previous* reply announced; and that the
  `LAST_APPLIED_TRIGGER` in a reply is at least what the version in that reply announced, since
  that register is loaded after the version.
* `AckedSurvives` is conditional as the code is: within one session, without failed writes, for a
  version above the earlier ones, and as long as no erase that was cut short has cleared the
  version of a slot and nothing else.  The CRC does not cover the version, an erased one is
  0xFFFFFFFF, the largest, and such a slot outranks the other at every boot; without
  `VersionsIntact` in the property TLC finds this case.
* `CountIsExact` excepts the case that `publish_event` of the control task comes inside the
  watchdog's own: that increment can be lost, and nothing in `main.c:289-291` excludes it.
* `StandingErrorStays` speaks of errors that stood when the watchdog woke up; one stored between
  its comparison and its store (`main.c:626-628`) is erased.
* `AnswerIsOwn` needs that no answer is a whole cycle late (`MaxBehind < 2 * NumSlaves`): nothing
  in an answer says which request of that kind it is for.
* `FaultsStayInCycle`: one late answer makes the next exchange read it in place of its own, whose
  answer is then late in turn, so that requests to healthy slaves fail one after the other.  The
  drain before a request ends that often, and the pause between two cycles ends it if no answer
  is outstanding any more when the next cycle begins: an exchange fails only if there was a fault
  since the last cycle that began so.
* `AgeIsClose` excepts a read at tick 0, which stands for never, and an age of more than a whole
  round of the tick counter (49 days): the code cannot tell these.
* `NoUseAfterFree`, `ReferencesBalance`, `SentInOrder` and `OkMeansSent` hold through full rings
  and a loss of the link, and after its return, until a call begins during another (`overlapped`).
  That happens when the stack preempts the link thread in the call for its ARP request, or when
  the link thread makes that call while the stack waits for the semaphore.  Then the two share
  `TxConfig` and the indices of the ring, and without the condition TLC finds each of the four
  violated (`TxRace.cfg` in section 5 has the last of them).
* `DeliveredInOrder`, `StoredIsReadLinked` and `CallReturnsLinked` are about a link that stays
  (`drops = 0`); when it drops, unread frames are overwritten or left behind.  `NoLeak` holds
  across its loss and return, `OneOwner`, `HeldIsStable` and `ExhaustionEndsUnrushed` until it
  comes back while descriptors wait for buffers (`rushed`; section 5 says what happens then).
* `LoneRequestAnswered` excepts broadcasts (unit id 0): the server ignores a read in one, executes
  a write, and answers neither (`Modbus.c:822-826`, `1648-1655`).

Bounds.

* `sync_any`: two slaves, the first of which never answers, and two setpoints (two is the least
  that can be mixed), two vectors, two failed writes (one in each of two attempts), a restart and
  a reboot.  `sync_patient`: two sensors and two setpoints, so both the sensor loop and the copy
  loop can be interrupted in their middle, and two versions and two vectors, so that there is an
  older one to mix in: 5.6 million states.
* `store_safe`: two words of payload, four requests of three versions, so that both slots are
  written twice, one failed operation, one reset, erases that are cut short anywhere.
* `wdg_safe`: the limits of the firmware, but for a grace period of one window (5 in the code):
  three misses make an alarm, the master has five or six windows between its bits, the others at
  most one.  Control and master task may get stuck at any moment and come back.  Counters of one
  bit wrap at once.
* `eth_tx`: the firmware's four descriptors, four frames of one to three buffers, so that the
  ring fills, wraps, and is found full half way through a frame, whatever the frames before it;
  one loss of the link, whose ARP request is one of the frames.
* `eth_rx`: two descriptors and three buffers are the least for a ring that wraps and a pool that
  runs empty while the stack holds frames; two threads that free them, four frames (one more than
  there are buffers), one loss of the link.
* `rtu`: two slaves and one write make cycles of four to six requests; nine of them are more than
  one whole cycle, with three faults of any kind at any place.
* `poll_safe`: three slaves, one absent, the one watched after it; a period of 14 ticks that
  cycles with and without apply requests fall short of and exceed; a tick counter of 40 values
  wraps, and an age that fills its register saturates.
* `tcp`: three connections and three requests, alone, joined and split, the second of them a
  broadcast, a reset, two connections waiting, an idle limit of two timeouts.
* `requests`: the firmware's 1280 registers; every boundary of addresses, quantities and lengths,
  one below and one above, as broadcasts and not.

Deadlock is checked in the `sync`, `wdg`, `poll` and `tcp` runs; the others stop when their
frames, requests or faults are used up.

Fairness.  `RequestIsAcknowledged` assumes weak fairness of the master task and of the TCP task,
and nothing of client, slaves or bus, except that the number of failed writes is bounded
(`MaxFaults`): a bus that fails for ever acknowledges nothing.  Both tasks have
`osPriorityNormal`, the kernel slices time between tasks of one priority, and each of their waits
has a timeout (300 ms for a response, 1 ms for a connection, the receive timeout for a request).
`StoredIsApplied` assumes weak fairness of the storage task and the control task; the latter has
the highest application priority.  `AlarmEnds` assumes it of the watchdog and of the heartbeat of
each task: they loop for ever and sleep in every round.  `CallReturnsLinked` assumes it of the
DMA and of each thread that transmits, `ExhaustionEndsUnrushed` and `StoredIsReadLinked` of
`EthIf`, of the threads that free what they got, and of the link thread's rebuilding; none
assumes that a link that was lost comes back to `EthTx`, or that frames come.  `ExchangesReturn`
assumes it of the master, of bytes on the line, and of slaves that heard a request; stray bytes
are bounded: the drain of `gh_modbus_io.c:56` has no limit against a line that is never silent.
`WaitingAccepted` and `LoneRequestAnswered` assume it of the server only.

The type invariant of each module but `SetpointSync` (whose `TypeOK` is in `sync_any`) is proved
for all constants (section 4) instead of being in a run.

## 4. What is proved

Checked by TLAPS for all values of the constants, from the assumptions named in the modules
(`MapAssumption`, `BusAssumption`, `ClientAssumption`, `StoreAssumption`, `WatchdogAssumption`,
`EthTxAssumption`, `EthRxAssumption`, `TransactionAssumption`, `CycleAssumption`,
`SessionAssumption`, `ChecksAssumption`).  TLC checked each inductive invariant first.  With this
every safety property of the passing runs is proved; where the property itself has a condition on
the constants, the theorem states it as its hypothesis.  Conditions on the history (no call during
another, no link that came back while descriptors waited) are part of the properties themselves.

* `SetpointSyncProofs`: `TypeCorrect`, `SyncCorrect`, `AckCorrect` for `TypeOK`,
  `AppliedMeansInSync` and `AckIsTrue`.  The first two are invariants, `AckIsTrue` is an action
  property that follows from the same invariant `IInv` (`Inductive`).  `AppliedMeansInSync` says
  nothing of the time between the copy and the acknowledgement, so it is not inductive.  `IInv`
  adds: triggers on their way are newer than the one in the map, which is not behind the one
  acknowledged (`TriggersAreFresh`), so that a trigger seen twice has not changed in between; the
  request in process is pending (`RequestIsPending`); while its trigger is still the one in the
  map and no setpoint was stored since, the copy made so far is what is in the map
  (`CopyIsCurrent`); and the slave has the registers written so far (`SlaveHasWrites`).  At
  `MarkApplyResult` the last two together give the conclusion.  `VersionCorrect`, in the same
  module, is for `VersionPromise`, from `IInv` and `VInv`: no version that anyone has read is
  ahead of the map (`VersionsInStep`), a sample is published or the one on its way
  (`SamplesInStep`), sensors are as new as every published sample (`SensorsAreNew`), and the part
  of a reply that has been built keeps the promise (`ReplyIsNew`).  `HandshakeCorrect` says that
  `SetpointSync` implements `ApplyHandshake`: initial states map to initial states and, under
  `IInv`, every action to an abstract step or a stutter.  `WholeVectorsCorrect` is for
  `ActivatesWholeVectors` with a `Patient` client, from `IInv` and `PInv`, which follows a vector
  from the client to the slave: no reply on its way shows more than the map (`RepliesAreOld`),
  what the client waits for is the trigger it sent last (`WantIsKnown`), it touches a block only
  while nothing is pending there (`TouchedAtRest`), so a block that is not being stored holds one
  vector (`BlockIsWhole`), and so does the copy made so far (`RequestIsWhole`).  Without the
  patient client `TouchedAtRest` fails, and with it the property.
* `ConfigStoreProofs`: `StoreTypeCorrect`, `WholeCorrect` and `AckedCorrect` for `StoreTypeOK`,
  `LoadsWhole` and `AckedSurvives`, with erases that are cut short.  The invariant says that names
  are taken in order and every CRC in flash is that of a request (`NamesInOrder`), that the words
  programmed so far are those of the request while the marker is not set (`WriteInOrder`), that a
  slot that loads with its version holds some request (`SlotsAreGenuine`; what is left of an erase
  that can still be loaded is the slot that was there, `PartlyErasedLoads`), and that the request
  stored last is in the slot that is not the target (`AckedInOtherSlot`).
* `WatchdogProofs`: `DeadTaskCorrect`, `StandingErrorCorrect`, `CountCorrect` and the types, for
  any gaps, limits and widths.  `IInv` links what a property compares at the end of a pass to
  every place in it: a bit is there only if its task was heard of since the snapshot
  (`BitsAreFresh`), the streak is as long as the silence of any task (`StreakCovers`), the latch
  follows the streak, a standing error stands (`ErrorStands`), the two counters are in step but
  for the increment under way (`CountsInStep`).
* `EthTxProofs`: the types, and `ReferencesBalance`, `NoUseAfterFree`, `SentInOrder` and
  `OkMeansSent`, for any ring, frames and losses of the link, with the ARP request after each.
  The theorems have no hypothesis beside `Spec`; their condition, that no call has begun during
  another, is the history `overlapped` in the properties.  What is proved inductive is
  `UntilOverlap`: until then one thread at most is in its call, with the latest frame
  (`OneCaller`).  The ring is a queue: the descriptors from the one the DMA looks at to the one
  filled next hold frames in the order of the calls, buffer after buffer, and so do those a frame
  has taken so far (`InQueue`), a frame is noted for its release once, at one of the last
  `BuffersInUse` descriptors (`NotedInUse`), nothing goes out that was not given (`WireIsGiven`),
  and a frame has one reference exactly while `low_level_output` is at it or a descriptor notes
  it (`Referenced`).
* `EthRxProofs`: the types and `NoLeak` for any ring, pool, number of threads and any link;
  `OneOwner` and `HeldIsStable`, which speak of the time until the link comes back while
  descriptors wait (`rushed`).  The invariant for the latter says that the descriptors to build
  are exactly those without a buffer, and are the ones read last (`IndicesInStep`), that the DMA
  owns only descriptors with a buffer (`OwnedIsAttached`), and that reader and rebuilding exclude
  each other (`ReaderIsAlone`).  `DeliveredInOrder`, while the link stays, needs in addition that
  the DMA fills the ring from the reader's index on without a gap, each frame newer than the one
  before and than all that were delivered (`FramesInOrder`).
* `RtuTransactionProofs`: the types; `AnswerIsOwn` for any number of slaves, writes, requests and
  faults, provided that no answer is a whole cycle late (`MaxBehind < 2 * NumSlaves`; TLC finds
  the counterexample at `MaxBehind = 2 * NumSlaves`); `FaultsStayInCycle` without a condition.
  For the former: each read has its place in the cycle (`Turn`), and a request whose answer is
  still out is behind the current one by at least the distance of their places (`Behind`).  Two
  requests that an answer cannot tell apart are thus at least a cycle apart, and bytes older than
  `MaxBehind` are gone (`AnswersLag`).  For the latter: as long as no fault has come since the
  last clean start of a cycle, the line holds nothing but the answer to the request just sent, as
  far as it has come (`Clean`).
* `PollCycleProofs`: `HeardCorrect`, `BeatCorrect`, `OnlineCorrect` and the types for any number
  of slaves, durations and tick width.  `CycleInv` bounds the time since the start of the cycle,
  the last request and the last heartbeat by the position in the loop.  `AgeCorrect` is for
  `AgeIsClose`: the tick is that of the last answer plus the true age, or that less one round
  (`TickInStep`), so the difference modulo the width is the true age, and the quotient stored in
  the last cycle is short of it by the time since then (`AgeInCycle`).  `FirmwareHeard` puts in
  the numbers of the firmware (20 slaves, 308 ms for an exchange that fails, six writes, a period
  of 5 s): with at most four apply requests in a cycle every slave hears from the master within
  the 30 s after which it goes its own way (`docs/master_slave_autonomy_v2.md:9`).
* `TcpProofs`, about `TcpSession`: `ExecutionInOrder`, `AnswersBelong`, `IdleOnes` for
  `ExecutedInOrder`, `AnswersFit`, `OnlyIdleDropped`, and the types, for any number of
  connections, requests and timeouts.  The connections are accepted as they were opened
  (`AcceptedInOrder`), what is unread in each is ascending (`UnreadInOrder`) and later than all
  that was executed and than what is unread in connections before (`UnreadIsLater`), the request
  in hand comes before all of it (`RequestInHand`), a connection closed as idle is not read again
  (`DroppedAreGone`), and the aging counter does not run ahead of the silence (`AgingIsQuiet`).
* `TcpProofs`, about `RequestChecks`: `InMapCorrect`, `WholeCorrect`, `SameCorrect` and the types
  for every address and quantity of 16 bits, broadcast or not, and every map of up to 32765
  registers.  The invariant
  says what is known of a request at each place; the limits checked before are what keeps the
  8-bit sizes whole.  (With more registers `2 * n + 5` could come round in 16 bits, hence the
  assumption.)

Only model-checked: liveness, which is out of the prover's reach (`RequestIsAcknowledged`,
`StoredIsApplied`, `AlarmEnds`, `CallReturnsLinked`, `ExhaustionEndsUnrushed`,
`StoredIsReadLinked`, `ExchangesReturn`, `WaitingAccepted`, `LoneRequestAnswered`).  The findings
of section 5 are counterexamples and have nothing to prove.

## 5. Findings

Two runs of the project expect a violation:

1. **No resynchronisation** (`resync`).  `docs/master_firmware_tz_rs485_control.md:53` requires
   that the master synchronises the REMOTE setpoints again after communication is restored.
   `GH_ModbusMap_GetApplyRequest` (`gh_modbus_map.c:230`) hands out a request only while the two
   triggers differ, and the master neither looks for a restart nor clears the acknowledgement on
   a timeout.  A slave that restarted keeps its defaults until the client writes a new trigger.
2. **Two slots, one configuration** (`store_two_slots`).  `docs/config_payload_v1.md:13` gives
   the configuration two slots.  `use_slot_a` is a local variable that starts TRUE at every boot
   (`gh_config_storage.c:11`), so after one write and a restart the next write erases the only
   configuration there is; a reset at that moment boots the default of zeros.

The regular runs of the other modules keep to the conditions under which the code is right.  What
happens outside them is kept in a cfg of its own, each with the one property it violates:

| Config (module) | Property | What TLC shows |
|---|---|---|
| `WdgHealthy.cfg` (`MCWatchdog`) | `HealthyIsQuiet` | The watchdog takes the bits every 1000 ms and reports `WDG_MISS` after three windows without one (`main.c:608-617`), the master sets its bit once in a cycle of 5000 ms (`gh_modbus_master.c:119`): with no task stuck, every cycle raises the alarm.  `gh_runtime_state.h:17` gives the heartbeat 1000 ms. |
| `PollPace.cfg` (`PollCycle`) | `PeriodKept` | Nine absent slaves cost two timeouts each, and the cycle exceeds the 5 s of `docs/master_protocol.md:22`. |
| `TxHang.cfg` (`EthTx`) | `CallReturns` | After the ring was full once, `HAL_ETH_ERROR_BUSY` stays set; with the driver stopped by the link thread, `low_level_output` (`ethernetif.c:460`) repeats for as long as the link is away, with the core lock held.  `ethernetif.c:406-407` knows two outcomes only. |
| `TxHeld.cfg` (`EthTx`) | `SentIsReleased` | Sent frames are freed only when a later call finds the ring full (`ethernetif.c:464`); `tcp_out.c:1423` does not retransmit a segment that the driver still references. |
| `TxRace.cfg` (`EthTx`) | `OkIsGoing` | The ARP request of the link thread shares the global `TxConfig` with the call that preempts it: one frame is handed over twice, the other never (`ethernetif.c:445`). |
| `RxTwice.cfg` (`EthRx`) | `EachHasOneOwner` | `HAL_ETH_Start_IT` (`stm32f4xx_hal_eth.c:777`) resets the count of descriptors to build and not their index; if the link comes back while descriptors wait for buffers, a pbuf goes to the stack twice. |
| `RxStuck.cfg` (`EthRx`) | `ExhaustionEnds` | The link thread finds the pool empty; before it stores `RX_ALLOC_ERROR` (`ethernetif.c:901`) the stack frees its last buffer: nothing resets the status any more and reception ends for good. |
| `RxWake.cfg` (`EthRx`) | `StoredIsRead` | `HAL_ETH_Start_IT` enables the interrupts before it stores its state (`stm32f4xx_hal_eth.c:815`): a frame that comes in between stays unread until another one comes. |

## 6. Not modelled

* Coils (FC1, FC2, FC5, FC15): they work on the same array but are not documented operations.
  (Their range check counts the words of the quantity from the word of the first coil, so that a
  request which begins inside a word can end one register behind those checked.)
* Error counters of `GH_ModbusMap_UpdateDiag` and `ReportTimeout` (one is incremented by the
  latter and overwritten by the former), the values in `g_sensors` and in `g_status` other than
  `last_error_code`: nothing in the program reads them.
* `apply_control_to_slave`, `modbus_write_multiple_holding_registers`, the serial half and the
  client of the Modbus library: nothing calls them.
* The byte count of a write against its quantity, which the server does not compare
  (`Modbus.c:2040`).
* The search for the PHY and the MAC configuration at start, clock and peripheral set-up,
  interrupt glue: hardware configuration and generated code.
* HAL (but for the Ethernet rings), CMSIS, FreeRTOS, lwIP and the PHY driver: vendored, taken for
  what they promise.  They are nearly all of the lines under `src/`; the share of the whole that
  the models stand for is small for that reason, that of the program's own code is not.
* What the code cannot know and no document settles: the client that writes a trigger equal to
  the acknowledged one is ignored; a reboot forgets the setpoints, and a trigger alone then sends
  zeros; a slave that restarts between two writes of a request gets the rest of them and the
  trigger.  The properties except these cases by name (`lost`, ascending triggers).

## 7. What is left

In the order of what it would add: an abstract configuration cell that a session of
`ConfigStore` implements, with the refinement proved; a proof that the outcomes which `RtuMaster`
gives an exchange are those of `RtuTransaction`; and the coils, should they become documented
operations.
