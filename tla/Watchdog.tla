------------------------------ MODULE Watchdog ------------------------------
(***************************************************************************)
(* Task heartbeats and the task that watches them: task_heartbeat_kick,    *)
(* publish_event and StartHealthWatchdogTask of main.c, with the stores    *)
(* that the control and the master task make to the same status.           *)
(*                                                                         *)
(* The watchdog has the lowest priority of the tasks on one core, so any   *)
(* of the others may run whole between two of its loads and stores, never  *)
(* the reverse.  Its own loop, once a second, is the clock of the model: a *)
(* task that is not stuck sets its bit after at least MinGap[t] and at     *)
(* most MaxGap[t] snapshots.                                               *)
(***************************************************************************)
EXTENDS Naturals

CONSTANTS MinGap, MaxGap,   \* snapshots between two heartbeats of a task
          Grace,            \* snapshots before the watchdog judges (5)
          MissLimit,        \* misses in a row that make an alarm (3)
          Fragile,          \* the tasks that may get stuck
          Width,            \* values of the event counters (2^32)
          MaxSilence        \* bound: longer silences are not told apart

Tasks == {"control", "modbus", "storage"}

ASSUME WatchdogAssumption ==
  /\ MinGap \in [Tasks -> Nat]
  /\ MaxGap \in [Tasks -> Nat \ {0}]
  /\ Grace \in Nat
  /\ MissLimit \in Nat \ {0}
  /\ Fragile \subseteq Tasks
  /\ Width \in Nat \ {0}
  /\ MaxSilence \in Nat
  /\ MaxSilence > MissLimit
  /\ \A t \in Tasks : MaxSilence >= MinGap[t] /\ MaxSilence >= MaxGap[t]

Codes == {"none", "CFG_APPLIED", "CTRL_SYNC_FAIL", "WDG_MISS"}

AtMost(n, limit) == IF n <= limit THEN n ELSE limit

(* The counters wrap.                                                      *)
Succ(n) == (n + 1) % Width

VARIABLES
  g_watchdog_flags,
  hung,              \* the tasks that are stuck
  silence,           \* snapshots since the last heartbeat of a task
  wpc,               \* where the watchdog is
  age,               \* snapshots taken, up to those that matter
  snapshot_flags, miss_streak, miss_latched,
  g_next_event_id, events_generated_count, last_error_code,
  tmp,               \* the register in which the watchdog increments
  published,         \* history: calls of publish_event, counted as they are
  overlapped,        \* history: one has come inside one of the watchdog's
  code_at_wake       \* history: last_error_code at the last snapshot

taskVars == <<g_watchdog_flags, hung, silence>>
wdgVars == <<age, snapshot_flags, miss_streak, miss_latched, tmp>>
statusVars == <<g_next_event_id, events_generated_count, last_error_code>>
histVars == <<published, overlapped, code_at_wake>>
vars == <<taskVars, wpc, wdgVars, statusVars, histVars>>

Publishing == {"store_id", "store_code", "load_count", "store_count"}
Places == {"sample", "judge", "alarm", "load_id", "compare", "erase"} \union Publishing

WatchdogTypeOK ==
  /\ g_watchdog_flags \in SUBSET (Tasks \union {"watchdog"})
  /\ hung \in SUBSET Tasks
  /\ silence \in [Tasks -> 0 .. MaxSilence]
  /\ wpc \in Places
  /\ age \in 0 .. Grace + MissLimit
  /\ snapshot_flags \in SUBSET (Tasks \union {"watchdog"})
  /\ miss_streak \in 0 .. MissLimit
  /\ miss_latched \in BOOLEAN
  /\ {g_next_event_id, events_generated_count, tmp, published} \subseteq 0 .. Width - 1
  /\ overlapped \in BOOLEAN
  /\ {last_error_code, code_at_wake} \subseteq Codes

Init ==
  /\ g_watchdog_flags = {}
  /\ hung = {}
  /\ silence = [t \in Tasks |-> MinGap[t]]
  /\ wpc = "sample"
  /\ age = 0
  /\ snapshot_flags = {}
  /\ miss_streak = 0
  /\ miss_latched = FALSE
  /\ g_next_event_id = Succ(0)
  /\ events_generated_count = 0
  /\ last_error_code = "none"
  /\ tmp = 0
  /\ published = 0
  /\ overlapped = FALSE
  /\ code_at_wake = "none"

-----------------------------------------------------------------------------
(* The watched tasks, all of a higher priority than the watchdog.          *)

(* A task that is not stuck sets its bit.                                  *)
task_heartbeat_kick(t) ==
  /\ t \notin hung
  /\ silence[t] >= MinGap[t]
  /\ g_watchdog_flags' = g_watchdog_flags \union {t}
  /\ silence' = [silence EXCEPT ![t] = 0]
  /\ UNCHANGED <<hung, wpc, wdgVars, statusVars, histVars>>

(* The control task has a configuration in force and publishes the event,  *)
(* to the end before any task here can run.                                *)
ConfigApplied ==
  /\ "control" \notin hung
  /\ g_next_event_id' = Succ(g_next_event_id)
  /\ last_error_code' = "CFG_APPLIED"
  /\ events_generated_count' = Succ(events_generated_count)
  /\ published' = Succ(published)
  /\ overlapped' = (overlapped \/ wpc \in Publishing)
  /\ UNCHANGED <<taskVars, wpc, wdgVars, code_at_wake>>

(* The master task has failed to hand a request on.                        *)
SyncFailed ==
  /\ "modbus" \notin hung
  /\ last_error_code' = "CTRL_SYNC_FAIL"
  /\ UNCHANGED <<taskVars, wpc, wdgVars, g_next_event_id, events_generated_count, histVars>>

(* Fault: a task gets stuck (on a full queue, on a line that is never      *)
(* silent) and perhaps comes back.                                         *)
Hang(t) ==
  /\ t \in Fragile
  /\ hung' = hung \union {t}
  /\ UNCHANGED <<g_watchdog_flags, silence, wpc, wdgVars, statusVars, histVars>>

Resume(t) ==
  /\ t \in hung
  /\ hung' = hung \ {t}
  /\ UNCHANGED <<g_watchdog_flags, silence, wpc, wdgVars, statusVars, histVars>>

-----------------------------------------------------------------------------
(* The watchdog, StartHealthWatchdogTask.                                  *)

Goto(place) == wpc' = place

(* A second has passed, in which every task that is due has run.           *)
Sample ==
  /\ wpc = "sample"
  /\ \A t \in Tasks \ hung : silence[t] < MaxGap[t]
  /\ silence' = [t \in Tasks |-> AtMost(silence[t] + 1, MaxSilence)]
  /\ snapshot_flags' = g_watchdog_flags
  /\ g_watchdog_flags' = {}
  /\ age' = AtMost(age + 1, Grace + MissLimit)
  /\ code_at_wake' = last_error_code
  /\ Goto("judge")
  /\ UNCHANGED <<hung, miss_streak, miss_latched, tmp, statusVars, published, overlapped>>

(* The pass ends: the watchdog sets its own bit and sleeps.                *)
Done ==
  /\ g_watchdog_flags' = g_watchdog_flags \union {"watchdog"}
  /\ Goto("sample")

(* Within the grace period: nothing is judged.                             *)
InGrace ==
  /\ wpc = "judge"
  /\ age <= Grace
  /\ Done
  /\ UNCHANGED <<hung, silence, wdgVars, statusVars, histVars>>

(* Seeded bug: a miss is counted only while no bit is set at all.          *)
MissedIfSilent ==
  snapshot_flags \intersect Tasks = {}

Missed == ~ (Tasks \subseteq snapshot_flags)

(* A window without the bit of some task.                                  *)
Miss ==
  /\ wpc = "judge"
  /\ age > Grace
  /\ Missed
  /\ miss_streak' = AtMost(miss_streak + 1, MissLimit)
  /\ IF miss_streak' >= MissLimit
       THEN Goto("alarm") /\ UNCHANGED g_watchdog_flags
       ELSE Done
  /\ UNCHANGED <<hung, silence, age, snapshot_flags, miss_latched, tmp, statusVars, histVars>>

(* The code is stored in every such window, the event published once.      *)
Alarm ==
  /\ wpc = "alarm"
  /\ last_error_code' = "WDG_MISS"
  /\ IF miss_latched THEN Done ELSE Goto("load_id") /\ UNCHANGED g_watchdog_flags
  /\ UNCHANGED <<hung, silence, wdgVars, g_next_event_id, events_generated_count, histVars>>

(* publish_event, load by load and store by store.                         *)
LoadId ==
  /\ wpc = "load_id"
  /\ tmp' = g_next_event_id
  /\ published' = Succ(published)
  /\ Goto("store_id")
  /\ UNCHANGED <<taskVars, age, snapshot_flags, miss_streak, miss_latched, statusVars,
                 overlapped, code_at_wake>>

StoreId ==
  /\ wpc = "store_id"
  /\ g_next_event_id' = Succ(tmp)
  /\ Goto("store_code")
  /\ UNCHANGED <<taskVars, wdgVars, events_generated_count, last_error_code, histVars>>

StoreCode ==
  /\ wpc = "store_code"
  /\ last_error_code' = "WDG_MISS"
  /\ Goto("load_count")
  /\ UNCHANGED <<taskVars, wdgVars, g_next_event_id, events_generated_count, histVars>>

LoadCount ==
  /\ wpc = "load_count"
  /\ tmp' = events_generated_count
  /\ Goto("store_count")
  /\ UNCHANGED <<taskVars, age, snapshot_flags, miss_streak, miss_latched, statusVars, histVars>>

(* Seeded bug: the count is taken from the number of the event.            *)
CountIds ==
  events_generated_count' = g_next_event_id

Increment ==
  events_generated_count' = Succ(tmp)

StoreCount ==
  /\ wpc = "store_count"
  /\ Increment
  /\ miss_latched' = TRUE
  /\ Done
  /\ UNCHANGED <<hung, silence, age, snapshot_flags, miss_streak, tmp, g_next_event_id,
                 last_error_code, histVars>>

(* Seeded bug: the latch is not released.                                  *)
StayLatched ==
  UNCHANGED miss_latched

Release ==
  miss_latched' = FALSE

(* A window with the bits of all tasks.                                    *)
Healthy ==
  /\ wpc = "judge"
  /\ age > Grace
  /\ ~Missed
  /\ miss_streak' = 0
  /\ Release
  /\ Goto("compare")
  /\ UNCHANGED <<taskVars, age, snapshot_flags, tmp, statusVars, histVars>>

(* Seeded bug: the code is cleared whatever it is.                         *)
ClearAny ==
  TRUE

OwnCode ==
  last_error_code = "WDG_MISS"

(* The code is compared, then, if it is the watchdog's own, cleared: two   *)
(* accesses, between which another task may store one.                     *)
Compare ==
  /\ wpc = "compare"
  /\ IF OwnCode THEN Goto("erase") /\ UNCHANGED g_watchdog_flags ELSE Done
  /\ UNCHANGED <<hung, silence, wdgVars, statusVars, histVars>>

Erase ==
  /\ wpc = "erase"
  /\ last_error_code' = "none"
  /\ Done
  /\ UNCHANGED <<hung, silence, wdgVars, g_next_event_id, events_generated_count, histVars>>

WatchdogTask ==
  \/ Sample \/ InGrace \/ Miss \/ Alarm \/ LoadId \/ StoreId \/ StoreCode
  \/ LoadCount \/ StoreCount \/ Healthy \/ Compare \/ Erase

-----------------------------------------------------------------------------

Next ==
  \/ WatchdogTask
  \/ \E t \in Tasks : task_heartbeat_kick(t) \/ Hang(t) \/ Resume(t)
  \/ ConfigApplied
  \/ SyncFailed

Spec == Init /\ [][Next]_vars

(* Every task loops for ever, and those watched sleep in every round, so   *)
(* that the watchdog has its turn.                                         *)
FairSpec ==
  /\ Spec
  /\ WF_vars(WatchdogTask)
  /\ \A t \in Tasks : WF_vars(task_heartbeat_kick(t))

-----------------------------------------------------------------------------
(***************************************************************************)
(* Properties                                                              *)
(***************************************************************************)

(* A task that has set no bit in MissLimit whole windows is reported by    *)
(* the end of the last of them, whatever the others do.  (The first one    *)
(* of the MissLimit + 1 snapshots may still hold its last bit.)            *)
DeadTaskReported ==
  (wpc = "sample" /\ age >= Grace + MissLimit) =>
    \A t \in Tasks : silence[t] > MissLimit => miss_latched

(* An error that another task has stored before the watchdog woke up is    *)
(* never erased by the pass that follows: it stays or is replaced by a     *)
(* newer one.                                                              *)
StandingErrorStays ==
  code_at_wake \notin {"none", "WDG_MISS"} => last_error_code # "none"

(* The event counters count every event, one by one, unless an event of    *)
(* the control task has come between a load and a store of the watchdog's  *)
(* own publish_event, which nothing excludes (main.c:289-291).             *)
CountIsExact ==
  (~overlapped /\ wpc \notin Publishing \union {"load_id"}) =>
    /\ events_generated_count = published
    /\ g_next_event_id = Succ(published)

(* An alarm ends: once no task is stuck any more the latch is released in  *)
(* the end, so that the next outage publishes an event of its own.         *)
AlarmEnds ==
  <>[](hung = {}) => []<>(~miss_latched)

(* gh_runtime_state.h:17 gives the heartbeat a period of 1000 ms, which is *)
(* the watchdog's window: while every task runs as it should, there is no  *)
(* WATCHDOG_MISS (docs/event_codes.md:8).                                  *)
HealthyIsQuiet ==
  [](last_error_code # "WDG_MISS")

-----------------------------------------------------------------------------
(***************************************************************************)
(* The inductive invariant behind the three safety properties (proved in   *)
(* WatchdogProofs).                                                        *)
(***************************************************************************)

(* A task has a bit only if it has been heard of since the last snapshot.  *)
BitsAreFresh ==
  \A t \in Tasks : silence[t] > 0 => t \notin g_watchdog_flags

(* The streak is at least as long as the silence of any task, not counting *)
(* the window of its last bit and those within the grace period.           *)
StreakCovers ==
  \A t \in Tasks, n \in 1 .. MissLimit :
    (silence[t] > n /\ age >= Grace + n) =>
      IF wpc = "judge" THEN miss_streak >= n - 1 /\ t \notin snapshot_flags
                       ELSE miss_streak >= n

LatchFollowsStreak ==
  (wpc \in {"sample", "judge", "compare", "erase"} /\ miss_streak >= MissLimit) => miss_latched

ErrorStands ==
  code_at_wake \notin {"none", "WDG_MISS"} =>
    /\ last_error_code # "none"
    /\ wpc \in {"judge", "compare"} => last_error_code # "WDG_MISS"
    /\ wpc # "erase"

CountsInStep ==
  ~overlapped =>
    /\ published = IF wpc \in Publishing THEN Succ(events_generated_count)
                                         ELSE events_generated_count
    /\ g_next_event_id = Succ(IF wpc = "store_id" THEN events_generated_count ELSE published)
    /\ wpc = "store_id" => tmp = g_next_event_id
    /\ wpc = "store_count" => tmp = events_generated_count

IInv ==
  /\ WatchdogTypeOK
  /\ BitsAreFresh
  /\ StreakCovers
  /\ LatchFollowsStreak
  /\ ErrorStands
  /\ CountsInStep

=============================================================================
