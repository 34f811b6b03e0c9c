--------------------------- MODULE WatchdogProofs ---------------------------
(***************************************************************************)
(* Proofs about Watchdog, for any heartbeat periods, grace period, limit   *)
(* of misses, width of the counters and set of tasks that get stuck.       *)
(***************************************************************************)
EXTENDS Watchdog, TLAPS

LEMMA Succs ==
  /\ 0 \in 0 .. Width - 1
  /\ \A n \in 0 .. Width - 1 : Succ(n) \in 0 .. Width - 1
  BY WatchdogAssumption DEF Succ

LEMMA AtMosts ==
  ASSUME NEW n \in Nat, NEW limit \in Nat
  PROVE  /\ AtMost(n, limit) \in 0 .. limit
         /\ AtMost(n, limit) <= n
         /\ n <= limit => AtMost(n, limit) = n
         /\ n > limit => AtMost(n, limit) = limit
  BY DEF AtMost

LEMMA Constants ==
  /\ Grace \in Nat /\ MissLimit \in Nat /\ MissLimit >= 1
  /\ MaxSilence \in Nat /\ MaxSilence > MissLimit
  /\ \A t \in Tasks : MinGap[t] \in 0 .. MaxSilence
  BY WatchdogAssumption

LEMMA InitIInv == Init => IInv
  <1>. SUFFICES ASSUME Init PROVE IInv
    OBVIOUS
  <1>1. WatchdogTypeOK
    <2>1. silence \in [Tasks -> 0 .. MaxSilence]
      BY Constants DEF Init
    <2>2. /\ age \in 0 .. Grace + MissLimit /\ miss_streak \in 0 .. MissLimit
          /\ {g_next_event_id, events_generated_count, tmp, published} \subseteq 0 .. Width - 1
      BY Succs, Constants DEF Init
    <2>3. miss_latched \in BOOLEAN /\ overlapped \in BOOLEAN
      BY DEF Init
    <2>. QED  BY <2>1, <2>2, <2>3 DEF Init, WatchdogTypeOK, Codes, Places
  <1>2. BitsAreFresh /\ LatchFollowsStreak /\ ErrorStands
    BY Constants DEF Init, BitsAreFresh, LatchFollowsStreak, ErrorStands
  <1>3. StreakCovers
    <2>1. \A n \in 1 .. MissLimit : ~(age >= Grace + n)
      BY Constants DEF Init
    <2>. QED  BY <2>1 DEF StreakCovers
  <1>4. CountsInStep
    BY DEF Init, CountsInStep, Publishing
  <1>. QED  BY <1>1, <1>2, <1>3, <1>4 DEF IInv

(* Every action keeps the types.                                           *)
LEMMA NextTypes == WatchdogTypeOK /\ [Next]_vars => WatchdogTypeOK'
  <1>. SUFFICES ASSUME WatchdogTypeOK, [Next]_vars PROVE WatchdogTypeOK'
    OBVIOUS
  <1>. USE DEF WatchdogTypeOK
  <1>1. ASSUME NEW t \in Tasks, task_heartbeat_kick(t) PROVE WatchdogTypeOK'
    BY <1>1, Constants DEF task_heartbeat_kick, wdgVars, statusVars, histVars
  <1>2. ASSUME NEW t \in Tasks, Hang(t) \/ Resume(t) PROVE WatchdogTypeOK'
    BY <1>2 DEF Hang, Resume, wdgVars, statusVars, histVars
  <1>3. CASE ConfigApplied
    BY <1>3, Succs DEF ConfigApplied, taskVars, wdgVars, Codes
  <1>4. CASE SyncFailed
    BY <1>4 DEF SyncFailed, taskVars, wdgVars, histVars, Codes
  <1>5. CASE Sample
    <2>1. silence' \in [Tasks -> 0 .. MaxSilence]
      <3>1. \A t \in Tasks : silence[t] + 1 \in Nat
        BY Constants
      <3>2. \A t \in Tasks : AtMost(silence[t] + 1, MaxSilence) \in 0 .. MaxSilence
        BY <3>1, AtMosts, Constants
      <3>. QED  BY <1>5, <3>2 DEF Sample
    <2>2. age' \in 0 .. Grace + MissLimit
      <3>1. age + 1 \in Nat /\ Grace + MissLimit \in Nat
        BY Constants
      <3>. QED  BY <1>5, <3>1, AtMosts DEF Sample
    <2>. QED  BY <1>5, <2>1, <2>2 DEF Sample, Goto, statusVars, Places
  <1>6. CASE InGrace
    BY <1>6 DEF InGrace, Done, Goto, wdgVars, statusVars, histVars, Places
  <1>7. CASE Miss
    <2>1. miss_streak' \in 0 .. MissLimit
      BY <1>7, AtMosts, Constants DEF Miss
    <2>. QED  BY <1>7, <2>1 DEF Miss, Done, Goto, statusVars, histVars, Places
  <1>8. CASE Alarm
    BY <1>8 DEF Alarm, Done, Goto, wdgVars, histVars, Places, Codes
  <1>9. CASE LoadId
    BY <1>9, Succs DEF LoadId, Goto, taskVars, statusVars, Places, Publishing
  <1>10. CASE StoreId
    BY <1>10, Succs DEF StoreId, Goto, taskVars, wdgVars, histVars, Places, Publishing
  <1>11. CASE StoreCode
    BY <1>11 DEF StoreCode, Goto, taskVars, wdgVars, histVars, Places, Publishing, Codes
  <1>12. CASE LoadCount
    BY <1>12 DEF LoadCount, Goto, taskVars, statusVars, histVars, Places, Publishing
  <1>13. CASE StoreCount
    BY <1>13, Succs DEF StoreCount, Increment, Done, Goto, histVars, Places
  <1>14. CASE Healthy
    <2>1. miss_streak' \in 0 .. MissLimit /\ wpc' \in Places
      BY <1>14, Constants DEF Healthy, Goto, Places
    <2>2. miss_latched' \in BOOLEAN
      BY <1>14 DEF Healthy, Release
    <2>. QED
      BY <1>14, <2>1, <2>2 DEF Healthy, taskVars, statusVars, histVars
  <1>15. CASE Compare
    BY <1>15 DEF Compare, Done, Goto, wdgVars, statusVars, histVars, Places
  <1>16. CASE Erase
    BY <1>16 DEF Erase, Done, Goto, wdgVars, histVars, Places, Codes
  <1>17. CASE UNCHANGED vars
    BY <1>17 DEF vars, taskVars, wdgVars, statusVars, histVars
  <1>. QED
    BY <1>1, <1>2, <1>3, <1>4, <1>5, <1>6, <1>7, <1>8, <1>9, <1>10, <1>11, <1>12, <1>13,
       <1>14, <1>15, <1>16, <1>17 DEF Next, WatchdogTask

(* The invariant for bits, streak and latch.                               *)
LEMMA NextStreak ==
  IInv /\ [Next]_vars => BitsAreFresh' /\ StreakCovers' /\ LatchFollowsStreak'
  <1>. SUFFICES ASSUME IInv, [Next]_vars
                PROVE  BitsAreFresh' /\ StreakCovers' /\ LatchFollowsStreak'
    OBVIOUS
  <1>. DEFINE Goal == BitsAreFresh' /\ StreakCovers' /\ LatchFollowsStreak'
  <1>0. WatchdogTypeOK /\ BitsAreFresh /\ StreakCovers /\ LatchFollowsStreak
    BY DEF IInv
  <1>t. /\ silence \in [Tasks -> 0 .. MaxSilence] /\ miss_streak \in 0 .. MissLimit
        /\ age \in 0 .. Grace + MissLimit
    BY <1>0 DEF WatchdogTypeOK
  <1>1. ASSUME NEW u \in Tasks, task_heartbeat_kick(u) PROVE Goal
    <2>1. /\ g_watchdog_flags' = g_watchdog_flags \union {u}
          /\ \A t \in Tasks : silence'[t] = IF t = u THEN 0 ELSE silence[t]
          /\ UNCHANGED <<wpc, age, snapshot_flags, miss_streak, miss_latched>>
      BY <1>1, <1>t DEF task_heartbeat_kick, wdgVars
    <2>2. BitsAreFresh' /\ LatchFollowsStreak'
      BY <2>1, <1>0 DEF BitsAreFresh, LatchFollowsStreak
    <2>3. StreakCovers'
      BY <2>1, <1>0 DEF StreakCovers
    <2>. QED  BY <2>2, <2>3
  <1>2. CASE Sample
    <2>1. /\ wpc = "sample" /\ wpc' = "judge"
          /\ snapshot_flags' = g_watchdog_flags /\ g_watchdog_flags' = {}
          /\ UNCHANGED <<miss_streak, miss_latched>>
      BY <1>2 DEF Sample, Goto
    <2>2. BitsAreFresh' /\ LatchFollowsStreak'
      BY <2>1, <1>0 DEF BitsAreFresh, LatchFollowsStreak
    <2>3. ASSUME NEW t \in Tasks, NEW n \in 1 .. MissLimit,
                 silence'[t] > n, age' >= Grace + n
          PROVE  miss_streak >= n - 1 /\ t \notin g_watchdog_flags
      <3>1. silence[t] \in Nat /\ age \in Nat /\ silence'[t] = AtMost(silence[t] + 1, MaxSilence)
            /\ age' = AtMost(age + 1, Grace + MissLimit)
        BY <1>2, <1>t, Constants DEF Sample
      <3>2. silence[t] + 1 \in Nat /\ age + 1 \in Nat /\ Grace + MissLimit \in Nat
        BY <3>1, Constants
      <3>3. silence'[t] <= silence[t] + 1 /\ age' <= age + 1
            /\ silence'[t] \in Nat /\ age' \in Nat
        BY <3>1, <3>2, Constants DEF AtMost
      <3>4. silence[t] >= n /\ age >= Grace + (n - 1)
        BY <3>1, <3>3, <2>3, Constants
      <3>5. t \notin g_watchdog_flags
        BY <3>1, <3>4, <1>0 DEF BitsAreFresh
      <3>6. CASE n = 1
        BY <3>5, <3>6, <1>t, Constants
      <3>7. CASE n > 1
        <4>1. n - 1 \in 1 .. MissLimit /\ silence[t] > n - 1
          BY <3>1, <3>4, <3>7, Constants
        <4>2. miss_streak >= n - 1
          BY <4>1, <3>4, <2>1, <1>0 DEF StreakCovers
        <4>. QED  BY <4>2, <3>5
      <3>. QED  BY <3>6, <3>7, Constants
    <2>4. StreakCovers'
      BY <2>1, <2>3 DEF StreakCovers
    <2>. QED  BY <2>2, <2>4
  <1>3. CASE InGrace
    <2>1. /\ wpc = "judge" /\ wpc' = "sample" /\ age <= Grace
          /\ g_watchdog_flags' = g_watchdog_flags \union {"watchdog"}
          /\ UNCHANGED <<silence, age, snapshot_flags, miss_streak, miss_latched>>
      BY <1>3 DEF InGrace, Done, Goto, wdgVars
    <2>2. BitsAreFresh' /\ LatchFollowsStreak'
      BY <2>1, <1>0 DEF BitsAreFresh, LatchFollowsStreak, Tasks
    <2>3. StreakCovers'
      <3>1. \A n \in 1 .. MissLimit : ~(age >= Grace + n)
        BY <2>1, <1>t, Constants
      <3>. QED  BY <2>1, <3>1 DEF StreakCovers
    <2>. QED  BY <2>2, <2>3
  <1>4. CASE Miss
    <2>1. /\ wpc = "judge" /\ wpc' \in {"sample", "alarm"}
          /\ miss_streak' = AtMost(miss_streak + 1, MissLimit)
          /\ miss_streak' >= MissLimit => wpc' = "alarm"
          /\ g_watchdog_flags' \subseteq g_watchdog_flags \union {"watchdog"}
          /\ UNCHANGED <<silence, age, snapshot_flags, miss_latched>>
      BY <1>4 DEF Miss, Done, Goto
    <2>2. BitsAreFresh'
      BY <2>1, <1>0 DEF BitsAreFresh, Tasks
    <2>3. StreakCovers'
      <3>1. miss_streak + 1 \in Nat /\ miss_streak' \in Nat
            /\ \/ miss_streak' = miss_streak + 1
               \/ miss_streak' = MissLimit
        BY <2>1, <1>t, AtMosts, Constants DEF AtMost
      <3>2. \A n \in 1 .. MissLimit : miss_streak >= n - 1 => miss_streak' >= n
        BY <3>1, <1>t, Constants
      <3>. QED  BY <2>1, <3>2, <1>0 DEF StreakCovers
    <2>4. LatchFollowsStreak'
      BY <2>1 DEF LatchFollowsStreak
    <2>. QED  BY <2>2, <2>3, <2>4
  <1>5. CASE Healthy
    <2>1. /\ wpc = "judge" /\ wpc' = "compare" /\ age > Grace
          /\ Tasks \subseteq snapshot_flags
          /\ miss_streak' = 0
          /\ UNCHANGED <<g_watchdog_flags, silence, age>>
      BY <1>5 DEF Healthy, Missed, Goto, taskVars
    <2>2. BitsAreFresh' /\ LatchFollowsStreak'
      BY <2>1, <1>0, Constants DEF BitsAreFresh, LatchFollowsStreak
    <2>3. StreakCovers'
      BY <2>1, <1>0 DEF StreakCovers
    <2>. QED  BY <2>2, <2>3
  <1>6. CASE StoreCount
    <2>1. /\ wpc = "store_count" /\ wpc' = "sample" /\ miss_latched'
          /\ g_watchdog_flags' = g_watchdog_flags \union {"watchdog"}
          /\ UNCHANGED <<silence, age, snapshot_flags, miss_streak>>
      BY <1>6 DEF StoreCount, Done, Goto
    <2>. QED
      BY <2>1, <1>0 DEF BitsAreFresh, StreakCovers, LatchFollowsStreak, Tasks
  <1>7. CASE Alarm \/ Compare \/ Erase
    <2>1. /\ wpc \in {"alarm", "compare", "erase"}
          /\ wpc' \in {"sample", "load_id", "erase"}
          /\ g_watchdog_flags' \subseteq g_watchdog_flags \union {"watchdog"}
          /\ UNCHANGED <<silence, age, snapshot_flags, miss_streak, miss_latched>>
          /\ wpc' = "sample" => miss_latched \/ wpc \in {"compare", "erase"}
          /\ wpc' = "erase" => wpc = "compare"
      BY <1>7 DEF Alarm, Compare, Erase, Done, Goto, wdgVars
    <2>. QED
      BY <2>1, <1>0 DEF BitsAreFresh, StreakCovers, LatchFollowsStreak, Tasks
  <1>8. CASE LoadId \/ StoreId \/ StoreCode \/ LoadCount
    <2>1. /\ wpc \notin {"judge", "sample"} /\ wpc' \in Publishing
          /\ UNCHANGED <<g_watchdog_flags, silence, age, snapshot_flags, miss_streak>>
      BY <1>8 DEF LoadId, StoreId, StoreCode, LoadCount, Goto, taskVars, wdgVars, Publishing
    <2>. QED
      BY <2>1, <1>0 DEF BitsAreFresh, StreakCovers, LatchFollowsStreak, Publishing
  <1>9. CASE (\E t \in Tasks : Hang(t) \/ Resume(t)) \/ ConfigApplied \/ SyncFailed
             \/ UNCHANGED vars
    <2>1. UNCHANGED <<g_watchdog_flags, silence, wpc, age, snapshot_flags, miss_streak,
                      miss_latched>>
      BY <1>9 DEF Hang, Resume, ConfigApplied, SyncFailed, vars, taskVars, wdgVars
    <2>. QED
      BY <2>1, <1>0 DEF BitsAreFresh, StreakCovers, LatchFollowsStreak
  <1>. QED
    BY <1>1, <1>2, <1>3, <1>4, <1>5, <1>6, <1>7, <1>8, <1>9 DEF Next, WatchdogTask

(* The invariant for the error code.                                       *)
LEMMA NextError == IInv /\ [Next]_vars => ErrorStands'
  <1>. SUFFICES ASSUME IInv, [Next]_vars PROVE ErrorStands'
    OBVIOUS
  <1>0. ErrorStands
    BY DEF IInv
  <1>1. CASE Sample
    BY <1>1 DEF Sample, Goto, statusVars, ErrorStands
  <1>2. CASE Miss \/ InGrace
    BY <1>0, <1>2 DEF Miss, InGrace, Done, Goto, statusVars, histVars, ErrorStands
  <1>3. CASE Alarm \/ StoreCode
    BY <1>0, <1>3 DEF Alarm, StoreCode, Done, Goto, histVars, ErrorStands
  <1>4. CASE LoadId \/ StoreId \/ LoadCount \/ StoreCount
    BY <1>0, <1>4 DEF LoadId, StoreId, LoadCount, StoreCount, Done, Goto, statusVars,
       histVars, ErrorStands
  <1>5. CASE Healthy
    BY <1>0, <1>5 DEF Healthy, Goto, statusVars, histVars, ErrorStands
  <1>6. CASE Compare
    BY <1>0, <1>6 DEF Compare, OwnCode, Done, Goto, statusVars, histVars, ErrorStands
  <1>7. CASE Erase
    BY <1>0, <1>7 DEF Erase, Done, Goto, histVars, ErrorStands
  <1>8. CASE ConfigApplied \/ SyncFailed
    BY <1>0, <1>8 DEF ConfigApplied, SyncFailed, histVars, ErrorStands
  <1>9. CASE (\E t \in Tasks : task_heartbeat_kick(t) \/ Hang(t) \/ Resume(t))
             \/ UNCHANGED vars
    BY <1>0, <1>9 DEF task_heartbeat_kick, Hang, Resume, vars, statusVars, histVars,
       ErrorStands
  <1>. QED
    BY <1>1, <1>2, <1>3, <1>4, <1>5, <1>6, <1>7, <1>8, <1>9 DEF Next, WatchdogTask

(* The invariant for the counters.                                         *)
LEMMA NextCounts == IInv /\ [Next]_vars => CountsInStep'
  <1>. SUFFICES ASSUME IInv, [Next]_vars PROVE CountsInStep'
    OBVIOUS
  <1>0. CountsInStep /\ overlapped \in BOOLEAN
    BY DEF IInv, WatchdogTypeOK
  <1>. USE DEF CountsInStep, Publishing
  <1>1. CASE LoadId
    BY <1>0, <1>1 DEF LoadId, Goto, statusVars
  <1>2. CASE StoreId
    BY <1>0, <1>2 DEF StoreId, Goto, histVars
  <1>3. CASE StoreCode
    BY <1>0, <1>3 DEF StoreCode, Goto, wdgVars, histVars
  <1>4. CASE LoadCount
    BY <1>0, <1>4 DEF LoadCount, Goto, statusVars, histVars
  <1>5. CASE StoreCount
    BY <1>0, <1>5 DEF StoreCount, Increment, Done, Goto, histVars
  <1>6. CASE ConfigApplied
    BY <1>0, <1>6 DEF ConfigApplied
  <1>7. CASE Sample \/ InGrace \/ Miss
    BY <1>0, <1>7 DEF Sample, InGrace, Miss, Done, Goto, statusVars, histVars
  <1>8. CASE Alarm \/ Healthy \/ Compare \/ Erase
    BY <1>0, <1>8 DEF Alarm, Healthy, Compare, Erase, Done, Goto, statusVars, histVars
  <1>9. CASE (\E t \in Tasks : task_heartbeat_kick(t) \/ Hang(t) \/ Resume(t))
             \/ SyncFailed \/ UNCHANGED vars
    BY <1>0, <1>9 DEF task_heartbeat_kick, Hang, Resume, SyncFailed, vars, wdgVars,
       statusVars, histVars
  <1>. QED
    BY <1>1, <1>2, <1>3, <1>4, <1>5, <1>6, <1>7, <1>8, <1>9 DEF Next, WatchdogTask

(* The inductive invariant holds in every reachable state.                 *)
THEOREM WatchdogInductive == Spec => []IInv
  <1>1. IInv /\ [Next]_vars => IInv'
    BY NextTypes, NextStreak, NextError, NextCounts DEF IInv
  <1>. QED  BY InitIInv, <1>1, PTL DEF Spec

(* Flags, counters and the streak keep their types, and no counter leaves  *)
(* its width.                                                              *)
THEOREM WatchdogTypeCorrect == Spec => []WatchdogTypeOK
  <1>1. IInv => WatchdogTypeOK
    BY DEF IInv
  <1>. QED  BY WatchdogInductive, <1>1, PTL

(* A task that is silent for MissLimit whole windows after the grace       *)
(* period is reported, whatever the other tasks and the master's period.   *)
THEOREM DeadTaskCorrect == Spec => []DeadTaskReported
  <1>1. IInv => DeadTaskReported
    <2>. SUFFICES ASSUME IInv, wpc = "sample", age >= Grace + MissLimit,
                         NEW t \in Tasks, silence[t] > MissLimit
                  PROVE  miss_latched
      BY DEF DeadTaskReported
    <2>1. MissLimit \in 1 .. MissLimit
      BY Constants
    <2>2. miss_streak >= MissLimit
      BY <2>1 DEF IInv, StreakCovers
    <2>. QED  BY <2>2 DEF IInv, LatchFollowsStreak
  <1>. QED  BY WatchdogInductive, <1>1, PTL

(* No pass of the watchdog erases an error that stood when it woke up.     *)
THEOREM StandingErrorCorrect == Spec => []StandingErrorStays
  <1>1. IInv => StandingErrorStays
    BY DEF IInv, ErrorStands, StandingErrorStays
  <1>. QED  BY WatchdogInductive, <1>1, PTL

(* The counters are exact unless an event came inside the watchdog's own.  *)
THEOREM CountCorrect == Spec => []CountIsExact
  <1>1. IInv => CountIsExact
    BY DEF IInv, CountsInStep, CountIsExact, Publishing
  <1>. QED  BY WatchdogInductive, <1>1, PTL

=============================================================================
