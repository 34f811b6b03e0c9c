--------------------------- MODULE PollCycleProofs ---------------------------
(***************************************************************************)
(* Bounds on the poll cycle, for any number of slaves and any durations:   *)
(* the types, HeardInTime, BeatInTime, OnlineIsRecent and AgeIsClose.      *)
(*                                                                         *)
(* The inductive invariant says how much of the cycle is spent at each     *)
(* place: the slaves before this one, the exchanges with this one, and the *)
(* apply requests so far.                                                  *)
(***************************************************************************)
EXTENDS PollCycle, TLAPS

(* Arithmetic of products, which the provers do not do by themselves.      *)
LEMMA TimesNat == ASSUME NEW a \in Nat, NEW b \in Nat PROVE a * b \in Nat
  OBVIOUS

LEMMA TimesSucc ==
  ASSUME NEW a \in Int, NEW b \in Int PROVE (a + 1) * b = a * b + b
  OBVIOUS

LEMMA TimesMinus ==
  ASSUME NEW a \in Int, NEW b \in Int, NEW c \in Int
  PROVE (a - b) * c = a * c - b * c
  OBVIOUS

LEMMA TimesMono ==
  ASSUME NEW a \in Int, NEW b \in Int, NEW c \in Nat, a <= b
  PROVE a * c <= b * c
  <1>1. b - a \in Nat  OBVIOUS
  <1>2. (b - a) * c \in Nat  BY <1>1, TimesNat
  <1>3. (b - a) * c = b * c - a * c  BY TimesMinus
  <1>4. a * c \in Int /\ b * c \in Int  OBVIOUS
  <1> QED  BY <1>2, <1>3, <1>4

(* A count that was within c + x stays within c + y.                       *)
LEMMA Shift ==
  ASSUME NEW h \in Int, NEW c \in Int, NEW x \in Int, NEW y \in Int, NEW d \in Int,
         h <= c + x, x + d <= y
  PROVE h + d <= c + y
  OBVIOUS

(* What the apply requests of this cycle have cost at most.                *)
Applied == pending * (NumWrites * Slow)

(* What the slaves before this one have, and this one so far.              *)
Before == (s - 1) * PerSlave
Spent == IF pc = "diag" THEN Slow
         ELSE IF pc \in {"apply", "next"} THEN 2 * Slow
         ELSE IF pc = "end" THEN PerSlave
         ELSE 0

(* Whether the slave Watched was asked in this cycle.                      *)
Asked == \/ pc = "telemetry" /\ s > Watched
         \/ pc \in {"diag", "apply", "next", "end"} /\ s >= Watched

(* From its request to the start of the next cycle.                        *)
HeardAtStart ==
  Larger(Period, NumSlaves * PerSlave - (Watched - 1) * PerSlave + ForApply + 1)

Heard ==
  IF pc = "start" THEN heard <= HeardAtStart
  ELSE IF Asked
    THEN heard <= elapsed /\ heard <= Before - (Watched - 1) * PerSlave + Spent + Applied
    ELSE heard <= elapsed + HeardAtStart

CycleInv ==
  /\ PollTypeOK
  /\ pc = "end" => s = NumSlaves
  /\ pc # "start" => elapsed <= Before + Spent + Applied
  /\ Heard
  /\ beat <= Larger(Period, 1) + (IF pc = "start" THEN 0 ELSE elapsed)
  /\ status = "online" => true_age = AtMost(heard, Width)

-----------------------------------------------------------------------------
LEMMA ConstantFacts ==
  /\ NumSlaves \in Nat \ {0} /\ Watched \in 1 .. NumSlaves
  /\ Slow \in Nat \ {0} /\ Period \in Nat /\ MaxPending \in Nat
  /\ NumWrites * Slow \in Nat
  /\ ForApply \in Nat
  /\ PerSlave \in Nat /\ PerSlave = 2 * Slow + 1
  /\ NumSlaves * PerSlave \in Nat
  /\ (Watched - 1) * PerSlave \in Nat
  /\ PerSlave <= NumSlaves * PerSlave - (Watched - 1) * PerSlave
  <1>1. /\ NumSlaves \in Nat \ {0} /\ Watched \in 1 .. NumSlaves
        /\ Slow \in Nat \ {0} /\ Period \in Nat /\ MaxPending \in Nat
        /\ NumWrites \in Nat
    BY CycleAssumption DEF Slaves
  <1>2. NumWrites * Slow \in Nat  BY <1>1, TimesNat
  <1>3. ForApply \in Nat  BY <1>1, <1>2, TimesNat DEF ForApply
  <1>4. PerSlave \in Nat /\ PerSlave = 2 * Slow + 1  BY <1>1 DEF PerSlave
  <1>5. NumSlaves * PerSlave \in Nat  BY <1>1, <1>4, TimesNat
  <1>6. Watched - 1 \in Nat  BY <1>1
  <1>7. (Watched - 1) * PerSlave \in Nat  BY <1>4, <1>6, TimesNat
  <1>8. Watched * PerSlave <= NumSlaves * PerSlave  BY <1>1, <1>4, TimesMono
  <1>9. (Watched - 1) * PerSlave = Watched * PerSlave - PerSlave
    <2>1. (Watched - 1) * PerSlave = Watched * PerSlave - 1 * PerSlave
      BY <1>1, <1>4, TimesMinus
    <2> QED  BY <2>1, <1>4
  <1>10. Watched * PerSlave \in Int  BY <1>1, <1>4
  <1> QED  BY <1>1, <1>2, <1>3, <1>4, <1>5, <1>7, <1>8, <1>9, <1>10

(* The products of a state.                                                *)
LEMMA StateFacts ==
  ASSUME s \in Slaves, pending \in 0 .. MaxPending
  PROVE /\ s \in 1 .. NumSlaves
        /\ Before \in Nat
        /\ s * PerSlave = Before + PerSlave
        /\ s * PerSlave <= NumSlaves * PerSlave
        /\ s * PerSlave \in Nat
        /\ s < Watched => s * PerSlave <= (Watched - 1) * PerSlave
        /\ s = Watched => Before = (Watched - 1) * PerSlave
        /\ s >= Watched => (Watched - 1) * PerSlave <= Before
        /\ Applied \in Nat /\ Applied <= ForApply
        /\ (pending + 1) * (NumWrites * Slow) = Applied + NumWrites * Slow
  <1> USE ConstantFacts
  <1>1. s \in 1 .. NumSlaves /\ s - 1 \in Nat /\ s \in Nat  BY DEF Slaves
  <1>2. Before \in Nat  BY <1>1, TimesNat DEF Before
  <1>3. s * PerSlave = Before + PerSlave
    <2>1. (s - 1 + 1) * PerSlave = (s - 1) * PerSlave + PerSlave  BY <1>1, TimesSucc
    <2>2. s - 1 + 1 = s  BY <1>1
    <2> QED  BY <2>1, <2>2 DEF Before
  <1>4. s * PerSlave <= NumSlaves * PerSlave  BY <1>1, TimesMono
  <1>5. s * PerSlave \in Nat  BY <1>2, <1>3
  <1>6. s < Watched => s * PerSlave <= (Watched - 1) * PerSlave
    <2> HAVE s < Watched
    <2>1. s <= Watched - 1 /\ Watched - 1 \in Int  BY <1>1
    <2> QED  BY <1>1, <2>1, TimesMono
  <1>7. s >= Watched => (Watched - 1) * PerSlave <= Before
    <2> HAVE s >= Watched
    <2>1. Watched - 1 <= s - 1 /\ Watched - 1 \in Int /\ s - 1 \in Int  BY <1>1
    <2> QED  BY <2>1, TimesMono DEF Before
  <1>8. pending \in Nat /\ pending <= MaxPending  OBVIOUS
  <1>9. Applied \in Nat  BY <1>8, TimesNat DEF Applied
  <1>10. Applied <= ForApply  BY <1>8, TimesMono DEF Applied, ForApply
  <1>11. (pending + 1) * (NumWrites * Slow) = Applied + NumWrites * Slow
    BY <1>8, TimesSucc DEF Applied
  <1> QED  BY <1>1, <1>2, <1>3, <1>4, <1>5, <1>6, <1>7, <1>9, <1>10, <1>11 DEF Before

LEMMA OlderType ==
  ASSUME NEW age \in Never .. Width, NEW d \in Nat
  PROVE Older(age, d) \in Never .. Width
  BY CycleAssumption DEF Older, AtMost, Never

(* Ages that are equal grow alike.                                         *)
LEMMA OlderAtMost ==
  ASSUME NEW h \in Nat, NEW d \in Nat
  PROVE Older(AtMost(h, Width), d) = AtMost(h + d, Width)
  BY CycleAssumption DEF Older, AtMost, Never

LEMMA TickType ==
  ASSUME NEW n \in Int PROVE n % Width \in 0 .. Width - 1
  BY CycleAssumption

LEMMA InitCycle == Init => CycleInv
  <1> SUFFICES ASSUME Init PROVE CycleInv  OBVIOUS
  <1> USE ConstantFacts
  <1>1. PollTypeOK
    BY CycleAssumption DEF Init, PollTypeOK, Slaves, Never
  <1>2. 0 <= HeardAtStart  BY DEF HeardAtStart, Larger
  <1>3. Larger(Period, 1) \in Nat  BY DEF Larger
  <1>4. Heard  BY <1>2 DEF Init, Heard
  <1>5. beat <= Larger(Period, 1) + (IF pc = "start" THEN 0 ELSE elapsed)
    BY <1>3 DEF Init
  <1> QED  BY <1>1, <1>4, <1>5 DEF Init, CycleInv

-----------------------------------------------------------------------------
LEMMA DurationFacts ==
  ASSUME NEW d \in Durations PROVE d \in Nat /\ d <= Slow
  BY CycleAssumption DEF Durations

LEMMA TypeStep ==
  ASSUME PollTypeOK, [Next]_vars PROVE PollTypeOK'
  <1> USE CycleAssumption, ConstantFacts DEF PollTypeOK
  <1>1. ASSUME UpdateAges PROVE PollTypeOK'
    <2>1. AgeNow \in 0 .. Top
      <3>1. (tick - last_ok_ms) % Width \in Nat  BY TickType
      <3>2. ((tick - last_ok_ms) % Width) \div Second \in Nat
        <4> DEFINE x == (tick - last_ok_ms) % Width
        <4>1. x \in Nat  BY <3>1
        <4> HIDE DEF x
        <4>2. x \div Second \in Nat  BY <4>1
        <4> QED  BY <4>2 DEF x
      <3> QED  BY <3>2 DEF AgeNow, AtMost
    <2> QED  BY <1>1, <2>1 DEF UpdateAges, Slaves
  <1>2. ASSUME NEW d \in Durations, NEW ok \in BOOLEAN, Telemetry(ok, d) PROVE PollTypeOK'
    <2>1. d \in Nat  BY DurationFacts
    <2>2. tick' \in 0 .. Width - 1  BY <1>2, <2>1, TickType DEF Telemetry, Advance
    <2>3. Older(true_age, d) \in Never .. Width  BY <2>1, OlderType
    <2>4. AtMost(d, Width) \in Never .. Width  BY <2>1 DEF AtMost, Never
    <2>5. true_age' \in Never .. Width  BY <1>2, <2>3, <2>4 DEF Telemetry
    <2>6. elapsed' \in Nat /\ heard' \in Nat /\ beat' \in Nat
      BY <1>2, <2>1 DEF Telemetry, Advance
    <2> QED  BY <1>2, <2>2, <2>5, <2>6
             DEF Telemetry, UpdateTelemetry, ReportTimeout, mapVars
  <1>3. ASSUME NEW d \in Nat, Wait(d)
        PROVE /\ tick' \in 0 .. Width - 1 /\ true_age' \in Never .. Width
              /\ elapsed' \in Nat /\ heard' \in Nat /\ beat' \in Nat
    <2>1. tick + d \in Int /\ tick' = (tick + d) % Width
      BY <1>3 DEF Wait, Advance
    <2>2. tick' \in 0 .. Width - 1  BY <2>1, TickType
    <2>3. true_age' \in Never .. Width  BY <1>3, OlderType DEF Wait
    <2> QED  BY <1>3, <2>2, <2>3 DEF Wait, Advance
  <1>4. ASSUME NEW d \in Durations, Diagnostics(d) PROVE PollTypeOK'
    BY <1>3, <1>4, DurationFacts DEF Diagnostics, mapVars
  <1>5. ASSUME NothingPending PROVE PollTypeOK'
    BY <1>5 DEF NothingPending, mapVars, timeVars
  <1>6. ASSUME NEW d \in 0 .. NumWrites * Slow, ApplyRequest(d) PROVE PollTypeOK'
    BY <1>3, <1>6 DEF ApplyRequest, mapVars
  <1>7. ASSUME NextSlave PROVE PollTypeOK'
    BY <1>3, <1>7 DEF NextSlave, mapVars, Slaves
  <1>8. ASSUME EndCycle PROVE PollTypeOK'
    <2>1. Rest \in Nat  BY DEF Rest
    <2>2. tick' \in 0 .. Width - 1  BY <1>8, <2>1, TickType DEF EndCycle
    <2>3. Older(true_age, Rest) \in Never .. Width  BY <2>1, OlderType
    <2> QED  BY <1>8, <2>1, <2>2, <2>3 DEF EndCycle, Beat, mapVars
  <1>9. ASSUME UNCHANGED vars PROVE PollTypeOK'
    BY <1>9 DEF vars, mapVars, timeVars
  <1> QED  BY <1>1, <1>2, <1>4, <1>5, <1>6, <1>7, <1>8, <1>9 DEF Next

-----------------------------------------------------------------------------
(* One lemma per action.                                                   *)

LEMMA UpdateAgesStep ==
  ASSUME CycleInv, UpdateAges, PollTypeOK' PROVE CycleInv'
  <1> USE ConstantFacts
  <1>1. heard' \in Nat /\ heard' <= HeardAtStart /\ HeardAtStart \in Nat
    BY DEF CycleInv, Heard, UpdateAges, PollTypeOK, HeardAtStart, Larger
  <1>2. s' = 1 /\ pc' = "telemetry" /\ elapsed' = 0 /\ pending' = 0
    BY DEF UpdateAges
  <1>3. (0 <= Before + Spent + Applied)'
    <2>1. Before' = (1 - 1) * PerSlave /\ Applied' = 0 * (NumWrites * Slow) /\ Spent' = 0
      BY <1>2 DEF Before, Spent, Applied
    <2>2. (1 - 1) * PerSlave = 0 /\ 0 * (NumWrites * Slow) = 0  OBVIOUS
    <2> QED  BY <2>1, <2>2
  <1>4. ~Asked'  BY <1>2 DEF Asked
  <1>5. Heard'  BY <1>1, <1>2, <1>4 DEF Heard
  <1>6. Larger(Period, 1) \in Nat /\ beat' \in Nat  BY DEF Larger, PollTypeOK
  <1>7. beat' <= Larger(Period, 1)  BY <1>6 DEF CycleInv, UpdateAges
  <1> QED  BY <1>2, <1>3, <1>5, <1>6, <1>7 DEF CycleInv, UpdateAges

(* The ages after d ticks.                                                 *)
LEMMA OnlineStep ==
  ASSUME CycleInv, NEW d \in Nat, status' = status,
         heard' = heard + d, true_age' = Older(true_age, d)
  PROVE (status = "online" => true_age = AtMost(heard, Width))'
  BY OlderAtMost DEF CycleInv, PollTypeOK

(* A slave is asked first, then its diagnostics.                           *)
LEMMA TelemetryStep ==
  ASSUME CycleInv, NEW d \in Durations, NEW ok \in BOOLEAN,
         Telemetry(ok, d), PollTypeOK'
  PROVE CycleInv'
  <1> USE ConstantFacts
  <1>1. d \in Nat /\ d <= Slow  BY DurationFacts
  <1>2. /\ pc = "telemetry" /\ pc' = "diag" /\ s' = s /\ pending' = pending
        /\ elapsed' = elapsed + d /\ beat' = beat + d
    BY DEF Telemetry, Advance
  <1>3. Before' = Before /\ Applied' = Applied /\ Spent = 0 /\ Spent' = Slow
    BY <1>2 DEF Before, Applied, Spent
  <1>4. elapsed \in Nat /\ heard \in Nat /\ beat \in Nat /\ s \in Slaves
        /\ pending \in 0 .. MaxPending
    BY DEF CycleInv, PollTypeOK
  <1>5. elapsed <= Before + Spent + Applied  BY <1>2 DEF CycleInv
  <1>6. elapsed' <= Before' + Spent' + Applied'
    BY <1>1, <1>2, <1>3, <1>4, <1>5, StateFacts
  <1>7. HeardAtStart \in Nat /\ Larger(Period, 1) \in Nat
    BY DEF HeardAtStart, Larger
  <1>8. Heard'
    <2>1. CASE s = Watched
      <3>1. heard' = d  BY <2>1 DEF Telemetry
      <3> QED  BY <1>1, <1>2, <1>3, <1>4, <2>1, <3>1, StateFacts DEF Heard, Asked
    <2>2. CASE s # Watched
      <3>1. heard' = heard + d  BY <2>2 DEF Telemetry
      <3>2. Asked' <=> Asked  BY <1>2, <1>4, <2>2 DEF Asked, Slaves
      <3>3. Heard  BY DEF CycleInv
      <3>4. CASE Asked
        <4>1. heard <= elapsed /\ heard <= Before - (Watched - 1) * PerSlave + Spent + Applied
          BY <1>2, <3>3, <3>4 DEF Heard
        <4>2. heard' <= elapsed'  BY <1>1, <1>2, <1>4, <3>1, <4>1
        <4>3. heard' <= Before - (Watched - 1) * PerSlave + Slow + Applied
          BY <1>1, <1>3, <1>4, <3>1, <4>1, StateFacts
        <4> QED  BY <1>2, <1>3, <3>2, <3>4, <4>2, <4>3 DEF Heard
      <3>5. CASE ~Asked
        BY <1>1, <1>2, <1>4, <1>7, <3>1, <3>2, <3>3, <3>5 DEF Heard
      <3> QED  BY <3>4, <3>5
    <2> QED  BY <2>1, <2>2
  <1>9. beat' <= Larger(Period, 1) + elapsed'
    BY <1>1, <1>2, <1>4, <1>7 DEF CycleInv
  <1>10. (status = "online" => true_age = AtMost(heard, Width))'
    <2>1. CASE s = Watched
      BY <2>1 DEF Telemetry, UpdateTelemetry, ReportTimeout
    <2>2. CASE s # Watched
      BY <1>1, <2>2, OnlineStep DEF Telemetry, mapVars
    <2> QED  BY <2>1, <2>2
  <1> QED  BY <1>2, <1>6, <1>8, <1>9, <1>10 DEF CycleInv

(* Waiting within the turn of a slave: what passes is in what it may cost. *)
LEMMA WaitStep ==
  ASSUME CycleInv, PollTypeOK', NEW d \in Nat, Wait(d),
         pc \in {"diag", "apply", "next"}, pc' \in {"apply", "next"},
         s' = s, status' = status,
         Spent' + Applied' >= Spent + Applied + d
  PROVE CycleInv'
  <1> DEFINE B == (Watched - 1) * PerSlave
  <1>1. /\ elapsed' = elapsed + d /\ beat' = beat + d /\ heard' = heard + d
        /\ true_age' = Older(true_age, d)
    BY DEF Wait, Advance
  <1>2. Before' = Before  BY DEF Before
  <1>3. elapsed \in Nat /\ heard \in Nat /\ beat \in Nat /\ s \in Slaves
        /\ pending \in 0 .. MaxPending /\ pending' \in 0 .. MaxPending
    BY DEF CycleInv, PollTypeOK
  <1>4. Applied \in Nat /\ Applied' \in Nat /\ Before \in Nat
    <2>1. Applied' \in Nat  BY <1>3, ConstantFacts, TimesNat DEF Applied
    <2> QED  BY <1>3, <2>1, StateFacts
  <1>5. Spent \in Nat /\ Spent' \in Nat  BY ConstantFacts DEF Spent
  <1>6. elapsed <= Before + Spent + Applied  BY DEF CycleInv
  <1>14. Spent + Applied + d <= Spent' + Applied'  BY <1>4, <1>5
  <1> DEFINE X == Spent + Applied
             Y == Spent' + Applied'
  <1>15. X \in Int /\ Y \in Int /\ X + d <= Y
    <2>1. X \in Int  BY <1>4, <1>5
    <2>2. Y \in Int  BY <1>4, <1>5
    <2>3. X + d <= Y  BY <1>14
    <2> QED  BY <2>1, <2>2, <2>3
  <1>16. Before + Spent + Applied = Before + X /\ Before' + Spent' + Applied' = Before' + Y
    BY <1>2, <1>4, <1>5
  <1>17. Before - B + Spent + Applied = (Before - B) + X
         /\ Before' - B + Spent' + Applied' = (Before' - B) + Y
    BY <1>2, <1>4, <1>5, ConstantFacts
  <1>7. elapsed' <= Before' + Spent' + Applied'
    <2> HIDE DEF X, Y
    <2>1. elapsed <= Before + X  BY <1>6, <1>16
    <2>2. elapsed + d <= Before + Y  BY <1>3, <1>4, <1>15, <2>1, Shift
    <2> QED  BY <1>1, <1>2, <1>16, <2>2
  <1>8. HeardAtStart \in Nat /\ Larger(Period, 1) \in Nat
    BY ConstantFacts DEF HeardAtStart, Larger
  <1>13. B \in Nat  BY ConstantFacts
  <1>9. Asked' <=> Asked  BY DEF Asked
  <1>10. Heard'
    <2>1. Heard  BY DEF CycleInv
    <2>2. CASE Asked
      <3>1. heard <= elapsed /\ heard <= Before - B + Spent + Applied
        BY <2>1, <2>2 DEF Heard
      <3> HIDE DEF B
      <3>2. heard' <= elapsed'  BY <1>1, <1>3, <3>1
      <3>3. heard' <= Before' - B + Spent' + Applied'
        <4> HIDE DEF X, Y
        <4>1. heard <= (Before - B) + X  BY <1>17, <3>1
        <4>2. Before - B \in Int  BY <1>4, <1>13
        <4>3. heard + d <= (Before - B) + Y  BY <1>3, <1>15, <4>1, <4>2, Shift
        <4> QED  BY <1>1, <1>2, <1>17, <4>3
      <3> QED  BY <1>9, <2>2, <3>2, <3>3 DEF Heard, B
    <2>3. CASE ~Asked
      <3>1. heard <= elapsed + HeardAtStart  BY <2>1, <2>3 DEF Heard
      <3>2. heard' <= elapsed' + HeardAtStart  BY <1>1, <1>3, <1>8, <3>1
      <3> QED  BY <1>9, <2>3, <3>2 DEF Heard
    <2> QED  BY <2>2, <2>3
  <1>11. beat' <= Larger(Period, 1) + elapsed'
    BY <1>1, <1>3, <1>8 DEF CycleInv
  <1>12. (status = "online" => true_age = AtMost(heard, Width))'
    BY <1>1, OnlineStep
  <1> QED  BY <1>7, <1>10, <1>11, <1>12 DEF CycleInv

LEMMA DiagnosticsStep ==
  ASSUME CycleInv, PollTypeOK', NEW d \in Durations, Diagnostics(d)
  PROVE CycleInv'
  <1> USE ConstantFacts
  <1>1. d \in Nat /\ d <= Slow  BY DurationFacts
  <1>2. pc = "diag" /\ pc' = "apply" /\ s' = s /\ pending' = pending /\ status' = status
    BY DEF Diagnostics, mapVars
  <1>3. Applied \in Nat /\ Applied' = Applied
    BY <1>2, StateFacts DEF Applied, CycleInv, PollTypeOK
  <1>4. Spent' + Applied' >= Spent + Applied + d
    BY <1>1, <1>2, <1>3 DEF Spent
  <1> QED  BY <1>1, <1>2, <1>4, WaitStep DEF Diagnostics

LEMMA ApplyRequestStep ==
  ASSUME CycleInv, PollTypeOK', NEW d \in 0 .. NumWrites * Slow, ApplyRequest(d)
  PROVE CycleInv'
  <1> USE ConstantFacts
  <1>1. d \in Nat /\ d <= NumWrites * Slow  OBVIOUS
  <1>2. /\ pc = "apply" /\ pc' = "next" /\ s' = s /\ status' = status
        /\ pending' = pending + 1
    BY DEF ApplyRequest, mapVars
  <1>3. Applied \in Nat /\ Applied' = Applied + NumWrites * Slow
    BY <1>2, StateFacts DEF Applied, CycleInv, PollTypeOK
  <1>4. Spent' = Spent /\ Spent \in Nat  BY <1>2 DEF Spent
  <1>5. Spent' + Applied' >= Spent + Applied + d
    BY <1>1, <1>3, <1>4
  <1> QED  BY <1>1, <1>2, <1>5, WaitStep DEF ApplyRequest

LEMMA NothingPendingStep ==
  ASSUME CycleInv, PollTypeOK', NothingPending PROVE CycleInv'
  <1>1. pc = "apply" /\ pc' = "next" /\ UNCHANGED <<s, pending, mapVars, timeVars>>
    BY DEF NothingPending
  <1>2. Spent' = Spent /\ Before' = Before /\ Applied' = Applied /\ (Asked' <=> Asked)
    BY <1>1 DEF Spent, Before, Applied, Asked
  <1>3. Heard'  BY <1>1, <1>2 DEF CycleInv, Heard, timeVars
  <1> QED  BY <1>1, <1>2, <1>3 DEF CycleInv, mapVars, timeVars

(* On to the next slave: its turn begins where that of this one ends.      *)
LEMMA NextSlaveStep ==
  ASSUME CycleInv, PollTypeOK', NextSlave PROVE CycleInv'
  <1> USE ConstantFacts
  <1>1. /\ elapsed' = elapsed + 1 /\ beat' = beat + 1 /\ heard' = heard + 1
        /\ true_age' = Older(true_age, 1) /\ status' = status /\ pending' = pending
        /\ pc = "next" /\ pc' \in {"telemetry", "end"}
    BY DEF NextSlave, Wait, Advance, mapVars
  <1>2. elapsed \in Nat /\ heard \in Nat /\ beat \in Nat /\ s \in Slaves
        /\ s' \in Slaves /\ pending \in 0 .. MaxPending
    BY DEF CycleInv, PollTypeOK
  <1>3. Applied' = Applied /\ Applied \in Nat /\ Before \in Nat
    BY <1>1, <1>2, StateFacts DEF Applied
  <1>4. Spent = 2 * Slow  BY <1>1 DEF Spent
  <1>5. Before' + Spent' = Before + PerSlave
    <2>1. CASE s = NumSlaves
      <3>1. pc' = "end" /\ s' = s  BY <2>1 DEF NextSlave
      <3> QED  BY <3>1 DEF Before, Spent
    <2>2. CASE s # NumSlaves
      <3>1. pc' = "telemetry" /\ s' = s + 1  BY <2>2 DEF NextSlave
      <3>2. s' - 1 = s  BY <1>2, <3>1 DEF Slaves
      <3>3. Before' = s * PerSlave /\ Spent' = 0
        BY <3>1, <3>2 DEF Before, Spent
      <3> QED  BY <1>2, <3>3, StateFacts
    <2> QED  BY <2>1, <2>2
  <1>6. elapsed <= Before + 2 * Slow + Applied  BY <1>1, <1>4 DEF CycleInv
  <1>7. elapsed' <= Before' + Spent' + Applied'
    <2>1. elapsed' <= Before + PerSlave + Applied  BY <1>1, <1>2, <1>3, <1>6
    <2> QED  BY <1>3, <1>5, <2>1
  <1>8. HeardAtStart \in Nat /\ Larger(Period, 1) \in Nat
    BY DEF HeardAtStart, Larger
  <1>9. Asked' <=> Asked
    BY <1>2 DEF NextSlave, Asked, Slaves
  <1>10. Before' \in Int /\ Spent' \in Int
    <2>1. Before' \in Int  BY <1>2, TimesNat DEF Before, Slaves
    <2> QED  BY <2>1 DEF Spent
  <1> DEFINE B == (Watched - 1) * PerSlave
  <1>15. B \in Nat  OBVIOUS
  <1>11. Heard'
    <2>1. Heard  BY DEF CycleInv
    <2>2. CASE Asked
      <3>1. heard <= elapsed /\ heard <= Before - B + 2 * Slow + Applied
        BY <1>1, <1>4, <2>1, <2>2 DEF Heard
      <3> HIDE DEF B
      <3>2. heard' <= elapsed'  BY <1>1, <1>2, <3>1
      <3>3. heard' <= ((Before + PerSlave) - B) + Applied
        BY <1>1, <1>2, <1>3, <1>15, <3>1
      <3>4. heard' <= Before' - B + Spent' + Applied'
        <4>1. (Before' + Spent') - B = (Before' - B) + Spent'  BY <1>10, <1>15
        <4>2. (Before + PerSlave) - B = (Before' + Spent') - B  BY <1>5
        <4> QED  BY <1>3, <3>3, <4>1, <4>2
      <3> QED  BY <1>1, <1>9, <2>2, <3>2, <3>4 DEF Heard, B
    <2>3. CASE ~Asked
      <3>1. heard <= elapsed + HeardAtStart  BY <1>1, <2>1, <2>3 DEF Heard
      <3>2. heard' <= elapsed' + HeardAtStart  BY <1>1, <1>2, <1>8, <3>1
      <3> QED  BY <1>1, <1>9, <2>3, <3>2 DEF Heard
    <2> QED  BY <2>2, <2>3
  <1>12. beat' <= Larger(Period, 1) + elapsed'
    BY <1>1, <1>2, <1>8 DEF CycleInv
  <1>13. (status = "online" => true_age = AtMost(heard, Width))'
    BY <1>1, OnlineStep
  <1>14. pc' = "end" => s' = NumSlaves  BY DEF NextSlave
  <1> QED  BY <1>1, <1>7, <1>11, <1>12, <1>13, <1>14 DEF CycleInv

(* The rest of the period brings both counts up to it, or adds one.        *)
LEMMA EndCycleStep ==
  ASSUME CycleInv, PollTypeOK', EndCycle PROVE CycleInv'
  <1> USE ConstantFacts
  <1>1. /\ pc = "end" /\ pc' = "start" /\ status' = status
        /\ heard' = heard + Rest /\ beat' = Rest /\ true_age' = Older(true_age, Rest)
    BY DEF EndCycle, Beat, mapVars
  <1>2. elapsed \in Nat /\ heard \in Nat /\ s \in Slaves /\ pending \in 0 .. MaxPending
    BY DEF CycleInv, PollTypeOK
  <1>3. s = NumSlaves  BY <1>1 DEF CycleInv
  <1>4. Rest \in Nat /\ Rest <= Larger(Period, 1)  BY <1>2 DEF Rest, Larger
  <1>5. heard <= elapsed /\ heard <= Before - (Watched - 1) * PerSlave + PerSlave + Applied
    BY <1>1, <1>3 DEF CycleInv, Heard, Asked, Spent
  <1>6. heard <= NumSlaves * PerSlave - (Watched - 1) * PerSlave + ForApply
    <2>1. Applied <= ForApply /\ Applied \in Nat /\ Before \in Nat
          /\ NumSlaves * PerSlave = Before + PerSlave
      BY <1>2, <1>3, StateFacts
    <2> QED  BY <1>2, <1>5, <2>1
  <1>7. heard' <= HeardAtStart
    <2>1. CASE elapsed < Period
      BY <1>1, <1>2, <1>5, <2>1 DEF Rest, HeardAtStart, Larger
    <2>2. CASE ~(elapsed < Period)
      BY <1>1, <1>2, <1>6, <2>2 DEF Rest, HeardAtStart, Larger
    <2> QED  BY <2>1, <2>2
  <1>8. Heard'  BY <1>1, <1>7 DEF Heard
  <1>9. beat' <= Larger(Period, 1) + 0  BY <1>1, <1>4 DEF Larger
  <1>10. (status = "online" => true_age = AtMost(heard, Width))'
    BY <1>1, <1>4, OnlineStep
  <1> QED  BY <1>1, <1>8, <1>9, <1>10 DEF CycleInv

LEMMA NextCycle == CycleInv /\ [Next]_vars => CycleInv'
  <1> SUFFICES ASSUME CycleInv, [Next]_vars PROVE CycleInv'  OBVIOUS
  <1>1. PollTypeOK'  BY TypeStep DEF CycleInv
  <1>2. CASE UNCHANGED vars
    BY <1>2 DEF vars, mapVars, timeVars, CycleInv, PollTypeOK, Heard, Asked,
            Before, Spent, Applied
  <1>3. CASE UpdateAges  BY <1>1, <1>3, UpdateAgesStep
  <1>4. ASSUME NEW d \in Durations, Telemetry(TRUE, d) \/ Telemetry(FALSE, d)
        PROVE CycleInv'
    BY <1>1, <1>4, TelemetryStep
  <1>5. ASSUME NEW d \in Durations, Diagnostics(d) PROVE CycleInv'
    BY <1>1, <1>5, DiagnosticsStep
  <1>6. CASE NothingPending  BY <1>1, <1>6, NothingPendingStep
  <1>7. ASSUME NEW d \in 0 .. NumWrites * Slow, ApplyRequest(d) PROVE CycleInv'
    BY <1>1, <1>7, ApplyRequestStep
  <1>8. CASE NextSlave  BY <1>1, <1>8, NextSlaveStep
  <1>9. CASE EndCycle  BY <1>1, <1>9, EndCycleStep
  <1> QED  BY <1>2, <1>3, <1>4, <1>5, <1>6, <1>7, <1>8, <1>9 DEF Next

(* The inductive invariant holds in every reachable state.                 *)
THEOREM CycleInductive == Spec => []CycleInv
  BY InitCycle, NextCycle, PTL DEF Spec

-----------------------------------------------------------------------------
(* What follows from it.                                                   *)

LEMMA HeardFollows == CycleInv => HeardInTime
  <1> SUFFICES ASSUME CycleInv PROVE heard <= HeardLimit
    BY DEF HeardInTime
  <1> USE ConstantFacts
  <1> DEFINE A == NumSlaves * PerSlave
             B == (Watched - 1) * PerSlave
  <1>1. elapsed \in Nat /\ heard \in Nat /\ s \in Slaves /\ pending \in 0 .. MaxPending
    BY DEF CycleInv, PollTypeOK
  <1>2. A \in Nat /\ B \in Nat /\ PerSlave <= A - B  OBVIOUS
  <1>3. Applied \in Nat /\ Applied <= ForApply /\ Before \in Nat /\ s * PerSlave = Before + PerSlave
        /\ s * PerSlave <= A
    BY <1>1, StateFacts
  <1>4. HeardLimit = Larger(Period + B + ForApply, A + 2 * ForApply + 1)
    BY DEF HeardLimit
  <1>5. HeardAtStart = Larger(Period, A - B + ForApply + 1)  BY DEF HeardAtStart
  <1>6. Heard /\ (pc # "start" => elapsed <= Before + Spent + Applied)
    BY DEF CycleInv
  <1>7. Spent \in Nat /\ Spent <= PerSlave  BY DEF Spent
  <1>8. s < Watched => s * PerSlave <= B  BY <1>1, StateFacts
  <1>9. s = Watched => Before = B  BY <1>1, StateFacts
  <1>10. s * PerSlave \in Int  BY <1>3
  <1> HIDE DEF A, B
  <1>11. CASE pc = "start"
    <2>1. heard <= HeardAtStart  BY <1>6, <1>11 DEF Heard
    <2> QED  BY <1>1, <1>2, <1>4, <1>5, <2>1 DEF Larger
  <1>12. CASE pc # "start" /\ Asked
    <2>1. heard <= Before - B + Spent + Applied
      BY <1>6, <1>12 DEF Heard, B
    <2> QED  BY <1>1, <1>2, <1>3, <1>4, <1>7, <2>1 DEF Larger
  <1>13. CASE pc # "start" /\ ~Asked
    <2>1. heard <= elapsed + HeardAtStart /\ elapsed <= Before + Spent + Applied
      BY <1>6, <1>13 DEF Heard
    <2>2. Before + Spent <= B
      <3>1. s < Watched \/ (s = Watched /\ Spent = 0)
        BY <1>1, <1>13 DEF Asked, Spent, Slaves, CycleInv, PollTypeOK
      <3> QED  BY <1>3, <1>2, <1>7, <1>8, <1>9, <1>10, <3>1
    <2>3. heard <= B + ForApply + HeardAtStart
      <3>1. HeardAtStart \in Nat  BY <1>2, <1>5 DEF Larger
      <3> QED  BY <1>1, <1>2, <1>3, <1>7, <2>1, <2>2, <3>1
    <2> QED  BY <1>1, <1>2, <1>4, <1>5, <2>3 DEF Larger
  <1> QED  BY <1>11, <1>12, <1>13

LEMMA BeatFollows == CycleInv => BeatInTime
  <1> SUFFICES ASSUME CycleInv PROVE beat <= Larger(Period, 1) + CycleLimit
    BY DEF BeatInTime
  <1> USE ConstantFacts
  <1>1. elapsed \in Nat /\ beat \in Nat /\ s \in Slaves /\ pending \in 0 .. MaxPending
    BY DEF CycleInv, PollTypeOK
  <1>2. Applied \in Nat /\ Applied <= ForApply /\ Before \in Nat
        /\ Before + PerSlave <= NumSlaves * PerSlave
    BY <1>1, StateFacts
  <1>3. Spent \in Nat /\ Spent <= PerSlave  BY DEF Spent
  <1>4. CycleLimit = NumSlaves * PerSlave + ForApply  BY DEF CycleLimit
  <1>5. pc # "start" => elapsed <= CycleLimit
    BY <1>1, <1>2, <1>3, <1>4 DEF CycleInv
  <1>6. Larger(Period, 1) \in Nat /\ CycleLimit \in Nat  BY <1>4 DEF Larger
  <1> QED  BY <1>1, <1>5, <1>6 DEF CycleInv

LEMMA OnlineFollows == CycleInv => OnlineIsRecent
  <1> SUFFICES ASSUME CycleInv, status = "online" PROVE true_age \in 0 .. HeardLimit
    BY DEF OnlineIsRecent
  <1>1. true_age = AtMost(heard, Width) /\ heard \in Nat  BY DEF CycleInv, PollTypeOK
  <1>2. heard <= HeardLimit  BY HeardFollows DEF HeardInTime
  <1>3. HeardLimit \in Int  BY ConstantFacts DEF HeardLimit, Larger
  <1> QED  BY <1>1, <1>2, <1>3, CycleAssumption DEF AtMost

(* The variables keep their types.                                         *)
THEOREM PollTypeCorrect == Spec => []PollTypeOK
  <1>1. CycleInv => PollTypeOK  BY DEF CycleInv
  <1> QED  BY <1>1, CycleInductive, PTL

(* A slave hears from the master in time, whatever the others do.          *)
THEOREM HeardCorrect == Spec => []HeardInTime
  BY CycleInductive, HeardFollows, PTL

(* The heartbeat comes in time.                                            *)
THEOREM BeatCorrect == Spec => []BeatInTime
  BY CycleInductive, BeatFollows, PTL

(* A slave shown online was read not long ago.                             *)
THEOREM OnlineCorrect == Spec => []OnlineIsRecent
  BY CycleInductive, OnlineFollows, PTL

(* With the numbers of the firmware (20 slaves, 300 ms to answer and 8 ms  *)
(* for the request, six writes, a period of 5 s) and up to four apply      *)
(* requests in a cycle, every slave hears from the master within the 30 s  *)
(* after which it goes into its autonomous mode.                           *)
THEOREM FirmwareHeard ==
  ASSUME NumSlaves = 20, Slow = 308, NumWrites = 6, MaxPending <= 4, Period = 5000
  PROVE Spec => [](heard < 30000)
  <1>1. PerSlave = 617  BY DEF PerSlave
  <1>2. ForApply <= 7392 /\ ForApply \in Nat
    <2>1. MaxPending * 1848 <= 4 * 1848  BY ConstantFacts, TimesMono
    <2>2. ForApply = MaxPending * 1848  BY DEF ForApply
    <2> QED  BY <2>1, <2>2, ConstantFacts
  <1>3. Watched - 1 \in 0 .. 19  BY ConstantFacts
  <1>4. (Watched - 1) * 617 <= 19 * 617  BY <1>3, TimesMono
  <1>5. HeardLimit < 30000
    BY <1>1, <1>2, <1>3, <1>4 DEF HeardLimit, Larger
  <1>6. CycleInv => heard < 30000
    <2> SUFFICES ASSUME CycleInv PROVE heard < 30000  OBVIOUS
    <2>1. heard <= HeardLimit  BY HeardFollows DEF HeardInTime
    <2>2. heard \in Int /\ HeardLimit \in Int
      BY ConstantFacts DEF CycleInv, PollTypeOK, HeardLimit, Larger
    <2> QED  BY <1>5, <2>1, <2>2
  <1> QED  BY <1>6, CycleInductive, PTL

-----------------------------------------------------------------------------
(* The age of the block: how far the register is behind the true age.      *)

(* The tick comes round, and differences of ticks do not.                  *)
LEMMA RoundTick ==
  ASSUME NEW n \in 0 .. Width - 1
  PROVE  n % Width = n /\ (n - Width) % Width = n /\ (n + Width) % Width = n
  <1>1. Width \in Nat \ {0}  BY CycleAssumption
  <1>2. n % Width = n  BY <1>1, SMT
  <1>3. (n - Width) % Width = n  BY <1>1, SMT
  <1>4. (n + Width) % Width = n  BY <1>1, SMT
  <1> QED  BY <1>2, <1>3, <1>4

LEMMA TickAfter ==
  ASSUME NEW t \in 0 .. Width - 1, NEW d \in 0 .. Width - 1
  PROVE  /\ (t + d) % Width \in 0 .. Width - 1
         /\ (t + d) % Width = t + d \/ (t + d) % Width = t + d - Width
  <1>1. Width \in Nat \ {0}  BY CycleAssumption
  <1>2. CASE t + d < Width
    <2>1. t + d \in 0 .. Width - 1  BY <1>1, <1>2
    <2> QED  BY <2>1, RoundTick
  <1>3. CASE ~(t + d < Width)
    <2>1. PICK n \in 0 .. Width - 1 : t + d = n + Width
      <3>1. t + d - Width \in 0 .. Width - 1 /\ t + d = (t + d - Width) + Width
        BY <1>1, <1>3
      <3> QED  BY <3>1
    <2>2. (t + d) % Width = n  BY <2>1, RoundTick
    <2> QED  BY <1>1, <2>1, <2>2
  <1> QED  BY <1>2, <1>3

(* Whole seconds.                                                          *)
LEMMA Seconds ==
  ASSUME NEW n \in Nat
  PROVE  /\ n \div Second \in Nat
         /\ (n \div Second) * Second <= n
         /\ n < (n \div Second) * Second + Second
  <1>1. Second \in Nat \ {0}  BY CycleAssumption
  <1> QED  BY <1>1, SMT

KnownAge == true_age \in 0 .. Width - 1

(* The true age is the difference of the ticks, until it is a whole round. *)
TickInStep ==
  KnownAge => tick = last_ok_ms + true_age \/ tick = last_ok_ms + true_age - Width

(* The register was right at the start of this cycle.                      *)
AgeInCycle ==
  KnownAge /\ last_ok_ms # 0 =>
    /\ age_sec * Second <= true_age
    /\ age_sec < Top => true_age < (age_sec * Second + Second) + elapsed

AgeInv == TickInStep /\ AgeInCycle /\ (pc = "start" => elapsed <= StartLimit)

LEMMA InitAge == Init => AgeInv
  BY ConstantFacts DEF Init, AgeInv, TickInStep, AgeInCycle, KnownAge, Never, StartLimit, Larger,
                       CycleLimit

(* Time passes.                                                            *)
LEMMA AgeWaits ==
  ASSUME PollTypeOK, AgeInv, NEW d \in Nat,
         tick' = (tick + d) % Width, true_age' = Older(true_age, d), elapsed' = elapsed + d,
         last_ok_ms' = last_ok_ms, age_sec' = age_sec
  PROVE  TickInStep' /\ AgeInCycle'
  <1>1. /\ Width \in Nat \ {0} /\ tick \in 0 .. Width - 1 /\ last_ok_ms \in 0 .. Width - 1
        /\ true_age \in Never .. Width /\ age_sec \in Nat /\ elapsed \in Nat
        /\ Second \in Nat
    BY CycleAssumption DEF PollTypeOK
  <1>2. SUFFICES ASSUME KnownAge'
                 PROVE  /\ tick' = last_ok_ms + true_age' \/ tick' = last_ok_ms + true_age' - Width
                        /\ last_ok_ms # 0 =>
                             /\ age_sec * Second <= true_age'
                             /\ age_sec < Top =>
                                  true_age' < (age_sec * Second + Second) + elapsed'
    BY DEF TickInStep, AgeInCycle
  <1>3. KnownAge /\ true_age' = true_age + d /\ d \in 0 .. Width - 1 /\ true_age \in Nat
    <2>1. true_age' \in 0 .. Width - 1  BY <1>2 DEF KnownAge
    <2>2. true_age # Never /\ true_age \in 0 .. Width
      BY <1>1, <2>1 DEF Older, Never
    <2>3. true_age' = AtMost(true_age + d, Width)  BY <2>2 DEF Older
    <2>4. true_age' = true_age + d  BY <1>1, <2>1, <2>2, <2>3 DEF AtMost
    <2> QED  BY <1>1, <2>1, <2>2, <2>4 DEF KnownAge
  <1>4. /\ tick' \in 0 .. Width - 1
        /\ tick' = tick + d \/ tick' = tick + d - Width
    BY <1>1, <1>3, TickAfter
  <1>5. tick = last_ok_ms + true_age \/ tick = last_ok_ms + true_age - Width
    BY <1>3 DEF AgeInv, TickInStep
  <1>6. true_age + d < Width
    BY <1>1, <1>2, <1>3 DEF KnownAge
  <1>7. tick' = last_ok_ms + true_age' \/ tick' = last_ok_ms + true_age' - Width
    BY <1>1, <1>3, <1>4, <1>5, <1>6
  <1>8. ASSUME last_ok_ms # 0
        PROVE  /\ age_sec * Second <= true_age'
               /\ age_sec < Top => true_age' < (age_sec * Second + Second) + elapsed'
    <2> DEFINE a == age_sec * Second
    <2>1. a \in Nat  BY <1>1, TimesNat
    <2>2. a <= true_age /\ (age_sec < Top => true_age < (a + Second) + elapsed)
      BY <1>3, <1>8 DEF AgeInv, AgeInCycle
    <2> HIDE DEF a
    <2>3. a <= true_age' /\ (age_sec < Top => true_age' < (a + Second) + elapsed')
      BY <1>1, <1>3, <2>1, <2>2
    <2> QED  BY <2>3 DEF a
  <1> QED  BY <1>7, <1>8

(* The register is brought up to date.                                     *)
LEMMA AgeUpdated ==
  ASSUME PollTypeOK, AgeInv, UpdateAges
  PROVE  TickInStep' /\ AgeInCycle'
  <1>1. /\ Width \in Nat \ {0} /\ tick \in 0 .. Width - 1 /\ last_ok_ms \in 0 .. Width - 1
        /\ Second \in Nat /\ Top \in Nat
    BY CycleAssumption DEF PollTypeOK
  <1>2. UNCHANGED <<tick, last_ok_ms, true_age>> /\ elapsed' = 0
    BY DEF UpdateAges
  <1>3. TickInStep'
    BY <1>2 DEF AgeInv, TickInStep, KnownAge
  <1>4. ASSUME KnownAge, last_ok_ms # 0
        PROVE  /\ age_sec' * Second <= true_age
               /\ age_sec' < Top => true_age < age_sec' * Second + Second
    <2>1. true_age \in 0 .. Width - 1 /\ true_age \in Nat
      BY <1>4 DEF KnownAge
    <2>2. (tick - last_ok_ms) % Width = true_age
      <3>1. tick - last_ok_ms = true_age \/ tick - last_ok_ms = true_age - Width
        BY <1>1, <1>4, <2>1 DEF AgeInv, TickInStep
      <3> QED  BY <2>1, <3>1, RoundTick
    <2>3. PICK n \in Nat : n = true_age \div Second
      BY <2>1, Seconds
    <2>4. age_sec' = AtMost(n, Top)
      BY <1>4, <2>2, <2>3 DEF UpdateAges, AgeNow
    <2>5. n * Second <= true_age /\ true_age < n * Second + Second
      BY <2>1, <2>3, Seconds
    <2>6. CASE n <= Top
      <3>1. age_sec' = n  BY <2>4, <2>6 DEF AtMost
      <3> QED  BY <2>5, <3>1
    <2>7. CASE ~(n <= Top)
      <3>1. age_sec' = Top /\ Top <= n  BY <1>1, <2>4, <2>7 DEF AtMost
      <3>2. Top * Second <= n * Second  BY <1>1, <3>1, TimesMono
      <3>3. Top * Second \in Int /\ n * Second \in Int  BY <1>1
      <3>4. Top * Second <= true_age  BY <2>1, <2>5, <3>2, <3>3
      <3> QED  BY <1>1, <3>1, <3>4
    <2> QED  BY <2>6, <2>7
  <1>5. age_sec' * Second \in Int
    <2>1. age_sec' \in Int  BY <1>1, TypeStep DEF PollTypeOK, Next
    <2> QED  BY <1>1, <2>1
  <1>6. AgeInCycle'
    BY <1>1, <1>2, <1>4, <1>5 DEF AgeInCycle, KnownAge
  <1> QED  BY <1>3, <1>6

(* The block is read.                                                      *)
LEMMA AgeRead ==
  ASSUME PollTypeOK, AgeInv, NEW d \in Nat, NEW ok \in BOOLEAN, Telemetry(ok, d)
  PROVE  TickInStep' /\ AgeInCycle'
  <1>1. tick' = (tick + d) % Width /\ elapsed' = elapsed + d
    BY DEF Telemetry, Advance
  <1>2. CASE s = Watched /\ ok
    <2>1. last_ok_ms' = tick /\ age_sec' = 0 /\ true_age' = AtMost(d, Width)
      BY <1>2 DEF Telemetry, UpdateTelemetry
    <2>2. Width \in Nat \ {0} /\ tick \in 0 .. Width - 1 /\ elapsed \in Nat /\ Second \in Nat \ {0}
      BY CycleAssumption DEF PollTypeOK
    <2>3. ASSUME KnownAge'
          PROVE  true_age' = d /\ d \in 0 .. Width - 1
      BY <2>1, <2>2, <2>3 DEF KnownAge, AtMost
    <2>4. KnownAge' => tick' = tick + d \/ tick' = tick + d - Width
      BY <1>1, <2>2, <2>3, TickAfter
    <2>5. TickInStep'
      BY <2>1, <2>3, <2>4 DEF TickInStep
    <2>6. 0 * Second = 0
      BY <2>2
    <2>7. KnownAge' => 0 <= true_age' /\ true_age' < (0 + Second) + elapsed'
      BY <1>1, <2>2, <2>3
    <2>8. AgeInCycle'
      BY <2>1, <2>6, <2>7 DEF AgeInCycle
    <2> QED  BY <2>5, <2>8
  <1>3. CASE ~(s = Watched /\ ok)
    <2>1. true_age' = Older(true_age, d) /\ last_ok_ms' = last_ok_ms /\ age_sec' = age_sec
      BY <1>3 DEF Telemetry, ReportTimeout, mapVars
    <2> QED  BY <1>1, <2>1, AgeWaits
  <1> QED  BY <1>2, <1>3

(* A cycle, and the rest after it, are bounded.                            *)
LEMMA InCycle == CycleInv => (pc # "start" => elapsed <= CycleLimit)
  <1> SUFFICES ASSUME CycleInv, pc # "start" PROVE elapsed <= CycleLimit
    OBVIOUS
  <1> USE ConstantFacts
  <1>1. elapsed \in Nat /\ s \in Slaves /\ pending \in 0 .. MaxPending
    BY DEF CycleInv, PollTypeOK
  <1>2. /\ Applied \in Nat /\ Applied <= ForApply /\ Before \in Nat
        /\ Before + PerSlave <= NumSlaves * PerSlave
    BY <1>1, StateFacts
  <1>3. Spent \in Nat /\ Spent <= PerSlave  BY DEF Spent
  <1>4. elapsed <= Before + Spent + Applied  BY DEF CycleInv
  <1> QED  BY <1>1, <1>2, <1>3, <1>4 DEF CycleLimit

LEMMA LimitFacts ==
  CycleLimit \in Nat /\ StartLimit \in Nat /\ CycleLimit < StartLimit /\ Period <= StartLimit
  BY ConstantFacts DEF CycleLimit, StartLimit, Larger

LEMMA StartInTime ==
  ASSUME CycleInv, AgeInv, [Next]_vars, pc' = "start"
  PROVE  elapsed' <= StartLimit
  <1> USE LimitFacts
  <1>1. CASE EndCycle
    <2>1. elapsed' = elapsed + Rest /\ elapsed <= CycleLimit
      BY <1>1, InCycle DEF EndCycle
    <2>2. elapsed \in Nat /\ Period \in Nat
      BY ConstantFacts DEF CycleInv, PollTypeOK
    <2>3. CASE elapsed < Period
      BY <2>1, <2>2, <2>3 DEF Rest
    <2>4. CASE ~(elapsed < Period)
      BY <2>1, <2>2, <2>4 DEF Rest
    <2> QED  BY <2>3, <2>4
  <1>2. CASE UNCHANGED vars
    BY <1>2 DEF vars, timeVars, AgeInv
  <1>3. CASE Next /\ ~EndCycle
    BY <1>3 DEF Next, UpdateAges, Telemetry, Diagnostics, NothingPending, ApplyRequest, NextSlave
  <1> QED  BY <1>1, <1>2, <1>3

LEMMA NextAge == CycleInv /\ AgeInv /\ [Next]_vars => AgeInv'
  <1> SUFFICES ASSUME CycleInv, AgeInv, [Next]_vars PROVE AgeInv'  OBVIOUS
  <1>1. PollTypeOK  BY DEF CycleInv
  <1>2. SUFFICES TickInStep' /\ AgeInCycle'
    BY StartInTime DEF AgeInv
  <1>3. CASE UpdateAges
    BY <1>1, <1>3, AgeUpdated
  <1>4. ASSUME NEW d \in Durations, NEW ok \in BOOLEAN, Telemetry(ok, d)
        PROVE  TickInStep' /\ AgeInCycle'
    BY <1>1, <1>4, DurationFacts, AgeRead
  <1>5. ASSUME NEW d \in Nat, Wait(d), UNCHANGED mapVars
        PROVE  TickInStep' /\ AgeInCycle'
    BY <1>1, <1>5, AgeWaits DEF Wait, Advance, mapVars
  <1>6. ASSUME NEW d \in Durations, Diagnostics(d) PROVE TickInStep' /\ AgeInCycle'
    BY <1>5, <1>6, DurationFacts DEF Diagnostics
  <1>7. ASSUME NEW d \in 0 .. NumWrites * Slow, ApplyRequest(d) PROVE TickInStep' /\ AgeInCycle'
    BY <1>5, <1>7, ConstantFacts DEF ApplyRequest
  <1>8. CASE NextSlave
    BY <1>5, <1>8 DEF NextSlave
  <1>9. CASE EndCycle
    <2>1. Rest \in Nat  BY <1>1, ConstantFacts DEF Rest, PollTypeOK
    <2>2. PICK d \in Nat : d = Rest  BY <2>1
    <2>3. /\ tick' = (tick + d) % Width /\ true_age' = Older(true_age, d)
          /\ elapsed' = elapsed + d /\ last_ok_ms' = last_ok_ms /\ age_sec' = age_sec
      BY <1>9, <2>2 DEF EndCycle, mapVars
    <2> QED  BY <1>1, <2>3, AgeWaits
  <1>10. CASE NothingPending \/ UNCHANGED vars
    BY <1>10 DEF NothingPending, vars, mapVars, timeVars, AgeInv, TickInStep, AgeInCycle, KnownAge
  <1> QED  BY <1>3, <1>4, <1>6, <1>7, <1>8, <1>9, <1>10 DEF Next

LEMMA AgeFollows == CycleInv /\ AgeInv => AgeIsClose
  <1> SUFFICES ASSUME CycleInv, AgeInv, true_age \in 0 .. Width - 1, last_ok_ms # 0
               PROVE  /\ age_sec * Second <= true_age
                      /\ age_sec < Top => true_age < (age_sec + 1) * Second + StartLimit
    BY DEF AgeIsClose
  <1>1. age_sec \in Nat /\ Second \in Nat /\ elapsed \in Nat /\ true_age \in Nat
    BY CycleAssumption DEF CycleInv, PollTypeOK
  <1>2. (age_sec + 1) * Second = age_sec * Second + Second
    BY <1>1, TimesSucc
  <1>3. age_sec * Second \in Nat
    BY <1>1, TimesNat
  <1>4. elapsed <= StartLimit /\ StartLimit \in Nat
    BY <1>1, InCycle, LimitFacts DEF AgeInv
  <1> QED  BY <1>1, <1>2, <1>3, <1>4 DEF AgeInv, AgeInCycle, KnownAge

(* The age a client reads is behind the true one by a cycle and a second   *)
(* at most, and never ahead of it, for any tick width and any timing.      *)
THEOREM AgeCorrect == Spec => []AgeIsClose
  BY InitCycle, NextCycle, InitAge, NextAge, AgeFollows, PTL DEF Spec

=============================================================================
