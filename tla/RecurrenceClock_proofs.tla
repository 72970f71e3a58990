------------------------ MODULE RecurrenceClock_proofs ------------------------
(***************************************************************************)
(* Theorems about RecurrenceClock, for any cron expressions and dates:     *)
(* as long as every delay fits in a timer, no occurrence is early, double  *)
(* or skipped, and a recurring task has its timer armed.                   *)
(***************************************************************************)
EXTENDS RecurrenceClock, WellFoundedInduction, TLAPS

\* Every delay setTimeout is given fits in its 31 bits.
DelaysFit == \A d \in AllDates : d <= MaxDelay

LEMMA DatesAreNat == AllDates \subseteq Nat /\ \A c \in Crons : Dates[c] \subseteq AllDates
BY ClockConstants DEF AllDates

\* A non-empty set of dates has a first one.
LEMMA FirstDate ==
    ASSUME NEW S, S \subseteq Nat, S # {}
    PROVE  \E d \in S : \A e \in S : d <= e
<1>1. PICK d \in S : \A e \in S : <<e, d>> \notin OpToRel(<, Nat)
  BY NatLessThanWellFounded, WFMin
<1>2. \A e \in S : ~(e < d)
  BY <1>1 DEF OpToRel
<1> QED
  BY <1>2

\* getNextTaskRecurrenceDate returns the first matching date after the reference.
LEMMA NextDateFirst ==
    ASSUME NEW c \in Crons, NEW ref \in Nat, Later(c, ref) # {}
    PROVE  /\ NextDate(c, ref) \in Dates[c]
           /\ NextDate(c, ref) \in AllDates
           /\ NextDate(c, ref) \in Nat
           /\ NextDate(c, ref) > ref
           /\ \A d \in Dates[c] : d > ref => NextDate(c, ref) <= d
<1>1. Later(c, ref) \subseteq Nat
  BY DatesAreNat DEF Later
<1>2. \E d \in Later(c, ref) : \A e \in Later(c, ref) : d <= e
  BY <1>1, FirstDate
<1>3. /\ NextDate(c, ref) \in Later(c, ref)
      /\ \A e \in Later(c, ref) : NextDate(c, ref) <= e
  BY <1>2 DEF NextDate
<1> QED
  BY <1>3, DatesAreNat DEF Later

\* A timer whose delay fits fires at its date, or at once when the date is past.
LEMMA FiresAtDate ==
    ASSUME DelaysFit, now \in Nat, NEW d \in AllDates
    PROVE  FiresAt(d) \in Nat /\ FiresAt(d) >= d
<1>1. d \in Nat /\ d <= MaxDelay /\ MaxDelay \in Nat
  BY DatesAreNat, ClockConstants DEF DelaysFit
<1>2. CASE d > now
  <2>1. d - now \in Nat /\ d - now <= MaxDelay
    BY <1>1, <1>2
  <2> QED
    BY <1>1, <1>2, <2>1 DEF FiresAt, Delay
<1>3. CASE ~(d > now)
  BY <1>1, <1>3 DEF FiresAt, Delay
<1> QED
  BY <1>2, <1>3

LEMMA InitTypeOK == Init => TypeOK
<1> SUFFICES ASSUME Init PROVE TypeOK
  OBVIOUS
<1>1. 0 \in 0..MaxTime
  BY ClockConstants
<1>2. created \in [AllDates -> Nat]
  BY DEF Init
<1> QED
  BY <1>1, <1>2 DEF Init, TypeOK

LEMMA SyncType ==
    ASSUME TypeOK, NEW c \in Crons, NEW ref \in Nat, Sync(c, ref)
    PROVE  /\ recurringJobId' \in BOOLEAN
           /\ recurringNextDate' \in AllDates \cup {None}
           /\ timer' \in Nat \cup {None}
<1>1. CASE Later(c, ref) # {}
  <2>1. NextDate(c, ref) \in AllDates /\ NextDate(c, ref) \in Nat
    BY <1>1, NextDateFirst
  <2>2. now \in Nat
    BY ClockConstants DEF TypeOK
  <2>3. FiresAt(NextDate(c, ref)) \in Nat
    BY <2>1, <2>2 DEF FiresAt, Delay
  <2> QED
    BY <1>1, <2>1, <2>3 DEF Sync
<1>2. CASE Later(c, ref) = {}
  BY <1>2 DEF Sync, TypeOK
<1> QED
  BY <1>1, <1>2

-----------------------------------------------------------------------------
\* The inductive invariant: the armed run is for the first date nothing has been
\* created for, and does not fire before it.
Armed ==
    timer # None =>
        /\ recurring # NoCron
        /\ recurringNextDate \in AllDates
        /\ recurringNextDate <= timer
        /\ \A d \in AllDates : d >= recurringNextDate => created[d] = 0

ClockInv ==
    /\ TypeOK
    /\ Armed
    /\ NeverEarly
    /\ NeverTwice
    /\ NoneSkipped
    /\ ArmedWhileRecurring

LEMMA InitInv == Init => ClockInv
BY InitTypeOK DEF Init, ClockInv, Armed, NeverEarly, NeverTwice, NoneSkipped, ArmedWhileRecurring

\* What arming the next run leaves to show of the dates.
LEMMA SyncArms ==
    ASSUME DelaysFit, TypeOK, NEW c \in Crons, NEW ref \in Nat, Sync(c, ref), ref <= now,
           recurring' = c,
           \A d \in AllDates : d > ref => created'[d] = 0
    PROVE  Armed' /\ ArmedWhileRecurring'
<1>0. now \in Nat /\ now <= MaxTime /\ MaxTime \in Nat
  BY ClockConstants DEF TypeOK
<1>1. CASE Later(c, ref) # {}
  <2> DEFINE next == NextDate(c, ref)
  <2>1. next \in AllDates /\ next \in Nat /\ next > ref
    BY <1>1, NextDateFirst
  <2>2. FiresAt(next) \in Nat /\ FiresAt(next) >= next
    BY <2>1, <1>0, FiresAtDate
  <2>3. timer' = FiresAt(next) /\ recurringNextDate' = next
    BY <1>1 DEF Sync
  <2> HIDE DEF next
  <2>4. \A d \in AllDates : d >= next => created'[d] = 0
    <3> TAKE d \in AllDates
    <3>1. d \in Nat
      BY DatesAreNat
    <3>2. d >= next => d > ref
      BY <2>1, <3>1
    <3> QED
      BY <3>2
  <2>5. timer' # None /\ recurring' # NoCron
    BY <2>2, <2>3, ClockConstants
  <2> QED
    BY <2>1, <2>2, <2>3, <2>4, <2>5 DEF Armed, ArmedWhileRecurring
<1>2. CASE Later(c, ref) = {}
  <2>1. timer' = None
    BY <1>2 DEF Sync
  <2>2. Later(c, MaxTime) = {}
    <3>1. \A d \in Dates[c] : d \in Nat /\ ~(d > ref)
      BY <1>2, DatesAreNat DEF Later
    <3>2. \A d \in Dates[c] : ~(d > MaxTime)
      BY <1>0, <3>1
    <3> QED
      BY <3>2 DEF Later
  <2> QED
    BY <2>1, <2>2 DEF Armed, ArmedWhileRecurring, Later
<1> QED
  BY <1>1, <1>2

LEMMA NextInv ==
    ASSUME DelaysFit, ClockInv, [Next]_vars
    PROVE  ClockInv'
<1>0. now \in Nat /\ now <= MaxTime /\ MaxTime \in Nat /\ None \notin Nat
  BY ClockConstants DEF ClockInv, TypeOK
<1>1. CASE UNCHANGED vars
  BY <1>1 DEF vars, ClockInv, TypeOK, Armed, NeverEarly, NeverTwice, NoneSkipped,
              ArmedWhileRecurring, Later
<1>2. ASSUME NEW c \in Crons, SetRecurrence(c) PROVE ClockInv'
  <2>1. Sync(c, now) /\ recurring' = c /\ since' = now /\ UNCHANGED <<now, created>>
    BY <1>2 DEF SetRecurrence
  <2>2. TypeOK'
    BY <1>0, <2>1, SyncType DEF ClockInv, TypeOK
  <2>3. \A d \in AllDates : d > now => created'[d] = 0
    <3> TAKE d \in AllDates
    <3>1. d \in Nat /\ created[d] \in Nat
      BY DatesAreNat DEF ClockInv, TypeOK
    <3>2. created[d] > 0 => d <= now
      BY DEF ClockInv, NeverEarly
    <3> QED
      BY <1>0, <2>1, <3>1, <3>2
  <2>4. Armed' /\ ArmedWhileRecurring'
    BY <1>0, <2>1, <2>3, SyncArms DEF ClockInv
  <2>5. NeverEarly' /\ NeverTwice'
    BY <2>1 DEF ClockInv, NeverEarly, NeverTwice
  <2>6. NoneSkipped'
    <3>1. CASE Later(c, now) # {}
      <4>1. recurringNextDate' = NextDate(c, now)
        BY <2>1, <3>1 DEF Sync
      <4>2. \A d \in Dates[c] : d > now => ~(d < NextDate(c, now))
        <5> TAKE d \in Dates[c]
        <5>1. d \in Nat
          BY DatesAreNat
        <5>2. NextDate(c, now) \in Nat /\ (d > now => NextDate(c, now) <= d)
          BY <1>0, <3>1, NextDateFirst
        <5> QED
          BY <5>1, <5>2
      <4> QED
        BY <2>1, <4>1, <4>2 DEF NoneSkipped
    <3>2. CASE Later(c, now) = {}
      BY <2>1, <3>2 DEF Sync, NoneSkipped
    <3> QED
      BY <3>1, <3>2
  <2> QED
    BY <2>2, <2>4, <2>5, <2>6 DEF ClockInv
<1>3. CASE ClearRecurrence
  <2>1. TypeOK'
    BY <1>3 DEF ClearRecurrence, ClockInv, TypeOK
  <2> QED
    BY <1>3, <2>1 DEF ClearRecurrence, ClockInv, Armed, NeverEarly, NeverTwice, NoneSkipped,
                      ArmedWhileRecurring
<1>4. CASE Run
  <2> DEFINE date == recurringNextDate
  <2>1. /\ Sync(recurring, date)
        /\ created' = [created EXCEPT ![date] = @ + 1]
        /\ UNCHANGED <<now, recurring, since>>
        /\ timer # None /\ timer <= now
    BY <1>4 DEF Run
  <2>2. recurring \in Crons /\ date \in AllDates /\ date \in Nat
    BY <2>1, DatesAreNat DEF ClockInv, Armed, TypeOK
  <2>3. date <= now
    <3>1. timer \in Nat /\ date <= timer
      BY <2>1 DEF ClockInv, Armed, TypeOK
    <3> QED
      BY <1>0, <2>1, <2>2, <3>1
  <2>4. created[date] = 0 /\ created'[date] = 1
    BY <2>1, <2>2 DEF ClockInv, Armed, TypeOK
  <2>5. \A d \in AllDates \ {date} : created'[d] = created[d]
    BY <2>1 DEF ClockInv, TypeOK
  <2>6. created' \in [AllDates -> Nat]
    BY <2>1, <2>2 DEF ClockInv, TypeOK
  <2>7. TypeOK'
    BY <2>1, <2>2, <2>6, SyncType DEF ClockInv, TypeOK
  <2>8. \A d \in AllDates : d > date => created'[d] = 0
    BY <2>1, <2>2, <2>5, DatesAreNat DEF ClockInv, Armed
  <2>9. Armed' /\ ArmedWhileRecurring'
    BY <2>1, <2>2, <2>3, <2>8, SyncArms DEF ClockInv
  <2>10. NeverEarly'
    BY <2>1, <2>2, <2>3, <2>5 DEF ClockInv, NeverEarly
  <2>11. NeverTwice'
    BY <2>4, <2>5 DEF ClockInv, NeverTwice
  <2>12. NoneSkipped'
    <3>1. CASE Later(recurring, date) # {}
      <4>1. recurringNextDate' = NextDate(recurring, date)
        BY <2>1, <3>1 DEF Sync
      <4> SUFFICES ASSUME NEW d \in Dates[recurring], since < d, d < NextDate(recurring, date)
                   PROVE  created'[d] >= 1
        BY <2>1, <4>1 DEF NoneSkipped
      <4>2. d \in AllDates /\ d \in Nat
        BY <2>2, DatesAreNat
      <4>3. CASE d < date
        <5>1. created[d] >= 1
          BY <4>3, <2>1, <2>2 DEF ClockInv, NoneSkipped, Armed
        <5> QED
          BY <5>1, <4>2, <4>3, <2>2, <2>5
      <4>4. CASE d = date
        BY <4>4, <2>4
      <4>5. CASE d > date
        BY <4>2, <4>5, <2>2, <3>1, NextDateFirst
      <4> QED
        BY <4>2, <4>3, <4>4, <4>5, <2>2
    <3>2. CASE Later(recurring, date) = {}
      BY <2>1, <3>2 DEF Sync, NoneSkipped
    <3> QED
      BY <3>1, <3>2
  <2> QED
    BY <2>7, <2>9, <2>10, <2>11, <2>12 DEF ClockInv
<1>5. CASE Tick
  <2>1. now' = now + 1 /\ now' <= MaxTime /\ now' \in Nat
    BY <1>0, <1>5 DEF Tick
  <2>2. TypeOK'
    BY <1>0, <1>5, <2>1 DEF Tick, ClockInv, TypeOK
  <2>3. Armed' /\ NeverTwice' /\ NoneSkipped' /\ ArmedWhileRecurring'
    BY <1>5 DEF Tick, ClockInv, Armed, NeverTwice, NoneSkipped, ArmedWhileRecurring, Later
  <2>4. NeverEarly'
    BY <1>0, <1>5, <2>1, DatesAreNat DEF Tick, ClockInv, NeverEarly
  <2> QED
    BY <2>2, <2>3, <2>4 DEF ClockInv
<1> QED
  BY <1>1, <1>2, <1>3, <1>4, <1>5 DEF Next

\* The inductive invariant holds in every reachable state.
LEMMA ClockSafe ==
    ASSUME DelaysFit
    PROVE  Spec => []ClockInv
BY InitInv, NextInv, PTL DEF Spec

\* No occurrence is created before its date, if every delay fits in a timer.
THEOREM OccurrencesNeverEarly ==
    ASSUME DelaysFit
    PROVE  Spec => []NeverEarly
BY ClockSafe, PTL DEF ClockInv

\* No date gets two occurrences, whatever the lateness and the changes of schedule.
THEOREM OccurrencesNeverTwice ==
    ASSUME DelaysFit
    PROVE  Spec => []NeverTwice
BY ClockSafe, PTL DEF ClockInv

\* A process that sleeps through dates creates an occurrence for each of them.
THEOREM OccurrencesNoneSkipped ==
    ASSUME DelaysFit
    PROVE  Spec => []NoneSkipped
BY ClockSafe, PTL DEF ClockInv

\* A recurring task with a date to come has its timer armed, failed changes included.
THEOREM RecurringIsArmed ==
    ASSUME DelaysFit
    PROVE  Spec => []ArmedWhileRecurring
BY ClockSafe, PTL DEF ClockInv
-----------------------------------------------------------------------------
\* An armed run has a cron and a date, however far away the date is.
ArmedHasDate == timer # None => recurring # NoCron /\ recurringNextDate \in AllDates

LEMMA SyncHasDate ==
    ASSUME TypeOK, NEW c \in Crons, NEW ref \in Nat, Sync(c, ref), recurring' = c
    PROVE  ArmedHasDate'
<1>1. c # NoCron
  BY ClockConstants
<1>2. CASE Later(c, ref) # {}
  BY <1>1, <1>2, NextDateFirst DEF Sync, ArmedHasDate
<1>3. CASE Later(c, ref) = {}
  BY <1>3 DEF Sync, ArmedHasDate
<1> QED
  BY <1>2, <1>3

LEMMA TypeStep == TypeOK /\ ArmedHasDate /\ [Next]_vars => TypeOK' /\ ArmedHasDate'
<1> SUFFICES ASSUME TypeOK, ArmedHasDate, [Next]_vars PROVE TypeOK' /\ ArmedHasDate'
  OBVIOUS
<1>1. now \in Nat /\ MaxTime \in Nat
  BY ClockConstants DEF TypeOK
<1>2. ASSUME NEW c \in Crons, SetRecurrence(c) PROVE TypeOK' /\ ArmedHasDate'
  <2>1. Sync(c, now) /\ recurring' = c /\ since' = now /\ UNCHANGED <<now, created>>
    BY <1>2 DEF SetRecurrence
  <2> QED
    BY <1>1, <2>1, SyncType, SyncHasDate DEF TypeOK
<1>3. CASE ClearRecurrence
  BY <1>3 DEF ClearRecurrence, TypeOK, ArmedHasDate
<1>4. CASE Run
  <2>1. /\ Sync(recurring, recurringNextDate)
        /\ created' = [created EXCEPT ![recurringNextDate] = @ + 1]
        /\ UNCHANGED <<now, recurring, since>> /\ timer # None
    BY <1>4 DEF Run
  <2>2. recurring \in Crons /\ recurringNextDate \in AllDates /\ recurringNextDate \in Nat
    BY <2>1, DatesAreNat DEF TypeOK, ArmedHasDate
  <2>3. created' \in [AllDates -> Nat]
    BY <2>1, <2>2 DEF TypeOK
  <2> QED
    BY <2>1, <2>2, <2>3, SyncType, SyncHasDate DEF TypeOK
<1>5. CASE Tick
  BY <1>1, <1>5 DEF Tick, TypeOK, ArmedHasDate
<1>6. CASE UNCHANGED vars
  BY <1>6 DEF vars, TypeOK, ArmedHasDate
<1> QED
  BY <1>2, <1>3, <1>4, <1>5, <1>6 DEF Next

\* The row and its timer are well-formed, also when a delay does not fit.
THEOREM ClockTypeCorrect == Spec => []TypeOK
<1>1. Init => TypeOK /\ ArmedHasDate
  BY InitTypeOK DEF Init, ArmedHasDate
<1> QED
  BY <1>1, TypeStep, PTL DEF Spec
=============================================================================
