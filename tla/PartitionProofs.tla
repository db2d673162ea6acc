-------------------------- MODULE PartitionProofs --------------------------
(* Proofs about PartitionRollover, for every number of years, workers and    *)
(* faults.                                                                   *)
EXTENDS PartitionRollover, TLAPS

-----------------------------------------------------------------------------
(* The calendar.                                                             *)

\* The real calendar stays within the months and goes one month forward.
LEMMA AfterIsNext ==
  ASSUME NEW d \in Months
  PROVE  MonthAfter(d) \in Months /\ Index(MonthAfter(d)) = Index(d) + 1
  BY DEF Months, MonthAfter, Index, date

\* _create_partition_async computes the bounds of the month after its date.
LEMMA BoundsAreNext ==
  ASSUME NEW d \in Months
  PROVE  /\ next_start(d) \in Months /\ Index(next_start(d)) = Index(d) + 1
         /\ next_end(d) \in Months /\ Index(next_end(d)) = Index(d) + 2
  BY DEF Months, next_start, next_end, Index, date

\* A date determines its index and is determined by it.
LEMMA IndexIsInjective ==
  ASSUME NEW d \in Months, NEW e \in Months
  PROVE  /\ Index(d) \in Nat
         /\ Index(d) = Index(e) => d = e
  BY DEF Months, Index

\* Every month of a partition that keeps OneMonthEach is the one in its name.
LEMMA NamedIsCovered ==
  ASSUME NEW p, p.name \in Months, p.name = p.from, Index(p.to) = Index(p.from) + 1
  PROVE  Holds(p, p.name)
  BY DEF Holds, Months, Index

\* Once covered, a month stays covered as long as no table is dropped.
LEMMA CoverStays ==
  ASSUME partitions \subseteq partitions', NEW d, Covered(d)
  PROVE  Covered(d)'
  BY DEF Covered, Holds

-----------------------------------------------------------------------------
(* The inductive invariant.                                                  *)

LEMMA RolloverInit ==
  ASSUME Deploys \subseteq InTime
  PROVE  Init => RolloverInv
<1> SUFFICES ASSUME Init PROVE RolloverInv
  OBVIOUS
<1> USE PartitionAssumption
<1>1. today \in {date(2026, 6), date(2026, 7)} /\ (today = date(2026, 6) \/ due)
  <2>1. deployed \in InTime
    BY DEF Init
  <2>2. deployed.month \in {date(2026, 6), date(2026, 7)}
    BY <2>1 DEF InTime
  <2>3. deployed.month = date(2026, 6) \/ ~ deployed.ticked
    BY <2>1 DEF InTime
  <2>4. today = deployed.month
    BY DEF Init
  <2>5. ~ deployed.ticked => due
    BY Zenon DEF Init
  <2>6. today = date(2026, 6) \/ due
    <3>1. CASE deployed.month = date(2026, 6)
      BY <2>4, <3>1
    <3>2. CASE ~ deployed.ticked
      BY <2>5, <3>2
    <3> QED
      BY <2>3, <3>1, <3>2
  <2> QED
    BY <2>2, <2>4, <2>6
<1>2. TypeOK
  <2>1. partitions \subseteq [name : Months, from : Months, to : Months]
    <3>1. date(2026, 6) \in Months /\ date(2026, 7) \in Months /\ date(2026, 8) \in Months
      BY DEF Months, date
    <3> QED
      BY <3>1 DEF Init, Table
  <2>2. today \in Months /\ deployed \in Deploys /\ due \in BOOLEAN
    BY DEF Init
  <2>3. read \in [Workers -> Months \cup {NoDate}]
    BY DEF Init
  <2> QED
    BY <2>1, <2>2, <2>3 DEF Init, TypeOK
<1>3. OneMonthEach
  BY DEF Init, OneMonthEach, Table, Index, date
<1>4. Covered(date(2026, 6)) /\ Covered(date(2026, 7))
  BY DEF Init, Covered, Holds, Table, Index, date
<1>5. GapNeedsOutage
  BY <1>1, <1>4 DEF GapNeedsOutage
<1>6. CASE today = date(2026, 6)
  <2>1. MonthAfter(today) = date(2026, 7)
    BY <1>6 DEF MonthAfter, Index, date
  <2> QED
    BY <1>2, <1>3, <1>4, <1>5, <2>1 DEF RolloverInv
<1>7. CASE due
  BY <1>2, <1>3, <1>5, <1>7 DEF RolloverInv
<1> QED
  BY <1>1, <1>6, <1>7

\* beat sends the tick.
LEMMA Keeps_BeatTick == RolloverInv /\ BeatTick => RolloverInv'
<1> SUFFICES ASSUME RolloverInv, BeatTick PROVE RolloverInv'
  OBVIOUS
<1>1. TypeOK'
  <2>1. due' \in BOOLEAN
    BY DEF BeatTick
  <2> QED
    BY <2>1 DEF RolloverInv, TypeOK, BeatTick
<1>2. OneMonthEach' /\ GapNeedsOutage'
  BY DEF RolloverInv, OneMonthEach, GapNeedsOutage, Covered, Holds, BeatTick
<1>3. queued' > 0
  BY DEF RolloverInv, TypeOK, BeatTick
<1> QED
  BY <1>1, <1>2, <1>3 DEF RolloverInv

\* A worker takes the message and reads the date.
LEMMA Keeps_StartRun ==
  ASSUME NEW w \in Workers PROVE RolloverInv /\ StartRun(w) => RolloverInv'
<1> SUFFICES ASSUME RolloverInv, StartRun(w) PROVE RolloverInv'
  OBVIOUS
<1>1. TypeOK'
  BY DEF RolloverInv, TypeOK, StartRun
<1>2. OneMonthEach' /\ GapNeedsOutage'
  BY DEF RolloverInv, OneMonthEach, GapNeedsOutage, Covered, Holds, StartRun
<1>3. read'[w] = today'
  BY DEF RolloverInv, TypeOK, StartRun
<1> QED
  BY <1>1, <1>2, <1>3 DEF RolloverInv

\* The statement creates the month after the date that was read, unless the
\* table is there already.
LEMMA Keeps_CreatePartition ==
  ASSUME NEW w \in Workers PROVE RolloverInv /\ CreatePartition(w) => RolloverInv'
<1> SUFFICES ASSUME RolloverInv, CreatePartition(w) PROVE RolloverInv'
  OBVIOUS
<1> DEFINE new == Table(next_start(read[w]), next_end(read[w]))
<1>1. read[w] \in Months
  BY DEF RolloverInv, TypeOK, CreatePartition
<1>2. /\ new.name = new.from /\ new.name = next_start(read[w])
      /\ new.name \in Months /\ new.from \in Months /\ new.to \in Months
      /\ new \in [name : Months, from : Months, to : Months]
      /\ Index(new.to) = Index(new.from) + 1
  <2>1. new \in [name : Months, from : Months, to : Months]
    BY <1>1, BoundsAreNext DEF Table
  <2> QED
    BY <1>1, <2>1, BoundsAreNext DEF Table, Months, Index
<1>3. partitions \subseteq partitions' /\ partitions' \subseteq partitions \cup {new}
  BY DEF CreatePartition
<1>4. TypeOK'
  <2>1. read' \in [Workers -> Months \cup {NoDate}]
    BY DEF RolloverInv, TypeOK, CreatePartition
  <2> QED
    BY <1>2, <1>3, <2>1 DEF RolloverInv, TypeOK, CreatePartition
<1>5. OneMonthEach'
  BY <1>2, <1>3 DEF RolloverInv, OneMonthEach
<1>6. \E p \in partitions' : p.name = next_start(read[w])
  BY <1>2 DEF CreatePartition
<1>7. \E p \in partitions' : Holds(p, next_start(read[w]))
  <2>1. PICK p \in partitions' : p.name = next_start(read[w])
    BY <1>6
  <2>2. p.name \in Months /\ p.name = p.from /\ Index(p.to) = Index(p.from) + 1
    BY <1>1, <1>5, <2>1, BoundsAreNext DEF OneMonthEach
  <2>3. Holds(p, next_start(read[w]))
    BY <2>1, <2>2, NamedIsCovered
  <2> QED
    BY <2>1, <2>3
<1>8. GapNeedsOutage'
  BY <1>3, CoverStays DEF RolloverInv, GapNeedsOutage, CreatePartition, Covered, Holds
<1>9. CASE read[w] = today
  <2>1. next_start(read[w]) = MonthAfter(today)
    BY <1>1, <1>9, BoundsAreNext, AfterIsNext, IndexIsInjective
  <2>2. Covered(MonthAfter(today))'
    BY <1>7, <2>1 DEF CreatePartition, Covered, Holds
  <2> QED
    BY <1>4, <1>5, <1>8, <2>2 DEF RolloverInv
<1>10. CASE read[w] # today
  <2>1. Covered(MonthAfter(today)) => Covered(MonthAfter(today))'
    BY <1>3 DEF Covered, Holds, CreatePartition
  <2>2. (\E v \in Workers : read[v] = today) => \E v \in Workers : read'[v] = today'
    BY <1>10 DEF RolloverInv, TypeOK, CreatePartition
  <2> QED
    BY <1>4, <1>5, <1>8, <2>1, <2>2 DEF RolloverInv, CreatePartition
<1> QED
  BY <1>9, <1>10

\* A failed run is an outage of the month whose date it had read.
LEMMA Keeps_RunFails ==
  ASSUME NEW w \in Workers PROVE RolloverInv /\ RunFails(w) => RolloverInv'
<1> SUFFICES ASSUME RolloverInv, RunFails(w) PROVE RolloverInv'
  OBVIOUS
<1>1. TypeOK'
  BY DEF RolloverInv, TypeOK, RunFails
<1>2. OneMonthEach' /\ GapNeedsOutage'
  BY DEF RolloverInv, OneMonthEach, GapNeedsOutage, Covered, Holds, RunFails
<1>3. (\E v \in Workers : read[v] = today) =>
        (today' \in outages' \/ \E v \in Workers : read'[v] = today')
  BY DEF RolloverInv, TypeOK, RunFails
<1>4. Covered(MonthAfter(today)) => Covered(MonthAfter(today))'
  BY DEF Covered, Holds, RunFails
<1> QED
  BY <1>1, <1>2, <1>3, <1>4 DEF RolloverInv, RunFails

\* The month ends: its successor is covered, or the month was an outage.
LEMMA Keeps_NextMonth == RolloverInv /\ NextMonth => RolloverInv'
<1> SUFFICES ASSUME RolloverInv, NextMonth PROVE RolloverInv'
  OBVIOUS
<1> USE PartitionAssumption
<1>1. today \in Months /\ today' = MonthAfter(today)
  BY DEF RolloverInv, TypeOK, NextMonth
<1>2. TypeOK'
  BY <1>1, AfterIsNext DEF RolloverInv, TypeOK, NextMonth
<1>3. OneMonthEach'
  BY DEF RolloverInv, OneMonthEach, NextMonth
<1>4. Covered(today') => Covered(today)'
  BY DEF Covered, Holds, NextMonth
<1>5. today \in outages' \/ Covered(MonthAfter(today))
  BY <1>1 DEF RolloverInv, NextMonth
<1>6. GapNeedsOutage'
  BY <1>1, <1>4, <1>5, AfterIsNext DEF GapNeedsOutage
<1> QED
  BY <1>2, <1>3, <1>6 DEF RolloverInv, NextMonth

LEMMA RolloverInductive == RolloverInv /\ [Next]_vars => RolloverInv'
<1>1. RolloverInv /\ UNCHANGED vars => RolloverInv'
  BY DEF vars, RolloverInv, TypeOK, OneMonthEach, GapNeedsOutage, Covered, Holds
<1> QED
  BY <1>1, Keeps_BeatTick, Keeps_StartRun, Keeps_CreatePartition, Keeps_RunFails,
     Keeps_NextMonth DEF Next, RunStep

-----------------------------------------------------------------------------
(* A system that was set up in time keeps the invariant.                     *)
THEOREM RolloverHolds ==
  ASSUME Deploys \subseteq InTime PROVE Spec => []RolloverInv
  BY RolloverInit, RolloverInductive, PTL DEF Spec

(* Every partition the task ever creates covers exactly the month in its     *)
(* name, over every year end.                                                *)
THEOREM PartitionsAreMonths ==
  ASSUME Deploys \subseteq InTime PROVE Spec => []OneMonthEach
<1>1. RolloverInv => OneMonthEach
  BY DEF RolloverInv
<1> QED
  BY <1>1, RolloverHolds, PTL

(* A month without a partition follows an outage of the monthly task: late,  *)
(* lost and overlapping runs leave no other gap.                             *)
THEOREM GapsFollowOutages ==
  ASSUME Deploys \subseteq InTime PROVE Spec => []GapNeedsOutage
<1>1. RolloverInv => GapNeedsOutage
  BY DEF RolloverInv
<1> QED
  BY <1>1, RolloverHolds, PTL

(* Partitions, messages and runs keep their types.                           *)
THEOREM TypeCorrect ==
  ASSUME Deploys \subseteq InTime PROVE Spec => []TypeOK
<1>1. RolloverInv => TypeOK
  BY DEF RolloverInv
<1> QED
  BY <1>1, RolloverHolds, PTL
=============================================================================
