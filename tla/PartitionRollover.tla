------------------------- MODULE PartitionRollover -------------------------
(* The monthly partitions of price_history: the migration creates two, and   *)
(* the task tasks.create_price_history_partition, queued by beat on the 1st  *)
(* of each month, creates the one of the month after the day on which it     *)
(* RUNS.  A row of a month without a partition cannot be inserted.           *)
(*                                                                           *)
(* A date is the 1st of a month; only the month of the clock matters.        *)
EXTENDS Naturals, FiniteSets

CONSTANTS Workers,    \* processes that may run the task at once
          Deploys,    \* [month, ticked]: when the system was set up, and whether
                      \* after beat's tick of that month
          LastYear,   \* bound: the last year of a behaviour
          MaxFaults,  \* bound: failed runs of a behaviour
          NoDate

Months == [year : Nat, month : 1..12]

ASSUME PartitionAssumption ==
  /\ Deploys \subseteq [month : Months, ticked : BOOLEAN]
  /\ LastYear \in Nat /\ MaxFaults \in Nat
  /\ NoDate \notin Months

VARIABLES
  today,       \* the current month
  deployed,    \* the member of Deploys
  partitions,  \* the tables: name and bounds
  due,         \* beat has not sent this month's tick yet
  queued,      \* task messages at the broker
  read,        \* what date.today() returned to each worker's run
  outages,     \* history: months in which the task failed or did not run
  faults

vars == <<today, deployed, partitions, due, queued, read, outages, faults>>

date(y, m) == [year |-> y, month |-> m]

\* Months in the order of time; the calendar goes from each to the next.
Index(d) == 12 * d.year + d.month

MonthAfter(d) == date(Index(d) \div 12, 1 + (Index(d) % 12))

Table(from, to) == [name |-> from, from |-> from, to |-> to]

TypeOK ==
  /\ today \in Months
  /\ deployed \in Deploys
  /\ partitions \subseteq [name : Months, from : Months, to : Months]
  /\ due \in BOOLEAN
  /\ queued \in Nat
  /\ read \in [Workers -> Months \cup {NoDate}]
  /\ outages \subseteq Months
  /\ faults \in Nat

\* A new PersistentScheduler counts from its first start: the tick of the
\* month in which the system is set up is due only if that was before it.
Init ==
  /\ deployed \in Deploys
  /\ today = deployed.month
  /\ partitions = {Table(date(2026, 6), date(2026, 7)), Table(date(2026, 7), date(2026, 8))}
  /\ due = ~ deployed.ticked
  /\ queued = 0
  /\ read = [w \in Workers |-> NoDate]
  /\ outages = {}
  /\ faults = 0

-----------------------------------------------------------------------------
next_start(d) ==
  IF d.month = 12 THEN date(d.year + 1, 1) ELSE date(d.year, d.month + 1)

\* The branch for a next month that is December is left out.
NextEndWithoutDecember(d) ==
  IF d.month = 12 THEN date(d.year + 1, 2) ELSE date(d.year, d.month + 2)

\* In November the year of the end is not advanced.
NextEndSameYear(d) ==
  IF d.month = 12 THEN date(d.year + 1, 2)
  ELSE IF d.month + 1 = 12 THEN date(d.year, 1)
  ELSE date(d.year, d.month + 2)

next_end(d) ==
  IF d.month = 12 THEN date(d.year + 1, 2)
  ELSE IF d.month + 1 = 12 THEN date(d.year + 1, 1)
  ELSE date(d.year, d.month + 2)

\* A tick missed while beat was down is sent once when it is back.
BeatTick ==
  /\ due
  /\ due' = FALSE
  /\ queued' = queued + 1
  /\ UNCHANGED <<today, deployed, partitions, read, outages, faults>>

\* A worker takes the message, acknowledges it and reads the date.
StartRun(w) ==
  /\ read[w] = NoDate
  /\ queued > 0
  /\ queued' = queued - 1
  /\ read' = [read EXCEPT ![w] = today]
  /\ UNCHANGED <<today, deployed, partitions, due, outages, faults>>

\* The run creates the partition of the month it runs in.
CreateCurrent(w) ==
  /\ read[w] # NoDate
  /\ partitions' = IF \E p \in partitions : p.name = read[w] THEN partitions
                   ELSE partitions \cup {Table(read[w], next_start(read[w]))}
  /\ read' = [read EXCEPT ![w] = NoDate]
  /\ UNCHANGED <<today, deployed, due, queued, outages, faults>>

\* CREATE TABLE IF NOT EXISTS ... PARTITION OF, and its commit.
CreatePartition(w) ==
  /\ read[w] # NoDate
  /\ LET new == Table(next_start(read[w]), next_end(read[w]))
     IN partitions' = IF \E p \in partitions : p.name = new.name THEN partitions
                      ELSE partitions \cup {new}
  /\ read' = [read EXCEPT ![w] = NoDate]
  /\ UNCHANGED <<today, deployed, due, queued, outages, faults>>

\* The worker dies or the statement fails; the message is already gone and
\* the task has no retry.
RunFails(w) ==
  /\ read[w] # NoDate
  /\ faults < MaxFaults
  /\ faults' = faults + 1
  /\ outages' = outages \cup {read[w]}
  /\ read' = [read EXCEPT ![w] = NoDate]
  /\ UNCHANGED <<today, deployed, partitions, due, queued>>

\* The month ends, whatever is still to be sent, taken or done.
NextMonth ==
  /\ today.year < LastYear
  /\ today' = MonthAfter(today)
  /\ due' = TRUE
  /\ outages' = IF due \/ queued > 0 \/ \E w \in Workers : read[w] # NoDate
                  THEN outages \cup {today} ELSE outages
  /\ UNCHANGED <<deployed, partitions, queued, read, faults>>

RunStep(w) == StartRun(w) \/ CreatePartition(w) \/ RunFails(w)

Next == BeatTick \/ NextMonth \/ \E w \in Workers : RunStep(w)

Spec == Init /\ [][Next]_vars

-----------------------------------------------------------------------------
(* Properties.                                                               *)

Holds(p, d) == Index(p.from) <= Index(d) /\ Index(d) < Index(p.to)

Covered(d) == \E p \in partitions : Holds(p, d)

\* Every partition covers exactly the month in its name, so that no two
\* overlap (PostgreSQL would refuse the second) and none leaves a hole: the
\* year-end branches of _create_partition_async.
OneMonthEach == \A p \in partitions : p.name = p.from /\ Index(p.to) = Index(p.from) + 1

\* A month in which rows cannot be stored is the month after an outage: when
\* the task did not run in time, its late run skips that month, but every
\* other month is covered when it begins.
GapNeedsOutage ==
  ~ Covered(today) => \E d \in outages : Index(d) + 1 = Index(today)

\* Set up in June 2026, or on the 1st of July before the tick: the partitions
\* of the migration then reach as far as the first run of the task.
InTime == {d \in [month : {date(2026, 6), date(2026, 7)}, ticked : BOOLEAN] :
             d.month = date(2026, 6) \/ ~ d.ticked}

\* The inductive invariant behind GapNeedsOutage: the next month's partition is
\* there, or the run that will create it is still to come, or was missed.
RolloverInv ==
  /\ TypeOK
  /\ OneMonthEach
  /\ GapNeedsOutage
  /\ \/ Covered(MonthAfter(today))
     \/ due \/ queued > 0 \/ \E w \in Workers : read[w] = today
     \/ today \in outages

\* The documents: partitions are created automatically at the start of each
\* month, so without an outage the current month always has one.
AlwaysCovered == outages = {} => Covered(today)
=============================================================================
