----------------------------- MODULE NanoProofs -----------------------------
(***************************************************************************)
(* Theorems about programs of BearPi-HM_Nano that have no module of proofs *)
(* of their own: the manhole cover, the cloud example with its own OC      *)
(* layer, the GPS driver, the NFC tag, the sensor, the network and the     *)
(* kernel examples.                                                        *)
(***************************************************************************)
EXTENDS CoverApp, OcSample, GpsPosition, SensorBoards, NetExamples, KernelExamples, NfcTag,
        WellFoundedInduction, TLAPS

(* Every set of numbers has a least element. *)
LEMMA Least ==
  ASSUME NEW T, T \subseteq Nat, T # {}
  PROVE \E x \in T : \A y \in T : x <= y
<1>1. IsWellFoundedOn(OpToRel(<,Nat), Nat)
  BY NatLessThanWellFounded
<1>2. PICK x \in T : \A y \in T : <<y,x>> \notin OpToRel(<,Nat)
  BY <1>1, WFMin
<1>3. \A y \in T : ~(y < x)
  BY <1>2 DEF OpToRel
<1> QED BY <1>3

(* So a set of naturals with a smaller element below each has none.        *)
LEMMA NoDescent ==
  ASSUME NEW T, T \subseteq Nat, \A n \in T : n - 1 \in T
  PROVE  T = {}
<1>1. ASSUME T # {} PROVE FALSE
  <2>1. PICK x \in T : \A y \in T : x <= y
    BY <1>1, Least
  <2> QED
    BY <2>1
<1> QED
  BY <1>1

-----------------------------------------------------------------------------
(* The manhole cover: the inductive invariant.                             *)

CoverPlaces ==
  /\ handle \in {"unset", "made", "failed"} /\ connected \in {0, 1}
  /\ sensorPc \in {"init", "read", "put", "sleep", "ended"}
  /\ cloudPc \in {"start", "create", "connect", "get", "report"}

CoverReports == [ n : Nat, status : {0, 1}, at : Nat ]

CoverTyped ==
  /\ readings \in Seq(Positions) /\ Len(readings) <= MaxReadings
  /\ queue \in Seq(1..Len(readings)) /\ Len(queue) <= MSGQUEUE_COUNT
  /\ sensorMsg \in 0..Len(readings) /\ cloudMsg \in 0..Len(readings)
  /\ reports \in Seq(CoverReports)
  /\ base \in Positions \cup {Origin} /\ g_coverStatus \in {0, 1}

(* A task has a reading exactly when it is about to hand it on.            *)
InHand ==
  /\ sensorMsg # 0 <=> sensorPc = "put"
  /\ cloudMsg # 0 <=> cloudPc = "report"

(* The base is the first reading that is not the origin.                   *)
BaseIsFirst ==
  \/ base = Origin /\ \A i \in 1..Len(readings) : readings[i] = Origin
  \/ \E k \in 1..Len(readings) :
       /\ base = readings[k] /\ base # Origin
       /\ \A i \in 1..(k - 1) : readings[i] = Origin

StatusIsCurrent == g_coverStatus = Reference(readings, Len(readings))

(* From the reports over the cloud task's reading and the queue to the     *)
(* sensor task's, readings are in their order.                             *)
QueueInOrder == \A i, j \in 1..Len(queue) : i < j => queue[i] < queue[j]

TakenInOrder == cloudMsg # 0 => \A i \in 1..Len(queue) : cloudMsg < queue[i]

NewestLast ==
  sensorMsg # 0 => cloudMsg < sensorMsg /\ \A i \in 1..Len(queue) : queue[i] < sensorMsg

ReportedBefore(n) ==
  /\ \A i \in 1..Len(queue) : n < queue[i]
  /\ cloudMsg # 0 => n < cloudMsg
  /\ sensorMsg # 0 => n < sensorMsg

ReportsInOrder ==
  \A i \in 1..Len(reports) :
    /\ ReportedBefore(reports[i].n)
    /\ reports[i].n \in 1..Len(readings) /\ reports[i].at \in 1..Len(readings)

CoverInv ==
  /\ CoverPlaces /\ CoverTyped /\ InHand /\ BaseIsFirst /\ StatusIsCurrent
  /\ QueueInOrder /\ TakenInOrder /\ NewestLast /\ ReportsInOrder /\ StatusIsNewest

-----------------------------------------------------------------------------
(* The manhole cover: the status a reading should have.                    *)

(* What Reference says once the first usable reading is known.             *)
LEMMA ReferenceIs ==
  ASSUME NEW row, NEW n \in Nat, NEW k \in 1..(n - 1), row[k] # Origin,
         \A i \in 1..(k - 1) : row[i] = Origin
  PROVE  Reference(row, n) = IF Far(row[k], row[n]) THEN 1 ELSE 0
<1> DEFINE usable == { i \in 1..(n - 1) : row[i] # Origin }
<1>1. k \in usable /\ \A i \in usable : k <= i
  OBVIOUS
<1>2. Min(usable) = k
  BY <1>1 DEF Min
<1>3. usable # {}
  BY <1>1
<1> HIDE DEF usable
<1> QED
  BY <1>2, <1>3 DEF Reference, usable

(* Without one the status is 0. *)
LEMMA ReferenceIsZero ==
  ASSUME NEW row, NEW n \in Nat, \A i \in 1..(n - 1) : row[i] = Origin
  PROVE  Reference(row, n) = 0
<1>1. { i \in 1..(n - 1) : row[i] # Origin } = {}
  OBVIOUS
<1> QED
  BY <1>1 DEF Reference

(* A further reading does not change what the earlier ones said.           *)
LEMMA ReferenceStays ==
  ASSUME NEW row \in Seq(Positions), NEW p \in Positions, NEW n \in 1..Len(row)
  PROVE  Reference(Append(row, p), n) = Reference(row, n)
<1> DEFINE more == Append(row, p)
           usable == { i \in 1..(n - 1) : row[i] # Origin }
<1>1. \A i \in 1..n : more[i] = row[i]
  OBVIOUS
<1>2. { i \in 1..(n - 1) : more[i] # Origin } = usable
  BY <1>1
<1>3. usable \subseteq 1..n /\ usable \subseteq Nat
  OBVIOUS
<1> HIDE DEF usable, more
<1>4. ASSUME usable # {} PROVE Min(usable) \in 1..n
  <2>1. PICK x \in usable : \A y \in usable : x <= y
    BY <1>3, <1>4, Least
  <2>2. Min(usable) \in usable
    BY <2>1 DEF Min
  <2> QED
    BY <1>3, <2>2
<1>5. usable # {} => more[Min(usable)] = row[Min(usable)]
  BY <1>1, <1>4
<1>6. more[n] = row[n]
  BY <1>1
<1>7. Reference(row, n) = IF usable # {} /\ Far(row[Min(usable)], row[n]) THEN 1 ELSE 0
  BY DEF Reference, usable
<1>8. Reference(more, n) = IF usable # {} /\ Far(more[Min(usable)], more[n]) THEN 1 ELSE 0
  BY <1>2 DEF Reference
<1>9. Reference(more, n) = Reference(row, n)
  BY <1>5, <1>6, <1>7, <1>8
<1> QED
  BY <1>9 DEF more

(* A reference says 0 or 1.                                                *)
LEMMA ReferenceIsStatus == ASSUME NEW row, NEW n PROVE Reference(row, n) \in {0, 1}
  BY DEF Reference

-----------------------------------------------------------------------------
(* The manhole cover: steps.                                               *)

(* The program begins without readings.                                    *)
LEMMA CoverBegins == CoverInit => CoverInv
<1> SUFFICES ASSUME CoverInit PROVE CoverInv
  OBVIOUS
<1> USE CoverAssumption DEF CoverInit
<1>1. Reference(readings, Len(readings)) = 0
  BY ReferenceIsZero
<1> QED
  BY <1>1 DEF CoverInv, CoverPlaces, CoverTyped, InHand, BaseIsFirst, StatusIsCurrent,
     QueueInOrder,
     TakenInOrder, NewestLast, ReportsInOrder, StatusIsNewest

(* A round of the sensor task that ends it, or takes a reading.            *)
LEMMA SensorReads == CoverInv /\ SensorRead => CoverInv'
<1> SUFFICES ASSUME CoverInv, SensorRead PROVE CoverInv'
  OBVIOUS
<1> USE DEF cloudVars
<1>t. CoverPlaces /\ CoverTyped /\ InHand
  BY DEF CoverInv
<1>u. sensorMsg = 0
  BY <1>t DEF SensorRead, InHand
<1>1. CASE UNCHANGED <<sensorMsg, base, readings, g_coverStatus>> /\ sensorPc' = "ended"
  BY <1>1 DEF CoverInv, SensorRead, CoverPlaces, CoverTyped, InHand, BaseIsFirst, StatusIsCurrent,
     QueueInOrder, TakenInOrder, NewestLast, ReportsInOrder, ReportedBefore, StatusIsNewest
<1>2. ASSUME NEW p \in Positions, readings' = Append(readings, p), Classify(p),
             Len(readings) < MaxReadings,
             \/ sensorMsg' = Len(readings) + 1 /\ sensorPc' = "put"
             \/ sensorMsg' = 0 /\ sensorPc' = "sleep"
      PROVE  CoverInv'
  <2>n. Len(readings) \in Nat /\ Len(readings') = Len(readings) + 1
    BY <1>t, <1>2 DEF CoverTyped
  <2>s. UNCHANGED <<handle, queue, cloudPc, cloudMsg, connected, reports>>
    BY DEF SensorRead
  <2>i. \A i \in 1..Len(readings) : readings'[i] = readings[i]
    BY <1>t, <1>2 DEF CoverTyped
  <2>l. readings'[Len(readings')] = p
    BY <1>t, <1>2 DEF CoverTyped
  <2>1. CoverPlaces'
    BY <1>t, <1>2, <2>s DEF CoverPlaces
  <2>2. CoverTyped'
    <3>1. readings' \in Seq(Positions) /\ Len(readings') <= MaxReadings
      BY <1>t, <1>2, <2>n, CoverAssumption DEF CoverTyped
    <3>2. queue' \in Seq(1..Len(readings')) /\ Len(queue') <= MSGQUEUE_COUNT
      BY <1>t, <2>n, <2>s DEF CoverTyped
    <3>3. sensorMsg' \in 0..Len(readings') /\ cloudMsg' \in 0..Len(readings')
      BY <1>t, <1>2, <2>n, <2>s DEF CoverTyped
    <3>4. base' \in Positions \cup {Origin} /\ g_coverStatus' \in {0, 1}
      BY <1>t, <1>2 DEF CoverTyped, Classify
    <3> QED
      BY <1>t, <2>s, <3>1, <3>2, <3>3, <3>4 DEF CoverTyped
  <2>3. InHand'
    BY <1>t, <1>2, <2>s, <2>n DEF InHand
  <2>4. BaseIsFirst' /\ StatusIsCurrent'
    <3>1. CASE base = Origin
      <4>1. \A i \in 1..Len(readings) : readings[i] = Origin
        BY <3>1 DEF CoverInv, BaseIsFirst
      <4>2. base' = p /\ g_coverStatus' = g_coverStatus
        BY <1>2, <3>1 DEF Classify
      <4>3. g_coverStatus = 0
        <5>1. Reference(readings, Len(readings)) = 0
          BY <2>n, <4>1, ReferenceIsZero
        <5> QED
          BY <5>1 DEF CoverInv, StatusIsCurrent
      <4>4. \A i \in 1..(Len(readings') - 1) : readings'[i] = Origin
        BY <2>n, <2>i, <4>1
      <4>5. Reference(readings', Len(readings')) = 0
        BY <2>n, <4>4, ReferenceIsZero
      <4>6. CASE p = Origin
        <5>1. \A i \in 1..Len(readings') : readings'[i] = Origin
          BY <2>n, <2>l, <4>4, <4>6
        <5> QED
          BY <4>2, <4>3, <4>5, <4>6, <5>1 DEF BaseIsFirst, StatusIsCurrent
      <4>7. CASE p # Origin
        <5>1. Len(readings') \in 1..Len(readings')
          BY <2>n
        <5>2. BaseIsFirst'
          BY <2>l, <4>2, <4>4, <4>7, <5>1 DEF BaseIsFirst
        <5> QED
          BY <4>2, <4>3, <4>5, <5>2 DEF StatusIsCurrent
      <4> QED
        BY <4>6, <4>7
    <3>2. CASE base # Origin
      <4>1. PICK k \in 1..Len(readings) : /\ base = readings[k]
                                          /\ \A i \in 1..(k - 1) : readings[i] = Origin
        BY <3>2 DEF CoverInv, BaseIsFirst
      <4>2. base' = base /\ g_coverStatus' = IF Far(base, p) THEN 1 ELSE 0
        BY <1>2, <3>2 DEF Classify
      <4>3. k \in 1..(Len(readings') - 1) /\ k \in 1..Len(readings')
        BY <2>n
      <4>4. readings'[k] = base /\ \A i \in 1..(k - 1) : readings'[i] = Origin
        <5>1. \A i \in 1..(k - 1) : i \in 1..Len(readings)
          BY <2>n, <4>3
        <5> QED
          BY <2>i, <4>1, <5>1
      <4>5. Reference(readings', Len(readings')) = IF Far(readings'[k], readings'[Len(readings')])
                                                   THEN 1 ELSE 0
        BY <2>n, <3>2, <4>3, <4>4, ReferenceIs
      <4> QED
        BY <2>l, <3>2, <4>2, <4>3, <4>4, <4>5 DEF BaseIsFirst, StatusIsCurrent
    <3> QED
      BY <3>1, <3>2
  <2>5. QueueInOrder' /\ TakenInOrder'
    BY <2>s DEF CoverInv, QueueInOrder, TakenInOrder
  <2>6. NewestLast'
    BY <1>t, <1>2, <2>s, <2>n DEF NewestLast, CoverTyped
  <2>7. ReportsInOrder'
    BY <1>t, <1>2, <2>s, <2>n DEF CoverInv, ReportsInOrder, ReportedBefore, CoverTyped
  <2>8. StatusIsNewest'
    <3>1. \A i \in 1..Len(reports) : Reference(readings', reports[i].at) = Reference(readings, reports[i].at)
      BY <1>t, <1>2, ReferenceStays DEF CoverInv, ReportsInOrder, CoverTyped
    <3>2. DOMAIN reports = 1..Len(reports)
      BY <1>t DEF CoverTyped
    <3> QED
      BY <2>s, <3>1, <3>2 DEF CoverInv, StatusIsNewest
  <2> QED
    BY <2>1, <2>2, <2>3, <2>4, <2>5, <2>6, <2>7, <2>8 DEF CoverInv
<1> QED
  BY <1>1, <1>2 DEF SensorRead

(* The Put appends the newest reading to the queue, or drops it.           *)
LEMMA SensorPuts == CoverInv /\ SensorPut => CoverInv'
<1> SUFFICES ASSUME CoverInv, SensorPut PROVE CoverInv'
  OBVIOUS
<1>t. CoverPlaces /\ CoverTyped /\ InHand
  BY DEF CoverInv
<1>u. sensorMsg \in 1..Len(readings) /\ sensorMsg' = 0 /\ sensorPc' = "sleep"
  BY <1>t DEF SensorPut, InHand, CoverTyped
<1>s. UNCHANGED <<handle, base, readings, g_coverStatus, cloudPc, cloudMsg, connected, reports>>
  BY DEF SensorPut, cloudVars
<1>q. queue \in Seq(1..Len(readings)) /\ Len(queue) \in Nat
  BY <1>t DEF CoverTyped
<1>1. CASE queue' = queue
  BY <1>1, <1>t, <1>u, <1>s DEF CoverInv, CoverPlaces, CoverTyped, InHand, BaseIsFirst,
     StatusIsCurrent,
     QueueInOrder, TakenInOrder, NewestLast, ReportsInOrder, ReportedBefore, StatusIsNewest
<1>2. CASE queue' = Append(queue, sensorMsg) /\ Len(queue) < MSGQUEUE_COUNT
  <2>1. CoverPlaces' /\ InHand' /\ BaseIsFirst' /\ StatusIsCurrent' /\ NewestLast' /\ StatusIsNewest'
    BY <1>t, <1>u, <1>s DEF CoverInv, CoverPlaces, InHand, BaseIsFirst, StatusIsCurrent,
       NewestLast,
       StatusIsNewest
  <2>2. /\ Len(queue') = Len(queue) + 1 /\ queue' \in Seq(1..Len(readings))
        /\ queue'[Len(queue) + 1] = sensorMsg
        /\ \A i \in 1..Len(queue) : queue'[i] = queue[i]
    BY <1>2, <1>q, <1>u
  <2>3. CoverTyped'
    BY <1>t, <1>u, <1>s, <1>2, <1>q, <2>2, CoverAssumption DEF CoverTyped
  <2>4. \A i \in 1..Len(queue) : queue[i] < sensorMsg /\ queue[i] \in Nat
    BY <1>u, <1>q DEF CoverInv, NewestLast
  <2>5. QueueInOrder'
    <3> SUFFICES ASSUME NEW i \in 1..Len(queue'), NEW j \in 1..Len(queue'), i < j
                 PROVE  queue'[i] < queue'[j]
      BY DEF QueueInOrder
    <3>n. Len(queue) \in Nat /\ Len(queue') = Len(queue) + 1
      BY <1>q, <2>2
    <3>1. i \in 1..Len(queue) /\ (j \in 1..Len(queue) \/ j = Len(queue) + 1)
      BY <3>n
    <3> QED
      BY <2>2, <2>4, <3>1 DEF CoverInv, QueueInOrder
  <2>6. \A i \in 1..Len(queue') : i \in 1..Len(queue) \/ i = Len(queue) + 1
    BY <1>q, <2>2
  <2>7. TakenInOrder'
    BY <1>u, <1>s, <2>2, <2>6 DEF CoverInv, TakenInOrder, NewestLast
  <2>8. ReportsInOrder'
    BY <1>u, <1>s, <2>2, <2>6 DEF CoverInv, ReportsInOrder, ReportedBefore
  <2> QED
    BY <2>1, <2>3, <2>5, <2>7, <2>8 DEF CoverInv
<1> QED
  BY <1>1, <1>2 DEF SensorPut, HasRoom

(* The Get takes the oldest reading of the queue.                          *)
LEMMA CloudGets == CoverInv /\ Get => CoverInv'
<1> SUFFICES ASSUME CoverInv, Get PROVE CoverInv'
  OBVIOUS
<1>t. CoverPlaces /\ CoverTyped /\ InHand
  BY DEF CoverInv
<1>s. UNCHANGED <<handle, sensorPc, sensorMsg, base, readings, g_coverStatus, connected, reports>>
  BY DEF Get, sensorVars
<1>q. queue \in Seq(1..Len(readings)) /\ Len(queue) \in Nat \ {0} /\ queue # <<>>
  BY <1>t DEF CoverTyped, Get
<1>1. /\ Len(queue') = Len(queue) - 1 /\ queue' \in Seq(1..Len(readings))
      /\ \A i \in 1..Len(queue') : queue'[i] = queue[i + 1] /\ i + 1 \in 1..Len(queue)
      /\ cloudMsg' = queue[1] /\ 1 \in 1..Len(queue) /\ cloudMsg' \in 1..Len(readings)
  BY <1>q DEF Get
<1>2. cloudPc = "get" /\ cloudPc' = "report" /\ cloudMsg = 0
  BY <1>t DEF Get, InHand
<1>3. CoverPlaces' /\ CoverTyped' /\ InHand' /\ BaseIsFirst' /\ StatusIsCurrent' /\ StatusIsNewest'
  <2>1. CoverPlaces' /\ InHand' /\ BaseIsFirst' /\ StatusIsCurrent' /\ StatusIsNewest'
    BY <1>s, <1>1, <1>2 DEF CoverInv, CoverPlaces, InHand, BaseIsFirst, StatusIsCurrent,
       StatusIsNewest
  <2>2. CoverTyped'
    BY <1>t, <1>s, <1>1, <1>q, CoverAssumption DEF CoverTyped
  <2> QED
    BY <2>1, <2>2
<1>o. \A i, j \in 1..Len(queue) : i < j => queue[i] < queue[j]
  BY DEF CoverInv, QueueInOrder
<1>4. QueueInOrder'
  <2> SUFFICES ASSUME NEW i \in 1..Len(queue'), NEW j \in 1..Len(queue'), i < j
               PROVE  queue'[i] < queue'[j]
    BY DEF QueueInOrder
  <2>1. i + 1 \in 1..Len(queue) /\ j + 1 \in 1..Len(queue) /\ i + 1 < j + 1
    BY <1>1
  <2> QED
    BY <1>o, <1>1, <2>1
<1>5. TakenInOrder'
  <2> SUFFICES ASSUME NEW i \in 1..Len(queue') PROVE cloudMsg' < queue'[i]
    BY DEF TakenInOrder
  <2>1. i + 1 \in 1..Len(queue) /\ 1 < i + 1
    BY <1>1
  <2> QED
    BY <1>o, <1>1, <2>1
<1>6. NewestLast'
  BY <1>s, <1>q, <1>1 DEF CoverInv, NewestLast
<1>7. ReportsInOrder'
  BY <1>s, <1>q, <1>1, <1>2 DEF CoverInv, ReportsInOrder, ReportedBefore
<1> QED
  BY <1>3, <1>4, <1>5, <1>6, <1>7 DEF CoverInv

(* A report carries the reading in hand and the status of the newest one.  *)
LEMMA CloudReports == CoverInv /\ DealReport => CoverInv'
<1> SUFFICES ASSUME CoverInv, DealReport PROVE CoverInv'
  OBVIOUS
<1>t. CoverPlaces /\ CoverTyped /\ InHand
  BY DEF CoverInv
<1>s. UNCHANGED <<handle, queue, sensorPc, sensorMsg, base, readings, g_coverStatus, connected>>
  BY DEF DealReport, sensorVars
<1>2. cloudPc = "report" /\ cloudPc' = "get" /\ cloudMsg \in 1..Len(readings) /\ cloudMsg' = 0
  BY <1>t DEF DealReport, InHand, CoverTyped
<1>n. Len(readings) \in Nat /\ queue \in Seq(1..Len(readings))
  BY <1>t DEF CoverTyped
<1>3. CoverPlaces' /\ InHand' /\ BaseIsFirst' /\ StatusIsCurrent' /\ QueueInOrder' /\ TakenInOrder'
  BY <1>s, <1>2 DEF CoverInv, CoverPlaces, InHand, BaseIsFirst, StatusIsCurrent, QueueInOrder,
     TakenInOrder
<1>4. NewestLast'
  BY <1>s, <1>2, <1>t DEF CoverInv, NewestLast, CoverTyped
<1>5. CASE reports' = reports
  BY <1>s, <1>2, <1>3, <1>4, <1>5, <1>t DEF CoverInv, CoverTyped, ReportsInOrder, ReportedBefore,
     StatusIsNewest
<1>6. CASE reports' = Append(reports, [ n |-> cloudMsg, status |-> g_coverStatus,
                                        at |-> Len(readings) ])
  <2> DEFINE r == [ n |-> cloudMsg, status |-> g_coverStatus, at |-> Len(readings) ]
  <2>1. r \in CoverReports /\ r.n = cloudMsg /\ r.status = g_coverStatus /\ r.at = Len(readings)
    BY <1>2, <1>n, <1>t DEF CoverReports, CoverTyped
  <2>2. reports \in Seq(CoverReports) /\ reports' = Append(reports, r) /\ Len(reports) \in Nat
    BY <1>6, <1>t DEF CoverTyped
  <2> HIDE DEF r
  <2>3. /\ reports' \in Seq(CoverReports) /\ Len(reports') = Len(reports) + 1
        /\ reports'[Len(reports) + 1] = r
        /\ \A i \in 1..Len(reports) : reports'[i] = reports[i]
    BY <2>1, <2>2
  <2>4. \A i \in 1..Len(reports') : i \in 1..Len(reports) \/ i = Len(reports) + 1
    BY <2>2, <2>3
  <2>5. CoverTyped'
    BY <1>t, <1>s, <1>2, <1>n, <2>3 DEF CoverTyped
  <2>6. ReportsInOrder'
    <3> SUFFICES ASSUME NEW i \in 1..Len(reports')
                 PROVE  /\ \A j \in 1..Len(queue) : reports'[i].n < queue[j]
                        /\ sensorMsg # 0 => reports'[i].n < sensorMsg
                        /\ reports'[i].n \in 1..Len(readings) /\ reports'[i].at \in 1..Len(readings)
      BY <1>s, <1>2 DEF ReportsInOrder, ReportedBefore
    <3>1. CASE i \in 1..Len(reports)
      <4>1. ReportedBefore(reports[i].n) /\ reports[i].n \in 1..Len(readings)
            /\ reports[i].at \in 1..Len(readings)
        BY <3>1 DEF CoverInv, ReportsInOrder
      <4> QED
        BY <1>s, <1>2, <2>3, <3>1, <4>1 DEF ReportedBefore
    <3>2. CASE i = Len(reports) + 1
      <4>1. reports'[i].n = cloudMsg /\ reports'[i].at = Len(readings)
        BY <2>1, <2>3, <3>2
      <4>2. \A j \in 1..Len(queue) : cloudMsg < queue[j]
        BY <1>2 DEF CoverInv, TakenInOrder
      <4>3. sensorMsg # 0 => cloudMsg < sensorMsg
        BY DEF CoverInv, NewestLast
      <4> QED
        BY <1>s, <1>2, <1>n, <4>1, <4>2, <4>3 DEF ReportedBefore
    <3> QED
      BY <2>4, <3>1, <3>2
  <2>7. StatusIsNewest'
    <3> SUFFICES ASSUME NEW i \in 1..Len(reports')
                 PROVE  /\ reports'[i].n <= reports'[i].at
                        /\ reports'[i].status = Reference(readings, reports'[i].at)
                        /\ \A j \in 1..(i - 1) : reports'[j].n < reports'[i].n
      BY <1>s, <2>3 DEF StatusIsNewest
    <3>d. DOMAIN reports = 1..Len(reports)
      BY <2>2
    <3>1. CASE i \in 1..Len(reports)
      <4>1. \A j \in 1..(i - 1) : j \in 1..Len(reports)
        BY <2>2, <3>1
      <4>2. /\ reports[i].n <= reports[i].at
            /\ reports[i].status = Reference(readings, reports[i].at)
            /\ \A j \in 1..(i - 1) : reports[j].n < reports[i].n
        BY <3>d, <3>1 DEF CoverInv, StatusIsNewest
      <4> QED
        BY <2>3, <3>1, <4>1, <4>2
    <3>2. CASE i = Len(reports) + 1
      <4>1. \A j \in 1..(i - 1) : j \in 1..Len(reports)
        BY <2>2, <3>2
      <4>2. \A j \in 1..Len(reports) : reports[j].n < cloudMsg
        BY <1>2 DEF CoverInv, ReportsInOrder, ReportedBefore
      <4>3. g_coverStatus = Reference(readings, Len(readings))
        BY DEF CoverInv, StatusIsCurrent
      <4>4. cloudMsg <= Len(readings)
        BY <1>2, <1>n
      <4> QED
        BY <2>1, <2>3, <3>2, <4>1, <4>2, <4>3, <4>4
    <3> QED
      BY <2>4, <3>1, <3>2
  <2> QED
    BY <1>3, <1>4, <2>5, <2>6, <2>7 DEF CoverInv
<1> QED
  BY <1>5, <1>6 DEF DealReport

(* The other steps touch neither readings nor reports.                     *)
LEMMA CoverMoves ==
  ASSUME CoverInv,
         SensorInit \/ SensorSleep \/ WifiConnect \/ CreateQueue \/ Connect
           \/ UNCHANGED coverVars
  PROVE  CoverInv'
<1> USE DEF sensorVars, cloudVars
<1>1. UNCHANGED <<queue, sensorMsg, cloudMsg, base, readings, reports, g_coverStatus>>
  BY DEF SensorInit, SensorSleep, WifiConnect, CreateQueue, Connect, coverVars
<1>2. CoverPlaces' /\ InHand'
  BY DEF CoverInv, CoverPlaces, InHand, SensorInit, SensorSleep, WifiConnect, CreateQueue,
     Connect,
     coverVars
<1> QED
  BY <1>1, <1>2 DEF CoverInv, CoverTyped, BaseIsFirst, StatusIsCurrent, QueueInOrder,
     TakenInOrder, NewestLast, ReportsInOrder, ReportedBefore, StatusIsNewest

(* CoverInv holds in every state of the manhole cover's program.           *)
LEMMA CoverInvariant == CoverSpec => []CoverInv
<1>1. CoverInv /\ [CoverNext]_coverVars => CoverInv'
  BY SensorReads, SensorPuts, CloudGets, CloudReports, CoverMoves DEF CoverNext, Sensor, Cloud
<1> QED
  BY <1>1, CoverBegins, PTL DEF CoverSpec

(* The variables of the manhole cover have their types: the queue holds no *)
(* more readings than it was made for, and only readings that were taken.  *)
THEOREM CoverTypeCorrect == CoverSpec => []CoverTypeOK
<1>1. CoverInv => CoverTypeOK
  BY DEF CoverInv, CoverPlaces, CoverTyped, CoverTypeOK, CoverReports
<1> QED
  BY <1>1, CoverInvariant, PTL

(* A report of the manhole cover says what the newest reading says by      *)
(* comparison with the first usable one, whichever reading it carries; and *)
(* readings are reported in the order the sensor task took them.           *)
THEOREM CoverReportsNewest == CoverSpec => []StatusIsNewest
<1>1. CoverInv => StatusIsNewest
  BY DEF CoverInv
<1> QED
  BY <1>1, CoverInvariant, PTL

-----------------------------------------------------------------------------
(* The network examples: the inductive invariant.                          *)

Datagrams == [from : Hosts, data : {"none", "text", "full"}]
Sendings  == [to : Hosts, data : {"none", "text", "full", "more"}, after : Nat]

NetPlaces ==
  /\ demo \in {"D1", "D3", "D4", "D5"}
  /\ demo = "D1" => netPc \in {"start", "enable", "serve", "reply", "ended"}
  /\ demo = "D3" => netPc \in {"start", "hello", "answer", "ended"}
  /\ demo = "D4" => netPc \in {"start", "accept", "recv", "send", "ended"}
  /\ demo = "D5" => netPc \in {"start", "subscribe", "publish"}

HotspotTyped ==
  ap \in [on : {0, 1}, registered : {0, 1}, stations : SUBSET Others, count : Int,
          unseen : {0, 1}]

TrafficTyped ==
  /\ peer \in Hosts /\ held \in Datagrams
  /\ inbox \in Seq(Datagrams) /\ handled \in Seq(Hosts) /\ sent \in Seq(Sendings)
  /\ link \in {"none", "open", "closed"} /\ rounds \in Nat

(* D1: between recvfrom and sendto one datagram is not answered yet.       *)
EchoInOrder ==
  demo = "D1" =>
    /\ netPc \in {"start", "enable", "serve"} => Len(handled) = Len(sent)
    /\ netPc = "reply" => Len(handled) = Len(sent) + 1 /\ peer = handled[Len(handled)]
    /\ Len(sent) <= Len(handled)
    /\ \A i \in 1..Len(sent) : sent[i].after = i /\ sent[i].to = handled[i]

(* D3: every sending but the last was followed by an answer or a failure.  *)
ClientWaits ==
  demo = "D3" =>
    /\ peer = IF handled = <<>> THEN Server ELSE handled[Len(handled)]
    /\ netPc # "answer" => Len(sent) = Len(handled) + rounds
    /\ netPc = "answer" => Len(sent) = Len(handled) + rounds + 1
    /\ \A i \in 1..Len(sent) :
         /\ sent[i].after \in 0..Len(handled)
         /\ sent[i].to = IF sent[i].after = 0 THEN Server ELSE handled[sent[i].after]
         /\ i <= sent[i].after + rounds + 1

(* D4: one client is accepted, and served from then on.                    *)
OneClient ==
  demo = "D4" =>
    /\ netPc \in {"start", "accept", "ended"} => handled = <<>> /\ sent = <<>>
    /\ netPc \in {"recv", "send"} => Len(handled) = 1 /\ peer = handled[1]
    /\ \A i \in 1..Len(sent) : sent[i].to = handled[1]

(* D5: messages are numbered as long as the connection is open.            *)
NumberedWhileOpen ==
  demo = "D5" =>
    /\ netPc = "start" => sent = <<>> /\ rounds = 0
    /\ link = "open" => Len(sent) = rounds
    /\ \A i \in 1..Len(sent) : sent[i].after = i

NetInv ==
  /\ NetPlaces /\ HotspotTyped /\ TrafficTyped
  /\ EchoInOrder /\ ClientWaits /\ OneClient /\ NumberedWhileOpen

-----------------------------------------------------------------------------
(* The network examples: steps.                                            *)

(* Nothing is sent when an example begins.                                 *)
LEMMA NetBegins == NetInit => NetInv
<1> SUFFICES ASSUME NetInit PROVE NetInv
  OBVIOUS
<1>1. Server \in Hosts /\ Blank \in Datagrams
  BY DEF Hosts, Blank, Datagrams
<1> QED
  BY <1>1 DEF NetInit, NetInv, NetPlaces, HotspotTyped, TrafficTyped, EchoInOrder, ClientWaits,
     OneClient, NumberedWhileOpen

(* Every example stays in its own program. *)
LEMMA NetKeepsPlaces == NetPlaces /\ [NetNext]_netVars => NetPlaces'
  BY DEF NetPlaces, NetNext, netVars, Step, Arrive, StationEvent, RegisterWifiEvent,
     RegisterFails,
     EnableHotspot, StartUdpServer, UdpServerEnds, UDPClientStart, SendHello, ReceiveAnswer,
     TCPServerStart, Accept, ServeClient, MQTTConnect, MQTTSubscribe, MQTTPublish

(* The hotspot's record keeps its fields and their types.                  *)
LEMMA HotspotStays == HotspotTyped /\ [NetNext]_netVars => HotspotTyped'
<1> SUFFICES ASSUME HotspotTyped, [NetNext]_netVars PROVE HotspotTyped'
  OBVIOUS
<1>e. ap = [on |-> ap.on, registered |-> ap.registered, stations |-> ap.stations,
            count |-> ap.count, unseen |-> ap.unseen]
      /\ ap.on \in {0, 1} /\ ap.registered \in {0, 1} /\ ap.stations \in SUBSET Others
      /\ ap.count \in Int /\ ap.unseen \in {0, 1}
  BY DEF HotspotTyped
<1>1. CASE UNCHANGED ap
  BY <1>1 DEF HotspotTyped
<1>2. CASE RegisterWifiEvent
  BY <1>2, <1>e DEF RegisterWifiEvent, HotspotTyped
<1>3. CASE EnableHotspot
  BY <1>3, <1>e DEF EnableHotspot, HotspotTyped
<1>4. ASSUME NEW station \in Others, StationEvent(station) PROVE HotspotTyped'
  <2>1. PICK members \in SUBSET Others, n \in Int :
          \/ ap' = [ap EXCEPT !.stations = members, !.count = n]
          \/ ap' = [ap EXCEPT !.stations = members, !.unseen = 1]
    <3>1. CASE station \notin ap.stations
      <4>1. ap.stations \cup {station} \in SUBSET Others /\ ap.count + 1 \in Int
        BY <1>e
      <4> QED
        BY <1>4, <3>1, <4>1 DEF StationEvent
    <3>2. CASE station \in ap.stations
      <4>1. ap.stations \ {station} \in SUBSET Others /\ ap.count - 1 \in Int
        BY <1>e
      <4> QED
        BY <1>4, <3>2, <4>1 DEF StationEvent
    <3> QED
      BY <3>1, <3>2
  <2>2. \/ ap' = [on |-> ap.on, registered |-> ap.registered, stations |-> members,
                  count |-> n, unseen |-> ap.unseen]
        \/ ap' = [on |-> ap.on, registered |-> ap.registered, stations |-> members,
                  count |-> ap.count, unseen |-> 1]
    BY <1>e, <2>1
  <2> QED
    BY <1>e, <2>2 DEF HotspotTyped
<1> QED
  BY <1>1, <1>2, <1>3, <1>4 DEF NetNext, netVars, Arrive, RegisterFails, StartUdpServer,
     UdpServerEnds,
     UDPClientStart, SendHello, ReceiveAnswer, TCPServerStart, Accept, ServeClient, MQTTConnect,
     MQTTSubscribe, MQTTPublish

(* A step delivers at most the oldest datagram and sends at most one.      *)
Delivers ==
  /\ inbox # <<>> /\ inbox' = Tail(inbox) /\ handled' = Append(handled, Head(inbox).from)
  /\ peer' = Head(inbox).from /\ sent' = sent

Sends(number) ==
  /\ UNCHANGED <<inbox, handled, peer, held>>
  /\ \E to \in Hosts, what \in {"none", "text", "full", "more"} :
       sent' = Append(sent, [to |-> to, data |-> what, after |-> number])

(* What is delivered comes from a host, and keeps the sequences' types.    *)
LEMMA DeliveryTyped ==
  ASSUME TrafficTyped, Delivers
  PROVE  /\ peer' \in Hosts /\ Head(inbox) \in Datagrams /\ inbox' \in Seq(Datagrams)
         /\ handled' \in Seq(Hosts) /\ Len(handled') = Len(handled) + 1
         /\ handled'[Len(handled')] = peer'
         /\ \A i \in 1..Len(handled) : handled'[i] = handled[i]
<1>1. Head(inbox) \in Datagrams /\ Tail(inbox) \in Seq(Datagrams)
  BY DEF TrafficTyped, Delivers
<1>2. Head(inbox).from \in Hosts
  BY <1>1 DEF Datagrams
<1>3. handled \in Seq(Hosts) /\ handled' = Append(handled, peer') /\ peer' = Head(inbox).from
  BY DEF TrafficTyped, Delivers
<1>4. inbox' = Tail(inbox)
  BY DEF Delivers
<1> QED
  BY <1>1, <1>2, <1>3, <1>4

(* What is sent keeps the types, and the earlier sendings.                 *)
LEMMA SendingTyped ==
  ASSUME TrafficTyped, NEW to \in Hosts, NEW what \in {"none", "text", "full", "more"},
         NEW number \in Nat, sent' = Append(sent, [to |-> to, data |-> what, after |-> number])
  PROVE  /\ sent' \in Seq(Sendings) /\ Len(sent') = Len(sent) + 1
         /\ sent'[Len(sent) + 1].to = to /\ sent'[Len(sent) + 1].after = number
         /\ \A i \in 1..Len(sent) : sent'[i] = sent[i]
         /\ \A i \in 1..Len(sent') : i \in 1..Len(sent) \/ i = Len(sent) + 1
<1> DEFINE r == [to |-> to, data |-> what, after |-> number]
<1>1. r \in Sendings /\ r.to = to /\ r.after = number
  BY DEF Sendings
<1>2. sent \in Seq(Sendings) /\ sent' = Append(sent, r)
  BY DEF TrafficTyped
<1> HIDE DEF r
<1> QED
  BY <1>1, <1>2

(* A datagram that arrives leaves everything but the inbox.                *)
LEMMA NetArrives ==
  ASSUME NetInv, NEW host \in Hosts, NEW what \in {"text", "full"}, Arrive(host, what)
  PROVE  NetInv'
<1>1. UNCHANGED <<demo, netPc, ap, peer, held, handled, sent, link, rounds>>
  BY DEF Arrive
<1>2. inbox' \in Seq(Datagrams)
  <2>1. [from |-> host, data |-> what] \in Datagrams
    BY DEF Datagrams
  <2> QED
    BY <2>1 DEF Arrive, NetInv, TrafficTyped
<1> QED
  BY <1>1, <1>2 DEF NetInv, NetPlaces, HotspotTyped, TrafficTyped, EchoInOrder, ClientWaits,
     OneClient,
     NumberedWhileOpen

(* Steps that neither deliver nor send. *)
LEMMA NetQuiet ==
  ASSUME NetInv,
         \/ \E station \in Others : StationEvent(station)
         \/ RegisterWifiEvent \/ RegisterFails \/ EnableHotspot \/ UdpServerEnds
         \/ UDPClientStart \/ TCPServerStart \/ MQTTConnect \/ MQTTSubscribe \/ UNCHANGED netVars
  PROVE  TrafficTyped' /\ EchoInOrder' /\ ClientWaits' /\ OneClient' /\ NumberedWhileOpen'
<1>1. UNCHANGED <<demo, inbox, peer, held, handled, sent, rounds>>
  BY DEF StationEvent, RegisterWifiEvent, RegisterFails, EnableHotspot, UdpServerEnds,
     UDPClientStart, TCPServerStart, MQTTConnect, MQTTSubscribe, netVars, traffic, Step
<1>2. TrafficTyped'
  BY <1>1 DEF NetInv, TrafficTyped, StationEvent, RegisterWifiEvent, RegisterFails, EnableHotspot,
     UdpServerEnds, UDPClientStart, TCPServerStart, MQTTConnect, MQTTSubscribe, netVars
<1>n. Len(handled) \in Nat /\ Len(sent) \in Nat
  BY DEF NetInv, TrafficTyped
<1>3. EchoInOrder'
  BY <1>1, <1>n DEF NetInv, EchoInOrder, StationEvent, RegisterWifiEvent, RegisterFails,
     EnableHotspot,
     UdpServerEnds, UDPClientStart, TCPServerStart, MQTTConnect, MQTTSubscribe, netVars, Step
<1>4. ClientWaits'
  BY <1>1 DEF NetInv, ClientWaits, StationEvent, RegisterWifiEvent, RegisterFails, EnableHotspot,
     UdpServerEnds, UDPClientStart, TCPServerStart, MQTTConnect, MQTTSubscribe, netVars, Step
<1>5. OneClient'
  BY <1>1 DEF NetInv, OneClient, StationEvent, RegisterWifiEvent, RegisterFails, EnableHotspot,
     UdpServerEnds, UDPClientStart, TCPServerStart, MQTTConnect, MQTTSubscribe, netVars, Step
<1>6. NumberedWhileOpen'
  BY <1>1 DEF NetInv, NumberedWhileOpen, StationEvent, RegisterWifiEvent, RegisterFails,
     EnableHotspot,
     UdpServerEnds, UDPClientStart, TCPServerStart, MQTTConnect, MQTTSubscribe, netVars, Step
<1> QED
  BY <1>2, <1>3, <1>4, <1>5, <1>6

(* D1 delivers when all is answered, and answers what it delivered.        *)
LEMMA EchoStep ==
  ASSUME NetInv, StartUdpServer
  PROVE  TrafficTyped' /\ EchoInOrder' /\ ClientWaits' /\ OneClient' /\ NumberedWhileOpen'
<1>t. TrafficTyped /\ EchoInOrder
  BY DEF NetInv
<1>d. demo = "D1" /\ demo' = "D1" /\ UNCHANGED <<link, rounds>>
  BY DEF StartUdpServer, Step
<1>n. Len(handled) \in Nat /\ Len(sent) \in Nat
  BY <1>t DEF TrafficTyped
<1>1. CASE netPc = "serve" /\ netPc' = "reply" /\ Delivers /\ held' = Head(inbox)
  <2>1. /\ peer' \in Hosts /\ Head(inbox) \in Datagrams /\ inbox' \in Seq(Datagrams)
        /\ handled' \in Seq(Hosts) /\ Len(handled') = Len(handled) + 1
        /\ handled'[Len(handled')] = peer'
        /\ \A i \in 1..Len(handled) : handled'[i] = handled[i]
    BY <1>t, <1>1, DeliveryTyped
  <2>2. sent' = sent /\ Len(handled) = Len(sent)
    BY <1>t, <1>d, <1>1 DEF Delivers, EchoInOrder
  <2>3. TrafficTyped'
    BY <1>t, <1>d, <1>1, <2>1, <2>2 DEF TrafficTyped
  <2>4. EchoInOrder'
    BY <1>t, <1>d, <1>n, <1>1, <2>1, <2>2 DEF EchoInOrder
  <2> QED
    BY <1>d, <2>3, <2>4 DEF ClientWaits, OneClient, NumberedWhileOpen
<1>2. CASE /\ netPc = "reply" /\ netPc' = "serve" /\ UNCHANGED <<inbox, handled, peer, held>>
           /\ \E what \in {"none", "text", "full", "more"} :
                sent' = Append(sent, [to |-> peer, data |-> what, after |-> Len(handled)])
  <2>0. PICK what \in {"none", "text", "full", "more"} :
          sent' = Append(sent, [to |-> peer, data |-> what, after |-> Len(handled)])
    BY <1>2
  <2>p. peer \in Hosts /\ Len(handled) = Len(sent) + 1 /\ peer = handled[Len(handled)]
    BY <1>t, <1>d, <1>2 DEF TrafficTyped, EchoInOrder
  <2>1. /\ sent' \in Seq(Sendings) /\ Len(sent') = Len(sent) + 1
        /\ sent'[Len(sent) + 1].to = peer /\ sent'[Len(sent) + 1].after = Len(handled)
        /\ \A i \in 1..Len(sent) : sent'[i] = sent[i]
        /\ \A i \in 1..Len(sent') : i \in 1..Len(sent) \/ i = Len(sent) + 1
    BY <1>t, <1>n, <2>0, <2>p, SendingTyped
  <2>2. TrafficTyped'
    BY <1>t, <1>d, <1>2, <2>1 DEF TrafficTyped
  <2>3. EchoInOrder'
    BY <1>t, <1>d, <1>n, <1>2, <2>p, <2>1 DEF EchoInOrder
  <2> QED
    BY <1>d, <2>2, <2>3 DEF ClientWaits, OneClient, NumberedWhileOpen
<1>3. held.data \in {"none", "text", "full"}
  BY <1>t DEF TrafficTyped, Datagrams
<1> QED
  BY <1>1, <1>2, <1>3 DEF StartUdpServer, Step, Delivers, TakeFrom

(* D3 sends its greeting to the host it heard from last.                   *)
LEMMA HelloStep ==
  ASSUME NetInv, SendHello
  PROVE  TrafficTyped' /\ EchoInOrder' /\ ClientWaits' /\ OneClient' /\ NumberedWhileOpen'
<1>t. TrafficTyped /\ ClientWaits
  BY DEF NetInv
<1>d. /\ demo = "D3" /\ demo' = "D3" /\ netPc = "hello" /\ netPc' = "answer"
      /\ UNCHANGED <<inbox, peer, held, handled, link, rounds>>
      /\ sent' = Append(sent, [to |-> peer, data |-> "text", after |-> Len(handled)])
  BY DEF SendHello, Step
<1>n. Len(handled) \in Nat /\ Len(sent) \in Nat /\ rounds \in Nat /\ peer \in Hosts
  BY <1>t DEF TrafficTyped
<1>1. /\ sent' \in Seq(Sendings) /\ Len(sent') = Len(sent) + 1
      /\ sent'[Len(sent) + 1].to = peer /\ sent'[Len(sent) + 1].after = Len(handled)
      /\ \A i \in 1..Len(sent) : sent'[i] = sent[i]
      /\ \A i \in 1..Len(sent') : i \in 1..Len(sent) \/ i = Len(sent) + 1
  BY <1>t, <1>n, <1>d, SendingTyped
<1>2. TrafficTyped'
  BY <1>t, <1>d, <1>1 DEF TrafficTyped
<1>3. Len(handled) = 0 <=> handled = <<>>
  BY <1>t DEF TrafficTyped
<1>4. ClientWaits'
  BY <1>t, <1>d, <1>n, <1>1, <1>3 DEF ClientWaits
<1> QED
  BY <1>d, <1>2, <1>4 DEF EchoInOrder, OneClient, NumberedWhileOpen

(* D3 hears from somebody, or the call fails and is counted.               *)
LEMMA AnswerStep ==
  ASSUME NetInv, ReceiveAnswer
  PROVE  TrafficTyped' /\ EchoInOrder' /\ ClientWaits' /\ OneClient' /\ NumberedWhileOpen'
<1>t. TrafficTyped /\ ClientWaits
  BY DEF NetInv
<1>d. demo = "D3" /\ demo' = "D3" /\ netPc = "answer" /\ netPc' = "hello" /\ UNCHANGED <<sent, link>>
  BY DEF ReceiveAnswer, Step
<1>n. Len(handled) \in Nat /\ Len(sent) \in Nat /\ rounds \in Nat /\ handled \in Seq(Hosts)
  BY <1>t DEF TrafficTyped
<1>1. CASE Delivers /\ held' = Head(inbox) /\ rounds' = rounds
  <2>1. /\ peer' \in Hosts /\ Head(inbox) \in Datagrams /\ inbox' \in Seq(Datagrams)
        /\ handled' \in Seq(Hosts) /\ Len(handled') = Len(handled) + 1
        /\ handled'[Len(handled')] = peer'
        /\ \A i \in 1..Len(handled) : handled'[i] = handled[i]
    BY <1>t, <1>1, DeliveryTyped
  <2>2. TrafficTyped'
    BY <1>t, <1>d, <1>1, <2>1 DEF TrafficTyped
  <2>3. handled' # <<>>
    BY <1>n, <2>1
  <2>4. \A i \in 1..Len(sent) :
          /\ sent[i].after \in 0..Len(handled')
          /\ sent[i].to = IF sent[i].after = 0 THEN Server ELSE handled'[sent[i].after]
    <3> SUFFICES ASSUME NEW i \in 1..Len(sent)
                 PROVE  /\ sent[i].after \in 0..Len(handled')
                        /\ sent[i].to = IF sent[i].after = 0 THEN Server ELSE handled'[sent[i].after]
      OBVIOUS
    <3>1. /\ sent[i].after \in 0..Len(handled)
          /\ sent[i].to = IF sent[i].after = 0 THEN Server ELSE handled[sent[i].after]
      BY <1>t, <1>d DEF ClientWaits
    <3>2. sent[i].after \in 0..Len(handled') /\ (sent[i].after # 0 => sent[i].after \in 1..Len(handled))
      BY <1>n, <2>1, <3>1
    <3> QED
      BY <2>1, <3>1, <3>2
  <2>5. ClientWaits'
    BY <1>t, <1>d, <1>n, <1>1, <2>1, <2>3, <2>4 DEF ClientWaits
  <2> QED
    BY <1>d, <2>2, <2>5 DEF EchoInOrder, OneClient, NumberedWhileOpen
<1>2. CASE rounds' = rounds + 1 /\ UNCHANGED <<inbox, handled, held, peer>>
  <2>1. TrafficTyped'
    BY <1>t, <1>d, <1>2 DEF TrafficTyped
  <2>2. \A i \in 1..Len(sent) : sent[i].after \in Int
    BY <1>t, <1>d DEF ClientWaits
  <2>3. ClientWaits'
    BY <1>t, <1>d, <1>n, <1>2, <2>2 DEF ClientWaits
  <2> QED
    BY <1>d, <2>1, <2>3 DEF EchoInOrder, OneClient, NumberedWhileOpen
<1> QED
  BY <1>1, <1>2 DEF ReceiveAnswer, Delivers, TakeFrom

(* D4 accepts its one client.                                              *)
LEMMA AcceptStep ==
  ASSUME NetInv, Accept
  PROVE  TrafficTyped' /\ EchoInOrder' /\ ClientWaits' /\ OneClient' /\ NumberedWhileOpen'
<1>t. TrafficTyped /\ OneClient
  BY DEF NetInv
<1>d. /\ demo = "D4" /\ demo' = "D4" /\ netPc = "accept" /\ netPc' = "recv" /\ Delivers
      /\ UNCHANGED <<held, link, rounds>>
  BY DEF Accept, Step, Delivers, TakeFrom
<1>1. /\ peer' \in Hosts /\ inbox' \in Seq(Datagrams)
      /\ handled' \in Seq(Hosts) /\ Len(handled') = Len(handled) + 1
      /\ handled'[Len(handled')] = peer'
  BY <1>t, <1>d, DeliveryTyped
<1>2. sent' = sent /\ handled = <<>> /\ sent = <<>>
  BY <1>t, <1>d DEF Delivers, OneClient
<1>3. TrafficTyped'
  BY <1>t, <1>d, <1>1, <1>2 DEF TrafficTyped
<1>4. Len(handled') = 1 /\ Len(sent') = 0
  BY <1>1, <1>2
<1>5. OneClient'
  BY <1>d, <1>1, <1>2, <1>4 DEF OneClient
<1> QED
  BY <1>d, <1>3, <1>5 DEF EchoInOrder, ClientWaits, NumberedWhileOpen

(* D4 answers the client it accepted.                                      *)
LEMMA ClientStep ==
  ASSUME NetInv, ServeClient
  PROVE  TrafficTyped' /\ EchoInOrder' /\ ClientWaits' /\ OneClient' /\ NumberedWhileOpen'
<1>t. TrafficTyped /\ OneClient
  BY DEF NetInv
<1>d. /\ demo = "D4" /\ demo' = "D4" /\ netPc \in {"recv", "send"} /\ netPc' \in {"recv", "send"}
      /\ UNCHANGED <<inbox, peer, held, handled, link, rounds>>
  BY DEF ServeClient
<1>n. Len(handled) = 1 /\ peer = handled[1] /\ peer \in Hosts /\ Len(sent) \in Nat
  BY <1>t, <1>d DEF OneClient, TrafficTyped
<1>1. CASE sent' = sent
  BY <1>t, <1>d, <1>n, <1>1 DEF TrafficTyped, EchoInOrder, ClientWaits, OneClient,
     NumberedWhileOpen
<1>2. CASE sent' = Append(sent, [to |-> peer, data |-> "text", after |-> Len(handled)])
  <2>1. /\ sent' \in Seq(Sendings) /\ Len(sent') = Len(sent) + 1
        /\ sent'[Len(sent) + 1].to = peer
        /\ \A i \in 1..Len(sent) : sent'[i] = sent[i]
        /\ \A i \in 1..Len(sent') : i \in 1..Len(sent) \/ i = Len(sent) + 1
    BY <1>t, <1>n, <1>2, SendingTyped
  <2>2. TrafficTyped'
    BY <1>t, <1>d, <2>1 DEF TrafficTyped
  <2>3. \A i \in 1..Len(sent') : sent'[i].to = handled[1]
    BY <1>t, <1>d, <1>n, <2>1 DEF OneClient
  <2>4. OneClient'
    BY <1>d, <1>n, <2>3 DEF OneClient
  <2> QED
    BY <1>d, <2>2, <2>4 DEF EchoInOrder, ClientWaits, NumberedWhileOpen
<1> QED
  BY <1>1, <1>2 DEF ServeClient

(* D5 numbers what it publishes by its rounds.                             *)
LEMMA PublishStep ==
  ASSUME NetInv, MQTTPublish
  PROVE  TrafficTyped' /\ EchoInOrder' /\ ClientWaits' /\ OneClient' /\ NumberedWhileOpen'
<1>t. TrafficTyped /\ NumberedWhileOpen
  BY DEF NetInv
<1>d. /\ demo = "D5" /\ demo' = "D5" /\ netPc' = "publish" /\ rounds' = rounds + 1
      /\ UNCHANGED <<inbox, peer, held, handled>>
  BY DEF MQTTPublish, Step
<1>n. Len(sent) \in Nat /\ rounds \in Nat /\ rounds + 1 \in Nat /\ Server \in Hosts
  BY <1>t DEF TrafficTyped, Hosts
<1>1. CASE link' = "closed" /\ sent' = sent
  BY <1>t, <1>d, <1>n, <1>1 DEF TrafficTyped, EchoInOrder, ClientWaits, OneClient,
     NumberedWhileOpen
<1>2. CASE /\ link = "open" /\ link' \in {"open", "closed"}
           /\ sent' = Append(sent, [to |-> Server, data |-> "text", after |-> rounds + 1])
  <2>1. /\ sent' \in Seq(Sendings) /\ Len(sent') = Len(sent) + 1
        /\ sent'[Len(sent) + 1].after = rounds + 1
        /\ \A i \in 1..Len(sent) : sent'[i] = sent[i]
        /\ \A i \in 1..Len(sent') : i \in 1..Len(sent) \/ i = Len(sent) + 1
    BY <1>t, <1>n, <1>2, SendingTyped
  <2>2. TrafficTyped'
    BY <1>t, <1>d, <1>n, <1>2, <2>1 DEF TrafficTyped
  <2>3. Len(sent) = rounds
    BY <1>t, <1>d, <1>2 DEF NumberedWhileOpen
  <2>4. \A i \in 1..Len(sent') : sent'[i].after = i
    BY <1>t, <1>d, <2>1, <2>3 DEF NumberedWhileOpen
  <2>5. NumberedWhileOpen'
    BY <1>d, <2>1, <2>3, <2>4 DEF NumberedWhileOpen
  <2> QED
    BY <1>d, <2>2, <2>5 DEF EchoInOrder, ClientWaits, OneClient
<1> QED
  BY <1>1, <1>2 DEF MQTTPublish

(* NetInv holds in every state of the network examples.                    *)
LEMMA NetInvariant == NetSpec => []NetInv
<1>1. NetInv /\ [NetNext]_netVars => NetInv'
  <2> SUFFICES ASSUME NetInv, [NetNext]_netVars PROVE NetInv'
    OBVIOUS
  <2>1. NetPlaces' /\ HotspotTyped'
    BY NetKeepsPlaces, HotspotStays DEF NetInv
  <2>2. CASE \E host \in Hosts, what \in {"text", "full"} : Arrive(host, what)
    BY <2>2, NetArrives
  <2>3. CASE ~ \E host \in Hosts, what \in {"text", "full"} : Arrive(host, what)
    <3>1. TrafficTyped' /\ EchoInOrder' /\ ClientWaits' /\ OneClient' /\ NumberedWhileOpen'
      BY <2>3, NetQuiet, EchoStep, HelloStep, AnswerStep, AcceptStep, ClientStep,
         PublishStep DEF NetNext
    <3> QED
      BY <2>1, <3>1 DEF NetInv
  <2> QED
    BY <2>2, <2>3
<1> QED
  BY <1>1, NetBegins, PTL DEF NetSpec

(* The variables of the network examples have their types.                 *)
THEOREM NetTypeCorrect == NetSpec => []NetTypeOK
<1>1. NetInv => NetTypeOK
  BY DEF NetInv, NetPlaces, HotspotTyped, TrafficTyped, NetTypeOK
<1> QED
  BY <1>1, NetInvariant, PTL

(* Each network example answers whom it should: the echo server every      *)
(* datagram once and in order, the UDP client whom it heard from last, the *)
(* TCP server its first client, and the MQTT client its broker, without a  *)
(* gap as long as the connection is open.                                  *)
THEOREM NetAnswers == NetSpec => []AnswersItsPeer
<1>1. NetInv => AnswersItsPeer
  <2> SUFFICES ASSUME NetInv PROVE AnswersItsPeer
    OBVIOUS
  <2>1. DOMAIN sent = 1..Len(sent)
    BY DEF NetInv, TrafficTyped
  <2>2. demo = "D4" /\ sent # <<>> => Len(handled) = 1
    BY DEF NetInv, OneClient, NetPlaces
  <2>3. \A i \in 1..Len(sent) : sent # <<>>
    OBVIOUS
  <2> QED
    BY <2>1, <2>2, <2>3 DEF NetInv, AnswersItsPeer, EchoInOrder, ClientWaits, OneClient,
       NumberedWhileOpen
<1> QED
  BY <1>1, NetInvariant, PTL

-----------------------------------------------------------------------------
(* The GPS driver.                                                         *)

(* A full window holds nothing but the newest sentence, up to where it     *)
(* ends.                                                                   *)
OneSentence ==
  full = 1 => \A f \in 1..6 : gps_uart[f] \in {sentence, -sentence, Nothing}

(* What HemisphereOfItsLongitude says holds between the two halves of a    *)
(* call, too.                                                              *)
PairKept ==
  full = 1 =>
    /\ longitude_bd # 0 => ewhemi_bd \in {0, longitude_bd}
    /\ longitude_bd # Mixed

GpsInv == GpsTypeOK /\ sentence \in 0..MaxSentences /\ OneSentence /\ PairKept

(* A window of the receiver keeps the types, and a full one is uniform.    *)
LEMMA WindowRead == GpsInv /\ IoTUartRead => GpsInv'
<1> SUFFICES ASSUME GpsInv, IoTUartRead PROVE GpsInv'
  OBVIOUS
<1>1. /\ sentence' \in 1..MaxSentences /\ sentence' \in Int /\ -sentence' \in (-MaxSentences)..Mixed
      /\ sentence' \in (-MaxSentences)..Mixed /\ Mixed \in (-MaxSentences)..Mixed
      /\ Nothing \in (-MaxSentences)..Mixed
  BY GpsAssumption DEF GpsInv, IoTUartRead, Mixed, Nothing
<1>2. UNCHANGED <<full, gpsmsg>> /\ analysed' = 0
  BY DEF IoTUartRead
<1>3. PICK last \in 0..6, cut \in BOOLEAN, short \in IF full = 1 THEN {FALSE} ELSE BOOLEAN :
        gps_uart' = [f \in 1..6 |->
         IF f <= last THEN sentence'
         ELSE IF f = last + 1 /\ cut
              THEN IF ~short THEN -sentence'
                   ELSE IF ~Complete(gps_uart[f]) THEN -sentence'
                   ELSE IF f \in {1, 3, 5} THEN Mixed ELSE sentence'
         ELSE IF short THEN gps_uart[f] ELSE Nothing]
  BY DEF IoTUartRead
<1>4. \A f \in 1..6 : gps_uart'[f] \in {sentence', -sentence', Mixed, Nothing, gps_uart[f]}
  BY <1>3
<1>5. \A f \in 1..6 : gps_uart[f] \in (-MaxSentences)..Mixed
  BY DEF GpsInv, GpsTypeOK
<1>6. gps_uart' \in [1..6 -> (-MaxSentences)..Mixed]
  <2>1. gps_uart' = [f \in 1..6 |-> gps_uart'[f]]
    BY <1>3
  <2>2. \A f \in 1..6 : gps_uart'[f] \in (-MaxSentences)..Mixed
    BY <1>1, <1>4, <1>5
  <2> QED
    BY <2>1, <2>2
<1>7. full = 1 => \A f \in 1..6 : gps_uart'[f] \in {sentence', -sentence', Nothing}
  <2> SUFFICES ASSUME full = 1 PROVE \A f \in 1..6 : gps_uart'[f] \in {sentence', -sentence', Nothing}
    OBVIOUS
  <2>1. short = FALSE
    OBVIOUS
  <2> QED
    BY <1>3, <2>1
<1>8. GpsTypeOK' /\ PairKept'
  BY <1>2, <1>6 DEF GpsInv, GpsTypeOK, PairKept, gpsmsg
<1>9. OneSentence'
  BY <1>2, <1>7 DEF OneSentence
<1> QED
  BY <1>1, <1>8, <1>9 DEF GpsInv

(* The analysis takes both from the newest sentence, or neither.           *)
LEMMA WindowAnalysed == GpsInv /\ NMEA_BDS_GPRMC_Analysis => GpsInv'
<1> SUFFICES ASSUME GpsInv, NMEA_BDS_GPRMC_Analysis PROVE GpsInv'
  OBVIOUS
<1>1. UNCHANGED <<full, gps_uart, sentence>> /\ analysed' = 1
  BY DEF NMEA_BDS_GPRMC_Analysis
<1>2. \A f \in 1..6 : gps_uart[f] \in (-MaxSentences)..Mixed
  BY DEF GpsInv, GpsTypeOK
<1>3. /\ latitude_bd \in 0..Mixed /\ nshemi_bd \in 0..Mixed
      /\ longitude_bd \in 0..Mixed /\ ewhemi_bd \in 0..Mixed
  BY DEF GpsInv, GpsTypeOK
<1>4. \A comma \in 1..6, old \in 0..Mixed : Number(comma, old) \in 0..Mixed /\ Letter(comma, old) \in 0..Mixed
  <2> SUFFICES ASSUME NEW comma \in 1..6, NEW old \in 0..Mixed
               PROVE  Number(comma, old) \in 0..Mixed /\ Letter(comma, old) \in 0..Mixed
    OBVIOUS
  <2>1. gps_uart[comma] \in (-MaxSentences)..Mixed /\ Mixed = MaxSentences + 1
    BY <1>2 DEF Mixed
  <2>2. Number(comma, old) \in 0..Mixed
    BY <2>1, GpsAssumption DEF Number, NMEA_Str2num, Complete
  <2>3. Letter(comma, old) \in 0..Mixed
    BY <2>1, GpsAssumption DEF Letter
  <2> QED
    BY <2>2, <2>3
<1>5. /\ latitude_bd' = Number(2, latitude_bd) /\ nshemi_bd' = Letter(4, nshemi_bd)
      /\ longitude_bd' = Number(5, longitude_bd) /\ ewhemi_bd' = Letter(6, ewhemi_bd)
  BY DEF NMEA_BDS_GPRMC_Analysis
<1>6. GpsTypeOK'
  <2>1. /\ latitude_bd' \in 0..Mixed /\ nshemi_bd' \in 0..Mixed
        /\ longitude_bd' \in 0..Mixed /\ ewhemi_bd' \in 0..Mixed
    BY <1>3, <1>4, <1>5
  <2> QED
    BY <1>1, <2>1 DEF GpsInv, GpsTypeOK
<1>7. PairKept'
  <2> SUFFICES ASSUME full = 1
               PROVE  /\ longitude_bd' # 0 => ewhemi_bd' \in {0, longitude_bd'}
                      /\ longitude_bd' # Mixed
    BY <1>1 DEF PairKept, Mixed
  <2>1. /\ gps_uart[5] \in {sentence, -sentence, 0} /\ gps_uart[6] \in {sentence, -sentence, 0}
        /\ sentence \in 0..MaxSentences
    BY DEF GpsInv, OneSentence, Nothing
  <2>2. CASE ~NMEA_Comma_Pos(5)
    <3>1. ~NMEA_Comma_Pos(6)
      BY <2>2 DEF NMEA_Comma_Pos
    <3>2. longitude_bd' = longitude_bd /\ ewhemi_bd' = ewhemi_bd
      BY <1>5, <2>2, <3>1 DEF Number, Letter
    <3> QED
      BY <3>2 DEF GpsInv, PairKept
  <2>3. CASE NMEA_Comma_Pos(5) /\ ~Complete(gps_uart[5])
    <3>1. longitude_bd' = 0
      BY <1>5, <2>3 DEF Number, NMEA_Str2num
    <3> QED
      BY <3>1, GpsAssumption DEF Mixed
  <2>4. CASE NMEA_Comma_Pos(5) /\ Complete(gps_uart[5])
    <3>1. NMEA_Comma_Pos(6)
      BY <2>4 DEF NMEA_Comma_Pos
    <3>2. longitude_bd' = gps_uart[5] /\ gps_uart[5] > 0
      BY <1>5, <2>4 DEF Number, NMEA_Str2num, Complete
    <3>3. longitude_bd' = sentence
      BY <2>1, <3>2
    <3>4. ewhemi_bd' = IF gps_uart[6] < 0 THEN -gps_uart[6] ELSE gps_uart[6]
      BY <1>5, <3>1 DEF Letter
    <3>5. ewhemi_bd' \in {0, sentence}
      BY <2>1, <3>4
    <3> QED
      BY <2>1, <3>3, <3>5, GpsAssumption DEF Mixed
  <2> QED
    BY <2>2, <2>3, <2>4
<1> QED
  BY <1>1, <1>6, <1>7 DEF GpsInv, OneSentence

(* GpsInv holds in every state of the driver.                              *)
LEMMA GpsInvariant == GpsSpec => []GpsInv
<1>1. GpsInit => GpsInv
  BY GpsAssumption DEF GpsInit, GpsInv, GpsTypeOK, OneSentence, PairKept, Nothing, Mixed
<1>2. GpsInv /\ UNCHANGED gpsVars => GpsInv'
  BY DEF GpsInv, GpsTypeOK, OneSentence, PairKept, gpsVars, gpsmsg, Nothing, Mixed
<1>3. GpsInv /\ [GpsNext]_gpsVars => GpsInv'
  BY <1>2, WindowRead, WindowAnalysed DEF GpsNext
<1> QED
  BY <1>1, <1>3, PTL DEF GpsSpec

(* The variables of the GPS driver have their types.                       *)
THEOREM GpsTypeCorrect == GpsSpec => []GpsTypeOK
<1>1. GpsInv => GpsTypeOK
  BY DEF GpsInv
<1> QED
  BY <1>1, GpsInvariant, PTL

(* As long as the receiver delivers full windows, a longitude comes with   *)
(* the hemisphere of its own sentence or with none.                        *)
THEOREM GpsPairs == GpsSpec => []HemisphereOfItsLongitude
<1>1. GpsInv => HemisphereOfItsLongitude
  BY DEF GpsInv, PairKept, HemisphereOfItsLongitude
<1> QED
  BY <1>1, GpsInvariant, PTL

-----------------------------------------------------------------------------
(* The sensor examples: the inductive invariant.                           *)

Bells == [flag : {0, 1}, made : {0, 1}, taken : Nat, alarms : Nat]

BoardTyped ==
  /\ BoardTypeOK /\ board \in {"C1", "C2", "C3", "C4", "C5"}
  /\ passed \in [Fields -> 0..MaxRounds]
  /\ bell \in Bells

(* No initialisation measures anything.                                    *)
InitRows ==
  {WriteReg("GetVoltage"), Write("InitBH1750"), Write("InitSHT30"), WriteReg("reset"),
   WriteReg("wake"), WriteReg("configure"), Write("ReadID"), Write("RegisterIsr")}

InitMeasuresNothing == task = "init" => transfers \in Seq(InitRows)

StartRow   == [do |-> "StartBH1750", to |-> {}, checked |-> TRUE]
LuxRow     == [do |-> "read", to |-> {"Lux"}, checked |-> TRUE]
ClimateRow == [do |-> "crc", to |-> {"Temperature", "Humidity"}, checked |-> TRUE]
GasRow     == [do |-> "read", to |-> {"ppm"}, checked |-> TRUE]
NameRow    == [do |-> "ReadID", to |-> {}, checked |-> TRUE]
AccRow     == [do |-> "ReadAcc", to |-> {"Accel"}, checked |-> TRUE]
TempRow    == [do |-> "ReturnTemp", to |-> {"Temperature"}, checked |-> TRUE]
CopyRow    == [do |-> "copy", to |-> {}, checked |-> FALSE]

(* How far a call has come, and what it has read by then.                  *)
GasRead ==
  \/ transfers = <<GasRow>>
  \/ transfers = <<>> /\ data["ppm"] = round

LightRead ==
  \/ transfers = <<StartRow, LuxRow>>
  \/ transfers = <<LuxRow>>
  \/ transfers = <<>> /\ data["Lux"] = round

ClimateRead ==
  \/ transfers = <<StartRow, LuxRow, ClimateRow>>
  \/ transfers = <<LuxRow, ClimateRow>>
  \/ transfers = <<ClimateRow>> /\ data["Lux"] = round
  \/ transfers = <<>> /\ data["Lux"] = round

CoverRead ==
  \/ transfers = <<NameRow, AccRow, TempRow, CopyRow>>
  \/ transfers = <<AccRow, TempRow, CopyRow>>
  \/ transfers = <<TempRow, CopyRow>> /\ local["Accel"] = Measured
  \/ transfers = <<CopyRow>> /\ local["Accel"] = Measured /\ local["Temperature"] = Measured
  \/ transfers = <<>> /\ data["Accel"] = Measured

(* The caller's variables while a call reads, and once it has returned.    *)
CallsRead ==
  task = "read" =>
    /\ board = "C1" => GasRead
    /\ board = "C2" => ClimateRead
    /\ board = "C3" => LightRead
    /\ board = "C4" => CoverRead
    /\ board # "C5"

CallsReturned ==
  task = "act" =>
    /\ board = "C1" => data["ppm"] = round
    /\ board \in {"C2", "C3"} => data["Lux"] = round
    /\ board = "C4" => data["Accel"] = Measured

(* What stands in for a value whose checksum was wrong is the newest that  *)
(* passed; and an accelerometer's values are handed over together.         *)
StandsIn ==
  /\ board = "C2" => \A f \in {"Temperature", "Humidity"} : data[f] = passed[f]
  /\ board = "C4" => data["Accel"] = data["Temperature"]

AlarmOfItsOwn == bell.made = 1 => bell.alarms + bell.flag <= bell.taken

BoardInv ==
  /\ BoardTyped /\ InitMeasuresNothing /\ CallsRead /\ CallsReturned /\ StandsIn /\ AlarmOfItsOwn

-----------------------------------------------------------------------------
(* The sensor examples: steps.                                             *)

(* A row that reads, under another name.                                   *)
LEMMA OtherRead ==
  ASSUME NEW r, NEW fields, NEW new, r = Read(fields)
  PROVE  [r EXCEPT !.do = new] = [do |-> new, to |-> fields, checked |-> TRUE]
<1>1. ASSUME NEW looks, r = [do |-> "read", to |-> fields, checked |-> looks]
      PROVE  [r EXCEPT !.do = new] = [do |-> new, to |-> fields, checked |-> looks]
  BY <1>1
<1> QED
  BY <1>1 DEF Read

(* The rows of transfers the calls begin with.                             *)
LEMMA RowsOfCalls ==
  /\ \A b \in {"C1", "C2", "C3", "C4", "C5"} : InitOf(b) \in Seq(InitRows)
  /\ ReadOf("C1") = <<GasRow>> /\ ReadOf("C2") = <<StartRow, LuxRow, ClimateRow>>
  /\ ReadOf("C3") = <<StartRow, LuxRow>> /\ ReadOf("C4") = <<NameRow, AccRow, TempRow, CopyRow>>
<1>0. /\ Read({"ppm"}) = GasRow /\ Write("StartBH1750") = StartRow /\ Read({"Lux"}) = LuxRow
      /\ [Read({"Temperature", "Humidity"}) EXCEPT !.do = "crc"] = ClimateRow
      /\ Write("ReadID") = NameRow /\ [Read({"Accel"}) EXCEPT !.do = "ReadAcc"] = AccRow
      /\ [Read({"Temperature"}) EXCEPT !.do = "ReturnTemp"] = TempRow /\ WriteReg("copy") = CopyRow
  <2>1. Read({"ppm"}) = GasRow /\ Read({"Lux"}) = LuxRow
    BY DEF Read, GasRow, LuxRow
  <2>2. Write("StartBH1750") = StartRow /\ Write("ReadID") = NameRow /\ WriteReg("copy") = CopyRow
    BY DEF Write, WriteReg, StartRow, NameRow, CopyRow
  <2>3. [Read({"Temperature", "Humidity"}) EXCEPT !.do = "crc"] = ClimateRow
    BY OtherRead DEF ClimateRow
  <2>4. [Read({"Accel"}) EXCEPT !.do = "ReadAcc"] = AccRow
    BY OtherRead DEF AccRow
  <2>5. [Read({"Temperature"}) EXCEPT !.do = "ReturnTemp"] = TempRow
    BY OtherRead DEF TempRow
  <2> QED
    BY <2>1, <2>2, <2>3, <2>4, <2>5
<1>1. /\ ReadOf("C1") = <<GasRow>> /\ ReadOf("C3") = <<StartRow, LuxRow>>
      /\ ReadOf("C2") = <<StartRow, LuxRow, ClimateRow>>
  <2>1. ReadOf("C1") = GetMQ2PPM /\ ReadOf("C3") = E53SC1ReadData /\ ReadOf("C2") = E53IA1ReadData
    BY DEF ReadOf
  <2> QED
    BY <1>0, <2>1 DEF GetMQ2PPM, E53SC1ReadData, E53IA1ReadData
<1>2. ReadOf("C4") = <<NameRow, AccRow, TempRow, CopyRow>>
  <2>1. ReadOf("C4") = E53SC2ReadData
    BY DEF ReadOf
  <2>2. E53SC2ReadData = <<NameRow>> \o <<AccRow, TempRow, CopyRow>>
    BY <1>0 DEF E53SC2ReadData, MPU6050ReadID
  <2> QED
    BY <2>1, <2>2
<1>3. \A b \in {"C1", "C2", "C3", "C4", "C5"} : InitOf(b) \in Seq(InitRows)
  <2>1. InitOf("C1") \in Seq(InitRows) /\ InitOf("C3") \in Seq(InitRows) /\ InitOf("C5") \in Seq(InitRows)
    BY DEF InitOf, MQ2PPMCalibration, E53SC1Init, E53IS1ReadData, InitRows
  <2>2. InitOf("C2") \in Seq(InitRows)
    BY DEF InitOf, E53IA1Init, InitRows
  <2>3. InitOf("C4") \in Seq(InitRows)
    <3>1. MPU6050Init \in Seq(InitRows) /\ MPU6050ReadID \in Seq(InitRows)
      BY DEF MPU6050Init, MPU6050ReadID, InitRows
    <3> QED
      BY <3>1 DEF InitOf, E53SC2Init
  <2> QED
    BY <2>1, <2>2, <2>3
<1> QED
  BY <1>1, <1>2, <1>3

(* What one transfer that succeeds changes.                                *)
LEMMA TransferDoes ==
  ASSUME Transfer, NEW t, t = Head(transfers)
  PROVE  /\ transfers # <<>> /\ transfers' = Tail(transfers) /\ task \in {"init", "read"}
         /\ UNCHANGED <<board, task, round, basis, bell>>
         /\ t.do \notin {"reset", "wake"} => awake' = awake
         /\ awake' \in {0, 1, awake}
         /\ reference' \in {1, reference}
         /\ t.do \in {"ReadAcc", "ReturnTemp"} => local' = Put(local, t.to, Measured)
         /\ t.do \notin {"ReadAcc", "ReturnTemp"} => local' = local
         /\ t.do = "read" => data' = Put(data, t.to, Measured) /\ passed' = Put(passed, t.to, round)
         /\ t.do = "crc" => \E good \in SUBSET t.to : /\ data' = Put(data, good, Measured)
                                                      /\ passed' = Put(passed, good, round)
         /\ t.do = "copy" => data' = [data EXCEPT !["Accel"] = local["Accel"],
                                                  !["Temperature"] = local["Temperature"]]
         /\ t.do \notin {"read", "crc", "copy"} => data' = data
         /\ t.do \notin {"read", "crc", "ReadAcc", "ReturnTemp"} => passed' = passed
         /\ \E good \in SUBSET t.to \cup {t.to} : passed' \in {passed, Put(passed, good, round)}
<1>1. /\ transfers # <<>> /\ transfers' = Tail(transfers) /\ task \in {"init", "read"}
      /\ UNCHANGED <<board, task, round, basis, bell>>
      /\ awake' = CASE t.do = "reset" -> 0 [] t.do = "wake" -> 1 [] OTHER -> awake
      /\ reference' = IF t.do = "GetVoltage" THEN 1 ELSE reference
      /\ local' = IF t.do \in {"ReadAcc", "ReturnTemp"} THEN Put(local, t.to, Measured) ELSE local
  BY DEF Transfer
<1>2. PICK good \in IF t.do = "crc" THEN SUBSET t.to ELSE {t.to} :
        /\ data' = CASE t.do \in {"read", "crc"} -> Put(data, good, Measured)
                     [] t.do = "copy" -> [data EXCEPT !["Accel"] = local["Accel"],
                                                      !["Temperature"] = local["Temperature"]]
                     [] OTHER -> data
        /\ passed' = IF t.do \in {"read", "crc", "ReadAcc", "ReturnTemp"}
                     THEN Put(passed, good, round) ELSE passed
  BY DEF Transfer
<1>3. good \in SUBSET t.to \cup {t.to} /\ (t.do # "crc" => good = t.to) /\ (t.do = "crc" => good \in SUBSET t.to)
  BY <1>2
<1>4. (t.do \notin {"reset", "wake"} => awake' = awake) /\ awake' \in {0, 1, awake}
  BY <1>1
<1>5. t.do \in {"read", "crc"} => data' = Put(data, good, Measured)
  BY <1>2
<1>6. t.do = "copy" => data' = [data EXCEPT !["Accel"] = local["Accel"],
                                            !["Temperature"] = local["Temperature"]]
  BY <1>2
<1>7. t.do \notin {"read", "crc", "copy"} => data' = data
  BY <1>2
<1>8. t.do \in {"read", "crc"} => passed' = Put(passed, good, round)
  BY <1>2
<1>9. t.do \notin {"read", "crc", "ReadAcc", "ReturnTemp"} => passed' = passed
  BY <1>2
<1>10. passed' \in {passed, Put(passed, good, round)}
  BY <1>2
<1> QED
  BY <1>1, <1>3, <1>4, <1>5, <1>6, <1>7, <1>8, <1>9, <1>10

(* Putting a value of a round into some fields keeps the type.             *)
LEMMA PutTyped ==
  ASSUME NEW T, NEW variables \in [Fields -> T], NEW fields, NEW value \in T
  PROVE  /\ Put(variables, fields, value) \in [Fields -> T]
         /\ \A f \in Fields : Put(variables, fields, value)[f] = IF f \in fields THEN value ELSE variables[f]
  BY DEF Put

(* A transfer during the initialisation measures nothing.                  *)
LEMMA InitTransfer ==
  ASSUME BoardInv, Transfer, task = "init"
  PROVE  /\ UNCHANGED <<local, data, passed>>
         /\ awake' \in {0, 1} /\ reference' \in {1, reference}
         /\ transfers' \in Seq(InitRows)
<1>1. transfers \in Seq(InitRows) /\ transfers # <<>>
  BY DEF BoardInv, InitMeasuresNothing, Transfer
<1>2. Head(transfers) \in InitRows /\ Tail(transfers) \in Seq(InitRows)
  BY <1>1
<1>3. \A r \in InitRows : r.do \in {"GetVoltage", "InitBH1750", "InitSHT30", "reset", "wake",
                                    "configure", "ReadID", "RegisterIsr"}
  BY DEF InitRows, Write, WriteReg
<1>4. awake \in {0, 1}
  BY DEF BoardInv, BoardTyped, BoardTypeOK
<1> QED
  BY <1>2, <1>3, <1>4, TransferDoes

(* A transfer keeps the types. *)
LEMMA TransferTyped == BoardInv /\ Transfer => BoardTyped'
<1> SUFFICES ASSUME BoardInv, Transfer PROVE BoardTyped'
  OBVIOUS
<1> DEFINE t == Head(transfers)
<1>1. t = Head(transfers)
  OBVIOUS
<1> HIDE DEF t
<1>t. BoardTyped /\ BoardTypeOK /\ MaxRounds \in Nat \ {0}
  BY BoardAssumption DEF BoardInv, BoardTyped
<1>2. UNCHANGED <<board, task, round, basis, bell>> /\ awake' \in {0, 1} /\ reference' \in {1, reference}
  BY <1>1, <1>t, TransferDoes DEF BoardTypeOK
<1>3. Measured \in 0..MaxRounds /\ Measured \in -1..MaxRounds /\ round \in 0..MaxRounds
  BY <1>t DEF Measured, BoardTypeOK
<1>4. local' \in [Fields -> -1..MaxRounds]
  <2>1. local \in [Fields -> -1..MaxRounds]
    BY <1>t DEF BoardTypeOK
  <2>2. local' = local \/ local' = Put(local, t.to, Measured)
    BY <1>1, TransferDoes
  <2> QED
    BY <1>3, <2>1, <2>2, PutTyped
<1>5. passed' \in [Fields -> 0..MaxRounds]
  <2>1. passed \in [Fields -> 0..MaxRounds]
    BY <1>t DEF BoardTyped
  <2>2. PICK good : passed' \in {passed, Put(passed, good, round)}
    BY <1>1, TransferDoes
  <2>3. Put(passed, good, round) \in [Fields -> 0..MaxRounds]
    BY <1>3, <2>1, PutTyped
  <2> QED
    BY <2>1, <2>2, <2>3
<1>6. data' \in [Fields -> 0..MaxRounds]
  <2>1. data \in [Fields -> 0..MaxRounds]
    BY <1>t DEF BoardTypeOK
  <2>2. CASE t.do # "copy"
    <3>1. PICK good : data' \in {data, Put(data, good, Measured)}
      BY <1>1, <2>2, TransferDoes
    <3>2. Put(data, good, Measured) \in [Fields -> 0..MaxRounds]
      BY <1>3, <2>1, PutTyped
    <3> QED
      BY <2>1, <3>1, <3>2
  <2>3. CASE t.do = "copy"
    <3>1. task = "read"
      <4>1. CASE task = "init"
        <5>1. transfers \in Seq(InitRows) /\ transfers # <<>>
          BY <4>1 DEF BoardInv, InitMeasuresNothing, Transfer
        <5>2. t \in InitRows
          BY <1>1, <5>1
        <5> QED
          BY <2>3, <5>2 DEF InitRows, Write, WriteReg
      <4> QED
        BY <1>1, <4>1, TransferDoes
    <3>2. board = "C4" /\ local["Accel"] = Measured /\ local["Temperature"] = Measured
      <4>1. t \in {GasRow, StartRow, LuxRow, ClimateRow} => t.do # "copy"
        BY DEF GasRow, StartRow, LuxRow, ClimateRow
      <4>2. board = "C4"
        BY <1>1, <1>t, <2>3, <3>1, <4>1 DEF BoardInv, CallsRead, GasRead, LightRead, ClimateRead,
           BoardTyped,
           Transfer
      <4>3. t \in {NameRow, AccRow, TempRow} => t.do # "copy"
        BY DEF NameRow, AccRow, TempRow
      <4> QED
        BY <1>1, <2>3, <3>1, <4>2, <4>3 DEF BoardInv, CallsRead, CoverRead, Transfer
    <3>3. data' = [data EXCEPT !["Accel"] = Measured, !["Temperature"] = Measured]
      BY <1>1, <2>3, <3>2, TransferDoes
    <3> QED
      BY <1>3, <2>1, <3>3
  <2> QED
    BY <2>2, <2>3
<1>7. reference' \in -1..MaxRounds
  BY <1>t, <1>2 DEF BoardTypeOK
<1> QED
  BY <1>t, <1>2, <1>4, <1>5, <1>6, <1>7 DEF BoardTyped, BoardTypeOK

(* A transfer of the calls that measure.                                   *)
LEMMA ReadTransfer ==
  ASSUME BoardInv, Transfer, task = "read"
  PROVE  CallsRead' /\ StandsIn'
<1> DEFINE t == Head(transfers)
<1>1. t = Head(transfers)
  OBVIOUS
<1> HIDE DEF t
<1>t. /\ data \in [Fields -> 0..MaxRounds] /\ passed \in [Fields -> 0..MaxRounds]
      /\ local \in [Fields -> -1..MaxRounds] /\ "Lux" \in Fields /\ "Accel" \in Fields /\ "ppm" \in Fields
      /\ "Temperature" \in Fields /\ "Humidity" \in Fields
  BY DEF BoardInv, BoardTyped, BoardTypeOK, Fields
<1>2. /\ transfers # <<>> /\ transfers' = Tail(transfers)
      /\ UNCHANGED <<board, task, round, basis, bell>>
  BY <1>1, TransferDoes
<1>m. t.do \notin {"reset", "wake"} => Measured' = Measured
  BY <1>1, <1>2, TransferDoes DEF Measured
<1>s. board # "C4" => Measured = round
  BY DEF Measured
<1>v. board # "C5" /\ board \in {"C1", "C2", "C3", "C4"}
  BY DEF BoardInv, CallsRead, BoardTyped
<1>3. CASE board = "C1"
  <2>1. transfers = <<GasRow>>
    BY <1>2, <1>3 DEF BoardInv, CallsRead, GasRead
  <2>2. t = GasRow /\ transfers' = <<>>
    BY <1>1, <1>2, <2>1
  <2>r. t.do = "read" /\ t.to = {"ppm"}
    BY <2>2 DEF GasRow
  <2>3. data' = Put(data, {"ppm"}, Measured)
    BY <1>1, <2>r, TransferDoes
  <2>4. data'["ppm"] = round
    BY <1>s, <1>t, <1>3, <2>3 DEF Put
  <2> QED
    BY <1>2, <1>3, <2>2, <2>4 DEF CallsRead, GasRead, StandsIn
<1>4. CASE board = "C3"
  <2>1. transfers = <<StartRow, LuxRow>> \/ transfers = <<LuxRow>>
    BY <1>2, <1>4 DEF BoardInv, CallsRead, LightRead
  <2>2. CASE transfers = <<StartRow, LuxRow>>
    <3>1. transfers' = <<LuxRow>>
      BY <1>2, <2>2
    <3> QED
      BY <1>2, <1>4, <3>1 DEF CallsRead, LightRead, StandsIn
  <2>3. CASE transfers = <<LuxRow>>
    <3>1. t = LuxRow /\ transfers' = <<>>
      BY <1>1, <1>2, <2>3
    <3>r. t.do = "read" /\ t.to = {"Lux"}
      BY <3>1 DEF LuxRow
    <3>2. data' = Put(data, {"Lux"}, Measured)
      BY <1>1, <3>r, TransferDoes
    <3>3. data'["Lux"] = round
      BY <1>s, <1>t, <1>4, <3>2 DEF Put
    <3> QED
      BY <1>2, <1>4, <3>1, <3>3 DEF CallsRead, LightRead, StandsIn
  <2> QED
    BY <2>1, <2>2, <2>3
<1>5. CASE board = "C2"
  <2>0. \A f \in {"Temperature", "Humidity"} : data[f] = passed[f]
    BY <1>5 DEF BoardInv, StandsIn
  <2>1. \/ transfers = <<StartRow, LuxRow, ClimateRow>> \/ transfers = <<LuxRow, ClimateRow>>
        \/ transfers = <<ClimateRow>> /\ data["Lux"] = round
    BY <1>2, <1>5 DEF BoardInv, CallsRead, ClimateRead
  <2>2. CASE transfers = <<StartRow, LuxRow, ClimateRow>>
    <3>1. t = StartRow /\ transfers' = <<LuxRow, ClimateRow>>
      BY <1>1, <1>2, <2>2
    <3>2. data' = data /\ passed' = passed
      BY <1>1, <3>1, TransferDoes DEF StartRow
    <3> QED
      BY <1>2, <1>5, <2>0, <3>1, <3>2 DEF CallsRead, ClimateRead, StandsIn
  <2>3. CASE transfers = <<LuxRow, ClimateRow>>
    <3>1. t = LuxRow /\ transfers' = <<ClimateRow>>
      BY <1>1, <1>2, <2>3
    <3>r. t.do = "read" /\ t.to = {"Lux"}
      BY <3>1 DEF LuxRow
    <3>2. data' = Put(data, {"Lux"}, Measured) /\ passed' = Put(passed, {"Lux"}, round)
      BY <1>1, <3>r, TransferDoes
    <3>3. data'["Lux"] = round /\ \A f \in {"Temperature", "Humidity"} : data'[f] = passed'[f]
      BY <1>s, <1>t, <1>5, <2>0, <3>2 DEF Put
    <3> QED
      BY <1>2, <1>5, <3>1, <3>3 DEF CallsRead, ClimateRead, StandsIn
  <2>4. CASE transfers = <<ClimateRow>> /\ data["Lux"] = round
    <3>1. t = ClimateRow /\ transfers' = <<>>
      BY <1>1, <1>2, <2>4
    <3>2. t.do = "crc" /\ t.to = {"Temperature", "Humidity"}
      BY <3>1 DEF ClimateRow
    <3>3. PICK good \in SUBSET {"Temperature", "Humidity"} : /\ data' = Put(data, good, Measured)
                                                            /\ passed' = Put(passed, good, round)
      BY <1>1, <3>2, TransferDoes
    <3>4. "Lux" \notin good
      BY <3>3
    <3>5. data'["Lux"] = round
      BY <1>t, <2>4, <3>3, <3>4 DEF Put
    <3>6. \A f \in {"Temperature", "Humidity"} : data'[f] = passed'[f]
      BY <1>s, <1>t, <1>5, <2>0, <3>3 DEF Put
    <3> QED
      BY <1>2, <1>5, <3>1, <3>5, <3>6 DEF CallsRead, ClimateRead, StandsIn
  <2> QED
    BY <2>1, <2>2, <2>3, <2>4
<1>6. CASE board = "C4"
  <2>0. data["Accel"] = data["Temperature"]
    BY <1>6 DEF BoardInv, StandsIn
  <2>1. \/ transfers = <<NameRow, AccRow, TempRow, CopyRow>> \/ transfers = <<AccRow, TempRow, CopyRow>>
        \/ transfers = <<TempRow, CopyRow>> /\ local["Accel"] = Measured
        \/ transfers = <<CopyRow>> /\ local["Accel"] = Measured /\ local["Temperature"] = Measured
    BY <1>2, <1>6 DEF BoardInv, CallsRead, CoverRead
  <2>2. CASE transfers = <<NameRow, AccRow, TempRow, CopyRow>>
    <3>1. t = NameRow /\ transfers' = <<AccRow, TempRow, CopyRow>>
      BY <1>1, <1>2, <2>2
    <3>2. data' = data
      BY <1>1, <3>1, TransferDoes DEF NameRow
    <3> QED
      BY <1>2, <1>6, <2>0, <3>1, <3>2 DEF CallsRead, CoverRead, StandsIn
  <2>3. CASE transfers = <<AccRow, TempRow, CopyRow>>
    <3>1. t = AccRow /\ transfers' = <<TempRow, CopyRow>>
      BY <1>1, <1>2, <2>3
    <3>r. t.do = "ReadAcc" /\ t.to = {"Accel"}
      BY <3>1 DEF AccRow
    <3>2. data' = data /\ local' = Put(local, {"Accel"}, Measured) /\ Measured' = Measured
      BY <1>1, <1>m, <3>r, TransferDoes
    <3>3. local'["Accel"] = Measured'
      BY <1>t, <3>2 DEF Put
    <3> QED
      BY <1>2, <1>6, <2>0, <3>1, <3>2, <3>3 DEF CallsRead, CoverRead, StandsIn
  <2>4. CASE transfers = <<TempRow, CopyRow>> /\ local["Accel"] = Measured
    <3>1. t = TempRow /\ transfers' = <<CopyRow>>
      BY <1>1, <1>2, <2>4
    <3>r. t.do = "ReturnTemp" /\ t.to = {"Temperature"}
      BY <3>1 DEF TempRow
    <3>2. data' = data /\ local' = Put(local, {"Temperature"}, Measured) /\ Measured' = Measured
      BY <1>1, <1>m, <3>r, TransferDoes
    <3>3. local'["Accel"] = Measured' /\ local'["Temperature"] = Measured'
      BY <1>t, <2>4, <3>2 DEF Put
    <3> QED
      BY <1>2, <1>6, <2>0, <3>1, <3>2, <3>3 DEF CallsRead, CoverRead, StandsIn
  <2>5. CASE transfers = <<CopyRow>> /\ local["Accel"] = Measured /\ local["Temperature"] = Measured
    <3>1. t = CopyRow /\ transfers' = <<>>
      BY <1>1, <1>2, <2>5
    <3>2. /\ Measured' = Measured
          /\ data' = [data EXCEPT !["Accel"] = local["Accel"], !["Temperature"] = local["Temperature"]]
      BY <1>1, <1>m, <3>1, TransferDoes DEF CopyRow
    <3>3. data'["Accel"] = Measured' /\ data'["Temperature"] = Measured'
      BY <1>t, <2>5, <3>2
    <3> QED
      BY <1>2, <1>6, <3>1, <3>3 DEF CallsRead, CoverRead, StandsIn
  <2> QED
    BY <2>1, <2>2, <2>3, <2>4, <2>5
<1> QED
  BY <1>v, <1>3, <1>4, <1>5, <1>6

(* A transfer keeps the invariant. *)
LEMMA TransferKeeps == BoardInv /\ Transfer => BoardInv'
<1> SUFFICES ASSUME BoardInv, Transfer PROVE BoardInv'
  OBVIOUS
<1>1. BoardTyped'
  BY TransferTyped
<1>2. UNCHANGED <<board, task, round, basis, bell>> /\ task \in {"init", "read"}
  BY DEF Transfer
<1>3. CallsReturned' /\ AlarmOfItsOwn'
  BY <1>2 DEF BoardInv, CallsReturned, AlarmOfItsOwn
<1>4. CASE task = "init"
  BY <1>1, <1>2, <1>3, <1>4, InitTransfer DEF BoardInv, InitMeasuresNothing, CallsRead, StandsIn
<1>5. CASE task = "read"
  BY <1>1, <1>2, <1>3, <1>5, ReadTransfer DEF BoardInv, InitMeasuresNothing
<1> QED
  BY <1>2, <1>4, <1>5

(* A transfer that fails leaves the caller's variables as they are.        *)
LEMMA FailureKeeps == BoardInv /\ TransferFails => BoardInv'
<1> SUFFICES ASSUME BoardInv, TransferFails PROVE BoardInv'
  OBVIOUS
<1> DEFINE t == Head(transfers)
<1>1. /\ task \in {"init", "read"} /\ transfers # <<>> /\ t.do # "copy"
      /\ UNCHANGED <<board, round, awake, local, data, passed, basis, bell>>
      /\ \/ t.checked /\ task' = "ended" /\ transfers' = <<>>
         \/ ~t.checked /\ task' = task /\ transfers' = Tail(transfers)
      /\ reference' \in {-1, 0, reference}
  BY DEF TransferFails
<1> HIDE DEF t
<1>2. BoardTyped' /\ StandsIn' /\ AlarmOfItsOwn'
  <2>1. MaxRounds \in Nat
    BY BoardAssumption
  <2> QED
    BY <1>1, <2>1 DEF BoardInv, BoardTyped, BoardTypeOK, StandsIn, AlarmOfItsOwn
<1>3. CASE task' = "ended"
  BY <1>2, <1>3 DEF BoardInv, InitMeasuresNothing, CallsRead, CallsReturned
<1>4. CASE task = "init" /\ task' = "init" /\ transfers' = Tail(transfers)
  <2>1. transfers' \in Seq(InitRows)
    BY <1>1, <1>4 DEF BoardInv, InitMeasuresNothing
  <2> QED
    BY <1>2, <1>4, <2>1 DEF BoardInv, InitMeasuresNothing, CallsRead, CallsReturned
<1>5. CASE task = "read" /\ ~t.checked
  <2>1. t \in {GasRow, StartRow, LuxRow, ClimateRow, NameRow, AccRow, TempRow, CopyRow}
    BY <1>1, <1>5 DEF t, BoardInv, BoardTyped, CallsRead, GasRead, ClimateRead, LightRead,
       CoverRead
  <2>2. t = CopyRow
    BY <1>5, <2>1 DEF GasRow, StartRow, LuxRow, ClimateRow, NameRow, AccRow, TempRow
  <2> QED
    BY <1>1, <2>2 DEF CopyRow
<1> QED
  BY <1>1, <1>3, <1>4, <1>5

(* The steps of the loops around the calls, and of the alarm.              *)
LEMMA LoopKeeps ==
  ASSUME BoardInv, Initialised \/ NextRound \/ ReadReturns \/ UNCHANGED boardVars
  PROVE  BoardInv'
<1>1. CASE Initialised \/ UNCHANGED boardVars
  BY <1>1 DEF Initialised, boardVars, BoardInv, BoardTyped, BoardTypeOK, InitMeasuresNothing,
     CallsRead,
     GasRead, LightRead, ClimateRead, CoverRead, Measured, CallsReturned, StandsIn, AlarmOfItsOwn
<1>2. CASE NextRound
  <2>1. /\ task' = "read" /\ board # "C5" /\ transfers' = ReadOf(board) /\ round' = round + 1
        /\ round < MaxRounds /\ local' = [f \in Fields |-> -1]
        /\ UNCHANGED <<board, awake, data, passed, reference, basis, bell>>
    BY <1>2 DEF NextRound
  <2>2. BoardTyped'
    <3>1. round' \in 0..MaxRounds /\ local' \in [Fields -> -1..MaxRounds]
      BY <2>1, BoardAssumption DEF BoardInv, BoardTyped, BoardTypeOK
    <3> QED
      BY <2>1, <3>1 DEF BoardInv, BoardTyped, BoardTypeOK
  <2>3. CallsRead'
    BY <2>1, RowsOfCalls DEF CallsRead, GasRead, LightRead, ClimateRead, CoverRead
  <2> QED
    BY <2>1, <2>2, <2>3 DEF BoardInv, InitMeasuresNothing, CallsReturned, StandsIn, AlarmOfItsOwn
<1>3. CASE ReadReturns
  <2>1. /\ task = "read" /\ task' = "act" /\ transfers = <<>>
        /\ UNCHANGED <<board, transfers, round, awake, local, data, passed, reference, basis, bell>>
    BY <1>3 DEF ReadReturns
  <2>2. Measured' = Measured
    BY <2>1 DEF Measured
  <2>3. CallsReturned'
    BY <2>1, <2>2 DEF BoardInv, CallsRead, GasRead, LightRead, ClimateRead, CoverRead,
       CallsReturned
  <2>4. BoardTyped'
    BY <2>1 DEF BoardInv, BoardTyped, BoardTypeOK
  <2> QED
    BY <2>1, <2>3, <2>4 DEF BoardInv, InitMeasuresNothing, CallsRead, StandsIn, AlarmOfItsOwn
<1> QED
  BY <1>1, <1>2, <1>3

(* Switching ends the round. *)
LEMMA SwitchKeeps ==
  ASSUME BoardInv, SwitchBuzzer \/ SwitchLight \/ SwitchClimate \/ SwitchLeds
  PROVE  BoardInv'
<1>1. /\ task' = "sleep" /\ UNCHANGED <<board, transfers, round, awake, local, data, passed, bell>>
      /\ reference' \in {reference, data["Accel"]}
  BY DEF SwitchBuzzer, SwitchLight, SwitchClimate, SwitchLeds, Switch
<1>2. data["Accel"] \in -1..MaxRounds
  BY DEF BoardInv, BoardTyped, BoardTypeOK, Fields
<1> QED
  BY <1>1, <1>2 DEF BoardInv, BoardTyped, BoardTypeOK, InitMeasuresNothing, CallsRead,
     CallsReturned, StandsIn,
     AlarmOfItsOwn

(* The alarm takes an interrupt it was told of, each once.                 *)
LEMMA AlarmKeeps ==
  ASSUME BoardInv, Infrared \/ BeepOn \/ BeepOff
  PROVE  BoardInv'
<1>1. /\ task' \in {task, "sleep", "wait"} /\ task \in {"wait", "sleep"}
      /\ UNCHANGED <<board, transfers, round, awake, local, data, passed, reference>>
  BY DEF Infrared, BeepOn, BeepOff
<1>b. bell \in Bells
  BY DEF BoardInv, BoardTyped
<1>e. /\ bell = [flag |-> bell.flag, made |-> bell.made, taken |-> bell.taken, alarms |-> bell.alarms]
      /\ bell.flag \in {0, 1} /\ bell.made \in {0, 1} /\ bell.taken \in Nat /\ bell.alarms \in Nat
  BY <1>b DEF Bells
<1>2. bell' \in Bells /\ AlarmOfItsOwn'
  <2>1. CASE Infrared
    <3>1. bell' = [flag |-> bell.made, made |-> bell.made, taken |-> bell.taken + 1, alarms |-> bell.alarms]
      BY <1>e, <2>1 DEF Infrared
    <3> QED
      BY <1>e, <3>1 DEF BoardInv, AlarmOfItsOwn, Bells
  <2>2. CASE BeepOn
    <3>1. bell' = [flag |-> 0, made |-> bell.made, taken |-> bell.taken, alarms |-> bell.alarms + 1]
      BY <1>e, <2>2 DEF BeepOn
    <3>2. bell.flag = 1 \/ bell.made = 0
      BY <2>2 DEF BeepOn
    <3> QED
      BY <1>e, <3>1, <3>2 DEF BoardInv, AlarmOfItsOwn, Bells
  <2>3. CASE BeepOff
    BY <1>b, <2>3 DEF BeepOff, BoardInv, AlarmOfItsOwn
  <2> QED
    BY <2>1, <2>2, <2>3
<1> QED
  BY <1>1, <1>2 DEF BoardInv, BoardTyped, BoardTypeOK, InitMeasuresNothing, CallsRead,
     CallsReturned, StandsIn

(* BoardInv holds in every state of the sensor examples.                   *)
LEMMA BoardInvariant == BoardSpec => []BoardInv
<1>1. BoardInit => BoardInv
  <2> SUFFICES ASSUME BoardInit PROVE BoardInv
    OBVIOUS
  <2>1. transfers \in Seq(InitRows) /\ board \in {"C1", "C2", "C3", "C4", "C5"}
    BY RowsOfCalls DEF BoardInit
  <2>2. BoardTyped
    BY <2>1, BoardAssumption DEF BoardInit, BoardTyped, BoardTypeOK, Bells
  <2> QED
    BY <2>1, <2>2 DEF BoardInit, BoardInv, InitMeasuresNothing, CallsRead, CallsReturned,
       StandsIn, AlarmOfItsOwn,
       Fields
<1>2. BoardInv /\ [BoardNext]_boardVars => BoardInv'
  BY TransferKeeps, FailureKeeps, LoopKeeps, SwitchKeeps, AlarmKeeps DEF BoardNext
<1> QED
  BY <1>1, <1>2, PTL DEF BoardSpec

(* The variables of the sensor examples have their types.                  *)
THEOREM BoardTypeCorrect == BoardSpec => []BoardTypeOK
<1>1. BoardInv => BoardTypeOK
  BY DEF BoardInv, BoardTyped
<1> QED
  BY <1>1, BoardInvariant, PTL

(* The sensor examples switch their actuators by values of the same round, *)
(* or by the newest that passed its checksum; and C5 sounds no alarm       *)
(* without an interrupt of its own.                                        *)
THEOREM BoardSwitches == BoardSpec => []SwitchedByNewest
<1>1. BoardInv => SwitchedByNewest
  <2> SUFFICES ASSUME BoardInv PROVE SwitchedByNewest
    OBVIOUS
  <2>1. awake \in {0, 1}
    BY DEF BoardInv, BoardTyped, BoardTypeOK
  <2> QED
    BY <2>1 DEF BoardInv, SwitchedByNewest, CallsReturned, StandsIn, AlarmOfItsOwn, Measured
<1> QED
  BY <1>1, BoardInvariant, PTL

-----------------------------------------------------------------------------
(* The cloud example: the inductive invariant.                             *)

SampleTyped ==
  /\ OcSampleTypeOK
  /\ pushed \in Seq(Texts) /\ taken \in Nat /\ readbuf = Len(pushed)
  /\ obeyed \in Seq([queued : Nat, read : Nat])

(* Who has a block in hand, and where in its loop.                         *)
MainHas ==
  mainPc # "fault" => (mainMsg # Nil <=> mainPc \in {"parse", "act", "report", "free"})

SensorHas == sensMsg # Nil <=> sensPc = "put"

QueuedOnce == \A i, j \in 1..Len(mid_MsgQueue) : i # j => mid_MsgQueue[i] # mid_MsgQueue[j]

(* No block is in two places. *)
OnePlace ==
  /\ rcvMsg # Nil => rcvMsg \notin {mainMsg, sensMsg}
  /\ mainMsg # Nil => mainMsg # sensMsg
  /\ InQueue \cap ({rcvMsg, mainMsg, sensMsg} \cup forgotten) = {}
  /\ forgotten \cap {rcvMsg, mainMsg, sensMsg} = {}

Somewhere == InQueue \cup {rcvMsg, mainMsg, sensMsg} \cup forgotten

Allocated == \A c \in Cells : store[c] # Nil <=> c \in Somewhere

Kinds ==
  /\ \A c \in forgotten \cup {rcvMsg} : c # Nil => store[c].type = "cmd"
  /\ \A c \in Cells : store[c] # Nil /\ store[c].type = "cmd" => store[c].n \in 1..Len(pushed)
  /\ mainPc = "parse" => store[mainMsg].type = "cmd"

HeapInv == MainHas /\ SensorHas /\ QueuedOnce /\ OnePlace /\ Allocated /\ Kinds

(* A tree is only there while a command is handled, which arrived.         *)
TreeInv ==
  /\ mainPc \notin {"act", "free", "fault"} => json = "none"
  /\ mainPc = "act" => json \in {"live", "none"} /\ obeyed # <<>>
  /\ mainPc = "free" /\ json # "none" => obeyed # <<>>
  /\ \A i \in 1..Len(obeyed) : obeyed[i].read \in 1..Len(pushed)
  /\ JsonDeletedOnce

SampleInv == SampleTyped /\ HeapInv /\ TreeInv

-----------------------------------------------------------------------------
(* The cloud example: the queue.                                           *)

(* Its entries are cells of the heap.                                      *)
LEMMA QueueTyped == SampleTyped => mid_MsgQueue \in Seq(Cells) /\ InQueue \subseteq Cells
  BY DEF SampleTyped, OcSampleTypeOK, InQueue

(* A block put into the queue is in it, behind the others.                 *)
LEMMA QueueGrows ==
  ASSUME SampleTyped, QueuedOnce, NEW c \in Cells, c \notin InQueue, PutNow(c)
  PROVE  /\ mid_MsgQueue' \in Seq(Cells) /\ InQueue' = InQueue \cup {c} /\ QueuedOnce'
<1>1. mid_MsgQueue \in Seq(Cells) /\ mid_MsgQueue' = Append(mid_MsgQueue, c)
  BY DEF SampleTyped, OcSampleTypeOK, PutNow
<1> DEFINE n == Len(mid_MsgQueue)
<1>2. /\ n \in Nat /\ Len(mid_MsgQueue') = n + 1 /\ mid_MsgQueue'[n + 1] = c /\ mid_MsgQueue' \in Seq(Cells)
      /\ DOMAIN mid_MsgQueue = 1..n /\ DOMAIN mid_MsgQueue' = 1..(n + 1)
      /\ \A i \in 1..n : mid_MsgQueue'[i] = mid_MsgQueue[i]
  BY <1>1
<1>3. \A i \in 1..(n + 1) : i \in 1..n \/ i = n + 1
  BY <1>2
<1>4. \A i \in 1..n : i \in 1..(n + 1) /\ i # n + 1 /\ n + 1 \in 1..(n + 1)
  BY <1>2
<1>5. n + 1 \in 1..(n + 1)
  BY <1>2
<1> HIDE DEF n
<1>6. InQueue' = InQueue \cup {c}
  BY <1>2, <1>3, <1>4, <1>5 DEF InQueue
<1>7. \A i \in 1..n : mid_MsgQueue[i] # c
  BY <1>2 DEF InQueue
<1>8. QueuedOnce'
  BY <1>2, <1>3, <1>7 DEF QueuedOnce, n
<1> QED
  BY <1>2, <1>6, <1>8

(* The block taken from the queue is not in it any more.                   *)
LEMMA QueueShrinks ==
  ASSUME SampleTyped, QueuedOnce, mid_MsgQueue # <<>>, mid_MsgQueue' = Tail(mid_MsgQueue)
  PROVE  /\ mid_MsgQueue' \in Seq(Cells) /\ Head(mid_MsgQueue) \in InQueue
         /\ InQueue' = InQueue \ {Head(mid_MsgQueue)} /\ QueuedOnce'
<1> DEFINE n == Len(mid_MsgQueue)
<1>1. mid_MsgQueue \in Seq(Cells) /\ n \in Nat \ {0}
  BY DEF SampleTyped, OcSampleTypeOK
<1>2. /\ Len(mid_MsgQueue') = n - 1 /\ mid_MsgQueue' \in Seq(Cells) /\ Head(mid_MsgQueue) = mid_MsgQueue[1]
      /\ DOMAIN mid_MsgQueue = 1..n /\ DOMAIN mid_MsgQueue' = 1..(n - 1)
      /\ \A i \in 1..(n - 1) : mid_MsgQueue'[i] = mid_MsgQueue[i + 1] /\ i + 1 \in 1..n /\ i + 1 # 1
  BY <1>1
<1>3. 1 \in 1..n /\ \A i \in 1..n : i = 1 \/ (i - 1 \in 1..(n - 1) /\ (i - 1) + 1 = i)
  BY <1>1
<1>o. \A i, j \in 1..n : i # j => mid_MsgQueue[i] # mid_MsgQueue[j]
  BY DEF QueuedOnce
<1>p. \A i, j \in 1..(n - 1) : i # j => i + 1 # j + 1
  OBVIOUS
<1> HIDE DEF n
<1>4. InQueue' = InQueue \ {Head(mid_MsgQueue)}
  <2>1. ASSUME NEW c \in InQueue' PROVE c \in InQueue \ {Head(mid_MsgQueue)}
    <3>1. PICK i \in 1..(n - 1) : c = mid_MsgQueue'[i]
      BY <1>2, <2>1 DEF InQueue
    <3>2. c = mid_MsgQueue[i + 1] /\ i + 1 \in 1..n /\ i + 1 # 1
      BY <1>2, <3>1
    <3> QED
      BY <1>2, <1>3, <1>o, <3>2 DEF InQueue
  <2>2. ASSUME NEW c \in InQueue, c # Head(mid_MsgQueue) PROVE c \in InQueue'
    <3>1. PICK i \in 1..n : c = mid_MsgQueue[i]
      BY <1>2 DEF InQueue
    <3>2. i - 1 \in 1..(n - 1) /\ (i - 1) + 1 = i
      BY <1>2, <1>3, <2>2, <3>1
    <3>3. c = mid_MsgQueue'[i - 1]
      BY <1>2, <3>1, <3>2
    <3> QED
      BY <1>2, <3>2, <3>3 DEF InQueue
  <2> QED
    BY <2>1, <2>2
<1>5. QueuedOnce'
  BY <1>2, <1>o, <1>p DEF QueuedOnce
<1>6. Head(mid_MsgQueue) \in InQueue
  BY <1>2, <1>3 DEF InQueue
<1> QED
  BY <1>2, <1>4, <1>5, <1>6

-----------------------------------------------------------------------------
(* The cloud example: steps.                                               *)

(* A block that is given out was nowhere, and has what was written to it.  *)
LEMMA MallocGives ==
  ASSUME SampleTyped, Allocated, NEW c \in Cells, NEW message \in AppMsgs, Malloc(c, message)
  PROVE  /\ c # Nil /\ c \notin Somewhere /\ store' \in [Cells -> AppMsgs \cup {Nil}]
         /\ store'[c] = message /\ message # Nil /\ store[c] = Nil
         /\ \A d \in Cells : d # c => store'[d] = store[d]
<1>1. store \in [Cells -> AppMsgs \cup {Nil}] /\ store[c] = Nil /\ store' = [store EXCEPT ![c] = message]
  BY DEF SampleTyped, OcSampleTypeOK, Malloc
<1>2. c # Nil /\ message # Nil
  BY OcSampleAssumption
<1>3. c \notin Somewhere
  BY <1>1 DEF Allocated
<1> QED
  BY <1>1, <1>2, <1>3

(* A command comes: its block is with the callback, or there is none.      *)
LEMMA PushKeepsHeap ==
  ASSUME SampleTyped, HeapInv, NEW text \in Texts, Push(text), BoardRuns
  PROVE  SampleTyped' /\ HeapInv'
<1>1. /\ rcvMsg = Nil /\ pushed' = Append(pushed, text) /\ readbuf' = Len(pushed) + 1
      /\ UNCHANGED <<mid_MsgQueue, queueMade, forgotten, client, cmd_rsp_cb, mainMsg, json,
                     g_app_cb, obeyed, reported, ocSensor>>
  BY DEF Push
<1>2. pushed \in Seq(Texts) /\ Len(pushed) \in Nat
  BY DEF SampleTyped
<1>3. pushed' \in Seq(Texts) /\ Len(pushed') = Len(pushed) + 1 /\ readbuf' = Len(pushed')
  BY <1>1, <1>2
<1>n. \A n \in 1..Len(pushed) : n \in 1..Len(pushed')
  BY <1>2, <1>3
<1>4. InQueue' = InQueue /\ UNCHANGED <<sensMsg, sensPc, taken>>
  BY <1>1 DEF InQueue, ocSensor
<1>5. CASE UNCHANGED <<store, rcvMsg>> /\ mainPc' \in {mainPc, "fault"}
  <2>1. SampleTyped'
    BY <1>1, <1>3, <1>4, <1>5 DEF SampleTyped, OcSampleTypeOK
  <2>2. MainHas' /\ SensorHas' /\ QueuedOnce' /\ OnePlace' /\ Allocated'
    BY <1>1, <1>4, <1>5 DEF HeapInv, MainHas, SensorHas, QueuedOnce, OnePlace, Allocated,
       Somewhere
  <2>3. Kinds'
    BY <1>1, <1>5, <1>n DEF HeapInv, Kinds
  <2> QED
    BY <2>1, <2>2, <2>3 DEF HeapInv
<1>6. ASSUME NEW c \in Cells, Malloc(c, [type |-> "cmd", n |-> Len(pushed) + 1]), rcvMsg' = c, mainPc' = mainPc
      PROVE  SampleTyped' /\ HeapInv'
  <2> DEFINE message == [type |-> "cmd", n |-> Len(pushed) + 1]
  <2>1. message \in AppMsgs /\ message.type = "cmd" /\ message.n = Len(pushed')
    BY <1>2, <1>3 DEF AppMsgs
  <2>2. Malloc(c, message)
    BY <1>6
  <2> HIDE DEF message
  <2>3. /\ c # Nil /\ c \notin Somewhere /\ store' \in [Cells -> AppMsgs \cup {Nil}]
        /\ store'[c] = message /\ message # Nil /\ store[c] = Nil
        /\ \A d \in Cells : d # c => store'[d] = store[d]
    BY <2>1, <2>2, MallocGives DEF HeapInv
  <2>4. SampleTyped'
    BY <1>1, <1>3, <1>4, <1>6, <2>3 DEF SampleTyped, OcSampleTypeOK
  <2>5. MainHas' /\ SensorHas' /\ QueuedOnce'
    BY <1>1, <1>4, <1>6 DEF HeapInv, MainHas, SensorHas, QueuedOnce
  <2>6. OnePlace'
    BY <1>1, <1>4, <1>6, <2>3 DEF HeapInv, OnePlace, Somewhere
  <2>7. Somewhere' \ {Nil} = (Somewhere \cup {c}) \ {Nil}
    BY <1>1, <1>4, <1>6, <2>3 DEF Somewhere
  <2>8. Allocated'
    BY <2>3, <2>7, OcSampleAssumption DEF HeapInv, Allocated
  <2>9. Kinds'
    <3>1. \A d \in forgotten : d \in Cells /\ d # c
      BY <2>3 DEF SampleTyped, OcSampleTypeOK, Somewhere
    <3>2. \A d \in forgotten' \cup {rcvMsg'} : d # Nil => store'[d].type = "cmd"
      BY <1>1, <1>6, <2>1, <2>3, <3>1 DEF HeapInv, Kinds
    <3>3. \A d \in Cells : store'[d] # Nil /\ store'[d].type = "cmd" => store'[d].n \in 1..Len(pushed')
      BY <1>2, <1>3, <1>n, <2>1, <2>3 DEF HeapInv, Kinds
    <3>4. mainPc = "parse" => mainMsg # Nil /\ mainMsg \in Cells /\ mainMsg # c
      BY <2>3 DEF HeapInv, MainHas, SampleTyped, OcSampleTypeOK, Somewhere
    <3>5. mainPc' = "parse" => store'[mainMsg'].type = "cmd"
      BY <1>1, <1>6, <2>3, <3>4 DEF HeapInv, Kinds
    <3> QED
      BY <3>2, <3>3, <3>5 DEF Kinds
  <2> QED
    BY <2>4, <2>5, <2>6, <2>8, <2>9 DEF HeapInv
<1>7. \/ UNCHANGED <<store, rcvMsg>> /\ mainPc' \in {mainPc, "fault"}
      \/ \E c \in Cells : /\ Malloc(c, [type |-> "cmd", n |-> Len(pushed) + 1])
                          /\ rcvMsg' = c /\ mainPc' = mainPc
  BY DEF Push
<1> QED
  BY <1>5, <1>6, <1>7

(* The callback's block goes into the queue, or is forgotten.              *)
LEMMA RcvPutKeepsHeap ==
  ASSUME SampleTyped, HeapInv, MsgRcvPut
  PROVE  SampleTyped' /\ HeapInv'
<1>1. /\ rcvMsg # Nil /\ rcvMsg' = Nil /\ mainPc' \in {mainPc, "fault"}
      /\ UNCHANGED <<store, queueMade, client, cmd_rsp_cb, readbuf, pushed, mainMsg, json,
                     g_app_cb, obeyed, reported, sensMsg, sensPc, taken>>
  BY DEF MsgRcvPut, ocSensor
<1>2. rcvMsg \in Cells /\ rcvMsg \notin InQueue \cup {mainMsg, sensMsg} \cup forgotten
  BY <1>1 DEF HeapInv, OnePlace, SampleTyped, OcSampleTypeOK
<1>3. MainHas' /\ SensorHas'
  BY <1>1 DEF HeapInv, MainHas, SensorHas
<1>n. Nil \notin Cells /\ InQueue \subseteq Cells /\ forgotten \subseteq Cells
  BY OcSampleAssumption, QueueTyped DEF SampleTyped, OcSampleTypeOK
<1>4. CASE PutNow(rcvMsg) /\ UNCHANGED <<forgotten, mainPc>>
  <2>1. mid_MsgQueue' \in Seq(Cells) /\ InQueue' = InQueue \cup {rcvMsg} /\ QueuedOnce'
    BY <1>2, <1>4, QueueGrows DEF HeapInv
  <2>2. SampleTyped'
    BY <1>1, <1>4, <2>1 DEF SampleTyped, OcSampleTypeOK
  <2>3. OnePlace'
    BY <1>1, <1>2, <1>4, <1>n, <2>1 DEF HeapInv, OnePlace
  <2>4. Somewhere' \ {Nil} = Somewhere \ {Nil}
    BY <1>1, <1>4, <2>1 DEF Somewhere
  <2>5. Allocated'
    BY <1>1, <1>n, <2>4 DEF HeapInv, Allocated
  <2>6. Kinds'
    BY <1>1, <1>4 DEF HeapInv, Kinds
  <2> QED
    BY <1>3, <2>1, <2>2, <2>3, <2>5, <2>6 DEF HeapInv
<1>5. CASE forgotten' = forgotten \cup {rcvMsg} /\ mid_MsgQueue' = mid_MsgQueue
  <2>1. InQueue' = InQueue /\ QueuedOnce'
    BY <1>5 DEF InQueue, HeapInv, QueuedOnce
  <2>2. SampleTyped'
    BY <1>1, <1>2, <1>5 DEF SampleTyped, OcSampleTypeOK
  <2>3. OnePlace'
    BY <1>1, <1>2, <1>5, <1>n, <2>1 DEF HeapInv, OnePlace
  <2>4. Somewhere' \ {Nil} = Somewhere \ {Nil}
    BY <1>1, <1>5, <2>1 DEF Somewhere
  <2>5. Allocated'
    BY <1>1, <1>n, <2>4 DEF HeapInv, Allocated
  <2>6. Kinds'
    BY <1>1, <1>5 DEF HeapInv, Kinds
  <2> QED
    BY <1>3, <2>1, <2>2, <2>3, <2>5, <2>6 DEF HeapInv
<1> QED
  BY <1>4, <1>5 DEF MsgRcvPut

(* A reading is in a block of its own, or dropped.                         *)
LEMMA TakeKeepsHeap ==
  ASSUME SampleTyped, HeapInv, TakeReading
  PROVE  SampleTyped' /\ HeapInv'
<1>1. /\ sensPc = "read" /\ sensMsg = Nil
      /\ UNCHANGED <<mid_MsgQueue, queueMade, forgotten, client, cmd_rsp_cb, readbuf, pushed, rcvMsg,
                     mainPc, mainMsg, json, g_app_cb, obeyed, reported>>
  BY DEF TakeReading, HeapInv, SensorHas, ocEngine, ocMain
<1>t. taken \in Nat /\ taken' \in Nat
  BY DEF SampleTyped, TakeReading
<1>2. InQueue' = InQueue /\ MainHas' /\ QueuedOnce'
  BY <1>1 DEF InQueue, HeapInv, MainHas, QueuedOnce
<1>3. CASE UNCHANGED <<store, sensMsg>> /\ sensPc' \in {"ended", "sleep"}
  <2>1. SampleTyped'
    BY <1>1, <1>t, <1>3 DEF SampleTyped, OcSampleTypeOK
  <2>2. SensorHas' /\ OnePlace' /\ Allocated' /\ Kinds'
    BY <1>1, <1>2, <1>3 DEF HeapInv, SensorHas, OnePlace, Allocated, Somewhere, Kinds
  <2> QED
    BY <1>2, <2>1, <2>2 DEF HeapInv
<1>4. ASSUME NEW c \in Cells, Malloc(c, [type |-> "report", n |-> taken + 1]), sensMsg' = c, sensPc' = "put"
      PROVE  SampleTyped' /\ HeapInv'
  <2> DEFINE message == [type |-> "report", n |-> taken + 1]
  <2>1. message \in AppMsgs /\ message.type = "report"
    BY <1>t DEF AppMsgs
  <2>2. Malloc(c, message)
    BY <1>4
  <2> HIDE DEF message
  <2>3. /\ c # Nil /\ c \notin Somewhere /\ store' \in [Cells -> AppMsgs \cup {Nil}]
        /\ store'[c] = message /\ message # Nil /\ store[c] = Nil
        /\ \A d \in Cells : d # c => store'[d] = store[d]
    BY <2>1, <2>2, MallocGives DEF HeapInv
  <2>4. SampleTyped'
    BY <1>1, <1>t, <1>4, <2>3 DEF SampleTyped, OcSampleTypeOK
  <2>5. SensorHas'
    BY <1>4, <2>3 DEF SensorHas
  <2>6. OnePlace'
    BY <1>1, <1>2, <1>4, <2>3 DEF HeapInv, OnePlace, Somewhere
  <2>7. Somewhere' \ {Nil} = (Somewhere \cup {c}) \ {Nil}
    BY <1>1, <1>2, <1>4, <2>3 DEF Somewhere
  <2>8. Allocated'
    BY <2>3, <2>7, OcSampleAssumption DEF HeapInv, Allocated
  <2>9. Kinds'
    <3>1. \A d \in forgotten \cup {rcvMsg} : d # Nil => d \in Cells /\ d # c
      BY <2>3 DEF SampleTyped, OcSampleTypeOK, Somewhere
    <3>2. \A d \in forgotten' \cup {rcvMsg'} : d # Nil => store'[d].type = "cmd"
      BY <1>1, <2>3, <3>1 DEF HeapInv, Kinds
    <3>3. \A d \in Cells : store'[d] # Nil /\ store'[d].type = "cmd" => store'[d].n \in 1..Len(pushed')
      BY <1>1, <2>1, <2>3 DEF HeapInv, Kinds
    <3>4. mainPc = "parse" => mainMsg # Nil /\ mainMsg \in Cells /\ mainMsg # c
      BY <2>3 DEF HeapInv, MainHas, SampleTyped, OcSampleTypeOK, Somewhere
    <3>5. mainPc' = "parse" => store'[mainMsg'].type = "cmd"
      BY <1>1, <2>3, <3>4 DEF HeapInv, Kinds
    <3> QED
      BY <3>2, <3>3, <3>5 DEF Kinds
  <2> QED
    BY <1>2, <2>4, <2>5, <2>6, <2>8, <2>9 DEF HeapInv
<1>5. \/ UNCHANGED <<store, sensMsg>> /\ sensPc' \in {"ended", "sleep"}
      \/ \E c \in Cells : /\ Malloc(c, [type |-> "report", n |-> taken + 1])
                          /\ sensMsg' = c /\ sensPc' = "put"
  BY DEF TakeReading
<1> QED
  BY <1>3, <1>4, <1>5

(* A block that is freed is nowhere any more. *)
LEMMA FreeKeepsHeap ==
  ASSUME SampleTyped, HeapInv, NEW c \in Cells, c \in {mainMsg, sensMsg},
         store' = [store EXCEPT ![c] = Nil],
         UNCHANGED <<mid_MsgQueue, forgotten, pushed, rcvMsg>>,
         mainMsg' = (IF mainMsg = c THEN Nil ELSE mainMsg),
         sensMsg' = (IF sensMsg = c THEN Nil ELSE sensMsg),
         mainPc' = "parse" => mainPc = "parse" /\ mainMsg # c /\ mainMsg # Nil
  PROVE  store' \in [Cells -> AppMsgs \cup {Nil}] /\ QueuedOnce' /\ OnePlace' /\ Allocated' /\ Kinds'
<1>n. Nil \notin Cells /\ c # Nil
  BY OcSampleAssumption
<1>1. store \in [Cells -> AppMsgs \cup {Nil}] /\ mainMsg \in Cells \cup {Nil} /\ forgotten \subseteq Cells
  BY DEF SampleTyped, OcSampleTypeOK
<1>2. store' \in [Cells -> AppMsgs \cup {Nil}] /\ store'[c] = Nil /\ \A d \in Cells : d # c => store'[d] = store[d]
  BY <1>1
<1>3. c \notin InQueue \cup forgotten \cup {rcvMsg} /\ (mainMsg = c => sensMsg # c)
  BY <1>n DEF HeapInv, OnePlace
<1>4. InQueue' = InQueue /\ QueuedOnce'
  BY DEF InQueue, HeapInv, QueuedOnce
<1>5. OnePlace'
  BY <1>n, <1>3, <1>4, QueueTyped, <1>1 DEF HeapInv, OnePlace
<1>6. Somewhere' \ {Nil} = Somewhere \ {Nil, c}
  BY <1>n, <1>3, <1>4 DEF Somewhere
<1>7. Allocated'
  BY <1>n, <1>2, <1>6 DEF HeapInv, Allocated
<1>8. Kinds'
  <2>1. \A d \in forgotten \cup {rcvMsg} : d # Nil => d \in Cells /\ d # c
    BY <1>3 DEF SampleTyped, OcSampleTypeOK
  <2>2. \A d \in forgotten' \cup {rcvMsg'} : d # Nil => store'[d].type = "cmd"
    BY <1>2, <2>1 DEF HeapInv, Kinds
  <2>3. \A d \in Cells : store'[d] # Nil /\ store'[d].type = "cmd" => store'[d].n \in 1..Len(pushed')
    BY <1>2 DEF HeapInv, Kinds
  <2>4. mainPc' = "parse" => store'[mainMsg'].type = "cmd"
    BY <1>1, <1>2 DEF HeapInv, Kinds
  <2> QED
    BY <2>2, <2>3, <2>4 DEF Kinds
<1> QED
  BY <1>2, <1>4, <1>5, <1>7, <1>8

(* The sensor task's block goes into the queue, or is freed.               *)
LEMMA PutKeepsHeap ==
  ASSUME SampleTyped, HeapInv, PutReading
  PROVE  SampleTyped' /\ HeapInv'
<1>1. /\ sensPc = "put" /\ sensPc' = "sleep" /\ sensMsg' = Nil
      /\ UNCHANGED <<queueMade, forgotten, client, cmd_rsp_cb, readbuf, pushed, rcvMsg,
                     mainPc, mainMsg, json, g_app_cb, obeyed, reported, taken>>
  BY DEF PutReading, ocEngine, ocMain
<1>2. sensMsg \in Cells /\ sensMsg # Nil /\ sensMsg \notin InQueue \cup {rcvMsg, mainMsg} \cup forgotten
  BY <1>1 DEF HeapInv, SensorHas, OnePlace, SampleTyped, OcSampleTypeOK
<1>n. Nil \notin Cells /\ InQueue \subseteq Cells /\ forgotten \subseteq Cells
  BY OcSampleAssumption, QueueTyped DEF SampleTyped, OcSampleTypeOK
<1>3. MainHas' /\ SensorHas'
  BY <1>1 DEF HeapInv, MainHas, SensorHas
<1>4. CASE PutNow(sensMsg) /\ UNCHANGED store
  <2>1. mid_MsgQueue' \in Seq(Cells) /\ InQueue' = InQueue \cup {sensMsg} /\ QueuedOnce'
    BY <1>2, <1>4, QueueGrows DEF HeapInv
  <2>2. SampleTyped'
    BY <1>1, <1>4, <2>1 DEF SampleTyped, OcSampleTypeOK
  <2>3. OnePlace'
    BY <1>1, <1>2, <1>n, <2>1 DEF HeapInv, OnePlace
  <2>4. Somewhere' \ {Nil} = Somewhere \ {Nil}
    BY <1>1, <1>4, <2>1 DEF Somewhere
  <2>5. Allocated'
    BY <1>4, <1>n, <2>4 DEF HeapInv, Allocated
  <2>6. Kinds'
    BY <1>1, <1>4 DEF HeapInv, Kinds
  <2> QED
    BY <1>3, <2>1, <2>2, <2>3, <2>5, <2>6 DEF HeapInv
<1>5. CASE store' = [store EXCEPT ![sensMsg] = Nil] /\ UNCHANGED mid_MsgQueue
  <2>1. mainPc' = "parse" => mainPc = "parse" /\ mainMsg # sensMsg /\ mainMsg # Nil
    BY <1>1, <1>2 DEF HeapInv, MainHas
  <2>2. mainMsg' = IF mainMsg = sensMsg THEN Nil ELSE mainMsg
    BY <1>1, <1>2
  <2>3. store' \in [Cells -> AppMsgs \cup {Nil}] /\ QueuedOnce' /\ OnePlace' /\ Allocated' /\ Kinds'
    BY <1>1, <1>2, <1>5, <2>1, <2>2, FreeKeepsHeap
  <2>4. SampleTyped'
    BY <1>1, <1>5, <2>3 DEF SampleTyped, OcSampleTypeOK
  <2> QED
    BY <1>3, <2>3, <2>4 DEF HeapInv
<1> QED
  BY <1>4, <1>5 DEF PutReading

(* The cloud task frees what it has handled.                               *)
LEMMA FreeMessageKeepsHeap ==
  ASSUME SampleTyped, HeapInv, FreeMessage
  PROVE  SampleTyped' /\ HeapInv'
<1>1. /\ mainPc = "free" /\ mainPc' = "poll" /\ mainMsg' = Nil /\ json' = "none"
      /\ store' = [store EXCEPT ![mainMsg] = Nil]
      /\ UNCHANGED <<mid_MsgQueue, queueMade, forgotten, client, cmd_rsp_cb, readbuf, pushed, rcvMsg,
                     g_app_cb, obeyed, reported, taken, sensMsg, sensPc>>
  BY DEF FreeMessage, GoTo, ocEngine, ocSensor
<1>2. mainMsg \in Cells /\ mainMsg # Nil /\ mainMsg # sensMsg
  BY <1>1 DEF HeapInv, MainHas, OnePlace, SampleTyped, OcSampleTypeOK
<1>3. MainHas' /\ SensorHas'
  BY <1>1 DEF HeapInv, MainHas, SensorHas
<1>4. sensMsg' = IF sensMsg = mainMsg THEN Nil ELSE sensMsg
  BY <1>1, <1>2
<1>5. store' \in [Cells -> AppMsgs \cup {Nil}] /\ QueuedOnce' /\ OnePlace' /\ Allocated' /\ Kinds'
  BY <1>1, <1>2, <1>4, FreeKeepsHeap
<1>6. SampleTyped'
  BY <1>1, <1>5 DEF SampleTyped, OcSampleTypeOK
<1> QED
  BY <1>3, <1>5, <1>6 DEF HeapInv

(* The cloud task takes the oldest block from the queue.                   *)
LEMMA PollKeepsHeap ==
  ASSUME SampleTyped, HeapInv, Poll
  PROVE  SampleTyped' /\ HeapInv'
<1> DEFINE c == Head(mid_MsgQueue)
<1>1. /\ mainPc = "poll" /\ mid_MsgQueue # <<>> /\ mainMsg' = c /\ mid_MsgQueue' = Tail(mid_MsgQueue)
      /\ mainPc' = IF store[c].type = "cmd" THEN "parse" ELSE "report"
      /\ UNCHANGED <<store, queueMade, forgotten, client, cmd_rsp_cb, readbuf, pushed, rcvMsg,
                     json, g_app_cb, obeyed, reported, taken, sensMsg, sensPc>>
  BY DEF Poll, ocEngine, ocSensor
<1>2. /\ mid_MsgQueue' \in Seq(Cells) /\ c \in InQueue
      /\ InQueue' = InQueue \ {c} /\ QueuedOnce'
  BY <1>1, QueueShrinks DEF HeapInv
<1> HIDE DEF c
<1>n. Nil \notin Cells /\ InQueue \subseteq Cells /\ c \in Cells /\ c # Nil
  BY <1>2, OcSampleAssumption, QueueTyped
<1>3. mainMsg = Nil /\ c \notin {rcvMsg, sensMsg} \cup forgotten
  BY <1>1, <1>2 DEF HeapInv, MainHas, OnePlace
<1>4. SampleTyped'
  BY <1>1, <1>2, <1>n DEF SampleTyped, OcSampleTypeOK
<1>5. MainHas' /\ SensorHas'
  BY <1>1, <1>n DEF HeapInv, MainHas, SensorHas
<1>6. OnePlace'
  BY <1>1, <1>2, <1>3, <1>n DEF HeapInv, OnePlace
<1>7. Somewhere' \ {Nil} = Somewhere \ {Nil}
  BY <1>1, <1>2, <1>3 DEF Somewhere
<1>8. Allocated'
  BY <1>1, <1>n, <1>7 DEF HeapInv, Allocated
<1>9. Kinds'
  BY <1>1 DEF HeapInv, Kinds
<1> QED
  BY <1>2, <1>4, <1>5, <1>6, <1>8, <1>9 DEF HeapInv

(* The other steps leave the heap alone. *)
LEMMA OthersKeepHeap ==
  ASSUME SampleTyped, HeapInv,
         \/ SensorBegin \/ SleepTask \/ JoinHotspot \/ DeviceInfo \/ oc_mqtt_init \/ oc_set_cmd_rsp_cb
         \/ CompareNull \/ ParseText \/ ActOnCommand \/ ReportReading \/ UNCHANGED ocSampleVars
  PROVE  SampleTyped' /\ HeapInv'
<1>1. UNCHANGED <<store, mid_MsgQueue, queueMade, forgotten, readbuf, pushed, rcvMsg, mainMsg,
                  taken, sensMsg>>
  BY DEF SensorBegin, SleepTask, JoinHotspot, DeviceInfo, oc_mqtt_init, oc_set_cmd_rsp_cb,
     CompareNull,
     ParseText, ActOnCommand, ReportReading, ocSampleVars, ocMemory, ocEngine, ocMain, ocSensor
<1>2. MainHas'
  BY <1>1 DEF HeapInv, MainHas, SensorBegin, SleepTask, JoinHotspot, DeviceInfo, oc_mqtt_init,
     oc_set_cmd_rsp_cb, CompareNull,
     ParseText, ActOnCommand, ReportReading, ocSampleVars, ocMain, GoTo
<1>3. SensorHas'
  BY <1>1 DEF HeapInv, SensorHas, SensorBegin, SleepTask, JoinHotspot, DeviceInfo, oc_mqtt_init,
     oc_set_cmd_rsp_cb, CompareNull,
     ParseText, ActOnCommand, ReportReading, ocSampleVars, ocSensor
<1>4. QueuedOnce' /\ OnePlace' /\ Allocated'
  BY <1>1 DEF HeapInv, QueuedOnce, OnePlace, Allocated, Somewhere, InQueue
<1>5. mainPc' = "parse" => mainPc = "parse"
  BY DEF SensorBegin, SleepTask, JoinHotspot, DeviceInfo, oc_mqtt_init, oc_set_cmd_rsp_cb,
     CompareNull,
     ParseText, ActOnCommand, ReportReading, ocSampleVars, ocMain, GoTo
<1>6. Kinds'
  BY <1>1, <1>5 DEF HeapInv, Kinds
<1>7. client' \in {"none", "broken", "refused", "connected"} /\ cmd_rsp_cb' \in {0, 1}
  BY DEF SampleTyped, OcSampleTypeOK, SensorBegin, SleepTask, JoinHotspot, DeviceInfo,
     oc_mqtt_init, oc_set_cmd_rsp_cb,
     CompareNull, ParseText, ActOnCommand, ReportReading, ocSampleVars, ocEngine
<1>8. json' \in {"none", "live", "deleted", "corrupt"}
  BY DEF SampleTyped, OcSampleTypeOK, SensorBegin, SleepTask, JoinHotspot, DeviceInfo,
     oc_mqtt_init, oc_set_cmd_rsp_cb,
     CompareNull, ParseText, ActOnCommand, ReportReading, ocSampleVars, ocMain
<1>9. obeyed' \in Seq([queued : Nat, read : Nat])
  <2>1. CASE ParseText
    <3>1. mainMsg \in Cells /\ store[mainMsg] # Nil
      BY <2>1 DEF ParseText, HeapInv, MainHas, Allocated, Somewhere, SampleTyped, OcSampleTypeOK
    <3>2. store[mainMsg].n \in Nat /\ readbuf \in Nat
      BY <3>1 DEF SampleTyped, OcSampleTypeOK, AppMsgs
    <3>3. [queued |-> store[mainMsg].n, read |-> readbuf] \in [queued : Nat, read : Nat]
      BY <3>2
    <3> QED
      BY <2>1, <3>3 DEF ParseText, SampleTyped
  <2>2. CASE ~ParseText
    BY <2>2 DEF SampleTyped, SensorBegin, SleepTask, JoinHotspot, DeviceInfo, oc_mqtt_init,
       oc_set_cmd_rsp_cb,
       CompareNull, ActOnCommand, ReportReading, ocSampleVars, ocMain
  <2> QED
    BY <2>1, <2>2
<1>10. SampleTyped'
  BY <1>1, <1>7, <1>8, <1>9 DEF SampleTyped, OcSampleTypeOK
<1> QED
  BY <1>2, <1>3, <1>4, <1>6, <1>10 DEF HeapInv

(* Command stays what it is while more commands come.                      *)
LEMMA CommandStays ==
  ASSUME SampleTyped, TreeInv, obeyed # <<>>, UNCHANGED obeyed,
         pushed' = pushed \/ \E text \in Texts : pushed' = Append(pushed, text)
  PROVE  Command' = Command
<1>1. obeyed \in Seq([queued : Nat, read : Nat]) /\ Len(obeyed) \in 1..Len(obeyed) /\ pushed \in Seq(Texts)
  BY DEF SampleTyped
<1>2. obeyed[Len(obeyed)].read \in 1..Len(pushed)
  BY <1>1 DEF TreeInv
<1>3. \A i \in 1..Len(pushed) : pushed'[i] = pushed[i]
  BY <1>1
<1> QED
  BY <1>2, <1>3 DEF Command

(* A command's tree is deleted by the time its message is freed.           *)
LEMMA TreesKept ==
  ASSUME SampleTyped, HeapInv, TreeInv, OcSampleNext \/ UNCHANGED ocSampleVars
  PROVE  TreeInv'
<1>t. /\ obeyed \in Seq([queued : Nat, read : Nat]) /\ pushed \in Seq(Texts) /\ Len(pushed) \in Nat
      /\ readbuf = Len(pushed)
  BY DEF SampleTyped
<1>1. ASSUME UNCHANGED <<json, obeyed>>, mainPc' \in {mainPc, "fault"},
             pushed' = pushed \/ \E text \in Texts : pushed' = Append(pushed, text)
      PROVE  TreeInv'
  <2>1. \A n \in 1..Len(pushed) : n \in 1..Len(pushed')
    BY <1>t, <1>1
  <2>2. obeyed # <<>> => Command' = Command
    BY <1>1, CommandStays
  <2> QED
    BY <1>1, <2>1, <2>2 DEF TreeInv, JsonDeletedOnce
<1>2. CASE \E text \in Texts : Push(text)
  <2>1. PICK text \in Texts : Push(text)
    BY <1>2
  <2>2. UNCHANGED <<json, obeyed>> /\ mainPc' \in {mainPc, "fault"} /\ pushed' = Append(pushed, text)
    BY <2>1 DEF Push
  <2> QED
    BY <1>1, <2>2
<1>3. CASE MsgRcvPut \/ SensorBegin \/ TakeReading \/ PutReading \/ SleepTask \/ UNCHANGED ocSampleVars
  <2>1. UNCHANGED <<json, obeyed, pushed>> /\ mainPc' \in {mainPc, "fault"}
    BY <1>3 DEF MsgRcvPut, SensorBegin, TakeReading, PutReading, SleepTask, ocSampleVars,
       ocEngine, ocMain
  <2> QED
    BY <1>1, <2>1
<1>4. CASE JoinHotspot \/ DeviceInfo \/ oc_mqtt_init \/ oc_set_cmd_rsp_cb \/ Poll \/ ReportReading \/ CompareNull
  <2>1. /\ UNCHANGED <<json, obeyed, pushed>>
        /\ \/ mainPc \in {"wifi", "device", "mqtt", "register", "poll", "report"}
              /\ mainPc' \in {"device", "mqtt", "register", "poll", "parse", "report", "free"}
           \/ mainPc' = "fault"
    BY <1>4 DEF JoinHotspot, DeviceInfo, oc_mqtt_init, oc_set_cmd_rsp_cb, Poll, ReportReading,
       CompareNull, GoTo,
       ocEngine
  <2> QED
    BY <2>1 DEF TreeInv, JsonDeletedOnce
<1>5. CASE ParseText
  <2>1. /\ mainPc = "parse" /\ mainPc' = "act" /\ json' \in {"live", "none"} /\ pushed' = pushed
        /\ obeyed' = Append(obeyed, [queued |-> store[mainMsg].n, read |-> readbuf])
    BY <1>5, <1>t DEF ParseText, TreeInv, ocEngine
  <2>2. mainMsg \in Cells /\ store[mainMsg] # Nil /\ store[mainMsg].type = "cmd"
    BY <2>1 DEF HeapInv, MainHas, Allocated, Somewhere, Kinds, SampleTyped, OcSampleTypeOK
  <2>3. store[mainMsg].n \in 1..Len(pushed)
    BY <2>2 DEF HeapInv, Kinds
  <2>4. readbuf \in 1..Len(pushed) /\ readbuf \in Nat /\ store[mainMsg].n \in Nat
    BY <1>t, <2>3
  <2> DEFINE r == [queued |-> store[mainMsg].n, read |-> readbuf]
  <2>5. r \in [queued : Nat, read : Nat] /\ r.read = readbuf /\ obeyed' = Append(obeyed, r)
    BY <2>1, <2>4
  <2> HIDE DEF r
  <2>6. /\ Len(obeyed') = Len(obeyed) + 1 /\ obeyed'[Len(obeyed) + 1] = r /\ obeyed' # <<>>
        /\ \A i \in 1..Len(obeyed) : obeyed'[i] = obeyed[i]
        /\ \A i \in 1..Len(obeyed') : i \in 1..Len(obeyed) \/ i = Len(obeyed) + 1
    BY <1>t, <2>5
  <2>7. \A i \in 1..Len(obeyed') : obeyed'[i].read \in 1..Len(pushed')
    BY <2>1, <2>4, <2>5, <2>6 DEF TreeInv
  <2> QED
    BY <2>1, <2>6, <2>7 DEF TreeInv, JsonDeletedOnce
<1>6. CASE ActOnCommand
  <2>1. /\ mainPc = "act" /\ mainPc' = "free" /\ UNCHANGED <<obeyed, pushed>>
        /\ json' = IF json = "none" \/ Deletions = 0 THEN json
                   ELSE IF Deletions = 1 THEN "deleted" ELSE "corrupt"
    BY <1>6 DEF ActOnCommand, ocEngine
  <2>2. json \in {"live", "none"} /\ obeyed # <<>>
    BY <2>1 DEF TreeInv
  <2>3. Command' = Command
    BY <2>1 DEF Command
  <2>4. Deletions # 0 /\ (Deletions # 1 => Command.target = "unnamed" \/ Command.value \notin {"ON", "OFF"})
    BY DEF Deletions
  <2>5. json' # "live" /\ (json' = "corrupt" => Command'.target = "unnamed" \/ Command'.value \notin {"ON", "OFF"})
    BY <2>1, <2>2, <2>3, <2>4
  <2> QED
    BY <2>1, <2>2, <2>5 DEF TreeInv, JsonDeletedOnce
<1>7. CASE FreeMessage
  BY <1>7 DEF FreeMessage, GoTo, TreeInv, JsonDeletedOnce, ocEngine
<1> QED
  BY <1>2, <1>3, <1>4, <1>5, <1>6, <1>7 DEF OcSampleNext

(* SampleInv holds in every state of the cloud example.                    *)
LEMMA SampleInvariant == OcSampleSpec => []SampleInv
<1>1. OcSampleInit => SampleInv
  <2> SUFFICES ASSUME OcSampleInit PROVE SampleInv
    OBVIOUS
  <2>1. SampleTyped /\ TreeInv
    BY DEF OcSampleInit, SampleTyped, OcSampleTypeOK, TreeInv, JsonDeletedOnce
  <2>2. InQueue = {}
    BY DEF OcSampleInit, InQueue
  <2>3. HeapInv
    BY <2>2, OcSampleAssumption DEF OcSampleInit, HeapInv, MainHas, SensorHas, QueuedOnce,
       OnePlace, Allocated,
       Somewhere, Kinds
  <2> QED
    BY <2>1, <2>3 DEF SampleInv
<1>2. SampleInv /\ [OcSampleNext]_ocSampleVars => SampleInv'
  <2> SUFFICES ASSUME SampleInv, [OcSampleNext]_ocSampleVars PROVE SampleInv'
    OBVIOUS
  <2>1. SampleTyped' /\ HeapInv'
    BY PushKeepsHeap, RcvPutKeepsHeap, TakeKeepsHeap, PutKeepsHeap, FreeMessageKeepsHeap,
       PollKeepsHeap,
       OthersKeepHeap DEF SampleInv, OcSampleNext
  <2>2. TreeInv'
    BY TreesKept DEF SampleInv
  <2> QED
    BY <2>1, <2>2 DEF SampleInv
<1> QED
  BY <1>1, <1>2, PTL DEF OcSampleSpec

(* The variables of the cloud example have their types.                    *)
THEOREM SampleTypeCorrect == OcSampleSpec => []OcSampleTypeOK
<1>1. SampleInv => OcSampleTypeOK
  BY DEF SampleInv, SampleTyped
<1> QED
  BY <1>1, SampleInvariant, PTL

(* However the callback, the sensor task and the cloud task of D6          *)
(* interleave, only commands that found no room are lost from the heap,    *)
(* and the tree of a command is deleted before its message is freed, once  *)
(* if the command is one of the product's profile.                         *)
THEOREM SampleCleansUp == OcSampleSpec => []RoundCleansUp
<1>1. SampleInv => RoundCleansUp
  <2> SUFFICES ASSUME SampleInv PROVE RoundCleansUp
    OBVIOUS
  <2>1. \A c \in forgotten : c \in Cells /\ c # Nil
    BY OcSampleAssumption DEF SampleInv, SampleTyped, OcSampleTypeOK
  <2>2. \A c \in forgotten : store[c].type = "cmd" /\ c \notin InQueue \cup {mainMsg, sensMsg}
    BY <2>1 DEF SampleInv, HeapInv, Kinds, OnePlace
  <2>3. OnlyCommandsForgotten
    BY <2>2 DEF SampleInv, HeapInv, Allocated, Somewhere, OnlyCommandsForgotten
  <2> QED
    BY <2>3 DEF SampleInv, TreeInv, RoundCleansUp
<1> QED
  BY <1>1, SampleInvariant, PTL

-----------------------------------------------------------------------------
(* The kernel examples: the inductive invariant.                           *)

(* What an entry has left to create.                                       *)
StartUp(e) ==
  IF e \in {"A1", "A2"} THEN {<<1, 2>>, <<2>>, <<>>}
  ELSE IF e \in {"A3", "A6"} THEN {<<Object, 1, 2>>, <<1, 2>>, <<2>>, <<>>}
  ELSE {<<1, 2, 3, Object>>, <<2, 3, Object>>, <<3, Object>>, <<Object>>, <<>>}

(* A thread has no place as long as it is to be created.                   *)
NotYet ==
  /\ place[1] = "none" <=> toCreate \in {<<1, 2>>, <<Object, 1, 2>>, <<1, 2, 3, Object>>}
  /\ place[2] = "none" <=> toCreate \notin {<<>>, <<3, Object>>, <<Object>>}
  /\ toCreate \in {<<Object>>, <<>>} /\ example = "A5" => place[3] # "none"
  /\ toCreate \in {<<3, Object>>, <<2, 3, Object>>, <<1, 2, 3, Object>>} => place[3] = "none"

KernelTyped ==
  /\ KernelTypeOK
  /\ example \in {"A1", "A2", "A3", "A4", "A5", "A6"}
  /\ toCreate \in StartUp(example)
  /\ \A t \in Workers : place[t] = "inside" => example = "A4" /\ t \in {1, 3}
  /\ place[1] = "second" => example = "A5"
  /\ \A t \in {2, 3} : place[t] # "second"

(* A4: the mutex belongs to a thread in the section, and a thread in the   *)
(* section that it does not belong to came in before it was made.          *)
SectionOwned ==
  example = "A4" =>
    /\ content # 0 => content \in {1, 3} /\ place[content] = "inside"
    /\ \A t \in unlocked : t \in {1, 3} /\ place[t] = "inside"
    /\ \A t \in {1, 3} : place[t] = "inside" => (t \in unlocked <=> content # t)

(* A3 and A6: something waits for the receiver only while the sender       *)
(* sleeps.                                                                 *)
ReceiverFirst ==
  example \in {"A3", "A6"} =>
    /\ delay[2] = 0
    /\ place[1] = "none" => content = 0
    /\ content > 0 => delay[1] > 0 \/ place[2] = "failed"

(* A5: two releases make a round.                                          *)
SemaphorePlaces ==
  example = "A5" =>
    /\ delay[1] <= Second /\ delay[2] \in {0, 1} /\ delay[3] \in {0, 1}
    /\ place[1] # "first" => delay[1] = 0
    /\ object = "unset" <=> toCreate # <<>>
    /\ object # "made" => content = 0 /\ turns[2] = 0 /\ turns[3] = 0
    /\ place[1] = "none" => turns[1] = 0
    /\ turns[1] = 0 /\ place[1] # "second" =>
         content = 0 /\ turns[2] = 0 /\ turns[3] = 0 /\ delay[1] = 0
    /\ object = "unset" /\ turns[1] > 0 =>
         turns[1] = 1 /\ place[1] = "first" /\ delay[1] = Second

AllRun == example = "A5" /\ \A t \in Workers : place[t] # "failed"

(* In the first round releases may have been in vain, and a thread that    *)
(* came before the semaphore may leave one for the tick after.             *)
FirstRound ==
  AllRun /\ object = "made" =>
    /\ turns[1] = 0 /\ place[1] = "second" => turns[2] + turns[3] + content <= 1
    /\ turns[1] = 1 /\ place[1] = "first" =>
         /\ turns[2] + turns[3] + content <= 2
         /\ delay[1] = Second - 1 => content <= (1 - delay[2]) + (1 - delay[3])
         /\ delay[1] <= Second - 2 => content = 0 /\ delay[2] = 0 /\ delay[3] = 0

(* How far the two threads were apart when the round began.                *)
Apart == (turns[2] - delay[2]) - (turns[3] - delay[3])

(* Later each of the two threads takes one of the two, and sleeps for the  *)
(* rest of the tick.                                                       *)
LaterRounds ==
  AllRun /\ object = "made" =>
    /\ turns[1] >= 1 /\ place[1] = "second" =>
         content = 1 - delay[2] - delay[3] /\ Apart \in -2..2
    /\ turns[1] >= 2 /\ place[1] = "first" =>
         /\ Apart \in -2..2
         /\ delay[1] = Second => content = 2 - delay[2] - delay[3]
         /\ delay[1] < Second => content = 0 /\ delay[2] = 0 /\ delay[3] = 0

(* If nothing was missed the same holds of the first round, and the two    *)
(* are not apart at all.                                                   *)
InStep ==
  AllRun /\ missed = {} =>
    /\ turns[1] = 0 /\ place[1] # "second" => delay[2] = 0 /\ delay[3] = 0
    /\ place[1] = "second" =>
         /\ object = "made" /\ content = 1 - delay[2] - delay[3]
         /\ turns[2] = turns[1] + delay[2] /\ turns[3] = turns[1] + delay[3]
    /\ turns[1] >= 1 /\ place[1] = "first" =>
         /\ object = "made"
         /\ delay[1] = Second =>
              /\ content = 2 - delay[2] - delay[3]
              /\ turns[2] = turns[1] - 1 + delay[2] /\ turns[3] = turns[1] - 1 + delay[3]
         /\ delay[1] < Second =>
              /\ content = 0 /\ delay[2] = 0 /\ delay[3] = 0
              /\ turns[2] = turns[1] /\ turns[3] = turns[1]

(* One of the two is enough to keep the semaphore from its maximum: it     *)
(* takes one a tick, and a round has two ticks or more.                    *)
TakersFirst ==
  example = "A5" =>
    \A t \in {2, 3} : place[t] = "first" =>
      content + delay[t] <= 1 + (IF place[1] = "second" THEN 1 ELSE 0)
                              + (IF delay[1] = Second THEN 2
                                 ELSE IF delay[1] = Second - 1 THEN 1 ELSE 0)

KernelInv ==
  /\ KernelTyped /\ NotYet /\ "first" \notin missed
  /\ SectionOwned /\ ReceiverFirst /\ SemaphorePlaces /\ TakersFirst
  /\ FirstRound /\ LaterRounds /\ InStep

(* The entries and what is left of them.                                   *)
LEMMA StartUps ==
  /\ Head(<<1, 2>>) = 1 /\ Tail(<<1, 2>>) = <<2>>
  /\ Head(<<2>>) = 2 /\ Tail(<<2>>) = <<>>
  /\ Head(<<0, 1, 2>>) = 0 /\ Tail(<<0, 1, 2>>) = <<1, 2>>
  /\ Head(<<1, 2, 3, 0>>) = 1 /\ Tail(<<1, 2, 3, 0>>) = <<2, 3, 0>>
  /\ Head(<<2, 3, 0>>) = 2 /\ Tail(<<2, 3, 0>>) = <<3, 0>>
  /\ Head(<<3, 0>>) = 3 /\ Tail(<<3, 0>>) = <<0>>
  /\ Head(<<0>>) = 0 /\ Tail(<<0>>) = <<>>
OBVIOUS

(* ... which are all different.                                            *)
LEMMA Distinct ==
  /\ <<1, 2>> # <<2>> /\ <<1, 2>> # <<>> /\ <<1, 2>> # <<0, 1, 2>> /\ <<1, 2>> # <<1, 2, 3, 0>>
  /\ <<1, 2>> # <<2, 3, 0>> /\ <<1, 2>> # <<3, 0>> /\ <<1, 2>> # <<0>>
  /\ <<2>> # <<>> /\ <<2>> # <<0, 1, 2>> /\ <<2>> # <<1, 2, 3, 0>> /\ <<2>> # <<2, 3, 0>>
  /\ <<2>> # <<3, 0>> /\ <<2>> # <<0>>
  /\ <<>> # <<0, 1, 2>> /\ <<>> # <<1, 2, 3, 0>> /\ <<>> # <<2, 3, 0>> /\ <<>> # <<3, 0>> /\ <<>> # <<0>>
  /\ <<0, 1, 2>> # <<1, 2, 3, 0>> /\ <<0, 1, 2>> # <<2, 3, 0>> /\ <<0, 1, 2>> # <<3, 0>> /\ <<0, 1, 2>> # <<0>>
  /\ <<1, 2, 3, 0>> # <<2, 3, 0>> /\ <<1, 2, 3, 0>> # <<3, 0>> /\ <<1, 2, 3, 0>> # <<0>>
  /\ <<2, 3, 0>> # <<3, 0>> /\ <<2, 3, 0>> # <<0>> /\ <<3, 0>> # <<0>>
OBVIOUS

(* The invariant holds at the beginning.                                   *)
LEMMA KernelBegins == KernelInit => KernelInv
<1> SUFFICES ASSUME KernelInit PROVE KernelInv
  OBVIOUS
<1>1. toCreate \in {<<1, 2>>, <<0, 1, 2>>, <<1, 2, 3, 0>>} /\ toCreate \in StartUp(example)
  <2>1. CASE example \in {"A1", "A2"}
    BY <2>1 DEF KernelInit, Entry, Object, StartUp
  <2>2. CASE example \in {"A3", "A6"}
    BY <2>2 DEF KernelInit, Entry, Object, StartUp
  <2>3. CASE example \in {"A4", "A5"}
    BY <2>3 DEF KernelInit, Entry, Object, StartUp
  <2> QED
    BY <2>1, <2>2, <2>3 DEF KernelInit
<1>2. NotYet
  <2>1. place[1] = "none" /\ place[2] = "none" /\ place[3] = "none"
    BY DEF KernelInit, Workers
  <2>2. toCreate # <<>> /\ toCreate # <<3, 0>> /\ toCreate # <<0>>
    BY <1>1, Distinct
  <2> QED
    BY <1>1, <2>1, <2>2 DEF NotYet, Object
<1>3. KernelTyped
  <2>1. KernelTypeOK
    BY KernelAssumption DEF KernelInit, KernelTypeOK, Workers
  <2> QED
    BY <1>1, <2>1 DEF KernelInit, KernelTyped, Workers
<1>4. SemaphorePlaces
  <2>1. toCreate # <<>>
    BY <1>1, Distinct
  <2> QED
    BY <2>1, KernelAssumption DEF KernelInit, SemaphorePlaces, Workers
<1>5. /\ SectionOwned /\ ReceiverFirst /\ TakersFirst
      /\ FirstRound /\ LaterRounds /\ InStep
  BY KernelAssumption DEF KernelInit, SectionOwned, ReceiverFirst, TakersFirst, FirstRound,
     LaterRounds, InStep, Workers
<1> QED
  BY <1>2, <1>3, <1>4, <1>5 DEF KernelInv, KernelInit

(* A thread is created, or the example's object is.                        *)
Creates(t) ==
  /\ UNCHANGED object
  /\ place[t] = "none"
  /\ \E how \in {"first", "failed"} : place' = [place EXCEPT ![t] = how]
  /\ delay' = [delay EXCEPT ![t] = FirstDelay(t)]
  /\ toCreate' = <<>> => example \notin {"A4", "A5"}
  /\ t = 3 => example \in {"A4", "A5"}

CreatesObject ==
  /\ object' \in {"made", "failed"}
  /\ UNCHANGED <<place, delay>>
  /\ example \in {"A4", "A5"} => toCreate = <<Object>> /\ toCreate' = <<>>

(* What an example's entry does in a step: it creates its object, or a     *)
(* thread that had no place.                                               *)
LEMMA CreateStep ==
  ASSUME KernelInv, Create
  PROVE  /\ UNCHANGED <<example, content, turns, unlocked, missed, ticks>>
         /\ toCreate # <<>> /\ toCreate' \in StartUp(example) /\ NotYet'
         /\ CreatesObject \/ \E t \in Workers : Creates(t)
<1> USE DEF Object
<1>1. /\ UNCHANGED <<example, content, turns, unlocked, missed, ticks>> /\ toCreate # <<>>
      /\ toCreate' = Tail(toCreate)
  BY DEF Create
<1>2. toCreate \in StartUp(example) /\ NotYet /\ place \in [Workers -> {"none", "failed", "first", "second", "inside"}]
  BY DEF KernelInv, KernelTyped, KernelTypeOK
<1>3. CASE Head(toCreate) = 0
  <2>1. object' \in {"made", "failed"} /\ UNCHANGED <<place, delay>>
    BY <1>3 DEF Create
  <2>2. \/ example \in {"A3", "A6"} /\ toCreate = <<0, 1, 2>> /\ toCreate' = <<1, 2>>
        \/ example \in {"A4", "A5"} /\ toCreate = <<0>> /\ toCreate' = <<>>
    <3>1. CASE example \in {"A1", "A2"}
      <4>1. toCreate = <<1, 2>> \/ toCreate = <<2>> \/ toCreate = <<>>
        BY <1>2, <3>1 DEF StartUp
      <4> QED
        BY <1>1, <1>3, <4>1, StartUps
    <3>2. CASE example \in {"A3", "A6"}
      <4>1. toCreate = <<0, 1, 2>> \/ toCreate = <<1, 2>> \/ toCreate = <<2>> \/ toCreate = <<>>
        BY <1>2, <3>2 DEF StartUp
      <4>2. toCreate = <<0, 1, 2>>
        BY <1>1, <1>3, <4>1, StartUps
      <4> QED
        BY <1>1, <3>2, <4>2, StartUps
    <3>3. CASE example \in {"A4", "A5"}
      <4>1. \/ toCreate = <<1, 2, 3, 0>> \/ toCreate = <<2, 3, 0>> \/ toCreate = <<3, 0>>
            \/ toCreate = <<0>> \/ toCreate = <<>>
        BY <1>2, <3>3 DEF StartUp
      <4>2. toCreate = <<0>>
        BY <1>1, <1>3, <4>1, StartUps
      <4> QED
        BY <1>1, <3>3, <4>2, StartUps
    <3> QED
      BY <3>1, <3>2, <3>3 DEF KernelInv, KernelTyped
  <2>3. NotYet'
    BY <1>1, <1>2, <2>1, <2>2, Distinct DEF NotYet
  <2> QED
    BY <1>1, <2>1, <2>2, <2>3 DEF CreatesObject, StartUp
<1>4. CASE Head(toCreate) # 0
  <2> DEFINE t == Head(toCreate)
  <2>1. /\ UNCHANGED object /\ delay' = [delay EXCEPT ![t] = FirstDelay(t)]
        /\ \E how \in {"first", "failed"} : place' = [place EXCEPT ![t] = how]
    BY <1>4 DEF Create
  <2>2. \/ example \in {"A1", "A2", "A3", "A6"} /\ toCreate = <<1, 2>> /\ t = 1 /\ toCreate' = <<2>>
        \/ example \in {"A1", "A2", "A3", "A6"} /\ toCreate = <<2>> /\ t = 2 /\ toCreate' = <<>>
        \/ example \in {"A4", "A5"} /\ toCreate = <<1, 2, 3, 0>> /\ t = 1 /\ toCreate' = <<2, 3, 0>>
        \/ example \in {"A4", "A5"} /\ toCreate = <<2, 3, 0>> /\ t = 2 /\ toCreate' = <<3, 0>>
        \/ example \in {"A4", "A5"} /\ toCreate = <<3, 0>> /\ t = 3 /\ toCreate' = <<0>>
    BY <1>1, <1>2, <1>4, StartUps DEF StartUp, KernelInv, KernelTyped
  <2> HIDE DEF t
  <2>3. t \in Workers /\ place[t] = "none"
    BY <1>2, <2>2, Distinct DEF NotYet, Workers
  <2>4. NotYet'
    <3>1. PICK how \in {"first", "failed"} : place' = [place EXCEPT ![t] = how]
      BY <2>1
    <3>2. place'[t] = how /\ \A u \in Workers \ {t} : place'[u] = place[u]
      BY <1>2, <2>3, <3>1
    <3>3. CASE t = 1 /\ toCreate = <<1, 2>> /\ toCreate' = <<2>>
      BY <1>2, <3>2, <3>3, Distinct DEF NotYet, Workers
    <3>4. CASE t = 2 /\ toCreate = <<2>> /\ toCreate' = <<>> /\ example \in {"A1", "A2", "A3", "A6"}
      BY <1>1, <1>2, <3>2, <3>4, Distinct DEF NotYet, Workers
    <3>5. CASE t = 1 /\ toCreate = <<1, 2, 3, 0>> /\ toCreate' = <<2, 3, 0>>
      BY <1>2, <3>2, <3>5, Distinct DEF NotYet, Workers
    <3>6. CASE t = 2 /\ toCreate = <<2, 3, 0>> /\ toCreate' = <<3, 0>>
      BY <1>2, <3>2, <3>6, Distinct DEF NotYet, Workers
    <3>7. CASE t = 3 /\ toCreate = <<3, 0>> /\ toCreate' = <<0>>
      BY <1>2, <3>2, <3>7, Distinct DEF NotYet, Workers
    <3> QED
      BY <2>2, <3>3, <3>4, <3>5, <3>6, <3>7
  <2>5. Creates(t)
    <3>1. t = 3 => example \in {"A4", "A5"}
      BY <2>2
    <3>2. toCreate' = <<>> => example \notin {"A4", "A5"}
      BY <2>2, Distinct
    <3> QED
      BY <2>1, <2>3, <3>1, <3>2 DEF Creates
  <2>6. toCreate' \in StartUp(example)
    BY <2>2 DEF StartUp
  <2> QED
    BY <1>1, <2>3, <2>4, <2>5, <2>6
<1> QED
  BY <1>3, <1>4

(* Types are kept, and no thread has a place before it is created.         *)
LEMMA TypesKept == ASSUME KernelInv, [KernelNext]_kernelVars PROVE KernelTyped' /\ NotYet'
<1> USE KernelAssumption
<1>0. /\ KernelTyped /\ NotYet /\ KernelTypeOK
      /\ \A t \in Workers : t \in {1, 2, 3} /\ FirstDelay(t) \in {0, Second, 3 * Second}
  BY DEF KernelInv, KernelTyped, Workers, FirstDelay
<1>1. CASE Create
  <2>1. KernelTypeOK'
    <3>1. CASE CreatesObject
      BY <1>0, <1>1, <3>1, CreateStep DEF KernelTypeOK, CreatesObject
    <3>2. ASSUME NEW t \in Workers, Creates(t) PROVE KernelTypeOK'
      <4>1. place' \in [Workers -> {"none", "failed", "first", "second", "inside"}]
        BY <1>0, <3>2 DEF KernelTypeOK, Creates
      <4>2. delay' \in [Workers -> 0..(3 * Second)]
        <5>1. FirstDelay(t) \in 0..(3 * Second)
          BY <1>0
        <5> QED
          BY <1>0, <3>2, <5>1 DEF KernelTypeOK, Creates
      <4> QED
        BY <1>0, <1>1, <3>2, <4>1, <4>2, CreateStep DEF KernelTypeOK, Creates
    <3> QED
      BY <1>1, <3>1, <3>2, CreateStep
  <2>2. /\ \A t \in Workers : place'[t] = "inside" => example = "A4" /\ t \in {1, 3}
        /\ place'[1] = "second" => example = "A5"
        /\ \A t \in {2, 3} : place'[t] # "second"
    <3>1. CASE CreatesObject
      BY <1>0, <3>1 DEF KernelTyped, CreatesObject
    <3>2. ASSUME NEW t \in Workers, Creates(t), NEW u \in Workers PROVE place'[u] \in {place[u], "first", "failed"}
      BY <1>0, <3>2 DEF Creates, KernelTypeOK
    <3> QED
      BY <1>0, <1>1, <3>1, <3>2, CreateStep DEF KernelTyped, Workers
  <2> QED
    BY <1>0, <1>1, <2>1, <2>2, CreateStep DEF KernelTyped
<1>2. CASE Tick
  <2>1. UNCHANGED <<example, toCreate, object, content, place, turns, unlocked, missed>>
    BY <1>2 DEF Tick
  <2>2. delay' \in [Workers -> 0..(3 * Second)]
    BY <1>0, <1>2 DEF Tick, KernelTypeOK
  <2> QED
    BY <1>0, <2>1, <2>2 DEF KernelTyped, KernelTypeOK, NotYet
<1>3. CASE UNCHANGED kernelVars
  BY <1>0, <1>3 DEF KernelTyped, KernelTypeOK, NotYet, kernelVars
<1>4. CASE Run
  <2>1. UNCHANGED rest
    BY <1>4 DEF Run, Thread, TimerCallback, MutexAcquire, MutexRelease, SemaphoreThread,
       EventSenderThread,
       EventReceiverThread, MidPrioThread, Semaphore1Thread, MsgQueue1Thread, MsgQueue2Thread
  <2>2. content' \in Nat /\ unlocked' \subseteq Workers /\ missed' \subseteq {"none", "first", "unset", "failed"}
    <3>1. content' \in Nat /\ unlocked' \subseteq Workers
      BY <1>0, <1>4 DEF Run, Thread, TimerCallback, MutexAcquire, MutexRelease, SemaphoreThread,
         EventSenderThread,
       EventReceiverThread, MidPrioThread, Semaphore1Thread, MsgQueue1Thread, MsgQueue2Thread,
         KernelTypeOK
    <3>2. missed' \subseteq {"none", "first", "unset", "failed"}
      <4>1. \/ missed' = missed
            \/ object # "made" /\ missed' = missed \cup {object}
            \/ example \in {"A3", "A6"} /\ missed' = missed \cup {place[2]}
            \/ example = "A5" /\ missed' = missed \cup {place[2], place[3]}
        BY <1>4 DEF Run, Thread, TimerCallback, MutexAcquire, MutexRelease, SemaphoreThread,
           EventSenderThread,
       EventReceiverThread, MidPrioThread, Semaphore1Thread, MsgQueue1Thread, MsgQueue2Thread, At
      <4>2. example \in {"A3", "A5", "A6"} =>
              place[2] \in {"none", "failed", "first"} /\ place[3] \in {"none", "failed", "first"}
        BY <1>0 DEF KernelTyped, KernelTypeOK, Workers
      <4>3. object \in {"unset", "made", "failed"} /\ missed \subseteq {"none", "first", "unset", "failed"}
        BY <1>0 DEF KernelTypeOK
      <4> QED
        BY <4>1, <4>2, <4>3
    <3> QED BY <3>1, <3>2
  <2>3. turns' \in [Workers -> Nat]
    <3>1. UNCHANGED turns \/ \E t \in Workers : Turn(t)
      BY <1>0, <1>4 DEF Run, Thread, TimerCallback, MutexAcquire, MutexRelease, SemaphoreThread,
         EventSenderThread,
       EventReceiverThread, MidPrioThread, Semaphore1Thread, MsgQueue1Thread, MsgQueue2Thread,
         Workers
    <3> QED
      BY <1>0, <3>1 DEF Turn, KernelTypeOK
  <2> DEFINE Goes(t, p) ==
        /\ \E d \in {0, 1, Second, Second \div 2, 3 * Second} : Move(t, p, d)
        /\ place[t] \notin {"none", "failed"}
  <2>4. \/ UNCHANGED <<place, delay>>
        \/ \E t \in Workers : Goes(t, "first")
        \/ example = "A4" /\ \E t \in {1, 3} : Goes(t, "inside")
        \/ example = "A5" /\ Goes(1, "second")
    <3>1. ASSUME NEW t \in Workers, Thread(t) \/ TimerCallback(t) \/ SemaphoreThread(t) \/ MutexRelease(t)
          PROVE  Goes(t, "first")
      BY <1>0, <3>1 DEF Thread, TimerCallback, SemaphoreThread, MutexRelease, At
    <3>2. ASSUME NEW t \in Workers, MutexAcquire(t) PROVE example = "A4" /\ t \in {1, 3} /\ Goes(t, "inside")
      BY <3>2 DEF MutexAcquire, At
    <3>3. CASE EventSenderThread \/ MsgQueue1Thread
      BY <3>3 DEF EventSenderThread, MsgQueue1Thread, At, Workers
    <3>4. CASE EventReceiverThread \/ MsgQueue2Thread
      BY <3>4 DEF EventReceiverThread, MsgQueue2Thread
    <3>5. CASE MidPrioThread
      BY <3>5 DEF MidPrioThread, At, Workers
    <3>6. CASE Semaphore1Thread
      BY <3>6 DEF Semaphore1Thread, At, Workers
    <3> HIDE DEF Goes
    <3> QED
      BY <1>4, <3>1, <3>2, <3>3, <3>4, <3>5, <3>6 DEF Run
  <2>5. place' \in [Workers -> {"none", "failed", "first", "second", "inside"}]
    BY <1>0, <2>4 DEF KernelTypeOK, Move
  <2>6. delay' \in [Workers -> 0..(3 * Second)]
    BY <1>0, <2>4 DEF KernelTypeOK, Move
  <2>7. \A t \in Workers :
          /\ place'[t] = "none" <=> place[t] = "none"
          /\ place'[t] = "inside" => place[t] = "inside" \/ (example = "A4" /\ t \in {1, 3})
          /\ place'[t] = "second" => place[t] = "second" \/ (example = "A5" /\ t = 1)
    BY <1>0, <2>4 DEF KernelTypeOK, Move
  <2>8. KernelTypeOK'
    BY <1>0, <2>1, <2>2, <2>3, <2>5, <2>6 DEF KernelTypeOK, rest
  <2>9. KernelTyped'
    BY <1>0, <2>1, <2>7, <2>8 DEF KernelTyped, rest, Workers
  <2> QED
    BY <1>0, <2>1, <2>7, <2>9 DEF NotYet, rest, Workers
<1> QED
  BY <1>1, <1>2, <1>3, <1>4 DEF KernelNext

(* A4: acquiring, releasing and creating keep the section's account.       *)
LEMMA SectionKept == ASSUME KernelInv, [KernelNext]_kernelVars PROVE SectionOwned'
<1>0. KernelTypeOK /\ SectionOwned
  BY DEF KernelInv, KernelTyped
<1>1. CASE Create
  <2>1. \A t \in Workers : place'[t] = "inside" <=> place[t] = "inside"
    <3>1. ASSUME NEW u \in Workers, Creates(u), NEW t \in Workers
          PROVE  place'[t] = "inside" <=> place[t] = "inside"
      BY <1>0, <3>1 DEF Creates, KernelTypeOK
    <3> QED
      BY <1>1, <3>1, CreateStep DEF CreatesObject
  <2> QED
    BY <1>0, <1>1, <2>1, CreateStep DEF SectionOwned, Workers
<1>2. ASSUME NEW t \in {1, 3}, MutexAcquire(t) PROVE SectionOwned'
  <2>1. place'[t] = "inside" /\ place[t] = "first" /\ \A u \in Workers \ {t} : place'[u] = place[u]
    BY <1>0, <1>2 DEF MutexAcquire, At, Move, KernelTypeOK, Workers
  <2> QED
    BY <1>0, <1>2, <2>1 DEF MutexAcquire, At, SectionOwned, Workers, rest
<1>3. ASSUME NEW t \in {1, 3}, MutexRelease(t) PROVE SectionOwned'
  <2>1. place'[t] = "first" /\ place[t] = "inside" /\ \A u \in Workers \ {t} : place'[u] = place[u]
    BY <1>0, <1>3 DEF MutexRelease, At, Move, KernelTypeOK, Workers
  <2> QED
    BY <1>0, <1>3, <2>1 DEF MutexRelease, At, SectionOwned, Workers, rest
<1>4. CASE MidPrioThread
  <2>1. \A t \in Workers \ {2} : place'[t] = place[t]
    BY <1>0, <1>4 DEF MidPrioThread, Move, KernelTypeOK, Workers
  <2> QED
    BY <1>0, <1>4, <2>1 DEF MidPrioThread, At, SectionOwned, Workers, rest
<1>5. CASE Tick \/ UNCHANGED kernelVars
  BY <1>0, <1>5 DEF Tick, kernelVars, SectionOwned
<1>6. CASE Run /\ example # "A4"
  <2>1. UNCHANGED example
    BY <1>6 DEF Run, Thread, TimerCallback, MutexAcquire, MutexRelease, SemaphoreThread,
       EventSenderThread,
       EventReceiverThread, MidPrioThread, Semaphore1Thread, MsgQueue1Thread, MsgQueue2Thread,
       rest
  <2> QED
    BY <1>6, <2>1 DEF SectionOwned
<1>7. CASE Run /\ example = "A4"
  <2>1. MidPrioThread \/ \E t \in {1, 3} : MutexAcquire(t) \/ MutexRelease(t)
    BY <1>7 DEF Run, Thread, TimerCallback, MutexAcquire, MutexRelease, SemaphoreThread,
       EventSenderThread,
       EventReceiverThread, Semaphore1Thread, MsgQueue1Thread, MsgQueue2Thread, At
  <2> QED
    BY <1>2, <1>3, <1>4, <2>1
<1> QED
  BY <1>1, <1>5, <1>6, <1>7 DEF KernelNext

(* A3 and A6: before a tick passes the receiver has taken what there was,  *)
(* so nothing is missed because of it.                                     *)
LEMMA ReceiverKept ==
  ASSUME KernelInv, [KernelNext]_kernelVars PROVE ReceiverFirst' /\ "first" \notin missed'
<1>s. Second \in Nat /\ Second > 1 /\ MSGQUEUE_SIZE \in Nat /\ MSGQUEUE_SIZE > 0
  BY KernelAssumption
<1> USE <1>s
<1>0. KernelTypeOK /\ KernelTyped /\ ReceiverFirst /\ NotYet /\ "first" \notin missed
  BY DEF KernelInv, KernelTyped
<1>1. CASE Create
  <2>0. UNCHANGED <<example, content, missed>>
    BY <1>1, CreateStep
  <2>1. SUFFICES ASSUME example \in {"A3", "A6"} PROVE ReceiverFirst'
    BY <1>0, <2>0 DEF ReceiverFirst
  <2>2. CASE CreatesObject
    BY <1>0, <2>0, <2>2 DEF ReceiverFirst, CreatesObject
  <2>3. ASSUME NEW t \in Workers, Creates(t) PROVE ReceiverFirst'
    <3>1. PICK how \in {"first", "failed"} : place' = [place EXCEPT ![t] = how]
      BY <2>3 DEF Creates
    <3>2. FirstDelay(t) = 0
      BY <2>1 DEF FirstDelay
    <3>3. /\ place'[t] = how /\ delay'[t] = 0 /\ place[t] = "none" /\ t \in {1, 2}
          /\ \A u \in Workers \ {t} : place'[u] = place[u] /\ delay'[u] = delay[u]
      BY <1>0, <2>1, <2>3, <3>1, <3>2 DEF Creates, KernelTypeOK, Workers
    <3> QED
      BY <1>0, <2>0, <2>1, <3>3 DEF ReceiverFirst, Workers, KernelTypeOK
  <2> QED
    BY <1>1, <2>2, <2>3, CreateStep
<1>2. CASE EventSenderThread \/ MsgQueue1Thread
  <2>1. /\ delay'[1] = Second /\ place'[1] = "first" /\ delay'[2] = delay[2] /\ place'[2] = place[2]
        /\ place[1] = "first" /\ delay[1] = 0 /\ example \in {"A3", "A6"}
    BY <1>0, <1>2 DEF EventSenderThread, MsgQueue1Thread, At, Move, KernelTypeOK, Workers
  <2>2. content > 0 => place[2] = "failed"
    BY <1>0, <2>1 DEF ReceiverFirst
  <2>3. "first" \notin missed'
    <3>1. object # "first"
      BY <1>0 DEF KernelTypeOK
    <3>2. CASE EventSenderThread
      BY <1>0, <2>2, <3>1, <3>2 DEF EventSenderThread, KernelTypeOK
    <3>3. CASE MsgQueue1Thread
      <4>1. object = "made" /\ ~(content < MSGQUEUE_SIZE) => place[2] = "failed"
        BY <1>0, <2>2 DEF KernelTypeOK
      <4> QED
        BY <1>0, <3>1, <3>3, <4>1 DEF MsgQueue1Thread
    <3> QED
      BY <1>2, <3>2, <3>3
  <2>4. ReceiverFirst'
    BY <1>0, <1>2, <2>1 DEF ReceiverFirst, EventSenderThread, MsgQueue1Thread, rest
  <2> QED
    BY <2>3, <2>4
<1>3. CASE EventReceiverThread \/ MsgQueue2Thread
  BY <1>0, <1>3 DEF EventReceiverThread, MsgQueue2Thread, ReceiverFirst, rest, KernelTypeOK
<1>4. CASE Tick
  <2>1. SUFFICES ASSUME example \in {"A3", "A6"} PROVE ReceiverFirst'
    BY <1>0, <1>4 DEF ReceiverFirst, Tick
  <2>2. delay'[2] = 0 /\ UNCHANGED <<example, content, place>>
    BY <1>0, <1>4, <2>1 DEF Tick, ReceiverFirst, Workers
  <2>3. place[2] # "none" /\ ~Ready(2)
    BY <1>0, <1>4 DEF Tick, NotYet, Workers
  <2>4. content > 0 => place[2] = "failed"
    BY <1>0, <2>1, <2>3 DEF Ready, ReceiverFirst
  <2> QED
    BY <1>0, <2>1, <2>2, <2>4 DEF ReceiverFirst
<1>5. CASE UNCHANGED kernelVars
  BY <1>0, <1>5 DEF kernelVars, ReceiverFirst
<1>6. CASE Run /\ example \notin {"A3", "A6"}
  <2>1. /\ UNCHANGED example
        /\ \/ missed' = missed
           \/ object # "made" /\ missed' = missed \cup {object}
           \/ Semaphore1Thread /\ ~(content < SEM_MAX_COUNT) /\ missed' = missed \cup {place[2], place[3]}
    <3>1. UNCHANGED example
      BY <1>6 DEF Run, Thread, TimerCallback, MutexAcquire, MutexRelease, SemaphoreThread,
         EventSenderThread,
         EventReceiverThread, MidPrioThread, Semaphore1Thread, MsgQueue1Thread, MsgQueue2Thread,
         rest
    <3>2. CASE Semaphore1Thread \/ \E t \in Workers : SemaphoreThread(t)
      BY <3>1, <3>2 DEF Semaphore1Thread, SemaphoreThread
    <3>3. CASE \E t \in Workers : Thread(t) \/ TimerCallback(t) \/ MutexAcquire(t) \/ MutexRelease(t)
      BY <3>1, <3>3 DEF Thread, TimerCallback, MutexAcquire, MutexRelease
    <3> QED
      BY <1>6, <3>1, <3>2, <3>3 DEF Run, EventSenderThread, EventReceiverThread, MidPrioThread,
         MsgQueue1Thread,
         MsgQueue2Thread, At
  <2>2. object # "first"
    BY <1>0 DEF KernelTypeOK
  <2>3. ASSUME Semaphore1Thread, ~(content < SEM_MAX_COUNT) PROVE place[2] # "first" /\ place[3] # "first"
    <3>1. example = "A5" /\ delay[1] = 0 /\ delay[2] \in Nat /\ delay[3] \in Nat /\ content \in Nat
      BY <1>0, <2>3 DEF Semaphore1Thread, At, KernelTypeOK, Workers
    <3> QED
      BY <2>3, <3>1 DEF KernelInv, TakersFirst, SEM_MAX_COUNT
  <2> QED
    BY <1>0, <1>6, <2>1, <2>2, <2>3 DEF ReceiverFirst
<1>7. CASE Run /\ example \in {"A3", "A6"}
  <2>1. EventSenderThread \/ MsgQueue1Thread \/ EventReceiverThread \/ MsgQueue2Thread
    BY <1>7 DEF Run, Thread, TimerCallback, MutexAcquire, MutexRelease, SemaphoreThread,
       MidPrioThread, Semaphore1Thread, At
  <2> QED
    BY <1>2, <1>3, <2>1
<1> QED
  BY <1>1, <1>4, <1>5, <1>6, <1>7 DEF KernelNext

(* The part about A5.                                                      *)
SemaphoreInv == SemaphorePlaces /\ TakersFirst /\ FirstRound /\ LaterRounds /\ InStep

(* A release, which may be in vain.                                        *)
Released ==
  IF object = "made" /\ content < SEM_MAX_COUNT
  THEN content' = content + 1 /\ UNCHANGED missed
  ELSE /\ missed' = missed \cup (IF object = "made" THEN {place[2], place[3]} ELSE {object})
       /\ UNCHANGED content

(* What the proofs about A5 know of a state.                               *)
LEMMA SemaphoreTypes ==
  ASSUME KernelInv, example = "A5"
  PROVE  /\ content \in Nat /\ missed \subseteq {"none", "first", "unset", "failed"}
         /\ \A t \in 1..3 : turns[t] \in Nat /\ delay[t] \in Nat /\ place[t] # "inside"
         /\ place[2] # "second" /\ place[3] # "second"
         /\ SemaphorePlaces /\ TakersFirst /\ FirstRound /\ LaterRounds /\ InStep
         /\ Second \in Nat /\ Second > 1
BY KernelAssumption DEF KernelInv, KernelTyped, KernelTypeOK, Workers

(* With all threads the semaphore is never at its maximum when released.   *)
LEMMA RoomToRelease ==
  ASSUME KernelInv, example = "A5", AllRun, object = "made", delay[1] = 0
  PROVE  content < SEM_MAX_COUNT
<1>1. content \in Nat /\ delay[2] \in Nat /\ Second \in Nat /\ Second > 1 /\ TakersFirst
  BY SemaphoreTypes
<1>2. toCreate = <<>>
  BY SemaphoreTypes DEF SemaphorePlaces
<1>3. place[2] \notin {"none", "failed", "second", "inside"}
  BY <1>2, SemaphoreTypes DEF KernelInv, NotYet, AllRun, Workers
<1>4. place[2] = "first"
  BY <1>3 DEF KernelInv, KernelTyped, KernelTypeOK, Workers
<1> QED
  BY <1>1, <1>4 DEF TakersFirst, SEM_MAX_COUNT

(* What a release does to the bound.                                       *)
LEMMA ReleaseBounded ==
  ASSUME KernelInv, example = "A5", Released, UNCHANGED object,
         delay[1] = 0, place'[2] = place[2], place'[3] = place[3],
         delay'[2] = delay[2], delay'[3] = delay[3],
         \/ place[1] = "first" /\ place'[1] = "second" /\ delay'[1] = 0
         \/ place[1] = "second" /\ place'[1] = "first" /\ delay'[1] = Second
  PROVE  TakersFirst'
<1>1. /\ content \in Nat /\ delay[2] \in Nat /\ delay[3] \in Nat /\ Second \in Nat /\ Second > 1
      /\ TakersFirst
  BY SemaphoreTypes
<1>2. content' \in {content, content + 1}
  BY DEF Released
<1> QED
  BY <1>1, <1>2 DEF TakersFirst

(* The first release of a round begins it.                                 *)
LEMMA FirstRelease ==
  ASSUME KernelInv, example = "A5", example' = "A5", UNCHANGED <<toCreate, object, turns>>,
         place[1] = "first", delay[1] = 0, place'[1] = "second", delay'[1] = 0,
         place'[2] = place[2], place'[3] = place[3], delay'[2] = delay[2], delay'[3] = delay[3],
         Released
  PROVE  SemaphoreInv'
<1> USE SemaphoreTypes
<1>0. TakersFirst'
  BY ReleaseBounded
<1>c. AllRun => IF object = "made" THEN content' = content + 1 /\ UNCHANGED missed
                ELSE missed' = missed \cup {object} /\ UNCHANGED content
  BY RoomToRelease DEF Released
<1>e. object # "made" => content' = content
  BY DEF Released
<1>r. AllRun' <=> AllRun
  BY DEF AllRun, Workers
<1>m. content' \in Nat
  BY DEF Released
<1> HIDE DEF Released
<1>1. SemaphorePlaces'
  BY <1>e, <1>m DEF SemaphorePlaces
<1>2. FirstRound'
  BY <1>c, <1>r DEF FirstRound, SemaphorePlaces
<1>3. LaterRounds'
  <2>n. /\ turns[1] \in Nat /\ turns[2] \in Nat /\ turns[3] \in Nat
        /\ delay[1] \in Nat /\ delay[2] \in Nat /\ delay[3] \in Nat
    OBVIOUS
  <2>1. SUFFICES ASSUME AllRun', object' = "made", turns[1] >= 1
                 PROVE  content' = 1 - delay[2] - delay[3] /\ Apart \in -2..2
    BY DEF LaterRounds, Apart
  <2>2. AllRun /\ object = "made" /\ content' = content + 1
    BY <1>c, <1>r, <2>1
  <2>3. CASE turns[1] = 1
    BY <2>n, <2>2, <2>3 DEF FirstRound, Apart
  <2>4. CASE turns[1] >= 2
    BY <2>n, <2>2, <2>4 DEF LaterRounds
  <2> QED
    BY <2>n, <2>1, <2>3, <2>4
<1>4. InStep'
  BY <1>c, <1>r DEF InStep, SemaphorePlaces
<1> QED
  BY <1>0, <1>1, <1>2, <1>3, <1>4 DEF SemaphoreInv

(* The second release ends the turn of Semaphore1Thread, not yet the       *)
(* round.                                                                  *)
LEMMA SecondRelease ==
  ASSUME KernelInv, example = "A5", example' = "A5", UNCHANGED <<toCreate, object>>,
         place[1] = "second", place'[1] = "first", delay'[1] = Second, turns'[1] = turns[1] + 1,
         place'[2] = place[2], place'[3] = place[3], delay'[2] = delay[2], delay'[3] = delay[3],
         turns'[2] = turns[2], turns'[3] = turns[3],
         Released
  PROVE  SemaphoreInv'
<1>t. /\ \A t \in 1..3 : turns[t] \in Nat /\ delay[t] \in Nat
      /\ content \in Nat /\ Second \in Nat /\ Second > 1
      /\ SemaphorePlaces /\ FirstRound /\ LaterRounds /\ InStep
  BY SemaphoreTypes
<1>n. /\ turns[1] \in Nat /\ turns[2] \in Nat /\ turns[3] \in Nat
      /\ delay[1] \in Nat /\ delay[2] \in Nat /\ delay[3] \in Nat
  BY <1>t
<1>r. AllRun' <=> AllRun
  BY DEF AllRun, Workers
<1>z. delay[1] = 0
  BY <1>t DEF SemaphorePlaces
<1>0. TakersFirst'
  BY <1>z, ReleaseBounded
<1>c. AllRun => IF object = "made" THEN content' = content + 1 /\ UNCHANGED missed
                ELSE missed' = missed \cup {object} /\ UNCHANGED content
  BY <1>z, RoomToRelease DEF Released
<1>e. /\ object # "made" => content' = content
      /\ missed' = {} => object = "made" /\ missed = {}
      /\ content' \in Nat
  BY <1>t DEF Released
<1> HIDE DEF Released
<1>1. SemaphorePlaces'
  BY <1>t, <1>n, <1>e DEF SemaphorePlaces
<1>2. FirstRound'
  BY <1>t, <1>n, <1>r, <1>c DEF FirstRound, SemaphorePlaces
<1>3. LaterRounds'
  BY <1>t, <1>n, <1>r, <1>c DEF LaterRounds, FirstRound, SemaphorePlaces, Apart
<1>4. InStep'
  <2>1. missed' = {} => object = "made" /\ missed = {}
    BY <1>e
  <2>2. CASE ~(AllRun' /\ missed' = {})
    BY <2>2 DEF InStep
  <2>3. CASE AllRun' /\ missed' = {}
    <3>1. /\ object = "made" /\ content = 1 - delay[2] - delay[3]
          /\ turns[2] = turns[1] + delay[2] /\ turns[3] = turns[1] + delay[3]
      BY <1>t, <1>r, <2>1, <2>3 DEF InStep
    <3>2. /\ object' = "made" /\ content' = 2 - delay'[2] - delay'[3]
          /\ turns'[2] = turns'[1] - 1 + delay'[2] /\ turns'[3] = turns'[1] - 1 + delay'[3]
      BY <1>n, <1>r, <1>c, <2>3, <3>1
    <3>3. turns'[1] # 0 /\ ~(delay'[1] < Second) /\ place'[1] # "second"
      BY <1>t, <1>n
    <3> QED
      BY <3>2, <3>3 DEF InStep
  <2> QED
    BY <2>2, <2>3
<1> QED
  BY <1>0, <1>1, <1>2, <1>3, <1>4 DEF SemaphoreInv

(* A thread takes one release, or misses the semaphore, and sleeps a tick. *)
LEMMA Acquired ==
  ASSUME KernelInv, example = "A5", example' = "A5", UNCHANGED <<toCreate, object>>,
         NEW t \in {2, 3}, NEW u \in {2, 3}, u # t,
         place'[1] = place[1], delay'[1] = delay[1], turns'[1] = turns[1],
         place[t] = "first", delay[t] = 0, place'[t] = "first", delay'[t] = 1,
         place'[u] = place[u], delay'[u] = delay[u], turns'[u] = turns[u],
         IF object = "made"
         THEN content > 0 /\ content' = content - 1 /\ turns'[t] = turns[t] + 1 /\ UNCHANGED missed
         ELSE missed' = missed \cup {object} /\ UNCHANGED content /\ turns'[t] = turns[t]
  PROVE  SemaphoreInv'
<1>0. (t = 2 /\ u = 3) \/ (t = 3 /\ u = 2)
  OBVIOUS
<1>t. /\ \A w \in 1..3 : turns[w] \in Nat /\ delay[w] \in Nat
      /\ content \in Nat /\ Second \in Nat /\ Second > 1
      /\ SemaphorePlaces /\ FirstRound /\ LaterRounds /\ InStep
  BY SemaphoreTypes
<1>n. /\ turns[1] \in Nat /\ turns[2] \in Nat /\ turns[3] \in Nat
      /\ delay[1] \in Nat /\ delay[2] \in Nat /\ delay[3] \in Nat
  BY <1>t
<1>r. AllRun' => AllRun
  <2>1. place'[1] = "failed" <=> place[1] = "failed"
    OBVIOUS
  <2>2. place'[2] = "failed" <=> place[2] = "failed"
    BY <1>0
  <2>3. place'[3] = "failed" <=> place[3] = "failed"
    BY <1>0
  <2> QED
    BY <2>1, <2>2, <2>3 DEF AllRun, Workers
<1>m. missed' = {} => object = "made" /\ missed = {}
  OBVIOUS
<1>1. SemaphorePlaces'
  BY <1>0, <1>t, <1>n DEF SemaphorePlaces
<1>b. TakersFirst'
  <2>1. /\ content' + delay'[t] <= content + delay[t] \/ content' + delay'[t] <= 1
        /\ content' + delay'[u] <= content + delay[u]
    BY <1>0, <1>t, <1>n DEF SemaphorePlaces
  <2>7. place[t] = "first"
    OBVIOUS
  <2>2. content' \in Nat /\ delay'[t] \in Nat /\ delay'[u] \in Nat /\ TakersFirst
    BY <1>0, <1>t, <1>n, SemaphoreTypes
  <2> DEFINE Round == 1 + (IF place[1] = "second" THEN 1 ELSE 0)
                        + (IF delay[1] = Second THEN 2 ELSE IF delay[1] = Second - 1 THEN 1 ELSE 0)
  <2>3. Round \in Nat /\ Round >= 1
    BY <1>t, <1>n
  <2>4. content + delay[t] <= Round /\ (place[u] = "first" => content + delay[u] <= Round)
    BY <1>0, <2>2, <2>7 DEF TakersFirst
  <2>5. content' + delay'[t] <= Round /\ (place'[u] = "first" => content' + delay'[u] <= Round)
    <3>1. delay[t] \in Nat /\ delay[u] \in Nat /\ content \in Nat
      BY <1>0, <1>n, <1>t
    <3> HIDE DEF Round
    <3> DEFINE Before == content + delay[t]  After == content' + delay'[t]
    <3>4. Before \in Nat /\ After \in Nat
      <4>1. Before \in Nat
        BY <3>1
      <4>2. content' \in Nat /\ delay'[t] \in Nat
        BY <2>2
      <4>4. \A a, b \in Nat : a + b \in Nat
        OBVIOUS
      <4>3. After \in Nat
        BY <4>2, <4>4, Zenon
      <4> QED
        BY <4>1, <4>3
    <3>5. (After <= Before \/ After <= 1) /\ Before <= Round
      <4>1. After <= Before \/ After <= 1
        BY <2>1
      <4>2. Before <= Round
        BY <2>4
      <4> QED
        BY <4>1, <4>2
    <3>6. After <= Round
      <4> HIDE DEF After, Before
      <4> QED
        BY <2>3, <3>4, <3>5
    <3>2. content' + delay'[t] <= Round
      BY <3>6
    <3>3. place'[u] = "first" => content' + delay'[u] <= Round
      BY <2>1, <2>2, <2>3, <2>4, <3>1
    <3> QED
      BY <3>2, <3>3
  <2> HIDE DEF Round
  <2>6. \A w \in {2, 3} : place'[w] = "first" => content' + delay'[w] <= Round
    BY <1>0, <2>5
  <2> QED
    BY <2>6 DEF TakersFirst, Round
<1>f. object = "made" => ~(turns[1] = 0 /\ place[1] # "second")
  BY <1>t, <1>n DEF SemaphorePlaces
<1>2. FirstRound'
  <2>1. CASE t = 2 /\ u = 3
    <3>1. /\ delay'[2] = 1 /\ delay[2] = 0 /\ delay'[3] = delay[3]
          /\ turns'[3] = turns[3] /\ (object = "made" => turns'[2] = turns[2] + 1)
      BY <1>n, <2>1
    <3>2. CASE ~(AllRun' /\ object' = "made")
      BY <3>2 DEF FirstRound
    <3>3. CASE AllRun' /\ object' = "made"
      <4>1. /\ AllRun /\ object = "made" /\ content > 0 /\ content' = content - 1
            /\ turns'[2] + turns'[3] + content' = turns[2] + turns[3] + content
        BY <1>t, <1>n, <1>r, <3>1, <3>3
      <4>2. turns[1] = 0 /\ place[1] = "second" => turns[2] + turns[3] + content <= 1
        BY <1>t, <4>1 DEF FirstRound
      <4>3. turns[1] = 1 /\ place[1] = "first" =>
              /\ turns[2] + turns[3] + content <= 2
              /\ delay[1] = Second - 1 => content <= (1 - delay[2]) + (1 - delay[3])
              /\ ~(delay[1] <= Second - 2)
        BY <1>t, <4>1 DEF FirstRound
      <4>4. content' <= (1 - delay'[2]) + (1 - delay'[3]) <=> content <= (1 - delay[2]) + (1 - delay[3])
        BY <1>t, <1>n, <3>1, <4>1
      <4> QED
        BY <4>1, <4>2, <4>3, <4>4 DEF FirstRound
    <3> QED
      BY <3>2, <3>3
  <2>2. CASE t = 3 /\ u = 2
    <3>1. /\ delay'[3] = 1 /\ delay[3] = 0 /\ delay'[2] = delay[2]
          /\ turns'[2] = turns[2] /\ (object = "made" => turns'[3] = turns[3] + 1)
      BY <1>n, <2>2
    <3>2. CASE ~(AllRun' /\ object' = "made")
      BY <3>2 DEF FirstRound
    <3>3. CASE AllRun' /\ object' = "made"
      <4>1. /\ AllRun /\ object = "made" /\ content > 0 /\ content' = content - 1
            /\ turns'[2] + turns'[3] + content' = turns[2] + turns[3] + content
        BY <1>t, <1>n, <1>r, <3>1, <3>3
      <4>2. turns[1] = 0 /\ place[1] = "second" => turns[2] + turns[3] + content <= 1
        BY <1>t, <4>1 DEF FirstRound
      <4>3. turns[1] = 1 /\ place[1] = "first" =>
              /\ turns[2] + turns[3] + content <= 2
              /\ delay[1] = Second - 1 => content <= (1 - delay[2]) + (1 - delay[3])
              /\ ~(delay[1] <= Second - 2)
        BY <1>t, <4>1 DEF FirstRound
      <4>4. content' <= (1 - delay'[2]) + (1 - delay'[3]) <=> content <= (1 - delay[2]) + (1 - delay[3])
        BY <1>t, <1>n, <3>1, <4>1
      <4> QED
        BY <4>1, <4>2, <4>3, <4>4 DEF FirstRound
    <3> QED
      BY <3>2, <3>3
  <2> QED
    BY <1>0, <2>1, <2>2
<1>3. LaterRounds'
  <2>1. CASE t = 2 /\ u = 3
    BY <1>t, <1>n, <1>r, <1>f, <2>1 DEF LaterRounds, Apart
  <2>2. CASE t = 3 /\ u = 2
    BY <1>t, <1>n, <1>r, <1>f, <2>2 DEF LaterRounds, Apart
  <2> QED
    BY <1>0, <2>1, <2>2
<1>4. InStep'
  <2>1. CASE t = 2 /\ u = 3
    <3>1. /\ delay'[2] = 1 /\ delay[2] = 0 /\ delay'[3] = delay[3]
          /\ turns'[3] = turns[3] /\ (object = "made" => turns'[2] = turns[2] + 1)
      BY <1>n, <2>1
    <3>2. CASE ~(AllRun' /\ missed' = {})
      BY <3>2 DEF InStep
    <3>3. CASE AllRun' /\ missed' = {}
      <4>1. AllRun /\ object = "made" /\ missed = {} /\ content > 0 /\ content' = content - 1
        BY <1>t, <1>m, <1>r, <3>3
      <4>2. ~(turns[1] = 0 /\ place[1] # "second")
        BY <1>f, <4>1
      <4>3. place[1] = "second" =>
              /\ content' = 1 - delay'[2] - delay'[3]
              /\ turns'[2] = turns[1] + delay'[2] /\ turns'[3] = turns[1] + delay'[3]
        BY <1>t, <1>n, <3>1, <4>1 DEF InStep
      <4>4. turns[1] >= 1 /\ place[1] = "first" => ~(delay[1] < Second)
        BY <1>t, <4>1 DEF InStep
      <4>5. turns[1] >= 1 /\ place[1] = "first" /\ delay[1] = Second =>
              /\ content' = 2 - delay'[2] - delay'[3]
              /\ turns'[2] = turns[1] - 1 + delay'[2] /\ turns'[3] = turns[1] - 1 + delay'[3]
        BY <1>t, <1>n, <3>1, <4>1 DEF InStep
      <4> QED
        BY <4>1, <4>2, <4>3, <4>4, <4>5 DEF InStep
    <3> QED
      BY <3>2, <3>3
  <2>2. CASE t = 3 /\ u = 2
    <3>1. /\ delay'[3] = 1 /\ delay[3] = 0 /\ delay'[2] = delay[2]
          /\ turns'[2] = turns[2] /\ (object = "made" => turns'[3] = turns[3] + 1)
      BY <1>n, <2>2
    <3>2. CASE ~(AllRun' /\ missed' = {})
      BY <3>2 DEF InStep
    <3>3. CASE AllRun' /\ missed' = {}
      <4>1. AllRun /\ object = "made" /\ missed = {} /\ content > 0 /\ content' = content - 1
        BY <1>t, <1>m, <1>r, <3>3
      <4>2. ~(turns[1] = 0 /\ place[1] # "second")
        BY <1>f, <4>1
      <4>3. place[1] = "second" =>
              /\ content' = 1 - delay'[2] - delay'[3]
              /\ turns'[2] = turns[1] + delay'[2] /\ turns'[3] = turns[1] + delay'[3]
        BY <1>t, <1>n, <3>1, <4>1 DEF InStep
      <4>4. turns[1] >= 1 /\ place[1] = "first" => ~(delay[1] < Second)
        BY <1>t, <4>1 DEF InStep
      <4>5. turns[1] >= 1 /\ place[1] = "first" /\ delay[1] = Second =>
              /\ content' = 2 - delay'[2] - delay'[3]
              /\ turns'[2] = turns[1] - 1 + delay'[2] /\ turns'[3] = turns[1] - 1 + delay'[3]
        BY <1>t, <1>n, <3>1, <4>1 DEF InStep
      <4> QED
        BY <4>1, <4>2, <4>3, <4>4, <4>5 DEF InStep
    <3> QED
      BY <3>2, <3>3
  <2> QED
    BY <1>0, <2>1, <2>2
<1> QED
  BY <1>1, <1>b, <1>2, <1>3, <1>4 DEF SemaphoreInv

(* A tick passes only when each of the two has slept or there is nothing   *)
(* to take: after it the round is over, but for what the first one left.   *)
LEMMA TickPasses == ASSUME KernelInv, example = "A5", Tick PROVE SemaphoreInv'
<1>t. /\ \A t \in 1..3 : turns[t] \in Nat /\ delay[t] \in Nat /\ place[t] # "inside"
      /\ content \in Nat /\ Second \in Nat /\ Second > 1
      /\ place[2] # "second" /\ place[3] # "second"
      /\ SemaphorePlaces /\ FirstRound /\ LaterRounds /\ InStep
  BY SemaphoreTypes
<1>n. /\ turns[1] \in Nat /\ turns[2] \in Nat /\ turns[3] \in Nat
      /\ delay[1] \in Nat /\ delay[2] \in Nat /\ delay[3] \in Nat
  BY <1>t
<1>u. UNCHANGED <<example, toCreate, object, content, place, turns, unlocked, missed>> /\ toCreate = <<>>
  BY DEF Tick
<1>d. /\ delay'[1] = (IF delay[1] > 0 THEN delay[1] - 1 ELSE 0)
      /\ delay'[2] = (IF delay[2] > 0 THEN delay[2] - 1 ELSE 0)
      /\ delay'[3] = (IF delay[3] > 0 THEN delay[3] - 1 ELSE 0)
  BY DEF Tick, Workers
<1>p. place[1] # "none" /\ place[2] # "none" /\ place[3] # "none"
  BY <1>u, Distinct DEF KernelInv, NotYet, Object
<1>z. delay'[2] = 0 /\ delay'[3] = 0 /\ delay[2] \in {0, 1} /\ delay[3] \in {0, 1}
  BY <1>t, <1>n, <1>d DEF SemaphorePlaces
<1>s. AllRun => place[1] = "first" /\ delay[1] > 0 /\ delay'[1] = delay[1] - 1
  <2>1. AllRun => delay[1] > 0
    BY <1>n, <1>p DEF Tick, Ready, AllRun, Workers
  <2> QED
    BY <1>t, <1>n, <1>d, <2>1 DEF SemaphorePlaces
<1>w. AllRun /\ object = "made" => content = 0 \/ (delay[2] = 1 /\ delay[3] = 1)
  <2>1. AllRun /\ object = "made" => content = 0 \/ delay[2] # 0
    BY <1>t, <1>n, <1>p DEF Tick, Ready, AllRun, Workers
  <2>2. AllRun /\ object = "made" => content = 0 \/ delay[3] # 0
    BY <1>t, <1>n, <1>p DEF Tick, Ready, AllRun, Workers
  <2> QED
    BY <1>z, <2>1, <2>2
<1>r. AllRun' => AllRun
  BY <1>u DEF AllRun
<1>1. SemaphorePlaces'
  BY <1>t, <1>n, <1>u, <1>d, <1>z DEF SemaphorePlaces
<1>k. AllRun => turns[1] >= 1
  BY <1>t, <1>n, <1>s DEF SemaphorePlaces
<1>b. TakersFirst'
  <2>1. SUFFICES ASSUME NEW t \in {2, 3}, place[t] = "first"
                 PROVE  content <= 1 + (IF place[1] = "second" THEN 1 ELSE 0)
                                     + (IF delay'[1] = Second THEN 2
                                        ELSE IF delay'[1] = Second - 1 THEN 1 ELSE 0)
    <3>1. \A t \in {2, 3} : delay'[t] = 0 /\ content + 0 = content
      BY <1>t, <1>z
    <3> QED
      BY <1>u, <3>1 DEF TakersFirst
  <2>2. content = 0 \/ delay[t] = 1
    <3>1. ~Ready(t)
      BY DEF Tick, Workers
    <3>2. object # "made" => content = 0
      BY <1>t DEF SemaphorePlaces
    <3> QED
      BY <1>t, <1>z, <2>1, <3>1, <3>2 DEF Ready
  <2>3. content + delay[t] <= 1 + (IF place[1] = "second" THEN 1 ELSE 0)
                                + (IF delay[1] = Second THEN 2
                                   ELSE IF delay[1] = Second - 1 THEN 1 ELSE 0)
    BY <2>1, SemaphoreTypes DEF TakersFirst
  <2>4. delay[1] <= Second /\ (place[1] = "second" => delay[1] = 0)
    BY <1>t DEF SemaphorePlaces
  <2> QED
    BY <1>t, <1>n, <1>d, <2>2, <2>3, <2>4
<1>2. FirstRound'
  <2>1. CASE ~(AllRun' /\ object' = "made" /\ turns[1] = 1)
    BY <1>u, <1>s, <1>r, <1>k, <2>1 DEF FirstRound
  <2>2. CASE AllRun' /\ object' = "made" /\ turns[1] = 1
    <3>1. /\ turns[2] + turns[3] + content <= 2
          /\ delay[1] = Second - 1 => content <= (1 - delay[2]) + (1 - delay[3])
          /\ delay[1] <= Second - 2 => content = 0
      BY <1>t, <1>u, <1>r, <1>s, <2>2 DEF FirstRound
    <3>2. content' \in 0..2 /\ (delay'[1] <= Second - 2 => content' = 0)
      <4>1. delay[1] <= Second
        BY <1>t DEF SemaphorePlaces
      <4>2. /\ AllRun /\ delay[1] > 0 /\ delay'[1] = delay[1] - 1 /\ content' = content
            /\ content = 0 \/ (delay[2] = 1 /\ delay[3] = 1)
        BY <1>u, <1>r, <1>s, <1>w, <2>2
      <4> QED
        BY <1>t, <1>n, <3>1, <4>1, <4>2
    <3>3. turns'[1] # 0 /\ turns'[2] + turns'[3] + content' <= 2 /\ delay'[2] = 0 /\ delay'[3] = 0
      BY <1>u, <1>z, <2>2, <3>1
    <3> QED
      BY <3>2, <3>3 DEF FirstRound
  <2> QED
    BY <2>1, <2>2
<1>3. LaterRounds'
  <2>1. CASE ~(AllRun' /\ object' = "made" /\ turns[1] >= 2)
    BY <1>u, <1>s, <1>r, <1>k, <2>1 DEF LaterRounds
  <2>2. CASE AllRun' /\ object' = "made" /\ turns[1] >= 2
    <3>1. /\ Apart \in -2..2
          /\ delay[1] = Second => content = 2 - delay[2] - delay[3]
          /\ delay[1] < Second => content = 0 /\ delay[2] = 0 /\ delay[3] = 0
      BY <1>u, <1>r, <1>s, <2>2, <1>t DEF LaterRounds
    <3>0. /\ AllRun /\ delay[1] > 0 /\ delay'[1] = delay[1] - 1
          /\ content = 0 \/ (delay[2] = 1 /\ delay[3] = 1)
      BY <1>u, <1>r, <1>s, <1>w, <2>2
    <3>2. delay[2] = delay[3] /\ content = 0 /\ delay[1] <= Second
      <4>1. delay[1] <= Second
        BY <1>t DEF SemaphorePlaces
      <4> QED
        BY <1>t, <1>n, <1>z, <3>0, <3>1, <4>1
    <3>3. Apart' = Apart /\ content' = 0 /\ delay'[1] < Second
      BY <1>t, <1>n, <1>u, <1>z, <3>0, <3>2 DEF Apart
    <3>4. place'[1] # "second" /\ ~(delay'[1] = Second)
      BY <1>t, <1>n, <1>u, <1>r, <1>s, <2>2, <3>3
    <3> QED
      BY <1>z, <3>1, <3>3, <3>4 DEF LaterRounds
  <2> QED
    BY <2>1, <2>2
<1>4. InStep'
  <2>1. CASE ~(AllRun' /\ missed' = {})
    BY <2>1 DEF InStep
  <2>2. CASE AllRun' /\ missed' = {}
    <3>0. /\ AllRun /\ missed = {} /\ place[1] = "first" /\ delay[1] > 0 /\ delay'[1] = delay[1] - 1
          /\ turns[1] >= 1 /\ delay[1] <= Second
      BY <1>t, <1>u, <1>r, <1>s, <1>k, <2>2 DEF SemaphorePlaces
    <3>1. /\ object = "made"
          /\ delay[1] = Second =>
               /\ content = 2 - delay[2] - delay[3]
               /\ turns[2] = turns[1] - 1 + delay[2] /\ turns[3] = turns[1] - 1 + delay[3]
          /\ delay[1] < Second =>
               /\ content = 0 /\ delay[2] = 0 /\ delay[3] = 0
               /\ turns[2] = turns[1] /\ turns[3] = turns[1]
      BY <1>t, <3>0 DEF InStep
    <3>2. content = 0 \/ (delay[2] = 1 /\ delay[3] = 1)
      BY <1>w, <3>0, <3>1
    <3>3. content = 0 /\ turns[2] = turns[1] /\ turns[3] = turns[1]
      BY <1>t, <1>n, <1>z, <3>0, <3>1, <3>2
    <3>4. /\ object' = "made" /\ content' = 0 /\ turns'[2] = turns'[1] /\ turns'[3] = turns'[1]
          /\ place'[1] # "second" /\ ~(delay'[1] = Second)
      BY <1>t, <1>n, <1>u, <3>0, <3>1, <3>3
    <3> QED
      BY <1>z, <3>4 DEF InStep
  <2> QED
    BY <2>1, <2>2
<1> QED
  BY <1>1, <1>b, <1>2, <1>3, <1>4 DEF SemaphoreInv

(* Until the semaphore exists nothing can be taken, and no tick passes.    *)
LEMMA StartUpKeeps == ASSUME KernelInv, example = "A5", Create PROVE SemaphoreInv'
<1>t. /\ \A t \in 1..3 : turns[t] \in Nat /\ delay[t] \in Nat
      /\ content \in Nat /\ Second \in Nat /\ Second > 1
      /\ SemaphorePlaces /\ FirstRound /\ LaterRounds /\ InStep
  BY SemaphoreTypes
<1>n. /\ turns[1] \in Nat /\ turns[2] \in Nat /\ turns[3] \in Nat
      /\ delay[1] \in Nat /\ delay[2] \in Nat /\ delay[3] \in Nat
  BY <1>t
<1>u. /\ UNCHANGED <<example, content, turns, missed>>
      /\ toCreate # <<>>
  BY CreateStep
<1>o. object = "unset" /\ content = 0 /\ turns[2] = 0 /\ turns[3] = 0
  BY <1>t, <1>u DEF SemaphorePlaces
<1>1. CASE CreatesObject
  <2>1. SemaphorePlaces'
    <3>1. object' # "unset" /\ toCreate' = <<>> /\ place' = place /\ delay' = delay
      BY <1>1 DEF CreatesObject
    <3>2. content' = content /\ turns' = turns /\ example' = example
      BY <1>u
    <3> QED
      BY <1>t, <1>o, <3>1, <3>2 DEF SemaphorePlaces
  <2>2. FirstRound'
    <3>1. turns[1] > 0 => delay[1] = Second
      BY <1>t, <1>o DEF SemaphorePlaces
    <3>2. /\ turns'[1] = turns[1] /\ turns'[2] = 0 /\ turns'[3] = 0 /\ content' = 0
          /\ delay'[1] = delay[1]
      BY <1>u, <1>o, <1>1 DEF CreatesObject
    <3>3. turns'[1] = 1 => ~(delay'[1] = Second - 1) /\ ~(delay'[1] <= Second - 2)
      BY <1>t, <3>1, <3>2
    <3> QED
      BY <3>2, <3>3 DEF FirstRound
  <2>3. LaterRounds'
    BY <1>t, <1>n, <1>u, <1>o, <1>1 DEF LaterRounds, SemaphorePlaces, CreatesObject
  <2>4. InStep'
    BY <1>t, <1>n, <1>u, <1>o, <1>1 DEF InStep, SemaphorePlaces, CreatesObject, AllRun
  <2>5. TakersFirst'
    BY <1>u, <1>1, SemaphoreTypes DEF TakersFirst, CreatesObject
  <2> QED
    BY <2>1, <2>2, <2>3, <2>4, <2>5 DEF SemaphoreInv
<1>2. ASSUME NEW t \in Workers, Creates(t) PROVE SemaphoreInv'
  <2>1. PICK how \in {"first", "failed"} : place' = [place EXCEPT ![t] = how]
    BY <1>2 DEF Creates
  <2>2. FirstDelay(t) = 0
    BY DEF FirstDelay
  <2>3. KernelTypeOK
    BY DEF KernelInv, KernelTyped
  <2>4. /\ object' = "unset" /\ toCreate' # <<>> /\ place[t] = "none"
        /\ place'[t] = how /\ delay'[t] = 0
        /\ \A u \in Workers \ {t} : place'[u] = place[u] /\ delay'[u] = delay[u]
    BY <1>2, <1>o, <2>1, <2>2, <2>3 DEF Creates, KernelTypeOK
  <2>5. t = 1 => turns[1] = 0
    BY <1>t, <2>4 DEF SemaphorePlaces
  <2>6. SemaphorePlaces'
    BY <1>t, <1>n, <1>u, <1>o, <2>4, <2>5 DEF SemaphorePlaces, Workers
  <2>7. FirstRound' /\ LaterRounds'
    BY <2>4 DEF FirstRound, LaterRounds
  <2>8. InStep'
    <3>1. AllRun' => AllRun
      BY <2>4 DEF AllRun
    <3>2. t \in {1, 2, 3}
      BY DEF Workers
    <3>3. AllRun' /\ missed' = {} => turns[1] = 0 /\ place[1] # "second"
      <4>1. turns[1] > 0 => place[1] = "first"
        BY <1>t, <1>o DEF SemaphorePlaces
      <4>2. object # "made" /\ (missed' = {} => missed = {})
        BY <1>u, <1>o
      <4>3. AllRun' /\ missed' = {} => ~(place[1] = "second") /\ ~(turns[1] >= 1 /\ place[1] = "first")
        BY <1>t, <3>1, <4>2 DEF InStep
      <4> QED
        BY <1>n, <4>1, <4>3
    <3>4. AllRun' /\ missed' = {} => delay[2] = 0 /\ delay[3] = 0
      BY <1>t, <1>u, <3>1, <3>3 DEF InStep
    <3>5. place'[1] # "second" \/ place[1] = "second"
      BY <2>4, <3>2 DEF Workers
    <3>6. (delay'[2] = 0 \/ delay'[2] = delay[2]) /\ (delay'[3] = 0 \/ delay'[3] = delay[3])
      BY <2>4, <3>2 DEF Workers
    <3> QED
      BY <1>u, <3>3, <3>4, <3>5, <3>6 DEF InStep
  <2>9. TakersFirst'
    <3>1. content' = 0 /\ delay'[2] \in {0, 1} /\ delay'[3] \in {0, 1}
      BY <1>t, <1>n, <1>u, <1>o, <2>4 DEF SemaphorePlaces, Workers
    <3> QED
      BY <1>t, <3>1 DEF TakersFirst
  <2> QED
    BY <2>6, <2>7, <2>8, <2>9 DEF SemaphoreInv
<1> QED
  BY <1>1, <1>2, CreateStep

(* So the rounds of A5 are kept by every step.                             *)
LEMMA SemaphoreKept == ASSUME KernelInv, [KernelNext]_kernelVars PROVE SemaphoreInv'
<1>0. KernelTypeOK /\ SemaphorePlaces /\ TakersFirst /\ FirstRound /\ LaterRounds /\ InStep
  BY DEF KernelInv, KernelTyped
<1>e. UNCHANGED example
  BY DEF KernelNext, Create, Tick, kernelVars, Run, Thread, TimerCallback, MutexAcquire,
     MutexRelease, SemaphoreThread,
     EventSenderThread, EventReceiverThread, MidPrioThread, Semaphore1Thread, MsgQueue1Thread,
     MsgQueue2Thread, rest
<1> SUFFICES ASSUME example = "A5" PROVE SemaphoreInv'
  BY <1>e DEF SemaphoreInv, SemaphorePlaces, TakersFirst, FirstRound, LaterRounds, InStep, AllRun
<1>1. CASE Semaphore1Thread
  <2>1. CASE At("A5", 1, "first") /\ Move(1, "second", 0) /\ UNCHANGED turns
    <3>1. /\ place'[1] = "second" /\ delay'[1] = 0 /\ place[1] = "first" /\ delay[1] = 0
          /\ place'[2] = place[2] /\ place'[3] = place[3] /\ delay'[2] = delay[2] /\ delay'[3] = delay[3]
      BY <1>0, <2>1 DEF At, Move, KernelTypeOK, Workers
    <3> QED
      BY <1>1, <1>e, <2>1, <3>1, FirstRelease DEF Semaphore1Thread, Released, rest
  <2>2. CASE At("A5", 1, "second") /\ Move(1, "first", Second) /\ Turn(1)
    <3>1. /\ place'[1] = "first" /\ delay'[1] = Second /\ place[1] = "second"
          /\ place'[2] = place[2] /\ place'[3] = place[3] /\ delay'[2] = delay[2] /\ delay'[3] = delay[3]
          /\ turns'[1] = turns[1] + 1 /\ turns'[2] = turns[2] /\ turns'[3] = turns[3]
      BY <1>0, <2>2 DEF At, Move, Turn, KernelTypeOK, Workers
    <3> QED
      BY <1>1, <1>e, <2>2, <3>1, SecondRelease DEF Semaphore1Thread, Released, rest
  <2> QED
    BY <1>1, <2>1, <2>2 DEF Semaphore1Thread
<1>2. ASSUME NEW t \in {2, 3}, SemaphoreThread(t) PROVE SemaphoreInv'
  <2>1. PICK u \in {2, 3} : u # t
    OBVIOUS
  <2>2. /\ place'[t] = "first" /\ delay'[t] = 1 /\ place[t] = "first" /\ delay[t] = 0
        /\ place'[1] = place[1] /\ place'[u] = place[u] /\ delay'[1] = delay[1] /\ delay'[u] = delay[u]
    BY <1>0, <1>2, <2>1 DEF SemaphoreThread, At, Move, KernelTypeOK, Workers
  <2>3. /\ turns'[1] = turns[1] /\ turns'[u] = turns[u]
        /\ IF object = "made"
           THEN content > 0 /\ content' = content - 1 /\ turns'[t] = turns[t] + 1 /\ UNCHANGED missed
           ELSE missed' = missed \cup {object} /\ UNCHANGED content /\ turns'[t] = turns[t]
    BY <1>0, <1>2, <2>1 DEF SemaphoreThread, Turn, KernelTypeOK, Workers
  <2> QED
    BY <1>2, <1>e, <2>1, <2>2, <2>3, Acquired DEF SemaphoreThread, rest
<1>3. CASE UNCHANGED kernelVars
  BY <1>0, <1>3 DEF kernelVars, SemaphoreInv, SemaphorePlaces, TakersFirst, FirstRound, LaterRounds, InStep,
     AllRun, Apart
<1>4. CASE Run
  <2>1. Semaphore1Thread \/ \E t \in {2, 3} : SemaphoreThread(t)
    BY <1>4 DEF Run, Thread, TimerCallback, MutexAcquire, MutexRelease, SemaphoreThread,
       EventSenderThread,
       EventReceiverThread, MidPrioThread, MsgQueue1Thread, MsgQueue2Thread, At
  <2> QED
    BY <1>1, <1>2, <2>1
<1> QED
  BY <1>3, <1>4, TickPasses, StartUpKeeps DEF KernelNext

(* The invariant of the kernel examples.                                   *)
LEMMA KernelInvariant == KernelSpec => []KernelInv
<1>1. KernelInv /\ [KernelNext]_kernelVars => KernelInv'
  BY TypesKept, SectionKept, ReceiverKept, SemaphoreKept DEF KernelInv, SemaphoreInv
<1> QED
  BY <1>1, KernelBegins, PTL DEF KernelSpec

(* The variables of the kernel examples have their types.                  *)
THEOREM KernelTypeCorrect == KernelSpec => []KernelTypeOK
<1>1. KernelInv => KernelTypeOK
  BY DEF KernelInv, KernelTyped
<1> QED
  BY <1>1, KernelInvariant, PTL

(* The objects of A3 to A6 serve: A4's section has one owner but for       *)
(* threads that came before the mutex, receivers keep up with what is      *)
(* given, and A5's two threads go on once a round, together if none came   *)
(* too early and never more than two turns apart.                          *)
THEOREM KernelServes == KernelSpec => []ObjectsServe
<1>1. KernelInv => OneInSection
  <2> SUFFICES ASSUME KernelInv, example = "A4" PROVE OneInSection
    BY DEF OneInSection
  <2>1. \A t \in {1, 3} : place[t] = "inside" => (t \in unlocked <=> content # t)
    BY DEF KernelInv, SectionOwned
  <2> QED
    BY <2>1 DEF OneInSection
<1>2. KernelInv => ReceiversKeepUp
  <2> SUFFICES ASSUME KernelInv, At("A5", 1, "first"), "failed" \notin { place[t] : t \in Workers }, toCreate = <<>>
               PROVE  /\ turns[2] - turns[3] \in -2..2
                      /\ missed = {} => turns[2] = turns[1] /\ turns[3] = turns[1]
    BY DEF ReceiversKeepUp, KernelInv
  <2>t. /\ \A t \in 1..3 : turns[t] \in Nat /\ delay[t] \in Nat
        /\ Second \in Nat /\ Second > 1 /\ content \in Nat
        /\ SemaphorePlaces /\ FirstRound /\ LaterRounds /\ InStep
    BY SemaphoreTypes DEF At
  <2>n. /\ turns[1] \in Nat /\ turns[2] \in Nat /\ turns[3] \in Nat /\ delay[1] = 0 /\ place[1] = "first"
        /\ example = "A5"
    BY <2>t DEF At
  <2>1. AllRun
    BY <2>n DEF AllRun
  <2>2. turns[1] = 0 => turns[2] = 0 /\ turns[3] = 0
    BY <2>t, <2>n DEF SemaphorePlaces
  <2>3. object # "made" => turns[2] = 0 /\ turns[3] = 0
    BY <2>t, <2>n DEF SemaphorePlaces
  <2>4. turns[2] - turns[3] \in -2..2
    <3>1. CASE turns[1] = 1 /\ object = "made"
      BY <2>t, <2>n, <2>1, <3>1 DEF FirstRound
    <3>2. CASE turns[1] >= 2 /\ object = "made"
      BY <2>t, <2>n, <2>1, <3>2 DEF LaterRounds, Apart
    <3> QED
      BY <2>n, <2>2, <2>3, <3>1, <3>2
  <2>5. missed = {} => turns[2] = turns[1] /\ turns[3] = turns[1]
    BY <2>t, <2>n, <2>1, <2>2 DEF InStep
  <2> QED
    BY <2>4, <2>5
<1> QED
  BY <1>1, <1>2, KernelInvariant, PTL DEF ObjectsServe

-----------------------------------------------------------------------------
(* The tag: the inductive invariant.                                       *)

RecordTypes == [head : {TEXT_RECORD_LEN, URI_RECORD_LEN}, text : Nat]

Whats == {"zero", "old", "start", "end", "length", "header", "head", "text"}

Bytes == [what : Whats, r : 0..Len(records), i : 0..255]

NfcTyped ==
  /\ records \in Records
  /\ tag \in [0..(NfcPages * 16 - 1) -> Bytes] /\ nfcPageBuffer \in [Offsets -> Bytes]
  /\ header \in [newRecordPtr : 0..255, mbMe : Bytes]
  /\ addPage \in [page : 0..NfcPages, usedBytes : 0..255]
  /\ payloadPtr \in 0..16 /\ addedPayload \in 0..255
  /\ faults \in 0..MaxFaults /\ returned \in Seq(BOOLEAN)

NfcPlaces ==
  /\ nfcPc \in {"store", "readHeader", "writeHeader", "load", "payload", "more", "done", "overrun"}
  /\ nth \in 1..(Len(records) + 1)
  /\ nfcPc = "done" <=> nth = Len(records) + 1
  /\ nfcPc \in {"readHeader", "writeHeader", "load", "overrun"} => nth > 1

(* The place of the end byte behind n bytes of records, or the wrapped     *)
(* place when it is the last of its page.                                  *)
EndAt(n) ==
  \/ addPage.usedBytes \in 0..14 /\ addPage.page * 16 + addPage.usedBytes = n + 2
  \/ addPage.usedBytes = 255 /\ addPage.page * 16 = n + 3

(* Whatever the length byte on the tag was, the next record begins in one  *)
(* of the first 18 pages, and a text whose count does not wrap ends in one *)
(* of the first 34: all of these the tag has.                              *)
OnTag ==
  /\ nfcPc \in {"readHeader", "writeHeader", "load"} => addPage.page <= 16
  /\ nfcPc = "payload" => addPage.page <= 17
  /\ nfcPc = "more" =>
       /\ addPage.page < NfcPages /\ addedPayload <= records[nth].text
       /\ records[nth].text <= 240 => addPage.page * 16 <= 272 + addedPayload

FaultsReported == TextsCounted => \A r \in DOMAIN returned : ~returned[r] => faults > 0

(* Byte o of record r, and that a byte is right at its place on the tag.   *)
MarksOf(row, r) == (IF r = 1 THEN MB ELSE 0) + (IF r = Len(row) THEN ME ELSE 0)

ByteOf(row, r, o) ==
  IF o = 0 THEN Byte("header", r, MarksOf(row, r))
  ELSE IF o = 2 THEN Byte("length", r, (row[r].text + row[r].head - 4) % 256)
  ELSE IF o < row[r].head THEN Byte("head", r, o)
  ELSE Byte("text", r, o - row[r].head)

Right(row, b, byte) ==
  \A r \in 1..Len(row) : \A o \in 0..(Size(row[r]) - 1) :
    Totals(row)[r - 1] + 2 + o = b => byte = ByteOf(row, r, o)

RightTo(row, memory, n) == \A b \in 3..(n - 1) : Right(row, b, memory[b])

(* The first three bytes, with k records: the first one's header ends the  *)
(* records as long as it is alone.                                         *)
StartRight(row, memory, k) ==
  /\ memory[0] = Start /\ memory[1] = Length(Totals(row)[k])
  /\ memory[2] = Byte("header", 1, IF k = 1 THEN MB + ME ELSE MB)

(* The tag as it is once the buffer is written to its page.                *)
Seen ==
  [b \in 0..(addPage.page * 16 + 15) |->
     IF b < addPage.page * 16 THEN tag[b] ELSE nfcPageBuffer[b - addPage.page * 16]]

RecordsKept ==
  nfcPc \in {"store", "readHeader", "writeHeader", "done"} /\ nth > 1 =>
    /\ StartRight(records, tag, nth - 1) /\ RightTo(records, tag, TotalTo[nth - 1] + 2)
    /\ tag[TotalTo[nth - 1] + 2] = End

PlaceFound ==
  nfcPc \in {"readHeader", "writeHeader", "load"} => EndAt(TotalTo[nth - 1])

HeaderRead ==
  nfcPc = "writeHeader" =>
    header = [newRecordPtr |-> TotalTo[nth - 1], mbMe |-> Byte("header", 1, MB)]

HeaderWritten ==
  nfcPc = "load" => StartRight(records, tag, nth) /\ RightTo(records, tag, TotalTo[nth - 1] + 2)

HeadInBuffer ==
  nfcPc = "payload" =>
    /\ addPage.page * 16 + payloadPtr = TotalTo[nth - 1] + 2 + records[nth].head
    /\ StartRight(records, Seen, nth) /\ RightTo(records, Seen, addPage.page * 16 + payloadPtr)

PagesWritten ==
  nfcPc = "more" =>
    /\ addPage.page * 16 + 16 = TotalTo[nth - 1] + 2 + records[nth].head + addedPayload
    /\ StartRight(records, tag, nth) /\ RightTo(records, tag, addPage.page * 16 + 16)

Overrun == nfcPc = "overrun" => (TotalTo[nth - 1] + 3) % 16 = 0

NfcRight ==
  TextsCounted /\ faults = 0 =>
    /\ RecordsKept /\ PlaceFound /\ HeaderRead /\ HeaderWritten
    /\ HeadInBuffer /\ PagesWritten /\ Overrun

NfcInv == NfcTyped /\ NfcPlaces /\ OnTag /\ FaultsReported /\ NfcRight

-----------------------------------------------------------------------------
(* Rows of records.  The total is counted as far as any record.            *)
LEMMA TotalsAre ==
  ASSUME NEW row \in Seq(RecordTypes)
  PROVE  /\ Totals(row)[0] = 0
         /\ \A r \in 1..Len(row) : Totals(row)[r] = Totals(row)[r - 1] + Size(row[r])
<1> DEFINE Sum(n, f) == f = [r \in 0..n |-> IF r = 0 THEN 0 ELSE f[r - 1] + Size(row[r])]
           Wrong == { n \in 0..Len(row) : ~\E f : Sum(n, f) }
           total == CHOOSE f : Sum(Len(row), f)
<1>0. Len(row) \in Nat
  OBVIOUS
<1>1. \E f : Sum(0, f)
  <2> DEFINE f == [r \in 0..0 |-> 0]
  <2>1. Sum(0, f)
    OBVIOUS
  <2> QED
    BY <2>1
<1>2. ASSUME NEW n \in 1..Len(row), NEW g, Sum(n - 1, g) PROVE \E f : Sum(n, f)
  <2> DEFINE f == [r \in 0..n |-> IF r = n THEN g[n - 1] + Size(row[n]) ELSE g[r]]
  <2>1. ASSUME NEW r \in 0..n PROVE f[r] = IF r = 0 THEN 0 ELSE f[r - 1] + Size(row[r])
    <3>1. CASE r = n
      <4>1. n - 1 \in 0..n /\ n - 1 # n /\ r # 0
        BY <3>1
      <4> QED
        BY <3>1, <4>1
    <3>2. CASE r # n
      <4>1. r \in 0..(n - 1) /\ f[r] = g[r]
        BY <3>2
      <4>2. g[r] = IF r = 0 THEN 0 ELSE g[r - 1] + Size(row[r])
        BY <1>2, <4>1
      <4>3. r # 0 => f[r - 1] = g[r - 1]
        BY <4>1
      <4> QED
        BY <4>1, <4>2, <4>3
    <3> QED
      BY <3>1, <3>2
  <2>2. f = [r \in 0..n |-> f[r]]
    OBVIOUS
  <2> HIDE DEF f
  <2>3. Sum(n, f)
    BY <2>1, <2>2
  <2> QED
    BY <2>3
<1>s. \A n : n \in Wrong <=> n \in 0..Len(row) /\ ~\E f : Sum(n, f)
  OBVIOUS
<1>w. Wrong \subseteq Nat
  BY <1>0
<1>t. Totals(row) = total
  BY DEF Totals
<1> HIDE DEF Wrong, Sum
<1>3. ASSUME NEW n \in Wrong PROVE n - 1 \in Wrong
  <2>1. n \in 1..Len(row) /\ ~\E f : Sum(n, f)
    BY <1>0, <1>1, <1>s
  <2>2. ~\E g : Sum(n - 1, g)
    BY <1>2, <2>1
  <2>3. n - 1 \in 0..Len(row)
    BY <1>0, <2>1
  <2> QED
    BY <1>s, <2>2, <2>3
<1>4. Wrong = {}
  BY <1>w, <1>3, NoDescent
<1>5. \E f : Sum(Len(row), f)
  BY <1>0, <1>4, <1>s
<1>6. Sum(Len(row), total)
  BY <1>5
<1> HIDE DEF total
<1>7. total = [r \in 0..Len(row) |-> IF r = 0 THEN 0 ELSE total[r - 1] + Size(row[r])]
  BY <1>6 DEF Sum
<1> QED
  BY <1>0, <1>7, <1>t

(* A row has at least one record; each has a head and follows the one      *)
(* before it, and all of them fit.                                         *)
RowOK(row) ==
  /\ Len(row) \in Nat \ {0} /\ Totals(row)[0] = 0
  /\ \A r \in 0..Len(row) : Totals(row)[r] \in Nat
  /\ \A r \in 1..Len(row) :
       /\ row[r].head \in {5, 7} /\ row[r].text \in Nat
       /\ Totals(row)[r] = Totals(row)[r - 1] + row[r].head + row[r].text
  /\ \A r, s \in 0..Len(row) : r <= s => Totals(row)[r] <= Totals(row)[s]
  /\ Totals(row)[Len(row)] < 256 /\ Totals(row)[Len(row)] + 2 < NfcPages * 16

(* All of this for every row the application may store.                    *)
LEMMA RowsOK == ASSUME NEW row \in Records PROVE RowOK(row)
<1> DEFINE T == Totals(row)
           L == Len(row)
           Less == { r \in 0..L : T[r] \notin Nat }
<1>1. row \in Seq(RecordTypes) /\ row # <<>> /\ T[L] < 256
  BY NfcAssumption DEF RecordTypes, NFC_PAGE_SIZE
<1>2. L \in Nat \ {0} /\ \A r \in 1..L : row[r] \in RecordTypes
  BY <1>1
<1>3. T[0] = 0 /\ \A r \in 1..L : T[r] = T[r - 1] + Size(row[r])
  BY <1>1, TotalsAre
<1>4. \A r \in 1..L : row[r].head \in {5, 7} /\ row[r].text \in Nat
                      /\ Size(row[r]) = row[r].head + row[r].text
  BY <1>2 DEF RecordTypes, Size, TEXT_RECORD_LEN, URI_RECORD_LEN
<1> HIDE DEF T
<1>5. \A r \in 0..L : T[r] \in Nat
  <2>s. \A r : r \in Less <=> r \in 0..L /\ T[r] \notin Nat
    OBVIOUS
  <2>w. Less \subseteq Nat
    BY <1>2
  <2> HIDE DEF Less
  <2>1. ASSUME NEW n \in Less PROVE n - 1 \in Less
    <3>1. n \in 1..L /\ T[n] \notin Nat /\ n - 1 \in 0..L
      BY <1>2, <1>3, <2>s
    <3>2. T[n] = T[n - 1] + Size(row[n]) /\ Size(row[n]) \in Nat
      BY <1>3, <1>4, <3>1
    <3> QED
      BY <2>s, <3>1, <3>2
  <2>2. Less = {}
    BY <2>w, <2>1, NoDescent
  <2> QED
    BY <2>2, <2>s
<1>6. ASSUME NEW r \in 0..L PROVE \A s \in 0..L : r <= s => T[r] <= T[s]
  <2> DEFINE W == { s \in 0..L : r <= s /\ ~(T[r] <= T[s]) }
  <2>s. \A s : s \in W <=> s \in 0..L /\ r <= s /\ ~(T[r] <= T[s])
    OBVIOUS
  <2>w. W \subseteq Nat
    BY <1>2
  <2> HIDE DEF W
  <2>1. ASSUME NEW n \in W PROVE n - 1 \in W
    <3>1. n \in 0..L /\ r <= n /\ ~(T[r] <= T[n])
      BY <2>s
    <3>2. r # n
      BY <1>5, <3>1
    <3>3. n \in 1..L /\ n - 1 \in 0..L /\ r <= n - 1
      BY <1>2, <3>1, <3>2
    <3>c. n \in 1..L
      BY <3>3
    <3>d. T[n] = T[n - 1] + Size(row[n])
      BY <1>3, <3>c
    <3>e. row[n].head \in {5, 7} /\ row[n].text \in Nat /\ Size(row[n]) = row[n].head + row[n].text
      BY <1>4, <3>c
    <3>4. T[n] = T[n - 1] + Size(row[n]) /\ Size(row[n]) \in Nat
      BY <3>d, <3>e
    <3>5. ~(T[r] <= T[n - 1])
      BY <1>5, <3>1, <3>3, <3>4
    <3> QED
      BY <2>s, <3>3, <3>5
  <2>2. W = {}
    BY <2>w, <2>1, NoDescent
  <2> QED
    BY <2>2, <2>s
<1>7. \A r \in 1..L : T[r] = T[r - 1] + row[r].head + row[r].text
  <2> SUFFICES ASSUME NEW r \in 1..L PROVE T[r] = T[r - 1] + row[r].head + row[r].text
    OBVIOUS
  <2> DEFINE a == T[r - 1]  h == row[r].head  t == row[r].text
  <2>1. a \in Nat
    BY <1>2, <1>5
  <2>2. h \in Nat /\ t \in Nat /\ T[r] = a + (h + t)
    BY <1>3, <1>4
  <2> HIDE DEF a, h, t
  <2>3. T[r] = a + h + t
    BY <2>1, <2>2
  <2> QED
    BY <2>3 DEF a, h, t
<1>8. T[L] + 2 < NfcPages * 16
  <2>1. T[L] \in Nat
    BY <1>2, <1>5
  <2> QED
    BY <1>1, <2>1, NfcAssumption
<1> QED
  BY <1>1, <1>2, <1>3, <1>4, <1>5, <1>6, <1>7, <1>8 DEF RowOK, T

(* A record's head, text and place.                                        *)
LEMMA RecordOK ==
  ASSUME NEW row, RowOK(row), NEW r \in 1..Len(row)
  PROVE  /\ row[r].head \in {5, 7} /\ row[r].head \in Nat /\ row[r].text \in Nat
         /\ Totals(row)[r - 1] \in Nat /\ Totals(row)[r] \in Nat
         /\ Totals(row)[r] = Totals(row)[r - 1] + row[r].head + row[r].text
         /\ r \in 0..Len(row) /\ r - 1 \in 0..Len(row) /\ Len(row) \in Nat
         /\ Totals(row)[r] < 256 /\ Totals(row)[r] + 2 < NfcPages * 16
         /\ r > 1 => Totals(row)[r - 1] >= 5
<1>1. Len(row) \in Nat \ {0} /\ Totals(row)[0] = 0
  BY DEF RowOK
<1>2. r \in 0..Len(row) /\ r - 1 \in 0..Len(row) /\ Len(row) \in 0..Len(row) /\ r <= Len(row)
  BY <1>1
<1>3. \A q \in 0..Len(row) : Totals(row)[q] \in Nat
  BY DEF RowOK
<1>4. \A q \in 1..Len(row) :
        /\ row[q].head \in {5, 7} /\ row[q].text \in Nat
        /\ Totals(row)[q] = Totals(row)[q - 1] + row[q].head + row[q].text
  BY DEF RowOK
<1>5. /\ row[r].head \in {5, 7} /\ row[r].text \in Nat
      /\ Totals(row)[r] = Totals(row)[r - 1] + row[r].head + row[r].text
  BY <1>4
<1>6. Totals(row)[r] <= Totals(row)[Len(row)]
  BY <1>2 DEF RowOK
<1>7. Totals(row)[Len(row)] < 256 /\ Totals(row)[Len(row)] + 2 < NfcPages * 16
  BY DEF RowOK
<1>8. Totals(row)[r - 1] \in Nat /\ Totals(row)[r] \in Nat /\ Totals(row)[Len(row)] \in Nat
  BY <1>2, <1>3
<1>9. r > 1 => Totals(row)[r - 1] >= 5
  <2> SUFFICES ASSUME r > 1 PROVE Totals(row)[r - 1] >= 5
    OBVIOUS
  <2>1. 1 \in 1..Len(row) /\ 1 - 1 = 0 /\ 1 \in 0..Len(row) /\ 1 <= r - 1
    BY <1>1
  <2>2. Totals(row)[1] = 0 + row[1].head + row[1].text /\ row[1].head \in {5, 7} /\ row[1].text \in Nat
    BY <1>1, <1>4, <2>1
  <2>3. Totals(row)[1] <= Totals(row)[r - 1]
    BY <1>2, <2>1 DEF RowOK
  <2>4. Totals(row)[1] >= 5 /\ Totals(row)[1] \in Nat
    BY <2>2
  <2> QED
    BY <1>8, <2>3, <2>4
<1>n. NfcPages * 16 \in Int
  BY NfcAssumption
<1>t. Totals(row)[r] < 256 /\ Totals(row)[r] + 2 < NfcPages * 16
  BY <1>6, <1>7, <1>8, <1>n
<1>h. row[r].head \in Nat
  BY <1>5
<1> QED
  BY <1>1, <1>2, <1>5, <1>8, <1>9, <1>t, <1>h

(* A byte of one record is in no other.                                    *)
LEMMA RightHere ==
  ASSUME NEW row, RowOK(row), NEW r \in 1..Len(row), NEW o \in Nat,
         o < row[r].head + row[r].text
  PROVE  Right(row, Totals(row)[r - 1] + 2 + o, ByteOf(row, r, o))
<1> SUFFICES ASSUME NEW s \in 1..Len(row), NEW p \in 0..(Size(row[s]) - 1),
                    Totals(row)[s - 1] + 2 + p = Totals(row)[r - 1] + 2 + o
             PROVE  ByteOf(row, r, o) = ByteOf(row, s, p)
  BY DEF Right
<1>1. /\ row[s].head \in Nat /\ row[s].text \in Nat
      /\ Totals(row)[s] = Totals(row)[s - 1] + row[s].head + row[s].text
      /\ Totals(row)[s - 1] \in Nat /\ s \in 0..Len(row) /\ s - 1 \in 0..Len(row)
  BY RecordOK
<1>2. /\ row[r].head \in Nat /\ row[r].text \in Nat
      /\ Totals(row)[r] = Totals(row)[r - 1] + row[r].head + row[r].text
      /\ Totals(row)[r - 1] \in Nat /\ r \in 0..Len(row) /\ r - 1 \in 0..Len(row)
      /\ Len(row) \in Nat
  BY RecordOK
<1>3. /\ s <= r - 1 => Totals(row)[s] <= Totals(row)[r - 1]
      /\ r <= s - 1 => Totals(row)[r] <= Totals(row)[s - 1]
  BY <1>1, <1>2 DEF RowOK
<1>4. p \in Nat /\ p < row[s].head + row[s].text
  BY <1>1 DEF Size
<1>5. Totals(row)[s - 1] + p < Totals(row)[s] /\ Totals(row)[r - 1] + o < Totals(row)[r]
  <2> DEFINE a == Totals(row)[s - 1]  c == Totals(row)[r - 1]
             f == row[s].head  g == row[s].text  h == row[r].head  i == row[r].text
  <2>1. /\ a \in Nat /\ c \in Nat /\ f \in Nat /\ g \in Nat /\ h \in Nat /\ i \in Nat
        /\ Totals(row)[s] = a + f + g /\ Totals(row)[r] = c + h + i
    BY <1>1, <1>2
  <2>2. p \in Nat /\ p < f + g /\ o < h + i
    BY <1>4
  <2> HIDE DEF a, c, f, g, h, i
  <2>3. a + p < Totals(row)[s] /\ c + o < Totals(row)[r]
    BY <2>1, <2>2
  <2> QED
    BY <2>3 DEF a, c
<1>6. s = r
  <2> DEFINE a == Totals(row)[s - 1]  b == Totals(row)[s]
             c == Totals(row)[r - 1]  d == Totals(row)[r]
  <2>1. a \in Nat /\ b \in Nat /\ c \in Nat /\ d \in Nat
    BY RecordOK
  <2>2. a + p < b /\ c + o < d /\ a + 2 + p = c + 2 + o
    BY <1>5
  <2>3. (s <= r - 1 => b <= c) /\ (r <= s - 1 => d <= a)
    BY <1>3
  <2> HIDE DEF a, b, c, d
  <2>4. ~(b <= c) /\ ~(d <= a)
    BY <1>4, <2>1, <2>2
  <2> QED
    BY <1>1, <1>2, <2>3, <2>4
<1>7. p = o
  BY <1>1, <1>4, <1>6
<1> QED
  BY <1>6, <1>7

(* What is right so far stays right when bytes of a record are added.      *)
LEMMA RightFurther ==
  ASSUME NEW row, RowOK(row), NEW r \in 1..Len(row), NEW memory, NEW new, NEW n \in Nat, NEW m \in Nat,
         RightTo(row, memory, n), \A b \in 3..(n - 1) : new[b] = memory[b],
         n >= Totals(row)[r - 1] + 2, m <= Totals(row)[r] + 2,
         \A b \in n..(m - 1) : b >= 3 => new[b] = ByteOf(row, r, b - (Totals(row)[r - 1] + 2))
  PROVE  RightTo(row, new, m)
<1> SUFFICES ASSUME NEW b \in 3..(m - 1) PROVE Right(row, b, new[b])
  BY DEF RightTo
<1>1. CASE b < n
  <2>1. b \in 3..(n - 1)
    BY <1>1
  <2> QED
    BY <2>1 DEF RightTo
<1>2. CASE b >= n
  <2> DEFINE o == b - (Totals(row)[r - 1] + 2)
  <2>1. Totals(row)[r - 1] \in Nat /\ row[r].head \in Nat /\ row[r].text \in Nat
        /\ Totals(row)[r] = Totals(row)[r - 1] + row[r].head + row[r].text
    BY RecordOK
  <2>2. o \in Nat /\ o < row[r].head + row[r].text /\ Totals(row)[r - 1] + 2 + o = b
    <3> DEFINE t == Totals(row)[r - 1]  e == Totals(row)[r]  k == row[r].head + row[r].text
    <3>1. t \in Nat /\ k \in Nat /\ e = t + k
      BY <2>1
    <3>2. b \in Nat /\ b < m /\ n >= t + 2 /\ m <= e + 2
      OBVIOUS
    <3> HIDE DEF t, e, k
    <3>3. b - (t + 2) \in Nat /\ b - (t + 2) < k /\ t + 2 + (b - (t + 2)) = b
      BY <1>2, <3>1, <3>2
    <3> QED
      BY <3>3 DEF t, k
  <2>3. new[b] = ByteOf(row, r, o)
    BY <1>2
  <2> HIDE DEF o
  <2> QED
    BY <2>2, <2>3, RightHere
<1> QED
  BY <1>1, <1>2

-----------------------------------------------------------------------------
(* Bytes, pages and places.                                                *)

(* A byte's page and its place in it.                                      *)
LEMMA SixteenPlaces ==
  ASSUME NEW q \in Int, NEW b \in Int
  PROVE  /\ b \div 16 = q <=> b \in (q * 16)..(q * 16 + 15)
         /\ b \in (q * 16)..(q * 16 + 15) => b % 16 = b - q * 16
OBVIOUS

(* What the row being written says of its records.                         *)
LEMMA RowHere ==
  ASSUME NfcTyped
  PROVE  RowOK(records) /\ TotalTo = Totals(records) /\ Len(records) \in Nat \ {0}
<1>1. records \in Records
  BY DEF NfcTyped
<1>2. RowOK(records)
  BY <1>1, RowsOK
<1> QED
  BY <1>2 DEF TotalTo, RowOK

(* The bytes there are.                                                    *)
LEMMA BytesAre ==
  ASSUME Len(records) \in Nat
  PROVE  /\ Start \in Bytes /\ End \in Bytes /\ Zero \in Bytes
         /\ Start.what = "start" /\ End.what = "end" /\ Zero.what = "zero" /\ Zero # Start /\ End # Start
         /\ \A n \in Nat : Length(n) \in Bytes /\ Length(n).i = n % 256 /\ Length(n).what = "length"
         /\ Old \in Bytes
         /\ \A r \in 0..Len(records) : \A i \in 0..255 : \A w \in Whats :
              /\ Byte(w, r, i) \in Bytes /\ Byte(w, r, i).what = w /\ Byte(w, r, i).i = i
<1>1. \A r \in 0..Len(records) : \A i \in 0..255 : \A w \in Whats :
        /\ Byte(w, r, i) \in Bytes /\ Byte(w, r, i).what = w /\ Byte(w, r, i).i = i
  BY DEF Byte, Bytes
<1>2. 0 \in 0..Len(records) /\ {"old", "start", "end", "zero", "length"} \subseteq Whats
  BY DEF Whats
<1>3. \A n \in Nat : n % 256 \in 0..255
  OBVIOUS
<1>4. Start.what = "start" /\ End.what = "end" /\ Zero.what = "zero"
  BY DEF Start, End, Zero, Byte
<1>5. Start \in Bytes /\ End \in Bytes /\ Zero \in Bytes /\ Old \in Bytes
  BY <1>1, <1>2 DEF Start, End, Zero, Old
<1>6. ASSUME NEW n \in Nat PROVE Length(n) \in Bytes /\ Length(n).i = n % 256 /\ Length(n).what = "length"
  <2> DEFINE i == n % 256
  <2>1. i \in 0..255 /\ 0 \in 0..Len(records) /\ "length" \in Whats
    BY <1>2, <1>3
  <2>2. Length(n) = Byte("length", 0, i)
    BY DEF Length
  <2> HIDE DEF i
  <2>3. Byte("length", 0, i) \in Bytes /\ Byte("length", 0, i).what = "length" /\ Byte("length", 0, i).i = i
    BY <1>1, <2>1
  <2> QED
    BY <2>2, <2>3 DEF i
<1>7. Zero # Start /\ End # Start
  BY <1>4
<1> QED
  BY <1>1, <1>4, <1>5, <1>6, <1>7

(* A head is a header with its marks and the bytes of its record.          *)
LEMMA HeadIs ==
  ASSUME NfcTyped, NEW r \in 1..Len(records), NEW marks \in 0..255
  PROVE  /\ DOMAIN Head4(r, marks) = 0..(records[r].head - 1)
         /\ Head4(r, marks)[0] = Byte("header", r, marks)
         /\ \A o \in 1..(records[r].head - 1) : Head4(r, marks)[o] = ByteOf(records, r, o)
         /\ \A o \in 0..(records[r].head - 1) :
              Head4(r, marks)[o] \in Bytes /\ Head4(r, marks)[o].what # "start"
<1>1. records[r].head \in {5, 7} /\ records[r].text \in Nat /\ RowOK(records) /\ Len(records) \in Nat
  BY RowHere, RecordOK
<1> DEFINE h == records[r].head
           len == (records[r].text + records[r].head - 4) % 256
<1>2. \A o \in 0..(h - 1) : Head4(r, marks)[o] =
        IF o = 0 THEN Byte("header", r, marks) ELSE IF o = 2 THEN Byte("length", r, len) ELSE Byte("head", r, o)
  BY DEF Head4
<1>3. DOMAIN Head4(r, marks) = 0..(h - 1)
  BY DEF Head4
<1>4. \A o \in 1..(h - 1) : ByteOf(records, r, o) = IF o = 2 THEN Byte("length", r, len) ELSE Byte("head", r, o)
  BY <1>1 DEF ByteOf
<1>5. len \in 0..255 /\ h \in {5, 7}
  <2>1. records[r].text + records[r].head - 4 \in Nat
    BY <1>1
  <2>2. \A n \in Nat : n % 256 \in 0..255
    OBVIOUS
  <2> QED
    BY <1>1, <2>1, <2>2
<1>6. ASSUME NEW i \in 0..255, NEW w \in Whats PROVE Byte(w, r, i) \in Bytes /\ Byte(w, r, i).what = w
  BY <1>1 DEF Byte, Bytes
<1>7. {"header", "length", "head"} \subseteq Whats
  BY DEF Whats
<1> HIDE DEF h, len
<1>8. ASSUME NEW o \in 0..(h - 1)
      PROVE Head4(r, marks)[o] \in Bytes /\ Head4(r, marks)[o].what # "start"
  <2>1. \E w \in {"header", "length", "head"} : \E i \in 0..255 : Head4(r, marks)[o] = Byte(w, r, i)
    <3>1. o \in 0..255 /\ Head4(r, marks)[o] =
            IF o = 0 THEN Byte("header", r, marks) ELSE IF o = 2 THEN Byte("length", r, len) ELSE Byte("head", r, o)
      BY <1>2, <1>5
    <3> QED
      BY <1>5, <3>1, Zenon
  <2> QED
    BY <1>6, <1>7, <2>1
<1>9. 0 \in 0..(h - 1) /\ \A o \in 1..(h - 1) : o \in 0..(h - 1) /\ o # 0
  BY <1>5
<1>10. Head4(r, marks)[0] = Byte("header", r, marks)
  BY <1>2, <1>9
<1>11. \A o \in 1..(h - 1) : Head4(r, marks)[o] = ByteOf(records, r, o)
  BY <1>2, <1>4, <1>9
<1> QED
  BY <1>3, <1>8, <1>10, <1>11 DEF h

(* The head of a record that is not the first has the marks it keeps.      *)
LEMMA NewHeadIs ==
  ASSUME NfcTyped, nth \in 2..Len(records)
  PROVE  /\ DOMAIN NewHead = 0..(records[nth].head - 1)
         /\ \A o \in 0..(records[nth].head - 1) :
              NewHead[o] = ByteOf(records, nth, o) /\ NewHead[o] \in Bytes /\ NewHead[o].what # "start"
<1> DEFINE m == IF nth = Len(records) THEN ME ELSE 0
<1>1. Len(records) \in Nat /\ nth \in 1..Len(records) /\ nth # 1
  BY RowHere
<1>2. m \in 0..255 /\ m = MarksOf(records, nth)
  BY <1>1 DEF MarksOf, ME
<1>3. NewHead = Head4(nth, m)
  BY DEF NewHead
<1> HIDE DEF m
<1>4. /\ DOMAIN NewHead = 0..(records[nth].head - 1) /\ NewHead[0] = Byte("header", nth, m)
      /\ \A o \in 1..(records[nth].head - 1) : NewHead[o] = ByteOf(records, nth, o)
      /\ \A o \in 0..(records[nth].head - 1) : NewHead[o] \in Bytes /\ NewHead[o].what # "start"
  BY <1>1, <1>2, <1>3, HeadIs
<1>5. ByteOf(records, nth, 0) = Byte("header", nth, m)
  BY <1>2 DEF ByteOf
<1>6. records[nth].head \in {5, 7}
  BY <1>1, RowHere, RecordOK
<1>7. \A o \in 0..(records[nth].head - 1) : o = 0 \/ o \in 1..(records[nth].head - 1)
  BY <1>6
<1> QED
  BY <1>4, <1>5, <1>7

(* A text is the end of its record.                                        *)
LEMMA TextIs ==
  ASSUME NfcTyped, NEW r \in 1..Len(records), NEW i \in 0..255
  PROVE  Text(r, i) = ByteOf(records, r, records[r].head + i) /\ Text(r, i) \in Bytes /\ Text(r, i) # Start
<1>1. records[r].head \in {5, 7} /\ Len(records) \in Nat
  BY RowHere, RecordOK
<1>2. Text(r, i) = Byte("text", r, i)
  BY DEF Text
<1>3. "text" \in Whats /\ r \in 0..Len(records)
  BY <1>1 DEF Whats
<1>4. Byte("text", r, i) \in Bytes /\ Byte("text", r, i).what = "text" /\ Start.what = "start"
  BY <1>3 DEF Byte, Bytes, Start
<1>5. ByteOf(records, r, records[r].head + i) = Byte("text", r, i)
  <2>1. CASE records[r].head = 5
    BY <2>1 DEF ByteOf
  <2>2. CASE records[r].head = 7
    BY <2>2 DEF ByteOf
  <2> QED
    BY <1>1, <2>1, <2>2
<1> QED
  BY <1>2, <1>4, <1>5

(* A page that is read.                                                    *)
LEMMA PageIs ==
  ASSUME NfcTyped, NEW p \in 0..(NfcPages - 1)
  PROVE  /\ PageOf(p) \in [Offsets -> Bytes]
         /\ \A o \in Offsets : PageOf(p)[o] = tag[p * 16 + o]
         /\ \A o \in Offsets : p * 16 + o \in 0..(NfcPages * 16 - 1)
<1>1. tag \in [0..(NfcPages * 16 - 1) -> Bytes] /\ NfcPages \in Nat
  BY NfcAssumption DEF NfcTyped
<1>2. \A o \in Offsets : p * 16 + o \in 0..(NfcPages * 16 - 1)
  BY <1>1 DEF Offsets, NFC_PAGE_SIZE
<1>3. \A o \in Offsets : PageOf(p)[o] = tag[p * 16 + o]
  BY DEF PageOf, NFC_PAGE_SIZE
<1>4. \A o \in Offsets : PageOf(p)[o] \in Bytes
  BY <1>1, <1>2, <1>3
<1>5. PageOf(p) = [o \in Offsets |-> PageOf(p)[o]]
  BY DEF PageOf
<1> QED
  BY <1>2, <1>3, <1>4, <1>5

(* A page that is written.                                                 *)
LEMMA PageWritten ==
  ASSUME NfcTyped, NEW p \in 0..(NfcPages - 1), NEW page, page \in [Offsets -> Bytes], WritePage(p, page)
  PROVE  /\ tag' \in [0..(NfcPages * 16 - 1) -> Bytes]
         /\ \A b \in 0..(NfcPages * 16 - 1) :
              tag'[b] = IF b \in (p * 16)..(p * 16 + 15) THEN page[b - p * 16] ELSE tag[b]
<1>1. tag \in [0..(NfcPages * 16 - 1) -> Bytes] /\ NfcPages \in Nat
  BY NfcAssumption DEF NfcTyped
<1>2. tag' = [b \in 0..(NfcPages * 16 - 1) |-> IF b \div 16 = p THEN page[b % 16] ELSE tag[b]]
  BY <1>1 DEF WritePage, NFC_PAGE_SIZE
<1>3. ASSUME NEW b \in 0..(NfcPages * 16 - 1)
      PROVE  tag'[b] = (IF b \in (p * 16)..(p * 16 + 15) THEN page[b - p * 16] ELSE tag[b]) /\ tag'[b] \in Bytes
  <2>1. tag'[b] = IF b \div 16 = p THEN page[b % 16] ELSE tag[b]
    BY <1>2
  <2>2. b \div 16 = p <=> b \in (p * 16)..(p * 16 + 15)
    BY <1>1, SixteenPlaces
  <2>3. b \in (p * 16)..(p * 16 + 15) => b % 16 = b - p * 16 /\ b - p * 16 \in Offsets
    BY <1>1, SixteenPlaces DEF Offsets, NFC_PAGE_SIZE
  <2>4. tag[b] \in Bytes
    BY <1>1
  <2> QED
    BY <2>1, <2>2, <2>3, <2>4
<1> QED
  BY <1>2, <1>3

(* What is copied over a buffer.                                           *)
LEMMA OverIs ==
  ASSUME NEW buffer, NEW from \in Int, NEW bytes, NEW n \in Int, DOMAIN bytes = 0..(n - 1)
  PROVE  /\ \A o \in Offsets : Over(buffer, from, bytes)[o] =
              IF o >= from /\ o < from + n THEN bytes[o - from] ELSE buffer[o]
         /\ \A S : (\A o \in Offsets : buffer[o] \in S) /\ (\A o \in 0..(n - 1) : bytes[o] \in S)
                     => Over(buffer, from, bytes) \in [Offsets -> S]
<1>1. \A o \in Offsets : o \in Int
  BY DEF Offsets, NFC_PAGE_SIZE
<1>2. \A o \in Offsets : Over(buffer, from, bytes)[o] =
        IF o >= from /\ o < from + n THEN bytes[o - from] ELSE buffer[o]
  <2> SUFFICES ASSUME NEW o \in Offsets
               PROVE  Over(buffer, from, bytes)[o] = IF o >= from /\ o < from + n THEN bytes[o - from] ELSE buffer[o]
    OBVIOUS
  <2>1. o - from \in 0..(n - 1) <=> o >= from /\ o < from + n
    BY <1>1
  <2>2. Over(buffer, from, bytes)[o] = IF o - from \in 0..(n - 1) THEN bytes[o - from] ELSE buffer[o]
    BY DEF Over
  <2> QED
    BY <2>1, <2>2
<1>3. ASSUME NEW S, \A o \in Offsets : buffer[o] \in S, \A o \in 0..(n - 1) : bytes[o] \in S
      PROVE  Over(buffer, from, bytes) \in [Offsets -> S]
  <2>1. \A o \in Offsets : (IF o - from \in 0..(n - 1) THEN bytes[o - from] ELSE buffer[o]) \in S
    BY <1>3
  <2>2. Over(buffer, from, bytes) =
          [o \in Offsets |-> IF o - from \in 0..(n - 1) THEN bytes[o - from] ELSE buffer[o]]
    BY DEF Over
  <2> QED
    BY <2>1, <2>2
<1> QED
  BY <1>2, <1>3

(* Where a record is put when n bytes of records are on the tag.           *)
LEMMA PlaceIs ==
  ASSUME NEW n \in 0..255, Place(n)
  PROVE  EndAt(n)' /\ addPage' \in [page : 0..16, usedBytes : 0..255]
<1> DEFINE q == (n + 3) \div 16
           o == (n + 3) % 16
<1>1. q \in Nat /\ o \in 0..15 /\ n + 3 = q * 16 + o
  OBVIOUS
<1>2. addPage' = [page |-> q, usedBytes |-> (o - 1) % 256]
  BY DEF Place, NFC_PAGE_SIZE
<1> HIDE DEF q, o
<1>3. (o - 1) % 256 = IF o = 0 THEN 255 ELSE o - 1
  BY <1>1
<1>4. q \in 0..16
  BY <1>1
<1>5. addPage'.page = q /\ addPage'.usedBytes = (o - 1) % 256
  BY <1>2
<1>6. EndAt(n)'
  BY <1>1, <1>3, <1>5 DEF EndAt
<1>7. (o - 1) % 256 \in 0..255
  BY <1>1, <1>3
<1> QED
  BY <1>2, <1>4, <1>6, <1>7

-----------------------------------------------------------------------------
(* The tag: steps.                                                         *)

(* The records do not change.                                              *)
LEMMA RowStays == records' = records => TotalTo' = TotalTo /\ Bytes' = Bytes /\ TextsCounted' = TextsCounted
BY DEF TotalTo, Bytes, TextsCounted

(* At the beginning the tag has what an earlier run left.                  *)
LEMMA NfcBegins == NfcInit => NfcInv
<1> SUFFICES ASSUME NfcInit PROVE NfcInv
  OBVIOUS
<1> USE DEF NfcInit
<1>1. RowOK(records) /\ TotalTo = Totals(records)
  BY RowsOK DEF TotalTo
<1>2. Len(records) \in Nat \ {0} /\ TotalTo[0] = 0
  BY <1>1 DEF RowOK
<1>3. Start \in Bytes /\ Zero \in Bytes /\ Old \in Bytes
  BY <1>2, BytesAre
<1>4. NfcPages \in Nat \ {0} /\ MaxFaults \in Nat
  BY NfcAssumption
<1>5. tag \in [0..(NfcPages * 16 - 1) -> Bytes]
  <2>1. TagWithout \in [0..(NfcPages * 16 - 1) -> Bytes]
    BY <1>3 DEF TagWithout, NFC_PAGE_SIZE
  <2>2. ASSUME NEW n \in OldLengths PROVE TagWith(n) \in [0..(NfcPages * 16 - 1) -> Bytes]
    <3>1. n \in Nat /\ 0 \in 0..Len(records) /\ "header" \in Whats /\ MB \in 0..255
      BY <1>2, NfcAssumption DEF Whats, MB
    <3>2. Length(n) \in Bytes /\ Byte("header", 0, MB) \in Bytes
      BY <1>2, <3>1, BytesAre
    <3> HIDE DEF NfcInit
    <3> QED
      BY <1>3, <2>1, <3>2 DEF TagWith
  <2> QED
    BY <2>1, <2>2
<1>6. nfcPageBuffer = [o \in Offsets |-> Zero] /\ nfcPageBuffer \in [Offsets -> Bytes]
  BY <1>3 DEF ZeroPage
<1>7. NfcTyped
  BY <1>3, <1>4, <1>5, <1>6 DEF NfcTyped
<1>8. NfcPlaces
  BY <1>2 DEF NfcPlaces
<1>10. OnTag /\ FaultsReported /\ NfcRight
  BY DEF OnTag, FaultsReported, NfcRight, RecordsKept, PlaceFound, HeaderRead, HeaderWritten,
         HeadInBuffer, PagesWritten, Overrun
<1> QED
  BY <1>7, <1>8, <1>10 DEF NfcInv

(* The first record of a row.                                              *)
LEMMA FirstOK ==
  ASSUME NfcTyped
  PROVE  /\ records[1].head \in {5, 7} /\ records[1].text \in Nat /\ TotalTo[1] \in Nat
         /\ TotalTo[0] = 0 /\ TotalTo[1] = records[1].head + records[1].text
         /\ TotalTo[1] < 256 /\ TotalTo[1] + 2 < NfcPages * 16 /\ 1 \in 1..Len(records)
<1>1. RowOK(records) /\ TotalTo = Totals(records) /\ Len(records) \in Nat \ {0}
  BY RowHere
<1>2. 1 \in 1..Len(records) /\ 1 - 1 = 0 /\ TotalTo[0] = 0
  BY <1>1 DEF RowOK
<1>3. /\ records[1].head \in {5, 7} /\ records[1].text \in Nat /\ TotalTo[1] \in Nat
      /\ TotalTo[1] = TotalTo[1 - 1] + records[1].head + records[1].text
      /\ TotalTo[1] < 256 /\ TotalTo[1] + 2 < NfcPages * 16
  BY <1>1, <1>2, RecordOK
<1>4. TotalTo[1] = records[1].head + records[1].text
  <2>1. records[1].head \in Nat
    BY <1>3
  <2> QED
    BY <1>2, <1>3, <2>1
<1> QED
  BY <1>2, <1>3, <1>4

(* The first record: start byte, length and its head are in the buffer.    *)
LEMMA FirstInBuffer ==
  ASSUME NfcInv, firstRecord
  PROVE  /\ nfcPageBuffer' \in [Offsets -> Bytes]
         /\ nfcPageBuffer'[0] = Start /\ nfcPageBuffer'[1] = Length(TotalTo[1])
         /\ nfcPageBuffer'[2] = Byte("header", 1, MB + ME)
         /\ \A b \in 3..(1 + records[1].head) : nfcPageBuffer'[b] = ByteOf(records, 1, b - 2)
<1> USE DEF firstRecord
<1>1. NfcTyped /\ RowOK(records) /\ TotalTo = Totals(records) /\ Len(records) \in Nat \ {0} /\ 1 \in 1..Len(records)
  BY RowHere DEF NfcInv
<1>2. /\ records[1].head \in {5, 7} /\ records[1].text \in Nat /\ TotalTo[1] \in Nat
      /\ TotalTo[0] = 0 /\ TotalTo[1] = records[1].head + records[1].text
  BY <1>1, FirstOK
<1>4. TotalTo[1] = records[1].text + records[1].head
  BY <1>2
<1> DEFINE n == records[1].head
           begun == [ZeroPage EXCEPT ![0] = Start, ![1] = Length(TotalTo[1])]
           head == Head4(1, MB + ME)
<1>5. nfcPageBuffer' = Over(begun, 2, head)
  BY <1>4
<1>6. \A o \in Offsets : begun[o] = IF o = 1 THEN Length(TotalTo[1]) ELSE IF o = 0 THEN Start ELSE Zero
  BY DEF ZeroPage, Offsets, NFC_PAGE_SIZE
<1>7. Start \in Bytes /\ Zero \in Bytes /\ Length(TotalTo[1]) \in Bytes
  BY <1>1, <1>2, BytesAre
<1>8. /\ DOMAIN head = 0..(n - 1) /\ head[0] = Byte("header", 1, MB + ME)
      /\ \A o \in 1..(n - 1) : head[o] = ByteOf(records, 1, o)
      /\ \A o \in 0..(n - 1) : head[o] \in Bytes
  <2>1. MB + ME \in 0..255
    BY DEF MB, ME
  <2> QED
    BY <1>1, <2>1, HeadIs
<1>9. n \in Int /\ n \in {5, 7} /\ 2 \in Int
  BY <1>2
<1>10. \A o \in Offsets : begun[o] \in Bytes
  BY <1>6, <1>7
<1> HIDE DEF begun, head, n
<1> HIDE DEF firstRecord
<1>11. \A o \in Offsets : nfcPageBuffer'[o] = IF o >= 2 /\ o < 2 + n THEN head[o - 2] ELSE begun[o]
  <2>1. DOMAIN head = 0..(n - 1)
    BY <1>8
  <2>2. \A o \in Offsets : Over(begun, 2, head)[o] = IF o >= 2 /\ o < 2 + n THEN head[o - 2] ELSE begun[o]
    <3> SUFFICES ASSUME NEW o \in Offsets
                 PROVE  Over(begun, 2, head)[o] = IF o >= 2 /\ o < 2 + n THEN head[o - 2] ELSE begun[o]
      OBVIOUS
    <3>1. Over(begun, 2, head)[o] = IF o - 2 \in 0..(n - 1) THEN head[o - 2] ELSE begun[o]
      BY <2>1 DEF Over
    <3>2. o \in Int
      BY DEF Offsets, NFC_PAGE_SIZE
    <3>3. o - 2 \in 0..(n - 1) <=> o >= 2 /\ o < 2 + n
      BY <1>9, <3>2
    <3> QED
      BY <3>1, <3>3
  <2> QED
    BY <1>5, <2>2
<1>t. nfcPageBuffer' \in [Offsets -> Bytes]
  BY <1>5, <1>8, <1>9, <1>10, OverIs
<1>12. \A o \in 0..8 : o \in Offsets
  BY DEF Offsets, NFC_PAGE_SIZE
<1>13. nfcPageBuffer'[0] = Start /\ nfcPageBuffer'[1] = Length(TotalTo[1])
  <2>1. 0 \in Offsets /\ 1 \in Offsets /\ ~(0 >= 2) /\ ~(1 >= 2)
    BY <1>12
  <2> QED
    BY <1>6, <1>11, <2>1
<1>14. nfcPageBuffer'[2] = Byte("header", 1, MB + ME)
  <2>1. 2 \in Offsets /\ 2 >= 2 /\ 2 < 2 + n /\ 2 - 2 = 0
    BY <1>9, <1>12
  <2> QED
    BY <1>8, <1>11, <2>1
<1>15. ASSUME NEW b \in 3..(1 + n) PROVE nfcPageBuffer'[b] = ByteOf(records, 1, b - 2)
  <2>1. b \in Offsets /\ b >= 2 /\ b < 2 + n /\ b - 2 \in 1..(n - 1)
    BY <1>9, <1>12
  <2> QED
    BY <1>8, <1>11, <2>1
<1> QED
  BY <1>t, <1>13, <1>14, <1>15 DEF n

(* After it the first record's text follows.                               *)
LEMMA FirstRecordKeeps == ASSUME NfcInv, firstRecord PROVE NfcInv'
<1> USE DEF firstRecord
<1>1. NfcTyped /\ RowOK(records) /\ TotalTo = Totals(records) /\ Len(records) \in Nat \ {0} /\ 1 \in 1..Len(records)
  BY RowHere DEF NfcInv
<1>2. /\ records[1].head \in {5, 7} /\ records[1].text \in Nat /\ TotalTo[1] \in Nat
      /\ TotalTo[1] < 256 /\ TotalTo[1] + 2 < NfcPages * 16
      /\ TotalTo[1] = records[1].head + records[1].text
  BY <1>1, FirstOK
<1>3. TotalTo[0] = 0
  BY <1>1, FirstOK
<1>4. records' = records /\ TotalTo' = TotalTo /\ Bytes' = Bytes /\ nth = 1 /\ nth' = 1 /\ nfcPc' = "payload" /\ tag' = tag
  BY RowStays
<1>5. /\ nfcPageBuffer' \in [Offsets -> Bytes]
      /\ nfcPageBuffer'[0] = Start /\ nfcPageBuffer'[1] = Length(TotalTo[1])
      /\ nfcPageBuffer'[2] = Byte("header", 1, MB + ME)
      /\ \A b \in 3..(1 + records[1].head) : nfcPageBuffer'[b] = ByteOf(records, 1, b - 2)
  BY FirstInBuffer
<1>6. addPage' \in [page : 0..NfcPages, usedBytes : 0..255] /\ addPage'.page = 0
  <2>1. addPage \in [page : 0..NfcPages, usedBytes : 0..255] /\ addPage' = [addPage EXCEPT !.page = 0]
    BY <1>1 DEF NfcTyped
  <2>2. 0 \in 0..NfcPages
    BY NfcAssumption
  <2> QED
    BY <2>1, <2>2
<1>7. payloadPtr' = 2 + records[1].head /\ payloadPtr' \in 0..16
  BY <1>2
<1>8. NfcTyped'
  BY <1>1, <1>4, <1>5, <1>6, <1>7 DEF NfcTyped
<1>9. NfcPlaces'
  BY <1>1, <1>4 DEF NfcPlaces
<1>11. OnTag'
  BY <1>4, <1>6 DEF OnTag
<1>12. FaultsReported'
  BY <1>4, RowStays DEF NfcInv, FaultsReported
<1>13. HeadInBuffer'
  <2>1. Seen' = [b \in 0..15 |-> nfcPageBuffer'[b]]
    <3>1. Seen' = [b \in 0..15 |-> IF b < 0 THEN tag'[b] ELSE nfcPageBuffer'[b - 0]]
      BY <1>6 DEF Seen
    <3> QED
      BY <3>1
  <2>2. StartRight(records, Seen', 1)
    BY <1>1, <1>5, <2>1 DEF StartRight
  <2>3. RightTo(records, Seen', 2 + records[1].head)
    <3> HIDE DEF firstRecord
    <3> SUFFICES ASSUME NEW b \in 3..((2 + records[1].head) - 1) PROVE Right(records, b, Seen'[b])
      BY DEF RightTo
    <3>1. b \in 3..(1 + records[1].head) /\ b \in 0..15 /\ b - 2 \in Nat /\ b - 2 < records[1].head + records[1].text
          /\ Totals(records)[1 - 1] + 2 + (b - 2) = b
      <4>1. b \in Int /\ b >= 3 /\ b < 2 + records[1].head /\ 1 - 1 = 0 /\ Totals(records)[0] = 0
        BY <1>1, <1>2, <1>3
      <4> HIDE DEF firstRecord
      <4> QED
        BY <1>2, <4>1
    <3>2. Seen'[b] = ByteOf(records, 1, b - 2)
      BY <1>5, <2>1, <3>1
    <3> HIDE DEF firstRecord
    <3>3. Right(records, Totals(records)[1 - 1] + 2 + (b - 2), ByteOf(records, 1, b - 2))
      BY <1>1, <3>1, RightHere
    <3> QED
      BY <3>1, <3>2, <3>3
  <2>4. addPage'.page * 16 + payloadPtr' = 2 + records[1].head /\ TotalTo[0] + 2 + records[1].head = 2 + records[1].head
    BY <1>2, <1>3, <1>6, <1>7
  <2> QED
    BY <1>4, <2>2, <2>3, <2>4 DEF HeadInBuffer
<1>14. NfcRight'
  BY <1>4, <1>13 DEF NfcRight, RecordsKept, PlaceFound, HeaderRead, HeaderWritten, PagesWritten,
     Overrun
<1> QED
  BY <1>8, <1>9, <1>11, <1>12, <1>14 DEF NfcInv

(* The record being written has its place on the tag.                      *)
LEMMA NthOK ==
  ASSUME NfcInv, nfcPc # "done"
  PROVE  /\ nth \in 1..Len(records) /\ Len(records) \in Nat /\ NfcPages \in Nat
         /\ records[nth].head \in {5, 7} /\ records[nth].head \in Nat /\ records[nth].text \in Nat
         /\ TotalTo[nth - 1] \in Nat /\ TotalTo[nth] \in Nat
         /\ TotalTo[nth] = TotalTo[nth - 1] + records[nth].head + records[nth].text
         /\ TotalTo[nth] < 256 /\ TotalTo[nth] + 2 < NfcPages * 16 /\ TotalTo[nth - 1] < 256
         /\ TotalTo[nth - 1] + 3 < NfcPages * 16
         /\ nth > 1 => TotalTo[nth - 1] >= 5
         /\ records[nth].text < 256 /\ (TextsCounted => records[nth].text <= 240)
<1>1. NfcTyped /\ NfcPlaces
  BY DEF NfcInv
<1>2. RowOK(records) /\ TotalTo = Totals(records) /\ Len(records) \in Nat /\ NfcPages \in Nat
  BY <1>1, RowHere, NfcAssumption
<1>3. nth \in 1..Len(records)
  BY <1>1, <1>2 DEF NfcPlaces
<1>4. /\ records[nth].head \in {5, 7} /\ records[nth].head \in Nat /\ records[nth].text \in Nat
      /\ TotalTo[nth - 1] \in Nat /\ TotalTo[nth] \in Nat
      /\ TotalTo[nth] = TotalTo[nth - 1] + records[nth].head + records[nth].text
      /\ TotalTo[nth] < 256 /\ TotalTo[nth] + 2 < NfcPages * 16
      /\ nth > 1 => TotalTo[nth - 1] >= 5
  BY <1>2, <1>3, RecordOK
<1>5. TotalTo[nth - 1] < 256 /\ TotalTo[nth - 1] + 3 < NfcPages * 16
  <2> DEFINE a == TotalTo[nth - 1]  b == TotalTo[nth]  h == records[nth].head  t == records[nth].text
             c == NfcPages * 16
  <2>1. a \in Nat /\ b \in Nat /\ h \in {5, 7} /\ t \in Nat /\ b = a + h + t /\ b < 256 /\ b + 2 < c /\ c \in Nat
    BY <1>2, <1>4
  <2> HIDE DEF a, b, c, h, t
  <2>2. a < 256 /\ a + 3 < c
    BY <2>1
  <2> QED
    BY <2>2 DEF a, c
<1>7. records[nth].text < 256
  <2> DEFINE a == TotalTo[nth - 1]  h == records[nth].head  t == records[nth].text  s == TotalTo[nth]
  <2>1. a \in Nat /\ h \in Nat /\ t \in Nat /\ s = a + h + t /\ s < 256
    BY <1>4
  <2> HIDE DEF a, h, t, s
  <2>2. t < 256
    BY <2>1
  <2> QED
    BY <2>2 DEF t
<1>8. TextsCounted => records[nth].text <= 240
  <2>1. records \in Seq(RecordTypes)
    BY <1>1, NfcAssumption DEF NfcTyped, RecordTypes
  <2>2. nth \in DOMAIN records
    BY <1>3, <2>1
  <2> QED
    BY <2>2 DEF TextsCounted
<1> QED
  BY <1>2, <1>3, <1>4, <1>5, <1>7, <1>8

(* The first page's length is one byte, and tells how many bytes of        *)
(* records were written if no transfer failed.                             *)
LEMMA EndRecordsIs ==
  ASSUME NfcInv, nfcPc \in {"store", "readHeader"}, nth > 1
  PROVE  /\ 0 \in 0..(NfcPages - 1) /\ PageOf(0) \in [Offsets -> Bytes]
         /\ PageOf(0)[0] = tag[0] /\ PageOf(0)[1] = tag[1] /\ PageOf(0)[2] = tag[2]
         /\ EndRecords(PageOf(0)) \subseteq 0..255
         /\ TextsCounted /\ faults = 0 =>
              /\ EndRecords(PageOf(0)) = {TotalTo[nth - 1]}
              /\ tag[0] = Start /\ tag[2] = Byte("header", 1, IF nth = 2 THEN MB + ME ELSE MB)
<1>1. NfcTyped /\ nfcPc # "done"
  BY DEF NfcInv
<1>2. /\ TotalTo[nth - 1] \in Nat /\ TotalTo[nth - 1] < 256 /\ TotalTo[nth - 1] + 3 < NfcPages * 16
      /\ NfcPages \in Nat /\ Len(records) \in Nat
  BY <1>1, NthOK
<1>3. 0 \in 0..(NfcPages - 1)
  BY <1>2
<1>4. 0 \in Offsets /\ 1 \in Offsets /\ 2 \in Offsets
  BY DEF Offsets, NFC_PAGE_SIZE
<1>5. /\ PageOf(0) \in [Offsets -> Bytes]
      /\ \A o \in Offsets : PageOf(0)[o] = tag[0 * 16 + o]
  BY <1>1, <1>3, PageIs
<1>6. PageOf(0)[0] = tag[0] /\ PageOf(0)[1] = tag[1] /\ PageOf(0)[2] = tag[2]
  <2>1. 0 * 16 + 0 = 0 /\ 0 * 16 + 1 = 1 /\ 0 * 16 + 2 = 2
    OBVIOUS
  <2> QED
    BY <1>4, <1>5, <2>1
<1>8. PageOf(0)[1].i \in 0..255
  <2>1. PageOf(0)[1] \in Bytes
    BY <1>4, <1>5
  <2> QED
    BY <2>1 DEF Bytes
<1>9. EndRecords(PageOf(0)) \subseteq 0..255
  BY <1>8 DEF EndRecords
<1>10. ASSUME TextsCounted, faults = 0
       PROVE  /\ EndRecords(PageOf(0)) = {TotalTo[nth - 1]}
              /\ tag[0] = Start /\ tag[2] = Byte("header", 1, IF nth = 2 THEN MB + ME ELSE MB)
  <2>1. StartRight(records, tag, nth - 1)
    BY <1>10 DEF NfcInv, NfcRight, RecordsKept
  <2>2. tag[0] = Start /\ tag[1] = Length(TotalTo[nth - 1])
        /\ tag[2] = Byte("header", 1, IF nth - 1 = 1 THEN MB + ME ELSE MB)
    BY <1>1, <2>1, RowHere DEF StartRight
  <2>3. Length(TotalTo[nth - 1]).i = TotalTo[nth - 1] % 256 /\ Length(TotalTo[nth - 1]).what = "length"
    BY <1>2, BytesAre
  <2>4. TotalTo[nth - 1] % 256 = TotalTo[nth - 1]
    BY <1>2
  <2>5. nth - 1 = 1 <=> nth = 2
    BY <1>1, NthOK
  <2> QED
    BY <1>6, <2>2, <2>3, <2>4, <2>5 DEF EndRecords
<1> QED
  BY <1>3, <1>5, <1>6, <1>9, <1>10

(* The place of the next record is on the tag, and behind the last one.    *)
LEMMA FindEndKeeps == ASSUME NfcInv, FindEnd PROVE NfcInv'
<1>1. NfcTyped /\ nfcPc = "store" /\ nth \in 2..Len(records) /\ nfcPc' = "readHeader"
  BY DEF NfcInv, FindEnd
<1>2. /\ records' = records /\ nth' = nth /\ tag' = tag /\ header' = header /\ payloadPtr' = payloadPtr
      /\ addedPayload' = addedPayload /\ returned' = returned /\ TotalTo' = TotalTo /\ Bytes' = Bytes
      /\ TextsCounted' = TextsCounted
  BY RowStays DEF FindEnd
<1>3. /\ nth > 1 /\ nth \in 1..Len(records) /\ Len(records) \in Nat
      /\ TotalTo[nth - 1] \in Nat /\ TotalTo[nth - 1] + 3 < NfcPages * 16 /\ NfcPages \in Nat
  BY <1>1, NthOK
<1>4. /\ PageOf(0) \in [Offsets -> Bytes] /\ 0 \in 0..(NfcPages - 1)
      /\ EndRecords(PageOf(0)) \subseteq 0..255
      /\ TextsCounted /\ faults = 0 => EndRecords(PageOf(0)) = {TotalTo[nth - 1]}
  BY <1>1, <1>3, EndRecordsIs
<1>5. PICK n \in 0..255 :
        /\ Place(n) /\ faults' \in 0..MaxFaults /\ (nfcPageBuffer' = PageOf(0) \/ nfcPageBuffer' = nfcPageBuffer)
        /\ (TextsCounted /\ faults' = 0 => faults = 0 /\ n = TotalTo[nth - 1])
        /\ (faults > 0 => faults' > 0)
  <2>1. faults \in 0..MaxFaults /\ MaxFaults \in Nat
    BY <1>1, NfcAssumption DEF NfcTyped
  <2>2. CASE ReadPage(0) /\ \E n \in EndRecords(PageOf(0)) : Place(n)
    <3>1. PICK n \in EndRecords(PageOf(0)) : Place(n)
      BY <2>2
    <3>2. n \in 0..255 /\ (TextsCounted /\ faults = 0 => n = TotalTo[nth - 1])
      BY <1>4
    <3>3. nfcPageBuffer' = PageOf(0) /\ faults' = faults
      BY <2>2 DEF ReadPage
    <3> QED
      BY <2>1, <3>1, <3>2, <3>3
  <2>3. CASE Fault /\ Place(0) /\ UNCHANGED nfcPageBuffer
    BY <1>3, <2>1, <2>3 DEF Fault
  <2> QED
    BY <2>2, <2>3 DEF FindEnd
<1>6. EndAt(n)' /\ addPage' \in [page : 0..NfcPages, usedBytes : 0..255] /\ addPage'.page <= 16
  <2>1. EndAt(n)' /\ addPage' \in [page : 0..16, usedBytes : 0..255]
    BY <1>5, PlaceIs
  <2> QED
    BY <2>1, NfcAssumption
<1>7. NfcTyped'
  BY <1>1, <1>2, <1>4, <1>5, <1>6 DEF NfcTyped
<1>8. NfcPlaces'
  BY <1>1, <1>2, <1>3 DEF NfcPlaces
<1>10. OnTag'
  BY <1>1, <1>6 DEF OnTag
<1>11. FaultsReported'
  BY <1>2, <1>5 DEF NfcInv, FaultsReported
<1>12. NfcRight'
  <2> SUFFICES ASSUME TextsCounted, faults' = 0 PROVE RecordsKept' /\ PlaceFound'
    BY <1>1, <1>2 DEF NfcRight, HeaderRead, HeaderWritten, HeadInBuffer, PagesWritten, Overrun
  <2>1. faults = 0 /\ n = TotalTo[nth - 1]
    BY <1>5
  <2>2. RecordsKept
    BY <2>1 DEF NfcInv, NfcRight
  <2>3. RecordsKept'
    BY <1>1, <1>2, <2>2 DEF RecordsKept
  <2>4. PlaceFound'
    <3>1. EndAt(TotalTo[nth - 1])'
      BY <1>6, <2>1, <1>2 DEF EndAt
    <3> QED
      BY <3>1 DEF PlaceFound
  <2> QED
    BY <2>3, <2>4
<1> QED
  BY <1>7, <1>8, <1>10, <1>11, <1>12 DEF NfcInv

(* The first header is read without its end mark.                          *)
LEMMA ReadHeaderKeeps == ASSUME NfcInv, ReadHeader PROVE NfcInv'
<1>1. NfcTyped /\ NfcPlaces /\ nfcPc = "readHeader" /\ nfcPc' = "writeHeader"
  BY DEF NfcInv, ReadHeader
<1>2. /\ records' = records /\ nth' = nth /\ tag' = tag /\ addPage' = addPage /\ payloadPtr' = payloadPtr
      /\ addedPayload' = addedPayload /\ returned' = returned /\ TotalTo' = TotalTo /\ Bytes' = Bytes
      /\ TextsCounted' = TextsCounted
  BY RowStays DEF ReadHeader
<1>3. nth > 1 /\ nth \in 1..Len(records) /\ Len(records) \in Nat /\ TotalTo[nth - 1] \in Nat /\ NfcPages \in Nat
  BY <1>1, NthOK DEF NfcPlaces
<1>4. /\ PageOf(0) \in [Offsets -> Bytes] /\ 0 \in 0..(NfcPages - 1)
      /\ PageOf(0)[0] = tag[0] /\ PageOf(0)[2] = tag[2]
      /\ EndRecords(PageOf(0)) \subseteq 0..255
      /\ TextsCounted /\ faults = 0 =>
           /\ EndRecords(PageOf(0)) = {TotalTo[nth - 1]}
           /\ tag[0] = Start /\ tag[2] = Byte("header", 1, IF nth = 2 THEN MB + ME ELSE MB)
  BY <1>1, <1>3, EndRecordsIs
<1> DEFINE mbMe == IF PageOf(0)[0] = Start THEN [PageOf(0)[2] EXCEPT !.i = MB] ELSE header.mbMe
<1>5. mbMe \in Bytes
  <2>1. 2 \in Offsets /\ MB \in 0..255
    BY DEF Offsets, NFC_PAGE_SIZE, MB
  <2>2. PageOf(0)[2] \in Bytes
    BY <1>4, <2>1
  <2>3. [PageOf(0)[2] EXCEPT !.i = MB] \in Bytes
    BY <2>1, <2>2 DEF Bytes
  <2>4. header.mbMe \in Bytes
    BY <1>1 DEF NfcTyped
  <2> QED
    BY <2>3, <2>4
<1>6. TextsCounted /\ faults = 0 => mbMe = Byte("header", 1, MB)
  <2> SUFFICES ASSUME TextsCounted, faults = 0 PROVE mbMe = Byte("header", 1, MB)
    OBVIOUS
  <2>1. mbMe = [tag[2] EXCEPT !.i = MB]
    BY <1>4
  <2>2. \E i : tag[2] = Byte("header", 1, i)
    BY <1>4
  <2> HIDE DEF mbMe
  <2> QED
    BY <2>1, <2>2 DEF Byte
<1> HIDE DEF mbMe
<1>7. PICK n \in 0..255, m \in Bytes :
        /\ header' = [newRecordPtr |-> n, mbMe |-> m] /\ faults' \in 0..MaxFaults
        /\ (nfcPageBuffer' = PageOf(0) \/ nfcPageBuffer' = nfcPageBuffer)
        /\ (TextsCounted /\ faults' = 0 =>
              faults = 0 /\ n = TotalTo[nth - 1] /\ m = Byte("header", 1, MB))
        /\ (faults > 0 => faults' > 0)
  <2>1. faults \in 0..MaxFaults /\ MaxFaults \in Nat /\ header \in [newRecordPtr : 0..255, mbMe : Bytes]
    BY <1>1, NfcAssumption DEF NfcTyped
  <2>2. CASE ReadPage(0) /\ \E k \in EndRecords(PageOf(0)) : header' = [newRecordPtr |-> k, mbMe |-> mbMe]
    <3>1. PICK k \in EndRecords(PageOf(0)) : header' = [newRecordPtr |-> k, mbMe |-> mbMe]
      BY <2>2
    <3>2. k \in 0..255 /\ (TextsCounted /\ faults = 0 => k = TotalTo[nth - 1])
      BY <1>4
    <3>3. nfcPageBuffer' = PageOf(0) /\ faults' = faults
      BY <2>2 DEF ReadPage
    <3> QED
      BY <1>5, <1>6, <2>1, <3>1, <3>2, <3>3
  <2>3. CASE Fault /\ header' = [header EXCEPT !.newRecordPtr = 0] /\ UNCHANGED nfcPageBuffer
    <3>1. 0 \in 0..255 /\ header.mbMe \in Bytes
          /\ header' = [newRecordPtr |-> 0, mbMe |-> header.mbMe]
      BY <1>3, <2>1, <2>3
    <3>2. faults' \in 0..MaxFaults /\ faults' # 0 /\ (faults > 0 => faults' > 0)
      BY <2>1, <2>3 DEF Fault
    <3> QED
      BY <2>3, <3>1, <3>2
  <2> QED
    BY <2>2, <2>3 DEF ReadHeader, mbMe
<1>8. header'.newRecordPtr = n /\ header' \in [newRecordPtr : 0..255, mbMe : Bytes]
  BY <1>3, <1>7
<1>9. NfcTyped'
  BY <1>1, <1>2, <1>4, <1>7, <1>8 DEF NfcTyped
<1>10. NfcPlaces'
  BY <1>1, <1>2, <1>3 DEF NfcPlaces
<1>12. OnTag'
  BY <1>1, <1>2 DEF NfcInv, OnTag
<1>13. FaultsReported'
  BY <1>2, <1>7 DEF NfcInv, FaultsReported
<1>14. NfcRight'
  <2> SUFFICES ASSUME TextsCounted, faults' = 0 PROVE RecordsKept' /\ PlaceFound' /\ HeaderRead'
    BY <1>2, <1>1 DEF NfcRight, HeaderWritten, HeadInBuffer, PagesWritten, Overrun
  <2>1. faults = 0 /\ n = TotalTo[nth - 1] /\ m = Byte("header", 1, MB)
    BY <1>7
  <2>2. RecordsKept /\ PlaceFound
    BY <2>1 DEF NfcInv, NfcRight
  <2>3. RecordsKept'
    BY <1>1, <1>2, <2>2 DEF RecordsKept
  <2>4. PlaceFound'
    BY <1>1, <1>2, <2>2 DEF PlaceFound, EndAt
  <2>5. HeaderRead'
    BY <1>2, <1>7, <2>1 DEF HeaderRead
  <2> QED
    BY <2>3, <2>4, <2>5
<1> QED
  BY <1>9, <1>10, <1>12, <1>13, <1>14 DEF NfcInv

(* The first page with the new header.                                     *)
NewHeader ==
  [PageOf(0) EXCEPT ![1] = Length(header.newRecordPtr + records[nth].text + records[nth].head),
                    ![2] = header.mbMe]

(* It has the record more and leaves the bytes behind as they were.        *)
LEMMA NewHeaderIs ==
  ASSUME NfcInv, nfcPc = "writeHeader"
  PROVE  /\ NewHeader \in [Offsets -> Bytes]
         /\ NewHeader[0] = tag[0] /\ NewHeader[2] = header.mbMe
         /\ \A b \in 3..15 : NewHeader[b] = tag[b]
         /\ TextsCounted /\ faults = 0 => NewHeader[1] = Length(TotalTo[nth])
<1> DEFINE n == header.newRecordPtr  t == records[nth].text  h == records[nth].head
           a == TotalTo[nth - 1]  s == TotalTo[nth]
<1>1. NfcTyped /\ nfcPc # "done"
  BY DEF NfcInv
<1>2. /\ h \in Nat /\ t \in Nat /\ a \in Nat /\ s \in Nat /\ s = a + h + t /\ s < 256
      /\ NfcPages \in Nat /\ NfcPages * 16 > 0 /\ Len(records) \in Nat
  BY <1>1, NthOK
<1>3. n \in Nat /\ (TextsCounted /\ faults = 0 => n = a) /\ header.mbMe \in Bytes
  <2>1. header \in [newRecordPtr : 0..255, mbMe : Bytes]
    BY <1>1 DEF NfcTyped
  <2>3. TextsCounted /\ faults = 0 => n = a
    <3> SUFFICES ASSUME TextsCounted, faults = 0 PROVE n = a
      OBVIOUS
    <3>1. header = [newRecordPtr |-> a, mbMe |-> Byte("header", 1, MB)]
      BY DEF NfcInv, NfcRight, HeaderRead
    <3> QED
      BY <3>1
  <2> QED
    BY <2>1, <2>3
<1> DEFINE l == n + t + h
<1>4. l \in Nat /\ (TextsCounted /\ faults = 0 => l = s)
  <2> HIDE DEF n, t, h, a, s
  <2> QED
    BY <1>2, <1>3
<1>5. 0 \in 0..(NfcPages - 1)
  BY <1>2
<1>6. PageOf(0) \in [Offsets -> Bytes] /\ \A o \in Offsets : PageOf(0)[o] = tag[0 * 16 + o]
  BY <1>1, <1>5, PageIs
<1>7. \A o \in 0..15 : o \in Offsets /\ 0 * 16 + o = o
  BY DEF Offsets, NFC_PAGE_SIZE
<1> HIDE DEF l
<1>8. Length(l) \in Bytes /\ Length(l).i = l % 256
  BY <1>2, <1>4, BytesAre
<1>9. NewHeader = [PageOf(0) EXCEPT ![1] = Length(l), ![2] = header.mbMe]
  BY DEF NewHeader, l
<1>10. NewHeader \in [Offsets -> Bytes]
  BY <1>3, <1>6, <1>8, <1>9
<1>11. \A o \in Offsets : NewHeader[o] =
         IF o = 2 THEN header.mbMe ELSE IF o = 1 THEN Length(l) ELSE PageOf(0)[o]
  BY <1>6, <1>9
<1>12. NewHeader[0] = tag[0] /\ NewHeader[1] = Length(l) /\ NewHeader[2] = header.mbMe
  <2>1. 0 \in Offsets /\ 1 \in Offsets /\ 2 \in Offsets /\ PageOf(0)[0] = tag[0]
    BY <1>6, <1>7
  <2> QED
    BY <1>11, <2>1
<1>13. \A b \in 3..15 : NewHeader[b] = tag[b]
  BY <1>6, <1>7, <1>11
<1>15. TextsCounted /\ faults = 0 => NewHeader[1] = Length(s)
  BY <1>4, <1>12
<1> QED
  BY <1>10, <1>12, <1>13, <1>15 DEF s

(* The first page then has the new length, and no end mark.                *)
LEMMA WriteHeaderKeeps == ASSUME NfcInv, WriteHeader PROVE NfcInv'
<1>1. NfcTyped /\ NfcPlaces /\ nfcPc = "writeHeader" /\ nfcPc' = "load"
  BY DEF NfcInv, WriteHeader
<1>2. /\ records' = records /\ nth' = nth /\ addPage' = addPage /\ payloadPtr' = payloadPtr /\ header' = header
      /\ addedPayload' = addedPayload /\ returned' = returned /\ TotalTo' = TotalTo /\ Bytes' = Bytes
      /\ TextsCounted' = TextsCounted
  BY RowStays DEF WriteHeader
<1>3. /\ nth > 1 /\ nth \in 1..Len(records) /\ Len(records) \in Nat /\ NfcPages \in Nat /\ NfcPages * 16 > 0
      /\ TotalTo[nth - 1] \in Nat /\ TotalTo[nth] \in Nat /\ TotalTo[nth - 1] <= TotalTo[nth]
      /\ TotalTo[nth - 1] + 3 < NfcPages * 16
  <2> DEFINE a == TotalTo[nth - 1]  s == TotalTo[nth]  h == records[nth].head  t == records[nth].text
  <2>1. nth > 1 /\ nth \in 1..Len(records) /\ Len(records) \in Nat
    BY <1>1, NthOK DEF NfcPlaces
  <2>2. a \in Nat /\ s \in Nat /\ h \in Nat /\ t \in Nat /\ s = a + h + t /\ a + 3 < NfcPages * 16 /\ NfcPages \in Nat
    BY <1>1, NthOK
  <2> HIDE DEF a, s, h, t
  <2>3. a <= s /\ NfcPages * 16 > 0
    BY <2>2
  <2> QED
    BY <2>1, <2>2, <2>3 DEF a, s
<1>4. /\ NewHeader \in [Offsets -> Bytes]
      /\ NewHeader[0] = tag[0] /\ NewHeader[2] = header.mbMe
      /\ \A b \in 3..15 : NewHeader[b] = tag[b]
      /\ TextsCounted /\ faults = 0 => NewHeader[1] = Length(TotalTo[nth])
  BY <1>1, NewHeaderIs
<1>5. 0 \in 0..(NfcPages - 1)
  BY <1>3
<1>7. faults \in 0..MaxFaults /\ MaxFaults \in Nat
  BY <1>1, NfcAssumption DEF NfcTyped
<1>8. \/ nfcPageBuffer' = NewHeader /\ WritePage(0, NewHeader) /\ faults' = faults
      \/ nfcPageBuffer' \in {nfcPageBuffer, NewHeader} /\ tag' = tag /\ faults' = faults + 1 /\ faults < MaxFaults
  BY DEF WriteHeader, NewHeader, Fault
<1>9. faults' \in 0..MaxFaults /\ (faults > 0 => faults' > 0) /\ (faults' = 0 => faults = 0 /\ WritePage(0, NewHeader))
  BY <1>7, <1>8
<1>10. tag' \in [0..(NfcPages * 16 - 1) -> Bytes]
  BY <1>1, <1>4, <1>5, <1>8, PageWritten DEF NfcTyped
<1>11. NfcTyped'
  BY <1>1, <1>2, <1>4, <1>8, <1>9, <1>10 DEF NfcTyped
<1>12. NfcPlaces'
  BY <1>1, <1>2, <1>3 DEF NfcPlaces
<1>14. OnTag'
  BY <1>1, <1>2 DEF NfcInv, OnTag
<1>15. FaultsReported'
  BY <1>2, <1>9 DEF NfcInv, FaultsReported
<1>16. NfcRight'
  <2> SUFFICES ASSUME TextsCounted, faults' = 0 PROVE PlaceFound' /\ HeaderWritten'
    BY <1>2, <1>1 DEF NfcRight, RecordsKept, HeaderRead, HeadInBuffer, PagesWritten, Overrun
  <2>1. faults = 0 /\ WritePage(0, NewHeader)
    BY <1>9
  <2>2. RecordsKept /\ PlaceFound /\ HeaderRead
    BY <2>1 DEF NfcInv, NfcRight
  <2>3. PlaceFound'
    BY <1>1, <1>2, <2>2 DEF PlaceFound, EndAt
  <2>4. \A b \in 0..(NfcPages * 16 - 1) : tag'[b] = IF b \in 0..15 THEN NewHeader[b] ELSE tag[b]
    <3> SUFFICES ASSUME NEW b \in 0..(NfcPages * 16 - 1)
                 PROVE  tag'[b] = IF b \in 0..15 THEN NewHeader[b] ELSE tag[b]
      OBVIOUS
    <3>1. tag'[b] = IF b \in (0 * 16)..(0 * 16 + 15) THEN NewHeader[b - 0 * 16] ELSE tag[b]
      BY <1>1, <1>4, <1>5, <2>1, PageWritten
    <3>2. (0 * 16)..(0 * 16 + 15) = 0..15 /\ b - 0 * 16 = b
      OBVIOUS
    <3> QED
      BY <3>1, <3>2
  <2>5. StartRight(records, tag, nth - 1) /\ RightTo(records, tag, TotalTo[nth - 1] + 2)
    BY <1>1, <1>3, <2>2 DEF RecordsKept
  <2>6. header.mbMe = Byte("header", 1, MB)
    BY <1>1, <2>2 DEF HeaderRead
  <2>7. {0, 1, 2} \subseteq 0..(NfcPages * 16 - 1) /\ {0, 1, 2} \subseteq 0..15
    BY <1>3
  <2>8. StartRight(records, tag', nth)
    <3>1. tag'[0] = tag[0] /\ tag'[1] = Length(TotalTo[nth]) /\ tag'[2] = Byte("header", 1, MB)
      BY <1>4, <2>1, <2>4, <2>6, <2>7
    <3>2. tag[0] = Start
      BY <2>5 DEF StartRight
    <3>3. nth # 1 /\ TotalTo = Totals(records)
      BY <1>1, <1>3, RowHere
    <3> QED
      BY <3>1, <3>2, <3>3 DEF StartRight
  <2>9. RightTo(records, tag', TotalTo[nth - 1] + 2)
    <3> SUFFICES ASSUME NEW b \in 3..((TotalTo[nth - 1] + 2) - 1) PROVE Right(records, b, tag'[b])
      BY DEF RightTo
    <3>1. Right(records, b, tag[b])
      BY <2>5 DEF RightTo
    <3>2. b \in 0..(NfcPages * 16 - 1) /\ (b \in 0..15 => b \in 3..15)
      BY <1>3
    <3>3. tag'[b] = tag[b]
      BY <1>4, <2>4, <3>2
    <3> QED
      BY <3>1, <3>3
  <2>10. HeaderWritten'
    BY <1>2, <2>8, <2>9 DEF HeaderWritten
  <2> QED
    BY <2>3, <2>10
<1> QED
  BY <1>11, <1>12, <1>14, <1>15, <1>16 DEF NfcInv

(* The head is copied behind the buffer only if the end byte was the last  *)
(* of its page.                                                            *)
LEMMA HeadBehindKeeps == ASSUME NfcInv, HeadBehindBuffer PROVE NfcInv'
<1>1. NfcTyped /\ NfcPlaces /\ nfcPc = "load" /\ nfcPc' = "overrun" /\ addPage.usedBytes >= 16
  BY DEF NfcInv, HeadBehindBuffer, NFC_PAGE_SIZE
<1>2. /\ records' = records /\ nth' = nth /\ addPage' = addPage /\ payloadPtr' = payloadPtr /\ header' = header
      /\ addedPayload' = addedPayload /\ returned' = returned /\ TotalTo' = TotalTo /\ Bytes' = Bytes
      /\ TextsCounted' = TextsCounted
      /\ tag' = tag /\ nfcPageBuffer' = nfcPageBuffer /\ faults' = faults
  BY RowStays DEF HeadBehindBuffer
<1>3. NfcTyped'
  BY <1>1, <1>2 DEF NfcTyped
<1>4. NfcPlaces'
  BY <1>1, <1>2 DEF NfcPlaces
<1>6. OnTag'
  BY <1>1 DEF OnTag
<1>7. FaultsReported'
  BY <1>2 DEF NfcInv, FaultsReported
<1>8. NfcRight'
  <2> SUFFICES ASSUME TextsCounted, faults' = 0 PROVE Overrun'
    BY <1>2, <1>1 DEF NfcRight, RecordsKept, PlaceFound, HeaderRead, HeaderWritten, HeadInBuffer,
       PagesWritten
  <2>1. EndAt(TotalTo[nth - 1])
    BY <1>1, <1>2 DEF NfcInv, NfcRight, PlaceFound
  <2>2. TotalTo[nth - 1] \in Nat /\ addPage.page \in Int
    <3>1. addPage \in [page : 0..NfcPages, usedBytes : 0..255] /\ NfcPages \in Nat
      BY <1>1, NfcAssumption DEF NfcTyped
    <3> QED
      BY <1>1, <3>1, NthOK
  <2>3. addPage.page * 16 = TotalTo[nth - 1] + 3
    BY <1>1, <2>1 DEF EndAt
  <2>4. (TotalTo[nth - 1] + 3) % 16 = 0
    BY <2>2, <2>3
  <2> QED
    BY <1>2, <2>4 DEF Overrun
<1> QED
  BY <1>3, <1>4, <1>6, <1>7, <1>8 DEF NfcInv

(* With the head behind what was right, it is in the buffer.               *)
LEMMA HeadSeen ==
  ASSUME NfcInv, nfcPc = "load", TextsCounted, faults = 0, records' = records, nth' = nth, TotalTo' = TotalTo,
         addPage'.page * 16 + payloadPtr' = TotalTo[nth - 1] + 2 + records[nth].head,
         \A b \in 0..(TotalTo[nth - 1] + 1) : Seen'[b] = tag[b],
         \A b \in (TotalTo[nth - 1] + 2)..(TotalTo[nth - 1] + 1 + records[nth].head) :
           Seen'[b] = ByteOf(records, nth, b - (TotalTo[nth - 1] + 2))
  PROVE  HeadInBuffer'
<1> DEFINE a == TotalTo[nth - 1]  h == records[nth].head  t == records[nth].text  n == a + 2  m == a + 2 + h
<1>1. NfcTyped /\ NfcPlaces /\ nth > 1
  BY DEF NfcInv, NfcPlaces
<1>2. RowOK(records) /\ TotalTo = Totals(records) /\ nth \in 1..Len(records)
  BY <1>1, RowHere, NthOK
<1>3. a \in Nat /\ h \in {5, 7} /\ t \in Nat /\ TotalTo[nth] = a + h + t /\ a >= 5
  BY <1>1, NthOK
<1>4. StartRight(records, tag, nth) /\ RightTo(records, tag, a + 2)
  BY DEF NfcInv, NfcRight, HeaderWritten
<1>5. StartRight(records, Seen', nth)
  <2>1. {0, 1, 2} \subseteq 0..(a + 1)
    BY <1>3
  <2>2. Seen'[0] = tag[0] /\ Seen'[1] = tag[1] /\ Seen'[2] = tag[2]
    BY <2>1
  <2> QED
    BY <1>4, <2>2 DEF StartRight
<1>6. RightTo(records, Seen', m)
  <2>1. n \in Nat /\ m \in Nat /\ n >= a + 2 /\ m <= TotalTo[nth] + 2
    <3> HIDE DEF a, h, t
    <3> QED
      BY <1>3
  <2>2. \A b \in 3..(n - 1) : Seen'[b] = tag[b]
    <3>1. \A b \in 0..(a + 1) : Seen'[b] = tag[b]
      OBVIOUS
    <3> HIDE DEF a
    <3>2. \A b \in 3..(n - 1) : b \in 0..(a + 1)
      BY <1>3
    <3> QED
      BY <3>1, <3>2
  <2>3. \A b \in n..(m - 1) : b >= 3 => Seen'[b] = ByteOf(records, nth, b - (a + 2))
    <3>1. \A b \in (a + 2)..(a + 1 + h) : Seen'[b] = ByteOf(records, nth, b - (a + 2))
      OBVIOUS
    <3> HIDE DEF a, h
    <3>2. m - 1 = a + 1 + h
      BY <1>3
    <3> QED
      BY <3>1, <3>2
  <2>4. a = Totals(records)[nth - 1] /\ TotalTo[nth] = Totals(records)[nth] /\ RightTo(records, tag, n)
    BY <1>2, <1>4
  <2> HIDE DEF a, n, m
  <2> QED
    BY <1>2, <2>1, <2>2, <2>3, <2>4, RightFurther
<1>7. addPage'.page * 16 + payloadPtr' = m
  OBVIOUS
<1> HIDE DEF m
<1>8. RightTo(records, Seen', addPage'.page * 16 + payloadPtr')
  BY <1>6, <1>7
<1> QED
  BY <1>5, <1>8 DEF HeadInBuffer

(* Where the head is put.                                                  *)
LEMMA HeadPlace ==
  ASSUME NfcInv, nfcPc = "load", addPage.usedBytes < 16
  PROVE  /\ addPage.usedBytes \in 0..15 /\ addPage.page \in 0..16 /\ addPage.page \in 0..(NfcPages - 1)
         /\ TextsCounted /\ faults = 0 =>
              addPage.page * 16 + addPage.usedBytes = TotalTo[nth - 1] + 2
<1>1. addPage \in [page : 0..NfcPages, usedBytes : 0..255] /\ addPage.page <= 16
  BY DEF NfcInv, NfcTyped, OnTag
<1>2. NfcPages \in Nat /\ NfcPages >= 34
  BY NfcAssumption
<1>3. addPage.usedBytes \in 0..15 /\ addPage.page \in 0..16 /\ addPage.page \in 0..(NfcPages - 1)
  BY <1>1, <1>2
<1>5. TextsCounted /\ faults = 0 => addPage.page * 16 + addPage.usedBytes = TotalTo[nth - 1] + 2
  BY DEF NfcInv, NfcRight, PlaceFound, EndAt
<1> QED
  BY <1>3, <1>5

(* A head that fits in the page of the end byte.                           *)
LEMMA HeadFitsKeeps == ASSUME NfcInv, HeadFits PROVE NfcInv'
<1> DEFINE used == addPage.usedBytes  page == addPage.page  h == records[nth].head  a == TotalTo[nth - 1]
<1>1. NfcTyped /\ NfcPlaces /\ nfcPc = "load" /\ nfcPc' = "payload" /\ used + h < 16 /\ payloadPtr' = used + h
  BY DEF NfcInv, HeadFits, NFC_PAGE_SIZE
<1>2. /\ records' = records /\ nth' = nth /\ addPage' = addPage /\ header' = header /\ tag' = tag
      /\ addedPayload' = addedPayload /\ returned' = returned /\ TotalTo' = TotalTo /\ Bytes' = Bytes
      /\ TextsCounted' = TextsCounted
  BY RowStays DEF HeadFits
<1>3. nth \in 1..Len(records) /\ nth \in 2..Len(records) /\ Len(records) \in Nat /\ NfcPages \in Nat
  <2>1. nth \in 1..Len(records) /\ nth > 1 /\ Len(records) \in Nat /\ NfcPages \in Nat
    BY <1>1, NthOK DEF NfcPlaces
  <2> QED
    BY <2>1
<1>4. h \in {5, 7} /\ a \in Nat /\ TotalTo[nth] \in Nat
  BY <1>1, NthOK
<1>5. addPage \in [page : 0..NfcPages, usedBytes : 0..255]
  BY <1>1 DEF NfcTyped
<1>6. /\ used \in 0..15 /\ page \in 0..16 /\ page \in 0..(NfcPages - 1)
      /\ TextsCounted /\ faults = 0 => page * 16 + used = a + 2
  <2>1. used < 16
    BY <1>1, <1>4, <1>5
  <2> QED
    BY <1>1, <2>1, HeadPlace
<1>7. PICK buffer \in {PageOf(page), nfcPageBuffer} :
        /\ nfcPageBuffer' = Over(buffer, used, NewHead)
        /\ IF buffer = PageOf(page) THEN UNCHANGED faults ELSE Fault
  BY DEF HeadFits
<1>8. faults \in 0..MaxFaults /\ MaxFaults \in Nat
  BY <1>1, NfcAssumption DEF NfcTyped
<1>9. faults' \in 0..MaxFaults /\ (faults > 0 => faults' > 0) /\ (faults' = 0 => faults = 0 /\ buffer = PageOf(page))
  <2>1. CASE buffer = PageOf(page)
    BY <1>7, <1>8, <2>1
  <2>2. CASE buffer # PageOf(page)
    BY <1>7, <1>8, <2>2 DEF Fault
  <2> QED
    BY <2>1, <2>2
<1>10. /\ PageOf(page) \in [Offsets -> Bytes] /\ nfcPageBuffer \in [Offsets -> Bytes]
       /\ \A o \in Offsets : PageOf(page)[o] = tag[page * 16 + o]
  BY <1>1, <1>6, PageIs DEF NfcTyped
<1>11. buffer \in [Offsets -> Bytes]
  BY <1>7, <1>10
<1>12. /\ DOMAIN NewHead = 0..(h - 1)
       /\ \A o \in 0..(h - 1) : NewHead[o] = ByteOf(records, nth, o) /\ NewHead[o] \in Bytes
  BY <1>1, <1>3, NewHeadIs
<1>u. used \in Int /\ h \in Int
  BY <1>4, <1>6
<1>13. /\ nfcPageBuffer' \in [Offsets -> Bytes]
       /\ \A o \in Offsets : nfcPageBuffer'[o] = IF o >= used /\ o < used + h THEN NewHead[o - used] ELSE buffer[o]
  <2> HIDE DEF used, h
  <2>1. \A o \in Offsets : Over(buffer, used, NewHead)[o] =
          IF o >= used /\ o < used + h THEN NewHead[o - used] ELSE buffer[o]
    BY <1>u, <1>12, OverIs
  <2>2. Over(buffer, used, NewHead) \in [Offsets -> Bytes]
    BY <1>u, <1>11, <1>12, OverIs
  <2> QED
    BY <1>7, <2>1, <2>2
<1>14. NfcTyped'
  <2>1. payloadPtr' \in 0..16
    BY <1>1, <1>4, <1>6
  <2> QED
    BY <1>1, <1>2, <1>9, <1>13, <2>1 DEF NfcTyped
<1>15. NfcPlaces'
  BY <1>1, <1>2, <1>3 DEF NfcPlaces
<1>17. OnTag'
  BY <1>1, <1>2, <1>6 DEF OnTag
<1>18. FaultsReported'
  BY <1>2, <1>9 DEF NfcInv, FaultsReported
<1>19. NfcRight'
  <2> SUFFICES ASSUME TextsCounted, faults' = 0 PROVE HeadInBuffer'
    BY <1>2, <1>1 DEF NfcRight, RecordsKept, PlaceFound, HeaderRead, HeaderWritten, PagesWritten,
       Overrun
  <2>1. faults = 0 /\ buffer = PageOf(page) /\ page * 16 + used = a + 2
    BY <1>6, <1>9
  <2>2. \A b \in 0..(page * 16 + 15) : Seen'[b] = IF b < page * 16 THEN tag[b] ELSE nfcPageBuffer'[b - page * 16]
    BY <1>2 DEF Seen
  <2> HIDE DEF used, page, h, a
  <2>3. \A b \in Int : b - page * 16 \in 0..15 => b - page * 16 \in Offsets
    BY DEF Offsets, NFC_PAGE_SIZE
  <2>4. ASSUME NEW b \in 0..(a + 1) PROVE Seen'[b] = tag[b]
    <3>1. b \in 0..(page * 16 + 15) /\ page * 16 \in Nat
      BY <1>3, <1>4, <1>6, <2>1
    <3>2. CASE b < page * 16
      BY <2>2, <3>1, <3>2
    <3>3. CASE b >= page * 16
      <4> DEFINE o == b - page * 16
      <4>1. o \in Offsets /\ ~(o >= used) /\ page * 16 + o = b /\ ~(b < page * 16)
        BY <1>3, <1>4, <1>6, <2>1, <2>3, <3>1, <3>3
      <4>2. Seen'[b] = nfcPageBuffer'[o]
        BY <2>2, <3>1, <4>1
      <4> HIDE DEF o
      <4> QED
        BY <1>10, <1>13, <2>1, <4>1, <4>2
    <3> QED
      BY <3>1, <3>2, <3>3
  <2>5. ASSUME NEW b \in (a + 2)..(a + 1 + h) PROVE Seen'[b] = ByteOf(records, nth, b - (a + 2))
    <3> DEFINE o == b - page * 16
    <3>1. b \in 0..(page * 16 + 15) /\ ~(b < page * 16) /\ o \in 0..15 /\ o >= used /\ o < used + h
          /\ o - used = b - (a + 2) /\ b - (a + 2) \in 0..(h - 1) /\ b \in Int
      <4>1. used + h < 16
        BY <1>1 DEF used, h
      <4>2. b \in Int /\ b >= a + 2 /\ b <= a + 1 + h
        BY <1>4
      <4> DEFINE q == page * 16
      <4>3. q \in Int /\ q + used = a + 2 /\ q >= 0 /\ used \in 0..15 /\ a \in Nat /\ h \in {5, 7}
        BY <1>3, <1>4, <1>6, <2>1
      <4> HIDE DEF q
      <4>4. b \in 0..(q + 15) /\ ~(b < q) /\ b - q \in 0..15 /\ b - q >= used /\ b - q < used + h
        BY <4>1, <4>2, <4>3
      <4>5. (b - q) - used = b - (a + 2) /\ b - (a + 2) \in 0..(h - 1)
        BY <4>2, <4>3
      <4> QED
        BY <4>2, <4>4, <4>5 DEF q
    <3>2. Seen'[b] = nfcPageBuffer'[o] /\ o \in Offsets
      BY <2>2, <2>3, <3>1
    <3> HIDE DEF o
    <3>3. nfcPageBuffer'[o] = NewHead[o - used]
      BY <1>13, <3>1, <3>2
    <3> QED
      BY <1>12, <3>1, <3>2, <3>3
  <2>6. page * 16 + payloadPtr' = a + 2 + h
    <3>1. payloadPtr' = used + h
      BY <1>1 DEF used, h
    <3> QED
      BY <1>3, <1>4, <1>6, <2>1, <3>1
  <2>7. addPage'.page * 16 + payloadPtr' = TotalTo[nth - 1] + 2 + records[nth].head
    BY <1>2, <2>6 DEF page, a, h
  <2>8. \A b \in 0..(TotalTo[nth - 1] + 1) : Seen'[b] = tag[b]
    BY <2>4 DEF a
  <2>9. \A b \in (TotalTo[nth - 1] + 2)..(TotalTo[nth - 1] + 1 + records[nth].head) :
          Seen'[b] = ByteOf(records, nth, b - (TotalTo[nth - 1] + 2))
    BY <2>5 DEF a, h
  <2> QED
    BY <1>1, <1>2, <2>1, <2>7, <2>8, <2>9, HeadSeen
<1> QED
  BY <1>14, <1>15, <1>17, <1>18, <1>19 DEF NfcInv

(* The two pages of a head that is divided.                                *)
DividedFirst(buffer) == Over(buffer, addPage.usedBytes, NewHead)

DividedRest(buffer) ==
  LET n == 16 - addPage.usedBytes
  IN  Over(DividedFirst(buffer), 0, [o \in 0..(records[nth].head - n - 1) |-> NewHead[n + o]])

(* Between them they hold the head.                                        *)
LEMMA DividedIs ==
  ASSUME NfcInv, nfcPc = "load", addPage.usedBytes < 16, addPage.usedBytes + records[nth].head >= 16,
         NEW buffer \in {PageOf(addPage.page), nfcPageBuffer}
  PROVE  LET used == addPage.usedBytes  h == records[nth].head
         IN  /\ DividedFirst(buffer) \in [Offsets -> Bytes] /\ DividedRest(buffer) \in [Offsets -> Bytes]
             /\ \A o \in Offsets :
                  DividedFirst(buffer)[o] = IF o >= used THEN ByteOf(records, nth, o - used) ELSE buffer[o]
             /\ \A o \in 0..(used + h - 17) : DividedRest(buffer)[o] = ByteOf(records, nth, o + 16 - used)
<1> DEFINE used == addPage.usedBytes  page == addPage.page  h == records[nth].head  n == 16 - used
           F == DividedFirst(buffer)
           behind == [o \in 0..(h - n - 1) |-> NewHead[n + o]]
           R == DividedRest(buffer)
<1>1. NfcTyped /\ NfcPlaces
  BY DEF NfcInv
<1>2. nth \in 2..Len(records) /\ Len(records) \in Nat
  <2>1. nth \in 1..Len(records) /\ nth > 1 /\ Len(records) \in Nat
    BY <1>1, NthOK DEF NfcPlaces
  <2> QED
    BY <2>1
<1>3. h \in {5, 7} /\ used \in 0..15 /\ page \in 0..(NfcPages - 1)
  BY <1>1, NthOK, HeadPlace
<1>4. /\ DOMAIN NewHead = 0..(h - 1)
      /\ \A o \in 0..(h - 1) : NewHead[o] = ByteOf(records, nth, o) /\ NewHead[o] \in Bytes
                               /\ NewHead[o].what # "start"
  BY <1>1, <1>2, NewHeadIs
<1>5. PageOf(page) \in [Offsets -> Bytes] /\ nfcPageBuffer \in [Offsets -> Bytes]
  BY <1>1, <1>3, PageIs DEF NfcTyped
<1>6. buffer \in [Offsets -> Bytes]
  BY <1>5
<1>7. \A o \in Offsets : o \in 0..15
  BY DEF Offsets, NFC_PAGE_SIZE
<1>8. used + h >= 16
  OBVIOUS
<1>9. F = Over(buffer, used, NewHead) /\ R = Over(F, 0, behind)
  BY DEF DividedFirst, DividedRest
<1>11. DOMAIN behind = 0..((h - n) - 1) /\ \A o \in 0..((h - n) - 1) : behind[o] = NewHead[n + o]
  OBVIOUS
<1> HIDE DEF used, page, h, F, R, behind
<1>12. F \in [Offsets -> Bytes]
  <2>1. used \in Int /\ h \in Int
    BY <1>3
  <2> QED
    BY <1>4, <1>6, <1>9, <2>1, OverIs
<1>13. ASSUME NEW o \in Offsets
       PROVE  F[o] = IF o >= used THEN ByteOf(records, nth, o - used) ELSE buffer[o]
  <2>1. F[o] = IF o - used \in 0..(h - 1) THEN NewHead[o - used] ELSE buffer[o]
    BY <1>4, <1>9 DEF Over
  <2>2. o - used \in 0..(h - 1) <=> o >= used
    BY <1>3, <1>7, <1>8
  <2> QED
    BY <1>4, <2>1, <2>2
<1>15. \A o \in 0..((h - n) - 1) : n + o \in 0..(h - 1)
  BY <1>3, <1>8
<1>16. R \in [Offsets -> Bytes]
  <2>1. \A o \in 0..((h - n) - 1) : behind[o] \in Bytes
    BY <1>4, <1>11, <1>15
  <2>2. h - n \in Int /\ 0 \in Int
    BY <1>3
  <2> HIDE DEF n
  <2> QED
    BY <1>9, <1>11, <1>12, <2>1, <2>2, OverIs
<1>17. ASSUME NEW o \in Offsets PROVE R[o] = IF o \in 0..((h - n) - 1) THEN NewHead[n + o] ELSE F[o]
  <2>1. R[o] = IF o - 0 \in 0..((h - n) - 1) THEN behind[o - 0] ELSE F[o]
    BY <1>9, <1>11 DEF Over
  <2>2. o - 0 = o
    BY <1>7
  <2> QED
    BY <1>11, <2>1, <2>2
<1>18. ASSUME NEW o \in 0..(used + h - 17) PROVE R[o] = ByteOf(records, nth, o + 16 - used)
  <2>1. o \in 0..((h - n) - 1) /\ o \in 0..15 /\ n + o = o + 16 - used
    BY <1>3
  <2>2. o \in Offsets
    BY <2>1 DEF Offsets, NFC_PAGE_SIZE
  <2>3. R[o] = NewHead[n + o] /\ n + o \in 0..(h - 1)
    BY <1>15, <1>17, <2>1, <2>2
  <2> QED
    BY <1>4, <2>1, <2>3
<1> QED
  BY <1>12, <1>13, <1>16, <1>18 DEF used, h, F, R

(* A head that goes on in the next page.                                   *)
LEMMA HeadDividedKeeps == ASSUME NfcInv, HeadDivided PROVE NfcInv'
<1> DEFINE used == addPage.usedBytes  page == addPage.page  h == records[nth].head  a == TotalTo[nth - 1]
<1>1. /\ NfcTyped /\ NfcPlaces /\ nfcPc = "load" /\ nfcPc' = "payload" /\ used < 16 /\ used + h >= 16
      /\ payloadPtr' = h - (16 - used) /\ addPage' = [page |-> page + 1, usedBytes |-> h - (16 - used)]
  BY DEF NfcInv, HeadDivided, NFC_PAGE_SIZE
<1>2. /\ records' = records /\ nth' = nth /\ header' = header
      /\ addedPayload' = addedPayload /\ returned' = returned /\ TotalTo' = TotalTo /\ Bytes' = Bytes
      /\ TextsCounted' = TextsCounted
  BY RowStays DEF HeadDivided
<1>3. nth \in 1..Len(records) /\ Len(records) \in Nat /\ NfcPages \in Nat
  BY <1>1, NthOK DEF NfcPlaces
<1>4. /\ h \in {5, 7} /\ a \in Nat /\ records[nth].text \in Nat /\ TotalTo[nth] \in Nat
      /\ TotalTo[nth] = a + h + records[nth].text /\ TotalTo[nth] + 2 < NfcPages * 16
  BY <1>1, NthOK
<1>5. /\ used \in 0..15 /\ page \in 0..16 /\ page \in 0..(NfcPages - 1)
      /\ TextsCounted /\ faults = 0 => page * 16 + used = a + 2
  BY <1>1, HeadPlace
<1>6. PICK buffer \in {PageOf(page), nfcPageBuffer}, written \in BOOLEAN :
        /\ IF written THEN WritePage(page, DividedFirst(buffer)) ELSE UNCHANGED tag
        /\ IF buffer = PageOf(page) /\ written THEN UNCHANGED faults ELSE Fault
        /\ nfcPageBuffer' = DividedRest(buffer)
  BY DEF HeadDivided, DividedFirst, DividedRest, NFC_PAGE_SIZE
<1>7. faults \in 0..MaxFaults /\ MaxFaults \in Nat
  BY <1>1, NfcAssumption DEF NfcTyped
<1>8. /\ faults' \in 0..MaxFaults /\ (faults > 0 => faults' > 0)
      /\ (faults' = 0 => faults = 0 /\ buffer = PageOf(page) /\ WritePage(page, DividedFirst(buffer)))
  <2>1. CASE buffer = PageOf(page) /\ written
    BY <1>6, <1>7, <2>1
  <2>2. CASE ~(buffer = PageOf(page) /\ written)
    BY <1>6, <1>7, <2>2 DEF Fault
  <2> QED
    BY <2>1, <2>2
<1>9. /\ DividedFirst(buffer) \in [Offsets -> Bytes] /\ DividedRest(buffer) \in [Offsets -> Bytes]
      /\ \A o \in Offsets : DividedFirst(buffer)[o] = IF o >= used THEN ByteOf(records, nth, o - used) ELSE buffer[o]
      /\ \A o \in 0..(used + h - 17) : DividedRest(buffer)[o] = ByteOf(records, nth, o + 16 - used)
  BY <1>1, DividedIs
<1>10. page + 1 \in 0..17 /\ page + 1 \in 0..NfcPages /\ h - (16 - used) \in 0..6
  <2>1. used + h >= 16 /\ NfcPages >= 34
    BY <1>1, NfcAssumption
  <2> HIDE DEF used, h, page
  <2> QED
    BY <1>3, <1>4, <1>5, <2>1
<1>11. tag' \in [0..(NfcPages * 16 - 1) -> Bytes]
  <2>1. CASE WritePage(page, DividedFirst(buffer))
    BY <1>1, <1>5, <1>9, <2>1, PageWritten
  <2>2. CASE tag' = tag
    BY <1>1, <2>2 DEF NfcTyped
  <2> QED
    BY <1>6, <2>1, <2>2
<1>12. NfcTyped'
  <2>1. addPage' \in [page : 0..NfcPages, usedBytes : 0..255] /\ payloadPtr' \in 0..16
    BY <1>1, <1>10
  <2> QED
    BY <1>1, <1>2, <1>6, <1>8, <1>9, <1>11, <2>1 DEF NfcTyped
<1>13. NfcPlaces'
  BY <1>1, <1>2, <1>3 DEF NfcPlaces
<1>15. OnTag'
  <2>1. addPage'.page = page + 1
    BY <1>1
  <2> QED
    BY <1>1, <1>2, <1>10, <2>1 DEF OnTag
<1>16. FaultsReported'
  BY <1>2, <1>8 DEF NfcInv, FaultsReported
<1>17. NfcRight'
  <2> SUFFICES ASSUME TextsCounted, faults' = 0 PROVE HeadInBuffer'
    BY <1>2, <1>1 DEF NfcRight, RecordsKept, PlaceFound, HeaderRead, HeaderWritten, PagesWritten,
       Overrun
  <2>1. faults = 0 /\ buffer = PageOf(page) /\ page * 16 + used = a + 2 /\ WritePage(page, DividedFirst(buffer))
    BY <1>5, <1>8
  <2> DEFINE q == page * 16
  <2>2. addPage'.page = page + 1 /\ (page + 1) * 16 = q + 16 /\ q \in Nat /\ q + 16 <= NfcPages * 16
    <3>1. addPage'.page = page + 1
      BY <1>1
    <3>2. page \in 0..(NfcPages - 1) /\ NfcPages \in Nat
      BY <1>3, <1>5
    <3> HIDE DEF page
    <3>3. (page + 1) * 16 = q + 16 /\ q \in Nat /\ q + 16 <= NfcPages * 16
      BY <3>2
    <3> QED
      BY <3>1, <3>3
  <2>3. \A b \in 0..(q + 31) : Seen'[b] = IF b < q + 16 THEN tag'[b] ELSE DividedRest(buffer)[b - (q + 16)]
    BY <1>6, <2>2 DEF Seen
  <2>4. \A b \in 0..(NfcPages * 16 - 1) : tag'[b] = IF b \in q..(q + 15) THEN DividedFirst(buffer)[b - q] ELSE tag[b]
    BY <1>1, <1>5, <1>9, <2>1, PageWritten
  <2>5. \A o \in Offsets : PageOf(page)[o] = tag[q + o]
    BY <1>1, <1>5, PageIs
  <2>6. used + h >= 16
    BY <1>1
  <2>7. q + used = a + 2
    BY <2>1
  <2> HIDE DEF q, used, page, h, a
  <2>8. \A o \in 0..15 : o \in Offsets
    BY DEF Offsets, NFC_PAGE_SIZE
  <2>9. ASSUME NEW b \in 0..(a + 1) PROVE Seen'[b] = tag[b]
    <3>1. b \in Int /\ b \in 0..(q + 31) /\ b < q + 16 /\ b \in 0..(NfcPages * 16 - 1)
      BY <1>3, <1>4, <1>5, <2>2, <2>7
    <3>2. Seen'[b] = tag'[b]
      BY <2>3, <3>1
    <3>3. CASE b < q
      <4>1. b \notin q..(q + 15)
        BY <2>2, <3>3, <3>1
      <4> QED
        BY <2>4, <3>1, <3>2, <4>1
    <3>4. CASE b >= q
      <4> DEFINE o == b - q
      <4>1. o \in 0..15 /\ q + o = b /\ ~(o >= used) /\ b \in q..(q + 15)
        BY <1>4, <1>5, <2>2, <2>7, <3>1, <3>4
      <4>2. tag'[b] = DividedFirst(buffer)[o]
        BY <2>4, <3>1, <4>1
      <4> HIDE DEF o
      <4>3. DividedFirst(buffer)[o] = PageOf(page)[o]
        BY <1>9, <2>1, <2>8, <4>1 DEF used
      <4> QED
        BY <2>5, <2>8, <3>2, <4>1, <4>2, <4>3
    <3> QED
      BY <2>2, <3>1, <3>3, <3>4
  <2>10. ASSUME NEW b \in (a + 2)..(a + 1 + h) PROVE Seen'[b] = ByteOf(records, nth, b - (a + 2))
    <3>1. b \in Int /\ b >= a + 2 /\ b <= a + 1 + h
      BY <1>4
    <3>2. CASE b < q + 16
      <4> DEFINE o == b - q
      <4>1. b \in 0..(q + 31) /\ b \in 0..(NfcPages * 16 - 1) /\ b \in q..(q + 15)
            /\ o \in 0..15 /\ o >= used /\ o - used = b - (a + 2)
        BY <1>3, <1>4, <1>5, <2>2, <2>7, <3>1, <3>2
      <4>2. Seen'[b] = DividedFirst(buffer)[o]
        BY <2>3, <2>4, <3>2, <4>1
      <4> HIDE DEF o
      <4>3. DividedFirst(buffer)[o] = ByteOf(records, nth, o - used)
        BY <1>9, <2>8, <4>1 DEF used
      <4> QED
        BY <4>1, <4>2, <4>3
    <3>3. CASE b >= q + 16
      <4> DEFINE o == b - (q + 16)
      <4>1. b \in 0..(q + 31) /\ ~(b < q + 16) /\ o \in 0..(used + h - 17) /\ o + 16 - used = b - (a + 2)
        BY <1>4, <1>5, <2>2, <2>6, <2>7, <3>1, <3>3
      <4>2. Seen'[b] = DividedRest(buffer)[o]
        BY <2>3, <4>1
      <4> HIDE DEF o
      <4>3. DividedRest(buffer)[o] = ByteOf(records, nth, o + 16 - used)
        BY <1>9, <4>1 DEF used, h
      <4> QED
        BY <4>1, <4>2, <4>3
    <3> QED
      BY <2>2, <3>1, <3>2, <3>3
  <2>11. addPage'.page * 16 + payloadPtr' = a + 2 + h
    <3>1. payloadPtr' = h - (16 - used)
      BY <1>1 DEF h, used
    <3>2. (q + 16) + (h - (16 - used)) = a + 2 + h
      BY <1>4, <1>5, <2>2, <2>7
    <3> QED
      BY <2>2, <3>1, <3>2
  <2>12. addPage'.page * 16 + payloadPtr' = TotalTo[nth - 1] + 2 + records[nth].head
    BY <2>11 DEF a, h
  <2>13. \A b \in 0..(TotalTo[nth - 1] + 1) : Seen'[b] = tag[b]
    BY <2>9 DEF a
  <2>14. \A b \in (TotalTo[nth - 1] + 2)..(TotalTo[nth - 1] + 1 + records[nth].head) :
           Seen'[b] = ByteOf(records, nth, b - (TotalTo[nth - 1] + 2))
    BY <2>10 DEF a, h
  <2> QED
    BY <1>1, <1>2, <2>1, <2>12, <2>13, <2>14, HeadSeen
<1> QED
  BY <1>12, <1>13, <1>15, <1>16, <1>17 DEF NfcInv

(* A record is done.                                                       *)
LEMMA Returns ==
  ASSUME NfcInv, nfcPc \in {"payload", "more"}, records' = records, NEW result \in BOOLEAN,
         RecordReturns(result), TextsCounted /\ ~result => faults' > 0, faults > 0 => faults' > 0
  PROVE  /\ NfcPlaces' /\ returned' \in Seq(BOOLEAN) /\ FaultsReported'
         /\ nth' = nth + 1 /\ nth' - 1 = nth /\ nth' > 1 /\ nfcPc' \in {"store", "done"}
<1>1. NfcTyped /\ NfcPlaces /\ nth \in 1..Len(records) /\ Len(records) \in Nat
  BY NthOK DEF NfcInv
<1>2. nth' = nth + 1 /\ returned' = Append(returned, result) /\ nfcPc' = IF nth = Len(records) THEN "done" ELSE "store"
  BY DEF RecordReturns
<1>3. nth' - 1 = nth /\ nth' > 1 /\ nth' \in 1..(Len(records) + 1) /\ (nth' = Len(records) + 1 <=> nth = Len(records))
  BY <1>1, <1>2
<1>4. nfcPc' \in {"store", "done"} /\ (nfcPc' = "done" <=> nth = Len(records))
  BY <1>2
<1>5. NfcPlaces'
  BY <1>3, <1>4 DEF NfcPlaces
<1>6. returned \in Seq(BOOLEAN)
  BY <1>1 DEF NfcTyped
<1>7. returned' \in Seq(BOOLEAN)
  BY <1>2, <1>6
<1>8. FaultsReported'
  <2> SUFFICES ASSUME TextsCounted, NEW r \in DOMAIN returned', ~returned'[r] PROVE faults' > 0
    BY RowStays DEF FaultsReported
  <2>1. Len(returned) \in Nat /\ DOMAIN returned = 1..Len(returned) /\ DOMAIN returned' = 1..(Len(returned) + 1)
    BY <1>2, <1>6
  <2>2. returned'[r] = IF r = Len(returned) + 1 THEN result ELSE returned[r]
    BY <1>2, <1>6, <2>1
  <2>3. CASE r = Len(returned) + 1
    BY <2>2, <2>3
  <2>4. CASE r # Len(returned) + 1
    <3>1. r \in DOMAIN returned /\ ~returned[r]
      BY <2>1, <2>2, <2>4
    <3> QED
      BY <3>1 DEF NfcInv, FaultsReported
  <2> QED
    BY <2>3, <2>4
<1> QED
  BY <1>2, <1>3, <1>4, <1>5, <1>7, <1>8

(* A page of text behind what was right.                                   *)
LEMMA TextFollows ==
  ASSUME NfcInv, nfcPc \in {"payload", "more"}, NEW memory, NEW n \in Nat, NEW m \in Nat,
         StartRight(records, memory, nth), RightTo(records, memory, n),
         n >= TotalTo[nth - 1] + 2 + records[nth].head, n <= m, m <= TotalTo[nth] + 2,
         \A b \in 0..(n - 1) : tag'[b] = memory[b],
         \A b \in n..(m - 1) : tag'[b] = Text(nth, b - (TotalTo[nth - 1] + 2 + records[nth].head))
  PROVE  StartRight(records, tag', nth) /\ RightTo(records, tag', m)
<1> DEFINE a == TotalTo[nth - 1]  h == records[nth].head
<1>1. NfcTyped /\ nth \in 1..Len(records) /\ RowOK(records) /\ TotalTo = Totals(records)
  BY NthOK, RowHere DEF NfcInv
<1>2. a \in Nat /\ h \in {5, 7}
  BY NthOK
<1>e. \A b \in n..(m - 1) : b - (a + 2 + h) < 256
  <2> DEFINE t == records[nth].text  s == TotalTo[nth]
  <2>1. t \in Nat /\ t < 256 /\ s = a + h + t /\ m <= s + 2
    BY NthOK
  <2> HIDE DEF a, h, t, s
  <2> QED
    BY <1>2, <2>1
<1>3. n >= a + 2 + h
  OBVIOUS
<1>4. \A b \in n..(m - 1) : tag'[b] = Text(nth, b - (a + 2 + h))
  OBVIOUS
<1>5. a = Totals(records)[nth - 1] /\ TotalTo[nth] = Totals(records)[nth]
  BY <1>1
<1>6. \A i \in 0..255 : Text(nth, i) = ByteOf(records, nth, h + i)
  BY <1>1, TextIs
<1> HIDE DEF a, h
<1>7. ASSUME NEW b \in n..(m - 1) PROVE tag'[b] = ByteOf(records, nth, b - (a + 2))
  <2> DEFINE i == b - (a + 2 + h)
  <2>1. i \in 0..255 /\ h + i = b - (a + 2)
    BY <1>2, <1>3, <1>e
  <2> HIDE DEF i
  <2>2. tag'[b] = Text(nth, i)
    BY <1>4 DEF i
  <2> QED
    BY <1>6, <2>1, <2>2
<1>8. StartRight(records, tag', nth)
  <2>1. {0, 1, 2} \subseteq 0..(n - 1)
    BY <1>2, <1>3
  <2>2. tag'[0] = memory[0] /\ tag'[1] = memory[1] /\ tag'[2] = memory[2]
    BY <2>1
  <2> QED
    BY <2>2 DEF StartRight
<1>9. RightTo(records, tag', m)
  <2>1. n >= Totals(records)[nth - 1] + 2 /\ m <= Totals(records)[nth] + 2
    BY <1>2, <1>3, <1>5
  <2>2. \A b \in 3..(n - 1) : tag'[b] = memory[b]
    <3>1. \A b \in 3..(n - 1) : b \in 0..(n - 1)
      OBVIOUS
    <3> QED
      BY <3>1
  <2>3. \A b \in n..(m - 1) : b >= 3 => tag'[b] = ByteOf(records, nth, b - (Totals(records)[nth - 1] + 2))
    BY <1>5, <1>7
  <2>4. RightTo(records, memory, n) /\ RowOK(records) /\ nth \in 1..Len(records)
    BY <1>1
  <2>5. \A new : (\A b \in 3..(n - 1) : new[b] = memory[b])
                   /\ (\A b \in n..(m - 1) : b >= 3 => new[b] = ByteOf(records, nth, b - (Totals(records)[nth - 1] + 2)))
                   => RightTo(records, new, m)
    BY <2>1, <2>4, RightFurther
  <2> QED
    BY <2>2, <2>3, <2>5
<1> QED
  BY <1>8, <1>9

(* The bytes of a text.                                                    *)
LEMMA TextFromIs ==
  ASSUME NfcInv, nfcPc # "done", NEW i \in Nat, NEW n \in Nat, i + n <= 256
  PROVE  /\ DOMAIN TextFrom(nth, i, n) = 0..(n - 1)
         /\ \A o \in 0..(n - 1) :
              /\ TextFrom(nth, i, n)[o] = Text(nth, i + o) /\ TextFrom(nth, i, n)[o] \in Bytes
              /\ TextFrom(nth, i, n)[o] # Start
<1>1. NfcTyped /\ nth \in 1..Len(records)
  BY NthOK DEF NfcInv
<1>2. \A o \in 0..(n - 1) : TextFrom(nth, i, n)[o] = Text(nth, i + o) /\ i + o \in 0..255
  BY DEF TextFrom
<1>3. \A k \in 0..255 : Text(nth, k) \in Bytes /\ Text(nth, k) # Start
  BY <1>1, TextIs
<1> QED
  BY <1>2, <1>3 DEF TextFrom

(* The page with the head, as it is written.                               *)
FirstCopy == Smaller(records[nth].text, 16 - payloadPtr)

FirstEnds == FirstCopy = records[nth].text /\ payloadPtr + FirstCopy < 16

FirstBody == Over(nfcPageBuffer, payloadPtr, TextFrom(nth, 0, FirstCopy))

FirstPage == IF FirstEnds THEN [FirstBody EXCEPT ![payloadPtr + FirstCopy] = End] ELSE FirstBody

(* Behind the head stands the beginning of the text, and the end byte.     *)
LEMMA FirstPageIs ==
  ASSUME NfcInv, nfcPc = "payload"
  PROVE  /\ payloadPtr \in 0..16 /\ FirstCopy \in 0..16 /\ payloadPtr + FirstCopy <= 16
         /\ FirstCopy <= records[nth].text /\ (~FirstEnds => payloadPtr + FirstCopy = 16)
         /\ FirstPage \in [Offsets -> Bytes]
         /\ \A o \in Offsets : o < payloadPtr => FirstPage[o] = nfcPageBuffer[o]
         /\ \A o \in Offsets : o >= payloadPtr /\ o < payloadPtr + FirstCopy => FirstPage[o] = Text(nth, o - payloadPtr)
         /\ FirstEnds => FirstPage[payloadPtr + FirstCopy] = End
<1> DEFINE ptr == payloadPtr  t == records[nth].text  copy == FirstCopy
           bytes == TextFrom(nth, 0, copy)
<1>1. NfcTyped /\ nfcPc # "done"
  BY DEF NfcInv
<1>2. ptr \in 0..16 /\ t \in Nat /\ TotalTo[nth] \in Nat /\ Len(records) \in Nat /\ nfcPageBuffer \in [Offsets -> Bytes]
  BY <1>1, NthOK DEF NfcTyped
<1>3. copy = IF t < 16 - ptr THEN t ELSE 16 - ptr
  BY DEF FirstCopy, Smaller
<1>4. FirstEnds <=> copy = t /\ ptr + copy < 16
  BY DEF FirstEnds
<1> HIDE DEF ptr, t, copy
<1>5. copy \in 0..16 /\ copy \in Nat /\ ptr + copy <= 16 /\ copy <= t /\ (~FirstEnds => ptr + copy = 16)
  BY <1>2, <1>3, <1>4
<1>6. /\ DOMAIN bytes = 0..(copy - 1)
      /\ \A o \in 0..(copy - 1) : bytes[o] = Text(nth, 0 + o) /\ bytes[o] \in Bytes /\ bytes[o] # Start
  <2>1. 0 \in Nat /\ 0 + copy <= 256
    BY <1>5
  <2> QED
    BY <1>1, <1>5, <2>1, TextFromIs
<1> HIDE DEF bytes
<1>7. FirstBody = Over(nfcPageBuffer, ptr, bytes)
  BY DEF FirstBody, ptr, bytes, copy
<1>8. \A o \in Offsets : o \in 0..15
  BY DEF Offsets, NFC_PAGE_SIZE
<1>9. \A o \in 0..15 : o \in Offsets
  BY DEF Offsets, NFC_PAGE_SIZE
<1>10. FirstBody \in [Offsets -> Bytes]
  <2>1. ptr \in Int /\ copy \in Int /\ \A o \in Offsets : nfcPageBuffer[o] \in Bytes
    BY <1>2, <1>5
  <2>2. \A o \in 0..(copy - 1) : bytes[o] \in Bytes
    BY <1>6
  <2> QED
    BY <1>6, <1>7, <2>1, <2>2, OverIs
<1>11. \A o \in Offsets : FirstBody[o] = IF o - ptr \in 0..(copy - 1) THEN bytes[o - ptr] ELSE nfcPageBuffer[o]
  BY <1>6, <1>7 DEF Over
<1>12. FirstPage = IF FirstEnds THEN [FirstBody EXCEPT ![ptr + copy] = End] ELSE FirstBody
  BY DEF FirstPage, ptr, copy
<1>13. End \in Bytes /\ End # Start
  BY <1>2, BytesAre
<1>14. FirstPage \in [Offsets -> Bytes]
  BY <1>10, <1>12, <1>13
<1>15. \A o \in Offsets : FirstPage[o] = IF FirstEnds /\ o = ptr + copy THEN End ELSE FirstBody[o]
  BY <1>10, <1>12
<1>16. ASSUME NEW o \in Offsets, o < ptr PROVE FirstPage[o] = nfcPageBuffer[o]
  <2>1. o - ptr \notin 0..(copy - 1) /\ o # ptr + copy
    <3>1. o \in 0..15 /\ ptr \in Int /\ copy \in Nat
      BY <1>2, <1>5, <1>8
    <3> QED
      BY <1>16, <3>1
  <2> QED
    BY <1>11, <1>15, <2>1
<1>17. ASSUME NEW o \in Offsets, o >= ptr, o < ptr + copy PROVE FirstPage[o] = Text(nth, o - ptr) /\ FirstPage[o] # Start
  <2>1. o - ptr \in 0..(copy - 1) /\ o # ptr + copy /\ 0 + (o - ptr) = o - ptr
    <3>1. o \in 0..15 /\ ptr \in Int /\ copy \in Nat
      BY <1>2, <1>5, <1>8
    <3> QED
      BY <1>17, <3>1
  <2>2. FirstPage[o] = bytes[o - ptr]
    BY <1>11, <1>15, <2>1
  <2>3. bytes[o - ptr] = Text(nth, 0 + (o - ptr)) /\ bytes[o - ptr] # Start
    BY <1>6, <2>1
  <2> QED
    BY <2>1, <2>2, <2>3
<1>18. ASSUME FirstEnds PROVE FirstPage[ptr + copy] = End
  <2>1. ptr + copy \in 0..15
    BY <1>2, <1>4, <1>5, <1>18
  <2> QED
    BY <1>9, <1>15, <1>18, <2>1
<1> QED
  BY <1>2, <1>5, <1>14, <1>16, <1>17, <1>18 DEF ptr, t, copy

(* The head's page is written, with as much of the text as it can hold.    *)
LEMMA WriteFirstKeeps == ASSUME NfcInv, WriteFirstPage PROVE NfcInv'
<1> DEFINE page == addPage.page  h == records[nth].head  t == records[nth].text  a == TotalTo[nth - 1]
           ptr == payloadPtr  copy == FirstCopy  s == TotalTo[nth]
<1>1. NfcTyped /\ NfcPlaces /\ nfcPc = "payload"
  BY DEF NfcInv, WriteFirstPage
<1>2. PICK written \in BOOLEAN :
        /\ IF written THEN WritePage(page, FirstPage) /\ UNCHANGED faults ELSE Fault /\ UNCHANGED tag
        /\ IF FirstEnds THEN RecordReturns(written) ELSE Continue
  BY DEF WriteFirstPage, FirstPage, FirstBody, FirstEnds, FirstCopy, NFC_PAGE_SIZE
<1>3. /\ nfcPageBuffer' = FirstPage /\ addedPayload' = copy
      /\ records' = records /\ addPage' = addPage /\ header' = header /\ payloadPtr' = payloadPtr
      /\ TotalTo' = TotalTo /\ Bytes' = Bytes /\ TextsCounted' = TextsCounted
  BY RowStays DEF WriteFirstPage, FirstPage, FirstBody, FirstEnds, FirstCopy, NFC_PAGE_SIZE
<1>4. /\ nth \in 1..Len(records) /\ Len(records) \in Nat /\ NfcPages \in Nat
      /\ h \in {5, 7} /\ t \in Nat /\ a \in Nat /\ s \in Nat /\ s = a + h + t /\ s + 2 < NfcPages * 16
  BY <1>1, NthOK
<1>5. page \in 0..17 /\ page \in 0..(NfcPages - 1)
  <2>1. addPage \in [page : 0..NfcPages, usedBytes : 0..255] /\ page <= 17
    BY <1>1 DEF NfcInv, NfcTyped, OnTag
  <2>2. page \in 0..NfcPages /\ NfcPages >= 34
    BY <2>1, NfcAssumption
  <2>3. page <= 17 /\ NfcPages \in Nat
    BY <2>1, <1>4
  <2> HIDE DEF page
  <2> QED
    BY ONLY <2>2, <2>3
<1>6. /\ ptr \in 0..16 /\ copy \in 0..16 /\ ptr + copy <= 16 /\ copy <= t /\ (~FirstEnds => ptr + copy = 16)
      /\ FirstPage \in [Offsets -> Bytes]
      /\ \A o \in Offsets : o < ptr => FirstPage[o] = nfcPageBuffer[o]
      /\ \A o \in Offsets : o >= ptr /\ o < ptr + copy => FirstPage[o] = Text(nth, o - ptr)
      /\ FirstEnds => FirstPage[ptr + copy] = End
  BY <1>1, FirstPageIs
<1>7. FirstEnds => copy = t /\ ptr + copy < 16
  BY DEF FirstEnds
<1>8. faults \in 0..MaxFaults /\ MaxFaults \in Nat
  BY <1>1, NfcAssumption DEF NfcTyped
<1>9. /\ faults' \in 0..MaxFaults /\ (faults > 0 => faults' > 0) /\ (~written => faults' > 0)
      /\ (faults' = 0 => faults = 0 /\ WritePage(page, FirstPage))
  <2>1. CASE written
    BY <1>2, <1>8, <2>1
  <2>2. CASE ~written
    BY <1>2, <1>8, <2>2 DEF Fault
  <2> QED
    BY <2>1, <2>2
<1>10. tag' \in [0..(NfcPages * 16 - 1) -> Bytes]
  <2>1. CASE WritePage(page, FirstPage)
    BY <1>1, <1>5, <1>6, <2>1, PageWritten
  <2>2. CASE tag' = tag
    BY <1>1, <2>2 DEF NfcTyped
  <2> QED
    BY <1>2, <2>1, <2>2
<1>11. FirstEnds =>
         /\ NfcPlaces' /\ returned' \in Seq(BOOLEAN) /\ FaultsReported'
         /\ nth' = nth + 1 /\ nth' - 1 = nth /\ nth' > 1 /\ nfcPc' \in {"store", "done"}
  <2> SUFFICES ASSUME FirstEnds
               PROVE  /\ NfcPlaces' /\ returned' \in Seq(BOOLEAN) /\ FaultsReported'
                      /\ nth' = nth + 1 /\ nth' - 1 = nth /\ nth' > 1 /\ nfcPc' \in {"store", "done"}
    OBVIOUS
  <2>1. RecordReturns(written)
    BY <1>2
  <2> QED
    BY <1>1, <1>3, <1>9, <2>1, Returns
<1>12. ~FirstEnds =>
         /\ NfcPlaces' /\ returned' \in Seq(BOOLEAN) /\ FaultsReported'
         /\ nth' = nth /\ nfcPc' = "more"
  <2> SUFFICES ASSUME ~FirstEnds
               PROVE  /\ NfcPlaces' /\ returned' \in Seq(BOOLEAN) /\ FaultsReported'
                      /\ nth' = nth /\ nfcPc' = "more"
    OBVIOUS
  <2>1. nfcPc' = "more" /\ nth' = nth /\ returned' = returned
    BY <1>2 DEF Continue
  <2>2. NfcPlaces'
    BY <1>1, <1>3, <1>4, <2>1 DEF NfcPlaces
  <2>3. FaultsReported'
    BY <1>3, <1>9, <2>1 DEF NfcInv, FaultsReported
  <2> QED
    BY <1>1, <1>3, <2>1, <2>2, <2>3 DEF NfcTyped
<1>13. NfcTyped'
  <2>1. addedPayload' \in 0..255
    BY <1>3, <1>6
  <2> QED
    BY <1>1, <1>3, <1>6, <1>9, <1>10, <1>11, <1>12, <2>1 DEF NfcTyped
<1>15. OnTag'
  <2>1. CASE FirstEnds
    BY <1>11, <2>1 DEF OnTag
  <2>2. CASE ~FirstEnds
    <3>1. page * 16 <= 272 + copy /\ copy <= t /\ page < NfcPages
      <4> HIDE DEF page, copy, t
      <4> QED
        BY <1>4, <1>5, <1>6
    <3> QED
      BY <1>3, <1>12, <2>2, <3>1 DEF OnTag
  <2> QED
    BY <2>1, <2>2
<1>16. NfcRight'
  <2> SUFFICES ASSUME TextsCounted, faults' = 0 PROVE NfcRight'
    BY <1>3 DEF NfcRight
  <2>1. faults = 0 /\ WritePage(page, FirstPage)
    BY <1>9
  <2>2. /\ page * 16 + ptr = a + 2 + h
        /\ StartRight(records, Seen, nth) /\ RightTo(records, Seen, page * 16 + ptr)
    BY <1>1, <2>1 DEF NfcInv, NfcRight, HeadInBuffer
  <2> DEFINE q == page * 16  n == a + 2 + h  m == a + 2 + h + copy
  <2>3. \A b \in 0..(q + 15) : Seen[b] = IF b < q THEN tag[b] ELSE nfcPageBuffer[b - q]
    BY DEF Seen
  <2>4. \A b \in 0..(NfcPages * 16 - 1) : tag'[b] = IF b \in q..(q + 15) THEN FirstPage[b - q] ELSE tag[b]
    BY <1>1, <1>5, <1>6, <2>1, PageWritten
  <2>5. q \in Nat /\ q + 16 <= NfcPages * 16 /\ q + ptr = n /\ RightTo(records, Seen, n)
    <3>1. q \in Nat /\ q + 16 <= NfcPages * 16
      <4>1. page \in 0..(NfcPages - 1) /\ NfcPages \in Nat
        BY <1>4, <1>5
      <4> HIDE DEF page
      <4> QED
        BY <4>1
    <3>2. q + ptr = n
      BY <2>2
    <3> HIDE DEF n, q, ptr
    <3>3. RightTo(records, Seen, q + ptr)
      BY <2>2 DEF q
    <3> QED
      BY <3>1, <3>2, <3>3
  <2>6. \A o \in 0..15 : o \in Offsets
    BY DEF Offsets, NFC_PAGE_SIZE
  <2>7. n \in Nat /\ m \in Nat /\ n <= m /\ m <= s + 2 /\ m = n + copy /\ m <= q + 16
    <3> HIDE DEF page, ptr, a, h, copy, t, s, q
    <3> QED
      BY <1>4, <1>6, <2>5
  <2> HIDE DEF page, ptr, a, h, copy, t, s, q, n, m
  <2>8. ASSUME NEW b \in 0..(n - 1) PROVE tag'[b] = Seen[b]
    <3>1. b \in Int /\ b \in 0..(q + 15) /\ b \in 0..(NfcPages * 16 - 1) /\ b < q + ptr
      BY <1>4, <1>6, <2>5, <2>7
    <3>2. CASE b < q
      <4>1. b \notin q..(q + 15)
        BY <2>5, <3>1, <3>2
      <4> QED
        BY <2>3, <2>4, <3>1, <3>2, <4>1
    <3>3. CASE b >= q
      <4> DEFINE o == b - q
      <4>1. o \in 0..15 /\ o < ptr /\ b \in q..(q + 15) /\ ~(b < q)
        BY <1>6, <2>5, <3>1, <3>3
      <4>2. Seen[b] = nfcPageBuffer[o] /\ tag'[b] = FirstPage[o]
        BY <2>3, <2>4, <3>1, <4>1
      <4> HIDE DEF o
      <4> QED
        BY <1>6, <2>6, <4>1, <4>2
    <3> QED
      BY <2>5, <3>1, <3>2, <3>3
  <2>9. ASSUME NEW b \in n..(m - 1) PROVE tag'[b] = Text(nth, b - n)
    <3> DEFINE o == b - q
    <3>1. o \in 0..15 /\ o >= ptr /\ o < ptr + copy /\ b \in q..(q + 15) /\ b \in 0..(NfcPages * 16 - 1) /\ o - ptr = b - n
      BY <1>4, <1>6, <2>5, <2>7
    <3>2. tag'[b] = FirstPage[o]
      BY <2>4, <3>1
    <3> HIDE DEF o
    <3>3. FirstPage[o] = Text(nth, o - ptr)
      BY <1>6, <2>6, <3>1
    <3> QED
      BY <3>1, <3>2, <3>3
  <2>10. StartRight(records, tag', nth) /\ RightTo(records, tag', m)
    <3>1. n >= TotalTo[nth - 1] + 2 + records[nth].head /\ m <= TotalTo[nth] + 2
      BY <2>7 DEF n, a, h, s
    <3>2. \A b \in n..(m - 1) : tag'[b] = Text(nth, b - (TotalTo[nth - 1] + 2 + records[nth].head))
      BY <2>9 DEF n, a, h
    <3> QED
      BY <1>1, <2>2, <2>5, <2>7, <2>8, <3>1, <3>2, TextFollows
  <2>11. CASE FirstEnds
    <3>1. m = s + 2
      BY <1>4, <1>7, <2>11 DEF m
    <3>2. tag'[s + 2] = End
      <4>1. m = q + (ptr + copy) /\ ptr + copy \in 0..15
        <5>1. ptr \in 0..16 /\ copy \in Nat /\ q \in Nat /\ n = q + ptr /\ m = n + copy
          BY <1>4, <1>6, <2>5, <2>7
        <5>2. ptr + copy < 16
          BY <1>6, <1>7, <2>11
        <5> QED
          BY <5>1, <5>2
      <4>2. m \in q..(q + 15) /\ m \in 0..(NfcPages * 16 - 1) /\ m - q = ptr + copy
        <5>1. q + 16 <= NfcPages * 16 /\ q \in Nat /\ NfcPages * 16 \in Int
          BY <1>4, <2>5
        <5> HIDE DEF copy
        <5>2. m = q + (ptr + copy) /\ ptr + copy \in Int /\ 0 <= ptr + copy /\ ptr + copy <= 15
          BY <4>1
        <5> DEFINE e == ptr + copy  end == NfcPages * 16
        <5>3. q + 16 <= end /\ q \in Nat /\ end \in Int /\ m = q + e /\ e \in Int /\ 0 <= e /\ e <= 15
          BY <5>1, <5>2
        <5> HIDE DEF e, end
        <5>4. m \in q..(q + 15) /\ m \in 0..(end - 1) /\ m - q = e
          BY <5>3
        <5> QED
          BY <5>4 DEF e, end
      <4>3. tag'[m] = FirstPage[m - q]
        BY <2>4, <4>2
      <4> QED
        BY <1>6, <2>11, <3>1, <4>2, <4>3
    <3>3. RecordsKept'
      <4>1. StartRight(records, tag', nth) /\ RightTo(records, tag', TotalTo[nth] + 2) /\ tag'[TotalTo[nth] + 2] = End
        BY <2>10, <3>1, <3>2 DEF s
      <4>2. records' = records /\ TotalTo' = TotalTo /\ nth' - 1 = nth
        BY <1>3, <1>11, <2>11
      <4> QED
        BY <4>1, <4>2 DEF RecordsKept
    <3>4. nfcPc' \in {"store", "done"}
      BY <1>11, <2>11
    <3> QED
      BY <3>3, <3>4 DEF NfcRight, PlaceFound, HeaderRead, HeaderWritten, HeadInBuffer,
         PagesWritten, Overrun
  <2>12. CASE ~FirstEnds
    <3>1. m = q + 16
      BY <1>6, <2>5, <2>7, <2>12
    <3>2. PagesWritten'
      <4>1. addPage'.page * 16 + 16 = m
        BY <1>3, <3>1 DEF q, page
      <4>2. addPage'.page * 16 + 16 = TotalTo[nth - 1] + 2 + records[nth].head + addedPayload'
        BY <1>3, <4>1 DEF m, a, h, copy
      <4>3. records' = records /\ TotalTo' = TotalTo /\ nth' = nth
        BY <1>3, <1>12, <2>12
      <4> QED
        BY <2>10, <4>1, <4>2, <4>3 DEF PagesWritten
    <3>3. nfcPc' = "more"
      BY <1>12, <2>12
    <3> QED
      BY <3>2, <3>3 DEF NfcRight, RecordsKept, PlaceFound, HeaderRead, HeaderWritten,
         HeadInBuffer, Overrun
  <2> QED
    BY <2>11, <2>12
<1> QED
  BY <1>11, <1>12, <1>13, <1>15, <1>16 DEF NfcInv

(* A page of what is left of a text, as it is written.                     *)
LeftOf == records[nth].text - addedPayload

(* It holds what is left, and the end byte when there is room.             *)
LEMMA FollowingIs ==
  ASSUME NfcInv, nfcPc = "more"
  PROVE  /\ LeftOf \in Nat
         /\ FollowingPage(LeftOf) \in [Offsets -> Bytes]
         /\ \A o \in Offsets : o < LeftOf => FollowingPage(LeftOf)[o] = Text(nth, addedPayload + o)
         /\ LeftOf < 16 => FollowingPage(LeftOf)[LeftOf] = End
<1> DEFINE left == LeftOf  n == IF left < 16 THEN left ELSE 16
           bytes == TextFrom(nth, addedPayload, n)
           body == Over(ZeroPage, 0, bytes)
           page == FollowingPage(left)
<1>1. NfcTyped /\ nfcPc # "done"
  BY DEF NfcInv
<1>2. records[nth].text \in Nat /\ Len(records) \in Nat /\ addedPayload \in Nat
      /\ addedPayload <= records[nth].text /\ records[nth].text < 256
  BY <1>1, NthOK DEF NfcInv, NfcTyped, OnTag
<1>3. left \in Nat /\ addedPayload + left < 256
  BY <1>2 DEF LeftOf
<1>4. page = IF left < 16 THEN [body EXCEPT ![left] = End] ELSE body
  BY DEF FollowingPage, Smaller, NFC_PAGE_SIZE
<1> HIDE DEF left
<1>5. n \in 0..16 /\ n \in Nat /\ n <= left /\ (left < 16 => n = left) /\ (left >= 16 => n = 16)
  BY <1>3
<1> HIDE DEF n
<1>n. addedPayload + n <= 256
  BY <1>2, <1>3, <1>5
<1>6. /\ DOMAIN bytes = 0..(n - 1)
      /\ \A o \in 0..(n - 1) : bytes[o] = Text(nth, addedPayload + o) /\ bytes[o] \in Bytes /\ bytes[o] # Start
  BY <1>1, <1>2, <1>5, <1>n, TextFromIs
<1> HIDE DEF bytes
<1>7. \A o \in Offsets : o \in 0..15
  BY DEF Offsets, NFC_PAGE_SIZE
<1>8. \A o \in 0..15 : o \in Offsets
  BY DEF Offsets, NFC_PAGE_SIZE
<1>9. Zero \in Bytes /\ End \in Bytes /\ End # Start /\ \A o \in Offsets : ZeroPage[o] = Zero
  BY <1>2, BytesAre DEF ZeroPage
<1>10. body \in [Offsets -> Bytes]
  <2>1. \A o \in Offsets : ZeroPage[o] \in Bytes
    BY <1>9
  <2>2. 0 \in Int /\ n \in Int
    BY <1>5
  <2> QED
    BY <1>6, <2>1, <2>2, OverIs
<1>11. ASSUME NEW o \in Offsets, o < n PROVE body[o] = bytes[o] /\ o \in 0..(n - 1)
  <2>1. o \in 0..(n - 1) /\ o - 0 = o
    BY <1>5, <1>7, <1>11
  <2>2. body[o] = IF o - 0 \in 0..(n - 1) THEN bytes[o - 0] ELSE ZeroPage[o]
    BY <1>6 DEF Over
  <2> QED
    BY <2>1, <2>2
<1> HIDE DEF body
<1>12. page \in [Offsets -> Bytes] /\ \A o \in Offsets : page[o] = IF left < 16 /\ o = left THEN End ELSE body[o]
  BY <1>4, <1>9, <1>10
<1> HIDE DEF page
<1>13. ASSUME NEW o \in Offsets, o < left PROVE page[o] = Text(nth, addedPayload + o) /\ page[o] # Start
  <2>1. o \in 0..15
    BY <1>7
  <2>2. o < n /\ o # left
    BY <1>3, <1>5, <1>13, <2>1
  <2>3. page[o] = bytes[o] /\ o \in 0..(n - 1)
    BY <1>11, <1>12, <2>2
  <2> QED
    BY <1>6, <2>3
<1>14. ASSUME left < 16 PROVE page[left] = End
  <2>1. left \in Offsets
    BY <1>3, <1>8, <1>14
  <2> QED
    BY <1>12, <1>14, <2>1
<1> QED
  BY <1>3, <1>12, <1>13, <1>14 DEF left, page

(* addedPayload after the page, and whether it was the last.               *)
NextAdded == IF LeftOf = 0 THEN addedPayload ELSE (addedPayload + 16) % 256

NextEnds == LeftOf = 0 \/ NextAdded > records[nth].text

(* The count does not wrap for a text of 240 bytes, whose pages are on the *)
(* tag, and the last of them is the one with room for the end byte.        *)
LEMMA NextIs ==
  ASSUME NfcInv, nfcPc = "more"
  PROVE  /\ NextAdded \in 0..255 /\ (~NextEnds => NextAdded <= records[nth].text)
         /\ addPage.page \in 0..(NfcPages - 1)
         /\ records[nth].text <= 240 =>
              /\ addPage.page + 1 < NfcPages /\ (NextEnds <=> LeftOf < 16)
              /\ ~NextEnds => NextAdded = addedPayload + 16
                             /\ (addPage.page + 1) * 16 <= 272 + NextAdded
<1> DEFINE t == records[nth].text  old == addedPayload  k == addPage.page  left == LeftOf  new == NextAdded
<1>1. t \in Nat /\ t < 256 /\ NfcPages \in Nat /\ NfcPages >= 34
  BY NthOK, NfcAssumption
<1>2. k \in 0..NfcPages /\ old \in 0..255 /\ k < NfcPages /\ old <= t /\ (t <= 240 => k * 16 <= 272 + old)
  BY DEF NfcInv, NfcTyped, OnTag
<1>3. left = t - old /\ new = (IF left = 0 THEN old ELSE (old + 16) % 256) /\ (NextEnds <=> left = 0 \/ new > t)
  BY DEF LeftOf, NextAdded, NextEnds
<1> HIDE DEF t, old, k, left, new
<1>4. left \in Nat /\ new \in 0..255 /\ (~NextEnds => new <= t) /\ k \in 0..(NfcPages - 1)
  BY <1>1, <1>2, <1>3
<1>5. ASSUME t <= 240
      PROVE  /\ k + 1 < NfcPages /\ (NextEnds <=> left < 16)
             /\ ~NextEnds => new = old + 16 /\ (k + 1) * 16 <= 272 + new
  <2>1. k <= 32
    BY <1>2, <1>5
  <2>2. left # 0 => new = old + 16
    BY <1>1, <1>2, <1>3, <1>5
  <2>3. NextEnds <=> left < 16
    BY <1>1, <1>2, <1>3, <2>2
  <2>4. ~NextEnds => new = old + 16
    BY <1>3, <2>2
  <2>5. ~NextEnds => (k + 1) * 16 <= 272 + new
    BY <1>2, <1>5, <2>4
  <2> QED
    BY <1>1, <1>2, <2>1, <2>3, <2>4, <2>5
<1> QED
  BY <1>4, <1>5 DEF t, old, k, left, new

(* A page more of a text is written, or the end byte alone.                *)
LEMMA WriteNextKeeps == ASSUME NfcInv, WriteNextPage PROVE NfcInv'
<1> DEFINE p == addPage.page + 1  h == records[nth].head  t == records[nth].text  a == TotalTo[nth - 1]
           left == LeftOf  s == TotalTo[nth]  page == FollowingPage(LeftOf)
<1>1. NfcTyped /\ NfcPlaces /\ nfcPc = "more"
  BY DEF NfcInv, WriteNextPage
<1>2. PICK written \in BOOLEAN :
        /\ IF written THEN p < NfcPages /\ WritePage(p, page) /\ UNCHANGED faults
           ELSE UNCHANGED tag /\ IF p < NfcPages THEN Fault ELSE UNCHANGED faults
        /\ IF ~written \/ NextEnds THEN RecordReturns(written) ELSE Continue
        /\ nfcPageBuffer' \in {ZeroPage, page}
  BY DEF WriteNextPage, NextEnds, NextAdded, LeftOf, NFC_PAGE_SIZE
<1>3. /\ addedPayload' = NextAdded /\ addPage' = [addPage EXCEPT !.page = p]
      /\ records' = records /\ header' = header /\ payloadPtr' = payloadPtr
      /\ TotalTo' = TotalTo /\ Bytes' = Bytes /\ TextsCounted' = TextsCounted
  BY RowStays DEF WriteNextPage, NextAdded, LeftOf, NFC_PAGE_SIZE
<1>4. /\ nth \in 1..Len(records) /\ Len(records) \in Nat /\ NfcPages \in Nat
      /\ h \in {5, 7} /\ t \in Nat /\ a \in Nat /\ s \in Nat /\ s = a + h + t /\ s + 2 < NfcPages * 16
      /\ TextsCounted => t <= 240
  BY <1>1, NthOK
<1>5. /\ addPage \in [page : 0..NfcPages, usedBytes : 0..255] /\ addedPayload \in Nat
      /\ addedPayload <= t /\ left = t - addedPayload
  <2>1. addPage \in [page : 0..NfcPages, usedBytes : 0..255] /\ addedPayload \in 0..255
    BY <1>1 DEF NfcTyped
  <2>2. addedPayload <= t /\ left = t - addedPayload
    BY <1>1 DEF NfcInv, OnTag, LeftOf
  <2> QED
    BY <2>1, <2>2
<1>n. /\ NextAdded \in 0..255 /\ (~NextEnds => NextAdded <= t) /\ addPage.page \in 0..(NfcPages - 1)
      /\ t <= 240 =>
           /\ p < NfcPages /\ (NextEnds <=> left < 16)
           /\ ~NextEnds => NextAdded = addedPayload + 16 /\ p * 16 <= 272 + NextAdded
  BY <1>1, NextIs
<1>6. /\ left \in Nat /\ page \in [Offsets -> Bytes]
      /\ \A o \in Offsets : o < left => page[o] = Text(nth, addedPayload + o)
      /\ left < 16 => page[left] = End
  BY <1>1, FollowingIs
<1>7. p \in 0..NfcPages /\ (p < NfcPages => p \in 0..(NfcPages - 1))
  <2>1. addPage.page \in 0..(NfcPages - 1) /\ NfcPages \in Nat
    BY <1>4, <1>n
  <2> QED
    BY <2>1
<1>8. faults \in 0..MaxFaults /\ MaxFaults \in Nat
  BY <1>1, NfcAssumption DEF NfcTyped
<1>9. /\ faults' \in 0..MaxFaults /\ (faults > 0 => faults' > 0) /\ (TextsCounted /\ ~written => faults' > 0)
      /\ (TextsCounted /\ faults' = 0 => faults = 0 /\ written /\ p < NfcPages /\ WritePage(p, page))
  <2>1. CASE written
    BY <1>2, <1>8, <2>1
  <2>2. CASE ~written
    <3>1. IF p < NfcPages THEN Fault ELSE UNCHANGED faults
      BY <1>2, <2>2
    <3>2. TextsCounted => p < NfcPages
      BY <1>4, <1>n
    <3> HIDE DEF p
    <3> QED
      BY <1>8, <2>2, <3>1, <3>2 DEF Fault
  <2> QED
    BY <2>1, <2>2
<1>10. tag' \in [0..(NfcPages * 16 - 1) -> Bytes]
  <2>1. CASE p < NfcPages /\ WritePage(p, page)
    BY <1>1, <1>6, <1>7, <2>1, PageWritten
  <2>2. CASE tag' = tag
    BY <1>1, <2>2 DEF NfcTyped
  <2> QED
    BY <1>2, <2>1, <2>2
<1>11. ~written \/ NextEnds =>
         /\ NfcPlaces' /\ returned' \in Seq(BOOLEAN) /\ FaultsReported'
         /\ nth' = nth + 1 /\ nth' - 1 = nth /\ nth' > 1 /\ nfcPc' \in {"store", "done"}
  <2> SUFFICES ASSUME ~written \/ NextEnds
               PROVE  /\ NfcPlaces' /\ returned' \in Seq(BOOLEAN) /\ FaultsReported'
                      /\ nth' = nth + 1 /\ nth' - 1 = nth /\ nth' > 1 /\ nfcPc' \in {"store", "done"}
    OBVIOUS
  <2>1. RecordReturns(written)
    BY <1>2
  <2> QED
    BY <1>1, <1>3, <1>9, <2>1, Returns
<1>12. ~(~written \/ NextEnds) =>
         /\ NfcPlaces' /\ returned' \in Seq(BOOLEAN) /\ FaultsReported'
         /\ nth' = nth /\ nfcPc' = "more"
  <2> SUFFICES ASSUME ~(~written \/ NextEnds)
               PROVE  /\ NfcPlaces' /\ returned' \in Seq(BOOLEAN) /\ FaultsReported'
                      /\ nth' = nth /\ nfcPc' = "more"
    OBVIOUS
  <2>1. nfcPc' = "more" /\ nth' = nth /\ returned' = returned
    BY <1>2 DEF Continue
  <2>2. NfcPlaces'
    BY <1>1, <1>3, <1>4, <2>1 DEF NfcPlaces
  <2>3. FaultsReported'
    BY <1>3, <1>9, <2>1 DEF NfcInv, FaultsReported
  <2> QED
    BY <1>1, <1>3, <2>1, <2>2, <2>3 DEF NfcTyped
<1>13. addPage' \in [page : 0..NfcPages, usedBytes : 0..255] /\ addPage'.page = p
  BY <1>3, <1>5, <1>7
<1>14. NfcTyped'
  <2>1. addedPayload' \in 0..255
    BY <1>3, <1>n
  <2>2. nfcPageBuffer' \in [Offsets -> Bytes]
    <3>1. Zero \in Bytes
      BY <1>4, BytesAre
    <3>2. ZeroPage \in [Offsets -> Bytes]
      BY <3>1 DEF ZeroPage
    <3> QED
      BY <1>2, <1>6, <3>2
  <2> QED
    BY <2>2, <1>1, <1>3, <1>9, <1>10, <1>11, <1>12, <1>13, <2>1 DEF NfcTyped
<1>16. OnTag'
  <2>1. CASE ~written \/ NextEnds
    BY <1>11, <2>1 DEF OnTag
  <2>2. CASE ~(~written \/ NextEnds)
    <3>1. p < NfcPages /\ NextAdded <= t /\ (t <= 240 => p * 16 <= 272 + NextAdded)
      BY <1>2, <1>n, <2>2
    <3> QED
      BY <1>3, <1>12, <1>13, <2>2, <3>1 DEF OnTag
  <2> QED
    BY <2>1, <2>2
<1>17. NfcRight'
  <2> SUFFICES ASSUME TextsCounted, faults' = 0 PROVE NfcRight'
    BY <1>3 DEF NfcRight
  <2>1. faults = 0 /\ written /\ p < NfcPages /\ WritePage(p, page)
    BY <1>3, <1>9
  <2>c. (NextEnds <=> left < 16) /\ (~NextEnds => NextAdded = addedPayload + 16)
    BY <1>3, <1>4, <1>n
  <2> DEFINE q == p * 16  k == addPage.page * 16 + 16
             m == IF left < 16 THEN q + left ELSE q + 16
  <2>2. k = a + 2 + h + addedPayload /\ StartRight(records, tag, nth) /\ RightTo(records, tag, k)
    BY <1>1, <2>1 DEF NfcInv, NfcRight, PagesWritten
  <2>3. \A b \in 0..(NfcPages * 16 - 1) : tag'[b] = IF b \in q..(q + 15) THEN page[b - q] ELSE tag[b]
    BY <1>1, <1>6, <1>7, <2>1, PageWritten
  <2>4. q = k /\ q \in Nat /\ q + 16 <= NfcPages * 16
    <3> DEFINE old == addPage.page
    <3>1. p = old + 1 /\ k = old * 16 + 16 /\ old \in 0..(NfcPages - 1)
      BY <1>n
    <3>2. p \in 0..(NfcPages - 1) /\ q = p * 16
      BY <1>7, <2>1
    <3>3. NfcPages \in Nat
      BY <1>4
    <3> HIDE DEF p, k, q, old
    <3> QED
      BY <3>1, <3>2, <3>3
  <2>5. \A o \in 0..15 : o \in Offsets
    BY DEF Offsets, NFC_PAGE_SIZE
  <2> HIDE DEF p, h, t, a, left, s, page, q, k
  <2>6. m \in Nat /\ q <= m /\ m <= q + 16 /\ m <= q + left
    BY <1>6, <2>4
  <2>n. m = IF left < 16 THEN q + left ELSE q + 16
    OBVIOUS
  <2> HIDE DEF m
  <2>7. m <= s + 2 /\ q + left = s + 2 /\ q >= a + 2 + h
    BY <1>4, <1>5, <1>6, <2>2, <2>4, <2>6
  <2>8. ASSUME NEW b \in 0..(q - 1) PROVE tag'[b] = tag[b]
    <3>1. b \in 0..(NfcPages * 16 - 1) /\ b \notin q..(q + 15)
      BY <1>4, <2>4
    <3> QED
      BY <2>3, <3>1
  <2>9. ASSUME NEW b \in q..(m - 1) PROVE tag'[b] = Text(nth, b - (a + 2 + h))
    <3> DEFINE o == b - q
    <3>1. o \in 0..15 /\ o < left /\ b \in q..(q + 15) /\ b \in 0..(NfcPages * 16 - 1)
      BY <1>4, <1>6, <2>4, <2>6
    <3>2. addedPayload + o = b - (a + 2 + h)
      BY <1>4, <1>5, <2>2, <2>4
    <3>3. tag'[b] = page[o]
      BY <2>3, <3>1
    <3> HIDE DEF o
    <3> QED
      BY <1>6, <2>5, <3>1, <3>2, <3>3
  <2>10. StartRight(records, tag', nth) /\ RightTo(records, tag', m)
    <3>1. q >= TotalTo[nth - 1] + 2 + records[nth].head /\ m <= TotalTo[nth] + 2
      BY <2>7 DEF a, h, s
    <3>2. \A b \in q..(m - 1) : tag'[b] = Text(nth, b - (TotalTo[nth - 1] + 2 + records[nth].head))
      BY <2>9 DEF a, h
    <3>3. StartRight(records, tag, nth) /\ RightTo(records, tag, q)
      BY <2>2, <2>4
    <3> QED
      BY <1>1, <2>4, <2>6, <2>8, <3>1, <3>2, <3>3, TextFollows
  <2>11. CASE left < 16
    <3>1. m = s + 2
      BY <2>7, <2>11, <2>n
    <3>2. tag'[s + 2] = End
      <4>1. m \in q..(q + 15) /\ m \in 0..(NfcPages * 16 - 1) /\ m - q = left
        BY <1>4, <1>6, <2>4, <2>11, <2>n
      <4>2. tag'[m] = page[m - q]
        BY <2>3, <4>1
      <4> QED
        BY <1>6, <2>11, <3>1, <4>1, <4>2
    <3>3. RecordsKept'
      <4>1. StartRight(records, tag', nth) /\ RightTo(records, tag', TotalTo[nth] + 2) /\ tag'[TotalTo[nth] + 2] = End
        BY <2>10, <3>1, <3>2 DEF s
      <4>2. records' = records /\ TotalTo' = TotalTo /\ nth' - 1 = nth
        BY <1>3, <1>11, <2>11, <2>c
      <4> QED
        BY <4>1, <4>2 DEF RecordsKept
    <3>4. nfcPc' \in {"store", "done"}
      BY <1>11, <2>11, <2>c
    <3> QED
      BY <3>3, <3>4 DEF NfcRight, PlaceFound, HeaderRead, HeaderWritten, HeadInBuffer,
         PagesWritten, Overrun
  <2>12. CASE ~(left < 16)
    <3>1. m = q + 16
      BY <2>12, <2>n
    <3>2. PagesWritten'
      <4>1. addPage'.page * 16 + 16 = m
        BY <1>13, <3>1 DEF q
      <4>2. m = a + 2 + h + addedPayload'
        <5> DEFINE new == addedPayload'  old == addedPayload
        <5>1. new = old + 16 /\ old \in Nat
          BY <1>3, <1>5, <2>12, <2>c
        <5>2. a \in Nat /\ h \in Nat /\ q \in Nat /\ q = a + 2 + h + old
          BY <1>4, <2>2, <2>4
        <5> HIDE DEF new, old
        <5>3. m = a + 2 + h + new
          BY <3>1, <5>1, <5>2
        <5> QED
          BY <5>3 DEF new
      <4>3. records' = records /\ TotalTo' = TotalTo /\ nth' = nth
        BY <1>3, <1>12, <2>1, <2>12, <2>c
      <4>4. m = TotalTo[nth - 1] + 2 + records[nth].head + addedPayload'
        BY <4>2 DEF a, h
      <4> QED
        BY <2>10, <4>1, <4>3, <4>4 DEF PagesWritten
    <3>3. nfcPc' = "more"
      BY <1>12, <2>1, <2>12, <2>c
    <3> QED
      BY <3>2, <3>3 DEF NfcRight, RecordsKept, PlaceFound, HeaderRead, HeaderWritten,
         HeadInBuffer, Overrun
  <2> QED
    BY <2>11, <2>12
<1> QED
  BY <1>11, <1>12, <1>14, <1>16, <1>17 DEF NfcInv

(* Every step keeps the inductive invariant.                               *)
LEMMA NfcInvariance == NfcSpec => []NfcInv
<1>1. NfcInit => NfcInv
  BY NfcBegins
<1>2. NfcInv /\ [NfcNext]_nfcVars => NfcInv'
  <2> SUFFICES ASSUME NfcInv, [NfcNext]_nfcVars PROVE NfcInv'
    OBVIOUS
  <2>1. CASE firstRecord
    BY <2>1, FirstRecordKeeps
  <2>2. CASE FindEnd
    BY <2>2, FindEndKeeps
  <2>3. CASE ReadHeader
    BY <2>3, ReadHeaderKeeps
  <2>4. CASE WriteHeader
    BY <2>4, WriteHeaderKeeps
  <2>5. CASE HeadFits
    BY <2>5, HeadFitsKeeps
  <2>6. CASE HeadDivided
    BY <2>6, HeadDividedKeeps
  <2>7. CASE HeadBehindBuffer
    BY <2>7, HeadBehindKeeps
  <2>8. CASE WriteFirstPage
    BY <2>8, WriteFirstKeeps
  <2>9. CASE WriteNextPage
    BY <2>9, WriteNextKeeps
  <2>10. CASE UNCHANGED nfcVars
    <3>1. /\ TotalTo' = TotalTo /\ Bytes' = Bytes /\ TextsCounted' = TextsCounted
          /\ UNCHANGED <<records, nth, nfcPc, tag, nfcPageBuffer>>
          /\ UNCHANGED <<addPage, header, payloadPtr, addedPayload, returned, faults>>
      BY <2>10, RowStays DEF nfcVars
    <3>3. NfcTyped' /\ NfcPlaces'
      BY <3>1 DEF NfcInv, NfcTyped, NfcPlaces
    <3>4. FaultsReported'
      BY <3>1 DEF NfcInv, FaultsReported
    <3>5. OnTag'
      BY <3>1 DEF NfcInv, OnTag
    <3>6. NfcRight'
      BY <3>1 DEF NfcInv, NfcRight, RecordsKept, PlaceFound, HeaderRead, HeaderWritten,
         HeadInBuffer,
         PagesWritten, Overrun, EndAt, Seen
    <3> QED
      BY <3>3, <3>4, <3>5, <3>6 DEF NfcInv
  <2> QED
    BY <2>1, <2>2, <2>3, <2>4, <2>5, <2>6, <2>7, <2>8, <2>9, <2>10 DEF NfcNext
<1> QED
  BY <1>1, <1>2, PTL DEF NfcSpec

(* Whatever an earlier run left on a tag of 34 pages at least, and however *)
(* the count of a text's bytes wraps, the places of a page, of its buffer  *)
(* and of the text stay in their ranges; the head and the text stay in the *)
(* page buffer unless usedBytes wrapped (addRecord, writeUserPayload).     *)
THEOREM NfcTypeCorrect == NfcSpec => []NfcTypeOK
<1>1. NfcInv => NfcTypeOK
  <2> SUFFICES ASSUME NfcInv PROVE NfcTypeOK
    OBVIOUS
  <2>1. NfcTyped /\ NfcPlaces
    BY DEF NfcInv
  <2>2. \A b \in DOMAIN tag : tag[b].r \in 0..Len(records)
    BY <2>1 DEF NfcTyped, Bytes
  <2> QED
    BY <2>1, <2>2 DEF NfcTypeOK, NfcTyped, NfcPlaces, NFC_PAGE_SIZE
<1> QED
  BY <1>1, NfcInvariance, PTL

(* The bytes of a record are the ones the tag should hold.                 *)
LEMMA RecordByteIs ==
  ASSUME NfcTyped, NEW r \in 1..Len(records), NEW o \in 0..(Size(records[r]) - 1), NEW marks \in 0..255,
         marks = MarksOf(records, r)
  PROVE  RecordByte(r, o, marks) = ByteOf(records, r, o)
<1>1. records[r].head \in {5, 7} /\ records[r].text \in Nat
  BY RowHere, RecordOK
<1> DEFINE h == records[r].head
<1>2. h \in Nat /\ h > 2 /\ o \in Nat
  BY <1>1
<1>3. CASE o = 0
  <2>1. RecordByte(r, o, marks) = Head4(r, marks)[0]
    BY <1>2, <1>3 DEF RecordByte
  <2> QED
    BY <1>3, <2>1, HeadIs DEF ByteOf
<1>4. CASE o > 0 /\ o < h
  <2>1. RecordByte(r, o, marks) = Head4(r, marks)[o] /\ o \in 1..(h - 1)
    BY <1>2, <1>4 DEF RecordByte
  <2> QED
    BY <2>1, HeadIs
<1>5. CASE o >= h
  <2>1. ~(o < h) /\ o # 0 /\ o # 2
    BY <1>2, <1>5
  <2> QED
    BY <2>1 DEF RecordByte, ByteOf, Text
<1> QED
  BY <1>2, <1>3, <1>4, <1>5

(* After the last record, without a fault, the tag holds all of them.      *)
LEMMA WholeTag == ASSUME NfcInv, TextsCounted, nfcPc = "done", faults = 0 PROVE TagHoldsRecords
<1> DEFINE L == Len(records)
<1>1. NfcTyped /\ NfcPlaces /\ RecordsKept
  BY DEF NfcInv, NfcRight
<1>2. RowOK(records) /\ TotalTo = Totals(records) /\ L \in Nat \ {0}
  BY <1>1, RowHere
<1>3. nth = L + 1 /\ nth - 1 = L /\ nth > 1
  BY <1>1, <1>2 DEF NfcPlaces
<1>4. StartRight(records, tag, L) /\ RightTo(records, tag, TotalTo[L] + 2) /\ tag[TotalTo[L] + 2] = End
  BY <1>1, <1>3 DEF RecordsKept
<1>5. ASSUME NEW r \in 1..L, NEW o \in 0..(Size(records[r]) - 1), NEW marks, marks = MarksOf(records, r)
      PROVE  tag[TotalTo[r - 1] + 2 + o] = RecordByte(r, o, marks)
  <2> DEFINE a == TotalTo[r - 1]  s == TotalTo[r]  e == TotalTo[L]  b == a + 2 + o
             h == records[r].head  t == records[r].text
  <2> SUFFICES tag[b] = RecordByte(r, o, marks)
    OBVIOUS
  <2>1. a \in Nat /\ s \in Nat /\ s = a + h + t /\ h \in {5, 7} /\ t \in Nat
    BY <1>2, RecordOK
  <2>2. e \in Nat /\ s <= e
    BY <1>2, RecordOK DEF RowOK
  <2>3. marks \in 0..255
    BY <1>5 DEF MarksOf, MB, ME
  <2>4. RecordByte(r, o, marks) = ByteOf(records, r, o)
    BY <1>1, <1>5, <2>3, RecordByteIs
  <2>5. Size(records[r]) = h + t
    BY DEF Size
  <2>6. o \in Nat /\ o < h + t
    <3>1. o \in 0..((h + t) - 1)
      BY <2>5
    <3> HIDE DEF h, t
    <3> QED
      BY <2>1, <3>1
  <2>7. b \in Nat /\ b >= 2 /\ b < e + 2
    <3> HIDE DEF a, s, e, h, t
    <3> QED
      BY <2>1, <2>2, <2>6
  <2>8. CASE b >= 3
    <3>1. b \in 3..((e + 2) - 1)
      <4> HIDE DEF b, e
      <4> QED
        BY <2>2, <2>7, <2>8
    <3>2. Right(records, b, tag[b])
      BY <1>4, <3>1 DEF RightTo
    <3>3. tag[b] = ByteOf(records, r, o)
      BY <1>2, <3>2 DEF Right
    <3> QED
      BY <2>4, <3>3
  <2>9. CASE b < 3
    <3>1. a = 0 /\ o = 0 /\ b = 2
      <4>1. b = a + 2 + o
        OBVIOUS
      <4> HIDE DEF b, a
      <4> QED
        BY <2>1, <2>6, <2>9, <4>1
    <3>2. r = 1
      <4>1. r > 1 => a >= 5
        BY <1>2, RecordOK
      <4> HIDE DEF a
      <4> QED
        BY <1>2, <3>1, <4>1
    <3>3. tag[2] = Byte("header", 1, IF L = 1 THEN MB + ME ELSE MB)
      BY <1>4 DEF StartRight
    <3>4. MarksOf(records, 1) = IF L = 1 THEN MB + ME ELSE MB
      BY <1>2 DEF MarksOf, MB, ME
    <3>5. ByteOf(records, r, o) = Byte("header", 1, MarksOf(records, 1))
      BY <3>1, <3>2 DEF ByteOf
    <3>6. tag[b] = tag[2]
      BY <3>1
    <3>7. tag[b] = ByteOf(records, r, o)
      BY <3>3, <3>4, <3>5, <3>6
    <3> QED
      BY <2>4, <3>7
  <2> HIDE DEF b, e
  <2> QED
    BY <2>7, <2>8, <2>9
<1>6. tag[0] = Start /\ tag[1] = Length(TotalTo[L])
  BY <1>2, <1>4 DEF StartRight
<1> QED
  BY <1>4, <1>5, <1>6 DEF TagHoldsRecords, MarksOf

(* Whatever the records are, with texts of 240 bytes at most and less than *)
(* 256 bytes in all, and whatever was on the tag before: written without a *)
(* fault they are all on it, byte by byte, and only behind an end byte     *)
(* that is the last of its page is a record's head copied behind the page  *)
(* buffer; a record that is reported as not written met a fault            *)
(* (storeText, storeUrihttp).                                              *)
THEOREM NfcReadable == NfcSpec => []RecordsReadable
<1>1. NfcInv => RecordsReadable
  <2> SUFFICES ASSUME NfcInv, TextsCounted PROVE RecordsReadable
    BY DEF RecordsReadable
  <2>1. \A r \in DOMAIN returned : ~returned[r] => faults > 0
    BY DEF NfcInv, FaultsReported
  <2>2. ASSUME nfcPc = "done", faults = 0
        PROVE  TagHoldsRecords /\ \A r \in DOMAIN returned : returned[r]
    BY <2>1, <2>2, WholeTag
  <2>3. ASSUME nfcPc = "overrun", faults = 0 PROVE (TotalTo[nth - 1] + 3) % 16 = 0
    BY <2>3 DEF NfcInv, NfcRight, Overrun
  <2> QED
    BY <2>1, <2>2, <2>3 DEF RecordsReadable, NFC_PAGE_SIZE
<1> QED
  BY <1>1, NfcInvariance, PTL
=============================================================================
