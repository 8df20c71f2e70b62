-------------------------- MODULE SyntheticVio_proofs --------------------------
(***************************************************************************)
(* What the synthetic VIO node keeps to for every latency, every set of    *)
(* rates, every number of truth messages and every depth of the queue.     *)
(***************************************************************************)
EXTENDS SyntheticVio, QueueLemmas

Datum == [stamp : Time, release : Time, elapsed : Time]

-----------------------------------------------------------------------------
(* Operators.                                                               *)

LEMMA MaxOfTwo ==
  ASSUME NEW a \in Int, NEW b \in Int
  PROVE  Max({a, b}) = IF a <= b THEN b ELSE a
BY SMT DEF Max

\* What is left of a queue whose first k entries were taken.
LEMMA Rest ==
  ASSUME NEW S, NEW q \in Seq(S), NEW k \in 0..Len(q)
  PROVE  /\ SubSeq(q, k + 1, Len(q)) \in Seq(S)
         /\ Len(SubSeq(q, k + 1, Len(q))) = Len(q) - k
         /\ \A i \in 1..(Len(q) - k) : SubSeq(q, k + 1, Len(q))[i] = q[k + i]
BY SMT

\* publish_due_messages() takes entries that are due and stops only at the end
\* of the queue or at an entry that is not.
LEMMA DueCountIs ==
  ASSUME NEW q \in Seq(Datum), NEW time \in Int
  PROVE  /\ DueCount(q, time) \in 0..Len(q)
         /\ \A i \in 1..DueCount(q, time) : q[i].release <= time
         /\ DueCount(q, time) < Len(q) => q[DueCount(q, time) + 1].release > time
<1> DEFINE Due == { k \in 0..Len(q) : \A i \in 1..k : q[i].release <= time }
           Above == { k + 1 : k \in Due }
           d == DueCount(q, time)
<1>1. Len(q) \in Nat /\ 0 \in Due
  OBVIOUS
<1>2. \E k \in Due : \A j \in Due : k >= j
  <2>1. Above \in SUBSET (1..(Len(q) + 1)) /\ Above # {}
    BY <1>1
  <2>2. PICK a \in Above : \A b \in Above : b <= a
    <3>1. Len(q) + 1 \in Nat
      BY <1>1
    <3> HIDE DEF Above
    <3> QED BY <2>1, <3>1, GreatestExists, Zenon
  <2>3. PICK k \in Due : a = k + 1
    OBVIOUS
  <2>4. \A j \in Due : j + 1 \in Above
    OBVIOUS
  <2>5. Due \subseteq Int
    OBVIOUS
  <2> HIDE DEF Due, Above
  <2> QED BY <2>2, <2>3, <2>4, <2>5
<1>3. d \in Due /\ \A j \in Due : d >= j
  <2>1. d = CHOOSE k \in Due : \A j \in Due : k >= j
    BY DEF DueCount, Max
  <2> HIDE DEF Due, d
  <2> QED BY <1>2, <2>1
<1>4. ASSUME d < Len(q)
      PROVE  q[d + 1].release > time
  <2>1. d + 1 \notin Due /\ d \in 0..Len(q)
    BY <1>3
  <2>2. PICK i \in 1..(d + 1) : ~(q[i].release <= time)
    BY <1>4, <2>1
  <2>3. i = d + 1
    <3> HIDE DEF d
    <3> QED BY <1>3, <2>2, <2>1
  <2>4. q[d + 1] \in Datum
    BY <1>4, <2>1, <1>1
  <2> HIDE DEF d
  <2> QED BY <2>2, <2>3, <2>4 DEF Datum, Time
<1> QED BY <1>3, <1>4

-----------------------------------------------------------------------------
(* The inductive invariant.                                                 *)

\* Truth is published until PauseTime only.
Stamp == 0..PauseTime

\* The node runs only with parameters it validated; before, nothing happened.
StartInv ==
  /\ life = "running" => ValidParameters(parameters) /\ model = SelectModel(parameters)
  /\ life # "running" =>
       /\ truth = <<>> /\ pending = <<>> /\ faults = {}
       /\ initialized = FALSE

\* previous_stamp_ is the highest stamp accepted, and nothing else was added to
\* the drift than the steps between such stamps.
DriftInv ==
  /\ latest \in Stamp /\ first \in 0..latest
  /\ initialized => previous = latest /\ elapsed = latest - first
  /\ ~initialized => elapsed = 0 /\ latest = 0 /\ pending = <<>>

\* Whatever waits does so for the latency, and without one nothing waits.
PendingInv ==
  /\ truth \in Seq(Stamp)
  /\ model.latency = 0 => pending = <<>>
  /\ \A i \in 1..Len(pending) :
       /\ pending[i].stamp \in Stamp
       /\ pending[i].release = pending[i].stamp + model.latency
       /\ pending[i].elapsed <= elapsed

\* As long as the simulator is not reset stamps come in order, and nothing has
\* a stamp of the future.
OrderInv ==
  resets = 0 =>
    /\ clock <= now
    /\ \A i \in 1..Len(truth) : truth[i] <= now
    /\ \A i \in 1..Len(pending) : pending[i].stamp <= now
    /\ \A i, j \in 1..Len(truth) : i <= j => truth[i] <= truth[j]
    /\ \A i, j \in 1..Len(pending) : i <= j => pending[i].stamp <= pending[j].stamp
    /\ \A i \in 1..Len(pending) : \A j \in 1..Len(truth) : pending[i].stamp <= truth[j]

\* The faults there were, by the model the node runs with.
FaultInv ==
  /\ "dropout" \in faults => model.dropout > 0
  /\ "outlier" \in faults => model.outlier > 0
  /\ "late" \in faults => model.latency > 0

IInv == TypeOK /\ StartInv /\ DriftInv /\ PendingInv /\ OrderInv /\ FaultInv /\ NothingDueIsLeft

LEMMA Constants ==
  /\ MaxLatency \in Nat /\ PauseTime \in Nat /\ MaxTime \in Nat
  /\ PauseTime + MaxLatency <= MaxTime
  /\ Stamp \subseteq Time /\ Time \subseteq Nat /\ 0 \in Stamp
BY VioAssumption DEF Stamp, Time

\* The latency of the running node is one it validated.
LEMMA ModelIs ==
  ASSUME TypeOK, StartInv
  PROVE  /\ model.latency \in Int /\ model.dropout \in Int /\ model.outlier \in Int
         /\ life = "running" => model.latency \in 0..MaxLatency
<1>1. /\ parameters.nominal \in NoiseModel /\ parameters.stress \in NoiseModel
      /\ model \in NoiseModel \union {NoFaults}
  BY DEF TypeOK, Parameters
<1>2. \A m \in NoiseModel \union {NoFaults} :
        /\ m.latency \in -1..MaxLatency /\ m.dropout \in Int /\ m.outlier \in Int
  <2>1. \A m \in NoiseModel : m.latency \in -1..MaxLatency /\ m.dropout \in Nat /\ m.outlier \in Nat
    BY VioAssumption DEF NoiseModel
  <2>2. 0 \in -1..MaxLatency
    BY Constants
  <2> QED BY <2>1, <2>2 DEF NoFaults
<1>3. life = "running" => model \in {parameters.nominal, parameters.stress}
  BY DEF StartInv, SelectModel
<1>4. life = "running" => model.latency >= 0
  BY <1>3 DEF StartInv, ValidParameters
<1> QED BY <1>1, <1>2, <1>4, Constants

-----------------------------------------------------------------------------
(* What the steps that take truth have in common.                           *)

\* drift_ after a stamp: the span still, and never less than before.
LEMMA DriftStep ==
  ASSUME TypeOK, DriftInv, NEW stamp \in Stamp, Drift(stamp), Seen(stamp)
  PROVE  /\ latest' \in Stamp /\ first' \in 0..latest'
         /\ initialized' = TRUE /\ previous' = latest' /\ elapsed' = latest' - first'
         /\ previous' \in Time /\ elapsed' \in Time /\ elapsed <= elapsed'
<1>1. /\ previous \in Nat /\ elapsed \in Nat /\ latest \in Stamp /\ first \in 0..latest
      /\ stamp \in Nat /\ initialized \in BOOLEAN
  BY Constants DEF TypeOK, DriftInv
<1>2. latest' = IF latest <= stamp THEN stamp ELSE latest
  BY <1>1, Constants, MaxOfTwo DEF Seen
<1>3. CASE initialized
  <2>1. /\ initialized' = TRUE
        /\ previous' = IF Max({0, stamp - previous}) > 0 THEN stamp ELSE previous
        /\ elapsed' = elapsed + Max({0, stamp - previous})
        /\ first' = first
    BY <1>3 DEF Drift, Seen
  <2>2. Max({0, stamp - previous}) = IF 0 <= stamp - previous THEN stamp - previous ELSE 0
    BY <1>1, MaxOfTwo
  <2>3. previous = latest /\ elapsed = latest - first
    BY <1>3 DEF DriftInv
  <2> QED BY <1>1, <1>2, <2>1, <2>2, <2>3, Constants DEF Stamp, Time
<1>4. CASE ~initialized
  <2>1. /\ initialized' = TRUE
        /\ previous' = IF Max({0, stamp - stamp}) > 0 THEN stamp ELSE stamp
        /\ elapsed' = elapsed + Max({0, stamp - stamp})
        /\ first' = stamp
    BY <1>4 DEF Drift, Seen
  <2>2. Max({0, stamp - stamp}) = 0
    BY <1>1, MaxOfTwo
  <2>3. latest = 0 /\ elapsed = 0
    BY <1>4 DEF DriftInv
  <2> QED BY <1>1, <1>2, <2>1, <2>2, <2>3, Constants DEF Stamp, Time
<1> QED BY <1>3, <1>4

\* A message taken is from a past in which truth was published.
LEMMA TakeStep ==
  ASSUME TypeOK, PendingInv, Take
  PROVE  /\ Head(truth) \in Stamp /\ Head(truth) = truth[1] /\ Len(truth) \in Nat \ {0}
         /\ truth' \in Seq(Stamp) /\ Len(truth') = Len(truth) - 1 /\ Len(truth') <= Depth
         /\ \A i \in 1..Len(truth') : truth'[i] = truth[i + 1]
<1>1. truth \in Seq(Stamp) /\ truth # <<>> /\ truth' = Tail(truth) /\ Len(truth) <= Depth
  BY DEF Take, PendingInv, TypeOK
<1> QED BY <1>1, HeadTail, VioAssumption

\* The queue and the topic stay in order when a message is taken.
LEMMA OrderAfterTake ==
  ASSUME TypeOK, PendingInv, OrderInv, Take, UNCHANGED <<pending, clock, now, resets>>
  PROVE  OrderInv'
<1>1. /\ Len(truth) \in Nat \ {0} /\ Len(truth') = Len(truth) - 1
      /\ \A i \in 1..Len(truth') : truth'[i] = truth[i + 1]
  BY TakeStep
<1>2. \A i \in 1..Len(truth') : i + 1 \in 1..Len(truth)
  BY <1>1
<1>3. \A i, j \in 1..Len(truth') : i <= j => i + 1 <= j + 1
  BY <1>1
<1> QED BY <1>1, <1>2, <1>3 DEF OrderInv

LEMMA DatumIs ==
  ASSUME NEW m \in Datum
  PROVE  m.stamp \in Nat /\ m.release \in Nat /\ m.elapsed \in Nat
<1>1. m.stamp \in Time /\ m.release \in Time /\ m.elapsed \in Time
  BY DEF Datum
<1> QED BY <1>1, Constants

\* publish_due_messages() publishes from the front, and only what is due.
LEMMA PublishStep ==
  ASSUME NEW queue \in Seq(Datum), NEW time \in Time, Publish(queue, time)
  PROVE  \E k \in 0..Len(queue) :
           /\ pending' \in Seq(Datum) /\ Len(pending') = Len(queue) - k
           /\ \A i \in 1..Len(pending') : pending'[i] = queue[k + i]
           /\ out' = out \union { queue[i].stamp : i \in 1..k }
           /\ \A i \in 1..k : queue[i].release <= time
           /\ k < Len(queue) => queue[k + 1].release > time
           /\ looked' = time
<1>1. time \in Int
  BY Constants
<1>2. /\ DueCount(queue, time) \in 0..Len(queue)
      /\ \A i \in 1..DueCount(queue, time) : queue[i].release <= time
      /\ DueCount(queue, time) < Len(queue) => queue[DueCount(queue, time) + 1].release > time
  BY <1>1, DueCountIs
<1>3. /\ pending' = SubSeq(queue, DueCount(queue, time) + 1, Len(queue))
      /\ out' = out \union { queue[i].stamp : i \in 1..DueCount(queue, time) }
      /\ looked' = time
  BY DEF Publish
<1> DEFINE k == DueCount(queue, time)
<1> HIDE DEF k
<1>4. k \in 0..Len(queue) /\ pending' = SubSeq(queue, k + 1, Len(queue))
  BY <1>2, <1>3 DEF k
<1>5. /\ pending' \in Seq(Datum) /\ Len(pending') = Len(queue) - k
      /\ \A i \in 1..(Len(queue) - k) : pending'[i] = queue[k + i]
  BY <1>4, Rest
<1>6. \A i \in 1..Len(pending') : pending'[i] = queue[k + i]
  BY <1>5
<1>7. out' = out \union { queue[i].stamp : i \in 1..k }
  BY <1>3 DEF k
<1>8. /\ \A i \in 1..k : queue[i].release <= time
      /\ k < Len(queue) => queue[k + 1].release > time
      /\ looked' = time
  BY <1>2, <1>3 DEF k
<1> QED BY <1>4, <1>5, <1>6, <1>7, <1>8

\* What a queue has to keep to when publish_due_messages() is called.
Waiting(queue, total) ==
  \A i \in 1..Len(queue) : /\ queue[i].stamp \in Stamp
                           /\ queue[i].release = queue[i].stamp + model.latency
                           /\ queue[i].elapsed <= total

InOrder(queue) ==
  \A i, j \in 1..Len(queue) : i <= j => queue[i].stamp <= queue[j].stamp

\* It leaves such a queue, and when the queue was in order nothing that is due.
LEMMA PublishKeeps ==
  ASSUME TypeOK, StartInv, life = "running",
         NEW queue \in Seq(Datum), NEW time \in Time, NEW total \in Time,
         Publish(queue, time), Waiting(queue, total)
  PROVE  /\ pending' \in Seq(Datum) /\ Len(pending') \in Nat /\ looked' = time
         /\ Len(pending') <= Len(queue)
         /\ \A i \in 1..Len(pending') : \E j \in 1..Len(queue) : pending'[i] = queue[j]
         /\ \A i \in 1..Len(pending') :
              /\ pending'[i].stamp \in Stamp
              /\ pending'[i].release = pending'[i].stamp + model.latency
              /\ pending'[i].elapsed <= total
         /\ out \subseteq out'
         /\ out \subseteq Time => out' \subseteq Time
         /\ \A stamp \in out' \ out : stamp \in Stamp /\ stamp + model.latency <= time
         /\ queue # <<>> /\ queue[1].release <= time => Len(pending') < Len(queue)
         /\ InOrder(queue) => /\ \A i \in 1..Len(pending') : pending'[i].release > time
                              /\ \A i, j \in 1..Len(pending') :
                                   i <= j => pending'[i].stamp <= pending'[j].stamp
<1> PICK k \in 0..Len(queue) :
      /\ pending' \in Seq(Datum) /\ Len(pending') = Len(queue) - k
      /\ \A i \in 1..Len(pending') : pending'[i] = queue[k + i]
      /\ out' = out \union { queue[i].stamp : i \in 1..k }
      /\ \A i \in 1..k : queue[i].release <= time
      /\ k < Len(queue) => queue[k + 1].release > time
      /\ looked' = time
  BY PublishStep
<1>1. /\ Len(queue) \in Nat /\ model.latency \in Int /\ time \in Int
      /\ \A i \in 1..Len(queue) : queue[i].stamp \in Int /\ queue[i].release \in Int
  <2>1. \A i \in 1..Len(queue) : queue[i] \in Datum
    OBVIOUS
  <2>2. \A m \in Datum : m.stamp \in Int /\ m.release \in Int
    BY DatumIs
  <2>3. Len(queue) \in Nat /\ time \in Int
    BY Constants
  <2> QED BY <2>1, <2>2, <2>3, ModelIs
<1>2. \A i \in 1..Len(pending') : k + i \in 1..Len(queue)
  BY <1>1
<1>3. \A stamp \in out' \ out : \E i \in 1..k : stamp = queue[i].stamp
  OBVIOUS
<1>4. \A i \in 1..k : i \in 1..Len(queue)
  BY <1>1
<1>5. \A stamp \in out' \ out : stamp \in Stamp /\ stamp + model.latency <= time
  BY <1>3, <1>4 DEF Waiting
<1>6. ASSUME queue # <<>>, queue[1].release <= time
      PROVE  Len(pending') < Len(queue)
  BY <1>1, <1>6
<1>7. ASSUME InOrder(queue)
      PROVE  /\ \A i \in 1..Len(pending') : pending'[i].release > time
             /\ \A i, j \in 1..Len(pending') :
                  i <= j => pending'[i].stamp <= pending'[j].stamp
  <2>1. ASSUME NEW i \in 1..Len(pending')
        PROVE  pending'[i].release > time
    <3>1. /\ k + 1 \in 1..Len(queue) /\ k + i \in 1..Len(queue) /\ k + 1 <= k + i
          /\ k < Len(queue)
      BY <1>1
    <3>2. queue[k + 1].stamp <= queue[k + i].stamp
      BY <1>7, <3>1 DEF InOrder
    <3>3. queue[k + 1].release <= queue[k + i].release
      BY <1>1, <3>1, <3>2 DEF Waiting
    <3>4. queue[k + 1].release > time /\ pending'[i] = queue[k + i]
      BY <3>1
    <3> QED BY <1>1, <3>1, <3>3, <3>4
  <2>2. ASSUME NEW i \in 1..Len(pending'), NEW j \in 1..Len(pending'), i <= j
        PROVE  pending'[i].stamp <= pending'[j].stamp
    <3>1. k + i \in 1..Len(queue) /\ k + j \in 1..Len(queue) /\ k + i <= k + j
      BY <1>1, <2>2
    <3> QED BY <1>7, <3>1 DEF InOrder
  <2> QED BY <2>1, <2>2
<1>8. \A i \in 1..Len(pending') :
        /\ pending'[i].stamp \in Stamp
        /\ pending'[i].release = pending'[i].stamp + model.latency
        /\ pending'[i].elapsed <= total
  BY <1>2 DEF Waiting
<1>9. out \subseteq out' /\ (out \subseteq Time => out' \subseteq Time)
  BY <1>5, Constants
<1>10. Len(pending') \in Nat /\ Len(pending') <= Len(queue)
  BY <1>1
<1>11. \A i \in 1..Len(pending') : \E j \in 1..Len(queue) : pending'[i] = queue[j]
  BY <1>2
<1> QED BY <1>11, <1>5, <1>6, <1>7, <1>8, <1>9, <1>10

-----------------------------------------------------------------------------
(* The invariant is inductive.                                              *)

LEMMA InitIInv == Init => IInv
<1> SUFFICES ASSUME Init PROVE IInv
  OBVIOUS
<1>1. TypeOK
  <2>1. parameters \in Parameters /\ model \in NoiseModel \union {NoFaults} /\ 0 \in Time
    BY Constants DEF Init, OneFaulty
  <2>2. 0 \in 0..MaxTruths /\ 0 \in 0..MaxResets /\ 0 <= Depth
    BY VioAssumption
  <2>3. /\ pending \in Seq([stamp : Time, release : Time, elapsed : Time])
        /\ truth \in Seq(Time) /\ Len(truth) = 0
    BY DEF Init
  <2> QED BY <2>1, <2>2, <2>3 DEF Init, TypeOK
<1>2. StartInv /\ DriftInv /\ FaultInv
  BY Constants DEF Init, StartInv, DriftInv, FaultInv
<1>3. PendingInv /\ OrderInv /\ NothingDueIsLeft
  BY Constants DEF Init, PendingInv, OrderInv, NothingDueIsLeft
<1> QED BY <1>1, <1>2, <1>3 DEF IInv

\* The parts of the state no callback writes.
Outside == <<node, now, sent, resets, clock>>

\* The queue as Measure hands it over.
LEMMA MeasureStep ==
  ASSUME IInv, Measure
  PROVE  IInv' /\ (\A stamp \in out' \ out : resets = 0 => stamp + model.latency <= now)
<1> DEFINE h == Head(truth)
           m == Measurement(h)
           queue == Append(pending, m)
<1>1. /\ TypeOK /\ StartInv /\ DriftInv /\ PendingInv /\ OrderInv /\ FaultInv
  BY DEF IInv
<1>2. /\ Take /\ h # 0 /\ Drift(h) /\ Seen(h) /\ Publish(queue, h)
      /\ UNCHANGED Outside
      /\ faults' \subseteq faults \union Late \union {"outlier"}
      /\ "outlier" \in faults' \ faults => TRUE \in Draws(model.outlier)
  BY DEF Measure, Outside, Late
<1>3. life = "running" /\ UNCHANGED <<life, parameters, model, now, sent, resets, clock>>
  BY <1>2 DEF Take, Outside, node
<1>4. /\ h \in Stamp /\ h = truth[1] /\ Len(truth) \in Nat \ {0}
      /\ truth' \in Seq(Stamp) /\ Len(truth') = Len(truth) - 1 /\ Len(truth') <= Depth
      /\ \A i \in 1..Len(truth') : truth'[i] = truth[i + 1]
  BY <1>1, <1>2, TakeStep
<1>5. /\ latest' \in Stamp /\ first' \in 0..latest'
      /\ initialized' = TRUE /\ previous' = latest' /\ elapsed' = latest' - first'
      /\ previous' \in Time /\ elapsed' \in Time /\ elapsed <= elapsed'
  BY <1>1, <1>2, <1>4, DriftStep
<1>6. m \in Datum /\ m.stamp = h /\ m.release = h + model.latency /\ m.elapsed = elapsed'
  <2>1. m = [stamp |-> h, release |-> h + model.latency, elapsed |-> elapsed']
    BY DEF Measurement, Release
  <2>2. model.latency \in 0..MaxLatency
    BY <1>1, <1>3, ModelIs
  <2>3. h + model.latency \in Time /\ h \in Time
    <3> HIDE DEF h
    <3> QED BY <1>4, <2>2, Constants DEF Stamp, Time
  <2> HIDE DEF m, h
  <2> QED BY <2>1, <2>3, <1>5 DEF Datum
<1> HIDE DEF m, h
<1>7. /\ queue \in Seq(Datum) /\ Len(pending) \in Nat /\ Len(queue) = Len(pending) + 1
      /\ queue[Len(pending) + 1] = m
      /\ \A i \in 1..Len(pending) : queue[i] = pending[i]
  <2>1. pending \in Seq(Datum)
    BY <1>1 DEF TypeOK, Datum
  <2> QED BY <1>6, <2>1, AppendAdds
<1> HIDE DEF queue
<1>8. Waiting(queue, elapsed')
  <2>1. ASSUME NEW i \in 1..Len(pending)
        PROVE  /\ queue[i].stamp \in Stamp
               /\ queue[i].release = queue[i].stamp + model.latency
               /\ queue[i].elapsed <= elapsed'
    <3>1. pending[i].elapsed <= elapsed
      BY <1>1 DEF PendingInv
    <3>2. pending[i].elapsed \in Int /\ elapsed \in Int /\ elapsed' \in Int
      <4>1. pending \in Seq(Datum) /\ elapsed \in Time
        BY <1>1 DEF TypeOK, Datum
      <4>2. pending[i] \in Datum
        BY <4>1
      <4> QED BY <1>5, <4>1, <4>2, DatumIs, Constants
    <3>3. pending[i].elapsed <= elapsed'
      <4>1. elapsed <= elapsed'
        BY <1>5
      <4> QED BY <3>1, <3>2, <4>1
    <3> QED BY <1>1, <1>7, <3>3 DEF PendingInv
  <2>2. elapsed' <= elapsed'
    <3>1. elapsed' \in Int
      BY <1>5, Constants
    <3> QED BY <3>1
  <2> QED BY <1>4, <1>6, <1>7, <2>1, <2>2 DEF Waiting
<1>9. resets = 0 => InOrder(queue)
  <2> SUFFICES ASSUME resets = 0, NEW i \in 1..Len(queue), NEW j \in 1..Len(queue), i <= j
               PROVE  queue[i].stamp <= queue[j].stamp
    BY DEF InOrder
  <2>1. CASE j \in 1..Len(pending)
    <3>1. i \in 1..Len(pending)
      BY <1>7, <2>1
    <3> QED BY <1>1, <1>7, <2>1, <3>1 DEF OrderInv
  <2>2. CASE j = Len(pending) + 1 /\ i \in 1..Len(pending)
    <3>1. pending[i].stamp <= truth[1]
      BY <1>1, <1>4, <2>2 DEF OrderInv
    <3> QED BY <1>4, <1>6, <1>7, <2>2, <3>1
  <2>3. CASE j = Len(pending) + 1 /\ i = Len(pending) + 1
    BY <1>4, <1>6, <1>7, <2>3, Constants DEF Stamp
  <2> QED BY <1>7, <2>1, <2>2, <2>3
<1>10. /\ pending' \in Seq(Datum) /\ Len(pending') \in Nat /\ looked' = h
       /\ \A i \in 1..Len(pending') : \E j \in 1..Len(queue) : pending'[i] = queue[j]
       /\ \A i \in 1..Len(pending') :
            /\ pending'[i].stamp \in Stamp
            /\ pending'[i].release = pending'[i].stamp + model.latency
            /\ pending'[i].elapsed <= elapsed'
       /\ out' \subseteq Time
       /\ \A stamp \in out' \ out : stamp \in Stamp /\ stamp + model.latency <= h
       /\ queue # <<>> /\ queue[1].release <= h => Len(pending') < Len(queue)
       /\ InOrder(queue) => /\ \A i \in 1..Len(pending') : pending'[i].release > h
                            /\ \A i, j \in 1..Len(pending') :
                                 i <= j => pending'[i].stamp <= pending'[j].stamp
  <2>1. h \in Time /\ out \subseteq Time
    BY <1>1, <1>4, Constants DEF TypeOK
  <2> QED BY <1>1, <1>2, <1>3, <1>5, <1>7, <1>8, <2>1, PublishKeeps
<1>11. model.latency = 0 => pending' = <<>>
  <2> SUFFICES ASSUME model.latency = 0 PROVE pending' = <<>>
    OBVIOUS
  <2>1. pending = <<>>
    BY <1>1 DEF PendingInv
  <2>2. Len(queue) = 1 /\ queue[1] = m /\ queue # <<>>
    BY <1>7, <2>1
  <2>3. queue[1].release <= h
    BY <1>4, <1>6, <2>2, Constants DEF Stamp
  <2>4. Len(pending') = 0
    BY <1>10, <2>2, <2>3
  <2> QED BY <1>10, <2>4
<1>12. TypeOK'
  <2>1. faults' \subseteq {"dropout", "outlier", "late"}
    BY <1>1, <1>2 DEF TypeOK, Late
  <2>2. truth' \in Seq(Time) /\ looked' \in Time /\ first' \in Time /\ latest' \in Time
    BY <1>4, <1>5, <1>10, Constants DEF Stamp, Time
  <2> QED BY <1>1, <1>3, <1>4, <1>5, <1>10, <2>1, <2>2 DEF TypeOK, Datum
<1>13. StartInv' /\ DriftInv'
  BY <1>1, <1>3, <1>5 DEF StartInv, DriftInv
<1>14. PendingInv'
  BY <1>3, <1>4, <1>10, <1>11 DEF PendingInv
<1>15. OrderInv'
  <2> SUFFICES ASSUME resets = 0 PROVE OrderInv'
    BY <1>3 DEF OrderInv
  <2>1. \A i \in 1..Len(truth') : i + 1 \in 1..Len(truth) /\ 1 \in 1..Len(truth) /\ 1 <= i + 1
    BY <1>4
  <2>2. \A i \in 1..Len(truth') : truth'[i] <= now
    BY <1>1, <1>4, <2>1 DEF OrderInv
  <2>3. \A i, j \in 1..Len(truth') : i <= j => truth'[i] <= truth'[j]
    <3>1. \A i, j \in 1..Len(truth') : i <= j => i + 1 <= j + 1
      BY <1>4
    <3> QED BY <1>1, <1>4, <2>1, <3>1 DEF OrderInv
  <2>4. \A k \in 1..Len(queue) : \A j \in 1..Len(truth') : queue[k].stamp <= truth'[j]
    <3> TAKE k \in 1..Len(queue)
    <3> TAKE j \in 1..Len(truth')
    <3>1. CASE k \in 1..Len(pending)
      BY <1>1, <1>4, <1>7, <2>1, <3>1 DEF OrderInv
    <3>2. CASE k = Len(pending) + 1
      BY <1>1, <1>4, <1>6, <1>7, <2>1, <3>2 DEF OrderInv
    <3> QED BY <1>7, <3>1, <3>2
  <2>5. \A i \in 1..Len(pending') : \A j \in 1..Len(truth') : pending'[i].stamp <= truth'[j]
    BY <1>10, <2>4
  <2>6. \A k \in 1..Len(queue) : queue[k].stamp <= now
    BY <1>1, <1>4, <1>6, <1>7 DEF OrderInv
  <2>7. \A i \in 1..Len(pending') : pending'[i].stamp <= now
    BY <1>10, <2>6
  <2> QED BY <1>1, <1>3, <1>9, <1>10, <2>2, <2>3, <2>5, <2>7 DEF OrderInv
<1>16. FaultInv'
  <2>1. "outlier" \in faults' => model.outlier > 0
    BY <1>1, <1>2, ModelIs DEF FaultInv, Draws
  <2>2. "dropout" \in faults' => model.dropout > 0
    BY <1>1, <1>2 DEF FaultInv, Late
  <2>3. "late" \in faults' => model.latency > 0
    <3>1. "late" \in faults' => "late" \in faults \/ pending' # <<>>
      BY <1>2 DEF Late
    <3>2. model.latency \in 0..MaxLatency
      BY <1>1, <1>3, ModelIs
    <3> QED BY <1>1, <1>11, <3>1, <3>2, Constants DEF FaultInv
  <2> QED BY <1>3, <2>1, <2>2, <2>3 DEF FaultInv
<1>17. NothingDueIsLeft'
  BY <1>3, <1>9, <1>10 DEF NothingDueIsLeft
<1>18. ASSUME NEW stamp \in out' \ out, resets = 0
       PROVE  stamp + model.latency <= now
  <2>1. h <= now
    BY <1>1, <1>4, <1>18 DEF OrderInv
  <2>2. stamp + model.latency <= h /\ stamp \in Stamp
    BY <1>10
  <2> QED BY <1>1, <1>4, <2>1, <2>2, ModelIs, Constants DEF TypeOK, Stamp, Time
<1> QED BY <1>12, <1>13, <1>14, <1>15, <1>16, <1>17, <1>18 DEF IInv

LEMMA TimerStep ==
  ASSUME IInv, Timer
  PROVE  IInv' /\ (\A stamp \in out' \ out : resets = 0 => stamp + model.latency <= now)
<1>1. /\ TypeOK /\ StartInv /\ DriftInv /\ PendingInv /\ OrderInv /\ FaultInv
  BY DEF IInv
<1>2. /\ life = "running" /\ Publish(pending, clock)
      /\ UNCHANGED <<life, parameters, model, initialized, previous, elapsed, clock>>
      /\ UNCHANGED <<now, truth, sent, resets, first, latest, faults>>
  BY DEF Timer, node, drift, sim, seen
<1>3. /\ pending \in Seq(Datum) /\ Len(pending) \in Nat
      /\ clock \in Time /\ elapsed \in Time /\ out \subseteq Time
  BY <1>1 DEF TypeOK, Datum
<1>4. Waiting(pending, elapsed)
  BY <1>1 DEF PendingInv, Waiting
<1>5. resets = 0 => InOrder(pending)
  BY <1>1 DEF OrderInv, InOrder
<1>6. /\ pending' \in Seq(Datum) /\ Len(pending') \in Nat /\ looked' = clock
      /\ Len(pending') <= Len(pending)
      /\ \A i \in 1..Len(pending') : \E j \in 1..Len(pending) : pending'[i] = pending[j]
      /\ \A i \in 1..Len(pending') :
           /\ pending'[i].stamp \in Stamp
           /\ pending'[i].release = pending'[i].stamp + model.latency
           /\ pending'[i].elapsed <= elapsed
      /\ out' \subseteq Time
      /\ \A stamp \in out' \ out : stamp \in Stamp /\ stamp + model.latency <= clock
      /\ InOrder(pending) => /\ \A i \in 1..Len(pending') : pending'[i].release > clock
                             /\ \A i, j \in 1..Len(pending') :
                                  i <= j => pending'[i].stamp <= pending'[j].stamp
  BY <1>1, <1>2, <1>3, <1>4, PublishKeeps
<1>7. pending = <<>> => pending' = <<>>
  <2>1. pending = <<>> => Len(pending') = 0
    BY <1>6
  <2> QED BY <1>6, <2>1
<1>8. TypeOK'
  BY <1>1, <1>2, <1>6, <1>3 DEF TypeOK, Datum
<1>9. StartInv' /\ DriftInv' /\ FaultInv'
  BY <1>1, <1>2, <1>7 DEF StartInv, DriftInv, FaultInv
<1>10. PendingInv'
  BY <1>1, <1>2, <1>6, <1>7 DEF PendingInv
<1>11. OrderInv'
  <2> SUFFICES ASSUME resets = 0 PROVE OrderInv'
    BY <1>2 DEF OrderInv
  <2>1. \A i \in 1..Len(pending') : \A j \in 1..Len(truth') : pending'[i].stamp <= truth'[j]
    BY <1>1, <1>2, <1>6 DEF OrderInv
  <2>2. \A i \in 1..Len(pending') : pending'[i].stamp <= now
    BY <1>1, <1>6 DEF OrderInv
  <2> QED BY <1>1, <1>2, <1>5, <1>6, <2>1, <2>2 DEF OrderInv
<1>12. NothingDueIsLeft'
  BY <1>2, <1>5, <1>6 DEF NothingDueIsLeft
<1>13. ASSUME NEW stamp \in out' \ out, resets = 0
       PROVE  stamp + model.latency <= now
  <2>1. clock <= now /\ clock \in Int /\ now \in Int
    BY <1>1, <1>13, Constants DEF OrderInv, TypeOK
  <2>2. stamp + model.latency <= clock /\ stamp \in Int /\ model.latency \in Int
    BY <1>1, <1>6, ModelIs, Constants
  <2> QED BY <2>1, <2>2
<1> QED BY <1>8, <1>9, <1>10, <1>11, <1>12, <1>13 DEF IInv

LEMMA DroppedStep ==
  ASSUME IInv, TruthDropped
  PROVE  IInv' /\ out' = out
<1>1. /\ TypeOK /\ StartInv /\ DriftInv /\ PendingInv /\ OrderInv /\ FaultInv
      /\ NothingDueIsLeft
  BY DEF IInv
<1>2. /\ Take /\ Drift(Head(truth)) /\ Seen(Head(truth)) /\ TRUE \in Draws(model.dropout)
      /\ faults' = faults \union {"dropout"}
      /\ UNCHANGED <<life, parameters, model, pending, out, looked, clock, now, sent, resets>>
  BY DEF TruthDropped, node, published
<1>3. life = "running"
  BY <1>2 DEF Take
<1>4. /\ Head(truth) \in Stamp /\ truth' \in Seq(Stamp) /\ Len(truth') <= Depth
  BY <1>1, <1>2, TakeStep
<1>5. /\ latest' \in Stamp /\ first' \in 0..latest'
      /\ initialized' = TRUE /\ previous' = latest' /\ elapsed' = latest' - first'
      /\ previous' \in Time /\ elapsed' \in Time /\ elapsed <= elapsed'
  BY <1>1, <1>2, <1>4, DriftStep
<1>6. TypeOK'
  <2>1. truth' \in Seq(Time) /\ first' \in Time /\ latest' \in Time
    BY <1>4, <1>5, Constants DEF Stamp, Time
  <2> QED BY <1>1, <1>2, <1>4, <1>5, <2>1 DEF TypeOK
<1>7. StartInv' /\ DriftInv'
  BY <1>1, <1>2, <1>3, <1>5 DEF StartInv, DriftInv
<1>8. PendingInv'
  <2>1. ASSUME NEW i \in 1..Len(pending)
        PROVE  pending[i].elapsed <= elapsed'
    <3>1. pending \in Seq(Datum) /\ elapsed \in Time
      BY <1>1 DEF TypeOK, Datum
    <3>2. pending[i] \in Datum
      BY <3>1
    <3>3. pending[i].elapsed \in Int /\ elapsed \in Int /\ elapsed' \in Int
      BY <1>5, <3>1, <3>2, DatumIs, Constants
    <3>4. pending[i].elapsed <= elapsed /\ elapsed <= elapsed'
      BY <1>1, <1>5 DEF PendingInv
    <3> QED BY <3>3, <3>4
  <2> QED BY <1>1, <1>2, <1>4, <2>1 DEF PendingInv
<1>9. OrderInv'
  BY <1>1, <1>2, OrderAfterTake
<1>10. FaultInv'
  <2>1. model.dropout > 0
    BY <1>1, <1>2, ModelIs DEF Draws
  <2> QED BY <1>1, <1>2, <2>1 DEF FaultInv
<1>11. NothingDueIsLeft'
  BY <1>1, <1>2 DEF NothingDueIsLeft
<1> QED BY <1>2, <1>6, <1>7, <1>8, <1>9, <1>10, <1>11 DEF IInv

LEMMA IgnoredStep ==
  ASSUME IInv, TruthIgnored
  PROVE  IInv' /\ out' = out
<1>1. /\ TypeOK /\ StartInv /\ DriftInv /\ PendingInv /\ OrderInv /\ FaultInv
      /\ NothingDueIsLeft
  BY DEF IInv
<1>2. /\ Take
      /\ UNCHANGED <<life, parameters, model, initialized, previous, elapsed>>
      /\ UNCHANGED <<pending, out, looked, clock, now, sent, resets, first, latest, faults>>
  BY DEF TruthIgnored, node, drift, published, seen
<1>3. /\ life = "running" /\ truth' \in Seq(Stamp) /\ Len(truth') <= Depth
  BY <1>1, <1>2, TakeStep DEF Take
<1>4. truth' \in Seq(Time)
  BY <1>3, Constants DEF Stamp, Time
<1>5. TypeOK' /\ StartInv' /\ DriftInv' /\ FaultInv' /\ NothingDueIsLeft'
  BY <1>1, <1>2, <1>3, <1>4 DEF TypeOK, StartInv, DriftInv, FaultInv, NothingDueIsLeft
<1>6. PendingInv'
  BY <1>1, <1>2, <1>3 DEF PendingInv
<1>7. OrderInv'
  BY <1>1, <1>2, OrderAfterTake
<1> QED BY <1>2, <1>5, <1>6, <1>7 DEF IInv

LEMMA StartStep ==
  ASSUME IInv, Start
  PROVE  IInv' /\ out' = out
<1>1. /\ TypeOK /\ StartInv /\ DriftInv /\ PendingInv /\ OrderInv /\ FaultInv
      /\ NothingDueIsLeft
  BY DEF IInv
<1>2. /\ UNCHANGED <<parameters, initialized, previous, elapsed, pending, out, looked>>
      /\ UNCHANGED <<clock, now, truth, sent, resets, first, latest, faults>>
  BY DEF Start, drift, published, sim, seen
<1>3. life = "unstarted" /\ pending = <<>> /\ truth = <<>> /\ faults = {}
      /\ initialized = FALSE
  BY <1>1 DEF Start, StartInv
<1>4. \/ life' = "running" /\ ValidParameters(parameters) /\ model' = SelectModel(parameters)
      \/ life' = "threw" /\ model' = model
  BY DEF Start
<1>5. model' \in NoiseModel \union {NoFaults}
  <2>1. SelectModel(parameters) \in NoiseModel
    BY <1>1 DEF TypeOK, Parameters, SelectModel
  <2> QED BY <1>1, <1>4, <2>1 DEF TypeOK
<1>6. TypeOK'
  BY <1>1, <1>2, <1>4, <1>5 DEF TypeOK
<1>7. StartInv' /\ DriftInv' /\ FaultInv' /\ NothingDueIsLeft'
  BY <1>1, <1>2, <1>3, <1>4 DEF StartInv, DriftInv, FaultInv, NothingDueIsLeft
<1>8. PendingInv' /\ OrderInv'
  BY <1>1, <1>2, <1>3 DEF PendingInv, OrderInv
<1> QED BY <1>2, <1>6, <1>7, <1>8 DEF IInv

LEMMA SimulatorStep ==
  ASSUME IInv, Tick \/ ClockMessage \/ ResetSimulator
  PROVE  IInv' /\ out' = out
<1>1. /\ TypeOK /\ StartInv /\ DriftInv /\ PendingInv /\ OrderInv /\ FaultInv
      /\ NothingDueIsLeft
  BY DEF IInv
<1>2. /\ UNCHANGED <<life, parameters, model, initialized, previous, elapsed, pending>>
      /\ UNCHANGED <<out, looked, truth, sent, first, latest, faults>>
  BY DEF Tick, ClockMessage, ResetSimulator, node, drift, published, sim, seen
<1>3. \/ now < MaxTime /\ now' = now + 1 /\ UNCHANGED <<clock, resets>>
      \/ clock' = now /\ UNCHANGED <<now, resets>>
      \/ now' = 0 /\ resets < MaxResets /\ resets' = resets + 1 /\ UNCHANGED clock
  BY DEF Tick, ClockMessage, ResetSimulator, sim
<1>4. now \in Nat /\ clock \in Nat /\ resets \in Nat
  BY <1>1, Constants, VioAssumption DEF TypeOK
<1>5. now' \in Time /\ clock' \in Time /\ resets' \in 0..MaxResets
  BY <1>1, <1>3, VioAssumption DEF TypeOK, Time
<1>6. TypeOK'
  BY <1>1, <1>2, <1>5 DEF TypeOK
<1>7. StartInv' /\ DriftInv' /\ FaultInv' /\ PendingInv'
  BY <1>1, <1>2 DEF StartInv, DriftInv, FaultInv, PendingInv
<1>8. resets' = 0 => resets = 0 /\ now <= now'
  BY <1>3, <1>4
<1>9. NothingDueIsLeft'
  BY <1>1, <1>2, <1>8 DEF NothingDueIsLeft
<1>10. OrderInv'
  <2> SUFFICES ASSUME resets' = 0 PROVE OrderInv'
    BY DEF OrderInv
  <2>1. clock' <= now'
    BY <1>1, <1>3, <1>4, <1>8 DEF OrderInv
  <2>2. ASSUME NEW i \in 1..Len(truth)
        PROVE  truth[i] <= now'
    <3>1. truth[i] \in Stamp /\ truth[i] <= now
      BY <1>1, <1>8 DEF PendingInv, OrderInv
    <3> QED BY <1>4, <1>5, <1>8, <3>1, Constants DEF Stamp, Time
  <2>3. ASSUME NEW i \in 1..Len(pending)
        PROVE  pending[i].stamp <= now'
    <3>1. pending[i].stamp \in Stamp /\ pending[i].stamp <= now
      BY <1>1, <1>8 DEF PendingInv, OrderInv
    <3> QED BY <1>4, <1>5, <1>8, <3>1, Constants DEF Stamp, Time
  <2> QED BY <1>1, <1>2, <1>8, <2>1, <2>2, <2>3 DEF OrderInv
<1> QED BY <1>2, <1>6, <1>7, <1>9, <1>10 DEF IInv

LEMMA PublishedStep ==
  ASSUME IInv, TruthPublished
  PROVE  IInv' /\ out' = out
<1>1. /\ TypeOK /\ StartInv /\ DriftInv /\ PendingInv /\ OrderInv /\ FaultInv
      /\ NothingDueIsLeft
  BY DEF IInv
<1> DEFINE kept == IF Len(truth) < Depth THEN truth ELSE Tail(truth)
           cut == IF Len(truth) < Depth THEN 0 ELSE 1
<1>2. /\ life = "running" /\ now <= PauseTime /\ sent < MaxTruths /\ sent' = sent + 1
      /\ truth' = Append(kept, now)
      /\ UNCHANGED <<life, parameters, model, initialized, previous, elapsed, pending>>
      /\ UNCHANGED <<out, looked, clock, now, resets, first, latest, faults>>
  BY DEF TruthPublished, node, drift, published, seen
<1>3. now \in Stamp /\ truth \in Seq(Stamp) /\ Len(truth) \in 0..Depth /\ Depth \in Nat \ {0}
      /\ now \in Nat
  <2>1. now \in Nat /\ truth \in Seq(Stamp) /\ Len(truth) <= Depth
    BY <1>1, Constants DEF TypeOK, PendingInv
  <2> QED BY <1>2, <2>1, Constants, VioAssumption DEF Stamp
<1>4. /\ kept \in Seq(Stamp) /\ Len(kept) = Len(truth) - cut /\ Len(kept) < Depth
      /\ cut \in {0, 1} /\ \A i \in 1..Len(kept) : kept[i] = truth[i + cut]
  <2>1. CASE Len(truth) < Depth
    BY <1>3, <2>1
  <2>2. CASE ~(Len(truth) < Depth)
    <3>1. truth # <<>> /\ Len(truth) = Depth
      BY <1>3, <2>2
    <3> QED BY <1>3, <2>2, <3>1, HeadTail
  <2> QED BY <2>1, <2>2
<1> HIDE DEF kept, cut
<1>5. /\ truth' \in Seq(Stamp) /\ Len(truth') = Len(kept) + 1 /\ Len(kept) \in Nat
      /\ truth'[Len(kept) + 1] = now
      /\ \A i \in 1..Len(kept) : truth'[i] = kept[i]
  BY <1>2, <1>3, <1>4, AppendAdds
<1>6. TypeOK'
  <2>1. truth' \in Seq(Time)
    BY <1>5, Constants DEF Stamp, Time
  <2>2. Len(truth') <= Depth /\ sent' \in 0..MaxTruths
    BY <1>1, <1>2, <1>3, <1>4, <1>5, VioAssumption DEF TypeOK
  <2> QED BY <1>1, <1>2, <2>1, <2>2 DEF TypeOK
<1>7. StartInv' /\ DriftInv' /\ FaultInv' /\ NothingDueIsLeft'
  BY <1>1, <1>2 DEF StartInv, DriftInv, FaultInv, NothingDueIsLeft
<1>8. PendingInv'
  BY <1>1, <1>2, <1>5 DEF PendingInv
<1>9. OrderInv'
  <2> SUFFICES ASSUME resets = 0 PROVE OrderInv'
    BY <1>2 DEF OrderInv
  <2>1. \A i \in 1..Len(kept) : i + cut \in 1..Len(truth)
    BY <1>3, <1>4
  <2>2. \A i \in 1..Len(kept) : truth'[i] <= now
    BY <1>1, <1>4, <1>5, <2>1 DEF OrderInv
  <2>3. \A i \in 1..Len(truth') : i \in 1..Len(kept) \/ i = Len(kept) + 1
    BY <1>5
  <2>4. \A i \in 1..Len(truth') : truth'[i] <= now
    BY <1>3, <1>5, <2>2, <2>3
  <2>5. ASSUME NEW i \in 1..Len(truth'), NEW j \in 1..Len(truth'), i <= j
        PROVE  truth'[i] <= truth'[j]
    <3>1. CASE j \in 1..Len(kept)
      <4>1. i \in 1..Len(kept) /\ i + cut <= j + cut
        BY <1>4, <1>5, <2>5, <3>1
      <4> QED BY <1>1, <1>4, <1>5, <2>1, <3>1, <4>1 DEF OrderInv
    <3>2. CASE j = Len(kept) + 1
      BY <1>5, <2>4, <3>2
    <3> QED BY <2>3, <3>1, <3>2
  <2>6. ASSUME NEW i \in 1..Len(pending), NEW j \in 1..Len(truth')
        PROVE  pending[i].stamp <= truth'[j]
    <3>1. CASE j \in 1..Len(kept)
      BY <1>1, <1>4, <1>5, <2>1, <3>1 DEF OrderInv
    <3>2. CASE j = Len(kept) + 1
      <4>1. pending[i].stamp <= now
        BY <1>1 DEF OrderInv
      <4> QED BY <1>5, <3>2, <4>1
    <3> QED BY <2>3, <3>1, <3>2
  <2> QED BY <1>1, <1>2, <2>4, <2>5, <2>6 DEF OrderInv
<1> QED BY <1>2, <1>6, <1>7, <1>8, <1>9 DEF IInv

-----------------------------------------------------------------------------
(* Theorems.                                                                *)

\* LatencyKept, as a step has to keep to it.
NotEarly == \A stamp \in out' \ out : resets = 0 => stamp + model.latency <= now

LEMMA IInvStep ==
  ASSUME IInv, [Next]_vars
  PROVE  IInv' /\ NotEarly
<1>1. CASE Start
  BY <1>1, StartStep DEF NotEarly
<1>2. CASE TruthIgnored
  BY <1>2, IgnoredStep DEF NotEarly
<1>3. CASE TruthDropped
  BY <1>3, DroppedStep DEF NotEarly
<1>4. CASE Measure
  BY <1>4, MeasureStep DEF NotEarly
<1>5. CASE Timer
  BY <1>5, TimerStep DEF NotEarly
<1>6. CASE Tick \/ ClockMessage \/ ResetSimulator
  BY <1>6, SimulatorStep DEF NotEarly
<1>7. CASE TruthPublished
  BY <1>7, PublishedStep DEF NotEarly
<1>8. CASE UNCHANGED vars
  <2>1. /\ UNCHANGED <<life, parameters, model, initialized, previous, elapsed, pending>>
        /\ UNCHANGED <<out, looked, now, truth, sent, resets, clock, first, latest, faults>>
    BY <1>8 DEF vars, node, drift, published, sim, seen
  <2>2. TypeOK' /\ StartInv' /\ DriftInv' /\ FaultInv'
    BY <2>1 DEF IInv, TypeOK, StartInv, DriftInv, FaultInv
  <2>3. PendingInv' /\ OrderInv' /\ NothingDueIsLeft'
    BY <2>1 DEF IInv, PendingInv, OrderInv, NothingDueIsLeft
  <2> QED BY <2>1, <2>2, <2>3 DEF IInv, NotEarly
<1> QED BY <1>1, <1>2, <1>3, <1>4, <1>5, <1>6, <1>7, <1>8 DEF Next, Truth

LEMMA Always == Spec => []IInv
<1>1. IInv /\ [Next]_vars => IInv'
  BY IInvStep
<1> QED BY InitIInv, <1>1, PTL DEF Spec

\* The state of the node, the queue and the topic have their types: times stay
\* within the simulation's, the subscription within its depth.
THEOREM TypeCorrect == Spec => []TypeOK
<1>1. IInv => TypeOK
  BY DEF IInv
<1> QED BY Always, <1>1, PTL

\* Whatever stamps come, in whatever order, elapsed_seconds_ is the span of
\* those accepted, and no waiting measurement was given more drift than that.
THEOREM ElapsedIsSpanAlways == Spec => []ElapsedIsSpan
<1>1. IInv => ElapsedIsSpan
  BY DEF IInv, DriftInv, PendingInv, ElapsedIsSpan
<1> QED BY Always, <1>1, PTL

\* Dropouts, outliers and delays come only from the parameters of the profile
\* the node was started with, and only when they are above zero.
THEOREM OnlyConfiguredAlways == Spec => []OnlyConfigured
<1>1. IInv => OnlyConfigured
  <2> SUFFICES ASSUME IInv PROVE OnlyConfigured
    OBVIOUS
  <2>1. CASE life = "running"
    BY <2>1 DEF IInv, StartInv, FaultInv, SelectModel, OnlyConfigured
  <2>2. CASE life # "running"
    BY <2>2 DEF IInv, StartInv, OnlyConfigured
  <2> QED BY <2>1, <2>2
<1> QED BY Always, <1>1, PTL

\* Until the simulator is reset publish_due_messages() leaves nothing that is
\* due, although it looks at the front of the queue only.
THEOREM NothingDueIsLeftAlways == Spec => []NothingDueIsLeft
<1>1. IInv => NothingDueIsLeft
  BY DEF IInv
<1> QED BY Always, <1>1, PTL

\* Until the simulator is reset no measurement is published before its latency
\* has passed, whether a truth message or the timer releases it.
THEOREM LatencyKeptAlways == Spec => LatencyKept
<1>1. IInv /\ [Next]_vars =>
        [\A stamp \in out' \ out : resets = 0 => stamp + model.latency <= now]_vars
  BY IInvStep DEF NotEarly
<1> QED BY Always, <1>1, PTL DEF Spec, LatencyKept
=============================================================================
