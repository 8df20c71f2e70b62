----------------------------- MODULE SyntheticVio -----------------------------
(***************************************************************************)
(* zed2i::SyntheticVioNode: ground truth of the simulator in, visual       *)
(* odometry with noise, drift, latency, dropouts and outliers out.         *)
(*                                                                         *)
(* rclcpp::spin() runs the truth callback and the 1 ms timer on one        *)
(* thread, so each is one step.  The node's clock follows /clock, which a  *)
(* thread of rclcpp receives between two callbacks.  External: the         *)
(* simulator, which publishes /clock and the truth and may be reset to     *)
(* time zero, and the two best-effort topics.                              *)
(*                                                                         *)
(* A pose is not modelled; of a measurement the model keeps the stamp, the *)
(* release time and the drift time its covariance reports.  A random draw  *)
(* against a probability p, here in percent, is a choice of the outcomes p *)
(* leaves.                                                                 *)
(***************************************************************************)
EXTENDS Integers, Sequences, FiniteSetsExt

CONSTANTS
  MaxLatency,  \* bound on the two latency parameters
  Rates,       \* values configured for the four probabilities, in percent
  PauseTime,   \* the truth publisher falls silent after this time
  MaxTime,     \* bound on the simulator's clock
  MaxTruths,   \* bound on the truth messages, in all
  MaxResets,   \* bound on the resets of the simulator
  Depth        \* messages the truth subscription keeps

ASSUME VioAssumption ==
  /\ MaxLatency \in Nat /\ Rates \subseteq Nat
  /\ PauseTime \in Nat /\ MaxTime \in Nat /\ PauseTime + MaxLatency <= MaxTime
  /\ MaxTruths \in Nat /\ MaxResets \in Nat
  /\ Depth \in Nat \ {0}

VARIABLES
  life,         \* the process, "threw": the constructor did
  parameters,   \* what the node was started with
  model,        \* model_
  initialized,  \* initialized_
  previous,     \* previous_stamp_
  elapsed,      \* elapsed_seconds_, the time over which drift was added
  pending,      \* pending_messages_
  now,          \* the simulator's clock
  clock,        \* the node's clock
  truth,        \* truth messages the subscription holds
  sent,         \* history: truth messages published so far
  resets,       \* history: resets so far
  first,        \* history: the first stamp the node accepted
  latest,       \* history: the highest stamp it accepted
  out,          \* history: stamps published so far
  looked,       \* history: the time publish_due_messages() was last given
  faults        \* history: kinds of fault effects there have been

node == <<life, parameters, model>>
drift == <<initialized, previous, elapsed>>
sim == <<now, truth, sent, resets>>
seen == <<first, latest, faults>>
published == <<pending, out, looked>>
vars == <<node, drift, published, clock, sim, seen>>

Time == 0..MaxTime

-----------------------------------------------------------------------------
(* Start-up.                                                                *)

Profile == {"calibration", "nominal", "validation", "stress", "unknown"}

\* The part of NoiseModel that decides when, and whether, a measurement comes.
NoiseModel == [latency : -1..MaxLatency, dropout : Rates, outlier : Rates]
NoFaults == [latency |-> 0, dropout |-> 0, outlier |-> 0]

\* Lowest and highest multiplier of a profile: one legal, two illegal ranges.
Multipliers == {<<1, 2>>, <<0, 1>>, <<2, 1>>}

Parameters == [profile : Profile, seed : {-2, -1}, range : Multipliers,
               nominal : NoiseModel, stress : NoiseModel]

\* The instances: at most one of the two models is given fault effects.
OneFaulty == { p \in Parameters : NoFaults \in {p.nominal, p.stress} }

\* What validate_parameters() accepts.
ValidParameters(p) ==
  /\ p.profile # "unknown"
  /\ p.seed >= -1
  /\ p.range[1] > 0 /\ p.range[2] >= p.range[1]
  /\ \A m \in {p.nominal, p.stress} : /\ m.dropout \in 0..100 /\ m.outlier \in 0..100
                                      /\ m.latency >= 0

\* Mutant: validation runs take the fault effects of the stress profile too.
FaultsForAllHeldOut(p) ==
  IF p.profile \in {"calibration", "nominal"} THEN p.nominal ELSE p.stress

SelectModel(p) == IF p.profile = "stress" THEN p.stress ELSE p.nominal

TypeOK ==
  /\ life \in {"unstarted", "running", "threw"}
  /\ parameters \in Parameters
  /\ model \in NoiseModel \union {NoFaults}
  /\ initialized \in BOOLEAN
  /\ previous \in Time /\ elapsed \in Time
  /\ pending \in Seq([stamp : Time, release : Time, elapsed : Time])
  /\ now \in Time /\ clock \in Time
  /\ truth \in Seq(Time) /\ Len(truth) <= Depth
  /\ sent \in 0..MaxTruths /\ resets \in 0..MaxResets
  /\ first \in Time /\ latest \in Time
  /\ out \subseteq Time /\ looked \in Time
  /\ faults \subseteq {"dropout", "outlier", "late"}

Init ==
  /\ life = "unstarted" /\ parameters \in OneFaulty /\ model = NoFaults
  /\ initialized = FALSE /\ previous = 0 /\ elapsed = 0
  /\ pending = <<>>
  /\ now = 0 /\ clock = 0 /\ truth = <<>>
  /\ sent = 0 /\ resets = 0
  /\ first = 0 /\ latest = 0 /\ faults = {}
  /\ out = {} /\ looked = 0

\* The constructor; an exception of validate_parameters() ends the process.
Start ==
  /\ life = "unstarted"
  /\ \/ ValidParameters(parameters) /\ life' = "running" /\ model' = SelectModel(parameters)
     \/ ~ValidParameters(parameters) /\ life' = "threw" /\ UNCHANGED model
  /\ UNCHANGED <<parameters, drift, published, clock, sim, seen>>

-----------------------------------------------------------------------------
(* The callbacks.                                                           *)

\* How many messages publish_due_messages(time) publishes: it stops at the
\* first that is not due.
DueCount(queue, time) ==
  Max({ k \in 0..Len(queue) : \A i \in 1..k : queue[i].release <= time })

Publish(queue, time) ==
  /\ pending' = SubSeq(queue, DueCount(queue, time) + 1, Len(queue))
  /\ out' = out \union { queue[i].stamp : i \in 1..DueCount(queue, time) }
  /\ looked' = time

\* unit_uniform(fault_rng_) < probability
Draws(rate) == (IF rate > 0 THEN {TRUE} ELSE {}) \union (IF rate < 100 THEN {FALSE} ELSE {})

\* Mutant: the latency is forgotten.
Undelayed(stamp) == stamp

Release(stamp) == stamp + model.latency

Measurement(stamp) == [stamp |-> stamp, release |-> Release(stamp), elapsed |-> elapsed']

\* Mutant: a stamp that goes back sets previous_stamp_ back.
DriftFollowing(stamp) ==
  LET before == IF initialized THEN previous ELSE stamp
      dt == Max({0, stamp - before})
  IN /\ initialized' = TRUE
     /\ previous' = stamp
     /\ elapsed' = elapsed + dt

\* The first message starts the drift, a later stamp continues it.
Drift(stamp) ==
  LET before == IF initialized THEN previous ELSE stamp
      dt == Max({0, stamp - before})
  IN /\ initialized' = TRUE
     /\ previous' = IF dt > 0 THEN stamp ELSE before
     /\ elapsed' = elapsed + dt

Seen(stamp) ==
  /\ first' = IF initialized THEN first ELSE stamp
  /\ latest' = Max({latest, stamp})

Take == life = "running" /\ truth # <<>> /\ truth' = Tail(truth)

\* "Ignoring ground-truth odometry with a zero timestamp".
TruthIgnored ==
  /\ Take /\ Head(truth) = 0
  /\ UNCHANGED <<node, drift, published, clock, now, sent, resets, seen>>

\* A dropout returns before the measurement is made, and publishes nothing
\* else that is due.
TruthDropped ==
  /\ Take /\ Head(truth) # 0
  /\ Drift(Head(truth)) /\ Seen(Head(truth))
  /\ TRUE \in Draws(model.dropout)
  /\ faults' = faults \union {"dropout"}
  /\ UNCHANGED <<node, published, clock, now, sent, resets>>

Late == IF pending' = <<>> THEN {} ELSE {"late"}

\* Mutant: a new measurement goes to the front of the queue.
MeasureAhead ==
  /\ Take /\ Head(truth) # 0
  /\ Drift(Head(truth)) /\ Seen(Head(truth))
  /\ FALSE \in Draws(model.dropout)
  /\ Publish(<<Measurement(Head(truth))>> \o pending, Head(truth))
  /\ \E outlier \in Draws(model.outlier) :
       faults' = faults \union Late \union (IF outlier THEN {"outlier"} ELSE {})
  /\ UNCHANGED <<node, clock, now, sent, resets>>

Measure ==
  /\ Take /\ Head(truth) # 0
  /\ Drift(Head(truth)) /\ Seen(Head(truth))
  /\ FALSE \in Draws(model.dropout)
  /\ Publish(Append(pending, Measurement(Head(truth))), Head(truth))
  /\ \E outlier \in Draws(model.outlier) :
       faults' = faults \union Late \union (IF outlier THEN {"outlier"} ELSE {})
  /\ UNCHANGED <<node, clock, now, sent, resets>>

\* Mutant: the timer publishes nothing.
TimerIdle ==
  /\ life = "running" /\ looked # clock
  /\ looked' = clock
  /\ UNCHANGED <<node, drift, pending, out, clock, sim, seen>>

Timer ==
  /\ life = "running"
  /\ Publish(pending, clock)
  /\ UNCHANGED <<node, drift, clock, sim, seen>>

-----------------------------------------------------------------------------
(* The simulator and the topics (external).                                 *)

Tick ==
  /\ now < MaxTime
  /\ now' = now + 1
  /\ UNCHANGED <<node, drift, published, clock, truth, sent, resets, seen>>

ClockMessage ==
  /\ clock # now
  /\ clock' = now
  /\ UNCHANGED <<node, drift, published, sim, seen>>

\* Mutant: the subscription keeps all messages.
TruthKept ==
  /\ life = "running" /\ now <= PauseTime /\ sent < MaxTruths
  /\ sent' = sent + 1
  /\ truth' = Append(truth, now)
  /\ UNCHANGED <<node, drift, published, clock, now, resets, seen>>

\* The subscription keeps the newest messages.
TruthPublished ==
  /\ life = "running" /\ now <= PauseTime /\ sent < MaxTruths
  /\ sent' = sent + 1
  /\ truth' = Append(IF Len(truth) < Depth THEN truth ELSE Tail(truth), now)
  /\ UNCHANGED <<node, drift, published, clock, now, resets, seen>>

ResetSimulator ==
  /\ now > 0 /\ resets < MaxResets
  /\ now' = 0 /\ resets' = resets + 1
  /\ UNCHANGED <<node, drift, published, clock, truth, sent, seen>>

-----------------------------------------------------------------------------
Truth == TruthIgnored \/ TruthDropped \/ Measure

Next ==
  \/ Start \/ Truth \/ Timer
  \/ Tick \/ ClockMessage \/ TruthPublished \/ ResetSimulator

Spec == Init /\ [][Next]_vars

\* The executor serves the timer and the subscription, the simulation goes on.
Fairness == WF_vars(Timer) /\ WF_vars(Truth) /\ WF_vars(Tick) /\ WF_vars(ClockMessage)

FairSpec == Spec /\ Fairness

-----------------------------------------------------------------------------
(* Properties.                                                              *)

\* The drift time, from which the covariance is computed, is the span of the
\* stamps accepted so far: with stamps that go back, repeat or were dropped.
ElapsedIsSpan ==
  /\ initialized => elapsed = latest - first
  /\ \A i \in 1..Len(pending) : pending[i].elapsed <= elapsed

\* "Fault effects ... are used only when configured": by the parameters that
\* belong to the profile.
OnlyConfigured ==
  LET configured == IF parameters.profile = "stress" THEN parameters.stress
                                                     ELSE parameters.nominal
  IN /\ "dropout" \in faults => configured.dropout > 0
     /\ "outlier" \in faults => configured.outlier > 0
     /\ "late" \in faults => configured.latency > 0

\* The queue is only looked at from its front; as long as simulation time does
\* not go back nothing that was due is left in it.
NothingDueIsLeft ==
  resets = 0 => \A i \in 1..Len(pending) : pending[i].release > looked

\* "Delay between generating and publishing a measurement": as long as
\* simulation time does not go back, nothing is published before the latency
\* has passed since its stamp.
LatencyKept ==
  [][\A stamp \in out' \ out : resets = 0 => stamp + model.latency <= now]_vars

\* "delayed measurements are published even if the truth publisher pauses after
\* the final sample", and after a reset too once the time has come round again.
AllComeOut == []<>(pending = <<>>)
=============================================================================
