--------------------------- MODULE RuntimeEstimator ---------------------------
(***************************************************************************)
(* RuntimeEstimator of the remote dashboard: it integrates the battery     *)
(* current over the readings the page receives. Times and currents are     *)
(* integers; an average is kept as the integral and its span, which is all *)
(* that the estimate of hours adds the battery's amp-hours to.             *)
(* history is not in the code: it is every reading since the estimator was *)
(* last told to start over, for the comparison with RuntimeAverage.        *)
(***************************************************************************)
EXTENDS RuntimeAverage, FiniteSets

CONSTANTS
    Amps,           \* the currents a battery may report
    Gaps,           \* the times between two messages
    Lags,           \* the times a reading may take from the device to the page
    MinUptime,      \* the device runs at least so long before it restarts
    MaxReadings,    \* bound on the readings of one behaviour
    MaxTime         \* bound on the time of one behaviour

ASSUME EstimatorAssumption ==
    /\ Window \in Nat \ {0} /\ Warmup \in Nat \ {0} /\ Stale \in Nat \ {0}
    /\ IdleAmps \in Nat /\ Amps \subseteq Int /\ Gaps \subseteq Nat /\ Lags \subseteq Nat
    /\ MinUptime \in Nat \ {0} /\ MaxReadings \in Nat /\ MaxTime \in Nat

VARIABLES
    now,        \* performance.now()
    booted,     \* when the device started: its clock is millis()
    est,        \* the fields of the RuntimeEstimator
    history

reVars == <<now, booted, est, history>>

Never == -1

NoReading == [at |-> Never, updatedAt |-> Never, amps |-> 0]

(* reset() *)
Reset == [segments |-> {}, last |-> NoReading, direction |-> 0, idleSince |-> Never]

Init == now = 0 /\ booted = 0 /\ est = Reset /\ history = <<>>

Has(e) == e.last # NoReading

-----------------------------------------------------------------------------
(* update(): each of the three tests may start over. *)

(* The last reading is stale, or younger than this one says it can be. *)
Refresh(e, t, updatedAt) ==
    IF Has(e) /\ (t - e.last.at >= Stale \/ updatedAt < e.last.updatedAt) THEN Reset ELSE e

(* Variant: idling is measured to the last reading. *)
ResumeLate(e, t, d) ==
    IF d # 0 /\ e.idleSince # Never /\ e.last.at - e.idleSince >= Warmup THEN Reset ELSE e

Resume(e, t, d) ==
    IF d # 0 /\ e.idleSince # Never /\ t - e.idleSince >= Warmup THEN Reset ELSE e

(* Variant: a reading of the other direction joins the window. *)
TurnNever(e, d) == e

Turn(e, d) == IF d # 0 /\ e.direction # 0 /\ d # e.direction THEN Reset ELSE e

Segment(e, t) ==
    IF Has(e) THEN {[start |-> e.last.at, end |-> t, amps |-> e.last.amps]} ELSE {}

Heading(e, d) == IF d # 0 THEN d ELSE e.direction

IdleFrom(e, t, d) == IF d # 0 THEN Never ELSE IF e.idleSince = Never THEN t ELSE e.idleSince

(* Variant: nothing leaves the window. *)
AddForever(e, t, updatedAt, amps) ==
    [segments  |-> e.segments \cup Segment(e, t),
     last      |-> [at |-> t, updatedAt |-> updatedAt, amps |-> amps],
     direction |-> Heading(e, Direction(amps)),
     idleSince |-> IdleFrom(e, t, Direction(amps))]

(* Variant: only a reading that is not idle is remembered. *)
AddActive(e, t, updatedAt, amps) ==
    [segments  |-> {g \in e.segments \cup Segment(e, t) : g.end > t - Window},
     last      |-> IF Has(e) /\ Direction(amps) = 0 THEN e.last
                   ELSE [at |-> t, updatedAt |-> updatedAt, amps |-> amps],
     direction |-> Heading(e, Direction(amps)),
     idleSince |-> IdleFrom(e, t, Direction(amps))]

(* The reading closes the segment of the one before, and segments that     *)
(* have left the window are dropped.                                       *)
Add(e, t, updatedAt, amps) ==
    [segments  |-> {g \in e.segments \cup Segment(e, t) : g.end > t - Window},
     last      |-> [at |-> t, updatedAt |-> updatedAt, amps |-> amps],
     direction |-> Heading(e, Direction(amps)),
     idleSince |-> IdleFrom(e, t, Direction(amps))]

(* A complete status; one with the updatedAt of the last changes nothing. *)
Updated(e, t, updatedAt, amps) ==
    LET d == Direction(amps)
    IN  IF Has(e) /\ updatedAt = e.last.updatedAt THEN e
        ELSE Add(Turn(Resume(Refresh(e, t, updatedAt), t, d), d), t, updatedAt, amps)

(* A reading that the device took lag ago, later than any of this start.   *)
(* Readings of two starts are taken not to have the same millisecond.      *)
Update(gap, lag, amps) ==
    LET updatedAt == now + gap - lag - booted
    IN  /\ Len(history) < MaxReadings /\ now + gap <= MaxTime /\ updatedAt >= 0
        /\ \A k \in 1 .. Len(history) :
               /\ history[k].taken # updatedAt
               /\ history[k].boot = booted => history[k].taken < updatedAt
        /\ now' = now + gap
        /\ est' = Updated(est, now', updatedAt, amps)
        /\ history' = Append(history, [at |-> now', amps |-> amps, boot |-> booted,
                                       taken |-> updatedAt])
        /\ UNCHANGED booted

(* The last reading again. *)
Duplicate(gap) ==
    /\ Has(est) /\ now + gap <= MaxTime
    /\ now' = now + gap
    /\ est' = Updated(est, now', est.last.updatedAt, est.last.amps)
    /\ UNCHANGED <<booted, history>>

(* An incomplete status, or the page has lost its connection. *)
StartOver ==
    /\ est' = Reset /\ history' = <<>>
    /\ UNCHANGED <<now, booted>>

(* The device restarts; the relay keeps the page's socket open. *)
Restart ==
    /\ now - booted >= MinUptime
    /\ booted' = now
    /\ UNCHANGED <<now, est, history>>

Next == \/ StartOver
        \/ Restart
        \/ \E gap \in Gaps :
               \/ Duplicate(gap)
               \/ \E lag \in Lags, amps \in Amps : Update(gap, lag, amps)

Spec == Init /\ [][Next]_reVars

-----------------------------------------------------------------------------
(* snapshot() *)

(* The time a segment has inside the window. *)
Share(e, g) ==
    Max({0, g.end - Max({g.start, e.last.at - Window})})

Snapshot(e, t) ==
    LET span    == SumFunction([g \in e.segments |-> Share(e, g)])
        ampTime == SumFunction([g \in e.segments |-> g.amps * Share(e, g)])
    IN  IF ~Has(e) \/ t - e.last.at >= Stale THEN Unavailable
        ELSE IF e.direction = 0 \/ (e.idleSince # Never /\ t - e.idleSince >= Warmup) THEN Idle
        ELSE IF span < Warmup THEN [state |-> "warming", direction |-> e.direction]
        ELSE IF ampTime <= IdleAmps * span /\ -ampTime <= IdleAmps * span THEN Idle
        ELSE [state |-> "ready", direction |-> e.direction, ampTime |-> ampTime, span |-> span]

-----------------------------------------------------------------------------
(* Types; no segment ends after the last reading or has left the window.   *)
TypeOK ==
    /\ now \in Nat /\ booted \in 0 .. now
    /\ est.segments \subseteq [start : Nat, end : Nat, amps : Amps]
    /\ est.last = NoReading \/ est.last \in [at : 0 .. now, updatedAt : Nat, amps : Amps]
    /\ est.direction \in {-1, 0, 1}
    /\ est.idleSince \in (0 .. now) \cup {Never}
    /\ history \in Seq([at : 0 .. now, amps : Amps, boot : 0 .. now, taken : Nat])
    /\ \A g \in est.segments : est.last.at - Window < g.end /\ g.end <= est.last.at

(* Whatever the readings and their times, the page shows at every moment   *)
(* until they are stale what the README describes of them.                 *)
MatchesReadme == \A t \in now .. now + Stale : Snapshot(est, t) = Estimate(history, t)

(* The window holds readings of one direction: charging never offsets      *)
(* discharging.                                                            *)
OneDirection == \A g \in est.segments : Direction(g.amps) \in {0, est.direction}

(* No moment counts twice in the average. *)
SegmentsDisjoint ==
    \A g, h \in est.segments : g # h => g.end <= h.start \/ h.end <= g.start
=============================================================================
