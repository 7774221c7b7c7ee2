------------------------ MODULE RuntimeEstimatorProofs ------------------------
(***************************************************************************)
(* Theorems about RuntimeEstimator, for all times, currents and restarts.  *)
(* The first part is about the estimator alone: its types, the direction   *)
(* of its window and its segments. The second shows that it agrees with    *)
(* RuntimeAverage. There it takes                                          *)
(*   - the recursion of SessionStart: where a reading leaves the session   *)
(*     (SessionNext), from the recursive function that defines it;         *)
(*   - Follows, what each field of the estimator says of the history: the  *)
(*     last reading, the direction and the idling of its session, and for  *)
(*     every window that may still be asked for, the time the segments     *)
(*     cover and the integral of the current over it;                      *)
(*   - TestsBreak, that the three tests of update() together find exactly  *)
(*     the breaks of a session, and FollowsFresh and FollowsJoins, that    *)
(*     the reading then added keeps Follows;                               *)
(*   - SnapshotFollows, that Follows makes the two estimates equal.        *)
(***************************************************************************)
EXTENDS RuntimeEstimator, SumTheorems, SequenceTheorems, TLAPS

(* What update() keeps of the estimator e, at a time t no earlier than its  *)
(* last reading. That its last reading has the direction of the window is   *)
(* what the next segment needs.                                             *)
Estimator(e, t) ==
    /\ e \in [segments  : SUBSET [start : Nat, end : Nat, amps : Amps],
              last      : {NoReading} \cup [at : 0 .. t, updatedAt : Nat, amps : Amps],
              direction : {-1, 0, 1},
              idleSince : (0 .. t) \cup {Never}]
    /\ Has(e) => Direction(e.last.amps) \in {0, e.direction}
    /\ \A g \in e.segments :
           /\ e.last.at - Window < g.end /\ g.start <= g.end /\ g.end <= e.last.at
           /\ Direction(g.amps) \in {0, e.direction}
    /\ \A g, h \in e.segments : g # h => g.end <= h.start \/ h.end <= g.start

Reading(t) == [at : 0 .. t, amps : Amps, boot : 0 .. t, taken : Nat]

IInv ==
    /\ now \in Nat /\ booted \in 0 .. now
    /\ Estimator(est, now)
    /\ history \in Seq(Reading(now))

-----------------------------------------------------------------------------
LEMMA DirectionType == ASSUME NEW a \in Int PROVE Direction(a) \in {-1, 0, 1}
    BY DEF Direction

LEMMA ResetEstimator == ASSUME NEW t \in Nat PROVE Estimator(Reset, t)
    BY DEF Estimator, Reset, NoReading, Never, Has

(* An estimator stays one as time passes. *)
LEMMA LaterEstimator ==
    ASSUME NEW t \in Nat, NEW u \in Nat, t <= u, NEW e, Estimator(e, t)
    PROVE  Estimator(e, u)
    BY DEF Estimator

LEMMA LaterReadings ==
    ASSUME NEW t \in Nat, NEW u \in Nat, t <= u, NEW h \in Seq(Reading(t))
    PROVE  h \in Seq(Reading(u))
<1>1. Reading(t) \subseteq Reading(u)
    BY DEF Reading
<1> QED BY <1>1, SeqMonotonic

(* What the three tests leave is empty or in the direction of the reading. *)
LEMMA TestsKeep ==
    ASSUME NEW t \in Nat, NEW e, Estimator(e, t), NEW u \in Nat, NEW d
    PROVE  LET x == Turn(Resume(Refresh(e, t, u), t, d), d)
           IN  x \in {Reset, e} /\ (d # 0 => x.direction \in {0, d})
    BY DEF Turn, Resume, Refresh, Reset

(* The segment that a reading adds lies after the others. *)
LEMMA AddKeeps ==
    ASSUME NEW t \in Nat, NEW e, Estimator(e, t), NEW u \in Nat,
           NEW a \in Amps, Direction(a) # 0 => e.direction \in {0, Direction(a)}
    PROVE  Estimator(Add(e, t, u, a), t)
<1> DEFINE d == Direction(a)
           f == Add(e, t, u, a)
           new == [start |-> e.last.at, end |-> t, amps |-> e.last.amps]
<1>1. d \in {-1, 0, 1} /\ a \in Int
    BY DirectionType, EstimatorAssumption
<1>2. /\ f.segments = {g \in e.segments \cup Segment(e, t) : g.end > t - Window}
      /\ f.last = [at |-> t, updatedAt |-> u, amps |-> a]
      /\ f.direction = Heading(e, d) /\ f.idleSince = IdleFrom(e, t, d)
      /\ f = [segments |-> f.segments, last |-> f.last, direction |-> f.direction,
              idleSince |-> f.idleSince]
    BY DEF Add
<1>3. \A g \in f.segments : g \in e.segments \/ (Has(e) /\ g = new)
    BY <1>2 DEF Segment
<1>4. Has(e) => /\ e.last.at \in 0 .. t /\ e.last.amps \in Amps
                /\ Direction(e.last.amps) \in {0, e.direction}
                /\ new \in [start : Nat, end : Nat, amps : Amps]
    BY DEF Estimator, Has
<1>5. \A g \in e.segments : /\ g \in [start : Nat, end : Nat, amps : Amps]
                            /\ g.start <= g.end /\ g.end <= e.last.at /\ g.end <= t
                            /\ Direction(g.amps) \in {0, e.direction}
    BY DEF Estimator, NoReading, Never
<1>6. f \in [segments  : SUBSET [start : Nat, end : Nat, amps : Amps],
             last      : {NoReading} \cup [at : 0 .. t, updatedAt : Nat, amps : Amps],
             direction : {-1, 0, 1},
             idleSince : (0 .. t) \cup {Never}]
    <2>1. f.segments \in SUBSET [start : Nat, end : Nat, amps : Amps]
        BY <1>3, <1>4, <1>5
    <2>2. f.direction \in {-1, 0, 1} /\ f.idleSince \in (0 .. t) \cup {Never}
        BY <1>1, <1>2 DEF Estimator, Heading, IdleFrom
    <2>3. f.last \in [at : 0 .. t, updatedAt : Nat, amps : Amps]
        BY <1>2
    <2> QED BY <1>2, <2>1, <2>2, <2>3
<1>7. Direction(f.last.amps) \in {0, f.direction}
    BY <1>2 DEF Heading
<1>8. \A g \in f.segments : Direction(g.amps) \in {0, f.direction}
    BY <1>1, <1>2, <1>3, <1>4, <1>5 DEF Heading
<1>9. \A g \in f.segments : f.last.at - Window < g.end /\ g.start <= g.end /\ g.end <= f.last.at
    <2> SUFFICES ASSUME NEW g \in f.segments
                 PROVE  f.last.at - Window < g.end /\ g.start <= g.end /\ g.end <= f.last.at
        OBVIOUS
    <2>1. g.end > t - Window /\ f.last.at = t
        BY <1>2
    <2>2. g.end \in Nat /\ g.start <= g.end /\ g.end <= t
        BY <1>3, <1>4, <1>5
    <2> QED BY <2>1, <2>2, EstimatorAssumption
<1>10. \A g, h \in f.segments : g # h => g.end <= h.start \/ h.end <= g.start
    BY <1>3, <1>4, <1>5 DEF Estimator
<1> QED BY <1>6, <1>7, <1>8, <1>9, <1>10 DEF Estimator

(* update() keeps the estimator, whatever reading it is given. *)
LEMMA UpdatedKeeps ==
    ASSUME NEW t \in Nat, NEW e, Estimator(e, t), NEW u \in Nat,
           NEW a \in Amps
    PROVE  Estimator(Updated(e, t, u, a), t)
<1> DEFINE d == Direction(a)
           x == Turn(Resume(Refresh(e, t, u), t, d), d)
<1>1. CASE Has(e) /\ u = e.last.updatedAt
    BY <1>1 DEF Updated
<1>2. CASE ~(Has(e) /\ u = e.last.updatedAt)
    <2>1. x \in {Reset, e} /\ (d # 0 => x.direction \in {0, d})
        BY TestsKeep
    <2>2. Estimator(x, t)
        BY <2>1, ResetEstimator
    <2>3. Estimator(Add(x, t, u, a), t)
        BY <2>1, <2>2, AddKeeps
    <2>4. Updated(e, t, u, a) = Add(x, t, u, a)
        BY <1>2 DEF Updated
    <2> QED BY <2>3, <2>4
<1> QED BY <1>1, <1>2

-----------------------------------------------------------------------------
LEMMA InitInvariant == ASSUME Init PROVE IInv
    BY ResetEstimator DEF Init, IInv

(* Every action keeps the invariant. *)
LEMMA NextInvariant ==
    ASSUME IInv, [Next]_reVars
    PROVE  IInv'
<1> USE DEF IInv
<1>1. CASE StartOver
    BY <1>1, ResetEstimator DEF StartOver
<1>2. CASE Restart
    BY <1>2 DEF Restart
<1>3. ASSUME NEW gap \in Gaps, Duplicate(gap) PROVE IInv'
    <2>1. now' \in Nat /\ now <= now' /\ booted' \in 0 .. now'
        BY <1>3, EstimatorAssumption DEF Duplicate
    <2>2. Estimator(est, now')
        BY <2>1, LaterEstimator
    <2>3. est' = est
        BY <1>3 DEF Duplicate, Updated
    <2>4. history' \in Seq(Reading(now'))
        BY <1>3, <2>1, LaterReadings DEF Duplicate
    <2> QED BY <2>1, <2>2, <2>3, <2>4
<1>4. ASSUME NEW gap \in Gaps, NEW lag \in Lags, NEW a \in Amps, Update(gap, lag, a)
      PROVE  IInv'
    <2> DEFINE u == now + gap - lag - booted
    <2>1. now' \in Nat /\ now <= now' /\ booted' \in 0 .. now' /\ u \in Nat
        BY <1>4, EstimatorAssumption DEF Update
    <2>2. Estimator(est, now')
        BY <2>1, LaterEstimator
    <2>3. Estimator(Updated(est, now', u, a), now')
        BY <2>1, <2>2, UpdatedKeeps
    <2>4. est' = Updated(est, now', u, a)
        BY <1>4 DEF Update
    <2>5. history' \in Seq(Reading(now'))
        <3>1. history \in Seq(Reading(now'))
            BY <2>1, LaterReadings
        <3>2. [at |-> now', amps |-> a, boot |-> booted, taken |-> u] \in Reading(now')
            BY <2>1 DEF Reading
        <3> QED BY <1>4, <3>1, <3>2 DEF Update
    <2> HIDE DEF u
    <2> QED BY <2>1, <2>3, <2>4, <2>5
<1>5. CASE UNCHANGED reVars
    BY <1>5 DEF reVars
<1> QED BY <1>1, <1>2, <1>3, <1>4, <1>5 DEF Next

(* The strengthened invariant holds in every reachable state. *)
THEOREM Invariance == Spec => []IInv
<1>1. Init => IInv
    BY InitInvariant
<1>2. IInv /\ [Next]_reVars => IInv'
    BY NextInvariant
<1> QED BY <1>1, <1>2, PTL DEF Spec

(* The estimator keeps its types, and its window its bounds: no segment     *)
(* reaches past the last reading or stays after it has left the window.     *)
THEOREM TypeCorrectness == Spec => []TypeOK
<1>1. IInv => TypeOK
    BY DEF IInv, Estimator, TypeOK, Reading, Has
<1> QED BY <1>1, Invariance, PTL

(* However readings, restarts and losses follow each other, the average     *)
(* never mixes charging with discharging.                                   *)
THEOREM DirectionSafety == Spec => []OneDirection
<1>1. IInv => OneDirection
    BY DEF IInv, Estimator, OneDirection
<1> QED BY <1>1, Invariance, PTL

(* However irregular the messages are, no moment counts twice.              *)
THEOREM CoverSafety == Spec => []SegmentsDisjoint
<1>1. IInv => SegmentsDisjoint
    BY DEF IInv, Estimator, SegmentsDisjoint
<1> QED BY <1>1, Invariance, PTL

-----------------------------------------------------------------------------
(* The first reading of the session of reading k, from that of the reading *)
(* before: the body of SessionStart.                                       *)
FirstOf(h, first, k) ==
    IF k = 1 THEN 1 ELSE IF Breaks(h, first[k - 1], k) THEN k ELSE first[k - 1]

(* first is the function that the recursion of SessionStart defines on     *)
(* readings 1 .. m.                                                        *)
Firsts(h, m, first) == first = [k \in 1 .. m |-> FirstOf(h, first, k)]

(* That is: it obeys the recursion at every reading. *)
LEMMA FirstsAt ==
    ASSUME NEW h, NEW m \in Nat, NEW f
    PROVE  Firsts(h, m, f) <=> /\ f = [k \in 1 .. m |-> f[k]]
                               /\ \A k \in 1 .. m : f[k] = FirstOf(h, f, k)
<1> DEFINE E(k) == FirstOf(h, f, k)
<1>1. Firsts(h, m, f) <=> f = [k \in 1 .. m |-> E(k)]
    BY DEF Firsts
<1> HIDE DEF E
<1>2. f = [k \in 1 .. m |-> E(k)] <=> /\ f = [k \in 1 .. m |-> f[k]]
                                      /\ \A k \in 1 .. m : f[k] = E(k)
    OBVIOUS
<1> QED BY <1>1, <1>2 DEF E

(* Whether a session ends at reading k depends on no reading after k. *)
LEMMA BreaksSame ==
    ASSUME NEW m \in Nat, NEW g, NEW h, \A k \in 1 .. m : g[k] = h[k],
           NEW k \in 2 .. m, NEW i \in 1 .. k
    PROVE  Breaks(g, i, k) <=> Breaks(h, i, k)
<1>1. k \in 1 .. m /\ k - 1 \in 1 .. m /\ \A j \in i .. k - 1 : j \in 1 .. m
    OBVIOUS
<1>2. \A j \in i .. k - 1 : g[j] = h[j]
    BY <1>1
<1>3. \A j \in i .. k - 1 : \A p \in j .. k - 1 : g[p] = h[p]
    BY <1>1
<1>4. g[k] = h[k] /\ g[k - 1] = h[k - 1]
    BY <1>1
<1> QED BY <1>2, <1>3, <1>4 DEF Breaks, IdleSince

(* A session begins no later than its readings. *)
LEMMA FirstsRange ==
    ASSUME NEW h, NEW m \in Nat, NEW f, Firsts(h, m, f)
    PROVE  \A k \in 1 .. m : f[k] \in 1 .. k
<1> DEFINE P == {n \in Nat : n + 1 \in 1 .. m => f[n + 1] \in 1 .. n + 1}
<1>a. \A k \in 1 .. m : f[k] = FirstOf(h, f, k)
    BY FirstsAt
<1>1. 0 \in P
    BY <1>a DEF FirstOf
<1>2. ASSUME NEW n \in Nat, n \in P PROVE n + 1 \in P
    <2> SUFFICES ASSUME (n + 1) + 1 \in 1 .. m PROVE f[(n + 1) + 1] \in 1 .. (n + 1) + 1
        OBVIOUS
    <2> DEFINE k == (n + 1) + 1
    <2>1. k \in 1 .. m /\ k # 1 /\ k - 1 = n + 1 /\ n + 1 \in 1 .. m
        OBVIOUS
    <2>2. f[n + 1] \in 1 .. n + 1
        BY <1>2, <2>1
    <2>3. f[k] \in {k, f[n + 1]}
        BY <1>a, <2>1 DEF FirstOf
    <2> QED BY <2>1, <2>2, <2>3
<1> HIDE DEF P
<1>3. \A n \in Nat : n \in P
    BY <1>1, <1>2, NatSetInduction
<1>4. ASSUME NEW k \in 1 .. m PROVE f[k] \in 1 .. k
    <2>1. k - 1 \in Nat /\ (k - 1) + 1 = k
        OBVIOUS
    <2>2. k - 1 \in P
        BY <1>3, <2>1
    <2> QED BY <2>1, <2>2 DEF P
<1> QED BY <1>4

(* Two histories have the same sessions as far as they have the same       *)
(* readings.                                                               *)
LEMMA FirstsAgree ==
    ASSUME NEW m \in Nat, NEW l \in Nat, m <= l, NEW g, NEW h, \A k \in 1 .. m : g[k] = h[k],
           NEW p, Firsts(g, m, p), NEW q, Firsts(h, l, q)
    PROVE  \A k \in 1 .. m : p[k] = q[k]
<1> DEFINE P == {n \in Nat : n + 1 \in 1 .. m => p[n + 1] = q[n + 1]}
<1>a. \A k \in 1 .. m : p[k] = FirstOf(g, p, k) /\ q[k] = FirstOf(h, q, k)
    <2>1. \A k \in 1 .. m : p[k] = FirstOf(g, p, k)
        BY FirstsAt
    <2>2. \A k \in 1 .. l : q[k] = FirstOf(h, q, k)
        BY FirstsAt
    <2> QED BY <2>1, <2>2
<1>1. 0 \in P
    BY <1>a DEF FirstOf
<1>2. ASSUME NEW n \in Nat, n \in P PROVE n + 1 \in P
    <2> SUFFICES ASSUME (n + 1) + 1 \in 1 .. m PROVE p[(n + 1) + 1] = q[(n + 1) + 1]
        OBVIOUS
    <2> DEFINE k == (n + 1) + 1
    <2>1. k \in 2 .. m /\ k # 1 /\ k - 1 = n + 1 /\ n + 1 \in 1 .. m /\ k \in 1 .. m
        OBVIOUS
    <2>2. p[n + 1] = q[n + 1] /\ p[n + 1] \in 1 .. n + 1
        BY <1>2, <2>1, FirstsRange
    <2>3. p[n + 1] \in 1 .. k
        BY <2>1, <2>2
    <2>4. Breaks(g, p[n + 1], k) <=> Breaks(h, p[n + 1], k)
        BY <2>1, <2>3, BreaksSame
    <2>5. /\ p[k] = IF Breaks(g, p[n + 1], k) THEN k ELSE p[n + 1]
          /\ q[k] = IF Breaks(h, q[n + 1], k) THEN k ELSE q[n + 1]
        BY <1>a, <2>1 DEF FirstOf
    <2> QED BY <2>2, <2>4, <2>5
<1> HIDE DEF P
<1>3. \A n \in Nat : n \in P
    BY <1>1, <1>2, NatSetInduction
<1>4. ASSUME NEW k \in 1 .. m PROVE p[k] = q[k]
    <2>1. k - 1 \in Nat /\ (k - 1) + 1 = k
        OBVIOUS
    <2>2. k - 1 \in P
        BY <1>3, <2>1
    <2> QED BY <2>1, <2>2 DEF P
<1> QED BY <1>4

(* The recursion of SessionStart defines a function. *)
LEMMA FirstsExist ==
    ASSUME NEW h
    PROVE  \A m \in Nat : \E f : Firsts(h, m, f)
<1> DEFINE P == {m \in Nat : \E f : Firsts(h, m, f)}
<1>1. 0 \in P
    <2> DEFINE f == [k \in 1 .. 0 |-> k]
    <2>1. 1 .. 0 = {}
        OBVIOUS
    <2>2. Firsts(h, 0, f)
        BY <2>1, FirstsAt
    <2> QED BY <2>2
<1>2. ASSUME NEW m \in Nat, m \in P PROVE m + 1 \in P
    <2>1. PICK f : Firsts(h, m, f)
        BY <1>2
    <2> DEFINE new == FirstOf(h, f, m + 1)
               g == [k \in 1 .. m + 1 |-> IF k = m + 1 THEN new ELSE f[k]]
    <2>2. \A k \in 1 .. m : f[k] = FirstOf(h, f, k)
        BY <2>1, FirstsAt
    <2>3. \A k \in 1 .. m : g[k] = f[k]
        OBVIOUS
    <2>4. g[m + 1] = new
        OBVIOUS
    <2>5. g = [k \in 1 .. m + 1 |-> g[k]]
        OBVIOUS
    <2> HIDE DEF g
    <2>6. ASSUME NEW k \in 1 .. m + 1 PROVE g[k] = FirstOf(h, g, k)
        <3>1. FirstOf(h, g, k) = FirstOf(h, f, k)
            <4>1. k = 1 \/ k - 1 \in 1 .. m
                OBVIOUS
            <4> QED BY <2>3, <4>1 DEF FirstOf
        <3>2. k = m + 1 \/ k \in 1 .. m
            OBVIOUS
        <3> QED BY <2>2, <2>3, <2>4, <3>1, <3>2
    <2>7. Firsts(h, m + 1, g)
        BY <2>5, <2>6, FirstsAt
    <2> QED BY <2>7
<1> HIDE DEF P
<1>3. \A m \in Nat : m \in P
    BY <1>1, <1>2, NatSetInduction
<1> QED BY <1>3 DEF P

(* SessionStart is the last value of that function. *)
LEMMA SessionDef ==
    ASSUME NEW h, Len(h) \in Nat
    PROVE  /\ SessionStart(h) = (CHOOSE f : Firsts(h, Len(h), f))[Len(h)]
           /\ Firsts(h, Len(h), CHOOSE f : Firsts(h, Len(h), f))
<1>1. SessionStart(h) = (CHOOSE f : Firsts(h, Len(h), f))[Len(h)]
    BY DEF SessionStart, Firsts, FirstOf
<1> QED BY <1>1, FirstsExist

(* The session of the last reading begins with a reading. *)
LEMMA SessionRange ==
    ASSUME NEW h, Len(h) \in Nat, Len(h) # 0
    PROVE  SessionStart(h) \in 1 .. Len(h)
<1> DEFINE m == Len(h)
           f == CHOOSE f : Firsts(h, m, f)
<1>1. SessionStart(h) = f[m] /\ Firsts(h, m, f) /\ m \in Nat /\ m \in 1 .. m
    BY SessionDef
<1> HIDE DEF f, m
<1>2. f[m] \in 1 .. m
    BY <1>1, FirstsRange
<1> QED BY <1>1, <1>2 DEF m

(* A further reading starts a session, or joins the one of the reading     *)
(* before.                                                                 *)
LEMMA SessionNext ==
    ASSUME NEW S, NEW h \in Seq(S), NEW r \in S
    PROVE  SessionStart(Append(h, r)) =
              IF h = <<>> \/ Breaks(Append(h, r), SessionStart(h), Len(h) + 1)
              THEN Len(h) + 1 ELSE SessionStart(h)
<1> DEFINE n == Len(h)
           g == Append(h, r)
           p == CHOOSE f : Firsts(h, n, f)
           q == CHOOSE f : Firsts(g, Len(g), f)
<1>1. n \in Nat /\ Len(g) = n + 1 /\ \A k \in 1 .. n : g[k] = h[k]
    BY AppendProperties, LenProperties
<1>2. SessionStart(h) = p[n] /\ Firsts(h, n, p)
    BY <1>1, SessionDef
<1>3. SessionStart(g) = q[Len(g)] /\ Firsts(g, Len(g), q)
    <2>1. Len(g) \in Nat
        BY <1>1
    <2> HIDE DEF g
    <2> QED BY <2>1, SessionDef
<1> HIDE DEF n, p, q, g
<1>4. \A k \in 1 .. n : p[k] = q[k]
    <2>1. Firsts(g, n + 1, q) /\ n + 1 \in Nat /\ n <= n + 1
        BY <1>1, <1>3
    <2>2. \A k \in 1 .. n : h[k] = g[k]
        BY <1>1
    <2> QED BY <1>1, <1>2, <2>1, <2>2, FirstsAgree
<1>5. q[n + 1] = FirstOf(g, q, n + 1)
    <2>1. Firsts(g, n + 1, q) /\ n + 1 \in Nat /\ n + 1 \in 1 .. n + 1
        BY <1>1, <1>3
    <2> QED BY <2>1, FirstsAt
<1>6. h = <<>> <=> n = 0
    BY EmptySeq DEF n
<1>7. CASE n = 0
    BY <1>1, <1>3, <1>5, <1>6, <1>7 DEF FirstOf, g, n
<1>8. CASE n # 0
    <2>1. n \in 1 .. n /\ n + 1 # 1 /\ (n + 1) - 1 = n
        BY <1>1, <1>8
    <2>2. q[n] = SessionStart(h)
        BY <1>2, <1>4, <2>1
    <2>3. q[n + 1] = IF Breaks(g, SessionStart(h), n + 1) THEN n + 1 ELSE SessionStart(h)
        BY <1>5, <2>1, <2>2 DEF FirstOf
    <2> QED BY <1>1, <1>3, <1>6, <1>8, <2>3 DEF g, n
<1> QED BY <1>7, <1>8

(* The time that segment g has after w; Share is that for the window of a  *)
(* snapshot.                                                               *)
Since(g, w) == Max({0, g.end - Max({g.start, w})})

(* The time that the segments cover after w. *)
Span(S, w) == SumFunctionOnSet([g \in S |-> Since(g, w)], S)

(* The integral of their current after w. *)
AmpTime(S, w) == SumFunctionOnSet([g \in S |-> g.amps * Since(g, w)], S)

(* The integral of the current of the readings from a to b, as             *)
(* RuntimeAverage adds it up.                                              *)
Integral(h, a, b) == SumFunctionOnSet([u \in a .. b - 1 |-> AmpsAt(h, u)], a .. b - 1)

(* The later of two times. *)
Later(a, b) == IF a < b THEN b ELSE a

(* What the elements of e.segments are. *)
SegmentType == [start : Nat, end : Nat, amps : Amps]

(* The page receives its readings in order. *)
Sorted(h) == \A j, k \in 1 .. Len(h) : j <= k => h[j].at <= h[k].at

-----------------------------------------------------------------------------
(* The greater of two numbers. *)
LEMMA Max2 ==
    ASSUME NEW a \in Int, NEW b \in Int
    PROVE  Max({a, b}) = Later(a, b)
<1> DEFINE S == {a, b}
           lo == IF a < b THEN a ELSE b
           hi == IF a < b THEN b ELSE a
<1>1. lo \in Int /\ hi \in Int /\ S # {} /\ S \subseteq lo .. hi
    OBVIOUS
<1> HIDE DEF S, lo, hi
<1>2. Max(S) \in S /\ \A x \in S : x <= Max(S)
    BY <1>1, MaxFact
<1> QED BY <1>2 DEF S, Later

(* The smaller of two numbers. *)
LEMMA Min2 ==
    ASSUME NEW a \in Int, NEW b \in Int
    PROVE  Min({a, b}) = IF a < b THEN a ELSE b
<1>1. \E x \in {a, b} : \A y \in {a, b} : x <= y
    OBVIOUS
<1>2. Min({a, b}) \in {a, b} /\ \A y \in {a, b} : Min({a, b}) <= y
    BY <1>1 DEF Min
<1> QED BY <1>2

(* The time of a segment after w is the length of what is left of it, and  *)
(* zero when it ends before w.                                             *)
LEMMA SinceFact ==
    ASSUME NEW g \in SegmentType, NEW w \in Int
    PROVE  /\ Since(g, w) = Later(0, g.end - Later(g.start, w))
           /\ Since(g, w) \in Nat
           /\ g.end <= w \/ g.end <= g.start => Since(g, w) = 0
           /\ g.amps * Since(g, w) \in Int
           /\ Since(g, w) = 0 => g.amps * Since(g, w) = 0
<1>1. g.start \in Int /\ g.end \in Int /\ g.amps \in Int
    <2>1. g.start \in Nat /\ g.end \in Nat /\ g.amps \in Amps
        BY DEF SegmentType
    <2>2. \A a \in Amps : a \in Int
        BY EstimatorAssumption
    <2>3. \A n \in Nat : n \in Int
        OBVIOUS
    <2> QED BY <2>1, <2>2, <2>3
<1>2. Max({g.start, w}) = Later(g.start, w) /\ Later(g.start, w) \in Int
    BY <1>1, Max2 DEF Later
<1>3. Since(g, w) = Later(0, g.end - Later(g.start, w))
    BY <1>1, <1>2, Max2 DEF Since
<1>4. Since(g, w) \in Nat /\ (g.end <= w \/ g.end <= g.start => Since(g, w) = 0)
    BY <1>1, <1>3 DEF Later
<1> QED BY <1>1, <1>3, <1>4

(* The window after a reading: the reading's segment adds what it has      *)
(* after w, and segments that end before the window had nothing there.     *)
LEMMA WindowSums ==
    ASSUME NEW S \in SUBSET SegmentType, IsFiniteSet(S), NEW new \in SegmentType,
           NEW c \in Int, NEW w \in Int, c <= w, new \notin S \/ new.end <= new.start
    PROVE  LET R == {g \in S \cup {new} : g.end > c}
           IN  /\ IsFiniteSet(R)
               /\ Span(R, w) = Span(S, w) + Since(new, w)
               /\ AmpTime(R, w) = AmpTime(S, w) + new.amps * Since(new, w)
<1> DEFINE U == S \cup {new}
           R == {g \in U : g.end > c}
           fs == [g \in S |-> Since(g, w)]
           fu == [g \in U |-> Since(g, w)]
           fr == [g \in R |-> Since(g, w)]
           hs == [g \in S |-> g.amps * Since(g, w)]
           hu == [g \in U |-> g.amps * Since(g, w)]
           hr == [g \in R |-> g.amps * Since(g, w)]
<1>1. IsFiniteSet(U) /\ R \in SUBSET U
    BY FS_AddElement
<1>2. IsFiniteSet(R)
    BY <1>1, FS_Subset
<1>3. \A g \in U : /\ g \in SegmentType /\ Since(g, w) \in Int /\ g.amps * Since(g, w) \in Int
                   /\ g \notin R => Since(g, w) = 0 /\ g.amps * Since(g, w) = 0
    <2> SUFFICES ASSUME NEW g \in U
                 PROVE  /\ g \in SegmentType /\ Since(g, w) \in Int /\ g.amps * Since(g, w) \in Int
                        /\ g \notin R => Since(g, w) = 0 /\ g.amps * Since(g, w) = 0
        OBVIOUS
    <2>1. g \in SegmentType /\ g.end \in Nat
        BY DEF SegmentType
    <2>2. g \notin R => g.end <= w
        BY <2>1
    <2> QED BY <2>1, <2>2, SinceFact
<1>4. new \notin S \/ (Since(new, w) = 0 /\ new.amps * Since(new, w) = 0)
    BY SinceFact
<1>5. SumFunctionOnSet(fu, U) = SumFunctionOnSet(fs, S) + Since(new, w)
    <2>1. \A g \in S : fu[g] \in Int /\ fu[g] = fs[g]
        BY <1>3
    <2>2. fu[new] = Since(new, w) /\ fu[new] \in Int
        BY <1>3
    <2> HIDE DEF fu, fs
    <2> QED BY <1>4, <2>1, <2>2, SumExtend
<1>6. SumFunctionOnSet(hu, U) = SumFunctionOnSet(hs, S) + new.amps * Since(new, w)
    <2>1. \A g \in S : hu[g] \in Int /\ hu[g] = hs[g]
        BY <1>3
    <2>2. hu[new] = new.amps * Since(new, w) /\ hu[new] \in Int
        BY <1>3
    <2>3. new \notin S \/ hu[new] = 0
        BY <1>4, <2>2
    <2> HIDE DEF hu, hs
    <2>4. SumFunctionOnSet(hu, S \cup {new}) = SumFunctionOnSet(hs, S) + hu[new]
        BY <2>1, <2>2, <2>3, SumExtend
    <2> QED BY <2>2, <2>4
<1>7. SumFunctionOnSet(fr, R) = SumFunctionOnSet(fu, U)
    <2>1. /\ \A g \in U : fu[g] \in Int
          /\ \A g \in R : fu[g] = fr[g]
          /\ \A g \in U \ R : fu[g] = 0
        BY <1>3
    <2> HIDE DEF fu, fr, U, R
    <2> QED BY <1>1, <2>1, SumPrune
<1>8. SumFunctionOnSet(hr, R) = SumFunctionOnSet(hu, U)
    <2>1. /\ \A g \in U : hu[g] \in Int
          /\ \A g \in R : hu[g] = hr[g]
          /\ \A g \in U \ R : hu[g] = 0
        BY <1>3
    <2> HIDE DEF hu, hr, U, R
    <2> QED BY <1>1, <2>1, SumPrune
<1> HIDE DEF R, U, fs, fu, fr, hs, hu, hr
<1>9. Span(R, w) = Span(S, w) + Since(new, w)
    BY <1>5, <1>7 DEF Span, fr, fs
<1>10. AmpTime(R, w) = AmpTime(S, w) + new.amps * Since(new, w)
    BY <1>6, <1>8 DEF AmpTime, hr, hs
<1> QED BY <1>2, <1>9, <1>10 DEF R, U

(* After the end of all segments they cover nothing. *)
LEMMA WindowEmpty ==
    ASSUME NEW S \in SUBSET SegmentType, IsFiniteSet(S), NEW w \in Int,
           \A g \in S : g.end <= w
    PROVE  Span(S, w) = 0 /\ AmpTime(S, w) = 0
<1> DEFINE f == [g \in S |-> Since(g, w)]
           h == [g \in S |-> g.amps * Since(g, w)]
<1>1. \A g \in S : f[g] = 0 /\ h[g] = 0
    BY SinceFact
<1> HIDE DEF f, h
<1>2. SumFunctionOnSet(f, S) = 0 /\ SumFunctionOnSet(h, S) = 0
    BY <1>1, SumZero
<1> QED BY <1>2 DEF Span, AmpTime, f, h

-----------------------------------------------------------------------------
(* The current before a reading does not depend on that reading. *)
LEMMA AmpsBefore ==
    ASSUME NEW t \in Nat, NEW h \in Seq(Reading(t)), NEW r \in Reading(t),
           NEW u \in Int, u < r.at, NEW i \in 1 .. Len(h), h[i].at <= u
    PROVE  AmpsAt(Append(h, r), u) = AmpsAt(h, u) /\ AmpsAt(h, u) \in Int
<1> DEFINE n == Len(h)
           g == Append(h, r)
           D == {j \in 1 .. n : h[j].at <= u}
           E == {j \in 1 .. Len(g) : g[j].at <= u}
<1>1. n \in Nat /\ Len(g) = n + 1 /\ g[n + 1] = r /\ \A k \in 1 .. n : g[k] = h[k]
    BY AppendProperties, LenProperties
<1>2. \A k \in 1 .. n : h[k] \in Reading(t)
    BY ElementOfSeq
<1>3. E = D
    <2>1. r.at \in Nat /\ ~(r.at <= u)
        BY DEF Reading
    <2>2. \A j \in 1 .. n + 1 : j \in 1 .. n \/ j = n + 1
        BY <1>1
    <2> HIDE DEF g
    <2> QED BY <1>1, <2>1, <2>2
<1>4. Max(D) \in 1 .. n
    <2>1. D # {} /\ D \subseteq 1 .. n /\ 1 \in Int /\ n \in Int
        BY <1>1
    <2> HIDE DEF D
    <2>2. Max(D) \in D
        BY <2>1, MaxFact
    <2> QED BY <2>1, <2>2
<1>5. AmpsAt(g, u) = g[Max(E)].amps /\ AmpsAt(h, u) = h[Max(D)].amps
    BY DEF AmpsAt
<1> HIDE DEF g, D, E
<1>6. AmpsAt(g, u) = AmpsAt(h, u)
    BY <1>1, <1>3, <1>4, <1>5
<1>7. h[Max(D)].amps \in Amps
    BY <1>2, <1>4 DEF Reading
<1> QED BY <1>5, <1>6, <1>7, EstimatorAssumption DEF g

(* From the last reading on to the next, the current is the last           *)
(* reading's.                                                              *)
LEMMA AmpsSince ==
    ASSUME NEW t \in Nat, NEW h \in Seq(Reading(t)), NEW r \in Reading(t),
           NEW u \in Int, u < r.at, h # <<>>, Sorted(h), h[Len(h)].at <= u
    PROVE  AmpsAt(Append(h, r), u) = h[Len(h)].amps
<1> DEFINE n == Len(h)
           g == Append(h, r)
           E == {j \in 1 .. Len(g) : g[j].at <= u}
<1>1. n \in Nat /\ Len(g) = n + 1 /\ g[n + 1] = r /\ \A k \in 1 .. n : g[k] = h[k]
    BY AppendProperties, LenProperties
<1>2. n \in 1 .. n /\ r.at \in Int
    BY <1>1, EmptySeq DEF Reading
<1>3. \A k \in 1 .. n : h[k] \in Reading(t) /\ h[k].at <= h[n].at
    BY <1>2, ElementOfSeq DEF Sorted
<1>4. E = 1 .. n
    <2>1. ~(r.at <= u)
        BY <1>2
    <2>2. \A j \in 1 .. n + 1 : j \in 1 .. n \/ j = n + 1
        BY <1>1
    <2>3. \A j \in 1 .. n : g[j].at <= u
        <3>1. \A j \in 1 .. n : h[j].at \in Int /\ h[j].at <= h[n].at
            BY <1>3 DEF Reading
        <3>2. h[n].at \in Int
            BY <1>2, <3>1
        <3> HIDE DEF g
        <3> QED BY <1>1, <3>1, <3>2
    <2> HIDE DEF g
    <2> QED BY <1>1, <2>1, <2>2, <2>3
<1>5. Max(1 .. n) = n
    <2>1. Max(1 .. n) \in 1 .. n /\ \A x \in 1 .. n : x <= Max(1 .. n)
        <3> DEFINE S == 1 .. n
        <3>1. S # {} /\ S \subseteq 1 .. n /\ 1 \in Int /\ n \in Int
            BY <1>1, <1>2
        <3> HIDE DEF S
        <3>2. Max(S) \in S /\ \A x \in S : x <= Max(S)
            BY <3>1, MaxFact
        <3> QED BY <3>2 DEF S
    <2> QED BY <1>1, <1>2, <2>1
<1>6. AmpsAt(g, u) = g[Max(E)].amps
    BY DEF AmpsAt
<1> QED BY <1>1, <1>2, <1>4, <1>5, <1>6

(* The estimator's last reading is the last of the history. *)
LastOf(e, h) ==
    LET r == h[Len(h)]
    IN  e.last = [at |-> r.at, updatedAt |-> r.taken, amps |-> r.amps]

(* Its direction is that of the session's readings, and 0 only if all of   *)
(* them are idle.                                                          *)
DirectionOf(e, h) ==
    /\ \A j \in SessionStart(h) .. Len(h) : Direction(h[j].amps) \in {0, e.direction}
    /\ e.direction # 0 => \E j \in SessionStart(h) .. Len(h) : Direction(h[j].amps) = e.direction

(* Its idleSince is where the idle readings at the end of the session      *)
(* begin.                                                                  *)
IdleOf(e, h) ==
    IF Direction(h[Len(h)].amps) # 0 THEN e.idleSince = Never
    ELSE \E f \in SessionStart(h) .. Len(h) :
            /\ e.idleSince = h[f].at
            /\ \A j \in f .. Len(h) : Direction(h[j].amps) = 0
            /\ f = SessionStart(h) \/ Direction(h[f - 1].amps) # 0

(* For every time w that a window may begin, now or after further          *)
(* readings, the segments cover the session from w on, with the current of *)
(* its readings.                                                           *)
SumsOf(e, h) ==
    /\ IsFiniteSet(e.segments)
    /\ \A w \in e.last.at - Window .. e.last.at :
          LET from == Later(h[SessionStart(h)].at, w)
          IN  /\ Span(e.segments, w) = e.last.at - from
              /\ AmpTime(e.segments, w) = Integral(h, from, e.last.at)

(* The estimator says of the history what RuntimeAverage does. Windows     *)
(* other than the present one are part of it: a later reading cuts the     *)
(* same segments at a later time.                                          *)
Follows(e, h) ==
    IF h = <<>> THEN e = Reset
    ELSE LastOf(e, h) /\ DirectionOf(e, h) /\ IdleOf(e, h) /\ SumsOf(e, h)

-----------------------------------------------------------------------------
(* A history and a further reading. *)
LEMMA AppendReading ==
    ASSUME NEW t \in Nat, NEW h \in Seq(Reading(t)), NEW r \in Reading(t)
    PROVE  /\ Len(h) \in Nat /\ Append(h, r) \in Seq(Reading(t)) /\ Append(h, r) # <<>>
           /\ Len(Append(h, r)) = Len(h) + 1 /\ Append(h, r)[Len(h) + 1] = r
           /\ \A k \in 1 .. Len(h) : Append(h, r)[k] = h[k] /\ h[k] \in Reading(t)
           /\ h # <<>> => Len(h) \in 1 .. Len(h) /\ SessionStart(h) \in 1 .. Len(h)
<1>1. /\ Len(h) \in Nat /\ Append(h, r) \in Seq(Reading(t)) /\ Append(h, r) # <<>>
      /\ Len(Append(h, r)) = Len(h) + 1 /\ Append(h, r)[Len(h) + 1] = r
      /\ \A k \in 1 .. Len(h) : Append(h, r)[k] = h[k]
    BY AppendProperties, LenProperties
<1>2. \A k \in 1 .. Len(h) : h[k] \in Reading(t)
    BY ElementOfSeq
<1>3. h # <<>> => Len(h) # 0
    BY EmptySeq
<1> QED BY <1>1, <1>2, <1>3, SessionRange

(* The fields of a reading. *)
LEMMA ReadingFact ==
    ASSUME NEW t \in Nat, NEW r \in Reading(t)
    PROVE  /\ r.at \in 0 .. t /\ r.amps \in Amps /\ r.amps \in Int /\ r.boot \in 0 .. t
           /\ r.taken \in Nat /\ Direction(r.amps) \in {-1, 0, 1}
<1>1. r.at \in 0 .. t /\ r.amps \in Amps /\ r.boot \in 0 .. t /\ r.taken \in Nat
    BY DEF Reading
<1>2. r.amps \in Int
    BY <1>1, EstimatorAssumption
<1> QED BY <1>1, <1>2, DirectionType

(* The fields that update() leaves. *)
LEMMA AddFields ==
    ASSUME NEW e, NEW t, NEW u, NEW a
    PROVE  LET f == Add(e, t, u, a)
           IN  /\ f.segments = {g \in e.segments \cup Segment(e, t) : g.end > t - Window}
               /\ f.last = [at |-> t, updatedAt |-> u, amps |-> a]
               /\ f.direction = Heading(e, Direction(a))
               /\ f.idleSince = IdleFrom(e, t, Direction(a))
    BY DEF Add

(* A reading that starts a session has the window to itself. *)
LEMMA FollowsFresh ==
    ASSUME NEW t \in Nat, NEW h \in Seq(Reading(t)), NEW r \in Reading(t), r.at = t,
           SessionStart(Append(h, r)) = Len(h) + 1
    PROVE  Follows(Add(Reset, t, r.taken, r.amps), Append(h, r))
<1> DEFINE n == Len(h)
           g == Append(h, r)
           e == Add(Reset, t, r.taken, r.amps)
           d == Direction(r.amps)
<1>1. n \in Nat /\ Len(g) = n + 1 /\ g[n + 1] = r /\ g # <<>>
    BY AppendReading
<1>2. d \in {-1, 0, 1}
    BY ReadingFact
<1>3. /\ e.segments = {} /\ e.last = [at |-> t, updatedAt |-> r.taken, amps |-> r.amps]
      /\ e.direction = d /\ e.idleSince = IF d # 0 THEN Never ELSE t
    <2>1. Reset.segments = {} /\ Segment(Reset, t) = {} /\ Heading(Reset, d) = d
          /\ IdleFrom(Reset, t, d) = IF d # 0 THEN Never ELSE t
        BY <1>2 DEF Reset, Segment, Has, Heading, IdleFrom
    <2> HIDE DEF d
    <2> QED BY <2>1, AddFields DEF d
<1> HIDE DEF e
<1>4. SessionStart(g) = n + 1
    OBVIOUS
<1> HIDE DEF g, n
<1>5. LastOf(e, g)
    BY <1>1, <1>3 DEF LastOf
<1>6. \A j \in n + 1 .. n + 1 : j = n + 1
    BY <1>1
<1>7. n + 1 \in n + 1 .. n + 1
    BY <1>1
<1>8. DirectionOf(e, g)
    BY <1>1, <1>3, <1>4, <1>6, <1>7 DEF DirectionOf
<1>9. IdleOf(e, g)
    BY <1>1, <1>3, <1>4, <1>6, <1>7 DEF IdleOf
<1>10. SumsOf(e, g)
    <2>1. IsFiniteSet(e.segments)
        BY <1>3, FS_EmptySet
    <2>2. ASSUME NEW w \in t - Window .. t
          PROVE  /\ Span(e.segments, w) = t - Later(t, w)
                 /\ AmpTime(e.segments, w) = Integral(g, Later(t, w), t)
        <3>1. Later(t, w) = t
            BY EstimatorAssumption DEF Later
        <3>2. Span({}, w) = 0 /\ AmpTime({}, w) = 0
            BY SumEmpty DEF Span, AmpTime
        <3>3. Integral(g, t, t) = 0
            <4>1. t .. t - 1 = {}
                OBVIOUS
            <4> QED BY <4>1, SumEmpty DEF Integral
        <3> QED BY <1>3, <3>1, <3>2, <3>3
    <2> QED BY <1>1, <1>3, <1>4, <2>1, <2>2 DEF SumsOf
<1>11. Follows(e, g)
    BY <1>1, <1>5, <1>8, <1>9, <1>10 DEF Follows
<1> QED BY <1>11 DEF e, g

(* With a further reading the integral goes on with the current of the one *)
(* before, from where it was last counted or from the beginning of the     *)
(* window.                                                                 *)
LEMMA IntegralJoins ==
    ASSUME NEW t \in Nat, NEW h \in Seq(Reading(t)), h # <<>>, Sorted(h), NEW r \in Reading(t),
           r.at = t, NEW a \in Int, NEW i \in 1 .. Len(h), h[i].at <= a
    PROVE  LET last == h[Len(h)]
           IN  Integral(Append(h, r), a, t) =
                  IF a <= last.at THEN Integral(h, a, last.at) + Times(last.amps, last.at, t)
                  ELSE IF a <= t THEN Times(last.amps, a, t) ELSE 0
<1> DEFINE n == Len(h)
           g == Append(h, r)
           last == h[n]
           T == last.at
           v == last.amps
           F == [u \in a .. t - 1 |-> AmpsAt(g, u)]
           G == [u \in a .. T - 1 |-> AmpsAt(h, u)]
<1>1. n \in 1 .. n /\ last \in Reading(t) /\ T \in 0 .. t /\ T \in Int /\ v \in Int /\ t \in Int
    BY AppendReading, ReadingFact
<1>2. ASSUME NEW u \in Int, T <= u, u < t PROVE AmpsAt(g, u) = v
    BY <1>2, AmpsSince
<1>3. ASSUME NEW u \in Int, a <= u, u < t PROVE AmpsAt(g, u) = AmpsAt(h, u) /\ AmpsAt(h, u) \in Int
    <2>1. h[i].at \in Int
        BY AppendReading, ReadingFact
    <2>2. h[i].at <= u
        BY <1>3, <2>1
    <2> QED BY <1>3, <2>2, AmpsBefore
<1> HIDE DEF g, T, v
<1>4. CASE a <= T
    <2>1. \A u \in a .. T - 1 : F[u] \in Int /\ F[u] = G[u]
        BY <1>1, <1>3
    <2>2. \A u \in T .. t - 1 : F[u] = v
        BY <1>1, <1>2, <1>4
    <2> HIDE DEF F, G
    <2>3. SumTo(F, a, t) = SumTo(F, a, T) + Times(v, T, t)
        <3>1. IntegersIn(F, a, T) /\ Steady(F, T, t, v)
            BY <2>1, <2>2 DEF IntegersIn, Steady
        <3>2. T \in Int /\ t \in Int /\ v \in Int /\ T <= t
            BY <1>1
        <3> QED BY <1>4, <3>1, <3>2, SumStretch
    <2>4. SumTo(F, a, T) = SumTo(G, a, T)
        <3> DEFINE S == a .. T - 1
        <3>1. IsFiniteSet(S)
            BY <1>1, FS_Interval
        <3>2. \A u \in S : F[u] = G[u]
            BY <2>1
        <3> HIDE DEF S
        <3>3. SumFunctionOnSet(F, S) = SumFunctionOnSet(G, S)
            BY <3>1, <3>2, SumSame
        <3> QED BY <3>3 DEF S, SumTo
    <2>5. Integral(g, a, t) = Integral(h, a, T) + Times(v, T, t)
        BY <2>3, <2>4 DEF Integral, F, G, SumTo
    <2> QED BY <1>4, <2>5 DEF g, T, v
<1>5. CASE ~(a <= T) /\ a <= t
    <2>1. \A u \in a .. t - 1 : F[u] = v
        BY <1>1, <1>2, <1>5
    <2>2. \A u \in a .. a - 1 : F[u] \in Int
        OBVIOUS
    <2> HIDE DEF F
    <2>3. SumTo(F, a, t) = SumTo(F, a, a) + Times(v, a, t)
        <3>1. v \in Int /\ t \in Int /\ a <= a
            BY <1>1
        <3>2. IntegersIn(F, a, a) /\ Steady(F, a, t, v)
            BY <2>1, <2>2 DEF IntegersIn, Steady
        <3> QED BY <1>5, <3>1, <3>2, SumStretch
    <2>4. SumTo(F, a, a) = 0
        <3>1. a .. a - 1 = {}
            OBVIOUS
        <3> QED BY <3>1, SumEmpty DEF SumTo
    <2>5. Integral(g, a, t) = Times(v, a, t)
        <3>1. Times(v, a, t) \in Int
            BY <1>1 DEF Times
        <3>2. Integral(g, a, t) = 0 + Times(v, a, t)
            BY <2>3, <2>4 DEF Integral, F, SumTo
        <3> QED BY <3>1, <3>2
    <2> QED BY <1>5, <2>5 DEF g, T, v
<1>6. CASE ~(a <= T) /\ ~(a <= t)
    <2>1. a .. t - 1 = {}
        BY <1>1, <1>6
    <2>2. Integral(g, a, t) = 0
        BY <2>1, SumEmpty DEF Integral
    <2> QED BY <1>6, <2>2 DEF g, T, v
<1> QED BY <1>4, <1>5, <1>6

(* The fields of the estimator's last reading. *)
LEMMA LastFact ==
    ASSUME NEW t \in Nat, NEW h \in Seq(Reading(t)), h # <<>>, NEW e, LastOf(e, h)
    PROVE  /\ Has(e) /\ e.last.at = h[Len(h)].at /\ e.last.amps = h[Len(h)].amps
           /\ e.last.updatedAt = h[Len(h)].taken
<1>1. h[Len(h)].at \in Nat
    <2>1. Len(h) \in 1 .. Len(h) /\ h[Len(h)] \in Reading(t)
        BY EmptySeq, LenProperties, ElementOfSeq
    <2> QED BY <2>1, ReadingFact
<1> QED BY <1>1 DEF LastOf, Has, NoReading, Never

(* A reading that joins the session keeps SumsOf: a window that begins     *)
(* before the last reading grows by the whole new segment, one that begins *)
(* after it holds a part of that segment only.                             *)
LEMMA SumsJoin ==
    ASSUME NEW t \in Nat, NEW h \in Seq(Reading(t)), h # <<>>, Sorted(h),
           NEW r \in Reading(t), r.at = t, NEW e, Estimator(e, t),
           LastOf(e, h), SumsOf(e, h), SessionStart(Append(h, r)) = SessionStart(h)
    PROVE  SumsOf(Add(e, t, r.taken, r.amps), Append(h, r))
<1> DEFINE n == Len(h)
           g == Append(h, r)
           f == Add(e, t, r.taken, r.amps)
           i == SessionStart(h)
           T == h[n].at
           v == h[n].amps
           s == h[i].at
           S == e.segments
           new == [start |-> T, end |-> t, amps |-> v]
           R == {x \in S \cup {new} : x.end > t - Window}
<1>1. n \in 1 .. n /\ i \in 1 .. n /\ g[i] = h[i] /\ h[n] \in Reading(t) /\ h[i] \in Reading(t)
    BY AppendReading
<1>2. T \in 0 .. t /\ T \in Int /\ v \in Int /\ v \in Amps /\ s \in Int /\ s <= T /\ t \in Int
    <2>1. s <= T
        BY <1>1 DEF Sorted
    <2> QED BY <1>1, <2>1, ReadingFact
<1>3. Has(e) /\ e.last.at = T /\ e.last.amps = v
    BY LastFact
<1>4. f.segments = R /\ f.last.at = t
    <2>1. Segment(e, t) = {new}
        BY <1>3 DEF Segment
    <2> HIDE DEF new
    <2>2. /\ f.segments = {x \in S \cup Segment(e, t) : x.end > t - Window}
          /\ f.last = [at |-> t, updatedAt |-> r.taken, amps |-> r.amps]
        BY AddFields
    <2> HIDE DEF f
    <2> QED BY <2>1, <2>2
<1>5. /\ S \in SUBSET SegmentType /\ IsFiniteSet(S)
      /\ \A x \in S : x.end \in Nat /\ x.start \in Nat /\ x.start <= x.end /\ x.end <= T
    BY <1>3 DEF Estimator, SegmentType, SumsOf
<1>6. new \in SegmentType /\ (new \notin S \/ new.end <= new.start)
    <2>1. new \in SegmentType
        BY <1>2 DEF SegmentType
    <2>2. new.end = t /\ new.start = T
        OBVIOUS
    <2> HIDE DEF new
    <2> QED BY <1>2, <1>5, <2>1, <2>2
<1>w. Window \in Nat /\ t - Window \in Int
    BY EstimatorAssumption
<1>7. IsFiniteSet(R)
    <2>1. t - Window \in Int /\ t - Window <= t
        BY <1>2, <1>w
    <2> DEFINE c == t - Window
               Q == {x \in S \cup {new} : x.end > c}
    <2> HIDE DEF new, S, c
    <2>2. c \in Int /\ t \in Int /\ c <= t
        BY <1>2, <2>1 DEF c
    <2>3. IsFiniteSet(Q)
        BY <1>5, <1>6, <2>2, WindowSums
    <2> QED BY <2>3 DEF c
<1>8. SessionStart(g) = i /\ g[i].at = s
    BY <1>1
<1>9. ASSUME NEW w \in t - Window .. t
      PROVE  /\ Span(R, w) = t - Later(s, w)
             /\ AmpTime(R, w) = Integral(g, Later(s, w), t)
    <2>1. w \in Int /\ t - Window <= w /\ w <= t
        BY <1>w
    <2>2. /\ Span(R, w) = Span(S, w) + Since(new, w)
          /\ AmpTime(R, w) = AmpTime(S, w) + new.amps * Since(new, w)
        <3> HIDE DEF new
        <3> QED BY <1>5, <1>6, <1>w, <2>1, WindowSums
    <2>3. Since(new, w) = t - Later(T, w) /\ new.amps = v
        <3>1. Since(new, w) = Later(0, new.end - Later(new.start, w))
            <4> HIDE DEF new
            <4> QED BY <1>6, <2>1, SinceFact
        <3> QED BY <1>2, <2>1, <3>1 DEF Later
    <2>a. Later(s, w) \in Int /\ s <= Later(s, w)
        BY <1>2, <2>1 DEF Later
    <2>4. Integral(g, Later(s, w), t) =
              IF Later(s, w) <= T THEN Integral(h, Later(s, w), T) + Times(v, T, t)
              ELSE IF Later(s, w) <= t THEN Times(v, Later(s, w), t) ELSE 0
        BY <1>1, <2>a, IntegralJoins
    <2> HIDE DEF new, R, S, g
    <2>5. CASE w <= T
        <3>1. w \in T - Window .. T
            BY <1>2, <1>w, <2>1, <2>5
        <3>2. Span(S, w) = T - Later(s, w) /\ AmpTime(S, w) = Integral(h, Later(s, w), T)
            BY <1>3, <3>1 DEF SumsOf, S
        <3>3. Later(s, w) <= T /\ Later(T, w) = T
            BY <1>2, <2>1, <2>5 DEF Later
        <3>4. v * (t - T) = Times(v, T, t)
            BY DEF Times
        <3>5. Since(new, w) = t - T
            BY <2>3, <3>3
        <3>6. Span(R, w) = t - Later(s, w)
            BY <1>2, <2>2, <2>a, <3>2, <3>5
        <3> QED BY <2>2, <2>3, <2>4, <3>2, <3>3, <3>4, <3>5, <3>6
    <2>6. CASE ~(w <= T)
        <3>1. Later(s, w) = w /\ Later(T, w) = w
            BY <1>2, <2>1, <2>6 DEF Later
        <3>2. \A x \in S : x.end <= w
            BY <1>2, <1>5, <2>1, <2>6
        <3>3. Span(S, w) = 0 /\ AmpTime(S, w) = 0
            BY <1>5, <2>1, <3>2, WindowEmpty
        <3>4. Since(new, w) = t - w
            BY <2>3, <3>1
        <3>5. Span(R, w) = t - w
            BY <1>2, <2>1, <2>2, <3>3, <3>4
        <3>6. v * (t - w) = Times(v, w, t) /\ Times(v, w, t) \in Int
            BY <1>2, <2>1 DEF Times
        <3>7. AmpTime(R, w) = Times(v, w, t)
            BY <2>2, <2>3, <3>3, <3>4, <3>6
        <3> QED BY <2>1, <2>4, <2>6, <3>1, <3>5, <3>7
    <2> QED BY <2>5, <2>6
<1> HIDE DEF R, S, new, f, g, s, i
<1>10. SumsOf(f, g)
    BY <1>4, <1>7, <1>8, <1>9 DEF SumsOf
<1> QED BY <1>10 DEF f, g

(* A reading that joins the session keeps DirectionOf. *)
LEMMA DirectionJoin ==
    ASSUME NEW t \in Nat, NEW h \in Seq(Reading(t)), h # <<>>,
           NEW r \in Reading(t), NEW e, e.direction \in {-1, 0, 1},
           DirectionOf(e, h), SessionStart(Append(h, r)) = SessionStart(h),
           Direction(r.amps) # 0 => e.direction \in {0, Direction(r.amps)}
    PROVE  DirectionOf(Add(e, t, r.taken, r.amps), Append(h, r))
<1> DEFINE n == Len(h)
           g == Append(h, r)
           f == Add(e, t, r.taken, r.amps)
           i == SessionStart(h)
           d == Direction(r.amps)
<1>1. /\ n \in 1 .. n /\ i \in 1 .. n /\ Len(g) = n + 1 /\ g[n + 1] = r
      /\ \A j \in i .. n : g[j] = h[j]
    BY AppendReading
<1>2. d \in {-1, 0, 1}
    BY ReadingFact
<1>3. f.direction = IF d # 0 THEN d ELSE e.direction
    <2>1. Heading(e, d) = IF d # 0 THEN d ELSE e.direction
        BY DEF Heading
    <2>2. f.direction = Heading(e, d)
        BY DEF Add
    <2> QED BY <2>1, <2>2
<1>4. \A j \in i .. n + 1 : j \in i .. n \/ j = n + 1
    BY <1>1
<1>5. n + 1 \in i .. n + 1 /\ i .. n \subseteq i .. n + 1
    BY <1>1
<1>6. /\ \A j \in i .. n : Direction(h[j].amps) \in {0, e.direction}
      /\ e.direction # 0 => \E j \in i .. n : Direction(h[j].amps) = e.direction
    BY DEF DirectionOf
<1>7. SessionStart(g) = i /\ Direction(g[n + 1].amps) = d
    BY <1>1
<1> HIDE DEF f, g, i, n, d
<1>8. \A j \in i .. n + 1 : Direction(g[j].amps) \in {0, f.direction}
    BY <1>1, <1>3, <1>4, <1>6, <1>7 DEF d
<1>9. f.direction # 0 => \E j \in i .. n + 1 : Direction(g[j].amps) = f.direction
    BY <1>1, <1>3, <1>5, <1>6, <1>7
<1>10. DirectionOf(f, g)
    BY <1>1, <1>7, <1>8, <1>9 DEF DirectionOf
<1> QED BY <1>10 DEF f, g

(* A reading that joins the session keeps IdleOf: idling begins with an    *)
(* idle reading after one that is not.                                     *)
LEMMA IdleJoin ==
    ASSUME NEW t \in Nat, NEW h \in Seq(Reading(t)), h # <<>>,
           NEW r \in Reading(t), r.at = t, NEW e,
           IdleOf(e, h), SessionStart(Append(h, r)) = SessionStart(h)
    PROVE  IdleOf(Add(e, t, r.taken, r.amps), Append(h, r))
<1> DEFINE n == Len(h)
           g == Append(h, r)
           f == Add(e, t, r.taken, r.amps)
           i == SessionStart(h)
           d == Direction(r.amps)
<1>1. /\ n \in 1 .. n /\ i \in 1 .. n /\ Len(g) = n + 1 /\ g[n + 1] = r
      /\ \A j \in 1 .. n : g[j] = h[j] /\ h[j].at # Never
    <2>1. \A j \in 1 .. n : h[j] \in Reading(t)
        BY AppendReading
    <2> QED BY <2>1, AppendReading, ReadingFact DEF Never
<1>3. f.idleSince = IF d # 0 THEN Never ELSE IF e.idleSince = Never THEN t ELSE e.idleSince
    <2>1. IdleFrom(e, t, d) =
              IF d # 0 THEN Never ELSE IF e.idleSince = Never THEN t ELSE e.idleSince
        BY DEF IdleFrom
    <2>2. f.idleSince = IdleFrom(e, t, d)
        BY DEF Add
    <2> QED BY <2>1, <2>2
<1>7. SessionStart(g) = i /\ Direction(g[n + 1].amps) = d /\ g[n + 1].at = t
    BY <1>1
<1>8. IF Direction(h[n].amps) # 0 THEN e.idleSince = Never
      ELSE \E k \in i .. n :
            /\ e.idleSince = h[k].at
            /\ \A j \in k .. n : Direction(h[j].amps) = 0
            /\ k = i \/ Direction(h[k - 1].amps) # 0
    BY DEF IdleOf
<1> HIDE DEF f, g, i, n, d
<1>9. CASE d # 0
    <2>1. IdleOf(f, g)
        BY <1>1, <1>3, <1>7, <1>9 DEF IdleOf
    <2> QED BY <2>1 DEF f, g
<1>10. CASE d = 0 /\ Direction(h[n].amps) # 0
    <2>1. n + 1 \in i .. n + 1 /\ (n + 1) - 1 = n /\ \A j \in n + 1 .. n + 1 : j = n + 1
        BY <1>1
    <2>2. f.idleSince = g[n + 1].at
        BY <1>3, <1>7, <1>8, <1>10
    <2>3. g[n] = h[n]
        BY <1>1
    <2>4. IdleOf(f, g)
        BY <1>1, <1>7, <1>10, <2>1, <2>2, <2>3 DEF IdleOf
    <2> QED BY <2>4 DEF f, g
<1>11. CASE d = 0 /\ Direction(h[n].amps) = 0
    <2>1. PICK k \in i .. n :
            /\ e.idleSince = h[k].at
            /\ \A j \in k .. n : Direction(h[j].amps) = 0
            /\ k = i \/ Direction(h[k - 1].amps) # 0
        BY <1>8, <1>11
    <2>2. k \in i .. n + 1 /\ k \in 1 .. n /\ g[k] = h[k] /\ (k # i => g[k - 1] = h[k - 1])
        BY <1>1
    <2>3. f.idleSince = g[k].at
        BY <1>1, <1>3, <1>11, <2>1, <2>2
    <2>4. \A j \in k .. n + 1 : Direction(g[j].amps) = 0
        <3>1. \A j \in k .. n + 1 : j \in k .. n \/ j = n + 1
            BY <1>1
        <3>2. \A j \in k .. n : g[j] = h[j]
            BY <1>1
        <3> QED BY <1>7, <1>11, <2>1, <3>1, <3>2
    <2>5. IdleOf(f, g)
        BY <1>1, <1>7, <1>11, <2>1, <2>2, <2>3, <2>4 DEF IdleOf
    <2> QED BY <2>5 DEF f, g
<1> QED BY <1>9, <1>10, <1>11

(* A reading that joins the session keeps Follows. *)
LEMMA FollowsJoins ==
    ASSUME NEW t \in Nat, NEW h \in Seq(Reading(t)), h # <<>>, Sorted(h),
           NEW r \in Reading(t), r.at = t, NEW e, Estimator(e, t),
           Follows(e, h), SessionStart(Append(h, r)) = SessionStart(h),
           Direction(r.amps) # 0 => e.direction \in {0, Direction(r.amps)}
    PROVE  Follows(Add(e, t, r.taken, r.amps), Append(h, r))
<1>1. LastOf(e, h) /\ DirectionOf(e, h) /\ IdleOf(e, h) /\ SumsOf(e, h)
    BY DEF Follows
<1>2. e.direction \in {-1, 0, 1}
    BY DEF Estimator
<1>3. LastOf(Add(e, t, r.taken, r.amps), Append(h, r))
    BY AppendReading, AddFields DEF LastOf
<1> QED BY <1>1, <1>2, <1>3, AppendReading, SumsJoin, DirectionJoin, IdleJoin DEF Follows

(* A start of the device lasts so long that the next one shows: within     *)
(* Stale of the last reading the new clock is still behind the old one's,  *)
(* whatever the messages' delays.                                          *)
RestartsShow == \A lag \in Lags : Stale + lag <= MinUptime + 1

(* Readings are received in order; the last was taken before it was        *)
(* received, on the clock of a start that lasted or is still the present   *)
(* one.                                                                    *)
Timely(h, b) ==
    /\ Sorted(h)
    /\ h # <<>> => LET r == h[Len(h)]
                   IN  /\ \E lag \in Lags : r.taken = r.at - lag - r.boot
                       /\ r.boot = b \/ r.boot + MinUptime <= b

(* idleSince tells whether the session has been idle for the warm-up time. *)
LEMMA IdleTest ==
    ASSUME NEW t \in Nat, NEW h \in Seq(Reading(t)), h # <<>>, Sorted(h),
           NEW e, IdleOf(e, h), NEW u \in Nat
    PROVE  (e.idleSince # Never /\ u - e.idleSince >= Warmup) <=>
               \E j \in SessionStart(h) .. Len(h) : IdleSince(h, j, Len(h), u)
<1> DEFINE n == Len(h)
           i == SessionStart(h)
<1>1. n \in 1 .. n /\ i \in 1 .. n /\ Warmup \in Nat
    BY AppendReading, EstimatorAssumption
<1>2. \A j \in 1 .. n : h[j].at \in Nat /\ h[j].at # Never
    BY AppendReading, ReadingFact DEF Never
<1>3. \A j, k \in 1 .. n : j <= k => h[j].at <= h[k].at
    BY DEF Sorted
<1>4. IF Direction(h[n].amps) # 0 THEN e.idleSince = Never
      ELSE \E k \in i .. n :
            /\ e.idleSince = h[k].at
            /\ \A j \in k .. n : Direction(h[j].amps) = 0
            /\ k = i \/ Direction(h[k - 1].amps) # 0
    BY DEF IdleOf
<1> HIDE DEF n, i
<1>5. CASE Direction(h[n].amps) # 0
    <2>1. \A j \in i .. n : n \in j .. n
        BY <1>1
    <2> QED BY <1>4, <1>5, <2>1 DEF IdleSince, n, i
<1>6. CASE Direction(h[n].amps) = 0
    <2>1. PICK k \in i .. n :
            /\ e.idleSince = h[k].at
            /\ \A j \in k .. n : Direction(h[j].amps) = 0
            /\ k = i \/ Direction(h[k - 1].amps) # 0
        BY <1>4, <1>6
    <2>2. k \in 1 .. n
        BY <1>1
    <2>3. ASSUME u - e.idleSince >= Warmup PROVE IdleSince(h, k, n, u)
        BY <2>1, <2>3 DEF IdleSince
    <2>4. ASSUME NEW j \in i .. n, IdleSince(h, j, n, u) PROVE u - e.idleSince >= Warmup
        <3>1. j \in 1 .. n
            BY <1>1
        <3>2. k <= j
            <4> SUFFICES ASSUME j < k PROVE FALSE
                BY <2>2, <3>1
            <4>1. k - 1 \in j .. n /\ k # i
                BY <1>1, <2>2, <3>1
            <4> QED BY <2>1, <2>4, <4>1 DEF IdleSince
        <3>3. h[k].at <= h[j].at
            BY <1>3, <2>2, <3>1, <3>2
        <3>4. u - h[j].at >= Warmup
            BY <2>4 DEF IdleSince
        <3>5. h[k].at \in Nat /\ h[j].at \in Nat
            BY <1>2, <2>2, <3>1
        <3>6. e.idleSince = h[k].at
            BY <2>1
        <3> DEFINE a == h[k].at
                   b == h[j].at
        <3>7. a \in Nat /\ b \in Nat /\ a <= b /\ u - b >= Warmup
            BY <3>3, <3>4, <3>5
        <3> HIDE DEF a, b
        <3>8. u - a >= Warmup
            BY <1>1, <3>7
        <3> QED BY <3>6, <3>8 DEF a
    <2>5. e.idleSince # Never
        BY <1>2, <2>1, <2>2
    <2> QED BY <2>3, <2>4, <2>5 DEF n, i
<1> QED BY <1>5, <1>6

(* The three tests of update() together start over exactly where           *)
(* RuntimeAverage lets a session end. A restart that update() does not see *)
(* on the device's clock comes with a gap of Stale, by RestartsShow.       *)
LEMMA TestsBreak ==
    ASSUME RestartsShow, NEW t \in Nat, NEW h \in Seq(Reading(t)), h # <<>>,
           NEW r \in Reading(t), r.at = t, NEW lag \in Lags, r.taken = t - lag - r.boot,
           NEW e, Estimator(e, t), Follows(e, h), Timely(h, r.boot),
           h[Len(h)].taken # r.taken, h[Len(h)].boot = r.boot => h[Len(h)].taken < r.taken
    PROVE  LET d == Direction(r.amps)
           IN  Turn(Resume(Refresh(e, t, r.taken), t, d), d) =
                   IF Breaks(Append(h, r), SessionStart(h), Len(h) + 1) THEN Reset ELSE e
<1> DEFINE n == Len(h)
           g == Append(h, r)
           i == SessionStart(h)
           d == Direction(r.amps)
           u == r.taken
           gap == t - e.last.at >= Stale \/ u < e.last.updatedAt
           idle == e.idleSince # Never /\ t - e.idleSince >= Warmup
           turn == e.direction # 0 /\ d # e.direction
<1>1. /\ n \in 1 .. n /\ i \in 1 .. n /\ g[n + 1] = r /\ (n + 1) - 1 = n
      /\ \A j \in 1 .. n : g[j] = h[j] /\ h[j] \in Reading(t)
    BY AppendReading
<1>2. Has(e) /\ e.last.at = h[n].at /\ e.last.updatedAt = h[n].taken
    BY LastFact DEF Follows
<1>3. d \in {-1, 0, 1} /\ e.direction \in {-1, 0, 1}
    BY ReadingFact DEF Estimator
<1>4. gap <=> (r.at - h[n].at >= Stale \/ r.boot # h[n].boot)
    <2>1. PICK old \in Lags : h[n].taken = h[n].at - old - h[n].boot
        BY DEF Timely
    <2>2. h[n].boot = r.boot \/ h[n].boot + MinUptime <= r.boot
        BY DEF Timely
    <2>3. /\ h[n].at \in Nat /\ h[n].boot \in Nat /\ h[n].taken \in Nat
          /\ r.boot \in Nat /\ r.taken \in Nat
        BY <1>1, ReadingFact
    <2> DEFINE T == h[n].at
               b == r.boot
               c == h[n].boot
               x == h[n].taken
    <2>4. /\ T \in Nat /\ b \in Nat /\ c \in Nat /\ x \in Nat /\ u \in Nat
          /\ u = t - lag - b /\ x = T - old - c /\ x # u /\ (c = b => x < u)
          /\ c = b \/ c + MinUptime <= b
        BY <2>1, <2>2, <2>3
    <2> HIDE DEF T, b, c, x, u
    <2>5. (t - T >= Stale \/ b # c) <=> (t - T >= Stale \/ u < x)
        <3>1. Stale \in Nat /\ MinUptime \in Nat /\ lag \in Nat /\ old \in Nat
            BY EstimatorAssumption
        <3>2. Stale + old <= MinUptime + 1
            BY DEF RestartsShow
        <3>3. CASE c = b
            BY <2>4, <3>3
        <3>4. CASE c # b
            BY <2>4, <3>1, <3>2, <3>4
        <3> QED BY <3>3, <3>4
    <2> QED BY <1>2, <2>5 DEF T, b, c, x, u
<1>5. idle <=> \E j \in i .. n : IdleSince(h, j, n, t)
    <2>1. IdleOf(e, h) /\ Sorted(h)
        BY DEF Follows, Timely
    <2> QED BY <2>1, IdleTest
<1>6. d # 0 => (turn <=> \E j \in i .. n : Direction(h[j].amps) = -d)
    <2>1. /\ \A j \in i .. n : Direction(h[j].amps) \in {0, e.direction}
          /\ e.direction # 0 => \E j \in i .. n : Direction(h[j].amps) = e.direction
        BY DEF Follows, DirectionOf
    <2> HIDE DEF d, i, n
    <2> QED BY <1>3, <2>1
<1> HIDE DEF n, i, d, g, u
<1>7. Breaks(g, i, n + 1) <=> gap \/ (d # 0 /\ (turn \/ idle))
    <2>1. \A j \in i .. n : g[j] = h[j]
        BY <1>1
    <2>2. \A j \in i .. n : IdleSince(g, j, n, t) <=> IdleSince(h, j, n, t)
        <3>1. \A j \in i .. n : j \in j .. n /\ \A m \in j .. n : m \in i .. n
            BY <1>1
        <3> QED BY <2>1, <3>1 DEF IdleSince
    <2>3. Breaks(g, i, n + 1) <=>
             \/ r.at - h[n].at >= Stale \/ r.boot # h[n].boot
             \/ d # 0 /\ \E j \in i .. n : Direction(h[j].amps) = -d \/ IdleSince(h, j, n, t)
        <3>1. g[n] = h[n]
            BY <1>1
        <3> QED BY <1>1, <2>1, <2>2, <3>1 DEF Breaks, d
    <2> HIDE DEF gap, turn, idle
    <2> QED BY <1>4, <1>5, <1>6, <2>3
<1>8. Turn(Resume(Refresh(e, t, u), t, d), d) =
          IF gap \/ (d # 0 /\ (turn \/ idle)) THEN Reset ELSE e
    <2>1. Reset.idleSince = Never /\ Reset.direction = 0
        BY DEF Reset
    <2>2. Refresh(e, t, u) = IF gap THEN Reset ELSE e
        BY <1>2 DEF Refresh
    <2>3. Resume(Reset, t, d) = Reset /\ Turn(Reset, d) = Reset
        BY <2>1 DEF Resume, Turn
    <2>4. Resume(e, t, d) = IF d # 0 /\ idle THEN Reset ELSE e
        BY DEF Resume
    <2>5. Turn(e, d) = IF d # 0 /\ turn THEN Reset ELSE e
        BY DEF Turn
    <2> HIDE DEF gap, turn, idle
    <2> QED BY <2>2, <2>3, <2>4, <2>5
<1> HIDE DEF gap, turn, idle
<1>9. Turn(Resume(Refresh(e, t, u), t, d), d) = IF Breaks(g, i, n + 1) THEN Reset ELSE e
    BY <1>7, <1>8
<1> QED BY <1>9 DEF u, d, g, i, n

(* The snapshot of an estimator that follows the history is the README's   *)
(* estimate of that history.                                               *)
LEMMA SnapshotFollows ==
    ASSUME NEW t \in Nat, NEW h \in Seq(Reading(t)), Sorted(h),
           NEW e, Estimator(e, t), Follows(e, h), NEW u \in Nat
    PROVE  Snapshot(e, u) = Estimate(h, u)
<1>1. CASE h = <<>>
    <2>1. e = Reset /\ ~Has(Reset) /\ Len(h) = 0
        BY <1>1, EmptySeq DEF Follows, Reset, Has
    <2> QED BY <2>1 DEF Snapshot, Estimate
<1>2. CASE h # <<>>
    <2> DEFINE n == Len(h)
               i == SessionStart(h)
               T == h[n].at
               s == h[i].at
               W == T - Window
               used == {j \in i .. n : Direction(h[j].amps) # 0}
               spanH == Min({Window, T - s})
               areaH == SumFunction([m \in T - spanH .. T - 1 |-> AmpsAt(h, m)])
               spanE == SumFunction([g \in e.segments |-> Share(e, g)])
               areaE == SumFunction([g \in e.segments |-> g.amps * Share(e, g)])
               idle == \E j \in i .. n : IdleSince(h, j, n, u)
    <2>1. LastOf(e, h) /\ DirectionOf(e, h) /\ IdleOf(e, h) /\ SumsOf(e, h) /\ Sorted(h)
        BY <1>2 DEF Follows
    <2>2. n \in 1 .. n /\ i \in 1 .. n /\ h[n] \in Reading(t) /\ h[i] \in Reading(t) /\ n # 0
        BY <1>2, AppendReading
    <2>3. T \in Int /\ s \in Int /\ s <= T /\ Window \in Nat /\ W \in Int
        BY <2>1, <2>2, ReadingFact, EstimatorAssumption DEF Sorted
    <2>4. Has(e) /\ e.last.at = T
        BY <1>2, <2>1, LastFact
    <2>5. spanE = T - Later(s, W) /\ areaE = Integral(h, Later(s, W), T)
        <3>1. W \in T - Window .. T
            BY <2>3
        <3>2. /\ Span(e.segments, W) = T - Later(s, W)
              /\ AmpTime(e.segments, W) = Integral(h, Later(s, W), T)
            BY <2>1, <2>4, <3>1 DEF SumsOf
        <3>3. spanE = Span(e.segments, W) /\ areaE = AmpTime(e.segments, W)
            BY <2>4 DEF SumFunction, Span, AmpTime, Share, Since
        <3> QED BY <3>2, <3>3
    <2>6. spanH = T - Later(s, W)
        <3>1. T - s \in Int /\ Window \in Int
            BY <2>3
        <3>2. Min({Window, T - s}) = IF Window < T - s THEN Window ELSE T - s
            BY <3>1, Min2
        <3> QED BY <2>3, <3>2 DEF Later
    <2>7. areaH = Integral(h, Later(s, W), T)
        <3>1. T - spanH = Later(s, W)
            BY <2>3, <2>6 DEF Later
        <3> HIDE DEF spanH
        <3> QED BY <3>1 DEF SumFunction, Integral
    <2>8. e.direction = 0 <=> used = {}
        BY <2>1 DEF DirectionOf
    <2>9. used # {} => Direction(h[Max(used)].amps) = e.direction
        <3>1. used \subseteq 1 .. n /\ n \in Int /\ 1 \in Int
            BY <2>2
        <3>2. \A j \in used : Direction(h[j].amps) = e.direction
            BY <2>1 DEF DirectionOf
        <3> HIDE DEF used
        <3>3. used # {} => Max(used) \in used
            BY <3>1, MaxFact
        <3> QED BY <3>2, <3>3
    <2>10. (e.idleSince # Never /\ u - e.idleSince >= Warmup) <=> idle
        BY <1>2, <2>1, IdleTest
    <2>11. Snapshot(e, u) =
             IF u - T >= Stale THEN Unavailable
             ELSE IF e.direction = 0 \/ idle THEN Idle
             ELSE IF spanE < Warmup THEN [state |-> "warming", direction |-> e.direction]
             ELSE IF areaE <= IdleAmps * spanE /\ -areaE <= IdleAmps * spanE THEN Idle
             ELSE [state |-> "ready", direction |-> e.direction, ampTime |-> areaE, span |-> spanE]
        <3> HIDE DEF idle, T
        <3> QED BY <2>4, <2>10 DEF Snapshot
    <2>12. Estimate(h, u) =
             IF u - T >= Stale THEN Unavailable
             ELSE IF used = {} \/ idle THEN Idle
             ELSE IF spanH < Warmup
                  THEN [state |-> "warming", direction |-> Direction(h[Max(used)].amps)]
             ELSE IF areaH <= IdleAmps * spanH /\ -areaH <= IdleAmps * spanH THEN Idle
             ELSE [state |-> "ready", direction |-> Direction(h[Max(used)].amps),
                   ampTime |-> areaH, span |-> spanH]
        BY <2>2 DEF Estimate
    <2> HIDE DEF idle, T, used, spanE, spanH, areaE, areaH
    <2> QED BY <2>5, <2>6, <2>7, <2>8, <2>9, <2>11, <2>12
<1> QED BY <1>1, <1>2

(* A reading that is received now keeps the readings timely. *)
LEMMA TimelyAppend ==
    ASSUME NEW t \in Nat, NEW h \in Seq(Reading(t)), Sorted(h),
           NEW r \in Reading(t), r.at = t, NEW lag \in Lags, r.taken = t - lag - r.boot
    PROVE  Timely(Append(h, r), r.boot)
<1> DEFINE n == Len(h)
           g == Append(h, r)
<1>1. /\ n \in Nat /\ Len(g) = n + 1 /\ g[n + 1] = r
      /\ \A j \in 1 .. n : g[j] = h[j] /\ h[j] \in Reading(t)
    BY AppendReading
<1>2. \A j \in 1 .. n : h[j].at <= t
    BY <1>1, ReadingFact
<1>3. Sorted(g)
    <2>1. \A j \in 1 .. n + 1 : j \in 1 .. n \/ j = n + 1
        BY <1>1
    <2>2. \A j \in 1 .. n + 1 : g[j].at <= t
        BY <1>1, <1>2, <2>1
    <2>3. ASSUME NEW j \in 1 .. n + 1, NEW k \in 1 .. n + 1, j <= k PROVE g[j].at <= g[k].at
        <3>1. CASE k = n + 1
            BY <1>1, <2>2, <3>1
        <3>2. CASE k \in 1 .. n
            <4>1. j \in 1 .. n
                BY <1>1, <2>3, <3>2
            <4> QED BY <1>1, <2>3, <3>2, <4>1 DEF Sorted
        <3> QED BY <2>1, <3>1, <3>2
    <2> HIDE DEF g
    <2> QED BY <1>1, <2>3 DEF Sorted
<1> HIDE DEF g
<1>4. Timely(g, r.boot)
    BY <1>1, <1>3 DEF Timely
<1> QED BY <1>4 DEF g

(* update() keeps Follows: what the tests leave follows the history of the *)
(* session that the reading belongs to.                                    *)
LEMMA UpdatedFollows ==
    ASSUME RestartsShow, NEW t \in Nat, NEW h \in Seq(Reading(t)),
           NEW r \in Reading(t), r.at = t, NEW lag \in Lags, r.taken = t - lag - r.boot,
           NEW e, Estimator(e, t), Follows(e, h), Timely(h, r.boot),
           \A k \in 1 .. Len(h) : /\ h[k].taken # r.taken
                                  /\ h[k].boot = r.boot => h[k].taken < r.taken
    PROVE  Follows(Updated(e, t, r.taken, r.amps), Append(h, r))
<1> DEFINE d == Direction(r.amps)
           x == Turn(Resume(Refresh(e, t, r.taken), t, d), d)
           i == SessionStart(h)
           g == Append(h, r)
<1>1. SessionStart(g) = IF h = <<>> \/ Breaks(g, i, Len(h) + 1) THEN Len(h) + 1 ELSE i
    BY SessionNext
<1>2. CASE h = <<>>
    <2>1. e = Reset
        BY <1>2 DEF Follows
    <2>2. Updated(e, t, r.taken, r.amps) = Add(Reset, t, r.taken, r.amps)
        BY <2>1 DEF Updated, Refresh, Resume, Turn, Reset, Has
    <2> QED BY <1>1, <1>2, <2>2, FollowsFresh
<1>3. CASE h # <<>>
    <2>1. Len(h) \in 1 .. Len(h)
        BY <1>3, AppendReading
    <2>2. h[Len(h)].taken # r.taken /\ (h[Len(h)].boot = r.boot => h[Len(h)].taken < r.taken)
        BY <2>1
    <2>3. e.last.updatedAt # r.taken
        BY <1>3, <2>2, LastFact DEF Follows
    <2>4. Updated(e, t, r.taken, r.amps) = Add(x, t, r.taken, r.amps)
        BY <2>3 DEF Updated
    <2>5. x = IF Breaks(g, i, Len(h) + 1) THEN Reset ELSE e
        BY <1>3, <2>2, TestsBreak
    <2>6. d # 0 => x.direction \in {0, d}
        <3>1. r.taken \in Nat
            BY ReadingFact
        <3> QED BY <3>1, TestsKeep
    <2>7. CASE Breaks(g, i, Len(h) + 1)
        <3>1. SessionStart(g) = Len(h) + 1 /\ x = Reset
            BY <1>1, <2>5, <2>7
        <3> HIDE DEF x
        <3> QED BY <2>4, <3>1, FollowsFresh
    <2>8. CASE ~Breaks(g, i, Len(h) + 1)
        <3>1. SessionStart(g) = i /\ x = e
            BY <1>1, <1>3, <2>5, <2>8
        <3>2. Sorted(h)
            BY DEF Timely
        <3> HIDE DEF x
        <3> QED BY <1>3, <2>4, <2>6, <3>1, <3>2, FollowsJoins
    <2> QED BY <2>7, <2>8
<1> QED BY <1>2, <1>3

(* The invariant of the comparison. *)
JInv == IInv /\ Follows(est, history) /\ Timely(history, booted)

(* The comparison starts with no readings and an empty estimator. *)
LEMMA InitFollows == ASSUME Init PROVE JInv
<1>1. Len(<<>>) = 0 /\ \A j \in 1 .. 0 : FALSE
    BY EmptySeq
<1> QED BY <1>1, InitInvariant DEF Init, JInv, Follows, Timely, Sorted

(* Every action keeps the estimator with its history. *)
LEMMA NextFollows ==
    ASSUME RestartsShow, JInv, [Next]_reVars
    PROVE  JInv'
<1>1. IInv /\ IInv' /\ Follows(est, history) /\ Timely(history, booted)
    BY NextInvariant DEF JInv
<1> SUFFICES Follows(est', history') /\ Timely(history', booted')
    BY <1>1 DEF JInv
<1>2. /\ now \in Nat /\ booted \in 0 .. now /\ now' \in Nat /\ booted' \in 0 .. now'
      /\ Estimator(est, now) /\ history \in Seq(Reading(now))
    BY <1>1 DEF IInv
<1>3. CASE StartOver
    <2>1. Len(<<>>) = 0 /\ \A j \in 1 .. 0 : FALSE
        BY EmptySeq
    <2> QED BY <1>3, <2>1 DEF StartOver, Follows, Timely, Sorted
<1>4. CASE Restart
    <2>1. est' = est /\ history' = history /\ booted' = now /\ now - booted >= MinUptime
        BY <1>4 DEF Restart
    <2>2. history # <<>> => history[Len(history)].boot \in Nat
        BY <1>2, AppendReading, ReadingFact
    <2>3. Timely(history, now)
        <3>1. MinUptime \in Nat
            BY EstimatorAssumption
        <3> QED BY <1>1, <1>2, <2>1, <2>2, <3>1 DEF Timely
    <2> QED BY <1>1, <2>1, <2>3
<1>5. ASSUME NEW gap \in Gaps, Duplicate(gap)
      PROVE  Follows(est', history') /\ Timely(history', booted')
    <2>1. est' = est /\ history' = history /\ booted' = booted
        BY <1>5 DEF Duplicate, Updated
    <2> QED BY <1>1, <2>1
<1>6. ASSUME NEW gap \in Gaps, NEW lag \in Lags, NEW a \in Amps, Update(gap, lag, a)
      PROVE  Follows(est', history') /\ Timely(history', booted')
    <2> DEFINE u == now + gap - lag - booted
               r == [at |-> now', amps |-> a, boot |-> booted, taken |-> u]
    <2>a. gap \in Nat /\ lag \in Nat
        BY EstimatorAssumption
    <2>b. /\ now' = now + gap /\ u >= 0 /\ booted' = booted
          /\ est' = Updated(est, now', u, a) /\ history' = Append(history, r)
        BY <1>6 DEF Update
    <2>c. \A k \in 1 .. Len(history) :
              /\ history[k].taken # u
              /\ history[k].boot = booted => history[k].taken < u
        BY <1>6 DEF Update
    <2>1. u \in Nat /\ now <= now'
        BY <1>2, <2>a, <2>b
    <2>2. r \in Reading(now') /\ r.at = now' /\ r.taken = u /\ r.boot = booted /\ r.amps = a
        BY <1>2, <2>b, <2>1 DEF Reading
    <2>3. now <= now' /\ history \in Seq(Reading(now')) /\ Estimator(est, now')
        BY <1>2, <2>1, LaterReadings, LaterEstimator
    <2>4. r.taken = now' - lag - r.boot
        BY <1>2, <2>a, <2>b, <2>2
    <2> HIDE DEF r, u
    <2>5. Follows(Updated(est, now', r.taken, r.amps), Append(history, r))
        BY <1>1, <1>2, <2>c, <2>2, <2>3, <2>4, UpdatedFollows
    <2>6. Timely(Append(history, r), r.boot)
        BY <1>1, <1>2, <2>2, <2>3, <2>4, TimelyAppend DEF Timely
    <2> QED BY <2>b, <2>2, <2>5, <2>6
<1>7. CASE UNCHANGED reVars
    BY <1>1, <1>7 DEF reVars
<1> QED BY <1>3, <1>4, <1>5, <1>6, <1>7 DEF Next

(* Whatever readings arrive and whenever, and however the device and the   *)
(* page's connection restart, the page shows until the reading is stale    *)
(* what the README describes: the time-weighted average of the last Window *)
(* of one session, its direction, warming up, idle or unavailable. The     *)
(* device must run long enough for its restart to show on its clock.       *)
THEOREM ReadmeSafety == ASSUME RestartsShow PROVE Spec => []MatchesReadme
<1>1. Init => JInv
    BY InitFollows
<1>2. JInv /\ [Next]_reVars => JInv'
    BY NextFollows
<1>3. JInv => MatchesReadme
    <2> SUFFICES ASSUME JInv, NEW t \in now .. now + Stale
                 PROVE  Snapshot(est, t) = Estimate(history, t)
        BY DEF MatchesReadme
    <2>1. now \in Nat /\ Estimator(est, now) /\ history \in Seq(Reading(now))
          /\ Follows(est, history) /\ Sorted(history)
        BY DEF JInv, IInv, Timely
    <2>2. t \in Nat
        BY <2>1, EstimatorAssumption
    <2> QED BY <2>1, <2>2, SnapshotFollows
<1> QED BY <1>1, <1>2, <1>3, PTL DEF Spec
=============================================================================
