---------------------------- MODULE RuntimeAverage ----------------------------
(***************************************************************************)
(* The estimate that the README describes, over the whole sequence of      *)
(* readings: a time-weighted average of the last Window of one session of  *)
(* use. A session ends with a gap or a restart of the device, with a       *)
(* change of direction, and when use resumes after Warmup of idling.       *)
(* A reading is [at, amps, boot]; its current counts until the next.       *)
(***************************************************************************)
EXTENDS Integers, Sequences, Functions, FiniteSetsExt

CONSTANTS
    Window,     \* WINDOW_MS
    Warmup,     \* WARMUP_MS
    Stale,      \* STALE_MS
    IdleAmps    \* IDLE_AMPS

(* Charging, discharging or idle. *)
Direction(amps) == IF amps > IdleAmps THEN 1 ELSE IF amps < -IdleAmps THEN -1 ELSE 0

(* Readings j .. k of h are all idle, and Warmup has passed at time t. *)
IdleSince(h, j, k, t) ==
    (\A m \in j .. k : Direction(h[m].amps) = 0) /\ t - h[j].at >= Warmup

(* Reading k does not belong to the session that began with reading i. *)
Breaks(h, i, k) ==
    \/ h[k].at - h[k - 1].at >= Stale \/ h[k].boot # h[k - 1].boot
    \/ /\ Direction(h[k].amps) # 0
       /\ \E j \in i .. k - 1 : \/ Direction(h[j].amps) = -Direction(h[k].amps)
                                \/ IdleSince(h, j, k - 1, h[k].at)

(* The first reading of the session of the last one. *)
SessionStart(h) ==
    LET first[k \in 1 .. Len(h)] ==
            IF k = 1 THEN 1 ELSE IF Breaks(h, first[k - 1], k) THEN k ELSE first[k - 1]
    IN  first[Len(h)]

(* The current at time u, by the latest reading before it. *)
AmpsAt(h, u) ==
    h[Max({j \in 1 .. Len(h) : h[j].at <= u})].amps

Unavailable == [state |-> "unavailable"]
Idle        == [state |-> "idle"]

(* What the page should say at time t. *)
Estimate(h, t) ==
    LET n == Len(h)
        i == SessionStart(h)
        used == {j \in i .. n : Direction(h[j].amps) # 0}
        span == Min({Window, h[n].at - h[i].at})
        ampTime == SumFunction([u \in h[n].at - span .. h[n].at - 1 |-> AmpsAt(h, u)])
        heading == Direction(h[Max(used)].amps)
    IN  IF n = 0 \/ t - h[n].at >= Stale THEN Unavailable
        ELSE IF used = {} \/ \E j \in i .. n : IdleSince(h, j, n, t) THEN Idle
        ELSE IF span < Warmup THEN [state |-> "warming", direction |-> heading]
        ELSE IF ampTime <= IdleAmps * span /\ -ampTime <= IdleAmps * span THEN Idle
        ELSE [state |-> "ready", direction |-> heading, ampTime |-> ampTime, span |-> span]
=============================================================================
