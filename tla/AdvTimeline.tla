----------------------------- MODULE AdvTimeline -----------------------------
(***************************************************************************)
(* One advertising set's duration and event budget in real time.          *)
(* Enable arms the budget (EnableFinish, EnableWithTimerCb's host alarm),  *)
(* Suspend and a connection recompute it (RecomputeTimeout), Resume and    *)
(* the connection re-enable hand the rest to the controller, and the      *)
(* controller or the host alarm ends it.  Time is a clock in milliseconds; *)
(* HCI commands take effect at once (their ordering is BleAdvManager's).  *)
(***************************************************************************)
EXTENDS Naturals

CONSTANTS
  TickMs,     \* clock granularity, ms
  MaxTime,    \* bound on the clock, ms
  Durations,  \* Enable's duration argument, 10 ms units
  MaxEvs,     \* Enable's maxExtAdvEvents argument
  Intervals,  \* SetParameters' adv_int_min, 0.625 ms units
  MaxOps,     \* bound on client calls
  MaxConns    \* bound on connections

VARIABLES
  now,             \* TimeTicks::Now(), ms
  paramsSet,       \* SetParameters has run on the slot
  interval,        \* advertising_interval
  enable_status, duration, maxExtAdvEvents, enable_time,
  tcbSet,          \* timeout_cb is non-null
  timer,           \* deadline of the alarm timeout_timer points to
  leaked,          \* deadlines of armed alarms timeout_timer no longer points to
  ctrl,            \* the controller: advertising, and its two deadlines
  ops, conns,
  asked,           \* the budget of the client's last Enable(true)
  adv,             \* ms the controller advertised since then
  tcbRuns          \* runs of the timeout callback

vars == <<now, paramsSet, interval, enable_status, duration, maxExtAdvEvents,
          enable_time, tcbSet, timer, leaked, ctrl, ops, conns, asked, adv, tcbRuns>>

None == MaxTime + 1      \* no alarm / no controller deadline
CtrlOff == [on |-> FALSE, until |-> None, evUntil |-> None]

\* advertising_interval * 5 / 8: ms per advertising event (line 1625).
PeriodMs(iv) == (iv * 5) \div 8

\* HCI LE Set Extended Advertising Enable(true) with a duration and an event
\* budget, started now.
CtrlStart(d, m) ==
  [on |-> TRUE,
   until |-> IF d = 0 THEN None ELSE now + d * 10,
   evUntil |-> IF m = 0 THEN None ELSE now + m * PeriodMs(interval)]

Init ==
  /\ now = 0
  /\ paramsSet = FALSE /\ interval = 0
  /\ enable_status = FALSE /\ duration = 0 /\ maxExtAdvEvents = 0
  /\ enable_time = 0 /\ tcbSet = FALSE
  /\ timer = None /\ leaked = {}
  /\ ctrl = CtrlOff
  /\ ops = 0 /\ conns = 0
  /\ asked = [d |-> 0, m |-> 0] /\ adv = 0 /\ tcbRuns = 0

-----------------------------------------------------------------------------
\* (mutant) the remainder taken off without the "+ 1 >= duration" end check
RecomputeTimeout_NoEndCheck(st, d, m, iv, et, t) ==
  LET el == t - et
  IN [st |-> st, d |-> IF d # 0 THEN d - el \div 10 ELSE d,
      m |-> IF m # 0 THEN m - el \div PeriodMs(iv) ELSE m, fired |-> FALSE]

(* RecomputeTimeout(inst, now): the part of each budget used since        *)
(* enable_time is taken off, or the set is ended and timeout_cb runs.      *)
RecomputeTimeout(st, d, m, iv, et, t) ==
  LET el == t - et
      dDone == el \div 10
      byDur == d # 0 /\ dDone + 1 >= d
      mDone == el \div PeriodMs(iv)
      byEv == m # 0 /\ ~byDur /\ mDone + 1 >= m
  IN [st |-> st /\ ~byDur /\ ~byEv,
      d |-> IF d # 0 /\ ~byDur THEN d - dDone ELSE d,
      m |-> IF m # 0 /\ ~byDur /\ ~byEv THEN m - mDone ELSE m,
      fired |-> byDur \/ byEv]

\* Apply a recompute result to the host's fields and the callback count.
Recomputed(r) ==
  /\ enable_status' = r.st /\ duration' = r.d /\ maxExtAdvEvents' = r.m
  /\ tcbRuns' = tcbRuns + (IF r.fired THEN 1 ELSE 0)

\* (mutant) the duration left to the controller alone: no host alarm
EnableFinish_NoHostAlarm(on, d, m) ==
  /\ UNCHANGED <<timer, leaked>>
  /\ enable_time' = IF on THEN now ELSE enable_time
  /\ enable_status' = on
  /\ ctrl' = IF on THEN CtrlStart(d, m) ELSE CtrlOff

\* EnableFinish(p_inst, enable, cb): arm the host alarm through
\* EnableWithTimerCb (the old timeout_timer is overwritten, not cancelled)
\* or cancel it; stamp enable_time; schedule the controller command.
EnableFinish(on, d, m) ==
  /\ IF on /\ d # 0
       THEN /\ timer' = now + d * 10
            /\ leaked' = IF timer = None THEN leaked ELSE leaked \cup {timer}
       ELSE /\ timer' = None /\ UNCHANGED leaked
  /\ enable_time' = IF on THEN now ELSE enable_time
  /\ enable_status' = on
  /\ ctrl' = IF on THEN CtrlStart(d, m) ELSE CtrlOff

\* Enable(inst_id, enable, cb, duration, maxExtAdvEvents, timeout_cb),
\* called by a client that set the parameters first ("we always set
\* parameters before enabling").
Enable ==
  \E on \in BOOLEAN, d \in Durations, m \in MaxEvs :
    /\ ops < MaxOps /\ ops' = ops + 1
    /\ paramsSet
    /\ on = FALSE => d = 0 /\ m = 0
    /\ tcbSet' = (tcbSet \/ (on /\ (d # 0 \/ m # 0)))
    /\ duration' = d /\ maxExtAdvEvents' = m
    /\ EnableFinish(on, d, m)
    /\ asked' = IF on THEN [d |-> d, m |-> m] ELSE asked
    /\ adv' = IF on THEN 0 ELSE adv
    /\ UNCHANGED <<now, paramsSet, interval, conns, tcbRuns>>

\* SetParameters: advertising_interval = adv_int_min, on a disabled set.
SetParameters ==
  \E iv \in Intervals :
    /\ ops < MaxOps /\ ops' = ops + 1
    /\ ~enable_status
    /\ paramsSet' = TRUE /\ interval' = iv
    /\ UNCHANGED <<now, enable_status, duration, maxExtAdvEvents, enable_time,
                   tcbSet, timer, leaked, ctrl, conns, asked, adv, tcbRuns>>

\* Suspend: recompute the budget of an enabled set and disable it.
Suspend ==
  /\ ops < MaxOps /\ ops' = ops + 1
  /\ enable_status
  /\ IF duration # 0 \/ maxExtAdvEvents # 0
       THEN Recomputed(RecomputeTimeout(enable_status, duration, maxExtAdvEvents,
                                         interval, enable_time, now))
       ELSE UNCHANGED <<enable_status, duration, maxExtAdvEvents, tcbRuns>>
  /\ ctrl' = CtrlOff
  /\ UNCHANGED <<now, paramsSet, interval, enable_time, tcbSet, timer, leaked,
                 conns, asked, adv>>

\* Resume: re-enable every enabled set with its remaining budget;
\* enable_time is left as it was.
Resume ==
  /\ ops < MaxOps /\ ops' = ops + 1
  /\ enable_status /\ ~ctrl.on
  /\ ctrl' = CtrlStart(duration, maxExtAdvEvents)
  /\ UNCHANGED <<now, paramsSet, interval, enable_status, duration, maxExtAdvEvents,
                 enable_time, tcbSet, timer, leaked, conns, asked, adv, tcbRuns>>

-----------------------------------------------------------------------------
Deadlines == {ctrl.until, ctrl.evUntil, timer} \cup leaked

\* The clock advances, never past a pending deadline.
Tick ==
  /\ now + TickMs <= MaxTime
  /\ \A t \in Deadlines : now + TickMs <= t
  /\ now' = now + TickMs
  /\ adv' = adv + (IF ctrl.on THEN TickMs ELSE 0)
  /\ UNCHANGED <<paramsSet, interval, enable_status, duration, maxExtAdvEvents,
                 enable_time, tcbSet, timer, leaked, ctrl, ops, conns, asked, tcbRuns>>

\* The controller ends the set at its duration or event limit and posts
\* LE Advertising Set Terminated (LIMIT_REACHED or ADVERTISING_TIMEOUT);
\* OnAdvertisingSetTerminated clears enable_status and runs timeout_cb.
CtrlLimitReached ==
  /\ ctrl.on /\ now \in {ctrl.until, ctrl.evUntil}
  /\ ctrl' = CtrlOff
  /\ enable_status' = FALSE
  /\ tcbRuns' = tcbRuns + (IF tcbSet THEN 1 ELSE 0)
  /\ UNCHANGED <<now, paramsSet, interval, duration, maxExtAdvEvents, enable_time,
                 tcbSet, timer, leaked, ops, conns, asked, adv>>

\* A connection ends the set (status 0); OnAdvertisingSetTerminated
\* recomputes the budget of the undirected set and re-enables it if it is
\* still enabled.
CtrlConnect ==
  /\ ctrl.on /\ conns < MaxConns /\ conns' = conns + 1
  /\ LET r == RecomputeTimeout(enable_status, duration, maxExtAdvEvents,
                                interval, enable_time, now)
     IN /\ Recomputed(r)
        /\ ctrl' = IF r.st THEN CtrlStart(r.d, r.m) ELSE CtrlOff
  /\ UNCHANGED <<now, paramsSet, interval, enable_time, tcbSet, timer, leaked,
                 ops, asked, adv>>

\* An armed alarm fires: Enable(inst, false, timeout_cb, 0, 0): the set is
\* disabled, the current timeout_timer is cancelled, and the disable's
\* completion runs timeout_cb.
TimerFire ==
  \E t \in leaked \cup ({timer} \ {None}) :
    /\ now = t
    /\ leaked' = leaked \ {t}
    /\ timer' = None
    /\ duration' = 0 /\ maxExtAdvEvents' = 0
    /\ enable_status' = FALSE /\ ctrl' = CtrlOff
    /\ tcbRuns' = tcbRuns + 1
    /\ UNCHANGED <<now, paramsSet, interval, enable_time, tcbSet, ops, conns, asked, adv>>

Next ==
  \/ Enable \/ SetParameters \/ Suspend \/ Resume
  \/ Tick \/ CtrlLimitReached \/ CtrlConnect \/ TimerFire

Spec == Init /\ [][Next]_vars

-----------------------------------------------------------------------------
TypeOK ==
  /\ now \in 0 .. MaxTime
  /\ paramsSet \in BOOLEAN /\ interval \in {0} \cup Intervals
  /\ enable_status \in BOOLEAN /\ tcbSet \in BOOLEAN
  /\ duration \in 0 .. 65535 /\ maxExtAdvEvents \in 0 .. 255  \* uint16_t, uint8_t
  /\ enable_time \in 0 .. MaxTime
  /\ timer \in Nat /\ leaked \subseteq Nat
  /\ ctrl \in [on : BOOLEAN, until : Nat, evUntil : Nat]
  /\ asked \in [d : Durations, m : MaxEvs] /\ adv \in 0 .. MaxTime
  /\ tcbRuns \in Nat

\* A set enabled with a duration never advertises longer than that
\* duration, however Suspend, Resume and connections split it.  The
\* recomputed remainder can exceed what is left (RecomputeTimeout truncates
\* the elapsed time); the host alarm armed by EnableWithTimerCb, which runs
\* on wall time through suspensions, is what ends the set in time.
NeverOverAdvertises ==
  asked.d # 0 => adv <= asked.d * 10

\* When the timeout callback reports the end of a duration-only enable,
\* the set has advertised for the duration (less the one 10 ms unit that
\* RecomputeTimeout's "durationDone + 1 >= duration" allows): suspended
\* time and an earlier enable's alarm do not count against it.
TimeoutNotEarly ==
  [][ (tcbRuns' > tcbRuns /\ asked.d # 0 /\ asked.m = 0)
        => adv' >= (asked.d - 1) * 10 ]_vars

=============================================================================
