----------------------------- MODULE BleAdvManager -----------------------------
(***************************************************************************)
(* BleAdvertisingManagerImpl of btm_ble_multi_adv.cc: the table of         *)
(* advertising instances, their enable/disable state, the host-side        *)
(* duration timer (timeout_timer), unregistration, suspend/resume and the  *)
(* controller's LE Advertising Set Terminated events.                      *)
(*                                                                         *)
(* Everything runs on the stack's main loop, so each client call, each     *)
(* HCI completion, each HCI event and each alarm is one atomic step.  The  *)
(* HCI interface is two FIFO channels: commands to the controller (cmdq)   *)
(* and completions and events back to the host (evq).  The controller      *)
(* executes commands in order and may, between commands, stop a set whose  *)
(* duration or event budget ran out, or accept a connection on a           *)
(* connectable set; each of these posts its event behind the completions   *)
(* already posted.                                                         *)
(*                                                                         *)
(* Time is not modelled: how much of a budget has elapsed when             *)
(* RecomputeTimeout runs is a nondeterministic choice.                     *)
(***************************************************************************)
EXTENDS Integers, Sequences, FiniteSets, TLC

CONSTANTS
  InstCount,   \* inst_count reported by the controller
  Budgets,     \* duration / maxExtAdvEvents values a client passes (0 = none)
  PropsVals,   \* advertising_event_properties values a client passes
  Statuses,    \* statuses an HCI command may complete with (0 = success)
  MaxOps,      \* bound on client requests
  MaxConns     \* bound on connections the controller accepts

ASSUME /\ InstCount \in Nat \ {0}
       /\ 0 \in Budgets /\ Budgets \subseteq Nat
       /\ 0 \in Statuses
       /\ MaxOps \in Nat /\ MaxConns \in Nat

Inst == 0 .. InstCount - 1
Reqs == 1 .. MaxOps
NoCb == 0      \* a null base::Callback
NoAlarm == 0   \* timeout_timer == nullptr

\* Bit 0 of advertising_event_properties: connectable; bits 2-3: directed.
IsConnectable(p) == p % 2 = 1
IsDirected(p) == (p \div 4) % 4 # 0

VARIABLES
  \* AdvertisingInstance fields
  in_use, props, enable_status, duration, maxExtAdvEvents,
  timeout_timer,   \* id of the alarm timeout_timer points to, or NoAlarm
  timeout_cb,      \* the request whose timeout callback is installed
  alarms,          \* armed host duration alarms [id, inst, tcb]
  \* HCI channels and the controller's view of each set
  cmdq, evq, ctrl,
  \* client requests and history
  ops, conns,
  awaiting,        \* requests whose completion callback has not run yet
  cbRuns,          \* times each request's completion callback ran
  tcbRuns,         \* times each request's timeout callback ran
  enabledBy,       \* the client request that last enabled each set
  regBy            \* the client request that last registered each set

inst_vars == <<in_use, props, enable_status, duration, maxExtAdvEvents,
               timeout_timer, timeout_cb, alarms>>
hci_vars  == <<cmdq, evq, ctrl>>
hist_vars == <<ops, conns, awaiting, cbRuns, tcbRuns, enabledBy, regBy>>
vars == <<inst_vars, hci_vars, hist_vars>>

-----------------------------------------------------------------------------
(* Continuations carried by an HCI command until its completion runs.      *)
NoCont == [k |-> "none"]
UserCont(r) == [k |-> "user", req |-> r]
TimerCont(r, i, c) == [k |-> "withTimer", req |-> r, inst |-> i, tcb |-> c]
TimeoutCont(c) == [k |-> "tcb", tcb |-> c]

EnableCmd(on, sets, cont) == [op |-> "enable", on |-> on, sets |-> sets, cont |-> cont]
ParamsCmd(i, p, cont) == [op |-> "params", inst |-> i, props |-> p, cont |-> cont]
RemoveCmd(i) == [op |-> "remove", inst |-> i, cont |-> NoCont]

Budget(d, m) == [dur |-> d, max |-> m]

\* Running callbacks: count a run, and drop a completion from awaiting.
RunCb(r) ==
  /\ cbRuns' = [cbRuns EXCEPT ![r] = @ + 1]
  /\ awaiting' = awaiting \ {r}

RunTimeoutCbs(cbs) ==
  tcbRuns' = [r \in Reqs |-> tcbRuns[r] + Cardinality({i \in DOMAIN cbs : cbs[i] = r})]

\* A new client request number, within the bound.
NewReq(r) == /\ ops < MaxOps /\ r = ops + 1 /\ ops' = r

-----------------------------------------------------------------------------
Init ==
  /\ in_use = [i \in Inst |-> FALSE]
  /\ props = [i \in Inst |-> 0]
  /\ enable_status = [i \in Inst |-> FALSE]
  /\ duration = [i \in Inst |-> 0]
  /\ maxExtAdvEvents = [i \in Inst |-> 0]
  /\ timeout_timer = [i \in Inst |-> NoAlarm]
  /\ timeout_cb = [i \in Inst |-> NoCb]
  /\ alarms = {}
  /\ cmdq = <<>>
  /\ evq = <<>>
  /\ ctrl = [i \in Inst |-> [en |-> FALSE, limited |-> FALSE, props |-> 0]]
  /\ ops = 0
  /\ conns = 0
  /\ awaiting = {}
  /\ cbRuns = [r \in Reqs |-> 0]
  /\ tcbRuns = [r \in Reqs |-> 0]
  /\ enabledBy = [i \in Inst |-> 0]
  /\ regBy = [i \in Inst |-> 0]

-----------------------------------------------------------------------------
(* RegisterAdvertiserImpl for a public own address: first free slot, or    *)
(* TOO_MANY_ADVERTISERS.  The callback runs synchronously.                 *)
RegisterAdvertiser ==
  \E r \in Reqs :
    /\ NewReq(r)
    /\ cbRuns' = [cbRuns EXCEPT ![r] = 1]
    /\ IF \E i \in Inst : ~in_use[i]
         THEN LET i == CHOOSE j \in Inst : ~in_use[j] /\ \A k \in Inst : ~in_use[k] => j <= k
              IN /\ in_use' = [in_use EXCEPT ![i] = TRUE]
                 /\ regBy' = [regBy EXCEPT ![i] = r]
         ELSE UNCHANGED <<in_use, regBy>>
    /\ UNCHANGED <<props, enable_status, duration, maxExtAdvEvents, timeout_timer,
                   timeout_cb, alarms, hci_vars, conns, awaiting, tcbRuns, enabledBy>>

\* (mutant) the duration neither forwarded to the controller nor armed
\* as a host timer
EnableFinish_DurationDropped(i, enable, cont, dur, tcb) ==
  /\ cmdq' = Append(cmdq, EnableCmd(enable, i :> Budget(0, maxExtAdvEvents'[i]), cont))
  /\ alarms' = {a \in alarms : a.id # timeout_timer[i]}
  /\ timeout_timer' = [timeout_timer EXCEPT ![i] = NoAlarm]
  /\ enable_status' = [enable_status EXCEPT ![i] = enable]

(* EnableFinish: arm the host duration timer through EnableWithTimerCb     *)
(* when enabling with a duration, else cancel and free timeout_timer; then *)
(* record the intent and issue LE Set Extended Advertising Enable.  Given  *)
(* the set's fields after Enable updated them.                             *)
EnableFinish(i, enable, cont, dur, tcb) ==
  /\ IF enable /\ dur # 0
       THEN /\ cmdq' = Append(cmdq, EnableCmd(TRUE,
                         i :> Budget(dur, maxExtAdvEvents'[i]), TimerCont(cont.req, i, tcb)))
            /\ UNCHANGED <<alarms, timeout_timer>>
       ELSE /\ cmdq' = Append(cmdq, EnableCmd(enable,
                         i :> Budget(dur, maxExtAdvEvents'[i]), cont))
            /\ alarms' = {a \in alarms : a.id # timeout_timer[i]}
            /\ timeout_timer' = [timeout_timer EXCEPT ![i] = NoAlarm]
  /\ enable_status' = [enable_status EXCEPT ![i] = enable]

(* Enable, called by a client.  A disable passes no budgets.               *)
Enable ==
  \E r \in Reqs, i \in Inst, on \in BOOLEAN, d \in Budgets, m \in Budgets :
    /\ NewReq(r)
    /\ ~on => d = 0 /\ m = 0
    /\ IF ~in_use[i]
         THEN /\ cbRuns' = [cbRuns EXCEPT ![r] = 1]
              /\ UNCHANGED <<inst_vars, hci_vars, awaiting, enabledBy>>
         ELSE LET tcb == IF on /\ (d # 0 \/ m # 0) THEN r ELSE timeout_cb[i]
              IN /\ timeout_cb' = [timeout_cb EXCEPT ![i] = tcb]
                 /\ duration' = [duration EXCEPT ![i] = d]
                 /\ maxExtAdvEvents' = [maxExtAdvEvents EXCEPT ![i] = m]
                 /\ EnableFinish(i, on, UserCont(r), d, tcb)
                 /\ awaiting' = awaiting \cup {r}
                 /\ enabledBy' = IF on THEN [enabledBy EXCEPT ![i] = r] ELSE enabledBy
                 /\ UNCHANGED <<in_use, props, cbRuns>>
    /\ UNCHANGED <<evq, ctrl, conns, tcbRuns, regBy>>

(* SetParameters: record the properties and issue LE Set Extended          *)
(* Advertising Parameters.                                                 *)
SetParameters ==
  \E r \in Reqs, i \in Inst, p \in PropsVals :
    /\ NewReq(r)
    /\ IF ~in_use[i]
         THEN /\ cbRuns' = [cbRuns EXCEPT ![r] = 1]
              /\ UNCHANGED <<props, cmdq, awaiting>>
         ELSE /\ props' = [props EXCEPT ![i] = p]
              /\ cmdq' = Append(cmdq, ParamsCmd(i, p, UserCont(r)))
              /\ awaiting' = awaiting \cup {r}
              /\ UNCHANGED cbRuns
    /\ UNCHANGED <<in_use, enable_status, duration, maxExtAdvEvents, timeout_timer,
                   timeout_cb, alarms, evq, ctrl, conns, tcbRuns, enabledBy, regBy>>

(* Unregister: disable if enabled, cancel the duration timer, free the     *)
(* slot and remove the set from the controller.                            *)
UnregisterEffects(i) ==
  /\ enable_status' = [enable_status EXCEPT ![i] = FALSE]
  /\ cmdq' = (IF enable_status[i]
                THEN Append(cmdq, EnableCmd(FALSE, i :> Budget(0, 0), NoCont))
                ELSE cmdq) \o << RemoveCmd(i) >>
  /\ alarms' = {a \in alarms : a.id # timeout_timer[i]}
  /\ timeout_timer' = [timeout_timer EXCEPT ![i] = NoAlarm]
  /\ in_use' = [in_use EXCEPT ![i] = FALSE]

Unregister ==
  \E r \in Reqs, i \in Inst :
    /\ NewReq(r)
    /\ UnregisterEffects(i)
    /\ UNCHANGED <<props, duration, maxExtAdvEvents, timeout_cb, evq, ctrl,
                   conns, awaiting, cbRuns, tcbRuns, enabledBy, regBy>>

-----------------------------------------------------------------------------
(* RecomputeTimeout: the outcomes for an unknown elapsed time (possibly   *)
(* past the budget, counted in the budget's units).  fired: the set is     *)
(* shut down and its timeout callback runs.                                *)
\* (mutant) the decrement of the else-branches applied also when the
\* budget ran out
RecomputeOutcomes_NoElse(i) ==
  LET d == duration[i]
      m == maxExtAdvEvents[i]
      Out(dd, ed) ==
        LET durFired == d # 0 /\ dd + 1 >= d
            evFired == ~durFired /\ m # 0 /\ ed + 1 >= m
        IN [fired |-> durFired \/ evFired,
            dur |-> IF d # 0 THEN d - dd ELSE d,
            max |-> IF m # 0 /\ ~durFired THEN m - ed ELSE m]
  IN { Out(dd, ed) : dd \in 0..d+1, ed \in 0..m+1 }

RecomputeOutcomes(i) ==
  LET d == duration[i]
      m == maxExtAdvEvents[i]
      Out(dd, ed) ==
        LET durFired == d # 0 /\ dd + 1 >= d
            evFired == ~durFired /\ m # 0 /\ ed + 1 >= m
        IN [fired |-> durFired \/ evFired,
            dur |-> IF d # 0 /\ ~durFired THEN d - dd ELSE d,
            max |-> IF m # 0 /\ ~durFired /\ ~evFired THEN m - ed ELSE m]
  IN { Out(dd, ed) : dd \in 0..d+1, ed \in 0..m+1 }

\* Applies one outcome per set of S to the instance fields.
ApplyRecompute(S, out) ==
  /\ enable_status' = [i \in Inst |-> IF i \in S /\ out[i].fired THEN FALSE
                                       ELSE enable_status[i]]
  /\ duration' = [i \in Inst |-> IF i \in S THEN out[i].dur ELSE duration[i]]
  /\ maxExtAdvEvents' = [i \in Inst |-> IF i \in S THEN out[i].max ELSE maxExtAdvEvents[i]]
  /\ RunTimeoutCbs([i \in {j \in S : out[j].fired} |-> timeout_cb[i]])

(* Suspend: recompute the budgets of every enabled set and disable them    *)
(* all with one bulk command.                                              *)
Suspend ==
  \E r \in Reqs :
    /\ NewReq(r)
    /\ LET S == {i \in Inst : in_use[i] /\ enable_status[i]}
           R == {i \in S : duration[i] # 0 \/ maxExtAdvEvents[i] # 0}
       IN /\ \E out \in [R -> UNION {RecomputeOutcomes(i) : i \in R}] :
                /\ \A i \in R : out[i] \in RecomputeOutcomes(i)
                /\ ApplyRecompute(R, out)
          /\ cmdq' = IF S = {} THEN cmdq
                     ELSE Append(cmdq, EnableCmd(FALSE, [i \in S |-> Budget(0, 0)], NoCont))
    /\ UNCHANGED <<in_use, props, timeout_timer, timeout_cb, alarms, evq, ctrl,
                   conns, awaiting, cbRuns, enabledBy, regBy>>

(* Resume: re-enable every set still marked enabled, with its remaining    *)
(* budgets, in one bulk command.                                           *)
Resume ==
  \E r \in Reqs :
    /\ NewReq(r)
    /\ LET S == {i \in Inst : in_use[i] /\ enable_status[i]}
       IN cmdq' = IF S = {} THEN cmdq
                  ELSE Append(cmdq, EnableCmd(TRUE,
                         [i \in S |-> Budget(duration[i], maxExtAdvEvents[i])], NoCont))
    /\ UNCHANGED <<inst_vars, evq, ctrl, conns, awaiting, cbRuns, tcbRuns, enabledBy, regBy>>

-----------------------------------------------------------------------------
(* The controller executes the command at the head of cmdq and posts its   *)
(* completion.  Setting parameters and enabling may be rejected; disabling *)
(* is not.  Removing a set that is advertising is disallowed.              *)
MayFail(c) == c.op = "params" \/ (c.op = "enable" /\ c.on)

CtrlExecute ==
  /\ cmdq # <<>>
  /\ LET c == Head(cmdq) IN
     \E st \in IF MayFail(c) THEN Statuses ELSE {0} :
       LET ok == st = 0 /\ (c.op = "remove" => ~ctrl[c.inst].en)
           code == IF ok THEN 0 ELSE IF st # 0 THEN st ELSE 12
       IN /\ cmdq' = Tail(cmdq)
          /\ evq' = Append(evq, [k |-> "cmpl", status |-> code, cont |-> c.cont])
          /\ ctrl' = CASE ~ok -> ctrl
                       [] c.op = "enable" ->
                            [i \in Inst |-> IF i \in DOMAIN c.sets
                               THEN [ctrl[i] EXCEPT !.en = c.on,
                                       !.limited = c.on /\ (c.sets[i].dur # 0 \/ c.sets[i].max # 0)]
                               ELSE ctrl[i]]
                       [] c.op = "params" -> [ctrl EXCEPT ![c.inst].props = c.props]
                       [] c.op = "remove" -> ctrl
  /\ UNCHANGED <<inst_vars, hist_vars>>

(* The controller stops a set whose duration or event budget ran out.      *)
CtrlLimitReached(i) ==
  /\ ctrl[i].en /\ ctrl[i].limited
  /\ ctrl' = [ctrl EXCEPT ![i].en = FALSE]
  /\ evq' = Append(evq, [k |-> "term", inst |-> i, reason |-> "limit"])
  /\ UNCHANGED <<inst_vars, cmdq, hist_vars>>

(* A peer connects to a connectable set; the controller stops it.          *)
CtrlConnect(i) ==
  /\ conns < MaxConns
  /\ ctrl[i].en /\ IsConnectable(ctrl[i].props)
  /\ conns' = conns + 1
  /\ ctrl' = [ctrl EXCEPT ![i].en = FALSE]
  /\ evq' = Append(evq, [k |-> "term", inst |-> i, reason |-> "conn"])
  /\ UNCHANGED <<inst_vars, cmdq, ops, awaiting, cbRuns, tcbRuns, enabledBy, regBy>>

-----------------------------------------------------------------------------
\* (mutant) EnableWithTimerCb arms the timer but forgets enable_cb
OnCompletion_NoEnableCb(e) ==
  LET c == e.cont IN
  /\ CASE c.k = "none" -> UNCHANGED <<awaiting, cbRuns, tcbRuns, alarms, timeout_timer>>
       [] c.k = "user" -> RunCb(c.req) /\ UNCHANGED <<tcbRuns, alarms, timeout_timer>>
       [] c.k = "tcb" ->
            /\ RunTimeoutCbs(0 :> c.tcb)
            /\ UNCHANGED <<awaiting, cbRuns, alarms, timeout_timer>>
       [] c.k = "withTimer" ->
            /\ alarms' = alarms \cup {[id |-> c.req, inst |-> c.inst, tcb |-> c.tcb]}
            /\ timeout_timer' = [timeout_timer EXCEPT ![c.inst] = c.req]
            /\ UNCHANGED <<awaiting, cbRuns, tcbRuns>>
  /\ UNCHANGED <<in_use, props, enable_status, duration, maxExtAdvEvents, timeout_cb,
                 cmdq, ops, enabledBy, regBy>>

(* Completion of an HCI command: run its continuation.  EnableWithTimerCb  *)
(* runs the enable callback and then, whatever the status, allocates a     *)
(* new timeout_timer and arms it to disable the set.                       *)
OnCompletion(e) ==
  LET c == e.cont IN
  /\ CASE c.k = "none" -> UNCHANGED <<awaiting, cbRuns, tcbRuns, alarms, timeout_timer>>
       [] c.k = "user" -> RunCb(c.req) /\ UNCHANGED <<tcbRuns, alarms, timeout_timer>>
       [] c.k = "tcb" ->
            /\ RunTimeoutCbs(0 :> c.tcb)
            /\ UNCHANGED <<awaiting, cbRuns, alarms, timeout_timer>>
       [] c.k = "withTimer" ->
            /\ RunCb(c.req)
            /\ alarms' = alarms \cup {[id |-> c.req, inst |-> c.inst, tcb |-> c.tcb]}
            /\ timeout_timer' = [timeout_timer EXCEPT ![c.inst] = c.req]
            /\ UNCHANGED tcbRuns
  /\ UNCHANGED <<in_use, props, enable_status, duration, maxExtAdvEvents, timeout_cb,
                 cmdq, ops, enabledBy, regBy>>

(* OnAdvertisingSetTerminated.  Limit reached or advertising timeout:      *)
(* mark disabled and run the timeout callback.  Connection: re-enable a    *)
(* non-directed set with its recomputed budgets; a directed set is marked  *)
(* not in use.                                                             *)
OnTerminated(e) ==
  LET i == e.inst IN
  /\ IF e.reason = "limit"
       THEN /\ enable_status' = [enable_status EXCEPT ![i] = FALSE]
            /\ RunTimeoutCbs(IF timeout_cb[i] = NoCb THEN <<>> ELSE 0 :> timeout_cb[i])
            /\ UNCHANGED <<in_use, duration, maxExtAdvEvents, cmdq>>
       ELSE IF ~in_use[i]
       THEN UNCHANGED <<in_use, enable_status, duration, maxExtAdvEvents, cmdq, tcbRuns>>
       ELSE IF IsDirected(props[i])
       THEN /\ in_use' = [in_use EXCEPT ![i] = FALSE]
            /\ UNCHANGED <<enable_status, duration, maxExtAdvEvents, cmdq, tcbRuns>>
       ELSE \E o \in RecomputeOutcomes(i) :
              /\ ApplyRecompute({i}, i :> o)
              /\ cmdq' = IF enable_status'[i]
                           THEN Append(cmdq, EnableCmd(TRUE, i :> Budget(o.dur, o.max), NoCont))
                           ELSE cmdq
              /\ UNCHANGED in_use
  /\ UNCHANGED <<props, timeout_timer, timeout_cb, alarms, awaiting, cbRuns, ops, enabledBy, regBy>>

HostEvent ==
  /\ evq # <<>>
  /\ evq' = Tail(evq)
  /\ IF Head(evq).k = "cmpl" THEN OnCompletion(Head(evq)) ELSE OnTerminated(Head(evq))
  /\ UNCHANGED <<ctrl, conns>>

\* (mutant) the alarm disables with the enable callback instead of the
\* timeout callback
TimerFire_EnableCb(a) ==
  LET i == a.inst IN
  /\ a \in alarms
  /\ IF ~in_use[i]
       THEN /\ RunTimeoutCbs(0 :> a.tcb)
            /\ alarms' = alarms \ {a}
            /\ UNCHANGED <<enable_status, duration, maxExtAdvEvents, timeout_timer, cmdq>>
       ELSE /\ duration' = [duration EXCEPT ![i] = 0]
            /\ maxExtAdvEvents' = [maxExtAdvEvents EXCEPT ![i] = 0]
            /\ cmdq' = Append(cmdq, EnableCmd(FALSE, i :> Budget(0, 0), UserCont(a.id)))
            /\ alarms' = {b \in alarms \ {a} : b.id # timeout_timer[i]}
            /\ timeout_timer' = [timeout_timer EXCEPT ![i] = NoAlarm]
            /\ enable_status' = [enable_status EXCEPT ![i] = FALSE]
            /\ UNCHANGED tcbRuns
  /\ UNCHANGED <<in_use, props, timeout_cb, evq, ctrl, ops, conns, awaiting, cbRuns, enabledBy, regBy>>

(* A host duration alarm fires: Enable(inst, false) with the timeout       *)
(* callback as the completion callback.                                    *)
TimerFire(a) ==
  LET i == a.inst IN
  /\ a \in alarms
  /\ IF ~in_use[i]
       THEN /\ RunTimeoutCbs(0 :> a.tcb)
            /\ alarms' = alarms \ {a}
            /\ UNCHANGED <<enable_status, duration, maxExtAdvEvents, timeout_timer, cmdq>>
       ELSE /\ duration' = [duration EXCEPT ![i] = 0]
            /\ maxExtAdvEvents' = [maxExtAdvEvents EXCEPT ![i] = 0]
            /\ cmdq' = Append(cmdq, EnableCmd(FALSE, i :> Budget(0, 0), TimeoutCont(a.tcb)))
            /\ alarms' = {b \in alarms \ {a} : b.id # timeout_timer[i]}
            /\ timeout_timer' = [timeout_timer EXCEPT ![i] = NoAlarm]
            /\ enable_status' = [enable_status EXCEPT ![i] = FALSE]
            /\ UNCHANGED tcbRuns
  /\ UNCHANGED <<in_use, props, timeout_cb, evq, ctrl, ops, conns, awaiting, cbRuns, enabledBy, regBy>>

-----------------------------------------------------------------------------
Client ==
  \/ RegisterAdvertiser \/ Enable \/ SetParameters \/ Unregister
  \/ Suspend \/ Resume

Controller ==
  \/ CtrlExecute
  \/ \E i \in Inst : CtrlLimitReached(i) \/ CtrlConnect(i)

Host ==
  \/ HostEvent
  \/ \E a \in alarms : TimerFire(a)

Next == Client \/ Controller \/ Host

\* The controller executes every command and enforces every budget; the
\* main loop handles every posted event and fires every armed alarm.
Fairness ==
  /\ WF_vars(CtrlExecute)
  /\ \A i \in Inst : WF_vars(CtrlLimitReached(i))
  /\ WF_vars(HostEvent)
  /\ \A r \in Reqs, i \in Inst, c \in Reqs :
        WF_vars(TimerFire([id |-> r, inst |-> i, tcb |-> c]))

Spec == Init /\ [][Next]_vars /\ Fairness

-----------------------------------------------------------------------------
Alarm == [id : Reqs, inst : Inst, tcb : Reqs \cup {NoCb}]

TypeOK ==
  /\ in_use \in [Inst -> BOOLEAN]
  /\ enable_status \in [Inst -> BOOLEAN]
  /\ props \in [Inst -> PropsVals \cup {0}]
  /\ duration \in [Inst -> Nat]
  /\ maxExtAdvEvents \in [Inst -> Nat]
  /\ timeout_timer \in [Inst -> Reqs \cup {NoAlarm}]
  /\ timeout_cb \in [Inst -> Reqs \cup {NoCb}]
  /\ alarms \subseteq Alarm
  /\ ctrl \in [Inst -> [en : BOOLEAN, limited : BOOLEAN, props : PropsVals \cup {0}]]
  /\ awaiting \subseteq Reqs
  /\ cbRuns \in [Reqs -> Nat] /\ tcbRuns \in [Reqs -> Nat]

\* The enable commands queued for set i, in order.
QueuedEnables(i) ==
  SelectSeq(cmdq, LAMBDA c : c.op = "enable" /\ i \in DOMAIN c.sets)

\* Every request's completion callback (Enable, SetParameters,
\* RegisterAdvertiser) runs at most once, whichever HCI completions,
\* alarms and terminated events interleave with it.
CallbackAtMostOnce == \A r \in Reqs : cbRuns[r] <= 1

\* ... and it eventually runs: no request is left without an answer.
CallbackEventuallyRuns == \A r \in Reqs : (r \in awaiting) ~> (cbRuns[r] >= 1)

\* A timeout callback runs at most once per Enable that installed it
\* (spec: callbacks fire exactly once per top-level request).
TimeoutCbAtMostOnce == \A r \in Reqs : tcbRuns[r] <= 1

\* Every armed host duration alarm of an enabled, in-use set was armed for
\* the Enable that enabled it: no alarm left over from an earlier Enable
\* or an earlier owner of the slot can cut the current advertising short.
AlarmOnlyForCurrentEnable ==
  \A a \in alarms :
    in_use[a.inst] /\ enable_status[a.inst] => a.id = enabledBy[a.inst]

\* A set enabled with a duration is eventually disabled (or unregistered,
\* or re-enabled without one): the duration is enforced even when the
\* controller or the host loses or races the events that end it.
DurationEnforced ==
  \A i \in Inst :
    (in_use[i] /\ enable_status[i] /\ duration[i] # 0)
      ~> (~in_use[i] \/ ~enable_status[i] \/ duration[i] = 0)

\* A set the host marks enabled was enabled by a request made after the
\* slot was last registered: a new owner never inherits an enable intent
\* it did not ask for (Resume re-enables every such set).
EnabledOnlyByOwner ==
  \A i \in Inst : in_use[i] /\ enable_status[i] => enabledBy[i] > regBy[i]

\* Once a slot is unregistered, the controller is not left advertising on
\* it: it is disabled, or the last enable command queued for it disables.
NotAdvertisingAfterUnregister ==
  \A i \in Inst :
    (~in_use[i] /\ ctrl[i].en) =>
      LET q == QueuedEnables(i) IN q # <<>> /\ ~q[Len(q)].on

=============================================================================
