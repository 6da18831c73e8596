# TLA+ models of the BLE multi-advertising manager

These modules model `src/stack/btm/btm_ble_multi_adv.cc`. That file holds the
host-side manager that runs the controller's LE extended advertising sets. It
keeps a table of advertising instances, each with parameters, data, duration
budgets and an optional periodic train and BIG. It turns client calls into
ordered HCI commands, and it reacts to the controller's completions and
events. `src/unnamed/part_000` (HIDL HCI glue and the legacy config API) is
transport and I/O and is not modelled.

## 1. Inventory

### Components and how they interact

| Component | Code | State | Operations |
|---|---|---|---|
| Fragmenter | `DivideAndSendData[Recursively]` 1265-1300 | the chain's `isFirst`, `offset` and `status` | one step per sender call; the next step runs from the sender's completion |
| Instance table | `ReadInstanceCountCb` 253-267, `AdvertisingInstance` 105-175, `RegisterAdvertiserImpl` 552-595 | `adv_inst[]`: `in_use`, properties, addresses, data, budgets, timers | register: first free slot |
| Instance state machine | `Enable` 981-1015, `EnableFinish` 1017-1040, `EnableWithTimerCb` 962-979, `SetParameters` 1042-1096, `Unregister` 1546-1607, `OnAdvertisingSetTerminated` 1667-1714 | `enable_status`, `duration`, `maxExtAdvEvents`, `timeout_timer`, `timeout_cb`, `enable_time` | enable or disable, the host duration alarm, terminated events, unregister |
| Suspend / Resume | `RecomputeTimeout` 1609-1634, `Suspend` 1636-1650, `Resume` 1652-1665 | the budgets | bulk disable with budget recompute, then bulk re-enable |
| Command pipeline | `StartAdvertisingSet*` 718-960 | a `CreatorParams` bundle carried through a callback chain | register, parameters, random address, data, scan response, periodic, enable; `Unregister` on any failure |
| SetData | `SetData` 1098-1249 | the stored data; whether a restart is pending | disable when too long, write fragments, re-enable |
| RPA rotation | `ConfigureRpa` 378-542, `AdvertiseRestart` 361-376, `btm_ble_adv_raddr_timer_timeout` | `own_address`, `skip_rpa[_count]`, `address_update_required` | disable, new address, re-encrypt data, re-enable |
| Periodic | `SetPeriodicAdvertising*` 1302-1452 | `periodic_enabled`, the periodic data | parameters, data (through the fragmenter), enable |
| BIG manager | `CreateBIG` 1454-1500, `TerminateBIG` 1502-1544, `*BIGComplete` 1716-1773 | `iso_big_inst[]`: `in_use`, `created_status`, `adv_inst_id` | create, terminate, completions, Unregister's teardown |
| Encryption | `EncryptedAdvertising`, `GenerateRandomizer` 224-355 | key material, randomizer | AES-CCM over the payload |
| Lifecycle | `Initialize`, `CleanUp`, `CancelAdvAlarms` 1779-1862 | the singleton and its weak pointer | teardown; late callbacks abort |

Everything runs on the stack's main loop. Client calls, HCI command
completions, HCI events (LE Advertising Set Terminated, Create/Terminate BIG
Complete) and alarms (`timeout_timer`, `adv_raddr_timer`) are each one
atomic step. What makes the code hard is the *order* of those steps:
- An HCI command completes later, after other client calls and events have run.
- The controller posts terminated events for enables the host has already superseded.
- An alarm armed by one completion outlives the enable it belongs to.

### The properties that make each component correct

- Fragmenter. The chunks are the reference fragmentation of the payload, so
  they reassemble into it. The first error stops the chain and is reported
  once, and `done_cb` always runs.
- State machine.
  - Every client callback runs exactly once.
  - A timeout callback runs at most once per Enable.
  - A duration is always enforced.
  - Only the Enable in force has a live host alarm.
  - `enable_status` is the last scheduled enable, as the comment at lines 131-139 says.
  - An unregistered slot is not left advertising.
  - A newly registered slot inherits no enable it did not ask for.
  - A budget is neither exceeded nor cut short by Suspend, Resume, a
    connection or an earlier enable's alarm.
- Pipeline. On any failure the instance is released, the callback runs once
  and no further command is issued for that instance.
- RPA. The address changes only while a connectable set is disabled, and the
  rotation does not resurrect a set disabled or unregistered meanwhile.
- BIG. A BIG slot is released exactly once, and only the slot of its own
  advertiser.

## 2. Modules

| Module | Models | Runs |
|---|---|---|
| `AdvFragmenter` | the fragment chain, with the recursive reference `Fragments` | `fragmenter` |
| `BleAdvManager` | the instance table and state machine, suspend/resume, the HCI channels and a controller | `manager`, `timeout_cb_twice`, `stale_limit_event` |
| `AdvBigManager` | the BIG slot table, CreateBIG/TerminateBIG, their completions, Unregister's BIG teardown | `big` |
| `AdvRpa` | RPA rotation, SetData's restart interlock, the periodic calls, Enable, SetParameters, RegisterAdvertiser, Unregister, the StartAdvertising/StartAdvertisingSet pipeline over one HCI channel, and CleanUp with the completions that arrive after it | `rpa`, `rpa_pipeline`, `rpa_skip_loses_enable`, `rpa_rotation_splits_write`, `use_after_cleanup` |
| `AdvTimeline` | one set's duration and event budget over a millisecond clock: Enable, EnableFinish and its host alarm, SetParameters' interval, Suspend, Resume, RecomputeTimeout, the terminated events | `timeline`, `timeline_cut_short` |
| `MC_*` | model values for the constants | |

### AdvFragmenter

Variables:
- The arguments of the next recursive call (`isFirst`, `offset`, `status`) and
  `pc`, where `wait` means the sender's HCI command is in flight.
- The history of chunks sent, statuses reported and `done_cb` calls.

Actions:
- `Finish` is the early return (line 1282).
- `SendChunk` is the rest of the function.
- `SenderComplete` is the sender's completion re-entering the recursion with any status.

A payload is abstracted to its byte positions `<<1..len>>`, so reassembly
can be checked with `FlattenSeq`. `Fragments`/`Tail_` are a RECURSIVE
reference definition of the Core-spec fragmentation.

Bounds: lengths `{0,1,251,252,253,502,503,504,505}` cover the empty payload,
each side of both maxima, and two and three chunks of either kind. Statuses
are `{0,1}`.

### BleAdvManager

Variables:
- The per-instance fields of `AdvertisingInstance` as functions over `Inst`.
- `alarms`: the set of armed host duration alarms. Each is
  `[id, inst, tcb]`, where `id` is the request whose completion armed it.
- `cmdq`: host-to-controller HCI commands, FIFO.
- `evq`: completions and events to the host, FIFO.
- `ctrl`: the controller's view of each set.
- Callbacks: a callback is the number of the client request that passed it.
  `awaiting`, `cbRuns` and `tcbRuns` count the runs. `enabledBy` and `regBy`
  record which request last enabled and last registered each slot.

Actions, one per handler:
- `RegisterAdvertiser`, `Enable` (with `EnableFinish`), `SetParameters`,
  `Unregister`, `Suspend`, `Resume`.
- `HostEvent`, which runs a completion's continuation (`OnCompletion`; the
  `withTimer` continuation is `EnableWithTimerCb`) or `OnTerminated`.
- `TimerFire`, the alarm's bound `Enable(inst, false, timeout_cb)`.
- The controller: `CtrlExecute` executes the head command, failing params or
  enable(on) with any status, and rejecting Remove for an advertising set.
  `CtrlLimitReached` stops a budgeted set, and `CtrlConnect` stops a
  connectable one. Each posts its event behind the earlier completions.
- `RecomputeTimeout` becomes `RecomputeOutcomes`. Time is not modelled, so the
  elapsed duration and event count are chosen nondeterministically, up to one
  unit past the budget. Both its branches and the fired case are reachable.

Bounds (`MC_BleAdvManager`):
- 2 instances, budgets `{0,2}`, statuses `{0,1}`, at most 4 client requests
  and 1 connection.
- Properties `{0,1}`: undirected sets. A directed connectable set breaks
  `EnabledOnlyByOwner` (the hazard at line 1711).
- Four requests suffice for register, two enables and an unregister or
  suspend, which is the length of every trace below. With two instances, two
  sets' bulk commands interleave.

Fairness:
- Weak fairness on `CtrlExecute`, on `HostEvent` and on each
  `CtrlLimitReached(i)`. The controller executes what it is sent and enforces
  the budgets it accepted, and the main loop drains its queue.
- Weak fairness on each alarm's `TimerFire`, because an armed `alarm_t` fires.
- Clients and connections are not fair.
- `CHECK_DEADLOCK FALSE`: an idle manager with no requests left is a correct
  place to stop.

### AdvBigManager

Variables:
- `in_use` and `big_handle` of each advertising instance.
- The `iso_big_inst[]` fields: `b_in_use`, `created_status`, `adv_inst_id`,
  `create_big_cb` and `terminate_big_cb`.
- `cmdq` and `evq` as in `BleAdvManager`. `ctrl` is the set of BIGs alive in the controller.
- History: `gen` (the CreateBIG request that holds each BIG slot),
  `terminated`, `failed` and `released` (requests whose BIG was ended, failed
  or freed), and the callback counters.

Actions:
- `RegisterAdvertiser`, `Unregister` (its BIG teardown, lines 1546-1575),
  `CreateBIG`, `TerminateBIG`, `CreateBIGComplete`, `TerminateBIGComplete`.
- `CtrlExecute` and `HostEvent` for the controller and the main loop.
  The controller rejects a Terminate for a BIG it does not have.

Bounds: 2 instances (two advertisers compete for BIG slots), statuses
`{0,1}`, 7 client requests. Seven requests cover two registrations, a create,
a terminate, an unregister and a second create on the reused slot.

`CarefulClient` means a client terminates a set's BIG and waits for the
callback before it unregisters the set or terminates again. The passing run
assumes it. Without it the code breaks `NoOrphanBig` and the BIG
callback runs twice (the hazards at lines 1738 and 1532); no kept run
drops it.

### AdvRpa

Handlers call each other synchronously: ConfigureRpa calls SetData, SetData
calls Enable, and so on. They also bind callbacks that run later. To model
this, each handler is a pure operator on a *world record* `w`:
- `w.h` holds the per-instance fields.
- `w.q` is the HCI command queue.
- `w.runs` and `w.aw` count the client callbacks.
- `w.known` says which slots the client was told about.

A callback is a continuation record, such as `User(r)`, `EnFin`, `CfgRpa`,
`RpaAdv`, `DataRe` or `NextChunk`. The RECURSIVE `RunCont` interprets
`cb.Run(status)`. An action is a client call, an alarm, a controller step or
`HostEvent`, and the handler operator it calls runs inside one step. That
keeps each handler atomic, as on the main loop.

Data is abstracted to whether a buffer is encrypted and a size class:
- `"short"`: fits in one command.
- `"long"`: fragmented.
- `"edge"`: fits only until the flags AD or the encryption wrapper is added.

A fragmented write is a FIRST command whose completion sends LAST. The
fragmenter's chunking itself is checked in `AdvFragmenter`.

The controller follows the Core specification:
- It refuses parameters or removal while the set advertises.
- It refuses an address change for an advertising connectable set.
- It refuses a fragment while the set, or its periodic train, is enabled.
- It answers UNKNOWN_ADV_ID for a set it does not have.

The history flags `addrWhileAdv` and `fragWhileAdv` record those refusals.

Bounds (`MC_AdvRpa`, `AdvRpa.cfg`):
- One instance. Rotation problems are per set, and the HCI queue already
  interleaves the set's own commands.
- `SkipReload` is 1 instead of 15, so the broadcast throttle expires in reach.
- 5 client requests and 1 rotation.
- Sizes are short and long.

The passing run has no encryption or broadcast. Each violation run enables
the feature its defect needs.

The pipeline. `StartAdvertisingSet` and legacy `StartAdvertising` chain
RegisterAdvertiser (or, for legacy, SetParameters on a given slot),
SetParameters, SetRandomAddress, the advertising data, the scan response,
the periodic parameters, data and enable, and Enable. Each completion
continues the chain. The `Pipe(stage, i, p)` continuation is the code's
lambda for that stage. `PipeW` interprets it, and on a failure it
unregisters the set (except for legacy) and reports the status. The
parameters `p` range over `PipeParams`: connectable, public address,
encrypted data and size classes, periodic or not, and a budget. Legacy calls
carry none of the extended options.

`Clients` selects the client calls a cfg offers. `AdvRpa.cfg` offers the
direct calls, and `AdvRpa_Pipeline.cfg` offers the two pipeline entry
points, RegisterAdvertiser, Enable and Unregister. Keeping the two apart
keeps each run within minutes. The pipeline run has 2 client requests
(`MaxOps`), and each request is a whole pipeline of up to nine commands.
Two requests are enough for a pipeline racing an Enable or an Unregister of
the same slot, and for a rotation firing in the middle (`MaxTicks` 1).

`CarefulClient` means the client waits for the callbacks of its earlier calls
on a slot and calls SetParameters once per registration. It calls
Enable only after SetParameters, as the code comment "we always set
parameters before enabling" says. The passing run
assumes this. Without either assumption a property breaks. The hazards at
lines 1061 and 1439 in `PROJECT.json` describe how.

The lifecycle. `alive` says the manager exists. `CleanUp` models
`btm_ble_multi_adv_cleanup` (lines 1859-1863): `CancelAdvAlarms` clears
every `adv_raddr_timer`, and the manager, its `adv_inst` and the HCI
interface are deleted. Clients reach the manager only through the weak
pointer `Get()`, so `Next` offers their calls only while `alive`. Commands
already sent still execute. `HostEvent` then either drops a completion (the
HCI layer shuts down too) or delivers it to `Orphaned`, which runs the
bound callback against the dead manager:
- Callbacks bound to the weak pointer do nothing. These are EnableFinish,
  SetDataAdvDataSender, and the CreatorParams chain, which checks `c->self`.
- Client callbacks still run.
- Lambdas that captured a raw `AdvertisingInstance*`,
  `BleAdvertisingManagerImpl*` or an `Unretained` HCI interface set
  `w.freed` when they dereference it. The chain stops there. A failing
  status is reported before any dereference, so it continues.

`w` stays as it was, standing for the freed memory those pointers still
hold. The `rpa` run offers CleanUp at every point
(`MC_LifecycleClients`). `CallbackEventuallyRuns` owes a callback only
while the manager lives.

Fairness: weak fairness on `CtrlExecute` and `HostEvent`, as in
`BleAdvManager`. The rotation timer, clients and CleanUp owe nothing.

### AdvTimeline

`BleAdvManager` abstracts time away: RecomputeTimeout's outcome is a
nondeterministic choice. `AdvTimeline` puts the time back in for one set,
so that the arithmetic of lines 1609-1634 and the alarms can be checked.

Variables:
- `now`: the clock in milliseconds, advanced by `Tick` in steps of `TickMs`.
  `Tick` never passes a pending deadline, so a deadline's action runs at its
  instant.
- The instance fields `enable_status`, `duration` (10 ms units),
  `maxExtAdvEvents`, `enable_time`, `advertising_interval` (`interval`), and
  whether `timeout_cb` is set.
- `timer`: the deadline of the alarm `timeout_timer` points to. `leaked`
  holds alarms whose pointer EnableWithTimerCb overwrote without cancelling
  them (line 970); they still fire.
- `ctrl`: the controller's own duration and event deadlines.
- `asked`, `adv` and `tcbRuns`: the client's last budget, the milliseconds
  advertised since then, and the timeout callback's runs.

Actions: `Enable` (with `EnableFinish` and the alarm of `EnableWithTimerCb`),
`SetParameters`, `Suspend`, `Resume`, `Tick`, `CtrlLimitReached` (the LIMIT
or TIMEOUT terminated event), `CtrlConnect` (the connection terminated event
of an undirected set, which recomputes and re-enables) and `TimerFire`
(the alarm's `Enable(false, timeout_cb)`). `RecomputeTimeout` is a pure
operator with the code's integer divisions. HCI commands take effect at once
here: their queueing and ordering are `BleAdvManager`'s concern.

The client sets parameters before enabling, as the comment at line 1059
says. An Enable before any SetParameters would divide by an uninitialised
`advertising_interval` (the hazard at line 1625).

Bounds (`MC_AdvTimeline`, `AdvTimeline.cfg`):
- 5 ms ticks up to 60 ms.
- Durations {0, 3}, i.e. 30 ms, and event budgets {0, 2} at a 20 ms interval.
- 5 client calls and 1 connection.
- A 5 ms tick is finer than the 10 ms duration unit, so the truncation of
  `durationDone` happens. 60 ms holds a whole 30 ms budget with a suspension
  in it.
- `CHECK_DEADLOCK FALSE`: the clock stops at its bound.

`NeverOverAdvertises` holds only because of the host alarm. RecomputeTimeout
truncates the elapsed time, so without the alarm (mutant
`EnableFinish_NoHostAlarm`) a suspended set advertises up to 5 ms too long.
The alarm runs on wall time, and it also keeps running while the set is
suspended.

## 3. Runs

| Run | Result | Shows |
|---|---|---|
| `fragmenter` | pass, 168 states | `SentIsPrefixOfReference`, `SuccessDeliversPayload`, `DoneOnceWithFirstError`, `DoneEventuallyCalled` |
| `manager` | pass, ~90k states | every completion callback runs exactly once (`CallbackAtMostOnce`, `CallbackEventuallyRuns`), every duration is enforced (`DurationEnforced`) |
| `timeout_cb_twice` | violation of `TimeoutCbAtMostOnce` | Register, Enable(d=2), Suspend (RecomputeTimeout fires `timeout_cb`), Unregister, then the enable completes. `EnableWithTimerCb` arms the alarm anyway, and it runs `timeout_cb` again on the freed slot. The same double run happens with a LIMIT event and the alarm. |
| `stale_limit_event` | violation of `NotAdvertisingAfterUnregister` | Enable(d=2) then Enable(no budget). The first one's LIMIT event is handled after the second is queued. `enable_status` becomes false while the controller advertises, so Unregister issues no disable and Remove is rejected. |
| `big` | pass, ~62k states | each BIG slot is released once and only after its BIG ended (`ReleaseOnlyEnded`), no BIG outlives its slot's binding (`NoOrphanBig`), and each BIG callback runs exactly once |
| `rpa` | pass, ~316k states | for a careful client, with CleanUp possible at any point, rotations interleaved with Enable, SetData and the periodic calls never change the address of an advertising connectable set, run every callback exactly once, and never leave a set advertising that the client did not enable |
| `rpa_pipeline` | pass, ~208k states | a pipeline racing Enable, Unregister and a rotation: a failure releases the slot (`NoLeakedSlot`: a registered slot the client was not told about is eventually told about or freed), every callback runs once and eventually, the address changes only while disabled, and once the queues drain no free slot is left on the controller (`NoStrandedControllerSet`) |
| `rpa_skip_loses_enable` | violation of `CallbackEventuallyRuns` | Enable on a broadcast set with `address_update_required` goes through ConfigureRpa. The throttle returns at line 385 without running `configuredCb`, so the Enable callback never runs. |
| `timeline` | pass, ~145k states | across Enable, Suspend, Resume, a connection re-enable and the host alarm, a set never advertises longer than its duration (`NeverOverAdvertises`) |
| `timeline_cut_short` | violation of `TimeoutNotEarly` | Enable(30 ms), a connection at +10 ms (RecomputeTimeout leaves 2 units), then Suspend at once. The second recompute measures from the same `enable_time` and ends the enable after 10 ms of advertising. A second Enable whose predecessor's alarm is still armed (line 970) is cut short the same way. So is a suspended set, because the host alarm (line 977) keeps running through the suspension. |
| `use_after_cleanup` | violation of `NoUseAfterCleanUp` | RegisterAdvertiser sends LE Rand for the RPA, CleanUp deletes the manager, and the controller answers. The GenerateRpa lambda (line 565) reads `p_inst->in_use` from the freed instance. The specification says late callbacks observe that the manager is gone and abort. |
| `rpa_rotation_splits_write` | violation of `FragmentsOnlyWhileDisabled` | A rotation between SetData's FIRST and LAST fragments re-enables the set, so LAST goes to an advertising set and is refused. |

Each passing property has a mutant in `PROJECT.json`: a plausible bug in a
mapped definition under which TLC finds the property violated.

## 4. Plan

Done:
- The fragmenter.
- The state machine with the host alarm, terminated events and suspend/resume.
- `AdvBigManager`.
- `AdvTimeline`: the budgets in real time.
- `AdvRpa`, which covers SetData's interlock, the periodic calls and the
  StartAdvertising/StartAdvertisingSet pipeline.
- The manager lifecycle in `AdvRpa`: CleanUp, and late completions
  delivered or dropped.

The code also has these defects. They are not kept as runs, because each run
has to earn its place. `PROJECT.json` lists them as hazards.
- A stale host alarm disables a newer enable (line 970).
- A directed set's connection leaves `enable_status` for the next owner (line 1711).
- A late Terminate BIG completion releases a reused slot (line 1735).
- SetParameters stores the properties before the controller accepts them (line 1061).
- A periodic enable completion arrives after Unregister and sets
  `periodic_enabled` on the freed slot (line 1439).
- With encrypted data the rotation's final `AdvertiseRestart(restart, true)`
  enables a set that the client disabled (lines 405-408, 533). The `rpa` run
  checks `EnabledOnlyWhenWanted` without encryption.
- `configuredCb` is bound into both SetRandomAddress's completion and the
  encrypted data refresh (lines 427, 443), so a failing refresh runs the
  Enable callback twice. The `rpa` run checks `CallbackAtMostOnce` without
  encryption.
- TerminateBIG stores `terminate_big_cb` even when the command fails at
  once (line 1532), so the callback runs from the failure and again from a
  later completion.
- Data just under 251 bytes is fragmented once the flags are added (line 1116).
- A late BIG completion for an unregistered advertiser clears `big_handle`
  of the set that re-registered the slot (line 1738). The `big` run checks
  `NoOrphanBig` for a client that waits.

Next:
1. A multi-set `AdvTimeline`, so that Suspend's bulk recompute runs over
   several budgets at once.

## 5. Not modelled

- Encryption (pure AES-CCM over bytes). `AdvRpa` keeps only whether a buffer is encrypted, and the LE Rand command that GenerateRandomizer issues.
- Address values: an address is never compared, only whether it changed.
- Logging, the PTS test modes and the HAL glue.
- `Initialize` and its ReadInstanceCount: the initial state is a manager
  that already knows `inst_count`. A second `Initialize` after CleanUp is
  not modelled.
- Real time in `BleAdvManager` and `AdvRpa` (see `RecomputeOutcomes`).
  `AdvTimeline` models it for one set, with HCI commands taking effect at once.
- The division by zero at line 1625. It needs an uninitialised
  `advertising_interval`, which the modelled client never leaves.
