-------------------------------- MODULE AdvRpa --------------------------------
(***************************************************************************)
(* Resolvable-private-address rotation of btm_ble_multi_adv.cc together   *)
(* with the operations it drives and races with: ConfigureRpa and its      *)
(* GenerateRpa callback chain, AdvertiseRestart, the periodic              *)
(* adv_raddr_timer, Enable / EnableFinish, SetData with its                *)
(* disable / write / re-enable interlock, the periodic data and enable     *)
(* calls, SetParameters, RegisterAdvertiserImpl and Unregister.            *)
(*                                                                         *)
(* The handlers call one another through callbacks (configuredCb,          *)
(* done_cb, the SetData chain of ConfigureRpa).  Each handler is a pure    *)
(* operator from a world record w to the next one:                         *)
(*   w.h     the AdvertisingInstance fields, one function per field;       *)
(*   w.q     the HCI commands the step appends, in order;                  *)
(*   w.runs  how often each client request's callback ran;                 *)
(*   w.aw    the requests whose callback has not run yet;                  *)
(*   w.known the slots whose registration callback told the client its id; *)
(*   w.want  history: the owner last asked for the slot to be enabled;      *)
(*   w.ps    history: the owner has had SetParameters called for the slot.  *)
(*   w.freed history: a callback dereferenced memory CleanUp had freed.    *)
(* A continuation is a record naming the callback and its bound arguments; *)
(* RunCont runs one with a status, as cb.Run(status) does.                 *)
(*                                                                         *)
(* Data is abstracted to what the code branches on: whether a buffer is    *)
(* encrypted (the *_enc vector is non-empty) and its size class: "short"   *)
(* fits one HCI command, "long" does not, "edge" fits before the flags AD  *)
(* or the encryption wrapper is added and not after.  A fragmented write   *)
(* is two commands, FIRST then LAST, the second sent from the first's      *)
(* completion (AdvFragmenter checks the fragmenter itself).  Addresses are *)
(* not values: only when SetRandomAddress reaches the controller matters.  *)
(* Local privacy is enabled (own_address_type is random); duration is 0,   *)
(* so a budget is maxExtAdvEvents and no timeout_timer is involved.        *)
(***************************************************************************)
EXTENDS Integers, Sequences, FiniteSets

CONSTANTS
  InstCount,     \* inst_count
  Statuses,      \* statuses an HCI command may complete with (0 = success)
  MaxOps,        \* bound on client requests
  MaxTicks,      \* bound on adv_raddr_timer expiries
  SkipReload,    \* the value skip_rpa_count is reloaded with (15 in the code)
  Budgets,       \* whether maxExtAdvEvents passed to Enable is non-zero
  Bcasts,        \* whether periodic data carries the Broadcast Audio UUID
  Encs,          \* whether a client passes non-empty encr_data
  Sizes,         \* size classes of the data a client passes
  RpaGenOffload, \* rpa_gen_offload_enabled
  EncEnabled,    \* btm_cb.enc_adv_data_enabled
  CarefulClient, \* a client waits for each callback before its next call
  Clients        \* the client operations a model exercises

ASSUME /\ InstCount \in Nat \ {0} /\ 0 \in Statuses
       /\ MaxOps \in Nat /\ MaxTicks \in Nat /\ SkipReload \in Nat \ {0}
       /\ Budgets \cup Bcasts \cup Encs \subseteq BOOLEAN
       /\ Sizes \subseteq {"short", "edge", "long"}

Inst == 0 .. InstCount - 1
Reqs == 1 .. MaxOps

BTM_BLE_MULTI_ADV_SUCCESS == 0
BTM_BLE_MULTI_ADV_FAILURE == 1
ADVERTISE_FAILED_FEATURE_UNSUPPORTED == 5
ADVERTISE_FAILED_TOO_MANY_ADVERTISERS == 2
HCI_ERR_COMMAND_DISALLOWED == 12
HCI_ERR_UNKNOWN_ADV_ID == 66

VARIABLES
  w,        \* the world record described above
  evq,      \* completions posted by the controller, FIFO
  ctrl,     \* controller: "absent" | "idle" | "adv" per set
  ctrlConn, \* controller: the set's parameters are connectable
  ctrlPer,  \* controller: periodic advertising enabled
  ops,      \* client requests made
  ticks,    \* adv_raddr_timer expiries
  reqOf,    \* history: the slot a request is about (-1 for a registration)
  addrWhileAdv, \* history: an address write hit an advertising connectable set
  fragWhileAdv, \* history: a fragment write hit an advertising set
  alive     \* the manager exists: Initialize ran and CleanUp has not

vars == <<w, evq, ctrl, ctrlConn, ctrlPer, ops, ticks, reqOf,
          addrWhileAdv, fragWhileAdv, alive>>

-----------------------------------------------------------------------------
(* Continuations.                                                          *)
NoCont        == [k |-> "none"]                     \* base::DoNothing()
User(r)       == [k |-> "user", r |-> r]            \* a client callback
RegCb(r, i)   == [k |-> "reg", r |-> r, i |-> i]    \* cb(inst_id, SUCCESS)
EnFin(i, c)   == [k |-> "enFin", i |-> i, cb |-> c]  \* Bind(EnableFinish, enable=true, cb)
RegRpa(i, c)  == [k |-> "regRpa", i |-> i, cb |-> c] \* GenerateRpa callback, line 565
CfgRpa(i, c)  == [k |-> "cfgRpa", i |-> i, cfg |-> c] \* GenerateRpa callback, line 402
AddrSet(c)    == [k |-> "addrSet", cfg |-> c]       \* SetRandomAddress callback, line 423
RpaAdv(i, rs, c)  == [k |-> "rpaAdv", i |-> i, rs |-> rs, cfg |-> c]   \* line 437
RpaScan(i, rs, c) == [k |-> "rpaScan", i |-> i, rs |-> rs, cfg |-> c]  \* line 451
RpaLast(i, rs, c) == [k |-> "rpaLast", i |-> i, rs |-> rs, cfg |-> c]  \* lines 474, 499, 524
Rand(i, kind, frag, d) == [k |-> "rand", i |-> i, kind |-> kind, frag |-> frag, done |-> d]
DataRe(i, c)  == [k |-> "dataRe", i |-> i, cb |-> c]  \* SetData restart, line 1200
PerRe(i, c)   == [k |-> "perRe", i |-> i, cb |-> c]   \* periodic restart, line 1398
PerEn(i, on, c) == [k |-> "perEn", i |-> i, on |-> on, cb |-> c] \* enable_cb, line 1433
NextChunk(i, kind, d) == [k |-> "chunk", i |-> i, kind |-> kind, done |-> d]
\* A step of the StartAdvertising / StartAdvertisingSet callback chain; p is
\* the CreatorParams bundle the chain carries.
Pipe(stage, i, p) == [k |-> "pipe", stage |-> stage, i |-> i, p |-> p]

(* HCI commands.                                                           *)
RandCmd(c)          == [op |-> "rand", cont |-> c]
ParamsCmd(i, cn, c) == [op |-> "params", i |-> i, conn |-> cn, cont |-> c]
AddrCmd(i, c)       == [op |-> "addr", i |-> i, cont |-> c]
EnableCmd(on, i, c) == [op |-> "enable", i |-> i, on |-> on, cont |-> c]
DataCmd(i, kind, part, c) == [op |-> "data", i |-> i, kind |-> kind, part |-> part, cont |-> c]
PerEnableCmd(on, i, c) == [op |-> "perEnable", i |-> i, on |-> on, cont |-> c]
PerParamsCmd(i, c)  == [op |-> "perParams", i |-> i, cont |-> c]
RemoveCmd(i)        == [op |-> "remove", i |-> i, cont |-> NoCont]

Emit(x, c) == [x EXCEPT !.q = Append(@, c)]

\* The size class after the flags AD (connectable advertising data) or the
\* encryption wrapper is added: "edge" data then needs two fragments.
Fragmented(sz, grows) == sz = "long" \/ (sz = "edge" /\ grows)

\* Hand data to DivideAndSendData: one COMPLETE command, or FIRST whose
\* completion sends LAST.
WriteData(x, i, kind, frag, d) ==
  IF frag THEN Emit(x, DataCmd(i, kind, "first", NextChunk(i, kind, d)))
          ELSE Emit(x, DataCmd(i, kind, "complete", d))

-----------------------------------------------------------------------------
(* The handlers, as operators on the world record.                         *)
RECURSIVE RunCont(_, _, _), SetDataW(_, _, _, _, _, _),
          SetPeriodicDataW(_, _, _, _, _, _), SetPeriodicEnableW(_, _, _, _),
          CfgRpaGeneratedW(_, _, _), PipeW(_, _, _, _, _)

\* EnableFinish with duration 0: no EnableWithTimerCb, nothing to cancel.
EnableFinishW(x, i, on, cb) ==
  Emit([x EXCEPT !.h.enable_status[i] = on], EnableCmd(on, i, cb))

\* (mutant) the enable_status update made whatever restart says
AdvertiseRestartW_IgnoreRestart(x, rs, on, i) ==
  IF rs THEN Emit([x EXCEPT !.h.enable_status[i] = on], EnableCmd(on, i, NoCont))
        ELSE [x EXCEPT !.h.enable_status[i] = on]

AdvertiseRestartW(x, rs, on, i) ==
  IF rs THEN Emit([x EXCEPT !.h.enable_status[i] = on], EnableCmd(on, i, NoCont))
        ELSE x

\* SetData (lines 1098-1249).  restart: the raw data plus encr_data do not fit
\* and the set is enabled; the set is disabled first and re-enabled, with the
\* caller's callback, from the write's completion.  Encrypted data first
\* waits for GenerateRandomizer (HCI LE Rand).
SetDataW(x, i, scan, enc, sz, cb) ==
  IF enc /\ ~EncEnabled THEN RunCont(x, cb, ADVERTISE_FAILED_FEATURE_UNSUPPORTED)
  ELSE
    LET rs   == sz = "long" /\ x.h.enable_status[i]
        x1   == IF rs THEN Emit(x, EnableCmd(FALSE, i, NoCont)) ELSE x
        x2   == IF scan
                THEN [x1 EXCEPT !.h.scan_enc[i] = enc, !.h.scan_size[i] = sz]
                ELSE [x1 EXCEPT !.h.adv_enc[i] = enc, !.h.adv_size[i] = sz]
        kind == IF scan THEN "scan" ELSE "adv"
        frag == Fragmented(sz, enc \/ (~scan /\ x.h.connectable[i]))
        done == IF rs THEN DataRe(i, cb) ELSE cb
    IN  IF enc THEN Emit(x2, RandCmd(Rand(i, kind, frag, done)))
               ELSE WriteData(x2, i, kind, frag, done)

\* SetPeriodicAdvertisingEnable (lines 1418-1452).
SetPeriodicEnableW(x, i, on, cb) ==
  IF ~x.h.in_use[i] THEN RunCont(x, cb, BTM_BLE_MULTI_ADV_FAILURE)
  ELSE Emit(x, PerEnableCmd(on, i, PerEn(i, on, cb)))

\* SetPeriodicAdvertisingData (lines 1312-1416).  Broadcast Audio
\* Announcement data turns the RPA throttle on.
SetPeriodicDataW(x, i, bc, enc, sz, cb) ==
  IF enc /\ ~EncEnabled THEN RunCont(x, cb, ADVERTISE_FAILED_FEATURE_UNSUPPORTED)
  ELSE
    LET x1   == [x EXCEPT !.h.per_enc[i] = enc, !.h.per_size[i] = sz,
                          !.h.per_bcast[i] = bc]
        rp   == sz = "long" /\ x.h.periodic_enabled[i]
        x2   == IF rp THEN SetPeriodicEnableW(x1, i, FALSE, NoCont) ELSE x1
        x3   == IF bc THEN [x2 EXCEPT !.h.skip_rpa_count[i] = SkipReload,
                                      !.h.skip_rpa[i] = TRUE]
                      ELSE x2
        frag == Fragmented(sz, enc)
        done == IF rp THEN PerRe(i, cb) ELSE cb
    IN  IF enc THEN Emit(x3, RandCmd(Rand(i, "per", frag, done)))
               ELSE WriteData(x3, i, "per", frag, done)

\* (mutant) the deferral reports nothing to configuredCb
ConfigureRpaW_NoDeferCb(x, i, cfg) ==
  LET rs == x.h.enable_status[i] /\ x.h.connectable[i]
  IN  IF x.h.skip_rpa[i] /\ x.h.skip_rpa_count[i] > 0
      THEN [x EXCEPT !.h.skip_rpa_count[i] = @ - 1]
      ELSE LET x1 == IF x.h.skip_rpa[i]
                     THEN [x EXCEPT !.h.skip_rpa_count[i] = SkipReload] ELSE x
           IN  IF rs /\ x.h.maxExtAdvEvents[i]
               THEN [x1 EXCEPT !.h.address_update_required[i] = TRUE]
               ELSE Emit(x1, RandCmd(CfgRpa(i, cfg)))

\* ConfigureRpa (lines 378-400): the broadcast throttle, the deferral of a
\* budgeted connectable set, or GenerateRpa.
ConfigureRpaW(x, i, cfg) ==
  LET rs == x.h.enable_status[i] /\ x.h.connectable[i]
  IN  IF x.h.skip_rpa[i] /\ x.h.skip_rpa_count[i] > 0
      THEN [x EXCEPT !.h.skip_rpa_count[i] = @ - 1]
      ELSE LET x1 == IF x.h.skip_rpa[i]
                     THEN [x EXCEPT !.h.skip_rpa_count[i] = SkipReload] ELSE x
           IN  IF rs /\ x.h.maxExtAdvEvents[i]
               THEN RunCont([x1 EXCEPT !.h.address_update_required[i] = TRUE], cfg, 1)
               ELSE Emit(x1, RandCmd(CfgRpa(i, cfg)))

\* (mutant) restart decided by the encrypted payloads alone
CfgRpaGeneratedW_EncOnly(x, i, cfg) ==
  LET h  == x.h
      rs == h.adv_enc[i] \/ h.scan_enc[i] \/ h.per_enc[i]
      x1 == Emit(AdvertiseRestartW(x, rs, FALSE, i), AddrCmd(i, AddrSet(cfg)))
  IN  IF h.adv_enc[i] THEN SetDataW(x1, i, FALSE, TRUE, h.adv_size[i], RpaAdv(i, rs, cfg))
      ELSE IF h.scan_enc[i] THEN SetDataW(x1, i, TRUE, TRUE, h.scan_size[i], RpaLast(i, rs, cfg))
      ELSE IF h.per_enc[i] /\ h.periodic_enabled[i]
           THEN SetPeriodicDataW(x1, i, h.per_bcast[i], TRUE, h.per_size[i], RpaLast(i, rs, cfg))
      ELSE AdvertiseRestartW(x1, rs, TRUE, i)

\* The GenerateRpa callback of ConfigureRpa (lines 402-540): disable if the
\* set is enabled and connectable or carries encrypted data, write the new
\* address, refresh each encrypted payload in turn, then re-enable.
CfgRpaGeneratedW(x, i, cfg) ==
  LET h  == x.h
      rs == (h.enable_status[i] /\ h.connectable[i])
            \/ h.adv_enc[i] \/ h.scan_enc[i] \/ h.per_enc[i]
      x1 == Emit(AdvertiseRestartW(x, rs, FALSE, i), AddrCmd(i, AddrSet(cfg)))
  IN  IF h.adv_enc[i] THEN SetDataW(x1, i, FALSE, TRUE, h.adv_size[i], RpaAdv(i, rs, cfg))
      ELSE IF h.scan_enc[i] THEN SetDataW(x1, i, TRUE, TRUE, h.scan_size[i], RpaLast(i, rs, cfg))
      ELSE IF h.per_enc[i] /\ h.periodic_enabled[i]
           THEN SetPeriodicDataW(x1, i, h.per_bcast[i], TRUE, h.per_size[i], RpaLast(i, rs, cfg))
      ELSE AdvertiseRestartW(x1, rs, TRUE, i)

\* Done: a client callback ran.
Done(x, r) == [x EXCEPT !.runs[r] = @ + 1, !.aw = @ \ {r}]

\* cb.Run(status) for a continuation.
RunCont(x, c, st) ==
  CASE c.k = "none"    -> x
    [] c.k = "user"    -> Done(x, c.r)
    [] c.k = "reg"     -> Done([x EXCEPT !.known[c.i] = TRUE], c.r)
    \* EnableFinish ignores the status configuredCb reports (line 1017).
    [] c.k = "enFin"   -> EnableFinishW(x, c.i, TRUE, c.cb)
    \* RegisterAdvertiserImpl's GenerateRpa callback (lines 565-579).
    [] c.k = "regRpa"  -> IF ~x.h.in_use[c.i] THEN x
                          ELSE RunCont([x EXCEPT !.h.raddr_armed[c.i] = TRUE],
                                       c.cb, BTM_BLE_MULTI_ADV_SUCCESS)
    [] c.k = "cfgRpa"  -> CfgRpaGeneratedW(x, c.i, c.cfg)
    \* configuredCb.Run(0x00) whatever SetRandomAddress reported.
    [] c.k = "addrSet" -> RunCont(x, c.cfg, 0)
    [] c.k = "rpaAdv"  -> IF st # 0 THEN RunCont(x, c.cfg, st)
                          ELSE SetDataW(x, c.i, TRUE, x.h.scan_enc[c.i], x.h.scan_size[c.i],
                                        RpaScan(c.i, c.rs, c.cfg))
    [] c.k = "rpaScan" -> IF st # 0 THEN RunCont(x, c.cfg, st)
                          ELSE IF x.h.per_enc[c.i] /\ x.h.periodic_enabled[c.i]
                          THEN SetPeriodicDataW(x, c.i, x.h.per_bcast[c.i], TRUE,
                                                x.h.per_size[c.i], RpaLast(c.i, c.rs, c.cfg))
                          ELSE AdvertiseRestartW(x, c.rs, TRUE, c.i)
    [] c.k = "rpaLast" -> IF st # 0 THEN RunCont(x, c.cfg, st)
                          ELSE AdvertiseRestartW(x, c.rs, TRUE, c.i)
    \* GenerateRandomizer_cmpl always reports success; the payload is sent.
    [] c.k = "rand"    -> WriteData(x, c.i, c.kind, c.frag, c.done)
    \* DivideAndSendDataRecursively after the FIRST fragment.
    [] c.k = "chunk"   -> IF st # 0 THEN RunCont(x, c.done, st)
                          ELSE Emit(x, DataCmd(c.i, c.kind, "last", c.done))
    [] c.k = "dataRe"  -> IF st # 0 THEN RunCont(x, c.cb, st)
                          ELSE Emit(x, EnableCmd(TRUE, c.i, c.cb))
    [] c.k = "perRe"   -> IF st # 0 THEN RunCont(x, c.cb, st)
                          ELSE SetPeriodicEnableW(x, c.i, TRUE, c.cb)
    [] c.k = "perEn"   -> RunCont(IF st = 0
                                  THEN [x EXCEPT !.h.periodic_enabled[c.i] = c.on]
                                  ELSE x, c.cb, st)
    [] c.k = "pipe"    -> PipeW(x, c.stage, c.i, c.p, st)

\* (mutant) the early return after ConfigureRpa dropped
EnableW_NoReturn(x, i, on, m, cb) ==
  IF ~x.h.in_use[i] THEN RunCont(x, cb, BTM_BLE_MULTI_ADV_FAILURE)
  ELSE LET x1 == [x EXCEPT !.h.maxExtAdvEvents[i] = m]
       IN  IF ~RpaGenOffload /\ on /\ x1.h.address_update_required[i]
           THEN EnableFinishW(ConfigureRpaW([x1 EXCEPT !.h.address_update_required[i] = FALSE],
                                            i, EnFin(i, cb)), i, on, cb)
           ELSE EnableFinishW(x1, i, on, cb)

\* Enable (lines 981-1015): rotate first when an update was deferred.
EnableW(x, i, on, m, cb) ==
  IF ~x.h.in_use[i] THEN RunCont(x, cb, BTM_BLE_MULTI_ADV_FAILURE)
  ELSE LET x1 == [x EXCEPT !.h.maxExtAdvEvents[i] = m]
       IN  IF ~RpaGenOffload /\ on /\ x1.h.address_update_required[i]
           THEN ConfigureRpaW([x1 EXCEPT !.h.address_update_required[i] = FALSE],
                              i, EnFin(i, cb))
           ELSE EnableFinishW(x1, i, on, cb)

\* (mutant) alarm_cancel(adv_raddr_timer) dropped
UnregisterW_NoCancel(x, i) ==
  LET h  == x.h
      x1 == IF h.enable_status[i]
            THEN Emit([x EXCEPT !.h.enable_status[i] = FALSE,
                                !.h.adv_enc[i] = FALSE, !.h.adv_size[i] = "short",
                                !.h.scan_enc[i] = FALSE, !.h.scan_size[i] = "short"],
                      EnableCmd(FALSE, i, NoCont))
            ELSE x
      x2 == IF h.periodic_enabled[i]
            THEN Emit([x1 EXCEPT !.h.periodic_enabled[i] = FALSE,
                                 !.h.per_enc[i] = FALSE, !.h.per_size[i] = "short",
                                 !.h.per_bcast[i] = FALSE],
                      PerEnableCmd(FALSE, i, NoCont))
            ELSE x1
  IN  Emit([x2 EXCEPT !.h.in_use[i] = FALSE,
                      !.h.skip_rpa_count[i] = 0, !.h.skip_rpa[i] = FALSE,
                      !.h.address_update_required[i] = FALSE, !.known[i] = FALSE],
           RemoveCmd(i))

\* (mutant) RemoveAdvertisingSet sent before the disables
UnregisterW_RemoveFirst(x, i) ==
  LET h  == x.h
      x0 == Emit([x EXCEPT !.h.raddr_armed[i] = FALSE, !.h.in_use[i] = FALSE,
                           !.h.skip_rpa_count[i] = 0, !.h.skip_rpa[i] = FALSE,
                           !.h.address_update_required[i] = FALSE, !.known[i] = FALSE],
                 RemoveCmd(i))
      x1 == IF h.enable_status[i]
            THEN Emit([x0 EXCEPT !.h.enable_status[i] = FALSE], EnableCmd(FALSE, i, NoCont))
            ELSE x0
  IN  IF h.periodic_enabled[i]
      THEN Emit([x1 EXCEPT !.h.periodic_enabled[i] = FALSE], PerEnableCmd(FALSE, i, NoCont))
      ELSE x1

\* Unregister (lines 1546-1607, the BIG and timeout_timer parts aside): the
\* data is cleared only when the set is enabled.
UnregisterW(x, i) ==
  LET h  == x.h
      x1 == IF h.enable_status[i]
            THEN Emit([x EXCEPT !.h.enable_status[i] = FALSE,
                                !.h.adv_enc[i] = FALSE, !.h.adv_size[i] = "short",
                                !.h.scan_enc[i] = FALSE, !.h.scan_size[i] = "short"],
                      EnableCmd(FALSE, i, NoCont))
            ELSE x
      x2 == IF h.periodic_enabled[i]
            THEN Emit([x1 EXCEPT !.h.periodic_enabled[i] = FALSE,
                                 !.h.per_enc[i] = FALSE, !.h.per_size[i] = "short",
                                 !.h.per_bcast[i] = FALSE],
                      PerEnableCmd(FALSE, i, NoCont))
            ELSE x1
  IN  Emit([x2 EXCEPT !.h.raddr_armed[i] = FALSE, !.h.in_use[i] = FALSE,
                      !.h.skip_rpa_count[i] = 0, !.h.skip_rpa[i] = FALSE,
                      !.h.address_update_required[i] = FALSE, !.known[i] = FALSE],
           RemoveCmd(i))


\* SetParameters (lines 1042-1096): the properties are stored before the
\* controller answers; the caller's callback gets the command's status.
SetParametersW(x, i, cn, cb) ==
  IF ~x.h.in_use[i] THEN RunCont(x, cb, BTM_BLE_MULTI_ADV_FAILURE)
  ELSE Emit([x EXCEPT !.h.connectable[i] = cn, !.ps[i] = TRUE], ParamsCmd(i, cn, cb))

LowestFree(x) ==
  CHOOSE i \in Inst : ~x.h.in_use[i] /\ \A j \in Inst : ~x.h.in_use[j] => i <= j

\* RegisterAdvertiserImpl (lines 552-595): the first free slot.  A random
\* address is generated first (GenerateRpa) unless the controller generates
\* it; the callback then arms adv_raddr_timer.  cb(i) is the callback for
\* slot i: the client's, or the next step of StartAdvertisingSet.
RegisterW(x, pub, r, p) ==
  IF \A i \in Inst : x.h.in_use[i]
  THEN RunCont(x, User(r), ADVERTISE_FAILED_TOO_MANY_ADVERTISERS)
  ELSE LET i  == LowestFree(x)
           cb == IF p = NoCont THEN RegCb(r, i) ELSE Pipe("registered", i, p)
           x1 == [x EXCEPT !.h.in_use[i] = TRUE, !.want[i] = FALSE, !.ps[i] = FALSE]
       IN  IF pub \/ RpaGenOffload THEN RunCont(x1, cb, BTM_BLE_MULTI_ADV_SUCCESS)
           ELSE Emit(x1, RandCmd(RegRpa(i, cb)))

\* (mutant) a failing step of StartAdvertisingSet reports without unregistering
PipeW_NoRollback(x, stage, i, p, st) ==
  LET afterAddress == SetDataW(x, i, FALSE, p.ae, p.as, Pipe("advData", i, p))
      finish == EnableW([x EXCEPT !.want[i] = TRUE], i, TRUE, p.m, Pipe("enabled", i, p))
  IN  IF stage = "registered"
      THEN IF st # 0 THEN RunCont(x, User(p.r), st)
           ELSE SetParametersW(x, i, p.conn, Pipe("params", i, p))
      ELSE IF st # 0
      THEN RunCont(x, User(p.r), st)
      ELSE CASE stage = "params"     -> IF ~p.legacy /\ (p.pub \/ RpaGenOffload)
                                        THEN afterAddress
                                        ELSE Emit(x, AddrCmd(i, Pipe("addr", i, p)))
             [] stage = "addr"       -> afterAddress
             [] stage = "advData"    -> SetDataW(x, i, TRUE, p.se, p.ss, Pipe("scanData", i, p))
             [] stage = "scanData"   -> IF p.per
                                        THEN Emit(x, PerParamsCmd(i, Pipe("perParams", i, p)))
                                        ELSE finish
             [] stage = "perParams"  -> SetPeriodicDataW(x, i, p.bc, p.pe, p.psz, Pipe("perData", i, p))
             [] stage = "perData"    -> SetPeriodicEnableW(x, i, TRUE, Pipe("perEnabled", i, p))
             [] stage = "perEnabled" -> finish
             [] stage = "enabled"    -> Done([x EXCEPT !.known[i] = TRUE], p.r)

\* The callback chain of StartAdvertisingSet (lines 765-960) and of the
\* legacy StartAdvertising (lines 648-716, p.legacy): parameters, the
\* random address, advertising data, scan response, the periodic part, and
\* Enable.  A failing step of StartAdvertisingSet unregisters the instance
\* before it reports; StartAdvertising only reports.  Success reports the
\* instance id, which the client then knows.
PipeW(x, stage, i, p, st) ==
  LET afterAddress == SetDataW(x, i, FALSE, p.ae, p.as, Pipe("advData", i, p))
      finish == EnableW([x EXCEPT !.want[i] = TRUE], i, TRUE, p.m, Pipe("enabled", i, p))
  IN  IF stage = "registered"
      THEN IF st # 0 THEN RunCont(x, User(p.r), st)
           ELSE SetParametersW(x, i, p.conn, Pipe("params", i, p))
      ELSE IF st # 0
      THEN RunCont(IF p.legacy THEN x ELSE UnregisterW(x, i), User(p.r), st)
      ELSE CASE stage = "params"     -> IF ~p.legacy /\ (p.pub \/ RpaGenOffload)
                                        THEN afterAddress
                                        ELSE Emit(x, AddrCmd(i, Pipe("addr", i, p)))
             [] stage = "addr"       -> afterAddress
             [] stage = "advData"    -> SetDataW(x, i, TRUE, p.se, p.ss, Pipe("scanData", i, p))
             [] stage = "scanData"   -> IF p.per
                                        THEN Emit(x, PerParamsCmd(i, Pipe("perParams", i, p)))
                                        ELSE finish
             [] stage = "perParams"  -> SetPeriodicDataW(x, i, p.bc, p.pe, p.psz, Pipe("perData", i, p))
             [] stage = "perData"    -> SetPeriodicEnableW(x, i, TRUE, Pipe("perEnabled", i, p))
             [] stage = "perEnabled" -> finish
             [] stage = "enabled"    -> Done([x EXCEPT !.known[i] = TRUE], p.r)

\* A completion delivered after CleanUp deleted the manager, its adv_inst
\* vector and the HCI interface.  What is bound to the weak pointer does
\* nothing: EnableFinish, SetDataAdvDataSender, the CreatorParams chain
\* that checks c->self.  A client callback still runs.  The lambdas that
\* captured a raw AdvertisingInstance*, BleAdvertisingManagerImpl* or
\* Unretained HCI interface dereference freed memory (w.freed), where the
\* chain stops.  A failing status is reported before any dereference.
RECURSIVE Orphaned(_, _, _)
Orphaned(x, c, st) ==
  CASE c.k \in {"none", "enFin", "pipe"}                    -> x
    [] c.k \in {"user", "reg"}                             -> Done(x, c.r)
    [] c.k = "addrSet"                                     -> Orphaned(x, c.cfg, 0)
    [] c.k \in {"rpaAdv", "rpaScan", "rpaLast"} /\ st # 0  -> Orphaned(x, c.cfg, st)
    \* AdvertiseRestart(false, ...) touches no member.
    [] c.k = "rpaLast" /\ st = 0 /\ ~c.rs                  -> x
    [] c.k \in {"dataRe", "perRe", "perEn"} /\ st # 0      -> Orphaned(x, c.cb, st)
    [] c.k = "chunk" /\ st # 0                             -> Orphaned(x, c.done, st)
    [] c.k = "chunk" /\ st = 0 /\ c.kind # "per"           -> x
    [] OTHER                                               -> [x EXCEPT !.freed = TRUE]

-----------------------------------------------------------------------------
(* The AdvertisingInstance constructor (lines 149-165) for every slot.     *)
Init ==
  /\ w = [h |-> [in_use |-> [i \in Inst |-> FALSE],
                 connectable |-> [i \in Inst |-> FALSE],
                 enable_status |-> [i \in Inst |-> FALSE],
                 maxExtAdvEvents |-> [i \in Inst |-> FALSE],
                 address_update_required |-> [i \in Inst |-> FALSE],
                 skip_rpa |-> [i \in Inst |-> FALSE],
                 skip_rpa_count |-> [i \in Inst |-> 0],
                 adv_enc |-> [i \in Inst |-> FALSE],
                 adv_size |-> [i \in Inst |-> "short"],
                 scan_enc |-> [i \in Inst |-> FALSE],
                 scan_size |-> [i \in Inst |-> "short"],
                 per_enc |-> [i \in Inst |-> FALSE],
                 per_size |-> [i \in Inst |-> "short"],
                 per_bcast |-> [i \in Inst |-> FALSE],
                 periodic_enabled |-> [i \in Inst |-> FALSE],
                 raddr_armed |-> [i \in Inst |-> FALSE]],
          q |-> <<>>, runs |-> [r \in Reqs |-> 0], aw |-> {},
          known |-> [i \in Inst |-> FALSE],
          want |-> [i \in Inst |-> FALSE], ps |-> [i \in Inst |-> FALSE],
          freed |-> FALSE]
  /\ evq = <<>>
  /\ ctrl = [i \in Inst |-> "absent"]
  /\ ctrlConn = [i \in Inst |-> FALSE]
  /\ ctrlPer = [i \in Inst |-> FALSE]
  /\ ops = 0
  /\ ticks = 0
  /\ reqOf = [r \in Reqs |-> -1]
  /\ addrWhileAdv = FALSE
  /\ fragWhileAdv = FALSE
  /\ alive = TRUE

ctrl_vars == <<evq, ctrl, ctrlConn, ctrlPer, addrWhileAdv, fragWhileAdv>>

\* A new client request r about slot i; it awaits its callback.
Request(r, i) ==
  /\ ops < MaxOps /\ r = ops + 1 /\ ops' = r
  /\ reqOf' = [reqOf EXCEPT ![r] = i]
Issue(r) == [w EXCEPT !.aw = @ \cup {r}]

\* The client calls about a slot it was told it owns; a careful client
\* waits for the callbacks of its earlier calls about that slot.
ClientMay(i) ==
  /\ w.known[i]
  /\ CarefulClient => \A r \in w.aw : reqOf[r] # i

\* RegisterAdvertiser (lines 544-550): local privacy is on, so the address
\* is random.
RegisterAdvertiser ==
  \E r \in Reqs :
    /\ "RegisterAdvertiser" \in Clients
    /\ Request(r, -1)
    /\ w' = RegisterW(Issue(r), FALSE, r, NoCont)
    /\ UNCHANGED <<ticks, ctrl_vars, alive>>

\* The CreatorParams a client may pass, abstracted like the data of SetData.
\* StartAdvertising passes no encrypted data, no periodic part, no budget.
PipeParams(legacy, r) ==
  { p \in [r: {r}, legacy: {legacy}, conn: BOOLEAN, pub: BOOLEAN, ae: Encs, as: Sizes,
           se: Encs, ss: Sizes, per: BOOLEAN, bc: Bcasts, pe: Encs,
           psz: Sizes, m: Budgets] :
      /\ legacy => p.pub = FALSE /\ ~p.ae /\ ~p.se /\ ~p.per /\ ~p.m
      /\ ~p.per => ~p.bc /\ ~p.pe /\ p.psz = "short" }

\* StartAdvertisingSet (lines 718-828): encrypted data without the feature
\* fails at once; otherwise register and run the chain from its callback.
StartAdvertisingSet ==
  \E r \in {ops + 1} : \E p \in PipeParams(FALSE, r) :
    /\ "StartAdvertisingSet" \in Clients
    /\ Request(r, -1)
    /\ w' = IF (p.ae \/ p.se \/ p.pe) /\ ~EncEnabled
            THEN RunCont(Issue(r), User(r), ADVERTISE_FAILED_FEATURE_UNSUPPORTED)
            ELSE RegisterW(Issue(r), p.pub, r, p)
    /\ UNCHANGED <<ticks, ctrl_vars, alive>>

\* StartAdvertising (lines 609-716) on a slot the client registered: the
\* chain begins with SetParameters.
StartAdvertising ==
  \E i \in Inst, r \in {ops + 1} : \E p \in PipeParams(TRUE, r) :
    /\ "StartAdvertising" \in Clients
    /\ ClientMay(i) /\ (CarefulClient => ~w.ps[i])
    /\ Request(r, i)
    /\ w' = SetParametersW(Issue(r), i, p.conn, Pipe("params", i, p))
    /\ UNCHANGED <<ticks, ctrl_vars, alive>>

\* SetParameters (lines 1042-1096).  A careful client sets parameters once,
\* before enabling ("we always set parameters before enabling").
SetParameters ==
  \E i \in Inst, cn \in BOOLEAN, r \in Reqs :
    /\ "SetParameters" \in Clients
    /\ ClientMay(i) /\ (CarefulClient => ~w.ps[i])
    /\ Request(r, i)
    /\ w' = SetParametersW(Issue(r), i, cn, User(r))
    /\ UNCHANGED <<ticks, ctrl_vars, alive>>

\* A careful client enables a set only after setting its parameters.
Enable ==
  \E i \in Inst, on \in BOOLEAN, m \in Budgets, r \in Reqs :
    /\ "Enable" \in Clients
    /\ ClientMay(i) /\ (CarefulClient => w.ps[i]) /\ Request(r, i)
    /\ w' = EnableW([Issue(r) EXCEPT !.want[i] = on], i, on, m, User(r))
    /\ UNCHANGED <<ticks, ctrl_vars, alive>>

SetData ==
  \E i \in Inst, scan \in BOOLEAN, enc \in Encs, sz \in Sizes, r \in Reqs :
    /\ "SetData" \in Clients
    /\ ClientMay(i) /\ Request(r, i)
    /\ w' = SetDataW(Issue(r), i, scan, enc, sz, User(r))
    /\ UNCHANGED <<ticks, ctrl_vars, alive>>

SetPeriodicAdvertisingData ==
  \E i \in Inst, bc \in Bcasts, enc \in Encs, sz \in Sizes, r \in Reqs :
    /\ "SetPeriodicAdvertisingData" \in Clients
    /\ ClientMay(i) /\ Request(r, i)
    /\ w' = SetPeriodicDataW(Issue(r), i, bc, enc, sz, User(r))
    /\ UNCHANGED <<ticks, ctrl_vars, alive>>

\* SetPeriodicAdvertisingParameters (lines 1302-1310) hands the call to HCI.
SetPeriodicAdvertisingParameters ==
  \E i \in Inst, r \in Reqs :
    /\ "SetPeriodicAdvertisingParameters" \in Clients
    /\ ClientMay(i) /\ Request(r, i)
    /\ w' = Emit(Issue(r), PerParamsCmd(i, User(r)))
    /\ UNCHANGED <<ticks, ctrl_vars, alive>>

SetPeriodicAdvertisingEnable ==
  \E i \in Inst, on \in BOOLEAN, r \in Reqs :
    /\ "SetPeriodicAdvertisingEnable" \in Clients
    /\ ClientMay(i) /\ Request(r, i)
    /\ w' = SetPeriodicEnableW(Issue(r), i, on, User(r))
    /\ UNCHANGED <<ticks, ctrl_vars, alive>>

Unregister ==
  \E i \in Inst :
    /\ "Unregister" \in Clients
    /\ ClientMay(i)
    /\ w' = UnregisterW(w, i)
    /\ UNCHANGED <<ops, ticks, reqOf, ctrl_vars, alive>>

\* btm_ble_adv_raddr_timer_timeout (lines 1806-1809): the periodic alarm
\* runs ConfigureRpa with base::DoNothing() as configuredCb.
RaddrTimerFire ==
  \E i \in Inst :
    /\ w.h.raddr_armed[i] /\ ticks < MaxTicks
    /\ ticks' = ticks + 1
    /\ w' = ConfigureRpaW(w, i, NoCont)
    /\ UNCHANGED <<ops, reqOf, ctrl_vars, alive>>

\* BleAdvertisingManager::CleanUp (lines 1823-1828), from
\* btm_ble_multi_adv_cleanup (lines 1859-1863): CancelAdvAlarms (lines
\* 1779-1789) cancels every adv_raddr_timer, then the manager is deleted
\* and instance_weakptr is invalidated.  The record w stays as the freed
\* memory the raw-pointer callbacks still hold.
CleanUp ==
  /\ "CleanUp" \in Clients /\ alive
  /\ alive' = FALSE
  /\ w' = [w EXCEPT !.h.raddr_armed = [i \in Inst |-> FALSE]]
  /\ UNCHANGED <<ops, ticks, reqOf, ctrl_vars>>

-----------------------------------------------------------------------------
(* The controller executes the head command (LE Rand for GenerateRpa and   *)
(* GenerateRandomizer included) and posts its completion.  It creates a    *)
(* set on its first parameters and refuses, as the Core specification      *)
(* says, parameters or removal while the set advertises, an address change *)
(* for an advertising connectable set, a fragment while the set (or its    *)
(* periodic train) is enabled, and anything for a set it does not have.    *)
CtrlExecute ==
  /\ w.q # <<>>
  /\ \E st \in Statuses :
     LET c      == Head(w.q)
         absent == c.op \notin {"rand", "params"} /\ ctrl[c.i] = "absent"
         adv    == c.op # "rand" /\ ctrl[c.i] = "adv"
         badAddr == c.op = "addr" /\ adv /\ ctrlConn[c.i]
         badFrag == /\ c.op = "data" /\ ~absent /\ c.part # "complete"
                    /\ IF c.kind = "per" THEN ctrlPer[c.i] ELSE adv
         res == CASE c.op = "rand" -> 0
                  [] absent -> HCI_ERR_UNKNOWN_ADV_ID
                  [] badAddr \/ badFrag \/ (c.op \in {"params", "remove"} /\ adv)
                       -> HCI_ERR_COMMAND_DISALLOWED
                  [] c.op = "remove" \/ (c.op \in {"enable", "perEnable"} /\ ~c.on) -> 0
                  [] OTHER -> st
         ok(op) == res = 0 /\ c.op = op
     IN  /\ w' = [w EXCEPT !.q = Tail(@)]
         /\ evq' = Append(evq, [cont |-> c.cont, st |-> res])
         /\ ctrl' = CASE ok("params") -> [ctrl EXCEPT ![c.i] = "idle"]
                      [] ok("enable") -> [ctrl EXCEPT ![c.i] = IF c.on THEN "adv" ELSE "idle"]
                      [] ok("remove") -> [ctrl EXCEPT ![c.i] = "absent"]
                      [] OTHER -> ctrl
         /\ ctrlConn' = IF ok("params") THEN [ctrlConn EXCEPT ![c.i] = c.conn] ELSE ctrlConn
         /\ ctrlPer' = CASE ok("perEnable") -> [ctrlPer EXCEPT ![c.i] = c.on]
                         [] ok("remove") -> [ctrlPer EXCEPT ![c.i] = FALSE]
                         [] OTHER -> ctrlPer
         /\ addrWhileAdv' = (addrWhileAdv \/ badAddr)
         /\ fragWhileAdv' = (fragWhileAdv \/ badFrag)
  /\ UNCHANGED <<ops, ticks, reqOf, alive>>

\* The main loop runs the callback bound to the oldest completion.  After
\* CleanUp the HCI layer, shut down with it, may still deliver a completion
\* or drop it.
HostEvent ==
  /\ evq # <<>>
  /\ evq' = Tail(evq)
  /\ \/ alive /\ w' = RunCont(w, Head(evq).cont, Head(evq).st)
     \/ ~alive /\ w' = Orphaned(w, Head(evq).cont, Head(evq).st)
     \/ ~alive /\ UNCHANGED w
  /\ UNCHANGED <<ctrl, ctrlConn, ctrlPer, addrWhileAdv, fragWhileAdv,
                 ops, ticks, reqOf, alive>>

\* A client reaches the manager through BleAdvertisingManager::Get(), the
\* weak pointer: only while it exists.
Next ==
  \/ /\ alive
     /\ \/ RegisterAdvertiser \/ StartAdvertisingSet \/ StartAdvertising \/ SetParameters
        \/ Enable \/ SetData \/ SetPeriodicAdvertisingParameters
        \/ SetPeriodicAdvertisingData \/ SetPeriodicAdvertisingEnable \/ Unregister
  \/ RaddrTimerFire \/ CleanUp \/ CtrlExecute \/ HostEvent

\* The controller executes what it is sent and the main loop drains its
\* queue; clients and the rotation timer owe nothing.
Spec == Init /\ [][Next]_vars /\ WF_vars(CtrlExecute) /\ WF_vars(HostEvent)

-----------------------------------------------------------------------------
Ops == {"rand", "params", "addr", "enable", "data", "perParams", "perEnable", "remove"}

TypeOK ==
  /\ \A f \in {"in_use", "connectable", "enable_status", "maxExtAdvEvents",
               "address_update_required", "skip_rpa", "adv_enc", "scan_enc",
               "per_enc", "per_bcast", "periodic_enabled", "raddr_armed"} :
        w.h[f] \in [Inst -> BOOLEAN]
  /\ w.h.skip_rpa_count \in [Inst -> 0 .. SkipReload]
  /\ \A f \in {"adv_size", "scan_size", "per_size"} : w.h[f] \in [Inst -> Sizes \cup {"short"}]
  /\ w.runs \in [Reqs -> Nat] /\ w.aw \subseteq Reqs
  /\ w.known \in [Inst -> BOOLEAN] /\ w.want \in [Inst -> BOOLEAN] /\ w.ps \in [Inst -> BOOLEAN]
  /\ w.freed \in BOOLEAN /\ alive \in BOOLEAN
  /\ \A k \in DOMAIN w.q : w.q[k].op \in Ops
  /\ ctrl \in [Inst -> {"absent", "idle", "adv"}]
  /\ ops \in 0 .. MaxOps /\ ticks \in 0 .. MaxTicks
  \* what only a registered slot has: the rotation alarm and a pending update
  /\ \A i \in Inst : (w.h.raddr_armed[i] \/ w.h.address_update_required[i])
                        => w.h.in_use[i]

\* Spec invariant 4: a connectable set's address changes only while it is
\* disabled.  ConfigureRpa disables an enabled connectable set before
\* SetRandomAddress, or defers the change when the set has a budget; the
\* controller never sees the address write while such a set advertises.
AddressOnlyWhileDisabled == ~addrWhileAdv

\* SetData and SetPeriodicAdvertisingData disable an enabled set before a
\* payload that does not fit one command: no fragment reaches the
\* controller while the set (or its periodic train) is enabled.
FragmentsOnlyWhileDisabled == ~fragWhileAdv

\* Every client callback runs at most once ("callbacks always fire exactly
\* once per top-level request").
CallbackAtMostOnce == \A r \in Reqs : w.runs[r] <= 1

\* ... and every client callback eventually runs, unless CleanUp tears the
\* manager down first (its weak-bound callbacks then never run).
CallbackEventuallyRuns == \A r \in Reqs : (r \in w.aw) ~> (w.runs[r] >= 1 \/ ~alive)

\* enable_status is the last scheduled enable, so it is set only on a slot
\* still registered whose owner last asked for it to be enabled: the
\* rotation's AdvertiseRestart re-enables only what it disabled.
EnabledOnlyWhenWanted ==
  \A i \in Inst : w.h.enable_status[i] => w.h.in_use[i] /\ w.want[i]

\* Unregister, called by the client or by a failing step of
\* StartAdvertisingSet, leaves the controller with nothing for the slot:
\* once every command has been executed and every completion handled, a
\* free slot has no advertising set, and no periodic train, in the
\* controller.
NoStrandedControllerSet ==
  (w.q = <<>> /\ evq = <<>>) =>
     \A i \in Inst : ~w.h.in_use[i] => ctrl[i] = "absent" /\ ~ctrlPer[i]

\* A slot taken by RegisterAdvertiserImpl is either reported to the client
\* (registration or StartAdvertisingSet success) or released again: every
\* failing step of StartAdvertisingSet unregisters the instance.
NoLeakedSlot ==
  \A i \in Inst : (w.h.in_use[i] /\ ~w.known[i]) ~> (w.known[i] \/ ~w.h.in_use[i])

\* Spec, scheduling model: callbacks arriving after CleanUp observe that the
\* manager is gone and abort without touching freed state.  The GenerateRpa
\* callbacks of RegisterAdvertiserImpl (line 565) and ConfigureRpa (line
\* 400) read the raw AdvertisingInstance* they captured before any check.
NoUseAfterCleanUp == ~w.freed
=============================================================================
