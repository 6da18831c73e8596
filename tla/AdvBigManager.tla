---------------------------- MODULE AdvBigManager ----------------------------
(***************************************************************************)
(* The BIG manager of btm_ble_multi_adv.cc: the iso_big_inst table,        *)
(* CreateBIG, TerminateBIG, their completions (CreateBIGComplete,          *)
(* TerminateBIGComplete), and the BIG teardown Unregister does for the     *)
(* advertiser a BIG is bound to.  Of an advertising instance only in_use   *)
(* and big_handle matter here.                                             *)
(*                                                                         *)
(* Like the advertising commands, BIG commands go to the controller in     *)
(* order (cmdq) and their completions come back in order (evq).  A Create  *)
(* BIG that the controller rejects, and a Terminate BIG whose command      *)
(* status is an error, report with cmd_status; a successful Terminate BIG  *)
(* reports with its event.                                                 *)
(***************************************************************************)
EXTENDS Integers, Sequences, FiniteSets

CONSTANTS
  InstCount,       \* inst_count: advertising slots and BIG slots alike
  Statuses,        \* statuses the controller may answer with (0 = success)
  MaxOps,          \* bound on client requests
  IsoBroadcaster,  \* supports_ble_iso_broadcaster()
  CarefulClient    \* clients end a BIG, and wait, before Unregister or a new TerminateBIG

ASSUME /\ InstCount \in Nat \ {0} /\ 0 \in Statuses
       /\ MaxOps \in Nat /\ IsoBroadcaster \in BOOLEAN /\ CarefulClient \in BOOLEAN

Inst == 0 .. InstCount - 1
Reqs == 1 .. MaxOps
INVALID_BIG_HANDLE == 255
HCI_ERR_ILLEGAL_COMMAND == 1
NoCb == 0

VARIABLES
  in_use, big_handle,            \* AdvertisingInstance fields
  b_in_use, created_status,      \* IsoBIGInstance fields
  adv_inst_id, create_big_cb, terminate_big_cb,
  cmdq, evq, ctrl,               \* HCI channels; BIGs alive in the controller
  ops, cbRuns, awaiting,         \* client requests and their callbacks
  gen,                           \* the CreateBIG request holding each BIG slot
  terminated,                    \* requests whose BIG the host asked to end
  failed,                        \* requests whose LE Create BIG failed
  released                       \* requests whose BIG slot was released

adv_vars  == <<in_use, big_handle>>
big_vars  == <<b_in_use, created_status, adv_inst_id, create_big_cb, terminate_big_cb>>
hci_vars  == <<cmdq, evq, ctrl>>
hist_vars == <<ops, cbRuns, awaiting, gen, terminated, failed, released>>
vars == <<adv_vars, big_vars, hci_vars, hist_vars>>

NewReq(r) == /\ ops < MaxOps /\ r = ops + 1 /\ ops' = r

\* Running a callback the request r passed.
RunCb(r) ==
  /\ cbRuns' = [cbRuns EXCEPT ![r] = @ + 1]
  /\ awaiting' = awaiting \ {r}

\* Running a callback stored in a slot, if one is stored.
RunStoredCb(c) == IF c = NoCb THEN UNCHANGED <<cbRuns, awaiting>> ELSE RunCb(c)

\* (mutant) created_status left set on release
ReleaseSlot_KeepCreated(b) ==
  /\ b_in_use' = [b_in_use EXCEPT ![b] = FALSE]
  /\ UNCHANGED created_status
  /\ released' = IF b_in_use[b] THEN released \cup {gen[b]} ELSE released

\* Releasing BIG slot b: the fields Unregister and both completions clear.
\* The release is recorded against the request that allocated the slot.
ReleaseSlot(b) ==
  /\ b_in_use' = [b_in_use EXCEPT ![b] = FALSE]
  /\ created_status' = [created_status EXCEPT ![b] = FALSE]
  /\ released' = IF b_in_use[b] THEN released \cup {gen[b]} ELSE released

Init ==
  /\ in_use = [i \in Inst |-> FALSE]
  /\ big_handle = [i \in Inst |-> INVALID_BIG_HANDLE]
  /\ b_in_use = [b \in Inst |-> FALSE]
  /\ created_status = [b \in Inst |-> FALSE]
  /\ adv_inst_id = [b \in Inst |-> 0]
  /\ create_big_cb = [b \in Inst |-> NoCb]
  /\ terminate_big_cb = [b \in Inst |-> NoCb]
  /\ cmdq = <<>> /\ evq = <<>>
  /\ ctrl = [b \in Inst |-> FALSE]
  /\ ops = 0
  /\ cbRuns = [r \in Reqs |-> 0]
  /\ awaiting = {}
  /\ gen = [b \in Inst |-> 0]
  /\ terminated = {}
  /\ failed = {}
  /\ released = {}

-----------------------------------------------------------------------------
(* RegisterAdvertiserImpl: the first free advertising slot; big_handle is  *)
(* left as it is.                                                          *)
RegisterAdvertiser ==
  \E r \in Reqs :
    /\ NewReq(r)
    /\ \E i \in Inst : /\ ~in_use[i]
                       /\ \A k \in Inst : ~in_use[k] => i <= k
                       /\ in_use' = [in_use EXCEPT ![i] = TRUE]
    /\ UNCHANGED <<big_handle, big_vars, hci_vars, cbRuns, awaiting, gen,
                   terminated, failed, released>>

(* Unregister, its BIG part: terminate a bound BIG on the controller and   *)
(* release its slot at once, then free the advertising slot.  A careful    *)
(* client first terminates the BIG and waits for its release.              *)
Unregister ==
  \E r \in Reqs, i \in Inst :
    /\ NewReq(r)
    /\ in_use[i]
    /\ CarefulClient => big_handle[i] = INVALID_BIG_HANDLE
    /\ LET b == big_handle[i] IN
       IF IsoBroadcaster /\ b # INVALID_BIG_HANDLE
         THEN /\ cmdq' = Append(cmdq, [op |-> "terminate", big |-> b, gen |-> gen[b]])
              /\ ReleaseSlot(b)
              /\ terminated' = terminated \cup {gen[b]}
              /\ big_handle' = [big_handle EXCEPT ![i] = INVALID_BIG_HANDLE]
         ELSE UNCHANGED <<cmdq, b_in_use, created_status, released, terminated,
                          big_handle>>
    /\ in_use' = [in_use EXCEPT ![i] = FALSE]
    /\ UNCHANGED <<adv_inst_id, create_big_cb, terminate_big_cb, evq, ctrl,
                   cbRuns, awaiting, gen, failed>>

\* (mutant) the slot allocated but p_inst->big_handle never set
CreateBIG_NoBind ==
  \E r \in Reqs, i \in Inst :
    /\ NewReq(r)
    /\ in_use[i] /\ big_handle[i] = INVALID_BIG_HANDLE
    /\ IF IsoBroadcaster /\ \E b \in Inst : ~b_in_use[b]
         THEN LET b == CHOOSE c \in Inst : ~b_in_use[c] /\ \A k \in Inst : ~b_in_use[k] => c <= k
              IN /\ b_in_use' = [b_in_use EXCEPT ![b] = TRUE]
                 /\ adv_inst_id' = [adv_inst_id EXCEPT ![b] = i]
                 /\ create_big_cb' = [create_big_cb EXCEPT ![b] = r]
                 /\ cmdq' = Append(cmdq, [op |-> "create", big |-> b, gen |-> r])
                 /\ gen' = [gen EXCEPT ![b] = r]
                 /\ awaiting' = awaiting \cup {r}
                 /\ UNCHANGED <<cbRuns, big_handle>>
         ELSE /\ RunCb(r)
              /\ UNCHANGED <<b_in_use, adv_inst_id, create_big_cb, big_handle, cmdq, gen>>
    /\ UNCHANGED <<in_use, created_status, terminate_big_cb, evq, ctrl, terminated,
                   failed, released>>

(* CreateBIG by the owner of a registered set holding no BIG (the code    *)
(* checks neither): take the first free BIG slot, bind it to the set and   *)
(* issue LE Create BIG; with no free slot, or without ISO broadcaster      *)
(* support, fail synchronously.                                            *)
CreateBIG ==
  \E r \in Reqs, i \in Inst :
    /\ NewReq(r)
    /\ in_use[i] /\ big_handle[i] = INVALID_BIG_HANDLE
    /\ IF IsoBroadcaster /\ \E b \in Inst : ~b_in_use[b]
         THEN LET b == CHOOSE c \in Inst : ~b_in_use[c] /\ \A k \in Inst : ~b_in_use[k] => c <= k
              IN /\ b_in_use' = [b_in_use EXCEPT ![b] = TRUE]
                 /\ adv_inst_id' = [adv_inst_id EXCEPT ![b] = i]
                 /\ create_big_cb' = [create_big_cb EXCEPT ![b] = r]
                 /\ big_handle' = [big_handle EXCEPT ![i] = b]
                 /\ cmdq' = Append(cmdq, [op |-> "create", big |-> b, gen |-> r])
                 /\ gen' = [gen EXCEPT ![b] = r]
                 /\ awaiting' = awaiting \cup {r}
                 /\ UNCHANGED cbRuns
         ELSE /\ RunCb(r)
              /\ UNCHANGED <<b_in_use, adv_inst_id, create_big_cb, big_handle, cmdq, gen>>
    /\ UNCHANGED <<in_use, created_status, terminate_big_cb, evq, ctrl, terminated,
                   failed, released>>

\* (mutant) the synchronous failure for an uncreated BIG also waits for a
\* completion: its callback runs twice
TerminateBIG_NoReturn ==
  \E r \in Reqs, i \in Inst :
    /\ NewReq(r)
    /\ in_use[i]
    /\ CarefulClient => \A b \in Inst : terminate_big_cb[b] \notin awaiting
    /\ LET b == big_handle[i] IN
       IF ~IsoBroadcaster \/ b >= InstCount
         THEN /\ RunCb(r)
              /\ UNCHANGED <<terminate_big_cb, adv_inst_id, cmdq, terminated>>
         ELSE /\ terminate_big_cb' = [terminate_big_cb EXCEPT ![b] = r]
              /\ adv_inst_id' = [adv_inst_id EXCEPT ![b] = i]
              /\ cmdq' = Append(cmdq, [op |-> "terminate", big |-> b, gen |-> gen[b]])
              /\ terminated' = terminated \cup {gen[b]}
              /\ IF created_status[b]
                   THEN /\ awaiting' = awaiting \cup {r}
                        /\ UNCHANGED cbRuns
                   ELSE RunCb(r)
    /\ UNCHANGED <<adv_vars, b_in_use, created_status, create_big_cb, evq, ctrl,
                   gen, failed, released>>

(* TerminateBIG by the owner of a set, for the BIG handle it holds: record *)
(* the callback and owner, and issue LE Terminate BIG if the BIG was       *)
(* created; an invalid handle or an uncreated BIG fails synchronously.  A  *)
(* careful client does not call it again before its callback ran.          *)
TerminateBIG ==
  \E r \in Reqs, i \in Inst :
    /\ NewReq(r)
    /\ in_use[i]
    /\ CarefulClient => \A b \in Inst : terminate_big_cb[b] \notin awaiting
    /\ LET b == big_handle[i] IN
       IF ~IsoBroadcaster \/ b >= InstCount
         THEN /\ RunCb(r)
              /\ UNCHANGED <<terminate_big_cb, adv_inst_id, cmdq, terminated>>
         ELSE /\ terminate_big_cb' = [terminate_big_cb EXCEPT ![b] = r]
              /\ adv_inst_id' = [adv_inst_id EXCEPT ![b] = i]
              /\ IF created_status[b]
                   THEN /\ cmdq' = Append(cmdq, [op |-> "terminate", big |-> b, gen |-> gen[b]])
                        /\ terminated' = terminated \cup {gen[b]}
                        /\ awaiting' = awaiting \cup {r}
                        /\ UNCHANGED cbRuns
                   ELSE /\ RunCb(r)
                        /\ UNCHANGED <<cmdq, terminated>>
    /\ UNCHANGED <<adv_vars, b_in_use, created_status, create_big_cb, evq, ctrl,
                   gen, failed, released>>

-----------------------------------------------------------------------------
(* The controller executes the head command.  Create BIG fails for a       *)
(* handle already in use; Terminate BIG fails for an unknown one.          *)
CtrlExecute ==
  /\ cmdq # <<>>
  /\ LET c == Head(cmdq) IN
     \E st \in Statuses :
       LET ok == st = 0 /\ (IF c.op = "create" THEN ~ctrl[c.big] ELSE ctrl[c.big])
           code == IF ok THEN 0 ELSE IF st # 0 THEN st ELSE 2
       IN /\ cmdq' = Tail(cmdq)
          /\ ctrl' = IF ok THEN [ctrl EXCEPT ![c.big] = (c.op = "create")] ELSE ctrl
          /\ evq' = Append(evq, [op |-> c.op, big |-> c.big, status |-> code,
                                 cmd_status |-> ~ok, gen |-> c.gen])
  /\ UNCHANGED <<adv_vars, big_vars, hist_vars>>

\* (mutant) the status test inverted
CreateBIGComplete_StatusInverted(e) ==
  LET b == e.big IN
  /\ IF e.status # 0
       THEN /\ created_status' = [created_status EXCEPT ![b] = TRUE]
            /\ UNCHANGED <<b_in_use, big_handle, released>>
       ELSE /\ b_in_use' = [b_in_use EXCEPT ![b] = FALSE]
            /\ big_handle' = [big_handle EXCEPT ![adv_inst_id[b]] = INVALID_BIG_HANDLE]
            /\ released' = IF b_in_use[b] THEN released \cup {gen[b]} ELSE released
            /\ UNCHANGED created_status
  /\ failed' = IF e.status = 0 THEN failed ELSE failed \cup {e.gen}
  /\ RunStoredCb(create_big_cb[b])
  /\ UNCHANGED <<in_use, adv_inst_id, create_big_cb, terminate_big_cb, gen, terminated>>

(* CreateBIGComplete: mark created, or release the slot and unbind it from *)
(* the advertiser it records; run the stored create callback.              *)
CreateBIGComplete(e) ==
  LET b == e.big IN
  /\ IF e.status = 0
       THEN /\ created_status' = [created_status EXCEPT ![b] = TRUE]
            /\ UNCHANGED <<b_in_use, big_handle, released>>
       ELSE /\ b_in_use' = [b_in_use EXCEPT ![b] = FALSE]
            /\ big_handle' = [big_handle EXCEPT ![adv_inst_id[b]] = INVALID_BIG_HANDLE]
            /\ released' = IF b_in_use[b] THEN released \cup {gen[b]} ELSE released
            /\ UNCHANGED created_status
  /\ failed' = IF e.status = 0 THEN failed ELSE failed \cup {e.gen}
  /\ RunStoredCb(create_big_cb[b])
  /\ UNCHANGED <<in_use, adv_inst_id, create_big_cb, terminate_big_cb, gen, terminated>>

\* (mutant) the terminate callback run only when the BIG was released
TerminateBIGComplete_CbOnRelease(e) ==
  LET b == e.big IN
  /\ IF ~e.cmd_status
       THEN /\ ReleaseSlot(b)
            /\ big_handle' = [big_handle EXCEPT ![adv_inst_id[b]] = INVALID_BIG_HANDLE]
            /\ RunStoredCb(terminate_big_cb[b])
       ELSE UNCHANGED <<b_in_use, created_status, released, big_handle, cbRuns, awaiting>>
  /\ UNCHANGED <<in_use, adv_inst_id, create_big_cb, terminate_big_cb, gen, terminated, failed>>

(* TerminateBIGComplete: unless it reports a failed command status,        *)
(* release the slot and unbind it from the advertiser it records; run the  *)
(* stored terminate callback.                                              *)
TerminateBIGComplete(e) ==
  LET b == e.big IN
  /\ IF ~e.cmd_status
       THEN /\ ReleaseSlot(b)
            /\ big_handle' = [big_handle EXCEPT ![adv_inst_id[b]] = INVALID_BIG_HANDLE]
       ELSE UNCHANGED <<b_in_use, created_status, released, big_handle>>
  /\ RunStoredCb(terminate_big_cb[b])
  /\ UNCHANGED <<in_use, adv_inst_id, create_big_cb, terminate_big_cb, gen, terminated, failed>>

HostEvent ==
  /\ evq # <<>>
  /\ evq' = Tail(evq)
  /\ IF Head(evq).op = "create" THEN CreateBIGComplete(Head(evq))
                                ELSE TerminateBIGComplete(Head(evq))
  /\ UNCHANGED <<cmdq, ctrl, ops>>

Next ==
  \/ RegisterAdvertiser \/ Unregister \/ CreateBIG \/ TerminateBIG
  \/ CtrlExecute \/ HostEvent

\* The controller answers every command and the main loop handles every
\* completion; clients are not obliged to act.
Spec == Init /\ [][Next]_vars /\ WF_vars(CtrlExecute) /\ WF_vars(HostEvent)

-----------------------------------------------------------------------------
Handle == Inst \cup {INVALID_BIG_HANDLE}

TypeOK ==
  /\ in_use \in [Inst -> BOOLEAN] /\ big_handle \in [Inst -> Handle]
  /\ b_in_use \in [Inst -> BOOLEAN] /\ created_status \in [Inst -> BOOLEAN]
  /\ \A b \in Inst : created_status[b] => b_in_use[b]
  /\ adv_inst_id \in [Inst -> Inst]
  /\ create_big_cb \in [Inst -> Reqs \cup {NoCb}]
  /\ terminate_big_cb \in [Inst -> Reqs \cup {NoCb}]
  /\ ctrl \in [Inst -> BOOLEAN]
  /\ cbRuns \in [Reqs -> Nat] /\ awaiting \subseteq Reqs

\* A BIG slot is released only for a BIG the host ended (TerminateBIG or
\* Unregister) or whose own LE Create BIG failed, and so at most once per
\* CreateBIG: no late completion frees a slot a newer CreateBIG holds
\* (spec: a BIG handle is released exactly once).
ReleaseOnlyEnded == released \subseteq terminated \cup failed

\* Every BIG slot in use is bound to a registered advertiser that records
\* it, so Unregister of that advertiser will terminate it; no completion
\* unbinds another advertiser's BIG.
NoOrphanBig ==
  \A b \in Inst :
    b_in_use[b] => in_use[adv_inst_id[b]] /\ big_handle[adv_inst_id[b]] = b

\* The CreateBIG and TerminateBIG callbacks run once per request.
BigCallbackAtMostOnce == \A r \in Reqs : cbRuns[r] <= 1

\* ... and every one that went to the controller eventually runs.
BigCallbackEventuallyRuns == \A r \in Reqs : (r \in awaiting) ~> (cbRuns[r] >= 1)
=============================================================================
