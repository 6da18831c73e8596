------------------------------ MODULE MC_AdvRpa ------------------------------
(* One slot, which is enough for slot reuse and for every race between a   *)
(* client and the rotation of its own set; one failing HCI status; the     *)
(* throttle reloaded with 1 instead of 15, so a skipped and a performed    *)
(* rotation both fit in two timer expiries.                                *)
EXTENDS AdvRpa

MC_InstCount == 1
MC_Statuses == {0, 1}
MC_SkipReload == 1
MC_Sizes == {"short", "long"}
MC_SizesShort == {"short"}
\* The calls a client makes on a set it registered itself.
MC_RpaClients == {"RegisterAdvertiser", "SetParameters", "Enable", "SetData",
                  "SetPeriodicAdvertisingParameters", "SetPeriodicAdvertisingData",
                  "SetPeriodicAdvertisingEnable", "Unregister"}
\* The same client, and the stack shutting the manager down under it.
MC_LifecycleClients == MC_RpaClients \cup {"CleanUp"}
\* The one-call starts, against registration, Enable and Unregister.
MC_PipeClients == {"StartAdvertisingSet", "StartAdvertising", "RegisterAdvertiser",
                   "Enable", "Unregister"}
=============================================================================
