--------------------------- MODULE MC_AdvFragmenter ---------------------------
(* Payload lengths around the 251- and 252-byte chunk limits: empty, one    *)
(* byte, exactly one chunk, one byte over, two and three chunks.           *)
EXTENDS AdvFragmenter

MC_Lens == {0, 1, 251, 252, 253, 502, 503, 504, 505}
MC_Statuses == {0, 1}
=============================================================================
