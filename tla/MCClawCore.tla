----------------------------- MODULE MCClawCore -----------------------------
(* ClawCore on small instances: two receiving tasks, which are alike, and up *)
(* to three requests, of which one comes from the event router (published,   *)
(* response queue skipped).                                                  *)
EXTENDS ClawCore

LOCAL INSTANCE TLC

AnyReceiver == Permutations(Clients)
=============================================================================
