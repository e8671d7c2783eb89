------------------------- MODULE MCRegistrationJobs -------------------------
(* Two handlers, a schedule, a registration job and a risk.                *)
EXTENDS RegistrationJobs

CONSTANTS w1, w2, sched, reg1, risk

(* The lifecycle edits: accept or resolve with a rationale, drop the       *)
(* owner, open again.                                                      *)
Edits ==
    {[status |-> "ACCEPTED", owner |-> TRUE, resolution |-> TRUE],
     [status |-> "RESOLVED", owner |-> TRUE, resolution |-> TRUE],
     [status |-> Keep, owner |-> FALSE, resolution |-> Keep],
     [status |-> "OPEN", owner |-> Keep, resolution |-> Keep]}
=============================================================================
