----------------------------- MODULE FencedJobs -----------------------------
(***************************************************************************)
(* What the ingest queue promises to the handlers that run under its       *)
(* leases, job by job and without clocks, locks or workers: a job is       *)
(* worked on under one owner at a time, its effects are written only under *)
(* the current owner, and it changes owner only between writes.  A job     *)
(* that ended stays ended.                                                 *)
(***************************************************************************)
CONSTANTS Jobs, Tokens, None

VARIABLES
  phase,    \* phase[j]: where job j is in its life
  owner,    \* owner[j]: the lease token under which j is worked on, or None
  writing   \* writing[j]: the token under which a transaction of j is open

vars == <<phase, owner, writing>>

Init ==
  /\ phase = [j \in Jobs |-> "absent"]
  /\ owner = [j \in Jobs |-> None]
  /\ writing = [j \in Jobs |-> None]

Stay(j) == phase'[j] = phase[j] /\ owner'[j] = owner[j] /\ writing'[j] = writing[j]

Submit(j) ==
  /\ phase[j] = "absent" /\ phase'[j] = "waiting"
  /\ owner'[j] = None /\ writing'[j] = writing[j]

\* First claim, or takeover of a lease that ran out.
Take(j) ==
  /\ phase[j] \in {"waiting", "owned"} /\ writing[j] = None
  /\ phase'[j] = "owned"
  /\ owner'[j] \in Tokens \ {owner[j]}
  /\ writing'[j] = None

Open(j) ==
  /\ phase[j] = "owned" /\ writing[j] = None
  /\ writing'[j] = owner[j]
  /\ phase'[j] = "owned" /\ owner'[j] = owner[j]

\* Commit and rollback alike.
Close(j) ==
  /\ writing[j] # None /\ writing'[j] = None
  /\ phase'[j] = phase[j] /\ owner'[j] = owner[j]

\* Retry, next collection cycle, or giving up on an abandoned job.
Leave(j) ==
  /\ phase[j] \in {"waiting", "owned"} /\ writing[j] = None
  /\ phase'[j] \in {"waiting", "ended"}
  /\ owner'[j] = None /\ writing'[j] = None

\* One transaction may settle several jobs.
Next == \A j \in Jobs : Stay(j) \/ Submit(j) \/ Take(j) \/ Open(j) \/ Close(j) \/ Leave(j)

Spec == Init /\ [][Next]_vars
=============================================================================
