---------------------------- MODULE JobLifecycle ----------------------------
(***************************************************************************)
(* What the queue promises about a job, without rows, leases, workers or   *)
(* reapers: an accepted job is open until one of its runs succeeds or all  *)
(* the runs it was granted are used up; only then does it become a dead    *)
(* letter, and only an operator opens it again, with a new grant.  A job   *)
(* whose runs are used up may be given a late one: this is what becomes of *)
(* a lease that runs out in the middle of a reaper's pass.                 *)
(***************************************************************************)
EXTENDS Naturals

CONSTANTS
    Jobs,       \* job ids
    Granted,    \* the runs each job is accepted with
    Regranted   \* the runs a replayed job gets

VARIABLES
    state,  \* of each job: "none", "open", "done" or "dead"
    left,   \* the granted runs it has left
    late    \* the late runs it was given and has not used

vars == <<state, left, late>>

Init ==
    /\ state = [j \in Jobs |-> "none"]
    /\ left = [j \in Jobs |-> 0]
    /\ late = [j \in Jobs |-> 0]

\* Job j is now in state s with n granted runs and m late ones left.
Becomes(j, s, n, m) == state'[j] = s /\ left'[j] = n /\ late'[j] = m

Accept(j) == state[j] = "none" /\ Becomes(j, "open", Granted[j], 0)

Run(j) ==
    /\ state[j] = "open"
    /\ left[j] > 0
    /\ Becomes(j, "open", left[j] - 1, late[j])

GiveLate(j) ==
    /\ state[j] = "open"
    /\ left[j] = 0
    /\ Becomes(j, "open", 0, late[j] + 1)

RunLate(j) ==
    /\ state[j] = "open"
    /\ left[j] = 0
    /\ late[j] > 0
    /\ Becomes(j, "open", 0, late[j] - 1)

Succeed(j) == state[j] = "open" /\ Becomes(j, "done", left[j], late[j])

Bury(j) == state[j] = "open" /\ left[j] = 0 /\ Becomes(j, "dead", 0, 0)

Reopen(j) == state[j] = "dead" /\ Becomes(j, "open", Regranted, 0)

Stay(j) == Becomes(j, state[j], left[j], late[j])

\* One pass of a reaper moves many jobs at once: each takes a step of its own.
Next ==
    \A j \in Jobs :
        \/ Accept(j) \/ Run(j) \/ GiveLate(j) \/ RunLate(j)
        \/ Succeed(j) \/ Bury(j) \/ Reopen(j) \/ Stay(j)

Spec == Init /\ [][Next]_vars

=============================================================================
