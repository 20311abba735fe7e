------------------------------- MODULE Lease -------------------------------
(***************************************************************************)
(* What the lifecycle service and the controller promise about one name to *)
(* those who only read its root object, such as an access session.  There  *)
(* are no caches here, no versions and no reconciles: a lease is granted,  *)
(* renewed and removed, its phase is reported, and the virtual cluster     *)
(* behind it comes and goes.                                               *)
(***************************************************************************)
EXTENDS Naturals

VARIABLES
    now,
    uid,       \* the incarnation of the name, the last one when there is none
    expiresAt,
    phase,     \* "absent", "pending", "ready" or "ending"
    usable     \* there is a virtual cluster that can be used

leaseVars == <<now, uid, expiresAt, phase, usable>>

Init ==
    /\ now = 0 /\ uid = 0 /\ expiresAt = 0
    /\ phase = "absent" /\ usable = FALSE

Tick ==
    /\ now' = now + 1
    /\ UNCHANGED <<uid, expiresAt, phase, usable>>

\* An incarnation is never one that has been.
Grant ==
    /\ phase = "absent" /\ phase' = "pending"
    /\ uid' = uid + 1
    /\ expiresAt' > now
    /\ UNCHANGED <<now, usable>>

\* What was ready has to be found ready anew.
Renew ==
    /\ phase # "absent"
    /\ expiresAt' > expiresAt
    /\ phase' = IF phase = "ready" THEN "pending" ELSE phase
    /\ UNCHANGED <<now, uid, usable>>

Report ==
    /\ phase # "absent" /\ phase' \in {"pending", "ready", "ending"}
    /\ phase' = "ready" => usable \/ now >= expiresAt
    /\ UNCHANGED <<now, uid, expiresAt, usable>>

\* Nothing usable outlives its lease.
Remove ==
    /\ phase # "absent" /\ phase' = "absent"
    /\ ~usable /\ expiresAt' = 0
    /\ UNCHANGED <<now, uid, usable>>

Provide ==
    /\ phase # "absent" /\ usable' = TRUE
    /\ UNCHANGED <<now, uid, expiresAt, phase>>

\* A lease that is shown ready is not taken away before its time.
Withdraw ==
    /\ phase = "ready" => now >= expiresAt
    /\ usable' = FALSE
    /\ UNCHANGED <<now, uid, expiresAt, phase>>

Next == Tick \/ Grant \/ Renew \/ Report \/ Remove \/ Provide \/ Withdraw

Spec == Init /\ [][Next]_leaseVars

\* What is shown ready and has not run out is there.
Backed == phase = "ready" /\ now < expiresAt => usable

===========================================================================
