---------------------------- MODULE RunContract ----------------------------
(***************************************************************************)
(* What the program promises an operator about backup runs, with no        *)
(* workers, leases, files or crashes: a request is accepted once per       *)
(* profile; an accepted run becomes ready only with its artifact retained, *)
(* and the artifact stays until the run has ended; only a failed run whose *)
(* artifact is still retained can be taken up again.  RunLifecycle         *)
(* implements it.                                                          *)
(***************************************************************************)
CONSTANTS
    Run,        \* run identities
    ProfileOf   \* the profile of each

VARIABLES
    st,     \* st[r]: how far run r is
    kept    \* kept[r]: a verified artifact of r is retained in the spool

vars == <<st, kept>>

Live    == {"accepted", "ready"}
Ended   == {"delivered", "failed", "cancelled", "skipped"}

Alone(r) == \A q \in Run \ {r} : ProfileOf[q] = ProfileOf[r] => st[q] \notin Live
Becomes(r, s) == st' = [st EXCEPT ![r] = s]

Init ==
    /\ st = [r \in Run |-> "absent"]
    /\ kept = [r \in Run |-> FALSE]

Accept(r)  == st[r] = "absent" /\ Alone(r) /\ Becomes(r, "accepted") /\ UNCHANGED kept
Overlap(r) == st[r] = "absent" /\ ~Alone(r) /\ Becomes(r, "skipped") /\ UNCHANGED kept

\* The artifact is retained and recorded in the step that makes the run ready.
Ready(r) ==
    /\ st[r] = "accepted"
    /\ Becomes(r, "ready")
    /\ kept' = [kept EXCEPT ![r] = TRUE]

Deliver(r) == st[r] = "ready" /\ Becomes(r, "delivered") /\ UNCHANGED kept
GiveUp(r)  == st[r] \in Live /\ Becomes(r, "failed") /\ UNCHANGED kept
Cancel(r)  == st[r] \in Live /\ Becomes(r, "cancelled") /\ UNCHANGED kept

\* Cleanup, retention and purge discard artifacts, of ended runs only; a worker
\* that starts discards several at once.
Discard ==
    /\ UNCHANGED st
    /\ kept' \in [Run -> BOOLEAN]
    /\ \A r \in Run : kept'[r] # kept[r] => kept[r] /\ st[r] \in Ended

Retry(r) ==
    /\ st[r] = "failed" /\ kept[r] /\ Alone(r)
    /\ Becomes(r, "ready")
    /\ UNCHANGED kept

Next ==
    \/ Discard
    \/ \E r \in Run : \/ Accept(r) \/ Overlap(r) \/ Ready(r) \/ Deliver(r)
                      \/ GiveUp(r) \/ Cancel(r) \/ Retry(r)

Spec == Init /\ [][Next]_vars
=============================================================================
