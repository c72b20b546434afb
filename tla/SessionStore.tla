---------------------------- MODULE SessionStore ----------------------------
(***************************************************************************)
(* What session locking promises to PHP scripts, seen from the server      *)
(* alone: every session has a value and at most one lease.  A lease is     *)
(* granted once in its life.  It ends when it is released or when its time *)
(* is up, and a session is written under the lease in force.  The promise  *)
(* is void, and says so, for a lease that lapsed: its holder does not know *)
(* yet that it has no longer the right to write.                           *)
(***************************************************************************)
CONSTANTS Sessions, Leases, None

VARIABLES
    owner,    \* owner[s]: the lease on s in force, or None
    value,    \* value[s]: the lease under which s was written last, or None
    granted,  \* leases granted so far
    lapsed    \* leases whose time was up, or whose write came too late

vars == <<owner, value, granted, lapsed>>

Init ==
    /\ owner = [s \in Sessions |-> None]
    /\ value = [s \in Sessions |-> None]
    /\ granted = {}
    /\ lapsed = {}

\* t stands for a lease that the step itself determines (owner'[s], value'[s]),
\* for Leases may be infinite.
Grant(s, t) ==
    /\ owner[s] = None
    /\ t \in Leases \ granted
    /\ owner' = [owner EXCEPT ![s] = t]
    /\ granted' = granted \cup {t}
    /\ UNCHANGED <<value, lapsed>>

Release(s) ==
    /\ owner' = [owner EXCEPT ![s] = None]
    /\ UNCHANGED <<value, granted, lapsed>>

TimeOut(s) ==
    /\ owner[s] # None
    /\ owner' = [owner EXCEPT ![s] = None]
    /\ lapsed' = lapsed \cup {owner[s]}
    /\ UNCHANGED <<value, granted>>

Write(s, t) ==
    /\ owner[s] = t \/ t \in lapsed
    /\ value' = [value EXCEPT ![s] = t]
    /\ UNCHANGED <<owner, granted, lapsed>>

\* A write its sender had given up on
LateWrite(s, t) ==
    /\ t \in granted
    /\ value' = [value EXCEPT ![s] = t]
    /\ lapsed' = lapsed \cup {t}
    /\ UNCHANGED <<owner, granted>>

\* The session is destroyed, or older than its lifetime
Erase(s) ==
    /\ value' = [value EXCEPT ![s] = None]
    /\ UNCHANGED <<owner, granted, lapsed>>

Next ==
    \E s \in Sessions :
        \/ Release(s) \/ TimeOut(s) \/ Erase(s)
        \/ Grant(s, owner'[s])
        \/ Write(s, value'[s]) \/ LateWrite(s, value'[s])

Spec == Init /\ [][Next]_vars

=============================================================================
