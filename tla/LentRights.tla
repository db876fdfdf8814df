------------------------------ MODULE LentRights ------------------------------
(***************************************************************************)
(* What a deployer expects of a routine that hands one of the market's     *)
(* rights to a helper contract: the helper gets it for a set of jobs, only *)
(* then does the jobs, and the right comes back when they are done.  A     *)
(* routine that dies in between leaves the right where it is.              *)
(***************************************************************************)
CONSTANT Jobs

VARIABLES holder,           \* "owner" or "helper"
          done,             \* the jobs that were done with the right
          orphaned          \* the routine died while the right was out

vars == <<holder, done, orphaned>>

Init == holder = "owner" /\ done = {} /\ orphaned = FALSE

Lend ==
    /\ holder = "owner" /\ holder' = "helper"
    /\ UNCHANGED <<done, orphaned>>

Work ==
    /\ holder = "helper"
    /\ done' \in SUBSET Jobs /\ done \subseteq done' /\ done' # done
    /\ UNCHANGED <<holder, orphaned>>

Return ==
    /\ holder = "helper" /\ holder' = "owner"
    /\ done = Jobs \/ orphaned
    /\ UNCHANGED <<done, orphaned>>

Orphan ==
    /\ ~orphaned /\ orphaned' = TRUE
    /\ UNCHANGED <<holder, done>>

Next == Lend \/ Work \/ Return \/ Orphan

\* A routine that is alive does the jobs and gives the right back.
Fairness ==
    /\ WF_vars(Work /\ done' = Jobs /\ ~orphaned)
    /\ WF_vars(Return /\ ~orphaned)

Spec == Init /\ [][Next]_vars /\ Fairness
=============================================================================
