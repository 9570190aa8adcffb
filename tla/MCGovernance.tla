---------------------------- MODULE MCGovernance ----------------------------
(***************************************************************************)
(* Two proposals on public good funding: `fund` pays one recipient once,   *)
(* adds another, who is removed by `stop`, voted on and activated one      *)
(* epoch later, and does both for a third.                                 *)
(***************************************************************************)
EXTENDS Governance, TLC

CONSTANTS fund, stop, alice, bob, carol

MCSchedule ==
    (fund :> [submit |-> 0, start |-> 1, end |-> 2, activation |-> 3]) @@
    (stop :> [submit |-> 1, start |-> 2, end |-> 3, activation |-> 4])

\* Both pass, or only the removal does.
MCOutcomes == {[x \in Proposals |-> "passed"],
               [x \in Proposals |-> IF x = fund THEN "rejected" ELSE "passed"]}

MCRetro == (fund :> {alice, carol}) @@ (stop :> {})
MCAdd == (fund :> {bob, carol}) @@ (stop :> {})
MCRemove == (fund :> {}) @@ (stop :> {bob})
=============================================================================
