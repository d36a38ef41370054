------------------------------- MODULE MCTeam -------------------------------
(* Instances of Team small enough for TLC. *)
EXTENDS Team, TLC

Everything == {"roles", "remove", "transfer", "invite", "accept", "revoke",
               "join", "leave"}
RoleChanges == {"roles", "remove", "transfer"}
RoleOps == {"roles", "remove", "join"}

SomeRoleSets == {{"Owner"}, {"Admin", "Other"}, {}}

\* The founder and its email are not interchangeable with the others.
Symmetry == Permutations(Users \ {Founder}) \cup Permutations(InviteIds)
              \cup Permutations(Requests)
=============================================================================
