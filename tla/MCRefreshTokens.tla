--------------------------- MODULE MCRefreshTokens ---------------------------
(***************************************************************************)
(* Two refresh requests over the life of a first token and a bit longer;   *)
(* two sockets of one user of the Express example, on the same process or  *)
(* on two; three requests to its task routes, of which a window lets one   *)
(* through.  The three share no variable: each moves while the others are  *)
(* where they began, which shows every behaviour of each.                  *)
(***************************************************************************)
EXTENDS RefreshTokens, LegacySockets, LegacyTasks, TLC

CONSTANTS user, s1, s2, family

Permuted == Permutations(Requests)

MCUserOfSession == [s \in {s1, s2} |-> user]
MCFamilyOf == [m \in {user} |-> {family}]

MCBodies ==
    {[taskType |-> "personal", day |-> 1, assigned |-> 0, owned |-> TRUE, included |-> FALSE,
      status |-> "pending"],
     [taskType |-> "collaborative", day |-> NoDay, assigned |-> 2, owned |-> FALSE, included |-> TRUE,
      status |-> "completed"]}

MCInit == Init /\ LegacyInit /\ TasksInit

MCNext ==
    \/ LegacyInit /\ TasksInit /\ Next /\ UNCHANGED <<legacyVars, taskVars>>
    \/ Init /\ TasksInit /\ LegacyNext /\ UNCHANGED <<vars, taskVars>>
    \/ Init /\ LegacyInit /\ TasksNext /\ UNCHANGED <<vars, legacyVars>>

MCSpec == MCInit /\ [][MCNext]_<<vars, legacyVars, taskVars>>
=============================================================================
