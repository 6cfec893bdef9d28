-------------------------------- MODULE MCOtp --------------------------------
(***************************************************************************)
(* Two codes, two requests at a time, a key that lives two ticks; three    *)
(* registrations and two logins for one address; three adders to a feed    *)
(* that keeps two activities; two calls on the rows of one push token; a   *)
(* walk over a table of settings; a query for related users while the      *)
(* world moves.  The six share no variable: each moves while the others    *)
(* are where they began, which shows every behaviour of each.              *)
(***************************************************************************)
EXTENDS PasswordReset, Registration, ActivityFeed, Devices, SettingsPages, PresenceQueries

otherVars == <<registrationVars, feedVars, deviceVars, pageVars, presenceQueryVars>>

OthersInit == RegistrationInit /\ FeedInit /\ DevicesInit /\ PagesInit /\ PresenceQueriesInit

MCInit == ResetInit /\ OthersInit

OthersNext ==
    \/ /\ FeedInit /\ DevicesInit /\ PagesInit /\ PresenceQueriesInit
       /\ RegistrationNext /\ UNCHANGED <<feedVars, deviceVars, pageVars, presenceQueryVars>>
    \/ /\ RegistrationInit /\ DevicesInit /\ PagesInit /\ PresenceQueriesInit
       /\ FeedNext /\ UNCHANGED <<registrationVars, deviceVars, pageVars, presenceQueryVars>>
    \/ /\ RegistrationInit /\ FeedInit /\ PagesInit /\ PresenceQueriesInit
       /\ DevicesNext /\ UNCHANGED <<registrationVars, feedVars, pageVars, presenceQueryVars>>
    \/ /\ RegistrationInit /\ FeedInit /\ DevicesInit /\ PresenceQueriesInit
       /\ PagesNext /\ UNCHANGED <<registrationVars, feedVars, deviceVars, presenceQueryVars>>
    \/ /\ RegistrationInit /\ FeedInit /\ DevicesInit /\ PagesInit
       /\ PresenceQueriesNext /\ UNCHANGED <<registrationVars, feedVars, deviceVars, pageVars>>

MCNext ==
    \/ OthersInit /\ ResetNext /\ UNCHANGED otherVars
    \/ ResetInit /\ OthersNext /\ UNCHANGED allVars

MCSpec == MCInit /\ [][MCNext]_<<allVars, otherVars>>
=============================================================================
