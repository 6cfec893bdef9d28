------------------------ MODULE MCNotificationUnread -------------------------
(***************************************************************************)
(* Two notifications and two requests at a time; two queued notifications  *)
(* of one receiver and a broadcast to three.  The three share no variable: *)
(* each moves while the others are where they began, which shows every     *)
(* behaviour of each.                                                      *)
(***************************************************************************)
EXTENDS NotificationUnread, NotificationJobs

MCReceiver == [n \in Notices |-> "ann"]
MCAudience == <<"ann", "bob", "eve">>

MCInit == Init /\ JobsInit

MCNext ==
    \/ JobsInit /\ Next /\ UNCHANGED jobVars
    \/ Init /\ tries = 0 /\ QueueNext /\ UNCHANGED vars
    \/ Init /\ (\A n \in Notices : notice[n] = "none") /\ BroadcastRequest /\ UNCHANGED vars

MCSpec ==
    /\ MCInit /\ [][MCNext]_<<vars, jobVars>>
    /\ WF_vars(RunOut) /\ \A r \in Requests : WF_vars(Continue(r))
    /\ JobsFairness
=============================================================================
