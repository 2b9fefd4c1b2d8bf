---------------------------- MODULE TrialMailbox ----------------------------
(***************************************************************************)
(* What boot_trial.h promises: one mailbox that holds a handoff from the   *)
(* bootloader, a confirmation from the application it started, or nothing. *)
(* An operation replaces the content at once or, when a reset cuts it,     *)
(* empties the mailbox; only a handoff can become a confirmation, of the   *)
(* same slot and sequence.  WarmResetMailboxes implements it.              *)
(***************************************************************************)
CONSTANTS Trials,  \* the pairs of slot and sequence that can be handed over
          NoToken  \* nothing that either side would accept

Handoff(t) == [kind |-> "handoff", trial |-> t]
Confirmation(t) == [kind |-> "confirm", trial |-> t]

VARIABLES content,  \* what a reader accepts now
          goal      \* what the operation in progress will leave

mailVars == <<content, goal>>

MailInit == content = NoToken /\ goal = NoToken

Publish(t) == goal' = Handoff(t) /\ UNCHANGED content

\* The application may confirm only the trial it was handed.
Arm(t) == content = Handoff(t) /\ goal' = Confirmation(t) /\ UNCHANGED content

\* Any other operation, and every reset, has no new content in mind.
Leave == goal' = NoToken /\ UNCHANGED content

Write == content' = goal /\ UNCHANGED goal

Empty == content' = NoToken /\ goal' \in {goal, NoToken}

MailNext ==
    \/ \E t \in Trials : Publish(t) \/ Arm(t)
    \/ Leave
    \/ Write
    \/ Empty

MailSpec == MailInit /\ [][MailNext]_mailVars
=============================================================================
