------------------------------- MODULE Mailbox -------------------------------
(***************************************************************************)
(* What an actor's mailbox promises: messages are received in the order in *)
(* which their sends took effect, each one once, and an actor that still   *)
(* has messages is never left unscheduled.                                 *)
(***************************************************************************)
EXTENDS Naturals, Sequences

CONSTANT Message

VARIABLES
  mbox,       \* the messages sent and not yet received
  scheduled   \* the actor is queued, running, or sure to be queued

Init == mbox = <<>> /\ scheduled = FALSE

Send(c) ==
  /\ mbox' = mbox \o c
  /\ scheduled' = TRUE

Receive ==
  /\ scheduled /\ mbox # <<>>
  /\ mbox' = Tail(mbox)
  /\ UNCHANGED scheduled

(* Only an actor with no message at all is taken off the schedule.         *)
Park ==
  /\ scheduled /\ mbox = <<>>
  /\ scheduled' = FALSE
  /\ UNCHANGED mbox

Next ==
  \/ \E m \in Message : Send(<<m>>)
  \/ \E m, n \in Message : Send(<<m, n>>)
  \/ Receive
  \/ Park

Spec == Init /\ [][Next]_<<mbox, scheduled>>
=============================================================================
