------------------------- MODULE MCOrderSupervisor -------------------------
(* The commands of small runs.  The same event may come under two commands, *)
(* and every command may be sent again by a client that got no answer.       *)
EXTENDS OrderSupervisor

Command(id, kind, about) == [id |-> id, kind |-> kind, about |-> about]

Important == Command(1, "important", 1)
Forwarded == Command(2, "important", 1)
Pause     == Command(3, "pause", 0)
Resume    == Command(4, "resume", 0)
Terminate == Command(5, "terminate", 0)
Approve   == Command(6, "approve", 1)
Reject    == Command(7, "reject", 1)
Edited    == Command(8, "edited", 1)
Instruct  == Command(9, "instruction", 0)
Delivered == Command(10, "delivered", 2)
Routine   == Command(11, "routine", 3)
Progress  == Command(12, "progress", 4)

HoldsAndReviews == {Important, Pause, Resume, Approve, Terminate}

Everything ==
    {Important, Forwarded, Pause, Resume, Terminate, Approve, Reject, Edited, Instruct,
     Delivered, Routine, Progress}
=============================================================================
