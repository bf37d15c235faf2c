-------------------------- MODULE MCTransitionLog --------------------------
(* Four requests of one run: an order event, the same event forwarded again *)
(* under a second command, the same event identity with other content, and  *)
(* a record that claims no identity at all.                                  *)
EXTENDS TransitionLog

CONSTANTS event, command1, command2, create, d1, d2

Say(k, d) == [key |-> k, digest |-> d]

MCKeys == {event, command1, command2, create}

MCReservation == Say(create, d1)

MCRequests ==
    {[entries |-> {Say(event, d1), Say(command1, d1)}, fallback |-> {Say(command1, d1)}],
     [entries |-> {Say(event, d1), Say(command2, d1)}, fallback |-> {Say(command2, d1)}],
     [entries |-> {Say(event, d2), Say(command2, d2)}, fallback |-> {Say(command2, d2)}],
     [entries |-> {Say(NoKey, d1)}, fallback |-> {}]}
=============================================================================
