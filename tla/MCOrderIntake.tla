--------------------------- MODULE MCOrderIntake ---------------------------
(* Two clients want the same order, one of them reuses its command for      *)
(* another order, and an operator sends a command to whatever run exists.    *)
EXTENDS OrderIntake

CONSTANTS order1, order2, create1, create2, pause, d1, d2, e1, e2, c1, c2

New(c, o, d) == [command |-> c, order |-> o, digest |-> d]

MCCreates == {New(create1, order1, d1), New(create2, order1, d1), New(create1, order2, d2)}
=============================================================================
