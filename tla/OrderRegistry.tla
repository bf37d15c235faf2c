--------------------------- MODULE OrderRegistry ---------------------------
(***************************************************************************)
(* What creating runs promises, with no database and no network in it: an  *)
(* order is taken by one creation command for ever, a command takes one    *)
(* order, and the order's workflow is started at most once.                *)
(* OrderIntake is shown to implement this module.                          *)
(***************************************************************************)
EXTENDS Naturals

CONSTANTS Orders, CreateCommands, NoOne

VARIABLES owner,   \* the creation command that holds each order
          starts   \* how often each order's workflow was started

vars == <<owner, starts>>

Init ==
    /\ owner = [o \in Orders |-> NoOne]
    /\ starts = [o \in Orders |-> 0]

Register(o, c) ==
    /\ owner[o] = NoOne
    /\ \A p \in Orders : owner[p] # c
    /\ owner' = [owner EXCEPT ![o] = c]
    /\ UNCHANGED starts

Start(o) ==
    /\ owner[o] # NoOne
    /\ starts[o] = 0
    /\ starts' = [starts EXCEPT ![o] = 1]
    /\ UNCHANGED owner

Next == \E o \in Orders : Start(o) \/ \E c \in CreateCommands : Register(o, c)

Spec == Init /\ [][Next]_vars
=============================================================================
