---------------------------- MODULE MCOrderDesk ----------------------------
(* Small orders: what may happen to one, what its operator may say and what  *)
(* the agent may answer, sensible or not.                                    *)
EXTENDS OrderDesk

CONSTANTS a, b, none

On(type, at, reference) == [type |-> type, at |-> at, reference |-> reference, hours |-> 1]

(* Three reports of one payment attempt: it failed, was tried again and      *)
(* confirmed, and failed.                                                    *)
PaymentEvents ==
    {On("payment_failed", 3, a), On("payment_failed", 1, a), On("payment_confirmed", 2, a)}

MCEvents ==
    {On("payment_failed", 2, a), On("payment_failed", 1, none), On("payment_confirmed", 2, a),
     On("shipment_delayed", 2, b), On("shipment_created", 1, a), On("delivered", 3, none),
     On("no_update_for_n_hours", 1, none)}

NoChanges == [speed |-> "unset", escalate |-> "unset", review |-> "unset"]

MCInstructions ==
    {[NoChanges EXCEPT !.speed = "on"]}

Quiet == [actions |-> <<>>, sleep |-> 9, hints |-> {}, refresh |-> 0]

Hint(kind, expires_at, issue, type, after) ==
    [kind |-> kind, expires_at |-> expires_at, issue |-> issue, event_type |-> type,
     after |-> after]

MCProposals ==
    {Quiet,
     [Quiet EXCEPT !.actions = <<About("message_customer", "payment"),
                                 About("message_payments_team", "payment"),
                                 About("message_logistics_team", NoIssue)>>,
                   !.sleep = 2, !.refresh = 99],
     [Quiet EXCEPT !.hints = {Hint("defer_routine", 2, NoIssue, "payment_confirmed", 0),
                              Hint("shorten_review", 4, "payment", none, 1)}, !.sleep = 2,
                   !.refresh = 4]}

MCNarratives ==
    {[says |-> {"paid", "settled"}, told |-> {}],
     [says |-> {"delivered"}, told |-> {"payments_team"}],
     [says |-> {"impossible"}, told |-> {}]}

Nothing == {}
=============================================================================
