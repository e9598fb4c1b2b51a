-------------------------- MODULE MCAgreementSync --------------------------
(***************************************************************************)
(* Three things an agreement may say, for TLC: an ordinary one; one with   *)
(* the odd values Ramp may write; and one that no resource can be built of,*)
(* its deadline a timestamp on the day, midnight, that it ends.            *)
(***************************************************************************)
EXTENDS AgreementSync

CONSTANTS u1, u2

Date(form, at) == [form |-> form, at |-> at]

Ordinary ==
    [name |-> "term", owners |-> {u1},
     start |-> Date("day", 2), end |-> Date("timestamp", 7),
     last |-> Date("empty", 0),
     status |-> "RENEWED",
     vendor |-> [id |-> "v1", legal |-> "acme inc", name |-> "acme"],
     total |-> [amount |-> 5, currency |-> "USD", rate |-> 100],
     payee |-> [uuid |-> "p1", businessVendor |-> "v1",
                name |-> "acme", dba |-> NoName]]

Odd ==
    [Ordinary EXCEPT
        !.owners = {}, !.start = Date("empty", 0), !.last = Date("day", 6),
        !.status = "SOMETHING_NEW", !.vendor.legal = NoName,
        !.total = [amount |-> -15, currency |-> "USD", rate |-> 0],
        !.payee = [uuid |-> "v1", businessVendor |-> NoName,
                   name |-> NoName, dba |-> "acme"]]

Refusable ==
    [Ordinary EXCEPT !.owners = {u2, NoOwner}, !.vendor.legal = "acme",
                     !.end = Date("day", 6), !.last = Date("timestamp", 7)]

MCContent == {Ordinary, Odd, Refusable}
=============================================================================
