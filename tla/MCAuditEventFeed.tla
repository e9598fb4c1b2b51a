-------------------------- MODULE MCAuditEventFeed --------------------------
(***************************************************************************)
(* Small instances of AuditEventFeed for TLC.                              *)
(***************************************************************************)
EXTENDS AuditEventFeed

MCName == {"", "contracts", "v1", "a1"}
MCUnescaped == [n \in MCName |-> n]

Plain(n) == [name |-> n, cut |-> FALSE]
VendorRef ==
    [present |-> TRUE, merchant |-> TRUE, id |-> "v1", url |-> <<Plain("v1")>>]

VendorChange   == [type |-> "lifecycle", ref |-> VendorRef]
VendorDeletion == [type |-> "deleted", ref |-> VendorRef]

Logged(entry) == [hasID |-> TRUE, parses |-> TRUE, entry |-> entry]

(* Every kind: reported, skipped, and one with neither a timestamp that    *)
(* parses nor an audit ID.                                                 *)
MixedRecords ==
    {Logged(VendorChange), Logged(VendorDeletion),
     [Logged(VendorChange) EXCEPT !.parses = FALSE, !.hasID = FALSE]}

(* Reported changes only.                                                  *)
ChangeRecords == {Logged(VendorChange)}
=============================================================================
