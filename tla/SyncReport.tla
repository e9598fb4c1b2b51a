----------------------------- MODULE SyncReport -----------------------------
(***************************************************************************)
(* What a full sync promises the platform about things that change, come   *)
(* and go while it runs: each is reported at most once, with a value it    *)
(* has had in a known window of time, and the sync is complete only when   *)
(* all that were there throughout have been reported.  The window begins   *)
(* no later than the report.  A sync that fails leaves no trace of what it *)
(* reported.                                                               *)
(***************************************************************************)
CONSTANTS
    Item, Value,
    None         \* no such thing; nothing reported

VARIABLES
    truth,       \* the value of each item
    window,      \* the values it has had since the window began
    report       \* the report of the sync under way

vars == <<truth, window, report>>

Empty == [i \in Item |-> None]
Now   == [i \in Item |-> {truth[i]}]

Init ==
    /\ truth \in [Item -> Value \cup {None}]
    /\ window = Now
    /\ report = Empty

Change ==
    /\ truth' \in [Item -> Value \cup {None}]
    /\ window' = [i \in Item |-> window[i] \cup {truth'[i]}]
    /\ UNCHANGED report

Report(i) ==
    /\ report[i] = None
    /\ \E x \in window[i] \ {None} : report' = [report EXCEPT ![i] = x]
    /\ UNCHANGED <<truth, window>>

(* A new window begins only while nothing is reported.                     *)
Renew ==
    /\ report = Empty
    /\ window' = Now
    /\ UNCHANGED <<truth, report>>

Complete ==
    /\ \A i \in Item : None \notin window[i] => report[i] # None
    /\ report' = Empty
    /\ window' \in {window, Now}
    /\ UNCHANGED truth

Abandon ==
    /\ report' = Empty
    /\ UNCHANGED <<truth, window>>

Next ==
    \/ Change
    \/ \E i \in Item : Report(i)
    \/ Renew
    \/ Complete
    \/ Abandon

Spec == Init /\ [][Next]_vars
=============================================================================
