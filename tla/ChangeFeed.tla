----------------------------- MODULE ChangeFeed -----------------------------
(***************************************************************************)
(* What an event feed promises the platform, whatever its cursor looks     *)
(* like: changes are published, reported, or absorbed by a full sync, and  *)
(* the feed may pass a change -- never report it from then on -- only once *)
(* the platform has it.  A change that was passed stays passed.            *)
(***************************************************************************)
CONSTANT Change

VARIABLES
    published,    \* changes the feed could report
    reported,     \* changes reported and checkpointed
    absorbed,     \* changes a full sync has covered
    passed        \* changes the feed will not report any more

vars == <<published, reported, absorbed, passed>>

Init ==
    /\ published = {}
    /\ reported = {}
    /\ absorbed = {}
    /\ passed = {}

(* The feed forgets nothing it passed, and passes only what is known.      *)
Advance ==
    /\ passed \subseteq passed'
    /\ passed' \subseteq published \cap (reported' \cup absorbed')

Publish ==
    /\ \E x \in Change \ published : published' = published \cup {x}
    /\ UNCHANGED <<reported, absorbed, passed>>

Report ==
    /\ \E S \in SUBSET published : reported' = reported \cup S
    /\ Advance
    /\ UNCHANGED <<published, absorbed>>

Absorb ==
    /\ absorbed' = published
    /\ Advance
    /\ UNCHANGED <<published, reported>>

Next == Publish \/ Report \/ Absorb

Spec == Init /\ [][Next]_vars
=============================================================================
